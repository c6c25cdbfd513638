SPECIFICATION FairSpec
CONSTANTS
  p = p c = c d = d t = t x = x y = y z = z
  w1 = w1 w2 = w2 w3 = w3
  None = None
  Workers <- TwoWorkers
  Actions <- MixedActions
  Producers <- MixedProducers
  Precached <- MixedPrecached
  Position <- MixedPosition
  Priority <- FifoPriority
  Demand <- MixedDemand
  Tests <- TwoTests
  Exclusive <- NoActions
  Limits <- ThreeThree
  TestJobs = 0
  KeepGoing = TRUE
  DryRun = TRUE
INVARIANTS
  NothingBuiltOnFailure
  WorkGoesOn
PROPERTY
  WorkIsDone
