SPECIFICATION Spec
CONSTANTS
  p = p c = c d = d t = t x = x y = y z = z
  w1 = w1 w2 = w2 w3 = w3
  None = None
  Workers <- ThreeWorkers
  Actions <- MixedActions
  Producers <- MixedProducers
  Precached <- MixedPrecached
  Position <- MixedPosition
  Priority <- ChainPriority
  Demand <- MixedDemand
  Tests <- TwoTests
  Exclusive <- OneExclusive
  Limits <- ThreeThree
  TestJobs = 1
  KeepGoing = FALSE
  DryRun = FALSE
SYMMETRY WorkerSymmetry
INVARIANTS BudgetRespected PoolAgrees
PROPERTY ImplementsBuildOrder
