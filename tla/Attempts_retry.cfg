SPECIFICATION FairSpec
CONSTANTS
  test = test
  tool = tool
  Workers <- Both
  Cancellers = {1, 2}
  Commands <- TwoThenOne
  Tests <- JustTest
  Retries <- OneRetry
  RunsPerTest = {0, 2}
  Limited <- JustTest
  Stubborn <- JustTest
  None = None
INVARIANTS ProcessesAreHeld ResultsAreEarned
PROPERTY CommandsStop
