SPECIFICATION Spec
CONSTANTS
  s = s
  h = h
  g = g
  o = o
  p = p
  gen = gen
  cc = cc
  ld = ld
  Sources <- MCSources
  Actions <- MCActions
  Declared <- MCDeclared
  OrderOnly <- MCOrderOnly
  Outputs <- MCOutputs
  Versions = {1, 2}
  Includes <- MCIncludes
  Makes <- MCMakes
  Checkouts <- MCCheckouts
  MaxEdits = 2
  MaxCrashes = 1
  MaxLosses = 1
  Missing = Missing
  Garbage = Garbage
  None = None
INVARIANTS CleanBuildHolds RecordsAreTrue
