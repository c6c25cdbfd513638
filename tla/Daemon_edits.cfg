SPECIFICATION Spec
CONSTANTS
  f1 = f1 f2 = f2 m1 = m1 e1 = e1 e2 = e2
  i1 = i1 i2 = i2
  CertFile = CertFile
  None = None
  Files <- TwoFiles
  Sources <- TwoSources
  Unwatched <- SecondFile
  Closures <- EitherClosure
  Identities <- TwoIdentities
  Envs <- TwoEnvs
  Overflows = TRUE
  MaxChanges = 3
  MaxRequests = 2
CHECK_DEADLOCK FALSE
SYMMETRY Interchangeable
INVARIANTS HitsAreTrue RequestGoesOn
PROPERTY RejectionIsOfWhatWasRead
