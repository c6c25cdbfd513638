SPECIFICATION PersistenceSpec
CONSTANTS
  a1 = a1
  a2 = a2
  Ids <- MCIds
  MaxRuns = 3
  MaxCrashes = 1
  MaxDamages = 1
  CompactAbove = 3
  ShortWrites = TRUE
  Unreadable = Unreadable
  None = None
  c1 = c1
  c2 = c2
  v1 = v1
  v2 = v2
  x = x
  y = y
  NoBlob = NoBlob
  Clients <- MCClients
  Blobs <- MCBlobs
  Layout <- MCLayout
  Big <- MCBig
  MaxFaults = 1
  MaxCollections = 1
  MaxVictims = 2
INVARIANTS ReportsSurvive RestoredIsAsked
PROPERTIES WritesCostNothing Heals
