SPECIFICATION Spec
CONSTANTS
  Started = {"isolate"}
  None = None
  Loops = {"watch", "dev", "bazel", "run", "debug"}
  Sources = {1, 2}
  Compiles <- MCCompiles
  Manifests <- MCManifests
  Tools = {"gdb", "node"}
  Runners = {FALSE}
  MaxEvents = 2
  Clients = {"c1", "c2"}
  Frostds = {1, 2}
  Protocols = {1, 2}
  Commands <- MCCommandPairs
  MaxPolls = 2
  MaxMishaps = 1
  Closures <- MCClosures
  Workers = {1, 2}
  Invocations <- MCInvocations
  May <- MCMay
  Texts <- MCTexts
  HomeOf <- MCHomeOf
  OtherUris = {"src"}
  Methods = {"completion", "definition", "references", "hover"}
  MaxTurns = 4
  MaxUnread = 2
  Actions <- MCReporting
  Programs <- MCPrograms
  Trees <- MCTrees
  Supported <- MCSupported
  Modes = {"none", "sandbox", "hermetic"}
  Materialize = {"auto", "copy"}
  MaxKills = 1
  Fetchers = {f1, f2}
  Declarations <- MCDeclarations
  Archives <- MCArchives
  Dirs = {"v", "w"}
  Own = "own"
  Edited = "edited"
  Releases <- MCReleases
  RunningVersion = 2
  MaxActs = 3
  MaxFaults = 1
  Blobs = {"big", "full", "half", "command", "action"}
  Size <- MCSize
  Limit = 4
  Overhead = 1
  Keys = {"k"}
  ActionBlobs <- MCActionBlobs
  Uploads <- MCUploads
  Servers = {{"SHA256", "BLAKE3"}, {"BLAKE3"}}
  MaxCalls = 3
  Tampered = "tampered"
CHECK_DEADLOCK FALSE
INVARIANT
  ReportsAreRebased
