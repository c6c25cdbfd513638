CONSTANTS
  None = None
  Labels <- MCLabels
  Platforms = {"arm"}
  Tools <- MCTools
  PlatformTools <- MCPlatformTools
  Kofunc = {"host"}
  Groups <- MCGroups
  Fetches <- MCFetches
  Materialized = {"dep"}
  DefaultTargets = {}
  Disk <- MCDisk
  StampPrefix = {"STABLE_V"}
  Workspaces <- MCWorkspaces
  Configs <- MCConfigs
  Profiles = {"release"}
  Fold <- MCFold
  Recorded <- MCRecorded
  Requests <- MCRequests
  Budgets <- MCBudgets
  Planned <- MCPlanned
SPECIFICATION PlanSpec
CHECK_DEADLOCK FALSE
INVARIANTS ReadsAreOrdered ExportsReach ConfigurationsApart QueriesAreRight PlanIsSound
