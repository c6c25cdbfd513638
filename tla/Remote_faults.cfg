CONSTANTS
  None = None
  Half = Half
  Damaged = Damaged
  Malformed = Malformed
  Workspaces = {"here", "there"}
  ActionsOf <- MCActionsOf
  Outputs <- MCOutputs
  Contents = {0, 1}
  Checkout <- MCCheckout
  Earlier <- MCEarlier
  Includes = {1}
  Makes <- MCMakes
  Backends = {"directory", "reapi"}
  Uploaders = {"here"}
  MaxEdits = 1
  MaxFaults = 1
  MaxBuilds = 2
SPECIFICATION Spec
CHECK_DEADLOCK FALSE
INVARIANTS RemoteIsTransparent EntriesAreTraces
PROPERTY BuildsEnd
