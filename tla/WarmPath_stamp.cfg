SPECIFICATION Spec
CONSTANTS
  Rules = {1, 2}
  Stamped = {2}
  Contents = {1, 2}
  Checkout <- MCCheckout
  Makes <- MCMakes
  MaxEdits = 2
  MaxCrashes = 1
  MaxPlans = 1
  None = None
  Damaged = Damaged
CHECK_DEADLOCK FALSE
INVARIANT StampReachesOutput
