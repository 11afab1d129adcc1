SPECIFICATION Spec
CONSTANTS
  MaxSends = 1
  UserSends = 0
  Addrs = {1, 2}
  LateFactory = TRUE
  LostCancels = FALSE
  CardHooks = TRUE
CHECK_DEADLOCK FALSE
INVARIANTS
  FailedMeansNotSent
