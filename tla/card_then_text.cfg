CONSTANTS
  MaxSends = 2
  OwnTasks = 0
  CardHooks = TRUE
  Faults = FALSE
  LateEncodes = FALSE
SPECIFICATION Spec
CHECK_DEADLOCK FALSE
INVARIANTS
  TextsAreInjected
