SPECIFICATION Spec
CONSTANTS
  Readers = {r1}
  N = 3
  Attempts = 4
  Gaps = FALSE
  Faults = FALSE
CHECK_DEADLOCK FALSE
PROPERTIES
  DecryptedWhenComplete
