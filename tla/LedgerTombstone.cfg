SPECIFICATION Spec
CONSTANTS
  Attempts = {a1, a2}
  None = None
  Envelope = 5
  Cap = 8
  MaxTemps = 2
CHECK_DEADLOCK FALSE
INVARIANT TombstoneIsEmpty
