SPECIFICATION OneBootSpec
CONSTANTS
  Attempts = {a1, a2}
  None = None
  Envelope = 4
  Cap = 7
  MaxTemps = 1
CHECK_DEADLOCK FALSE
PROPERTY CommandsEnd
