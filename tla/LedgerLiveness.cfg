SPECIFICATION FairSpec
CONSTANTS
  Attempts = {a1}
  None = None
  Envelope = 5
  Cap = 8
  MaxTemps = 2
CHECK_DEADLOCK FALSE
PROPERTY CommandsEnd
