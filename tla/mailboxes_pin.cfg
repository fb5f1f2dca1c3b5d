SPECIFICATION Spec
CONSTANTS
  Mailbox = {m1, m2}
  Number = {n100, n101}
  None = None
  MaxEdits = 2
  MaxFaults = 0
PROPERTY PinSurvives
CHECK_DEADLOCK FALSE
