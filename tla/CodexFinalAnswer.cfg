SPECIFICATION Spec
CONSTANTS
  None = None
  Failed = Failed
  MaxCall = 4
INVARIANTS FinalAnswerIsSent
CHECK_DEADLOCK FALSE
