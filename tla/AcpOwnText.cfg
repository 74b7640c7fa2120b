SPECIFICATION Spec
CONSTANTS
  None = None
  Failed = Failed
  MaxCall = 4
  MaxChunk = 1
INVARIANTS TextIsOwn
CHECK_DEADLOCK FALSE
