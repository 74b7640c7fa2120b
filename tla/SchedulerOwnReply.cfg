SPECIFICATION Spec
CONSTANTS
  None = None
  Failed = Failed
  k1 = k1  k2 = k2
  j1 = j1  j2 = j2  j3 = j3  j4 = j4
  Key = {k1}
  Job = {j1, j2, j3}
  JobKey <- ThreeInOneThread
  Caller = {loop}
  QueueCap = 2
  ContextAPI = FALSE
  HookSet = FALSE
  DiskFaults = FALSE
INVARIANTS ReplyAnswersOwnMessage
CHECK_DEADLOCK FALSE
