SPECIFICATION Spec
CONSTANTS
  None = None
  Failed = Failed
  k1 = k1  k2 = k2
  j1 = j1  j2 = j2  j3 = j3  j4 = j4
  Key = {k1, k2}
  Job = {j1, j2, j3, j4}
  JobKey <- ThreeAndOne
  Caller = {loop}
  QueueCap = 2
  ContextAPI = TRUE
  HookSet = TRUE
  DiskFaults = TRUE
INVARIANTS TypeOK OneProviderPerThread TokensFollowSessions WorkspaceOutlivesProvider UnansweredIsHeld
PROPERTIES ContractHolds
CHECK_DEADLOCK FALSE
