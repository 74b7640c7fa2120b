SPECIFICATION FairSpec
CONSTANTS
  None = None
  a1 = a1  a2 = a2  a3 = a3  b1 = b1  again = again  A = A  B = B
  Source = {a1, a2, a3, b1}
  Msg = {a1, a2, a3, b1, again}
  SourceOf <- Sources
  Thread = {A, B}
  ThreadOf <- Threads
  Workloads <- AllWorkloads
  Item = {"shell", "search"}
  QueueCap = 1
INVARIANTS TypeOK AnsweredOnceInOrder StatusIsOwed AloneShowsStatus PhaseIsCurrent
PROPERTY EveryMessageSettled
CHECK_DEADLOCK FALSE
