SPECIFICATION FairSpec
CONSTANTS
  None = None
  Failed = Failed
  MaxCall = 5
  MaxChunk = 1
INVARIANTS TypeOK WholeText ForeignTextOnlyAfterTimeout NothingLeftBehind
PROPERTIES ReadErrorReleasesCalls CloseCompletes AgentRequestsAnswered
CHECK_DEADLOCK FALSE
