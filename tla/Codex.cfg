SPECIFICATION FairSpec
CONSTANTS
  None = None
  Failed = Failed
  MaxCall = 4
INVARIANTS TypeOK CleanTurnIsExact ToldOnce
PROPERTIES CleanTurnReturns ReaderEndReleases
CHECK_DEADLOCK FALSE
