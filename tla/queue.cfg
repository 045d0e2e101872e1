CONSTANTS
  Thread = {t1, t2, t3}
  Item = {i1, i2}
  MaxCalls = 2
  SpuriousWakeups = TRUE
  MallocData <- AnyPointer
  NULL = NULL
  Junk = Junk
SPECIFICATION FairSpec
CHECK_DEADLOCK FALSE
INVARIANT TypeOK
INVARIANT MutualExclusion
INVARIANT ExactlyOnce
INVARIANT WaitingIsExact
INVARIANT LinkedNodesWait
PROPERTY HandOverIsTransfer
PROPERTY SleeperReturns
