CONSTANTS
  Thread = {t1, t2}
  Item = {i1}
  MaxCalls = 1
  SpuriousWakeups = FALSE
  MallocData <- AnyPointer
  NULL = NULL
  Junk = Junk
SPECIFICATION FairSpec
CHECK_DEADLOCK FALSE
PROPERTY HandedOverReturns
