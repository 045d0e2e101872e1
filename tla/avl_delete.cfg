CONSTANTS
  Trees <- OneTree
  Keys <- TwelveKeys
  Built <- Deep
  MaxCalls = 2
  Avoided = {"root"}
SPECIFICATION Spec
CHECK_DEADLOCK FALSE
PROPERTY KeepsPromise
