CONSTANTS
  Client = {"c1", "c2"}
  Printable = {x, y}
  Unprintable = {z}
  File <- TwoFiles
  UINT = 4
  WORD = 2
  WaitAll = TRUE
  ClientsDie = TRUE
  Interrupts = TRUE
  NULL = NULL
  Garbage = Garbage
  x = x
  y = y
  z = z
SPECIFICATION FairSpec
INVARIANT AnswersAreExact
INVARIANT SummaryOfAnswered
INVARIANT NoSummaryMidClient
PROPERTY ClientsAreServed
