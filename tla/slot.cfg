CONSTANTS
  Process = {p1, p2}
  Minor = {m1}
  Message <- Texts
  Length <- TextLength
  MAXIMAL_BUFFER = 2
  Param = {0, 1, 2}
  UINT = 4
  Slots = {s1}
  Buffers = {b1, b2, b3}
  NULL = NULL
  empty = empty
  one = one
  two = two
  three = three
  Freed = Freed
  Mixed = Mixed
SPECIFICATION SpecBoth
INVARIANT OneChannelPerId
INVARIANT CallsLeakNothing
PROPERTY KeepsPromise
PROPERTY CppKeepsPromise
SYMMETRY Symmetry
