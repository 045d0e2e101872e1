CONSTANTS
  WordBits = 9
  PageShift = 4
  IndexBits = 1
  Levels = 3
  NPAGES = 6
  FirstFrame = 5
  Table = {"t1", "t2"}
  VPN <- ThreeLevelPages
  PPN = {9}
  TableX = {t1, t2, t3}
  NO_MAPPING = NO_MAPPING
SPECIFICATION BothSpec
CHECK_DEADLOCK FALSE
SYMMETRY Symmetry
INVARIANT Forest
 
PROPERTY KeepsMapping
