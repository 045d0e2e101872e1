CONSTANTS
  Heaps = {h1}
  MaxItems = 4
  Orders <- Repeated
  Diffs = {1}
  MaxChanges = 2
  Careful = FALSE
SPECIFICATION Spec
PROPERTY MinIsDeleted
CHECK_DEADLOCK FALSE
