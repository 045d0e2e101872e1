CONSTANTS
  Thread = {t1, t2, t3}
  Path <- TreePath
  Root = "/"
  Kind <- TreeKind
  Entries <- TreeEntries
  NoPath = NoPath
SPECIFICATION FairSpec
INVARIANT OneSearcherPerDirectory
INVARIANT NothingLeftBehind
INVARIANT ResultIsExact
PROPERTY SearchIsComplete
