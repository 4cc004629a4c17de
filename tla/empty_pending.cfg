SPECIFICATION FlushSpec
CONSTANTS
  Threads = {t1, t2}
  Members = {t1, t2}
  Nobody = none
  Frags = {k, f1, f2}
  Kept = k
  NoFrag = none
  LazyDeletionMaxPending = 0
  MaxFlushes = 2
  Builds = {"debug", "release"}
SYMMETRY Symmetry
PROPERTIES FreedEntryHasFragments
CHECK_DEADLOCK FALSE
