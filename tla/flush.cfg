SPECIFICATION FlushSpec
CONSTANTS
  Threads = {t1, t2}
  Members = {t1, t2}
  Nobody = none
  Frags = {k, f1, f2}
  Kept = k
  NoFrag = none
  LazyDeletionMaxPending = 1
  MaxFlushes = 2
  Builds = {"debug", "release"}
SYMMETRY Symmetry
INVARIANTS NoUseAfterFree RefCountCovers ListsSorted MoveClaimed
PROPERTIES FollowsFlushSynch
CHECK_DEADLOCK FALSE
