SPECIFICATION FsSpec
CONSTANTS
  Threads = {t1, t2, t3}
  Nobody = none
INVARIANT Quiescent
PROPERTIES FlushCompletes StoppedIsWoken
CHECK_DEADLOCK FALSE
