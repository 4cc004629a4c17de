SPECIFICATION BenchSpec
CONSTANTS
  Threads = {t1, t2, t3}
  Clients = {t1, t2, t3}
  SpinlockCount = 1
  MaxDepth = 2
  INVALID_THREAD_ID = none
  NoWriter = none
  Controllers = {c1, c2, c3}
  Nobody = none
INVARIANTS
  MutualExclusion
  FreeIffUnowned
  NoLostWakeup
  RecursiveOwnership
  WriterAlone
  ReadersCounted
  OneWaiterPerSignal
  SignalNotMissed
  SuspendedMeansParked
  NoReentry
PROPERTIES
  ImplementsLock
  ImplementsFairLock
  WriterGetsIn
  EventDelivered
  SuspendReturns
