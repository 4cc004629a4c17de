SPECIFICATION SySpec
CONSTANTS
  Threads = {a, b, c}
  Nobody = none
  Clients = {c}
  Started = {a}
  Initiators = {a, b}
  Aborting = {a}
  MayFail = {a, b}
  MaxLoops = 1
  MaxPending = 2
INVARIANT EverybodyResumed
CHECK_DEADLOCK FALSE
