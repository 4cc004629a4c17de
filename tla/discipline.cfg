SPECIFICATION Spec
CONSTANTS
  r10 = r10
  r11 = r11
  r16 = r16
  v1 = v1
  v2 = v2
  LowRegs = {r10, r11}
  HighRegs = {r16}
  SpillRegs = {r10, r11}
  Value = {v1, v2}
  NoDest = NoDest
  Idle = Idle
SYMMETRY ValueSymmetry
INVARIANTS TypeOK Recoverable NothingLeaks
