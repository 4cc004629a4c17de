SPECIFICATION Spec
CONSTANTS
  SlotFirst = 10
  SlotLast = 15
  DR_REG_NULL <- MCNull
  LowRegs = {0, 1, 10, 11, 12, 13, 14, 15}
  HighRegs = {16, 17, 18}
  Programs <- Rewrites
  NoInstr <- MCNoInstr
  Value <- MCValue
  Op <- MCOp
  Zero <- MCZero
  Initial <- MCInitial
INVARIANT Encodable
PROPERTIES ImplementsIsa FollowsDiscipline
