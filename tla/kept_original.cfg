SPECIFICATION Spec
CONSTANTS
  KRegs <- MCKRegs
  Gprs <- MCGprs
  First <- NarrowAnd
  Later <- NarrowAnd
  MaxInstrs = 1
  Starts <- MCStarts
  Careful = FALSE
  Processors = {FALSE}
INVARIANT MaskAgrees
