SPECIFICATION Spec
CONSTANTS
  KRegs <- MCKRegs
  Gprs <- MCGprs
  First <- AllInstrs
  Later <- Readers
  MaxInstrs = 2
  Starts <- MCStarts
  Careful = TRUE
  Processors = {TRUE, FALSE}
INVARIANTS MaskAgrees NoScratchLeak MaskRecoverable
