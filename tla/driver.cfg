SPECIFICATION Spec
CONSTANTS
  Blocks <- MCBlocks
  ChainLen = 2
  MaxNodes = 12
INVARIANTS NothingLost LinksConsistent InProgramOrder
PROPERTIES Finishes
