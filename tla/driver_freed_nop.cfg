SPECIFICATION Spec
CONSTANTS
  Blocks <- MCEmpty
  ChainLen = 2
  MaxNodes = 6
INVARIANTS HeapPartition
