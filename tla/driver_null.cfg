SPECIFICATION Spec
CONSTANTS
  Blocks <- MCNull
  ChainLen = 2
  MaxNodes = 6
INVARIANTS NeverCrashes
