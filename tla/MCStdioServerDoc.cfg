SPECIFICATION Spec
CONSTANTS
  N = 2
  InCap = 2
  OutCap = 1
  Faults = FALSE
  Scripts <- MCPairs
INVARIANT UnparseableIsAnswered
