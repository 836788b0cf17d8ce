SPECIFICATION Spec
CONSTANTS
  None <- MCNone
  Bodies = {1}
  ChainIds <- MCZeroChain
  WildVs = {}
INVARIANT SigningHashStable
