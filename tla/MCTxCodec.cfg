SPECIFICATION Spec
CONSTANTS
  None <- MCNone
  Bodies = {1}
  ChainIds <- MCChainIds
  WildVs <- MCWildVs
INVARIANT SigningHashStable
INVARIANT SignerShown
INVARIANT ChainKept
INVARIANT ReencodeIdentity
INVARIANT NeverRefused
