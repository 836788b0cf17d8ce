SPECIFICATION Spec
CONSTANTS
  P = 79
  B = 7
  Q = 67
  G <- MCG
  W2 = 128
  TopBit = 64
  PubPoint <- MCPubPoint
  Keys <- MCKeys
  Digests <- MCDigests
  Presented <- MCPresented
  Addresses <- MCAddresses
  Absent = Absent
INVARIANT TypeOK
INVARIANT ConversionsKeepSignature
INVARIANT SignerRecovered
INVARIANT SignedIsValid
INVARIANT VerifySound
