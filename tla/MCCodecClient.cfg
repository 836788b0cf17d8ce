SPECIFICATION Spec
CONSTANTS
  Bits = 3
  Off = 2
  Chunk = 2
  Samples <- MCSamples
  EvmWord = 4
  Z85Bytes = 2
  Z85Chars = 3
  Z85Radix = 41
  VarintBytes = 10
  Long = 8
  Short = 4
  WordBits = 3
  CheckEvery = 8
  Sizes = {1, 2}
  HashByte <- MCHashByte
  CInt = 16777216
  RlpBase = 20
  RlpStr = 8
  RlpList = 12
  RlpShortMax = 2
  RlpNesting = 4
  Codecs <- MCCodecs
  ValuesOf <- MCValuesOf
  WiresOf <- MCWiresOf
  LettersOf <- MCLettersOf
INVARIANT RoundTrip
INVARIANT TruncatedNeverDecodes
INVARIANT ReencodeNoLonger
INVARIANT DecodedReencodes
INVARIANT OneSpelling
INVARIANT TypoCaught
INVARIANT RootsInjective
