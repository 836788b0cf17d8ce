SPECIFICATION Spec
CONSTANTS
  Base = 20
  Str = 8
  List = 12
  ShortMax = 2
  Nesting = 2
  Word = 2
  AddrLen = 1
  Half = 1
  NonceEnd = 400
  Ten = 2
  Nineteen = 6
  LetterE = 7
  SelectorLen = 1
  WordBits = 3
  CheckEvery = 8
  Sizes = {1, 2}
  HashByte <- MCHashByte
  Hardened = 9
  MinSeed = 2
  SeedLen = 4
  HashLen <- MCHashLen
  MaxBlocks = 3
  MaxKeyLength = 7
  EntryPoints <- MCEntryPoints
  Calls <- MCCalls
INVARIANT OneMeaning
INVARIANT OneDigest
