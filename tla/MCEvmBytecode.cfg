SPECIFICATION Spec
CONSTANTS
  Instructions <- MCInstructions
  MaxProgram = 3
  Nesting = 4
  Trailers <- MCTrailers
  Limits <- MCLimits
INVARIANT PagesComplete
INVARIANT SelectorsReal
INVARIANT MetadataPeeled
