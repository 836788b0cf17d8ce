SPECIFICATION Spec
CONSTANTS
  Base = 16
  Word = 2
  Types <- MCTypes
  Depth <- MCDepth
  Values <- MCValues
  SelLen = 2
  Methods <- MCMethods
  Errors <- MCErrors
  Events <- MCEvents
  ErrorDecl <- MCErrorDecl
  PanicDecl <- MCPanicDecl
  NoDecl <- MCNoDecl
  Suffix <- MCSuffix
INVARIANT RefusesPastItsEnd
