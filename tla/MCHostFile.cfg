SPECIFICATION Spec
CONSTANTS
  Files = {f1, f2}
  Missing = Missing
  Directory = Directory
  MaxLen = 5
  MaxGen = 1
  Chunk = 2
  KeyLen = 1
  KeyFileMax = 4
SYMMETRY FilesSymmetry
INVARIANT OneVersion
INVARIANT KeyOfItsFile
INVARIANT BareOnlyIfRaced
