SPECIFICATION Spec
CONSTANTS
  Loaders = {l1}
  Writers = {w1}
  Paths = {p1}
  Lines = {a, b}
  NoFile = NoFile
  MaxFile = 1
  MaxLines = 2
  MaxLost = 1
INVARIANTS
  TypeOK
  BufferHolds
  LoadsOneVersion
  NothingLeaks
PROPERTIES
  WriteFileTellsTheTruth
