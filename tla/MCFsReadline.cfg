SPECIFICATION Spec
CONSTANTS
  Chars = {a, NUL}
  Erasers = {BS, DEL}
  Newlines = {LF, CR}
  NUL = NUL
  BufLen = 6
  SizeMax = 15
INVARIANTS
  TypeOK
  OnlyTheLine
PROPERTIES
  ImplementsLineEditor
