SPECIFICATION Spec
CONSTANTS
  Shells = {s1}
  Chars = {a}
  FF = FF
  EOT = EOT
  NUL = NUL
  LineSize = 5
  SizeMax = 7
  MaxSessions = 2
INVARIANTS
  TypeOK
  EvaluatesWhatWasTyped
CHECK_DEADLOCK FALSE
