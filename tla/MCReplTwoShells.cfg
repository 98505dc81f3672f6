SPECIFICATION Spec
CONSTANTS
  Shells = {s1, s2}
  Chars = {a}
  FF = FF
  EOT = EOT
  NUL = NUL
  LineSize = 5
  SizeMax = 7
  MaxSessions = 2
INVARIANTS
  RunsInItsOwnHeap
CHECK_DEADLOCK FALSE
