----------------------------- MODULE LineEditor -----------------------------
(***************************************************************************)
(* What reading one line at a shell prompt means: characters are appended, *)
(* an erase removes the last one if there is one, and the line is complete *)
(* at a newline, at an end of file, or when the buffer is full             *)
(* (src/luaz_repl.c:37-47).  A new line starts empty.                      *)
(***************************************************************************)
EXTENDS Naturals, Sequences, SequencesExt

CONSTANTS
  Chars,  \* what can be part of a line
  Cap     \* characters a line can hold

VARIABLES
  line,   \* the characters typed and not erased
  status  \* "reading", or how the read ended: "line" or "eof"

vars == <<line, status>>

Init == line = <<>> /\ status = "reading"

Type(c) ==
  /\ status = "reading"
  /\ line' = Append(line, c)
  /\ status' = IF Len(line') = Cap THEN "line" ELSE "reading"

Erase ==
  /\ status = "reading"
  /\ line # <<>>
  /\ line' = Front(line)
  /\ UNCHANGED status

End ==
  /\ status = "reading"
  /\ status' \in {"line", "eof"}
  /\ UNCHANGED line

NewLine ==
  /\ status # "reading"
  /\ line' = <<>>
  /\ status' = "reading"

Next == (\E c \in Chars : Type(c)) \/ Erase \/ End \/ NewLine

Spec == Init /\ [][Next]_vars
=============================================================================
