----------------------------- MODULE FsReadline -----------------------------
(***************************************************************************)
(* lua_fs_shell_readline (src/luaz_fs_shell.c:142-180), called by the      *)
(* `lua_fs write` command once per line.  The transport's read is polled   *)
(* by WAIT_FOR, whose timeout leaves the character undetermined: a key is  *)
(* any character, the zero byte too, whether somebody typed it or not.     *)
(***************************************************************************)
EXTENDS Naturals, Sequences

CONSTANTS
  Chars,    \* ordinary characters
  Erasers,  \* BS and DEL
  Newlines, \* \n and \r
  NUL,      \* the zero byte
  BufLen,   \* sizeof(line) in cmd_write
  SizeMax   \* the largest size_t

ASSUME BufAssumption == BufLen \in Nat \ {0, 1} /\ SizeMax \in Nat /\ SizeMax >= BufLen

VARIABLES
  buf,    \* the caller's buffer
  i,      \* the write position
  status  \* "reading"; "line": returned i; "eof": returned with *eof set

vars == <<buf, i, status>>

Zeroed == [j \in 0..(BufLen - 1) |-> NUL]

Init == buf = Zeroed /\ i = 0 /\ status = "reading"

\* The loop test: past the last usable position the function returns.
AfterKey(pos) == IF pos < BufLen - 1 THEN "reading" ELSE "line"

\* Mutant: the test for an empty line is missing, as in shell_getline.
EraseUnguarded(k) ==
  /\ status = "reading"
  /\ i' = (i + SizeMax) % (SizeMax + 1)
  /\ buf' = [buf EXCEPT ![i'] = NUL]
  /\ status' = AfterKey(i')

\* Mutant: the last byte of the buffer takes a character.
AppendOverTerminator(k) ==
  /\ status = "reading"
  /\ buf' = [buf EXCEPT ![i] = k]
  /\ i' = i + 1
  /\ status' = IF i' < BufLen THEN "reading" ELSE "line"

\* Mutant: the erased byte is not cleared.
EraseKeepsByte(k) ==
  /\ status = "reading"
  /\ i > 0
  /\ i' = i - 1
  /\ status' = AfterKey(i')
  /\ UNCHANGED buf

EraseKey(k) ==
  /\ status = "reading"
  /\ i > 0
  /\ i' = i - 1
  /\ buf' = [buf EXCEPT ![i'] = NUL]
  /\ status' = AfterKey(i')

CharKey(k) ==
  /\ status = "reading"
  /\ buf' = [buf EXCEPT ![i] = k]
  /\ i' = i + 1
  /\ status' = AfterKey(i')

EofKey ==
  /\ status = "reading"
  /\ status' = "eof"
  /\ UNCHANGED <<buf, i>>

NewlineKey(k) ==
  /\ status = "reading"
  /\ status' = "line"
  /\ UNCHANGED <<buf, i>>

\* The caller used the line and reads the next one: memset, i = 0.
Begin ==
  /\ status # "reading"
  /\ buf' = Zeroed
  /\ i' = 0
  /\ status' = "reading"

Next ==
  \/ \E k \in Erasers : EraseKey(k)
  \/ \E k \in Chars : CharKey(k)
  \/ EofKey
  \/ \E k \in Newlines : NewlineKey(k)
  \/ Begin

Spec == Init /\ [][Next]_vars

-----------------------------------------------------------------------------
(* Correctness.                                                            *)

\* Every variable holds a value of its kind.
TypeOK ==
  /\ buf \in [0..(BufLen - 1) -> Chars \cup {NUL}]
  /\ i \in 0..(BufLen - 1)
  /\ status \in {"reading", "line", "eof"}

\* Whatever was typed and erased, only the line is in the buffer: the bytes from
\* i on are zero, the last one always.
OnlyTheLine == \A j \in DOMAIN buf : j >= i => buf[j] = NUL

\* The function is a line editor: see LineEditor.
Editor == INSTANCE LineEditor WITH
  line <- [j \in 1..i |-> buf[j - 1]], Cap <- BufLen - 1

ImplementsLineEditor == Editor!Spec
=============================================================================
