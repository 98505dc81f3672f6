-------------------------------- MODULE Repl --------------------------------
(***************************************************************************)
(* The `lua` shell command (src/luaz_repl.c): a read-eval-print loop whose *)
(* heap and input line are one static struct, `self`, however many shells  *)
(* the firmware has.  A shell runs its commands on its own thread.         *)
(*                                                                         *)
(* As in FsReadline, a key is any character; what differs from the editor  *)
(* there is in EraseKey (no test for an empty line), in EofKey (Ctrl+D is  *)
(* seen only when its echo was written, and becomes a character otherwise) *)
(* and in the form feed, which clears the screen and joins the line.       *)
(***************************************************************************)
EXTENDS Integers, Sequences, SequencesExt

CONSTANTS
  Shells,      \* shell instances
  Chars,       \* ordinary characters
  FF, EOT,     \* Ctrl+L and Ctrl+D
  NUL,         \* the zero byte
  LineSize,    \* CONFIG_LUA_REPL_LINE_SIZE
  SizeMax,     \* the largest size_t
  MaxSessions  \* bound: commands started

ASSUME LineAssumption ==
  /\ LineSize \in Nat \ {0, 1}
  /\ SizeMax \in Nat /\ SizeMax >= LineSize

ASSUME BoundAssumption == MaxSessions \in Nat

VARIABLES
  inits,   \* how often the static heap was initialised
  guard,   \* the byte before input_line, the last of `self.lua_heap`
  buf,     \* self.input_line
  pc,      \* pc[s]: "off", "prompt", "read" or "eval"
  state,   \* state[s]: the initialisation s's Lua state lives in, 0 if none
  i,       \* i[s]: the write position of s's getline
  last,    \* last[s]: the last key s's getline took
  typed    \* history: typed[s], the line s's keys spell

vars == <<inits, guard, buf, pc, state, i, last, typed>>

Keys == Chars \cup {FF, EOT, "BS", "NL"}

Zeroed == [j \in 0..(LineSize - 1) |-> NUL]

Init ==
  /\ inits = 0
  /\ guard = "intact"
  /\ buf = Zeroed
  /\ pc = [s \in Shells |-> "off"]
  /\ state = [s \in Shells |-> 0]
  /\ i = [s \in Shells |-> 0]
  /\ last = [s \in Shells |-> "none"]
  /\ typed = [s \in Shells |-> <<>>]

-----------------------------------------------------------------------------
(* lua_repl_cmd                                                            *)

\* sys_heap_init, lua_newstate: the state is made in the static heap.
Start(s) ==
  /\ pc[s] = "off"
  /\ inits < MaxSessions
  /\ inits' = inits + 1
  /\ state' = [state EXCEPT ![s] = inits']
  /\ pc' = [pc EXCEPT ![s] = "prompt"]
  /\ UNCHANGED <<guard, buf, i, last, typed>>

\* lua_newstate found no room: the command ends, the heap was reset anyway.
StartFails(s) ==
  /\ pc[s] = "off"
  /\ inits < MaxSessions
  /\ inits' = inits + 1
  /\ state' = [state EXCEPT ![s] = 0]
  /\ UNCHANGED <<guard, buf, pc, i, last, typed>>

\* Mutant: the old line is not cleared.
PromptDirty(s) ==
  /\ pc[s] = "prompt"
  /\ i' = [i EXCEPT ![s] = 0]
  /\ last' = [last EXCEPT ![s] = "none"]
  /\ typed' = [typed EXCEPT ![s] = <<>>]
  /\ pc' = [pc EXCEPT ![s] = "read"]
  /\ UNCHANGED <<inits, guard, buf, state>>

\* The prompt, and shell_getline's memset.
Prompt(s) ==
  /\ pc[s] = "prompt"
  /\ buf' = Zeroed
  /\ i' = [i EXCEPT ![s] = 0]
  /\ last' = [last EXCEPT ![s] = "none"]
  /\ typed' = [typed EXCEPT ![s] = <<>>]
  /\ pc' = [pc EXCEPT ![s] = "read"]
  /\ UNCHANGED <<inits, guard, state>>

\* The line is compiled and run, its results printed; then the next prompt.
Eval(s) ==
  /\ pc[s] = "eval"
  /\ pc' = [pc EXCEPT ![s] = "prompt"]
  /\ UNCHANGED <<inits, guard, buf, state, i, last, typed>>

-----------------------------------------------------------------------------
(* shell_getline                                                           *)

\* Mutant: only a newline or Ctrl+D ends the line.
AfterKeyUnbounded(pos) == "read"

\* The loop test i < len - 1, in size_t.
AfterKey(pos) == IF pos < LineSize - 1 THEN "read" ELSE "eval"

Take(s, k) ==
  /\ pc[s] = "read"
  /\ last' = [last EXCEPT ![s] = k]
  /\ UNCHANGED <<inits, state>>

\* i-- wraps at 0; the NUL then lands before the buffer, in the heap struct.
EraseKey(s) ==
  /\ Take(s, "BS")
  /\ LET pos == (i[s] + SizeMax) % (SizeMax + 1)
     IN  /\ i' = [i EXCEPT ![s] = pos]
         /\ pc' = [pc EXCEPT ![s] = AfterKey(pos)]
         /\ IF pos = SizeMax
              THEN guard' = "overwritten" /\ UNCHANGED buf
              ELSE buf' = [buf EXCEPT ![pos] = NUL] /\ UNCHANGED guard
  /\ typed' = [typed EXCEPT ![s] = IF @ = <<>> THEN @ ELSE Front(@)]

\* An unechoed Ctrl+D is a character like any other, and so is a form feed.
CharKey(s, k) ==
  /\ Take(s, k)
  /\ buf' = [buf EXCEPT ![i[s]] = k]
  /\ i' = [i EXCEPT ![s] = @ + 1]
  /\ pc' = [pc EXCEPT ![s] = AfterKey(i[s] + 1)]
  /\ typed' = [typed EXCEPT ![s] = Append(@, k)]
  /\ UNCHANGED guard

NewlineKey(s) ==
  /\ Take(s, "NL")
  /\ pc' = [pc EXCEPT ![s] = "eval"]
  /\ UNCHANGED <<guard, buf, i, typed>>

\* received_exit: lua_repl_cmd returns without lua_close or the final memset.
EofKey(s) ==
  /\ Take(s, EOT)
  /\ pc' = [pc EXCEPT ![s] = "off"]
  /\ UNCHANGED <<guard, buf, i, typed>>

Next ==
  \E s \in Shells :
    \/ Start(s) \/ StartFails(s) \/ Prompt(s) \/ Eval(s)
    \/ EraseKey(s) \/ NewlineKey(s) \/ EofKey(s)
    \/ \E k \in Chars \cup {FF, EOT} : CharKey(s, k)

Spec == Init /\ [][Next]_vars

-----------------------------------------------------------------------------
(* Correctness.                                                            *)

\* Every variable holds a value of its kind.
TypeOK ==
  /\ inits \in 0..MaxSessions
  /\ guard \in {"intact", "overwritten"}
  /\ buf \in [0..(LineSize - 1) -> Chars \cup {FF, EOT, NUL}]
  /\ pc \in [Shells -> {"off", "prompt", "read", "eval"}]
  /\ state \in [Shells -> 0..MaxSessions]
  /\ i \in [Shells -> 0..SizeMax]
  /\ last \in [Shells -> Keys \cup {"none"}]
  /\ typed \in [Shells -> Seq(Chars \cup {FF, EOT})]

\* The C string the loop evaluates is the line its keys spell, whatever was
\* erased, however long the line before it was.
EvaluatesWhatWasTyped ==
  \A s \in Shells :
    pc[s] = "eval" =>
      \A j \in DOMAIN buf :
        buf[j] = IF j < Len(typed[s]) THEN typed[s][j + 1] ELSE NUL

\* getline "blocks until a newline, EOF (Ctrl+D), or buffer-full"
\* (src/luaz_repl.c:40): an erase never ends the line.
ReturnsOnlyAtEndOfLine ==
  \A s \in Shells :
    pc[s] = "eval" => last[s] = "NL" \/ Len(typed[s]) = LineSize - 1

\* "The REPL runs in its own sys_heap" (src/luaz_repl.c:6): no session's heap
\* is initialised again, under its live Lua state, by another.
RunsInItsOwnHeap ==
  \A s \in Shells : pc[s] # "off" => state[s] = inits
=============================================================================
