----------------------------- MODULE ReplProofs -----------------------------
(***************************************************************************)
(* The REPL for any line size, size_t and alphabet.  Its types hold for    *)
(* any number of shells; that it evaluates what was typed, in a heap of    *)
(* its own, holds when the firmware has one shell: the input line and the  *)
(* heap are one static struct.                                             *)
(***************************************************************************)
EXTENDS Repl, SequenceTheorems, TLAPS

\* The firmware has one shell backend.
OneShell == \A s, t \in Shells : s = t

\* A shell that reads has room for one more character and the terminator.
Room == \A s \in Shells : pc[s] = "read" => i[s] < LineSize - 1

TypeInv == TypeOK /\ Room

Plain == Chars \cup {FF, EOT}

\* i-- in size_t: from 0 it wraps.
LEMMA SizeDecrement ==
  ASSUME NEW n \in 0 .. SizeMax
  PROVE  (n + SizeMax) % (SizeMax + 1) = IF n = 0 THEN SizeMax ELSE n - 1
<1>1. SizeMax \in Nat /\ SizeMax > 0
  BY LineAssumption
<1>2. CASE n = 0
  BY <1>1, <1>2
<1>3. CASE n # 0
  <2>1. n + SizeMax = (n - 1) + (SizeMax + 1)
    BY <1>1
  <2>2. n - 1 \in 0 .. SizeMax
    BY <1>1, <1>3
  <2> QED
    BY <1>1, <1>3, <2>1, <2>2
<1> QED
  BY <1>2, <1>3

\* The text without its last character, if it has one.
LEMMA EraseText ==
  ASSUME NEW S, NEW text \in Seq(S), text # <<>>
  PROVE  /\ Front(text) \in Seq(S)
         /\ Len(text) \in Nat \ {0}
         /\ Len(Front(text)) = Len(text) - 1
         /\ \A j \in 1 .. Len(text) - 1 : Front(text)[j] = text[j]
<1>1. Len(text) \in Nat \ {0}
  BY EmptySeq
<1>2. Front(text) = SubSeq(text, 1, Len(text) - 1)
  BY DEF Front
<1>3. /\ SubSeq(text, 1, Len(text) - 1) \in Seq(S)
      /\ Len(SubSeq(text, 1, Len(text) - 1)) = Len(text) - 1
      /\ \A j \in 1 .. Len(text) - 1 :
           SubSeq(text, 1, Len(text) - 1)[j] = text[j]
  <2> DEFINE n == Len(text) - 1
  <2>1. n \in Nat /\ 1 \in Int /\ n \in Int
    BY <1>1
  <2>2. \A j \in 1 .. n : text[j] \in S
    BY <1>1
  <2> HIDE DEF n
  <2>3. /\ SubSeq(text, 1, n) \in Seq(S)
        /\ Len(SubSeq(text, 1, n)) = IF 1 <= n THEN n - 1 + 1 ELSE 0
        /\ \A j \in 1 .. n - 1 + 1 : SubSeq(text, 1, n)[j] = text[1 + j - 1]
    BY <2>1, <2>2, SubSeqProperties
  <2>4. /\ n - 1 + 1 = n
        /\ (IF 1 <= n THEN n - 1 + 1 ELSE 0) = n
        /\ \A j \in 1 .. n : 1 + j - 1 = j
    BY <2>1
  <2>5. \A j \in 1 .. n : SubSeq(text, 1, n)[j] = text[j]
    BY <2>3, <2>4
  <2> QED
    BY <2>3, <2>4, <2>5 DEF n
<1> QED
  BY <1>1, <1>2, <1>3

LEMMA TypeInit == Init => TypeInv
<1> SUFFICES ASSUME Init PROVE TypeInv
  OBVIOUS
<1> QED
  BY LineAssumption, BoundAssumption
     DEF Init, TypeInv, TypeOK, Room, Zeroed, Keys

LEMMA TypeStep == TypeInv /\ [Next]_vars => TypeInv'
<1> SUFFICES ASSUME TypeInv, [Next]_vars PROVE TypeInv'
  OBVIOUS
<1> USE LineAssumption, BoundAssumption
<1>1. CASE UNCHANGED vars
  BY <1>1 DEF TypeInv, TypeOK, Room, vars
<1>2. ASSUME NEW s \in Shells, Start(s) PROVE TypeInv'
  BY <1>2 DEF Start, TypeInv, TypeOK, Room
<1>3. ASSUME NEW s \in Shells, StartFails(s) PROVE TypeInv'
  BY <1>3 DEF StartFails, TypeInv, TypeOK, Room
<1>4. ASSUME NEW s \in Shells, Prompt(s) PROVE TypeInv'
  BY <1>4 DEF Prompt, Zeroed, TypeInv, TypeOK, Room
<1>5. ASSUME NEW s \in Shells, Eval(s) PROVE TypeInv'
  BY <1>5 DEF Eval, TypeInv, TypeOK, Room
<1>6. ASSUME NEW s \in Shells, EraseKey(s) PROVE TypeInv'
  <2> DEFINE pos == (i[s] + SizeMax) % (SizeMax + 1)
  <2>1. pos = IF i[s] = 0 THEN SizeMax ELSE i[s] - 1
    BY SizeDecrement DEF TypeInv, TypeOK
  <2>2. pos \in 0 .. SizeMax /\ (pos # SizeMax => pos < LineSize - 1)
    BY <1>6, <2>1 DEF EraseKey, Take, TypeInv, TypeOK, Room
  <2>3. typed[s] \in Seq(Plain)
    BY DEF TypeInv, TypeOK, Plain
  <2>4. typed[s] # <<>> => Front(typed[s]) \in Seq(Plain)
    BY <2>3, EraseText
  <2>5. typed' \in [Shells -> Seq(Plain)]
    BY <1>6, <2>3, <2>4 DEF EraseKey, TypeInv, TypeOK, Plain
  <2> HIDE DEF pos
  <2>6. i' = [i EXCEPT ![s] = pos] /\ pc' = [pc EXCEPT ![s] = AfterKey(pos)]
    BY <1>6 DEF EraseKey, pos
  <2>7. IF pos = SizeMax THEN guard' = "overwritten" /\ UNCHANGED buf
        ELSE buf' = [buf EXCEPT ![pos] = NUL] /\ UNCHANGED guard
    BY <1>6 DEF EraseKey, pos
  <2>8. buf' \in [0..(LineSize - 1) -> Chars \cup {FF, EOT, NUL}]
        /\ guard' \in {"intact", "overwritten"}
    BY <2>2, <2>7 DEF TypeInv, TypeOK
  <2>9. last' \in [Shells -> Keys \cup {"none"}] /\ UNCHANGED <<inits, state>>
    BY <1>6 DEF EraseKey, Take, TypeInv, TypeOK, Keys
  <2>10. /\ pc' \in [Shells -> {"off", "prompt", "read", "eval"}]
         /\ i' \in [Shells -> 0..SizeMax]
         /\ Room'
    BY <2>2, <2>6 DEF TypeInv, TypeOK, Room, AfterKey
  <2> QED
    BY <2>5, <2>8, <2>9, <2>10 DEF TypeInv, TypeOK, Plain
<1>7. ASSUME NEW s \in Shells, NEW k \in Plain, CharKey(s, k) PROVE TypeInv'
  <2>1. i[s] \in 0 .. LineSize - 2 /\ pc[s] = "read"
    BY <1>7 DEF CharKey, Take, TypeInv, TypeOK, Room
  <2>2. /\ pc' \in [Shells -> {"off", "prompt", "read", "eval"}]
        /\ i' \in [Shells -> 0..SizeMax]
        /\ Room'
    BY <1>7, <2>1 DEF CharKey, AfterKey, TypeInv, TypeOK, Room
  <2>3. typed' \in [Shells -> Seq(Plain)]
    BY <1>7 DEF CharKey, TypeInv, TypeOK, Plain
  <2>4. buf' \in [0..(LineSize - 1) -> Chars \cup {FF, EOT, NUL}]
    BY <1>7, <2>1 DEF CharKey, TypeInv, TypeOK, Plain
  <2>5. /\ last' \in [Shells -> Keys \cup {"none"}]
        /\ UNCHANGED <<inits, state, guard>>
    BY <1>7 DEF CharKey, Take, TypeInv, TypeOK, Keys, Plain
  <2> QED
    BY <2>2, <2>3, <2>4, <2>5 DEF TypeInv, TypeOK, Plain
<1>8. ASSUME NEW s \in Shells, NewlineKey(s) PROVE TypeInv'
  BY <1>8 DEF NewlineKey, Take, Keys, TypeInv, TypeOK, Room
<1>9. ASSUME NEW s \in Shells, EofKey(s) PROVE TypeInv'
  BY <1>9 DEF EofKey, Take, Keys, TypeInv, TypeOK, Room
<1> QED
  BY <1>1, <1>2, <1>3, <1>4, <1>5, <1>6, <1>7, <1>8, <1>9 DEF Next, Plain

\* Every variable of the REPL keeps a value of its kind, for any shells that
\* share the line and the heap: an erase on an empty line leaves the buffer,
\* and nothing else does.
THEOREM ReplTypeCorrect == Spec => []TypeOK
<1>1. TypeInv => TypeOK
  BY DEF TypeInv
<1> QED
  BY TypeInit, TypeStep, <1>1, PTL DEF Spec

(***************************************************************************)
(* One shell.                                                              *)
(***************************************************************************)

\* The line spells the keys, and nothing stands beyond it.
Spells(line, text) ==
  \A j \in 0 .. LineSize - 1 :
    line[j] = IF j < Len(text) THEN text[j + 1] ELSE NUL

\* The write position is where the text ends, unless an erase on the empty
\* line wrapped it.
PositionOf(s) ==
  \/ i[s] = Len(typed[s])
  \/ (i[s] = SizeMax /\ typed[s] = <<>> /\ pc[s] = "eval")

LineInv ==
  \A s \in Shells : pc[s] \in {"read", "eval"} =>
    PositionOf(s) /\ Spells(buf, typed[s])

LEMMA LineStep ==
  ASSUME OneShell, TypeInv, LineInv, [Next]_vars PROVE LineInv'
<1> USE LineAssumption
<1> SUFFICES ASSUME NEW s \in Shells, (pc[s] \in {"read", "eval"})'
             PROVE  (PositionOf(s) /\ Spells(buf, typed[s]))'
  BY DEF LineInv
<1>t. /\ i[s] \in 0 .. SizeMax /\ (pc[s] = "read" => i[s] < LineSize - 1)
      /\ typed[s] \in Seq(Plain)
      /\ DOMAIN buf = 0 .. LineSize - 1
      /\ s \in DOMAIN i /\ s \in DOMAIN pc /\ s \in DOMAIN typed
  BY DEF TypeInv, TypeOK, Room, Plain
<1>o. \A r \in Shells : r = s
  BY DEF OneShell
<1>1. CASE UNCHANGED vars
  BY <1>1 DEF vars, LineInv, PositionOf, Spells
<1>2. CASE Start(s)
  BY <1>2, <1>t DEF Start
<1>3. CASE StartFails(s)
  BY <1>3, <1>t DEF StartFails, LineInv, PositionOf, Spells
<1>4. CASE Prompt(s)
  BY <1>4, <1>t DEF Prompt, Zeroed, PositionOf, Spells
<1>5. CASE Eval(s)
  BY <1>5, <1>t DEF Eval
<1>6. CASE EraseKey(s)
  <2>1. pc[s] = "read" /\ i[s] = Len(typed[s]) /\ Spells(buf, typed[s])
    BY <1>6 DEF EraseKey, Take, LineInv, PositionOf
  <2>2. typed'[s] = IF typed[s] = <<>> THEN typed[s] ELSE Front(typed[s])
    BY <1>6, <1>t DEF EraseKey
  <2>3. (i[s] + SizeMax) % (SizeMax + 1) = IF i[s] = 0 THEN SizeMax ELSE i[s] - 1
    BY <1>t, SizeDecrement
  <2>4. CASE typed[s] = <<>>
    <3>1. i[s] = 0 /\ (i[s] + SizeMax) % (SizeMax + 1) = SizeMax
      BY <2>1, <2>3, <2>4, EmptySeq
    <3>2. i'[s] = SizeMax /\ pc'[s] = "eval" /\ UNCHANGED buf
      BY <1>6, <1>t, <3>1 DEF EraseKey, AfterKey
    <3> QED
      BY <2>1, <2>2, <2>4, <3>2 DEF PositionOf, Spells
  <2>5. CASE typed[s] # <<>>
    <3>1. /\ Len(typed[s]) \in Nat \ {0}
          /\ Len(Front(typed[s])) = Len(typed[s]) - 1
          /\ \A j \in 1 .. Len(typed[s]) - 1 : Front(typed[s])[j] = typed[s][j]
      BY <2>5, <1>t, EraseText
    <3>2. /\ (i[s] + SizeMax) % (SizeMax + 1) = i[s] - 1
          /\ i[s] - 1 # SizeMax /\ i[s] - 1 \in 0 .. LineSize - 1
      BY <2>1, <2>3, <3>1, <1>t
    <3>3. i'[s] = i[s] - 1 /\ buf' = [buf EXCEPT ![i[s] - 1] = NUL]
      BY <1>6, <1>t, <3>2 DEF EraseKey
    <3>4. typed'[s] = Front(typed[s])
      BY <2>2, <2>5
    <3>5. PositionOf(s)'
      BY <2>1, <3>1, <3>3, <3>4 DEF PositionOf
    <3>6. Spells(buf', Front(typed[s]))
      <4> SUFFICES ASSUME NEW j \in 0 .. LineSize - 1
                   PROVE  buf'[j] = IF j < Len(Front(typed[s]))
                                      THEN Front(typed[s])[j + 1] ELSE NUL
        BY DEF Spells
      <4>1. buf[j] = IF j < Len(typed[s]) THEN typed[s][j + 1] ELSE NUL
        BY <2>1 DEF Spells
      <4>2. buf'[j] = IF j = i[s] - 1 THEN NUL ELSE buf[j]
        BY <3>2, <3>3, <1>t
      <4> QED
        BY <2>1, <3>1, <4>1, <4>2
    <3> QED
      BY <3>4, <3>5, <3>6 DEF Spells
  <2> QED
    BY <2>4, <2>5
<1>7. ASSUME NEW k \in Plain, CharKey(s, k)
      PROVE  (PositionOf(s) /\ Spells(buf, typed[s]))'
  <2>1. pc[s] = "read" /\ i[s] = Len(typed[s]) /\ Spells(buf, typed[s])
    BY <1>7 DEF CharKey, Take, LineInv, PositionOf
  <2>2. /\ i'[s] = i[s] + 1
        /\ buf' = [buf EXCEPT ![i[s]] = k]
        /\ typed'[s] = Append(typed[s], k)
    BY <1>7, <1>t DEF CharKey
  <2>3. /\ Len(Append(typed[s], k)) = Len(typed[s]) + 1
        /\ \A j \in 1 .. Len(typed[s]) + 1 :
             Append(typed[s], k)[j] = IF j <= Len(typed[s]) THEN typed[s][j] ELSE k
    BY <1>t
  <2>4. Spells(buf', Append(typed[s], k))
    BY <2>1, <2>2, <2>3, <1>t DEF Spells
  <2> QED
    BY <2>1, <2>2, <2>3, <2>4 DEF PositionOf, Spells
<1>8. CASE NewlineKey(s)
  BY <1>8, <1>t DEF NewlineKey, Take, LineInv, PositionOf, Spells
<1>9. CASE EofKey(s)
  BY <1>9, <1>t DEF EofKey
<1> QED
  BY <1>1, <1>2, <1>3, <1>4, <1>5, <1>6, <1>7, <1>8, <1>9, <1>o DEF Next, Plain

LEMMA LineInit == Init => LineInv
  BY DEF Init, LineInv

\* With one shell, the C string the loop evaluates is the line its keys
\* spell, whatever was erased and however long the line before it was: also
\* when an erase on the empty line has wrapped the write position.
THEOREM ReplEvaluatesTheLine ==
  ASSUME OneShell
  PROVE  Spec => []EvaluatesWhatWasTyped
<1>1. Init => TypeInv /\ LineInv
  BY TypeInit, LineInit
<1>2. (TypeInv /\ LineInv) /\ [Next]_vars => (TypeInv /\ LineInv)'
  BY OneShell, TypeStep, LineStep
<1>3. TypeInv /\ LineInv => EvaluatesWhatWasTyped
  BY DEF TypeInv, TypeOK, LineInv, Spells, EvaluatesWhatWasTyped
<1> QED
  BY <1>1, <1>2, <1>3, PTL DEF Spec

\* With one shell, no session's heap is initialised again under its live Lua
\* state: the documented heap of its own needs that the second shell is absent.
THEOREM ReplOwnsItsHeap ==
  ASSUME OneShell
  PROVE  Spec => []RunsInItsOwnHeap
<1>1. Init => TypeInv /\ RunsInItsOwnHeap
  BY TypeInit DEF Init, RunsInItsOwnHeap
<1>2. (TypeInv /\ RunsInItsOwnHeap) /\ [Next]_vars
        => (TypeInv /\ RunsInItsOwnHeap)'
  <2> SUFFICES ASSUME TypeInv, RunsInItsOwnHeap, [Next]_vars,
                      NEW s \in Shells, pc'[s] # "off"
               PROVE  state'[s] = inits'
    BY TypeStep DEF RunsInItsOwnHeap
  <2>1. /\ s \in DOMAIN pc /\ s \in DOMAIN state
        /\ \A r \in Shells : r = s
    BY OneShell DEF OneShell, TypeInv, TypeOK
  <2>2. UNCHANGED vars \/ Start(s) \/ StartFails(s) \/ Prompt(s) \/ Eval(s)
          \/ EraseKey(s) \/ NewlineKey(s) \/ EofKey(s)
          \/ \E k \in Plain : CharKey(s, k)
    BY <2>1 DEF Next, Plain
  <2> QED
    BY <2>1, <2>2 DEF vars, Start, StartFails, Prompt, Eval, EraseKey, CharKey,
                      NewlineKey, EofKey, Take, RunsInItsOwnHeap
<1> QED
  BY <1>1, <1>2, PTL DEF Spec
=============================================================================
