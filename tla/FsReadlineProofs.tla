---------------------------- MODULE FsReadlineProofs ----------------------------
(***************************************************************************)
(* lua_fs_shell_readline is a line editor, for buffers of every length.     *)
(***************************************************************************)
EXTENDS FsReadline, TLAPS

\* While the function reads there is room for one more character and the zero.
Room == status = "reading" => i + 1 < BufLen

ReadInv == TypeOK /\ Room /\ OnlyTheLine

LEMMA ReadInvInit == Init => ReadInv
<1> SUFFICES ASSUME Init PROVE ReadInv
  OBVIOUS
<1>1. BufLen \in Nat /\ BufLen >= 2
  BY BufAssumption
<1>2. QED
  BY <1>1 DEF Init, Zeroed, ReadInv, TypeOK, Room, OnlyTheLine

LEMMA ReadInvStep == ReadInv /\ [Next]_vars => ReadInv'
<1> SUFFICES ASSUME ReadInv, [Next]_vars PROVE ReadInv'
  OBVIOUS
<1>1. BufLen \in Nat /\ BufLen >= 2
  BY BufAssumption
<1> USE <1>1 DEF ReadInv, TypeOK, Room, OnlyTheLine
<1>2. CASE \E k \in Erasers : EraseKey(k)
  BY <1>2 DEF EraseKey, AfterKey
<1>3. CASE \E k \in Chars : CharKey(k)
  BY <1>3 DEF CharKey, AfterKey
<1>4. CASE EofKey \/ \E k \in Newlines : NewlineKey(k)
  BY <1>4 DEF EofKey, NewlineKey
<1>5. CASE Begin
  BY <1>5 DEF Begin, Zeroed
<1>6. CASE UNCHANGED vars
  BY <1>6 DEF vars
<1>7. QED
  BY <1>2, <1>3, <1>4, <1>5, <1>6 DEF Next

LEMMA ReadInvHolds == Spec => []ReadInv
BY ReadInvInit, ReadInvStep, PTL DEF Spec

\* The write position stays in the buffer and the buffer holds characters, for
\* every buffer length (lua_fs_shell_readline, src/luaz_fs_shell.c).
THEOREM ReadTypeCorrect == Spec => []TypeOK
<1>1. ReadInv => TypeOK
  BY DEF ReadInv
<1>2. QED
  BY <1>1, ReadInvHolds, PTL

\* Nothing an erase removed is left behind the line, which a zero terminates.
THEOREM ReadOnlyTheLine == Spec => []OnlyTheLine
<1>1. ReadInv => OnlyTheLine
  BY DEF ReadInv
<1>2. QED
  BY <1>1, ReadInvHolds, PTL

-----------------------------------------------------------------------------
(* The refinement.                                                         *)

Line == [j \in 1..i |-> buf[j - 1]]

LEMMA LineOfFacts ==
  ASSUME NEW n \in 0..(BufLen - 1), NEW b \in [0..(BufLen - 1) -> Chars \cup {NUL}]
  PROVE  LET line == [j \in 1..n |-> b[j - 1]]
         IN  /\ Len(line) = n
             /\ n = 0 => line = <<>>
             /\ line \in Seq(Chars \cup {NUL})
<1> DEFINE line == [j \in 1..n |-> b[j - 1]]
<1>1. n \in Nat /\ BufLen \in Nat
  BY BufAssumption
<1>2. \A j \in 1..n : j - 1 \in 0..(BufLen - 1)
  BY <1>1
<1>3. line \in [1..n -> Chars \cup {NUL}]
  BY <1>2
<1>4. line \in Seq(Chars \cup {NUL}) /\ Len(line) = n
  BY <1>1, <1>3
<1>5. QED
  BY <1>1, <1>4

LEMMA LineFacts ==
  ASSUME ReadInv
  PROVE  /\ i \in Nat /\ Len(Line) = i
         /\ \A j \in 1..i : Line[j] = buf[j - 1]
         /\ i = 0 => Line = <<>>
         /\ Line \in Seq(Chars \cup {NUL})
BY BufAssumption, LineOfFacts DEF ReadInv, TypeOK, Line

LEMMA LineFactsNext ==
  ASSUME ReadInv'
  PROVE  /\ Len(Line') = i'
         /\ i' = 0 => Line' = <<>>
         /\ Line' \in Seq(Chars \cup {NUL})
BY LineOfFacts DEF ReadInv, TypeOK, Line

LEMMA InitLine == Init => Editor!Init
<1> SUFFICES ASSUME Init PROVE Editor!Init
  OBVIOUS
<1>1. Line = <<>>
  BY ReadInvInit, LineFacts DEF Init
<1>2. QED
  BY <1>1 DEF Init, Editor!Init, Line

LEMMA CharTypes ==
  ASSUME ReadInv, ReadInv', NEW k \in Chars, CharKey(k)
  PROVE  Editor!Type(k)
<1>1. BufLen \in Nat /\ BufLen >= 2 /\ i \in 0..(BufLen - 1)
  BY BufAssumption DEF ReadInv, TypeOK
<1>2. i' = i + 1 /\ status = "reading" /\ i < BufLen - 1
  BY <1>1 DEF CharKey, ReadInv, Room
<1>3. /\ buf'[i] = k
      /\ \A j \in 0..(BufLen - 1) : j # i => buf'[j] = buf[j]
  BY <1>1 DEF CharKey, ReadInv, TypeOK
<1>4. Line' = Append(Line, k)
  <2>1. Line' \in Seq(Chars \cup {NUL}) /\ Len(Line') = i + 1
    BY <1>2, LineFactsNext
  <2>2. Append(Line, k) \in Seq(Chars \cup {NUL}) /\ Len(Append(Line, k)) = i + 1
    BY LineFacts
  <2>3. \A j \in 1..(i + 1) : Line'[j] = Append(Line, k)[j]
    <3>1. ASSUME NEW j \in 1..(i + 1) PROVE Line'[j] = Append(Line, k)[j]
      <4>1. Line'[j] = buf'[j - 1]
        BY <1>2 DEF Line
      <4>2. CASE j = i + 1
        BY <1>1, <1>3, <4>1, <4>2, LineFacts
      <4>3. CASE j \in 1..i
        BY <1>1, <1>3, <4>1, <4>3, LineFacts
      <4>4. j = i + 1 \/ j \in 1..i
        BY <1>1
      <4>5. QED
        BY <4>2, <4>3, <4>4
    <3>2. QED
      BY <3>1
  <2>4. QED
    BY <2>1, <2>2, <2>3
<1>5. status' = IF Len(Line') = BufLen - 1 THEN "line" ELSE "reading"
  <2>1. Len(Line') = i + 1
    BY <1>4, LineFacts
  <2>2. QED
    BY <1>1, <1>2, <2>1 DEF CharKey, AfterKey
<1>6. QED
  BY <1>2, <1>4, <1>5 DEF Editor!Type, Line

LEMMA EraserErases ==
  ASSUME ReadInv, ReadInv', NEW k \in Erasers, EraseKey(k)
  PROVE  Editor!Erase
<1>1. BufLen \in Nat /\ BufLen >= 2 /\ i \in 0..(BufLen - 1)
  BY BufAssumption DEF ReadInv, TypeOK
<1>2. i > 0 /\ i' = i - 1 /\ status = "reading"
  BY DEF EraseKey
<1>3. \A j \in 0..(BufLen - 1) : j # i - 1 => buf'[j] = buf[j]
  BY <1>1, <1>2 DEF EraseKey, ReadInv, TypeOK
<1>4. UNCHANGED status
  BY <1>1, <1>2 DEF EraseKey, AfterKey
<1>5. Line # <<>>
  BY <1>1, <1>2, LineFacts
<1>6. Line' = SubSeq(Line, 1, Len(Line) - 1)
  <2>1. Line' = [j \in 1..(i - 1) |-> buf'[j - 1]]
    BY <1>2 DEF Line
  <2>2. SubSeq(Line, 1, Len(Line) - 1) = [j \in 1..(i - 1) |-> Line[j]]
    BY <1>1, <1>2, LineFacts
  <2>3. \A j \in 1..(i - 1) : buf'[j - 1] = Line[j]
    BY <1>1, <1>3, LineFacts
  <2>4. QED
    BY <2>1, <2>2, <2>3
<1>7. QED
  BY <1>2, <1>4, <1>5, <1>6 DEF Editor!Erase, Editor!Front, Line

LEMMA EditorStep ==
  ReadInv /\ ReadInv' /\ [Next]_vars => [Editor!Next]_(Editor!vars)
<1> SUFFICES ASSUME ReadInv, ReadInv', [Next]_vars PROVE [Editor!Next]_(Editor!vars)
  OBVIOUS
<1>1. CASE \E k \in Erasers : EraseKey(k)
  BY <1>1, EraserErases DEF Editor!Next
<1>2. CASE \E k \in Chars : CharKey(k)
  BY <1>2, CharTypes DEF Editor!Next
<1>3. CASE EofKey \/ \E k \in Newlines : NewlineKey(k)
  BY <1>3 DEF EofKey, NewlineKey, Editor!End, Editor!Next
<1>4. CASE Begin
  <2>1. Line' = <<>>
    <3>1. i' = 0
      BY <1>4 DEF Begin
    <3>2. QED
      BY <3>1, LineFactsNext
  <2>2. QED
    BY <1>4, <2>1 DEF Begin, Editor!NewLine, Editor!Next, Line
<1>5. CASE UNCHANGED vars
  BY <1>5 DEF vars, Editor!vars
<1>6. QED
  BY <1>1, <1>2, <1>3, <1>4, <1>5 DEF Next

\* Whatever the buffer's length, the function is a line editor: it appends what
\* is typed, erases what is there to erase, and returns at a newline, at Ctrl+D
\* or when the buffer is full.
THEOREM ReadImplementsLineEditor == Spec => ImplementsLineEditor
<1>1. Init => Editor!Init
  BY InitLine
<1>2. ReadInv /\ ReadInv' /\ [Next]_vars => [Editor!Next]_(Editor!vars)
  BY EditorStep
<1>3. QED
  BY <1>1, <1>2, ReadInvHolds, PTL DEF Spec, ImplementsLineEditor, Editor!Spec
=============================================================================
