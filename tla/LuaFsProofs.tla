------------------------------ MODULE LuaFsProofs ------------------------------
(***************************************************************************)
(* Proofs about LuaFs, for any number of threads, files, lines and any      *)
(* size limit.                                                              *)
(***************************************************************************)
EXTENDS LuaFs, FiniteSetTheorems, TLAPS

-----------------------------------------------------------------------------
(* Type correctness, but for the counters, which are shown not to be        *)
(* negative further down.                                                   *)

Outs == [op : Ops \cup {"none"}, kind : Kinds, results : Nat, values : Nat]
LoaderLabels == {"idle", "open", "read", "load", "run", "list"}
WriterLabels == {"idle", "lines", "whole", "unlink", "list", "cat"}
Words == {"nothing", "error", "written", "cancelled", "returned 0"}

LoaderTyped ==
  /\ since \in [Loaders -> SUBSET Scripts]
  /\ lpc \in [Loaders -> LoaderLabels]
  /\ op \in [Loaders -> Ops \cup {"none"}]
  /\ path \in [Loaders -> Paths \cup {NoFile}]
  /\ size \in [Loaders -> 0..MaxFile]
  /\ file \in [Loaders -> Scripts \cup {NoFile}]
  /\ buf \in [Loaders -> Scripts]
  /\ raw \in [Loaders -> Int]
  /\ out \in [Loaders -> Outs]

WriterTyped ==
  /\ wpc \in [Writers -> WriterLabels]
  /\ target \in [Writers -> Paths \cup {NoFile}]
  /\ draft \in [Writers -> Scripts]
  /\ entered \in [Writers -> Scripts]
  /\ said \in [Writers -> Words]
  /\ gone \subseteq Writers
  /\ closeFailed \subseteq Writers

\* What a loader is in the middle of.
LoaderShape ==
  \A l \in Loaders :
    /\ lpc[l] \in {"open", "read", "load", "run"} => op[l] \in {"dofile", "loadfile", "run"}
    /\ lpc[l] = "open" => path[l] \in Paths
    /\ lpc[l] = "read" => file[l] \in Scripts

CountersTyped == handles \in Int /\ dirs \in Int /\ lost \in Nat

Typed ==
  /\ LoaderTyped
  /\ WriterTyped
  /\ LoaderShape
  /\ CountersTyped
  /\ disk \in [Paths -> Scripts \cup {NoFile}]

LEMMA InitTyped == Init => Typed
<1> SUFFICES ASSUME Init PROVE Typed
  OBVIOUS
<1>1. 0 \in 0..MaxFile
  BY SizeAssumption
<1>2. <<>> \in Scripts /\ Nothing \in Outs
  BY DEF Scripts, Nothing, Outs, Kinds
<1>3. LoaderTyped
  BY <1>1, <1>2 DEF Init, LoaderTyped, LoaderLabels
<1>4. WriterTyped
  BY <1>2 DEF Init, WriterTyped, WriterLabels, Words
<1>5. QED
  BY <1>3, <1>4 DEF Init, Typed, LoaderShape, CountersTyped

LEMMA OutcomeTypes ==
  /\ Nothing \in Outs
  /\ \A o \in Ops : Errno(o) \in Outs
  /\ \A o \in {"dofile", "loadfile", "run"} : LuaError(o) \in Outs
  /\ Outcome("loadfile", "function", 1, 1) \in Outs
  /\ Outcome("list", "table", 1, 1) \in Outs
  /\ \A o \in Ops, k \in Nat, n \in Nat : Outcome(o, "values", n, k) \in Outs
BY DEF Nothing, Errno, LuaError, Outcome, Outs, Ops, Kinds

LEMMA DoneTyped ==
  ASSUME LoaderTyped, NEW l \in Loaders, NEW o \in Outs, Done(l, o)
  PROVE  /\ since' \in [Loaders -> SUBSET Scripts]
         /\ lpc' \in [Loaders -> LoaderLabels]
         /\ op' \in [Loaders -> Ops \cup {"none"}]
         /\ path' \in [Loaders -> Paths \cup {NoFile}]
         /\ size' \in [Loaders -> 0..MaxFile]
         /\ buf' \in [Loaders -> Scripts]
         /\ out' \in [Loaders -> Outs]
         /\ \A k \in Loaders \ {l} : lpc'[k] = lpc[k] /\ op'[k] = op[k] /\ path'[k] = path[k]
         /\ lpc'[l] = "idle"
<1>1. 0 \in 0..MaxFile
  BY SizeAssumption
<1>2. <<>> \in Scripts
  BY DEF Scripts
<1>3. QED
  BY <1>1, <1>2 DEF Done, LoaderTyped, LoaderLabels

\* Every call ends with Done; what is left of its step are file and raw.
Ends(l) ==
  /\ \E o \in Outs : Done(l, o)
  /\ file' \in {file, [file EXCEPT ![l] = NoFile]}
  /\ raw' \in {raw, [raw EXCEPT ![l] = raw[l] - 1]}

LEMMA EndsTyped ==
  ASSUME LoaderTyped, LoaderShape, NEW l \in Loaders, Ends(l)
  PROVE  LoaderTyped' /\ LoaderShape'
<1>1. PICK o \in Outs : Done(l, o)
  BY DEF Ends
<1>2. file' \in [Loaders -> Scripts \cup {NoFile}] /\ raw' \in [Loaders -> Int]
  BY DEF Ends, LoaderTyped
<1>3. LoaderTyped'
  BY <1>1, <1>2, DoneTyped DEF LoaderTyped
<1>4. \A k \in Loaders \ {l} : file'[k] = file[k]
  BY DEF Ends, LoaderTyped
<1>5. LoaderShape'
  BY <1>1, <1>4, DoneTyped DEF LoaderShape
<1>6. QED
  BY <1>3, <1>5

LoaderActs(l) ==
  \/ \E o \in Ops : LoadRefused(l, o)
  \/ \E o \in Ops \ {"list"}, p \in Paths : StatAndAlloc(l, o, p)
  \/ ListBegins(l)
  \/ LoaderStep(l)

Continues(l) ==
  \/ \E o \in Ops \ {"list"}, p \in Paths : StatAndAlloc(l, o, p)
  \/ ListBegins(l)
  \/ Open(l)
  \/ Read(l)
  \/ LoadBuffer(l) /\ lpc' = [lpc EXCEPT ![l] = "run"]

LEMMA EndsOrContinues ==
  ASSUME LoaderTyped, LoaderShape, NEW l \in Loaders, LoaderActs(l)
  PROVE  Ends(l) \/ Continues(l)
<1>1. ASSUME NEW o \in Ops, LoadRefused(l, o) PROVE Ends(l)
  BY <1>1, OutcomeTypes DEF LoadRefused, Ends
<1>2. CASE OpenFails(l) \/ ReadFails(l)
  <2>1. op[l] \in {"dofile", "loadfile", "run"}
    BY <1>2 DEF OpenFails, ReadFails, LoaderShape
  <2>2. Errno(op[l]) \in Outs
    BY <2>1, OutcomeTypes DEF Ops
  <2>3. QED
    BY <1>2, <2>2 DEF OpenFails, ReadFails, FreeBuf, Ends
<1>3. CASE LoadBuffer(l)
  <2>1. LuaError(op[l]) \in Outs
    BY <1>3, OutcomeTypes DEF LoadBuffer, LoaderShape
  <2>2. QED
    BY <1>3, <2>1, OutcomeTypes DEF LoadBuffer, FreeBuf, Ends, Continues
<1>4. CASE Run(l)
  <2>1. op[l] \in {"dofile", "loadfile", "run"}
    BY <1>4 DEF Run, LoaderShape
  <2>2. LuaError(op[l]) \in Outs
    BY <2>1, OutcomeTypes
  <2>3. \A a \in 1..2, n \in 0..1 :
          Outcome(op[l], "values", n,
                  IF op[l] = "dofile" THEN Returned(a, n) ELSE n) \in Outs
    <3>1. \A a \in 1..2, n \in 0..1 :
            n \in Nat /\ (IF op[l] = "dofile" THEN Returned(a, n) ELSE n) \in Nat
      BY DEF Returned
    <3>2. QED
      BY <2>1, <3>1, OutcomeTypes DEF Ops
  <2>4. QED
    BY <1>4, <2>2, <2>3 DEF Run, Ends
<1>5. CASE ListEnds(l) \/ ListRaises(l)
  <2>1. Errno("list") \in Outs
    BY OutcomeTypes DEF Ops
  <2>2. QED
    BY <1>5, <2>1, OutcomeTypes DEF ListEnds, ListRaises, Ends
<1>6. QED
  BY <1>1, <1>2, <1>3, <1>4, <1>5 DEF LoaderActs, LoaderStep, Continues

LEMMA ReadUpToFacts ==
  ASSUME NEW n \in Nat, NEW s \in Scripts
  PROVE  /\ ReadUpTo(n, s) \in Scripts
         /\ Len(ReadUpTo(n, s)) <= n
         /\ Prefix(ReadUpTo(n, s), s)
         /\ Len(ReadUpTo(n, s)) < n => ReadUpTo(n, s) = s
BY DEF ReadUpTo, Prefix, Scripts

LEMMA ContinuesTyped ==
  ASSUME LoaderTyped, LoaderShape, disk \in [Paths -> Scripts \cup {NoFile}],
         NEW l \in Loaders, Continues(l)
  PROVE  LoaderTyped' /\ LoaderShape'
<1>1. ASSUME NEW o \in Ops \ {"list"}, NEW p \in Paths, StatAndAlloc(l, o, p)
      PROVE  LoaderTyped' /\ LoaderShape'
  <2>1. disk[p] \in Scripts /\ Len(disk[p]) \in 0..MaxFile
    BY <1>1, SizeAssumption DEF StatAndAlloc, Scripts
  <2>2. LoaderTyped'
    BY <1>1, <2>1, OutcomeTypes DEF StatAndAlloc, LoaderTyped, LoaderLabels
  <2>3. LoaderShape'
    BY <1>1 DEF StatAndAlloc, LoaderTyped, LoaderShape, Ops
  <2>4. QED
    BY <2>2, <2>3
<1>2. CASE ListBegins(l)
  <2>1. LoaderTyped'
    BY <1>2, OutcomeTypes DEF ListBegins, LoaderTyped, LoaderLabels, Ops
  <2>2. LoaderShape'
    BY <1>2 DEF ListBegins, LoaderTyped, LoaderShape
  <2>3. QED
    BY <2>1, <2>2
<1>3. CASE Open(l)
  <2>1. disk[path[l]] \in Scripts
    BY <1>3 DEF Open, LoaderShape
  <2>2. LoaderTyped'
    BY <1>3, <2>1 DEF Open, LoaderTyped, LoaderLabels
  <2>3. LoaderShape'
    BY <1>3, <2>1 DEF Open, LoaderTyped, LoaderShape
  <2>4. QED
    BY <2>2, <2>3
<1>4. CASE Read(l)
  <2>1. ReadUpTo(size[l], file[l]) \in Scripts
    <3>1. size[l] \in Nat /\ file[l] \in Scripts
      BY <1>4, SizeAssumption DEF Read, LoaderTyped, LoaderShape
    <3>2. QED
      BY <3>1, ReadUpToFacts
  <2>2. LoaderTyped'
    BY <1>4, <2>1 DEF Read, LoaderTyped, LoaderLabels
  <2>3. LoaderShape'
    BY <1>4 DEF Read, LoaderTyped, LoaderShape
  <2>4. QED
    BY <2>2, <2>3
<1>5. CASE LoadBuffer(l) /\ lpc' = [lpc EXCEPT ![l] = "run"]
  <2>1. UNCHANGED <<op, path, size, buf, out, since, file>>
    BY <1>5 DEF LoadBuffer, Done, LoaderTyped
  <2>2. raw' \in [Loaders -> Int]
    BY <1>5 DEF LoadBuffer, FreeBuf, LoaderTyped
  <2>3. LoaderTyped'
    BY <1>5, <2>1, <2>2 DEF LoaderTyped, LoaderLabels
  <2>4. LoaderShape'
    BY <1>5, <2>1 DEF LoadBuffer, LoaderTyped, LoaderShape
  <2>5. QED
    BY <2>3, <2>4
<1>6. QED
  BY <1>1, <1>2, <1>3, <1>4, <1>5 DEF Continues

-----------------------------------------------------------------------------
(* Writers.                                                                *)

WriterActs(w) ==
  \/ \E p \in Paths : CmdWrite(w, p)
  \/ \E p \in Paths, line \in Lines :
       \E n \in 1..MaxLines : WriteFile(w, p, [k \in 1..n |-> line])
  \/ \E line \in Lines : WriteLine(w, line)
  \/ WriteRefused(w) \/ WriteDot(w) \/ WriteCancel(w) \/ WriteUnlink(w)
  \/ WriteWhole(w)
  \/ CmdLook(w, "list") \/ CmdLook(w, "cat") \/ LookEnds(w)

\* All a writer can do to the files.
FilesChange ==
  \/ UNCHANGED <<disk, since>>
  \/ \E p, s : s \in Scripts /\ Commit(p, s)
  \/ UNCHANGED since /\ \E p : disk' = [disk EXCEPT ![p] = NoFile]

LEMMA PrefixTypes ==
  ASSUME NEW s \in Scripts, NEW n \in 0..Len(s)
  PROVE  /\ SubSeq(s, 1, n) \in Scripts
         /\ n = Len(s) => SubSeq(s, 1, n) = s
BY DEF Scripts

LEMMA WriterFrame ==
  ASSUME Typed, NEW w \in Writers, WriterActs(w)
  PROVE  UNCHANGED <<lvars, lost>> /\ FilesChange
<1>0. draft[w] \in Scripts /\ entered[w] \in Scripts /\ <<>> \in Scripts
  BY DEF Typed, WriterTyped, Scripts
<1>1. ASSUME NEW p, NEW label, NEW lines, OpenToWrite(w, p, label, lines)
      PROVE  UNCHANGED <<lvars, lost>> /\ FilesChange
  BY <1>0, <1>1 DEF OpenToWrite, FilesChange, dvars
<1>2. CASE \/ \E p \in Paths : CmdWrite(w, p)
           \/ \E p \in Paths, line \in Lines :
                \E n \in 1..MaxLines : WriteFile(w, p, [k \in 1..n |-> line])
  BY <1>1, <1>2 DEF CmdWrite, WriteFile
<1>3. CASE WriteDot(w) \/ WriteCancel(w)
  BY <1>0, <1>3 DEF WriteDot, WriteCancel, Close, FilesChange, dvars
<1>4. CASE WriteWhole(w)
  BY <1>0, <1>4, PrefixTypes DEF WriteWhole, Close, FilesChange, dvars
<1>5. CASE WriteRefused(w)
  BY <1>0, <1>5 DEF WriteRefused, FilesChange, dvars
<1>6. CASE WriteUnlink(w)
  BY <1>6 DEF WriteUnlink, Unlink, FilesChange, dvars
<1>7. CASE \/ CmdLook(w, "list") \/ CmdLook(w, "cat") \/ LookEnds(w)
           \/ \E line \in Lines : WriteLine(w, line)
  BY <1>7 DEF CmdLook, LookEnds, WriteLine, FilesChange, dvars
<1>8. QED
  BY <1>2, <1>3, <1>4, <1>5, <1>6, <1>7 DEF WriterActs

LEMMA FilesChangeTyped ==
  ASSUME Typed, FilesChange, UNCHANGED lvars
  PROVE  /\ LoaderTyped' /\ LoaderShape'
         /\ disk' \in [Paths -> Scripts \cup {NoFile}]
<1>1. /\ since' \in [Loaders -> SUBSET Scripts]
      /\ disk' \in [Paths -> Scripts \cup {NoFile}]
  <2>1. CASE UNCHANGED <<disk, since>>
    BY <2>1 DEF Typed, LoaderTyped
  <2>2. CASE \E p, s : s \in Scripts /\ Commit(p, s)
    <3>1. PICK p, s : s \in Scripts /\ Commit(p, s)
      BY <2>2
    <3>2. /\ since \in [Loaders -> SUBSET Scripts]
          /\ disk \in [Paths -> Scripts \cup {NoFile}]
      BY DEF Typed, LoaderTyped
    <3>3. disk' \in [Paths -> Scripts \cup {NoFile}]
      BY <3>1, <3>2 DEF Commit
    <3>4. \A l \in Loaders :
            (IF path[l] = p THEN since[l] \cup {s} ELSE since[l]) \in SUBSET Scripts
      BY <3>1, <3>2
    <3>5. QED
      BY <3>1, <3>3, <3>4 DEF Commit
  <2>3. CASE UNCHANGED since /\ \E p : disk' = [disk EXCEPT ![p] = NoFile]
    BY <2>3 DEF Typed, LoaderTyped
  <2>4. QED
    BY <2>1, <2>2, <2>3 DEF FilesChange
<1>2. QED
  BY <1>1 DEF Typed, LoaderTyped, LoaderShape, lvars

LEMMA WriterKeepsTypes ==
  ASSUME Typed, NEW w \in Writers, WriterActs(w)
  PROVE  WriterTyped'
<1>0. /\ draft[w] \in Scripts /\ entered[w] \in Scripts /\ <<>> \in Scripts
  BY DEF Typed, WriterTyped, Scripts
<1>1. ASSUME NEW p \in Paths, NEW label \in {"lines", "whole"}, NEW lines \in Scripts,
             OpenToWrite(w, p, label, lines)
      PROVE  WriterTyped'
  BY <1>0, <1>1 DEF OpenToWrite, Typed, WriterTyped, WriterLabels, Words
<1>2. CASE \E p \in Paths : CmdWrite(w, p)
  BY <1>0, <1>1, <1>2 DEF CmdWrite
<1>3. CASE \E p \in Paths, line \in Lines :
             \E n \in 1..MaxLines : WriteFile(w, p, [k \in 1..n |-> line])
  <2>1. \A line \in Lines, n \in 1..MaxLines : [k \in 1..n |-> line] \in Scripts
    BY SizeAssumption DEF Scripts
  <2>2. QED
    BY <1>1, <1>3, <2>1 DEF WriteFile
<1>4. CASE WriteDot(w) \/ WriteCancel(w)
  <2>1. \E label \in WriterLabels, word \in Words : Close(w, draft[w], label, word)
    BY <1>4 DEF WriteDot, WriteCancel, WriterLabels, Words
  <2>2. PICK label \in WriterLabels, word \in Words : Close(w, draft[w], label, word)
    BY <2>1
  <2>3. UNCHANGED target
    BY <1>4 DEF WriteDot, WriteCancel
  <2>4. gone' \subseteq Writers /\ closeFailed' \subseteq Writers
    BY <2>2 DEF Close, Typed, WriterTyped
  <2>5. draft' \in [Writers -> Scripts] /\ entered' \in [Writers -> Scripts]
    BY <1>0, <2>2 DEF Close, Typed, WriterTyped
  <2>6. wpc' \in [Writers -> WriterLabels] /\ said' \in [Writers -> Words]
    BY <2>2 DEF Close, Typed, WriterTyped
  <2>7. QED
    BY <2>3, <2>4, <2>5, <2>6 DEF Typed, WriterTyped
<1>5. CASE WriteWhole(w)
  <2>1. PICK n \in 0..Len(entered[w]) :
          Close(w, SubSeq(entered[w], 1, n), "idle",
                IF n = Len(entered[w]) THEN "returned 0" ELSE "error")
    BY <1>5 DEF WriteWhole
  <2>2. QED
    BY <1>0, <1>5, <2>1 DEF WriteWhole, Close, Typed, WriterTyped, WriterLabels, Words
<1>6. CASE WriteRefused(w) \/ WriteUnlink(w) \/ CmdLook(w, "list") \/ CmdLook(w, "cat")
  <2>1. UNCHANGED <<target, draft, entered>>
    BY <1>6 DEF WriteRefused, WriteUnlink, CmdLook
  <2>2. gone' \subseteq Writers /\ closeFailed' \subseteq Writers
    BY <1>6 DEF WriteRefused, WriteUnlink, Unlink, CmdLook, Typed, WriterTyped
  <2>3. said' \in [Writers -> Words]
    BY <1>6 DEF WriteRefused, WriteUnlink, CmdLook, Typed, WriterTyped, Words
  <2>4. wpc' \in [Writers -> WriterLabels]
    BY <1>6 DEF WriteRefused, WriteUnlink, CmdLook, Typed, WriterTyped, WriterLabels
  <2>5. QED
    BY <2>1, <2>2, <2>3, <2>4 DEF Typed, WriterTyped
<1>7. CASE LookEnds(w)
  BY <1>7 DEF LookEnds, Typed, WriterTyped, WriterLabels
<1>8. CASE \E line \in Lines : WriteLine(w, line)
  <2>1. \A line \in Lines : /\ Append(draft[w], line) \in Scripts
                            /\ Append(entered[w], line) \in Scripts
    BY <1>0 DEF Scripts
  <2>2. PICK line \in Lines : WriteLine(w, line)
    BY <1>8
  <2>3. entered' \in [Writers -> Scripts]
    BY <2>1, <2>2 DEF WriteLine, Typed, WriterTyped
  <2>4. draft' \in [Writers -> Scripts]
    <3>1. CASE draft' = draft
      BY <3>1 DEF Typed, WriterTyped
    <3>2. CASE draft' = [draft EXCEPT ![w] = Append(draft[w], line)]
      BY <2>1, <3>2 DEF Typed, WriterTyped
    <3>3. QED
      BY <2>2, <3>1, <3>2 DEF WriteLine
  <2>5. UNCHANGED <<wpc, target, said, gone, closeFailed>>
    BY <2>2 DEF WriteLine
  <2>6. QED
    BY <2>3, <2>4, <2>5 DEF Typed, WriterTyped
<1>9. QED
  BY <1>2, <1>3, <1>4, <1>5, <1>6, <1>7, <1>8 DEF WriterActs

LEMMA Steps ==
  ASSUME [Next]_vars
  PROVE  \/ \E l \in Loaders : LoaderActs(l)
         \/ \E w \in Writers : WriterActs(w)
         \/ \E p \in Paths : CmdDelete(p)
         \/ UNCHANGED vars
BY DEF Next, LoaderActs, WriterActs

LEMMA LoaderFrame ==
  ASSUME NEW l \in Loaders, LoaderActs(l)
  PROVE  UNCHANGED <<disk, wvars>>
BY DEF LoaderActs, LoaderStep, LoadRefused, StatAndAlloc, ListBegins, Open, OpenFails,
       Read, ReadFails, LoadBuffer, Run, ListEnds, ListRaises

-----------------------------------------------------------------------------
(* Counting.                                                               *)

B(x, L) == IF x \in L THEN 1 ELSE 0

Count(S, pc, L) == Cardinality({y \in S : pc[y] \in L})

LEMMA CountAfter ==
  ASSUME NEW S, IsFiniteSet(S), NEW pc, NEW new, NEW L, NEW x \in S, NEW label,
         new[x] = label, \A y \in S \ {x} : new[y] = pc[y]
  PROVE  Count(S, new, L) = Count(S, pc, L) + B(label, L) - B(pc[x], L)
<1> DEFINE A == {y \in S \ {x} : pc[y] \in L}
<1>1. IsFiniteSet(A) /\ x \notin A
  <2>1. A \subseteq S
    OBVIOUS
  <2>2. QED
    BY <2>1, FS_Subset
<1>2. Cardinality(A) \in Nat /\ Cardinality(A \cup {x}) = Cardinality(A) + 1
  BY <1>1, FS_AddElement, FS_CardinalityType
<1>3. {y \in S : pc[y] \in L} = IF pc[x] \in L THEN A \cup {x} ELSE A
  OBVIOUS
<1>4. {y \in S : new[y] \in L} = IF label \in L THEN A \cup {x} ELSE A
  OBVIOUS
<1> HIDE DEF A
<1>5. /\ Count(S, pc, L) = Cardinality(IF pc[x] \in L THEN A \cup {x} ELSE A)
      /\ Count(S, new, L) = Cardinality(IF label \in L THEN A \cup {x} ELSE A)
  BY <1>3, <1>4, Zenon DEF Count
<1>6. \A z : Cardinality(IF z \in L THEN A \cup {x} ELSE A) = Cardinality(A) + B(z, L)
  BY <1>2 DEF B
<1>7. QED
  BY <1>2, <1>5, <1>6 DEF B

LEMMA BIsNat == \A x, L : B(x, L) \in {0, 1}
BY DEF B

LEMMA CountIsNat ==
  ASSUME NEW S, IsFiniteSet(S), NEW pc, NEW L PROVE Count(S, pc, L) \in Nat
<1>1. {y \in S : pc[y] \in L} \subseteq S
  OBVIOUS
<1>2. QED
  BY <1>1, FS_Subset, FS_CardinalityType DEF Count

Reading == Count(Loaders, lpc, {"read"})
Listing == Count(Loaders, lpc, {"list"})
Writing == Count(Writers, wpc, {"lines", "whole", "cat"})
Looking == Count(Writers, wpc, {"list"})

BufLabels == {"open", "read", "load"}

\* NothingLeaks, in the form in which it is counted.
Counted ==
  /\ \A l \in Loaders : raw[l] = B(lpc[l], BufLabels)
  /\ handles = Reading + Writing
  /\ dirs = lost + Listing + Looking

LEMMA CountTypes ==
  Reading \in Nat /\ Listing \in Nat /\ Writing \in Nat /\ Looking \in Nat
BY CountIsNat, FiniteAssumption DEF Reading, Listing, Writing, Looking

LEMMA CountedNothingLeaks == ASSUME Typed PROVE Counted <=> NothingLeaks
<1>1. /\ Reading = Cardinality({l \in Loaders : lpc[l] = "read"})
      /\ Listing = Cardinality({l \in Loaders : lpc[l] = "list"})
      /\ Looking = Cardinality({w \in Writers : wpc[w] = "list"})
  BY DEF Reading, Listing, Looking, Count
<1>2. lost \in Nat
  BY DEF Typed, CountersTyped
<1>3. QED
  BY <1>1, <1>2, CountTypes DEF Counted, NothingLeaks, Writing, Count, B, BufLabels

LoaderCounts(l, label) ==
  /\ lpc' = [lpc EXCEPT ![l] = label]
  /\ \A k \in Loaders \ {l} : raw'[k] = raw[k]
  /\ raw'[l] = raw[l] + B(label, BufLabels) - B(lpc[l], BufLabels)
  /\ handles' = handles + B(label, {"read"}) - B(lpc[l], {"read"})
  /\ lost' \in Nat
  /\ dirs' - lost' = dirs - lost + B(label, {"list"}) - B(lpc[l], {"list"})
  /\ dirs' \in Int

LEMMA LoaderStepCounts ==
  ASSUME Typed, NEW l \in Loaders, LoaderActs(l)
  PROVE  \E label : LoaderCounts(l, label)
<1>1. /\ raw \in [Loaders -> Int] /\ handles \in Int /\ dirs \in Int /\ lost \in Nat
  BY DEF Typed, LoaderTyped, CountersTyped
<1> USE <1>1 DEF B, BufLabels
<1>2. CASE \E o \in Ops : LoadRefused(l, o)
  <2>1. /\ lpc[l] = "idle" /\ lpc' = [lpc EXCEPT ![l] = "idle"]
        /\ UNCHANGED <<raw, handles, dirs, lost>>
    BY <1>2 DEF LoadRefused, Done, dvars
  <2>2. LoaderCounts(l, "idle")
    BY <2>1 DEF LoaderCounts
  <2>3. QED
    BY <2>2
<1>3. CASE Run(l)
  <2>1. /\ lpc[l] = "run" /\ lpc' = [lpc EXCEPT ![l] = "idle"]
        /\ UNCHANGED <<raw, handles, dirs, lost>>
    BY <1>3 DEF Run, Done, dvars
  <2>2. LoaderCounts(l, "idle")
    BY <2>1 DEF LoaderCounts
  <2>3. QED
    BY <2>2
<1>4. CASE \E o \in Ops \ {"list"}, p \in Paths : StatAndAlloc(l, o, p)
  <2>1. /\ lpc[l] = "idle" /\ lpc' = [lpc EXCEPT ![l] = "open"]
        /\ UNCHANGED <<handles, dirs, lost>> /\ raw' = [raw EXCEPT ![l] = raw[l] + 1]
    BY <1>4 DEF StatAndAlloc, dvars
  <2>2. LoaderCounts(l, "open")
    BY <2>1 DEF LoaderCounts
  <2>3. QED
    BY <2>2
<1>5. CASE ListBegins(l)
  <2>1. /\ lpc[l] = "idle" /\ lpc' = [lpc EXCEPT ![l] = "list"]
        /\ UNCHANGED <<raw, handles, lost>> /\ dirs' = dirs + 1
    BY <1>5 DEF ListBegins
  <2>2. LoaderCounts(l, "list")
    BY <2>1 DEF LoaderCounts
  <2>3. QED
    BY <2>2
<1>6. CASE Open(l)
  <2>1. /\ lpc[l] = "open" /\ lpc' = [lpc EXCEPT ![l] = "read"]
        /\ UNCHANGED <<raw, dirs, lost>> /\ handles' = handles + 1
    BY <1>6 DEF Open, dvars
  <2>2. LoaderCounts(l, "read")
    BY <2>1 DEF LoaderCounts
  <2>3. QED
    BY <2>2
<1>7. CASE OpenFails(l)
  <2>1. /\ lpc[l] = "open" /\ lpc' = [lpc EXCEPT ![l] = "idle"]
        /\ UNCHANGED <<handles, dirs, lost>> /\ raw' = [raw EXCEPT ![l] = raw[l] - 1]
    BY <1>7 DEF OpenFails, FreeBuf, Done, dvars
  <2>2. LoaderCounts(l, "idle")
    BY <2>1 DEF LoaderCounts
  <2>3. QED
    BY <2>2
<1>8. CASE ReadFails(l)
  <2>1. /\ lpc[l] = "read" /\ lpc' = [lpc EXCEPT ![l] = "idle"]
        /\ UNCHANGED <<dirs, lost>> /\ handles' = handles - 1
        /\ raw' = [raw EXCEPT ![l] = raw[l] - 1]
    BY <1>8 DEF ReadFails, FreeBuf, Done, dvars
  <2>2. LoaderCounts(l, "idle")
    BY <2>1 DEF LoaderCounts
  <2>3. QED
    BY <2>2
<1>9. CASE Read(l)
  <2>1. /\ lpc[l] = "read" /\ lpc' = [lpc EXCEPT ![l] = "load"]
        /\ UNCHANGED <<raw, dirs, lost>> /\ handles' = handles - 1
    BY <1>9 DEF Read, dvars
  <2>2. LoaderCounts(l, "load")
    BY <2>1 DEF LoaderCounts
  <2>3. QED
    BY <2>2
<1>10. CASE LoadBuffer(l)
  <2>1. PICK label \in {"idle", "run"} : lpc' = [lpc EXCEPT ![l] = label]
    BY <1>10 DEF LoadBuffer, Done
  <2>2. /\ lpc[l] = "load" /\ UNCHANGED <<handles, dirs, lost>>
        /\ raw' = [raw EXCEPT ![l] = raw[l] - 1]
    BY <1>10 DEF LoadBuffer, FreeBuf, dvars
  <2>3. LoaderCounts(l, label)
    BY <2>1, <2>2 DEF LoaderCounts
  <2>4. QED
    BY <2>3
<1>11. CASE ListEnds(l) \/ ListRaises(l)
  <2>1. /\ lpc[l] = "list" /\ lpc' = [lpc EXCEPT ![l] = "idle"]
        /\ UNCHANGED <<raw, handles>>
        /\ \/ UNCHANGED lost /\ dirs' = dirs - 1
           \/ UNCHANGED dirs /\ lost' = lost + 1
    BY <1>11 DEF ListEnds, ListRaises, Done
  <2>2. LoaderCounts(l, "idle")
    BY <2>1 DEF LoaderCounts
  <2>3. QED
    BY <2>2
<1>12. QED
  BY <1>2, <1>3, <1>4, <1>5, <1>6, <1>7, <1>8, <1>9, <1>10, <1>11
     DEF LoaderActs, LoaderStep

LEMMA LoaderCounted ==
  ASSUME Typed, Counted, NEW l \in Loaders, LoaderActs(l)
  PROVE  CountersTyped' /\ Counted'
<1>1. PICK label : LoaderCounts(l, label)
  BY LoaderStepCounts
<1>2. /\ raw \in [Loaders -> Int] /\ handles \in Int /\ dirs \in Int /\ lost \in Nat
  BY DEF Typed, LoaderTyped, CountersTyped
<1>a. lpc'[l] = label /\ \A k \in Loaders \ {l} : lpc'[k] = lpc[k]
  BY <1>1 DEF Typed, LoaderTyped, LoaderCounts
<1>3. CountersTyped'
  BY <1>1, <1>2 DEF LoaderCounts, CountersTyped, B
<1>4. \A k \in Loaders : raw'[k] = B(lpc'[k], BufLabels)
  <2>1. raw[l] = B(lpc[l], BufLabels) /\ B(label, BufLabels) \in {0, 1}
    BY BIsNat DEF Counted
  <2>2. raw'[l] = B(lpc'[l], BufLabels)
    BY <1>1, <1>2, <1>a, <2>1 DEF LoaderCounts
  <2>3. \A k \in Loaders \ {l} : raw'[k] = B(lpc'[k], BufLabels)
    BY <1>1, <1>a DEF LoaderCounts, Counted
  <2>4. QED
    BY <2>2, <2>3
<1>5. Reading' = Reading + B(label, {"read"}) - B(lpc[l], {"read"})
  BY <1>a, CountAfter, FiniteAssumption DEF Reading
<1>6. Listing' = Listing + B(label, {"list"}) - B(lpc[l], {"list"})
  BY <1>a, CountAfter, FiniteAssumption DEF Listing
<1>7. UNCHANGED <<Writing, Looking>>
  BY LoaderFrame DEF wvars, Writing, Looking
<1>8. handles' = Reading' + Writing'
  <2>1. /\ handles' = handles + B(label, {"read"}) - B(lpc[l], {"read"})
        /\ handles = Reading + Writing
    BY <1>1 DEF LoaderCounts, Counted
  <2>2. B(label, {"read"}) \in Int /\ B(lpc[l], {"read"}) \in Int
    BY BIsNat
  <2>3. Writing' = Writing
    BY <1>7
  <2>4. QED
    BY <1>2, <1>5, <2>1, <2>2, <2>3, CountTypes
<1>9. dirs' = lost' + Listing' + Looking'
  <2>1. /\ dirs' - lost' = dirs - lost + B(label, {"list"}) - B(lpc[l], {"list"})
        /\ dirs' \in Int /\ lost' \in Int
        /\ dirs = lost + Listing + Looking
    BY <1>1 DEF LoaderCounts, Counted
  <2>2. B(label, {"list"}) \in Int /\ B(lpc[l], {"list"}) \in Int
    BY BIsNat
  <2>3. Looking' = Looking
    BY <1>7
  <2>4. QED
    BY <1>2, <1>6, <2>1, <2>2, <2>3, CountTypes
<1>10. QED
  BY <1>3, <1>4, <1>8, <1>9 DEF Counted

WriterCounts(w, label) ==
  /\ wpc' = [wpc EXCEPT ![w] = label]
  /\ handles' = handles + B(label, {"lines", "whole", "cat"})
                        - B(wpc[w], {"lines", "whole", "cat"})
  /\ dirs' = dirs + B(label, {"list"}) - B(wpc[w], {"list"})

LEMMA WriterStepCounts ==
  ASSUME Typed, NEW w \in Writers, WriterActs(w)
  PROVE  \E label : WriterCounts(w, label)
<1>1. /\ handles \in Int /\ dirs \in Int /\ wpc \in [Writers -> WriterLabels]
  BY DEF Typed, WriterTyped, CountersTyped
<1> USE <1>1 DEF B
<1>2. CASE \E p \in Paths : CmdWrite(w, p)
  <2>1. WriterCounts(w, "lines")
    BY <1>2 DEF CmdWrite, OpenToWrite, dvars, WriterCounts
  <2>2. QED
    BY <2>1
<1>3. CASE \E p \in Paths, line \in Lines :
             \E n \in 1..MaxLines : WriteFile(w, p, [k \in 1..n |-> line])
  <2>1. WriterCounts(w, "whole")
    BY <1>3 DEF WriteFile, OpenToWrite, dvars, WriterCounts
  <2>2. QED
    BY <2>1
<1>4. CASE WriteDot(w) \/ WriteWhole(w) \/ WriteUnlink(w) \/ LookEnds(w)
  <2>1. wpc' = [wpc EXCEPT ![w] = "idle"]
    BY <1>4 DEF WriteDot, WriteWhole, WriteUnlink, LookEnds, Close
  <2>2. \/ wpc[w] \in {"lines", "whole"} /\ handles' = handles - 1 /\ UNCHANGED dirs
        \/ wpc[w] = "unlink" /\ UNCHANGED <<handles, dirs>>
        \/ wpc[w] = "list" /\ dirs' = dirs - 1 /\ UNCHANGED handles
        \/ wpc[w] = "cat" /\ handles' = handles - 1 /\ UNCHANGED dirs
    BY <1>4 DEF WriteDot, WriteWhole, WriteUnlink, LookEnds, Close, dvars
  <2>3. WriterCounts(w, "idle")
    BY <2>1, <2>2 DEF WriterCounts
  <2>4. QED
    BY <2>3
<1>5. CASE WriteCancel(w)
  <2>1. WriterCounts(w, "unlink")
    BY <1>5 DEF WriteCancel, Close, dvars, WriterCounts
  <2>2. QED
    BY <2>1
<1>6. CASE WriteRefused(w) \/ \E line \in Lines : WriteLine(w, line)
  <2>1. UNCHANGED <<wpc, handles, dirs>>
    BY <1>6 DEF WriteRefused, WriteLine, dvars
  <2>2. WriterCounts(w, wpc[w])
    BY <2>1 DEF WriterCounts
  <2>3. QED
    BY <2>2
<1>7. CASE CmdLook(w, "list")
  <2>1. WriterCounts(w, "list")
    BY <1>7 DEF CmdLook, WriterCounts
  <2>2. QED
    BY <2>1
<1>8. CASE CmdLook(w, "cat")
  <2>1. WriterCounts(w, "cat")
    BY <1>8 DEF CmdLook, WriterCounts
  <2>2. QED
    BY <2>1
<1>9. QED
  BY <1>2, <1>3, <1>4, <1>5, <1>6, <1>7, <1>8 DEF WriterActs

LEMMA WriterCounted ==
  ASSUME Typed, Counted, NEW w \in Writers, WriterActs(w)
  PROVE  CountersTyped' /\ Counted'
<1>1. PICK label : WriterCounts(w, label)
  BY WriterStepCounts
<1>2. UNCHANGED <<lvars, lost>>
  BY WriterFrame
<1>3. /\ handles \in Int /\ dirs \in Int /\ lost \in Nat
      /\ wpc'[w] = label /\ \A v \in Writers \ {w} : wpc'[v] = wpc[v]
  BY <1>1 DEF Typed, WriterTyped, CountersTyped, WriterCounts
<1>4. CountersTyped'
  BY <1>1, <1>2, <1>3 DEF WriterCounts, CountersTyped, B
<1>5. \A k \in Loaders : raw'[k] = B(lpc'[k], BufLabels)
  BY <1>2 DEF lvars, Counted
<1>6. Writing' = Writing + B(label, {"lines", "whole", "cat"})
                         - B(wpc[w], {"lines", "whole", "cat"})
  BY <1>3, CountAfter, FiniteAssumption DEF Writing
<1>7. Looking' = Looking + B(label, {"list"}) - B(wpc[w], {"list"})
  BY <1>3, CountAfter, FiniteAssumption DEF Looking
<1>8. UNCHANGED <<Reading, Listing>>
  BY <1>2 DEF lvars, Reading, Listing
<1>9. QED
  BY <1>1, <1>2, <1>3, <1>4, <1>5, <1>6, <1>7, <1>8, CountTypes, BIsNat DEF WriterCounts, Counted

-----------------------------------------------------------------------------
(* The invariant and what follows from it.                                 *)

\* What l reads, and has read, is a content its file had since fs_stat, cut at
\* the size fs_stat saw.
Versions ==
  \A l \in Loaders :
    /\ Len(buf[l]) <= size[l]
    /\ lpc[l] \in {"idle", "open", "read", "list"} => buf[l] = <<>>
    /\ lpc[l] = "open" => disk[path[l]] \in since[l] \cup {NoFile}
    /\ lpc[l] = "read" => file[l] \in since[l]

\* A thread in lua_fs_write_file is between fs_open and fs_write: it has
\* answered nothing, and its path is that of a file.
InWriteFile ==
  \A w \in Writers :
    wpc[w] = "whole" => said[w] # "returned 0" /\ target[w] \in Paths

FsInv == Typed /\ Counted /\ Versions /\ LoadsOneVersion /\ InWriteFile

LEMMA InitFsInv == Init => FsInv
<1> SUFFICES ASSUME Init PROVE FsInv
  OBVIOUS
<1>1. Counted
  <2>1. \A L, S : Count(S, [x \in S |-> "idle"], L) =
                  IF "idle" \in L THEN Cardinality(S) ELSE 0
    <3>1. ASSUME NEW L, NEW S PROVE
            {y \in S : [x \in S |-> "idle"][y] \in L} = IF "idle" \in L THEN S ELSE {}
      OBVIOUS
    <3>2. QED
      BY <3>1, FS_EmptySet, Zenon DEF Count
  <2>2. Reading = 0 /\ Listing = 0 /\ Writing = 0 /\ Looking = 0
    BY <2>1 DEF Init, Reading, Listing, Writing, Looking
  <2>3. QED
    BY <2>2 DEF Init, Counted, B, BufLabels
<1>2. Versions /\ LoadsOneVersion /\ InWriteFile
  BY DEF Init, Versions, LoadsOneVersion, InWriteFile
<1>3. QED
  BY <1>1, <1>2, InitTyped DEF FsInv

\* A step in which l ends leaves it with an empty buffer; the others keep theirs.
LEMMA LoaderVersions ==
  ASSUME Typed, Versions, LoadsOneVersion, NEW l \in Loaders, LoaderActs(l)
  PROVE  Versions' /\ LoadsOneVersion'
<1>1. UNCHANGED disk
  BY LoaderFrame
<1>2. \A k \in Loaders \ {l} :
        /\ lpc'[k] = lpc[k] /\ buf'[k] = buf[k] /\ size'[k] = size[k]
        /\ path'[k] = path[k] /\ file'[k] = file[k] /\ since'[k] = since[k]
  BY DEF LoaderActs, LoaderStep, LoadRefused, StatAndAlloc, ListBegins, Open, OpenFails,
         Read, ReadFails, LoadBuffer, Run, ListEnds, ListRaises, Done, Typed, LoaderTyped
<1>3. SUFFICES /\ Len(buf'[l]) <= size'[l]
               /\ lpc'[l] \in {"idle", "open", "read", "list"} => buf'[l] = <<>>
               /\ lpc'[l] = "open" => disk[path'[l]] \in since'[l] \cup {NoFile}
               /\ lpc'[l] = "read" => file'[l] \in since'[l]
               /\ lpc'[l] = "load" =>
                    \E v \in since'[l] :
                      /\ Prefix(buf'[l], v)
                      /\ Len(buf'[l]) < size'[l] => buf'[l] = v
  BY <1>1, <1>2 DEF Versions, LoadsOneVersion
<1>4. CASE \E o : Done(l, o)
  BY <1>4 DEF Done, Typed, LoaderTyped
<1>5. ASSUME NEW o \in Ops \ {"list"}, NEW p \in Paths, StatAndAlloc(l, o, p)
      PROVE  /\ Len(buf'[l]) <= size'[l] /\ buf'[l] = <<>> /\ lpc'[l] = "open"
             /\ disk[path'[l]] \in since'[l]
  <2>1. disk[p] \in Scripts /\ Len(disk[p]) \in Nat
    BY <1>5 DEF StatAndAlloc, Typed, Scripts
  <2>2. buf'[l] = <<>> /\ size'[l] = Len(disk[p])
    BY <1>5 DEF StatAndAlloc, Versions, Typed, LoaderTyped
  <2>3. lpc'[l] = "open" /\ path'[l] = p /\ since'[l] = {disk[p]}
    BY <1>5 DEF StatAndAlloc, Typed, LoaderTyped
  <2>4. QED
    BY <2>1, <2>2, <2>3
<1>6. CASE ListBegins(l)
  BY <1>6 DEF ListBegins, Versions, Typed, LoaderTyped
<1>7. CASE Open(l)
  BY <1>7 DEF Open, Versions, Typed, LoaderTyped
<1>8. CASE Read(l)
  <2>1. file[l] \in Scripts /\ size[l] \in Nat /\ file[l] \in since[l]
    BY <1>8, SizeAssumption DEF Read, Versions, Typed, LoaderTyped, LoaderShape
  <2>2. /\ buf'[l] = ReadUpTo(size[l], file[l])
        /\ lpc'[l] = "load" /\ size'[l] = size[l] /\ since'[l] = since[l]
    BY <1>8 DEF Read, Typed, LoaderTyped
  <2>3. QED
    BY <2>1, <2>2, ReadUpToFacts
<1>9. CASE LoadBuffer(l) /\ lpc' = [lpc EXCEPT ![l] = "run"]
  <2>1. UNCHANGED <<size, buf>>
    BY <1>9 DEF LoadBuffer, Done, Typed, LoaderTyped
  <2>2. lpc'[l] = "run"
    BY <1>9 DEF Typed, LoaderTyped
  <2>3. QED
    BY <2>1, <2>2 DEF Versions
<1>10. Ends(l) \/ Continues(l)
  BY EndsOrContinues DEF Typed
<1>11. QED
  BY <1>4, <1>5, <1>6, <1>7, <1>8, <1>9, <1>10 DEF Ends, Continues

LEMMA FilesChangeVersions ==
  ASSUME Typed, Versions, LoadsOneVersion, FilesChange, UNCHANGED lvars
  PROVE  Versions' /\ LoadsOneVersion'
<1>1. \A l \in Loaders :
        /\ since[l] \subseteq since'[l]
        /\ lpc[l] = "open" => disk'[path[l]] \in since'[l] \cup {NoFile}
  <2>1. CASE UNCHANGED <<disk, since>>
    BY <2>1 DEF Versions
  <2>2. CASE \E p, s : s \in Scripts /\ Commit(p, s)
    <3>1. PICK p, s : s \in Scripts /\ Commit(p, s)
      BY <2>2
    <3>2. \A l \in Loaders : since'[l] = IF path[l] = p THEN since[l] \cup {s} ELSE since[l]
      BY <3>1 DEF Commit
    <3>3. \A q \in Paths : disk'[q] = IF q = p THEN s ELSE disk[q]
      BY <3>1 DEF Commit, Typed
    <3>4. QED
      BY <3>2, <3>3 DEF Versions, Typed, LoaderShape
  <2>3. CASE UNCHANGED since /\ \E p : disk' = [disk EXCEPT ![p] = NoFile]
    <3>1. \A q \in Paths : disk'[q] \in {disk[q], NoFile}
      BY <2>3 DEF Typed
    <3>2. QED
      BY <2>3, <3>1 DEF Versions, Typed, LoaderShape
  <2>4. QED
    BY <2>1, <2>2, <2>3 DEF FilesChange
<1>2. UNCHANGED <<buf, size, lpc, path, file>>
  BY DEF lvars
<1>3. Versions'
  BY <1>1, <1>2 DEF Versions
<1>4. LoadsOneVersion'
  BY <1>1, <1>2 DEF LoadsOneVersion
<1>5. QED
  BY <1>3, <1>4

LEMMA OthersFrame ==
  ASSUME Typed, NEW w \in Writers, WriterActs(w)
  PROVE  \A v \in Writers \ {w} : /\ said'[v] = said[v] /\ wpc'[v] = wpc[v]
                                  /\ target'[v] = target[v]
BY DEF WriterActs, CmdWrite, WriteFile, OpenToWrite, WriteLine, WriteRefused, WriteDot,
       WriteCancel, WriteUnlink, WriteWhole, CmdLook, LookEnds, Close, Typed, WriterTyped

LEMMA WriterInWriteFile ==
  ASSUME Typed, InWriteFile, NEW w \in Writers, WriterActs(w)
  PROVE  InWriteFile'
<1>1. SUFFICES wpc'[w] = "whole" => said'[w] # "returned 0" /\ target'[w] \in Paths
  BY OthersFrame DEF InWriteFile
<1>2. CASE \E p \in Paths, line \in Lines :
             \E n \in 1..MaxLines : WriteFile(w, p, [k \in 1..n |-> line])
  BY <1>2 DEF WriteFile, OpenToWrite, Typed, WriterTyped
<1>3. CASE \E p \in Paths : CmdWrite(w, p)
  BY <1>3 DEF CmdWrite, OpenToWrite, Typed, WriterTyped
<1>4. CASE \/ WriteDot(w) \/ WriteCancel(w) \/ WriteWhole(w) \/ WriteUnlink(w)
           \/ CmdLook(w, "list") \/ CmdLook(w, "cat") \/ LookEnds(w)
  BY <1>4 DEF WriteDot, WriteCancel, WriteWhole, WriteUnlink, CmdLook, LookEnds, Close,
              Typed, WriterTyped
<1>5. CASE WriteRefused(w) \/ \E line \in Lines : WriteLine(w, line)
  BY <1>5 DEF WriteRefused, WriteLine, InWriteFile, Typed, WriterTyped
<1>6. QED
  BY <1>2, <1>3, <1>4, <1>5 DEF WriterActs

LEMMA FsInvStep == FsInv /\ [Next]_vars => FsInv'
<1> SUFFICES ASSUME FsInv, [Next]_vars PROVE FsInv'
  OBVIOUS
<1> USE DEF FsInv
<1>1. CASE \E l \in Loaders : LoaderActs(l)
  <2>1. PICK l \in Loaders : LoaderActs(l)
    BY <1>1
  <2>2. UNCHANGED <<disk, wvars>>
    BY <2>1, LoaderFrame
  <2>3. LoaderTyped' /\ LoaderShape'
    BY <2>1, EndsOrContinues, EndsTyped, ContinuesTyped DEF Typed
  <2>4. CountersTyped' /\ Counted'
    BY <2>1, LoaderCounted
  <2>5. WriterTyped' /\ InWriteFile'
    BY <2>2 DEF wvars, Typed, WriterTyped, InWriteFile
  <2>6. Typed'
    BY <2>2, <2>3, <2>4, <2>5 DEF Typed
  <2>7. QED
    BY <2>1, <2>4, <2>5, <2>6, LoaderVersions
<1>2. CASE \E w \in Writers : WriterActs(w)
  <2>1. PICK w \in Writers : WriterActs(w)
    BY <1>2
  <2>2. UNCHANGED lvars /\ FilesChange
    BY <2>1, WriterFrame
  <2>3. CountersTyped' /\ Counted'
    BY <2>1, WriterCounted
  <2>4. WriterTyped' /\ InWriteFile'
    BY <2>1, WriterKeepsTypes, WriterInWriteFile
  <2>5. Typed'
    BY <2>2, <2>3, <2>4, FilesChangeTyped DEF Typed
  <2>6. QED
    BY <2>2, <2>3, <2>4, <2>5, FilesChangeVersions
<1>3. CASE UNCHANGED vars \/ \E p \in Paths : CmdDelete(p)
  <2>1. UNCHANGED <<handles, dvars, lvars, wpc, target, draft, entered, said, closeFailed>>
        /\ FilesChange
    BY <1>3 DEF CmdDelete, Unlink, FilesChange, vars, wvars
  <2>2. CountersTyped' /\ Counted'
    <3>1. UNCHANGED <<Reading, Listing, Writing, Looking>>
      BY <2>1 DEF lvars, Reading, Listing, Writing, Looking
    <3>2. QED
      BY <2>1, <3>1 DEF lvars, dvars, Typed, CountersTyped, Counted
  <2>3. WriterTyped' /\ InWriteFile'
    <3>1. gone' \subseteq Writers
      BY <1>3 DEF CmdDelete, Unlink, vars, wvars, Typed, WriterTyped
    <3>2. QED
      BY <2>1, <3>1 DEF Typed, WriterTyped, InWriteFile
  <2>4. Typed'
    BY <2>1, <2>2, <2>3, FilesChangeTyped DEF Typed
  <2>5. QED
    BY <2>1, <2>2, <2>3, <2>4, FilesChangeVersions
<1>4. QED
  BY <1>1, <1>2, <1>3, Steps

LEMMA FsInvHolds == Spec => []FsInv
BY InitFsInv, FsInvStep, PTL DEF Spec

\* The types; that no counter goes below zero rests on NothingLeaks.
THEOREM FsTypeCorrect == Spec => []TypeOK
<1>1. FsInv => TypeOK
  <2>1. SUFFICES ASSUME FsInv PROVE TypeOK
    OBVIOUS
  <2>2. handles \in Nat /\ dirs \in Nat /\ lost \in Nat
    BY <2>1, CountTypes DEF FsInv, Typed, CountersTyped, Counted
  <2>3. raw \in [Loaders -> Nat]
    BY <2>1, BIsNat DEF FsInv, Typed, LoaderTyped, Counted
  <2>4. QED
    BY <2>1, <2>2, <2>3
       DEF FsInv, Typed, LoaderTyped, WriterTyped, TypeOK, Outs, LoaderLabels,
           WriterLabels, Words
<1>2. QED
  BY <1>1, FsInvHolds, PTL

\* read_file_into_buf never writes behind the buffer it sized with fs_stat,
\* however the file changes before fs_read.
THEOREM FsBufferHolds == Spec => []BufferHolds
<1>1. FsInv => BufferHolds
  BY SizeAssumption DEF FsInv, Versions, Typed, LoaderTyped, BufferHolds
<1>2. QED
  BY <1>1, FsInvHolds, PTL

\* What is compiled is one version of the file, or the start of one.
THEOREM FsLoadsOneVersion == Spec => []LoadsOneVersion
<1>1. FsInv => LoadsOneVersion
  BY DEF FsInv
<1>2. QED
  BY <1>1, FsInvHolds, PTL

\* On every path through src/luaz_fs.c and the shell commands, the one fs.list
\* takes when Lua raises an error excepted, buffers are freed and handles closed.
THEOREM FsNothingLeaks == Spec => []NothingLeaks
<1>1. FsInv => NothingLeaks
  BY CountedNothingLeaks DEF FsInv
<1>2. QED
  BY <1>1, FsInvHolds, PTL

\* lua_fs_write_file returns 0 only when all of its data is the content of the
\* file, however many other threads write, delete and load it; what it does not
\* report is that its file is gone or its fs_close failed, and neither leaves a
\* part of the data.
THEOREM FsWriteFileTellsTheTruth == Spec => WriteFileTellsTheTruth
<1>1. ASSUME FsInv, [Next]_vars, NEW w \in Writers, wpc[w] = "whole", said'[w] = "returned 0"
      PROVE  \/ disk'[target[w]] = entered[w]
             \/ disk' = disk /\ (w \in gone \/ w \in closeFailed')
  <2>1. Typed /\ said[w] # "returned 0" /\ target[w] \in Paths
    BY <1>1 DEF FsInv, InWriteFile
  <2>2. WriterActs(w)
    <3>1. ASSUME NEW v \in Writers \ {w}, WriterActs(v) PROVE FALSE
      BY <1>1, <2>1, <3>1, OthersFrame
    <3>2. ASSUME UNCHANGED said PROVE FALSE
      BY <1>1, <2>1, <3>2
    <3>3. ASSUME NEW l \in Loaders, LoaderActs(l) PROVE UNCHANGED said
      BY <3>3, LoaderFrame DEF wvars
    <3>4. (UNCHANGED vars \/ \E p \in Paths : CmdDelete(p)) => UNCHANGED said
      BY DEF vars, wvars, CmdDelete
    <3>5. QED
      BY <1>1, <3>1, <3>2, <3>3, <3>4, Steps
  <2>3. WriteWhole(w)
    BY <1>1, <2>2 DEF WriterActs, CmdWrite, WriteFile, OpenToWrite, WriteLine, WriteRefused,
                      WriteDot, WriteCancel, WriteUnlink, CmdLook, LookEnds
  <2>4. PICK n \in 0..Len(entered[w]) :
          Close(w, SubSeq(entered[w], 1, n), "idle",
                IF n = Len(entered[w]) THEN "returned 0" ELSE "error")
    BY <2>3 DEF WriteWhole
  <2>5. said'[w] = IF n = Len(entered[w]) THEN "returned 0" ELSE "error"
    BY <2>1, <2>4 DEF Close, Typed, WriterTyped
  <2>6. SubSeq(entered[w], 1, n) = entered[w]
    BY <1>1, <2>1, <2>5, PrefixTypes DEF Typed, WriterTyped
  <2>7. Close(w, entered[w], "idle", "returned 0")
    BY <1>1, <2>4, <2>5, <2>6
  <2>8. CASE w \notin gone /\ Commit(target[w], entered[w])
    BY <2>1, <2>8 DEF Commit, Typed
  <2>9. CASE disk' = disk /\ (w \in gone \/ w \in closeFailed')
    BY <2>9
  <2>10. QED
    BY <2>7, <2>8, <2>9 DEF Close
<1>2. FsInv /\ [Next]_vars =>
        [\A w \in Writers :
           wpc[w] = "whole" /\ said'[w] = "returned 0" =>
             \/ disk'[target[w]] = entered[w]
             \/ disk' = disk /\ (w \in gone \/ w \in closeFailed')]_vars
  BY <1>1
<1>3. QED
  BY <1>2, FsInvHolds, PTL DEF Spec, WriteFileTellsTheTruth
=============================================================================
