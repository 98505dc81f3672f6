--------------------------- MODULE LuaThreadProofs ---------------------------
(***************************************************************************)
(* Proofs about LuaState and LuaThread, for any runners, scripts, programs, *)
(* firmware versions and number of boots.                                   *)
(***************************************************************************)
EXTENDS LuaThread, TLAPS

-----------------------------------------------------------------------------
(* Type correctness.                                                       *)

FileCalls == [call : {"dofile", "loadfile", "list"}, arg : Files]

Loading == {"newstate", "openlibs", "setup", "load"}

\* What a runner is about to load is in a file, and main starts with the first.
Shape ==
  /\ \A r \in Runners :
       rpc[r] \in Loading => todo[r] # <<>> /\ Head(todo[r]) \in FileCalls
  /\ mpc \in {"mount", "erase", "format", "remount"} => next = 1

TypeInv == TypeOK /\ Shape

LEMMA BundleFacts ==
  /\ Len(Bundle) \in Nat /\ Len(Bundle) >= 1
  /\ DOMAIN Bundle = 1..Len(Bundle)
  /\ \A k \in DOMAIN Bundle : Bundle[k] \in Bundled /\ Bundle[k] \in Files
  /\ Call("dofile", Bundle[1]) \in FileCalls
  /\ ThreadCalls \in Seq(Calls)
<1>1. /\ Len(Bundle) \in Nat /\ Len(Bundle) >= 1
      /\ DOMAIN Bundle = 1..Len(Bundle)
  BY BundleAssumption
<1>2. \A k \in DOMAIN Bundle : Bundle[k] \in Bundled /\ Bundle[k] \in Files
  BY DEF Bundled, Files
<1>3. Call("dofile", Bundle[1]) \in FileCalls
  BY <1>1, <1>2 DEF Call, FileCalls
<1>4. FileCalls \subseteq Calls
  BY DEF FileCalls, Calls
<1>5. ThreadCalls \in Seq(Calls)
  BY <1>3, <1>4 DEF ThreadCalls
<1>6. QED
  BY <1>1, <1>2, <1>3, <1>5

LEMMA BootTodo ==
  /\ TodoAtBoot \in [Runners -> Seq(Calls)]
  /\ RpcAtBoot \in [Runners -> {"ended", "newstate", "openlibs", "setup", "load",
                                "run", "close"}]
  /\ \A r \in Runners : RpcAtBoot[r] \in Loading =>
       TodoAtBoot[r] # <<>> /\ Head(TodoAtBoot[r]) \in FileCalls
<1>1. TodoAtBoot \in [Runners -> Seq(Calls)]
  BY BundleFacts DEF TodoAtBoot
<1>2. ThreadCalls # <<>> /\ Head(ThreadCalls) \in FileCalls
  BY BundleFacts DEF ThreadCalls
<1>3. ASSUME NEW r \in Runners, RpcAtBoot[r] \in Loading
      PROVE  TodoAtBoot[r] # <<>> /\ Head(TodoAtBoot[r]) \in FileCalls
  <2>1. r = Thread
    BY <1>3 DEF RpcAtBoot, Loading
  <2>2. QED
    BY <2>1, <1>2 DEF TodoAtBoot
<1>4. RpcAtBoot \in [Runners -> {"ended", "newstate", "openlibs", "setup", "load",
                                 "run", "close"}]
  BY DEF RpcAtBoot
<1>5. QED
  BY <1>1, <1>3, <1>4

LEMMA InitTypeInv == Init => TypeInv
<1> SUFFICES ASSUME Init PROVE TypeInv
  OBVIOUS
<1>1. StateTypeOK
  BY DEF Init, StateTypeOK, StateInit, NoTable, NoAnswer
<1>2. TypeOK
  <2>1. next \in 1..(Len(Bundle) + 1) /\ boots \in Nat
    BY BundleFacts DEF Init
  <2>2. disk \in [Files -> Contents] /\ ran \in [Runners -> SUBSET (Files \X Contents)]
    BY DEF Init, Contents
  <2>3. waiting \in [Threads -> BOOLEAN]
    BY DEF Init
  <2>4. QED
    BY <1>1, <2>1, <2>2, <2>3, BootTodo DEF Init, TypeOK, Versions
<1>3. Shape
  BY BootTodo DEF Init, Shape
<1>4. QED
  BY <1>2, <1>3 DEF TypeInv

LEMMA RequireKeepsTypes ==
  ASSUME StateTypeOK, NEW r \in Runners, NEW n \in Modules,
         RequireCached(r, n) \/ RequireLoads(r, n) \/ RequireRaises(r, n)
  PROVE  StateTypeOK'
<1>1. CASE RequireCached(r, n)
  BY <1>1 DEF StateTypeOK, RequireCached, Answer
<1>2. CASE RequireLoads(r, n)
  BY <1>2 DEF StateTypeOK, RequireLoads, Answer, OpensFs
<1>3. CASE RequireRaises(r, n)
  <2>1. fsGlobals' \in [Runners -> BOOLEAN]
    BY <1>3, Zenon DEF StateTypeOK, RequireRaises, OpensFs
  <2>2. made' \in [Runners -> Nat]
    BY <1>3 DEF StateTypeOK, RequireRaises
  <2>3. QED
    BY <1>3, <2>1, <2>2 DEF StateTypeOK, RequireRaises
<1>4. QED
  BY <1>1, <1>2, <1>3

LEMMA PowerCutTypeInv ==
  ASSUME TypeInv, PowerCut PROVE TypeInv'
<1>1. StateTypeOK'
  BY DEF PowerCut, StateTypeOK, NoTable, NoAnswer
<1>2. TypeOK'
  <2>1. next' \in 1..(Len(Bundle) + 1) /\ boots' \in Nat
    BY BundleFacts DEF PowerCut, TypeInv, TypeOK
  <2>2. ran' \in [Runners -> SUBSET (Files \X Contents)]
    BY DEF PowerCut
  <2>3. waiting' \in [Threads -> BOOLEAN]
    BY DEF PowerCut
  <2>4. formatted' \in BOOLEAN /\ disk' \in [Files -> Contents]
    BY DEF PowerCut, TypeInv, TypeOK
  <2>5. QED
    BY <1>1, <2>1, <2>2, <2>3, <2>4, BootTodo DEF PowerCut, TypeOK, Versions
<1>3. Shape'
  BY BootTodo DEF PowerCut, Shape
<1>4. QED
  BY <1>2, <1>3 DEF TypeInv

LEMMA MainTypeInv ==
  ASSUME TypeInv, MainStep PROVE TypeInv'
<1> USE DEF TypeInv
<1>1. /\ waiting' \in [Threads -> BOOLEAN]
      /\ UNCHANGED <<firmware, boots, rvars, halted, slept, raised, ran, edits, svars>>
  BY DEF MainStep, Mount, Erase, Format, Remount, Create, Write, MainRuns, Runs, TypeOK
<1>2. /\ mpc' \in {"mount", "erase", "format", "remount", "create", "write",
                   "sleep", "exit"}
      /\ next' \in 1..(Len(Bundle) + 1)
      /\ mpc' \in {"create", "write"} => next' \in DOMAIN Bundle
      /\ mpc' \in {"mount", "erase", "format", "remount"} => next' = 1
  <2>1. CASE Mount \/ Erase \/ Format \/ Remount
    <3>1. /\ next' = next /\ next = 1
          /\ mpc' \in {"erase", "format", "remount", "create", "exit"}
      BY <2>1 DEF Mount, Erase, Format, Remount, MainRuns, Fails, Shape
    <3>2. QED
      BY <3>1, BundleFacts
  <2>2. CASE Create \/ Write
    <3>1. next \in DOMAIN Bundle
      BY <2>2 DEF Create, Write, MainRuns, TypeOK
    <3>2. \/ next' = next /\ mpc' = "write"
          \/ next' = next + 1 /\ mpc' = IF next = Len(Bundle) THEN "sleep" ELSE "create"
      BY <2>2 DEF Create, Write, Advance
    <3>3. QED
      BY <3>1, <3>2, BundleFacts
  <2>3. QED
    BY <2>1, <2>2 DEF MainStep
<1>3. disk' \in [Files -> Contents]
  BY BundleFacts
     DEF MainStep, Mount, Erase, Format, Remount, Create, Write, MainRuns, Fails,
         TypeOK, Contents
<1>4. formatted' \in BOOLEAN /\ mounted' \in BOOLEAN /\ fault' \in BOOLEAN
  BY DEF MainStep, Mount, Erase, Format, Remount, Create, Write, MainRuns, Fails, TypeOK
<1>5. StateTypeOK'
  BY <1>1 DEF TypeOK, StateTypeOK, svars
<1>6. QED
  BY <1>1, <1>2, <1>3, <1>4, <1>5 DEF TypeOK, Shape, rvars

\* The step of a runner gives it a label and calls that fit each other.
Labels == {"ended", "newstate", "openlibs", "setup", "load", "run", "close"}

Moves(r, label, calls) ==
  /\ rpc' = [rpc EXCEPT ![r] = label]
  /\ todo' = [todo EXCEPT ![r] = calls]
  /\ label \in Labels
  /\ calls \in Seq(Calls)
  /\ label \in Loading => calls # <<>> /\ Head(calls) \in FileCalls

LEMMA MoveTypes ==
  ASSUME TypeInv, NEW r \in Runners, NEW label, NEW calls, Moves(r, label, calls),
         UNCHANGED mvars
  PROVE  /\ rpc' \in [Runners -> Labels]
         /\ todo' \in [Runners -> Seq(Calls)]
         /\ Shape'
<1>1. /\ rpc \in [Runners -> Labels]
      /\ todo \in [Runners -> Seq(Calls)]
  BY DEF TypeInv, TypeOK, Labels
<1>2. /\ rpc' \in [Runners -> Labels]
      /\ todo' \in [Runners -> Seq(Calls)]
  BY <1>1 DEF Moves
<1>3. ASSUME NEW s \in Runners, rpc'[s] \in Loading
      PROVE  todo'[s] # <<>> /\ Head(todo'[s]) \in FileCalls
  <2>1. CASE s = r
    <3>1. rpc'[s] = label /\ todo'[s] = calls
      BY <1>1, <2>1 DEF Moves
    <3>2. QED
      BY <3>1, <1>3 DEF Moves
  <2>2. CASE s # r
    <3>1. rpc'[s] = rpc[s] /\ todo'[s] = todo[s]
      BY <1>1, <2>2 DEF Moves
    <3>2. QED
      BY <3>1, <1>3 DEF TypeInv, Shape
  <2>3. QED
    BY <2>1, <2>2
<1>4. QED
  BY <1>2, <1>3 DEF TypeInv, Shape, mvars

LEMMA NextCallTypes ==
  ASSUME TypeOK, NEW r \in Runners, todo[r] # <<>>
  PROVE  /\ Tail(todo[r]) \in Seq(Calls)
         /\ Head(todo[r]).call \in {"dofile", "loadfile", "list"} =>
              Head(todo[r]).arg \in Files
         /\ Head(todo[r]).call \in {"require", "try"} =>
              Head(todo[r]).arg \in Modules
<1>1. todo[r] \in Seq(Calls)
  BY DEF TypeOK
<1>2. Head(todo[r]) \in Calls /\ Tail(todo[r]) \in Seq(Calls)
  BY <1>1
<1>3. QED
  BY <1>2 DEF Calls

LEMMA TextTypes ==
  ASSUME NEW f \in Files PROVE Text(f) \in Seq(Calls)
BY ProgramAssumption DEF Text

RunnerActs(r) ==
  \/ RunnerStep(r)
  \/ r = Thread /\ (Setup \/ LoadEmbedded)
  \/ \E f \in Files : CmdRun(r, f)

\* What every step of a runner does to the rest of the state.
LEMMA RunnerFrame ==
  ASSUME TypeInv, NEW r \in Runners, RunnerActs(r)
  PROVE  /\ UNCHANGED <<flash, mvars, fault, slept, edits>>
         /\ Turn(r)
         /\ waiting' \in [Threads -> BOOLEAN]
         /\ waiting'[Main] = waiting[Main]
         /\ halted' \in BOOLEAN
         /\ raised' \in BOOLEAN
<1>1. \E at : RunnerRuns(r, at)
  BY DEF RunnerActs, RunnerStep, NewState, NewStateFails, OpenLibs, LoadScript, LoadFails,
         LoadfileNil, List, Require, CallRaises, TryFails, ScriptEnds, Close,
         Setup, LoadEmbedded, CmdRun
<1>2. /\ UNCHANGED <<flash, mvars, fault, slept, edits>>
      /\ Turn(r)
      /\ waiting' = [waiting EXCEPT ![r] = FALSE]
  BY <1>1 DEF RunnerRuns, Runs
<1>3. /\ waiting' \in [Threads -> BOOLEAN]
      /\ waiting'[Main] = waiting[Main]
  BY <1>2, ThreadAssumption DEF TypeInv, TypeOK, Threads
<1>4. halted' = halted \/ halted' = TRUE
  BY DEF RunnerActs, RunnerStep, NewState, NewStateFails, OpenLibs, LoadScript, LoadFails,
         LoadfileNil, List, Require, CallRaises, TryFails, ScriptEnds, Close,
         Setup, LoadEmbedded, CmdRun, SystemHalts
<1>5. raised' = raised \/ \E s \in Runners : Raised(s)
  BY ThreadAssumption
     DEF RunnerActs, RunnerStep, NewState, NewStateFails, OpenLibs, LoadScript, LoadFails,
         LoadfileNil, List, Require, CallRaises, TryFails, ScriptEnds, Close,
         Setup, LoadEmbedded, CmdRun
<1>6. raised' \in BOOLEAN
  BY <1>5, Zenon DEF Raised, TypeInv, TypeOK
<1>7. QED
  BY <1>2, <1>3, <1>4, <1>6, Zenon DEF TypeInv, TypeOK

LEMMA RunnerState ==
  ASSUME TypeInv, NEW r \in Runners, RunnerActs(r)
  PROVE  /\ StateTypeOK'
         /\ \/ UNCHANGED svars
            \/ CloseState(r)
            \/ /\ todo[r] # <<>> /\ Head(todo[r]).call \in {"require", "try"}
               /\ \/ RequireCached(r, Head(todo[r]).arg)
                  \/ RequireLoads(r, Head(todo[r]).arg)
                  \/ RequireRaises(r, Head(todo[r]).arg)
<1>1. \/ UNCHANGED svars
      \/ CloseState(r)
      \/ /\ todo[r] # <<>> /\ Head(todo[r]).call \in {"require", "try"}
         /\ \/ RequireCached(r, Head(todo[r]).arg)
            \/ RequireLoads(r, Head(todo[r]).arg)
            \/ RequireRaises(r, Head(todo[r]).arg)
  BY DEF RunnerActs, RunnerStep, NewState, NewStateFails, OpenLibs, LoadScript, LoadFails,
         LoadfileNil, List, Require, CallRaises, TryFails, ScriptEnds, Close,
         Setup, LoadEmbedded, CmdRun, NextCall
<1>2. StateTypeOK
  BY DEF TypeInv, TypeOK
<1>3. CASE UNCHANGED svars
  BY <1>2, <1>3 DEF StateTypeOK, svars
<1>4. CASE CloseState(r)
  BY <1>2, <1>4 DEF StateTypeOK, CloseState, NoTable, NoAnswer
<1>5. CASE /\ todo[r] # <<>> /\ Head(todo[r]).call \in {"require", "try"}
           /\ \/ RequireCached(r, Head(todo[r]).arg)
              \/ RequireLoads(r, Head(todo[r]).arg)
              \/ RequireRaises(r, Head(todo[r]).arg)
  <2>1. Head(todo[r]).arg \in Modules
    BY <1>5, NextCallTypes DEF TypeInv
  <2>2. QED
    BY <1>2, <1>5, <2>1, RequireKeepsTypes
<1>6. QED
  BY <1>1, <1>3, <1>4, <1>5

LEMMA EmptySeq == <<>> \in Seq(Calls)
OBVIOUS

\* A step of a runner leaves it where it is, or moves it as Moves says.
LEMMA RunnerMoves ==
  ASSUME TypeInv, NEW r \in Runners, RunnerActs(r)
  PROVE  UNCHANGED rvars \/ \E label, calls : Moves(r, label, calls)
<1> USE DEF RunnerRuns, Goto
<1>0. /\ rpc \in [Runners -> Labels]
      /\ todo \in [Runners -> Seq(Calls)]
      /\ rpc[r] \in Loading => todo[r] # <<>> /\ Head(todo[r]) \in FileCalls
  BY DEF TypeInv, TypeOK, Labels, Shape
<1>a. ASSUME rpc[r] \in Loading, NEW label \in Labels,
             rpc' = [rpc EXCEPT ![r] = label], UNCHANGED todo
      PROVE  Moves(r, label, todo[r])
  <2>1. todo' = [todo EXCEPT ![r] = todo[r]]
    BY <1>0, <1>a
  <2>2. QED
    BY <1>0, <1>a, <2>1 DEF Moves
<1>b. ASSUME NEW label \in {"ended", "close"},
             rpc' = [rpc EXCEPT ![r] = label],
             todo' = [todo EXCEPT ![r] = <<>>]
      PROVE  Moves(r, label, <<>>)
  BY <1>b DEF Moves, Labels, Loading
<1>c. ASSUME rpc[r] = "run", todo[r] # <<>>, UNCHANGED rpc,
             todo' = [todo EXCEPT ![r] = Tail(todo[r])]
      PROVE  Moves(r, "run", Tail(todo[r]))
  <2>1. rpc' = [rpc EXCEPT ![r] = "run"]
    BY <1>0, <1>c
  <2>2. Tail(todo[r]) \in Seq(Calls)
    BY <1>c, NextCallTypes DEF TypeInv
  <2>3. QED
    BY <1>c, <2>1, <2>2 DEF Moves, Labels, Loading
<1>1. CASE NewState(r)
  BY <1>1, <1>a DEF NewState, Loading, Labels
<1>2. CASE NewStateFails(r)
  BY <1>2, <1>b DEF NewStateFails, SystemHalts
<1>3. CASE OpenLibs(r)
  BY <1>3, <1>a DEF OpenLibs, SystemHalts, Loading, Labels
<1>4. CASE \E at \in {"load", "run"} : LoadScript(r, at)
  <2>1. PICK at \in {"load", "run"} : LoadScript(r, at)
    BY <1>4
  <2> DEFINE f == Head(todo[r]).arg
  <2>2. todo[r] # <<>> /\ f \in Files
    <3>1. CASE at = "load"
      <4>1. todo[r] # <<>> /\ Head(todo[r]) \in FileCalls
        BY <1>0, <2>1, <3>1 DEF LoadScript, Loading
      <4>2. QED
        BY <4>1 DEF FileCalls
    <3>2. CASE at = "run"
      <4>1. todo[r] # <<>> /\ Head(todo[r]).call \in {"dofile", "loadfile"}
        BY <2>1, <3>2 DEF LoadScript, FromDisk
      <4>2. QED
        BY <4>1, NextCallTypes DEF TypeInv
    <3>3. QED
      BY <3>1, <3>2
  <2>3. Text(f) \o Tail(todo[r]) \in Seq(Calls)
    <3>1. Text(f) \in Seq(Calls)
      BY <2>2, TextTypes
    <3>2. Tail(todo[r]) \in Seq(Calls)
      BY <2>2, NextCallTypes DEF TypeInv
    <3>3. QED
      BY <3>1, <3>2
  <2>4. /\ rpc' = [rpc EXCEPT ![r] = "run"]
        /\ todo' = [todo EXCEPT ![r] = Text(f) \o Tail(todo[r])]
    BY <2>1 DEF LoadScript
  <2>5. Moves(r, "run", Text(f) \o Tail(todo[r]))
    BY <2>3, <2>4 DEF Moves, Labels, Loading
  <2>6. QED
    BY <2>5
<1>5. CASE LoadFails(r)
  BY <1>5, <1>b DEF LoadFails, SystemHalts, Unwind
<1>6. CASE LoadfileNil(r) \/ List(r) \/ Require(r) \/ TryFails(r)
  <2>1. /\ rpc[r] = "run" /\ todo[r] # <<>> /\ UNCHANGED rpc
        /\ todo' = [todo EXCEPT ![r] = Tail(todo[r])]
    BY <1>6 DEF LoadfileNil, List, Require, TryFails, Continue, NextCall
  <2>2. QED
    BY <2>1, <1>c
<1>7. CASE CallRaises(r)
  BY <1>7, <1>b DEF CallRaises, Unwind
<1>8. CASE ScriptEnds(r)
  <2>1. /\ rpc' = [rpc EXCEPT ![r] = "close"] /\ todo[r] = <<>>
        /\ todo' = [todo EXCEPT ![r] = <<>>]
    BY <1>0, <1>8 DEF ScriptEnds
  <2>2. QED
    BY <2>1, <1>b
<1>9. CASE Close(r)
  <2>1. Moves(r, "ended", todo[r])
    BY <1>0, <1>9 DEF Close, Moves, Labels, Loading
  <2>2. QED
    BY <2>1
<1>10. CASE r = Thread /\ Setup
  BY <1>10, <1>a, <1>b DEF Setup, SystemHalts, Loading, Labels
<1>11. CASE r = Thread /\ LoadEmbedded
  <2>1. CASE Unwind(r)
    BY <2>1, <1>b DEF Unwind
  <2>2. CASE Goto(r, "run") /\ todo' = [todo EXCEPT ![r] = Program[Bundle[1]]]
    <3>1. Program[Bundle[1]] \in Seq(Calls)
      BY BundleFacts, ProgramAssumption
    <3>2. Moves(r, "run", Program[Bundle[1]])
      BY <2>2, <3>1 DEF Moves, Labels, Loading
    <3>3. QED
      BY <3>2
  <2>3. QED
    BY <1>11, <2>1, <2>2 DEF LoadEmbedded
<1>12. CASE \E f \in Files : CmdRun(r, f)
  <2>1. PICK f \in Files : CmdRun(r, f)
    BY <1>12
  <2>2. Call("dofile", f) \in FileCalls /\ Call("dofile", f) \in Calls
    BY DEF Call, FileCalls, Calls
  <2>3. /\ rpc' = [rpc EXCEPT ![r] = "newstate"]
        /\ todo' = [todo EXCEPT ![r] = <<Call("dofile", f)>>]
    BY <2>1 DEF CmdRun
  <2> DEFINE calls == <<Call("dofile", f)>>
  <2>4. calls \in Seq(Calls) /\ calls # <<>> /\ Head(calls) \in FileCalls
    BY <2>2
  <2>5. Moves(r, "newstate", calls)
    BY <2>3, <2>4 DEF Moves, Labels
  <2>6. QED
    BY <2>5
<1>13. QED
  BY <1>1, <1>2, <1>3, <1>4, <1>5, <1>6, <1>7, <1>8, <1>9, <1>10, <1>11, <1>12
     DEF RunnerActs, RunnerStep

\* What the step of a runner loads is on the disk.
LEMMA RunnerLoads ==
  ASSUME TypeInv, NEW r \in Runners, RunnerActs(r)
  PROVE  \/ UNCHANGED ran
         \/ ran' = [ran EXCEPT ![r] = {}]
         \/ \E f \in Files : ran' = [ran EXCEPT ![r] = ran[r] \cup {<<f, disk[f]>>}]
<1>1. CASE \E at \in {"load", "run"} : LoadScript(r, at)
  <2>1. PICK at \in {"load", "run"} : LoadScript(r, at)
    BY <1>1
  <2> DEFINE f == Head(todo[r]).arg
  <2>2. f \in Files
    <3>1. CASE at = "load"
      <4>1. Head(todo[r]) \in FileCalls
        BY <2>1, <3>1 DEF LoadScript, RunnerRuns, Loading, TypeInv, Shape
      <4>2. QED
        BY <4>1 DEF FileCalls
    <3>2. CASE at = "run"
      <4>1. todo[r] # <<>> /\ Head(todo[r]).call \in {"dofile", "loadfile"}
        BY <2>1, <3>2 DEF LoadScript, FromDisk
      <4>2. QED
        BY <4>1, NextCallTypes DEF TypeInv
    <3>3. QED
      BY <3>1, <3>2
  <2>3. ran' = [ran EXCEPT ![r] = ran[r] \cup {<<f, disk[f]>>}]
    BY <2>1 DEF LoadScript
  <2>4. QED
    BY <2>2, <2>3
<1>2. CASE Close(r)
  <2>1. ran \in [Runners -> SUBSET (Files \X Contents)]
    BY DEF TypeInv, TypeOK
  <2>2. CASE r = Thread
    <3>1. ran' = ran
      BY <1>2, <2>1, <2>2 DEF Close
    <3>2. QED
      BY <3>1
  <2>3. CASE r # Thread
    BY <1>2, <2>3 DEF Close
  <2>4. QED
    BY <2>2, <2>3
<1>3. CASE UNCHANGED ran
  BY <1>3
<1>4. QED
  BY <1>1, <1>2, <1>3
     DEF RunnerActs, RunnerStep, NewState, NewStateFails, OpenLibs, LoadFails,
         LoadfileNil, List, Require, CallRaises, TryFails, ScriptEnds, Setup,
         LoadEmbedded, CmdRun

LEMMA RunnerTypeInv ==
  ASSUME TypeInv, NEW r \in Runners, RunnerActs(r) PROVE TypeInv'
<1>1. UNCHANGED <<flash, mvars, fault, slept, edits>>
  BY RunnerFrame
<1>2. /\ waiting' \in [Threads -> BOOLEAN]
      /\ halted' \in BOOLEAN
      /\ raised' \in BOOLEAN
  BY RunnerFrame
<1>3. /\ rpc' \in [Runners -> Labels]
      /\ todo' \in [Runners -> Seq(Calls)]
      /\ Shape'
  <2>1. CASE UNCHANGED rvars
    BY <1>1, <2>1 DEF TypeInv, TypeOK, Shape, rvars, mvars, Labels
  <2>2. CASE \E label, calls : Moves(r, label, calls)
    BY <1>1, <2>2, MoveTypes
  <2>3. QED
    BY <2>1, <2>2, RunnerMoves
<1>4. ran' \in [Runners -> SUBSET (Files \X Contents)]
  <2>1. /\ ran \in [Runners -> SUBSET (Files \X Contents)]
        /\ \A f \in Files : disk[f] \in Contents
    BY DEF TypeInv, TypeOK
  <2>2. QED
    BY <2>1, RunnerLoads
<1>5. StateTypeOK'
  BY RunnerState
<1>6. TypeOK'
  BY <1>1, <1>2, <1>3, <1>4, <1>5, Zenon DEF TypeInv, TypeOK, flash, mvars, Labels
<1>7. QED
  BY <1>3, <1>6 DEF TypeInv

\* A shell's edit changes one of the files it may name, and nothing else.
LEMMA EditFrame ==
  ASSUME TypeInv, NEW s \in Shells, Edit(s)
  PROVE  /\ UNCHANGED <<firmware, formatted, boots, mvars, rvars, halted, fault, slept,
                        raised, ran, svars>>
         /\ Turn(s) /\ mounted
         /\ waiting' \in [Threads -> BOOLEAN] /\ waiting'[Main] = waiting[Main]
         /\ \E f \in Typed : /\ edits' = edits \cup {f}
                             /\ \E c \in Contents : disk' = [disk EXCEPT ![f] = c]
                             /\ CmdWrite(s, f) \/ CmdUnlink(s, f)
<1>1. PICK f \in Typed : CmdWrite(s, f) \/ CmdUnlink(s, f)
  BY DEF Edit
<1>2. PICK c \in {NoFile, Empty, Saved} : ShellEdits(s, f, c)
  BY <1>1 DEF CmdWrite, CmdUnlink
<1>3. c \in Contents
  BY <1>2 DEF Contents
<1>4. waiting' \in [Threads -> BOOLEAN] /\ waiting'[Main] = waiting[Main]
  BY <1>2, ThreadAssumption DEF ShellEdits, Runs, Shells, TypeInv, TypeOK, Threads
<1> QED
  BY <1>1, <1>2, <1>3, <1>4 DEF ShellEdits, Runs

LEMMA OtherTypeInv ==
  ASSUME TypeInv,
         \/ \E a \in Threads : Wait(a)
         \/ \E s \in Shells : Edit(s)
         \/ UNCHANGED vars
  PROVE  TypeInv'
<1>1. UNCHANGED <<firmware, formatted, boots, mvars, rvars, halted, fault, raised,
                  ran, svars>>
  BY EditFrame DEF Wait, vars, flash
<1>2. /\ waiting' \in [Threads -> BOOLEAN]
      /\ slept' \in BOOLEAN
      /\ disk' \in [Files -> Contents]
      /\ edits' \in SUBSET Typed
  <2>1. CASE \E a \in Threads : Wait(a)
    BY <2>1, Zenon DEF Wait, flash, TypeInv, TypeOK
  <2>2. CASE \E s \in Shells : Edit(s)
    <3>1. PICK s \in Shells : Edit(s)
      BY <2>2
    <3>2. waiting' \in [Threads -> BOOLEAN] /\ UNCHANGED slept
      BY <3>1, EditFrame
    <3>3. PICK f \in Typed : /\ edits' = edits \cup {f}
                             /\ \E c \in Contents : disk' = [disk EXCEPT ![f] = c]
      BY <3>1, EditFrame
    <3>4. edits' \in SUBSET Typed /\ disk' \in [Files -> Contents]
      BY <3>3 DEF TypeInv, TypeOK
    <3> QED
      BY <3>2, <3>4 DEF TypeInv, TypeOK
  <2>3. CASE UNCHANGED vars
    BY <2>3 DEF vars, flash, TypeInv, TypeOK
  <2>4. QED
    BY <2>1, <2>2, <2>3
<1>3. StateTypeOK'
  BY <1>1 DEF TypeInv, TypeOK, StateTypeOK, svars
<1>4. TypeOK'
  BY <1>1, <1>2, <1>3, Zenon DEF TypeInv, TypeOK, mvars, rvars
<1>5. Shape'
  BY <1>1 DEF TypeInv, Shape, mvars, rvars
<1>6. QED
  BY <1>4, <1>5 DEF TypeInv

\* The steps of Next, grouped as the lemmas treat them.
LEMMA Steps ==
  ASSUME [Next]_vars
  PROVE  \/ PowerCut
         \/ MainStep
         \/ \E r \in Runners : RunnerActs(r)
         \/ \E a \in Threads : Wait(a)
         \/ \E s \in Shells : Edit(s)
         \/ UNCHANGED vars
BY ThreadAssumption DEF Next, ThreadStep, RunnerActs, Shells, Files

LEMMA TypeInvHolds == Spec => []TypeInv
<1>1. Init => TypeInv
  BY InitTypeInv
<1>2. TypeInv /\ [Next]_vars => TypeInv'
  BY Steps, PowerCutTypeInv, MainTypeInv, RunnerTypeInv, OtherTypeInv
<1>3. QED
  BY <1>1, <1>2, PTL DEF Spec

\* Every variable of the boot, of main, of the runners and of their Lua states
\* keeps its type, whatever the scripts call and whenever the power fails
\* (samples/littlefs/src/main.c, src/templates, src/luaz_utils.c).
THEOREM BootTypeCorrect == Spec => []TypeOK
<1>1. TypeInv => TypeOK
  BY DEF TypeInv
<1>2. QED
  BY <1>1, TypeInvHolds, PTL

-----------------------------------------------------------------------------
(* What is loaded is what main installed.                                  *)

Undisturbed == ~fault /\ ~slept

\* fault and slept say what they are meant to say.
History ==
  /\ waiting[Main] => slept
  /\ mpc = "exit" => fault
  /\ mpc = "mount" => ~fault

\* How far main is tells which scripts are those of its firmware, those that a
\* shell has changed apart, and until it sleeps nobody has loaded or changed one.
Progress ==
  Undisturbed =>
    /\ mpc # "sleep" => edits = {} /\ \A r \in Runners : ran[r] = {}
    /\ \A k \in DOMAIN Bundle :
         k < next \/ mpc = "sleep" => disk[Bundle[k]] = firmware \/ Bundle[k] \in edits
    /\ RunsThisFirmware

OrderInv == TypeInv /\ History /\ Progress

LEMMA InitOrder == Init => History /\ Progress
<1>1. ASSUME Init PROVE History
  BY <1>1 DEF Init, History, Threads
<1>2. ASSUME Init PROVE Progress
  <2>1. /\ \A r \in Runners : ran[r] = {}
        /\ next = 1 /\ mpc = "mount" /\ edits = {}
    BY <1>2 DEF Init
  <2>2. QED
    BY <2>1, BundleFacts DEF Progress, RunsThisFirmware
<1>3. QED
  BY <1>1, <1>2

LEMMA PowerCutOrder == ASSUME PowerCut PROVE History' /\ Progress'
<1>1. History'
  BY DEF PowerCut, History, Threads
<1>2. /\ \A r \in Runners : ran'[r] = {}
      /\ next' = 1 /\ mpc' = "mount" /\ edits' = {}
  BY DEF PowerCut
<1>3. Progress'
  BY <1>2, BundleFacts DEF Progress, RunsThisFirmware
<1>4. QED
  BY <1>1, <1>3

LEMMA MainOrder ==
  ASSUME OrderInv, MainStep PROVE History' /\ Progress'
<1> USE DEF OrderInv
<1>1. UNCHANGED <<firmware, slept, ran, edits>> /\ mpc \notin {"sleep", "exit"}
  BY DEF MainStep, Mount, Erase, Format, Remount, Create, Write, MainRuns
<1>2. History'
  <2>1. ~waiting'[Main]
    BY DEF MainStep, Mount, Erase, Format, Remount, Create, Write, MainRuns, Runs,
           TypeInv, TypeOK, Threads
  <2>2. mpc' # "mount" /\ (mpc' = "exit" => fault')
    <3>1. CASE Mount \/ Erase \/ Format \/ Remount
      BY <3>1 DEF Mount, Erase, Format, Remount, MainRuns, Fails
    <3>2. CASE Create \/ Write
      BY <3>2 DEF Create, Write, Advance, MainRuns
    <3>3. QED
      BY <3>1, <3>2 DEF MainStep
  <2>3. QED
    BY <2>1, <2>2 DEF History
<1>3. ASSUME Undisturbed' PROVE Undisturbed
  <2>1. fault => fault'
    <3>1. CASE Mount
      BY <3>1 DEF Mount, MainRuns, History
    <3>2. CASE Erase \/ Format \/ Remount \/ Create \/ Write
      BY <3>2 DEF Erase, Format, Remount, Create, Write, Fails
    <3>3. QED
      BY <3>1, <3>2 DEF MainStep
  <2>2. QED
    BY <1>1, <1>3, <2>1 DEF Undisturbed
<1>4. ASSUME Undisturbed'
      PROVE  \A k \in DOMAIN Bundle :
               k < next' \/ mpc' = "sleep" => disk'[Bundle[k]] = firmware
  <2>1. \A k \in DOMAIN Bundle : k < next => disk[Bundle[k]] = firmware
    BY <1>1, <1>3, <1>4 DEF Progress
  <2>2. CASE Mount \/ Erase \/ Format \/ Remount
    <3>1. next' = 1 /\ mpc' # "sleep"
      BY <2>2 DEF Mount, Erase, Format, Remount, MainRuns, Fails, TypeInv, Shape
    <3>2. QED
      BY <3>1, BundleFacts
  <2>3. CASE Create
    <3>1. /\ disk' = [disk EXCEPT ![Bundle[next]] = IF @ = NoFile THEN Empty ELSE @]
          /\ mpc' = "write" /\ next' = next
      BY <1>4, <2>3 DEF Create, Undisturbed
    <3>2. \A k \in DOMAIN Bundle : k < next => disk'[Bundle[k]] = firmware
      BY <2>1, <3>1, VersionAssumption, BundleFacts DEF TypeInv, TypeOK
    <3>3. QED
      BY <3>1, <3>2
  <2>4. CASE Write
    <3>1. /\ disk' = [disk EXCEPT ![Bundle[next]] = firmware]
          /\ next' = next + 1
          /\ mpc' = IF next = Len(Bundle) THEN "sleep" ELSE "create"
          /\ next \in DOMAIN Bundle
      BY <1>4, <2>4 DEF Write, Advance, Undisturbed, MainRuns, TypeInv, TypeOK
    <3>2. \A k \in DOMAIN Bundle : k < next \/ k = next => disk'[Bundle[k]] = firmware
      BY <2>1, <3>1, BundleFacts DEF TypeInv, TypeOK
    <3>3. QED
      BY <3>1, <3>2, BundleFacts
  <2>5. QED
    BY <2>2, <2>3, <2>4 DEF MainStep
<1>5. Progress'
  <2>1. ASSUME Undisturbed' PROVE edits' = {} /\ \A r \in Runners : ran'[r] = {}
    BY <1>1, <1>3, <2>1 DEF Progress
  <2>2. QED
    BY <1>1, <1>4, <2>1 DEF Progress, RunsThisFirmware
<1>6. QED
  BY <1>2, <1>5

\* A runner has its turn only when main sleeps, unless something went wrong.
LEMMA TurnAfterMain ==
  ASSUME History, Undisturbed, NEW r \in Runners, Turn(r)
  PROVE  mpc = "sleep"
<1>1. GivesWay(Main)
  BY ThreadAssumption DEF Turn, Above
<1>2. QED
  BY <1>1 DEF GivesWay, History, Undisturbed

LEMMA RunnerOrder ==
  ASSUME OrderInv, NEW r \in Runners, RunnerActs(r) PROVE History' /\ Progress'
<1> USE DEF OrderInv
<1>1. /\ UNCHANGED <<flash, mvars, fault, slept, edits>>
      /\ Turn(r)
      /\ waiting'[Main] = waiting[Main]
  BY RunnerFrame
<1>2. History'
  BY <1>1 DEF History, mvars
<1>3. ASSUME Undisturbed'
      PROVE  Progress'
  <2>1. mpc = "sleep" /\ Undisturbed
    BY <1>1, <1>3, TurnAfterMain DEF Undisturbed
  <2>2. \A k \in DOMAIN Bundle : disk[Bundle[k]] = firmware \/ Bundle[k] \in edits
    BY <2>1 DEF Progress
  <2>3. \A s \in Runners : \A x \in ran'[s] :
          x[1] \in Bundled => x[2] = firmware \/ x[1] \in edits
    <3>1. \A s \in Runners : \A x \in ran[s] :
            x[1] \in Bundled => x[2] = firmware \/ x[1] \in edits
      BY <2>1 DEF Progress, RunsThisFirmware, Undisturbed
    <3>2. \A f \in Bundled : disk[f] = firmware \/ f \in edits
      BY <2>2 DEF Bundled
    <3>3. DOMAIN ran = Runners
      BY DEF TypeInv, TypeOK
    <3>4. CASE UNCHANGED ran
      BY <3>1, <3>4
    <3>5. CASE ran' = [ran EXCEPT ![r] = {}]
      BY <3>1, <3>3, <3>5
    <3>6. CASE \E f \in Files : ran' = [ran EXCEPT ![r] = ran[r] \cup {<<f, disk[f]>>}]
      BY <3>1, <3>2, <3>3, <3>6
    <3>7. QED
      BY <3>4, <3>5, <3>6, RunnerLoads
  <2>4. QED
    BY <1>1, <2>1, <2>2, <2>3 DEF Progress, RunsThisFirmware, flash, mvars
<1>4. QED
  BY <1>2, <1>3 DEF Progress

LEMMA OtherOrder ==
  ASSUME OrderInv,
         \/ \E a \in Threads : Wait(a)
         \/ \E s \in Shells : Edit(s)
         \/ UNCHANGED vars
  PROVE  History' /\ Progress'
<1> USE DEF OrderInv
<1>1. UNCHANGED <<firmware, mpc, next, fault, ran>>
  BY EditFrame DEF Wait, vars, flash, mvars
<1>2. CASE \E a \in Threads : Wait(a)
  <2>1. PICK a \in Threads : Wait(a)
    BY <1>2
  <2>2. UNCHANGED <<disk, edits>> /\ slept' = (slept \/ a = Main)
    BY <2>1 DEF Wait, flash
  <2>3. waiting'[Main] => waiting[Main] \/ a = Main
    BY <2>1 DEF Wait, TypeInv, TypeOK
  <2>4. QED
    BY <1>1, <2>2, <2>3 DEF History, Progress, Undisturbed, RunsThisFirmware
<1>3. CASE \E s \in Shells : Edit(s)
  <2>1. PICK s \in Shells : Edit(s)
    BY <1>3
  <2>2. UNCHANGED slept /\ waiting'[Main] = waiting[Main] /\ Turn(s)
    BY <2>1, EditFrame
  <2>3. /\ edits \subseteq edits'
        /\ \A k \in DOMAIN Bundle :
             Bundle[k] \notin edits' => disk'[Bundle[k]] = disk[Bundle[k]]
    <3>1. PICK f \in Typed : /\ edits' = edits \cup {f}
                             /\ \E c \in Contents : disk' = [disk EXCEPT ![f] = c]
      BY <2>1, EditFrame
    <3> QED
      BY <3>1, BundleFacts DEF TypeInv, TypeOK
  <2>4. History'
    BY <1>1, <2>2 DEF History
  <2>5. ASSUME Undisturbed' PROVE Progress'
    <3>1. Undisturbed /\ s \in Runners
      BY <1>1, <2>2, <2>5 DEF Undisturbed, Shells
    <3>2. mpc = "sleep" /\ mpc' = "sleep"
      BY <1>1, <2>2, <3>1, TurnAfterMain
    <3>3. RunsThisFirmware'
      <4>1. \A r \in Runners : \A x \in ran[r] :
              x[1] \in Bundled => x[2] = firmware \/ x[1] \in edits
        BY <3>1 DEF Progress, Undisturbed, RunsThisFirmware
      <4> QED
        BY <1>1, <2>3, <4>1 DEF RunsThisFirmware
    <3> QED
      BY <1>1, <2>3, <3>1, <3>2, <3>3 DEF Progress
  <2> QED
    BY <2>4, <2>5 DEF Progress
<1>4. CASE UNCHANGED vars
  BY <1>1, <1>4 DEF vars, flash, History, Progress, Undisturbed, RunsThisFirmware
<1>5. QED
  BY <1>2, <1>3, <1>4

LEMMA OrderHolds == Spec => []OrderInv
<1>1. Init => OrderInv
  BY InitOrder, InitTypeInv DEF OrderInv
<1>2. OrderInv /\ [Next]_vars => OrderInv'
  <2>1. TypeInv /\ [Next]_vars => TypeInv'
    BY Steps, PowerCutTypeInv, MainTypeInv, RunnerTypeInv, OtherTypeInv
  <2>2. OrderInv /\ [Next]_vars => History' /\ Progress'
    BY Steps, PowerCutOrder, MainOrder, RunnerOrder, OtherOrder
  <2>3. QED
    BY <2>1, <2>2 DEF OrderInv
<1>3. QED
  BY <1>1, <1>2, PTL DEF Spec

\* In a boot in which main neither failed nor waited for the flash, no thread
\* ever loads a bundled script of another firmware version: the Lua thread of
\* delay 0 (src/templates/lua_fs_thread.c.in) comes after main's last
\* lua_fs_write_file (samples/littlefs/src/main.c).
THEOREM BootRunsThisFirmware == Spec => []RunsThisFirmware
<1>1. OrderInv => RunsThisFirmware
  BY DEF OrderInv, Progress, Undisturbed, RunsThisFirmware
<1>2. QED
  BY <1>1, OrderHolds, PTL

-----------------------------------------------------------------------------
(* One table per module and state.                                         *)

Cached ==
  \A r \in Runners : \A n \in Modules : \A t \in answers[r][n] :
    loaded[r][n] = t /\ t # 0

CacheInv == TypeInv /\ Cached

LEMMA RequireCaches ==
  ASSUME StateTypeOK, Cached, NEW r \in Runners, NEW n \in Modules,
         RequireCached(r, n) \/ RequireLoads(r, n) \/ RequireRaises(r, n)
  PROVE  Cached'
<1>1. CASE RequireCached(r, n)
  BY <1>1 DEF StateTypeOK, RequireCached, Answer, Cached
<1>2. CASE RequireLoads(r, n)
  <2>1. made'[r] # 0
    BY <1>2 DEF StateTypeOK, RequireLoads
  <2>2. answers[r][n] = {}
    BY <1>2 DEF StateTypeOK, RequireLoads, Cached
  <2>3. /\ loaded'[r][n] = made'[r]
        /\ answers'[r][n] = {made'[r]}
    BY <1>2, <2>2 DEF StateTypeOK, RequireLoads, Answer
  <2>4. ASSUME NEW s \in Runners, NEW m \in Modules, s # r \/ m # n
        PROVE  loaded'[s][m] = loaded[s][m] /\ answers'[s][m] = answers[s][m]
    BY <1>2, <2>4 DEF StateTypeOK, RequireLoads, Answer
  <2>5. QED
    BY <2>1, <2>3, <2>4 DEF Cached
<1>3. CASE RequireRaises(r, n)
  BY <1>3 DEF RequireRaises, Cached
<1>4. QED
  BY <1>1, <1>2, <1>3

LEMMA CacheStep == CacheInv /\ [Next]_vars => Cached'
<1> SUFFICES ASSUME CacheInv, [Next]_vars PROVE Cached'
  OBVIOUS
<1> USE DEF CacheInv
<1>1. StateTypeOK
  BY DEF TypeInv, TypeOK
<1>2. CASE UNCHANGED svars
  BY <1>2 DEF svars, Cached
<1>3. CASE PowerCut
  BY <1>3 DEF PowerCut, Cached, NoAnswer
<1>4. CASE \E r \in Runners : RunnerActs(r)
  <2>1. PICK r \in Runners : RunnerActs(r)
    BY <1>4
  <2>2. CASE CloseState(r)
    BY <1>1, <2>2 DEF CloseState, Cached, NoAnswer, StateTypeOK
  <2>3. CASE /\ todo[r] # <<>> /\ Head(todo[r]).call \in {"require", "try"}
             /\ \/ RequireCached(r, Head(todo[r]).arg)
                \/ RequireLoads(r, Head(todo[r]).arg)
                \/ RequireRaises(r, Head(todo[r]).arg)
    <3>1. Head(todo[r]).arg \in Modules
      BY <2>3, NextCallTypes DEF TypeInv
    <3>2. QED
      BY <1>1, <2>3, <3>1, RequireCaches
  <2>4. QED
    BY <1>2, <2>1, <2>2, <2>3, RunnerState
<1>5. CASE \/ MainStep
           \/ \E a \in Threads : Wait(a)
           \/ \E s \in Shells : Edit(s)
           \/ UNCHANGED vars
  <2>1. UNCHANGED svars
    BY <1>5 DEF MainStep, Mount, Erase, Format, Remount, Create, Write, MainRuns,
                Wait, Edit, CmdWrite, CmdUnlink, ShellEdits, vars
  <2>2. QED
    BY <1>2, <2>1
<1>6. QED
  BY <1>3, <1>4, <1>5, Steps

\* In every Lua state a name stands for one module, whatever loaders raised
\* before (luaz_require, src/luaz_utils.c).
THEOREM OneModulePerName == Spec => []RequireGivesOneModule
<1>1. Init => CacheInv
  <2>1. Init => Cached
    BY DEF Init, StateInit, NoAnswer, Cached
  <2>2. QED
    BY <2>1, InitTypeInv DEF CacheInv
<1>2. CacheInv /\ [Next]_vars => CacheInv'
  <2>1. TypeInv /\ [Next]_vars => TypeInv'
    BY Steps, PowerCutTypeInv, MainTypeInv, RunnerTypeInv, OtherTypeInv
  <2>2. QED
    BY <2>1, CacheStep DEF CacheInv
<1>3. CacheInv => RequireGivesOneModule
  BY DEF CacheInv, Cached, RequireGivesOneModule
<1>4. QED
  BY <1>1, <1>2, <1>3, PTL DEF Spec

-----------------------------------------------------------------------------
(* Files survive.                                                          *)

Formatting == {"mount", "erase", "format", "remount"}

FlashInv ==
  /\ ~formatted => \A f \in Files : disk[f] = NoFile
  /\ mounted => formatted /\ mpc \notin Formatting
  /\ mpc \in {"create", "write"} => mounted
  /\ mpc = "erase" => fault \/ ~formatted
  /\ mpc = "remount" => formatted

KeepInv == TypeInv /\ FlashInv

LEMMA FlashStep == KeepInv /\ [Next]_vars => FlashInv'
<1> SUFFICES ASSUME KeepInv, [Next]_vars PROVE FlashInv'
  OBVIOUS
<1> USE DEF KeepInv
<1>1. CASE PowerCut
  BY <1>1 DEF PowerCut, FlashInv
<1>2. CASE Mount \/ Erase \/ Format \/ Remount
  BY <1>2
     DEF Mount, Erase, Format, Remount, MainRuns, Fails, FlashInv, Formatting
<1>3. CASE Create \/ Write
  <2>1. /\ mounted /\ formatted /\ UNCHANGED <<mounted, formatted>>
        /\ mpc' \in {"write", "create", "sleep"}
    BY <1>3 DEF Create, Write, Advance, MainRuns, FlashInv
  <2>2. QED
    BY <2>1 DEF FlashInv, Formatting
<1>4. CASE \E r \in Runners : RunnerActs(r)
  <2>1. UNCHANGED <<flash, mvars, fault>>
    BY <1>4, RunnerFrame
  <2>2. QED
    BY <2>1 DEF FlashInv, flash, mvars
<1>5. CASE \E s \in Shells : Edit(s)
  <2>1. formatted /\ UNCHANGED <<formatted, mvars, fault>>
    BY <1>5, EditFrame DEF FlashInv
  <2> QED
    BY <2>1 DEF mvars, FlashInv
<1>6. CASE UNCHANGED vars \/ \E a \in Threads : Wait(a)
  BY <1>6 DEF Wait, vars, flash, mvars, FlashInv
<1>7. QED
  BY <1>1, <1>2, <1>3, <1>4, <1>5, <1>6, Steps DEF MainStep

LEMMA FlashInvHolds == Spec => []KeepInv
<1>1. Init => KeepInv
  <2>1. Init => FlashInv
    BY DEF Init, FlashInv
  <2>2. QED
    BY <2>1, InitTypeInv DEF KeepInv
<1>2. KeepInv /\ [Next]_vars => KeepInv'
  <2>1. TypeInv /\ [Next]_vars => TypeInv'
    BY Steps, PowerCutTypeInv, MainTypeInv, RunnerTypeInv, OtherTypeInv
  <2>2. QED
    BY <2>1, FlashStep DEF KeepInv
<1>3. QED
  BY <1>1, <1>2, PTL DEF Spec

Keeps ==
  \A f \in Files :
    disk[f] \notin {NoFile, Empty} =>
      \/ disk'[f] \notin {NoFile, Empty}
      \/ mpc = "erase" /\ fault
      \/ \E s \in Shells : CmdWrite(s, f) \/ CmdUnlink(s, f)

LEMMA KeepStep == KeepInv /\ [Next]_vars => [Keeps]_vars
<1> SUFFICES ASSUME KeepInv, Next PROVE Keeps
  BY DEF vars
<1> USE DEF KeepInv
<1>1. DOMAIN disk = Files
  BY DEF TypeInv, TypeOK
<1>2. CASE Erase
  BY <1>1, <1>2 DEF Erase, MainRuns, FlashInv, Keeps
<1>3. CASE Create
  BY <1>1, <1>3 DEF Create, Keeps
<1>4. CASE Write
  BY <1>1, <1>4, VersionAssumption DEF Write, Keeps, TypeInv, TypeOK
<1>5. CASE \E s \in Shells : Edit(s)
  <2>1. PICK s \in Shells, f \in Typed :
          /\ CmdWrite(s, f) \/ CmdUnlink(s, f)
          /\ \E c \in Contents : disk' = [disk EXCEPT ![f] = c]
    BY <1>5, EditFrame
  <2>2. \A g \in Files : g # f => disk'[g] = disk[g]
    BY <1>1, <2>1
  <2>3. QED
    BY <2>1, <2>2 DEF Keeps
<1>6. CASE UNCHANGED disk
  BY <1>6 DEF Keeps
<1>7. CASE \E r \in Runners : RunnerActs(r)
  BY <1>6, <1>7, RunnerFrame DEF flash
<1>8. CASE PowerCut \/ Mount \/ Format \/ Remount \/ \E a \in Threads : Wait(a)
  <2>1. UNCHANGED disk
    BY <1>8 DEF PowerCut, Mount, Format, Remount, MainRuns, Wait, flash
  <2>2. QED
    BY <2>1, <1>6
<1>9. CASE UNCHANGED vars
  BY <1>6, <1>9 DEF vars, flash
<1>10. QED
  BY <1>2, <1>3, <1>4, <1>5, <1>7, <1>8, <1>9, Steps DEF MainStep

\* Neither a power cut nor a failed call between fs_open and fs_close loses a
\* script; only main's fs_mkfs does, after fs_mount has failed, and a user who
\* types it over, cancels that or deletes it
\* (samples/littlefs/src/main.c, lua_fs_write_file in src/luaz_fs.c).
THEOREM BootKeepsFiles == Spec => KeepsFiles
<1>1. KeepInv /\ [Next]_vars => [Keeps]_vars
  BY KeepStep
<1>2. Spec => [][Keeps]_vars
  BY <1>1, FlashInvHolds, PTL DEF Spec
<1>3. QED
  BY <1>2 DEF KeepsFiles, Keeps

-----------------------------------------------------------------------------
(* dofile and loadfile are the filesystem's.                               *)

Zephyr == Call("require", "zephyr")

\* Every dofile or loadfile in a list of calls has require("zephyr") before it.
Guarded(calls) ==
  \A k \in DOMAIN calls :
    calls[k].call \in {"dofile", "loadfile"} =>
      \E j \in 1..(k - 1) : calls[j] = Zephyr

\* The script to run is the last thing a runner does, so what it calls after it
\* is loaded is that script's; a state that holds the module has its globals.
GlobalsOf(r) ==
  /\ rpc[r] \in Loading => Tail(todo[r]) = <<>>
  /\ rpc[r] = "run" => fsGlobals[r] \/ Guarded(todo[r])
  /\ \A n \in Modules : n = "zephyr" /\ loaded[r][n] # 0 => fsGlobals[r]

GlobalsInv == TypeInv /\ \A r \in Runners : GlobalsOf(r)

LEMMA GuardedText ==
  ASSUME RequiresZephyrFirst, NEW f \in Files
  PROVE  Guarded(Program[f]) /\ Guarded(Text(f) \o <<>>)
<1>1. Guarded(Program[f]) /\ Guarded(SavedProgram)
  BY DEF RequiresZephyrFirst, ZephyrFirst, Guarded, Zephyr
<1>2. Guarded(<<>>)
  BY DEF Guarded
<1>3. Text(f) \in Seq(Calls)
  BY TextTypes
<1>4. Text(f) \o <<>> = Text(f)
  BY <1>3
<1> QED
  BY <1>1, <1>2, <1>4 DEF Text

LEMMA GuardedTail ==
  ASSUME NEW calls \in Seq(Calls), calls # <<>>, Guarded(calls), Head(calls) # Zephyr
  PROVE  Guarded(Tail(calls))
<1> SUFFICES ASSUME NEW k \in DOMAIN Tail(calls),
                    Tail(calls)[k].call \in {"dofile", "loadfile"}
             PROVE  \E j \in 1..(k - 1) : Tail(calls)[j] = Zephyr
  BY DEF Guarded
<1>1. /\ Len(calls) \in Nat \ {0}
      /\ DOMAIN calls = 1..Len(calls)
      /\ DOMAIN Tail(calls) = 1..(Len(calls) - 1)
      /\ \A j \in 1..(Len(calls) - 1) : Tail(calls)[j] = calls[j + 1]
      /\ Head(calls) = calls[1]
  OBVIOUS
<1>2. k \in 1..(Len(calls) - 1) /\ k + 1 \in DOMAIN calls
  BY <1>1
<1>3. PICK j \in 1..k : calls[j] = Zephyr
  <2>1. calls[k + 1].call \in {"dofile", "loadfile"}
    BY <1>1, <1>2
  <2>2. \E j \in 1..(k + 1 - 1) : calls[j] = Zephyr
    BY <1>2, <2>1 DEF Guarded
  <2> QED
    BY <1>2, <2>2
<1>4. j # 1
  BY <1>1, <1>3
<1>5. j - 1 \in 1..(k - 1) /\ Tail(calls)[j - 1] = calls[j]
  BY <1>1, <1>2, <1>3, <1>4
<1> QED
  BY <1>3, <1>5

\* The step of a runner leaves the others where they are.
LEMMA RunnerAlone ==
  ASSUME TypeInv, NEW r \in Runners, RunnerActs(r), NEW s \in Runners, s # r
  PROVE  /\ rpc'[s] = rpc[s] /\ todo'[s] = todo[s]
         /\ loaded'[s] = loaded[s] /\ fsGlobals'[s] = fsGlobals[s]
<1>1. rpc'[s] = rpc[s] /\ todo'[s] = todo[s]
  <2>1. /\ rpc \in [Runners -> Labels] /\ todo \in [Runners -> Seq(Calls)]
    BY DEF TypeInv, TypeOK, Labels
  <2>2. UNCHANGED rvars \/ \E label, calls : Moves(r, label, calls)
    BY RunnerMoves
  <2> QED
    BY <2>1, <2>2 DEF rvars, Moves
<1>2. loaded'[s] = loaded[s] /\ fsGlobals'[s] = fsGlobals[s]
  <2>1. StateTypeOK
    BY DEF TypeInv, TypeOK
  <2>2. CASE UNCHANGED svars
    BY <2>2 DEF svars
  <2>3. CASE CloseState(r)
    BY <2>1, <2>3 DEF CloseState, StateTypeOK
  <2>4. ASSUME NEW n, RequireCached(r, n) \/ RequireLoads(r, n) \/ RequireRaises(r, n)
        PROVE  loaded'[s] = loaded[s] /\ fsGlobals'[s] = fsGlobals[s]
    <3>1. \/ UNCHANGED fsGlobals
          \/ fsGlobals' = [fsGlobals EXCEPT ![r] = @ \/ n = "zephyr"]
      BY <2>4 DEF RequireCached, RequireLoads, RequireRaises, OpensFs
    <3>2. fsGlobals'[s] = fsGlobals[s]
      BY <2>1, <3>1, Zenon DEF StateTypeOK
    <3>3. \/ UNCHANGED loaded
          \/ loaded' = [loaded EXCEPT ![r][n] = made'[r]]
      BY <2>4 DEF RequireCached, RequireLoads, RequireRaises
    <3>4. loaded'[s] = loaded[s]
      BY <2>1, <3>3, Zenon DEF StateTypeOK
    <3> QED
      BY <3>2, <3>4
  <2> QED
    BY <2>2, <2>3, <2>4, RunnerState
<1> QED
  BY <1>1, <1>2

\* What a require leaves in the runner's state.
LEMMA RequireOpens ==
  ASSUME StateTypeOK, NEW r \in Runners, NEW n \in Modules,
         RequireCached(r, n) \/ RequireLoads(r, n) \/ RequireRaises(r, n),
         \A m \in Modules : m = "zephyr" /\ loaded[r][m] # 0 => fsGlobals[r]
  PROVE  /\ fsGlobals[r] => fsGlobals'[r]
         /\ \A m \in Modules : m = "zephyr" /\ loaded'[r][m] # 0 => fsGlobals'[r]
         /\ n = "zephyr" /\ ~ RequireRaises(r, n) => fsGlobals'[r]
<1>1. CASE RequireCached(r, n)
  BY <1>1 DEF RequireCached
<1>2. CASE RequireLoads(r, n)
  <2>1. fsGlobals'[r] = (fsGlobals[r] \/ n = "zephyr")
    BY <1>2, Zenon DEF RequireLoads, OpensFs, StateTypeOK
  <2>2. \A m \in Modules : m # n => loaded'[r][m] = loaded[r][m]
    BY <1>2 DEF RequireLoads, StateTypeOK
  <2> QED
    BY <2>1, <2>2
<1>3. CASE RequireRaises(r, n)
  <2>1. fsGlobals[r] => fsGlobals'[r]
    BY <1>3, Zenon DEF RequireRaises, OpensFs, StateTypeOK
  <2>2. UNCHANGED loaded
    BY <1>3 DEF RequireRaises
  <2> QED
    BY <1>3, <2>1, <2>2
<1> QED
  BY <1>1, <1>2, <1>3

LEMMA GlobalsRunner ==
  ASSUME RequiresZephyrFirst, GlobalsInv, NEW r \in Runners, RunnerActs(r)
  PROVE  GlobalsOf(r)'
<1> USE DEF GlobalsInv
<1>0. /\ rpc \in [Runners -> Labels] /\ todo \in [Runners -> Seq(Calls)]
      /\ StateTypeOK
      /\ todo[r] \in Seq(Calls)
      /\ \A n \in Modules : n = "zephyr" /\ loaded[r][n] # 0 => fsGlobals[r]
  BY DEF TypeInv, TypeOK, Labels, GlobalsOf
<1>s. ASSUME UNCHANGED svars,
             rpc'[r] \in Loading => Tail(todo'[r]) = <<>>,
             rpc'[r] = "run" => fsGlobals[r] \/ Guarded(todo'[r])
      PROVE  GlobalsOf(r)'
  BY <1>0, <1>s DEF svars, GlobalsOf, Guarded
<1>a. ASSUME UNCHANGED svars, rpc'[r] \notin Loading \cup {"run"}
      PROVE  GlobalsOf(r)'
  BY <1>a, <1>s
<1>b. ASSUME UNCHANGED svars, UNCHANGED todo, rpc[r] \in Loading,
             rpc'[r] # "run" \/ UNCHANGED rpc
      PROVE  GlobalsOf(r)'
  BY <1>b, <1>s DEF GlobalsOf, Loading
<1>1. CASE NewState(r)
  BY <1>0, <1>1, <1>b DEF NewState, RunnerRuns, Goto, Loading
<1>2. CASE NewStateFails(r)
  BY <1>0, <1>2, <1>a, <1>b
     DEF NewStateFails, SystemHalts, RunnerRuns, Goto, Loading, rvars
<1>3. CASE OpenLibs(r)
  BY <1>0, <1>3, <1>b
     DEF OpenLibs, SystemHalts, RunnerRuns, Goto, Loading, rvars
<1>4. CASE LoadScript(r, "load")
  <2> DEFINE f == Head(todo[r]).arg
  <2>1. f \in Files /\ Tail(todo[r]) = <<>>
    <3>1. rpc[r] \in Loading
      BY <1>4 DEF LoadScript, RunnerRuns, Loading
    <3> QED
      BY <3>1 DEF TypeInv, Shape, FileCalls, GlobalsOf
  <2>2. todo'[r] = Text(f) \o <<>> /\ rpc'[r] = "run" /\ UNCHANGED svars
    BY <1>0, <1>4, <2>1 DEF LoadScript, Goto
  <2>3. Guarded(Text(f) \o <<>>)
    BY <2>1, GuardedText
  <2> QED
    BY <1>s, <2>2, <2>3 DEF Loading
<1>5. CASE LoadScript(r, "run")
  <2>1. fsGlobals[r] /\ rpc'[r] = "run" /\ UNCHANGED svars
    BY <1>0, <1>5 DEF LoadScript, FromDisk, Goto
  <2> QED
    BY <1>s, <2>1 DEF Loading
<1>6. CASE LoadFails(r)
  BY <1>0, <1>6, <1>a, <1>b
     DEF LoadFails, SystemHalts, Unwind, RunnerRuns, Goto, Loading, rvars
<1>7. CASE LoadfileNil(r) \/ List(r)
  <2>1. /\ rpc[r] = "run" /\ rpc'[r] = "run" /\ UNCHANGED svars
        /\ todo[r] # <<>> /\ todo'[r] = Tail(todo[r])
        /\ Head(todo[r]).call \in {"loadfile", "list"}
    BY <1>0, <1>7 DEF LoadfileNil, List, NextCall, Continue, RunnerRuns
  <2>2. Head(todo[r]) # Zephyr
    BY <2>1 DEF Zephyr, Call
  <2>3. fsGlobals[r] \/ Guarded(todo'[r])
    BY <1>0, <2>1, <2>2, GuardedTail DEF GlobalsOf
  <2> QED
    BY <1>s, <2>1, <2>3 DEF Loading
<1>8. CASE Require(r) \/ TryFails(r)
  <2> DEFINE n == Head(todo[r]).arg
  <2>1. /\ rpc[r] = "run" /\ rpc'[r] = "run"
        /\ todo[r] # <<>> /\ todo'[r] = Tail(todo[r])
        /\ Head(todo[r]).call \in {"require", "try"}
        /\ \/ RequireCached(r, n) \/ RequireLoads(r, n)
           \/ Head(todo[r]).call = "try" /\ RequireRaises(r, n)
    BY <1>0, <1>8 DEF Require, TryFails, NextCall, Continue, RunnerRuns
  <2>2. n \in Modules
    BY <2>1, NextCallTypes DEF TypeInv
  <2>3. /\ fsGlobals[r] => fsGlobals'[r]
        /\ \A m \in Modules : m = "zephyr" /\ loaded'[r][m] # 0 => fsGlobals'[r]
        /\ n = "zephyr" /\ ~ RequireRaises(r, n) => fsGlobals'[r]
    BY <1>0, <2>1, <2>2, RequireOpens
  <2>4. fsGlobals'[r] \/ Guarded(todo'[r])
    <3>1. CASE Head(todo[r]) = Zephyr
      <4>1. n = "zephyr" /\ Head(todo[r]).call = "require"
        BY <3>1 DEF Zephyr, Call
      <4>2. RequireCached(r, n) \/ RequireLoads(r, n)
        BY <2>1, <4>1
      <4>3. fsGlobals'[r]
        <5>1. CASE RequireCached(r, n)
          BY <1>0, <2>2, <4>1, <5>1 DEF RequireCached
        <5>2. CASE RequireLoads(r, n)
          BY <1>0, <4>1, <5>2, Zenon DEF RequireLoads, OpensFs, StateTypeOK
        <5> QED
          BY <4>2, <5>1, <5>2
      <4> QED
        BY <4>3
    <3>2. CASE Head(todo[r]) # Zephyr
      BY <1>0, <2>1, <2>3, <3>2, GuardedTail DEF GlobalsOf
    <3> QED
      BY <3>1, <3>2
  <2> QED
    BY <2>1, <2>3, <2>4 DEF GlobalsOf, Guarded, Loading
<1>9. CASE CallRaises(r)
  <2>1. rpc'[r] = "close"
    BY <1>0, <1>9 DEF CallRaises, Unwind, Goto
  <2>2. \/ UNCHANGED svars
        \/ /\ todo[r] # <<>> /\ Head(todo[r]).call \in {"require", "try"}
           /\ RequireRaises(r, Head(todo[r]).arg)
    BY <1>9 DEF CallRaises, NextCall
  <2>3. CASE UNCHANGED svars
    BY <1>a, <2>1, <2>3 DEF Loading
  <2>4. CASE /\ todo[r] # <<>> /\ Head(todo[r]).call \in {"require", "try"}
             /\ RequireRaises(r, Head(todo[r]).arg)
    <3>1. Head(todo[r]).arg \in Modules
      BY <2>4, NextCallTypes DEF TypeInv
    <3>2. \A m \in Modules : m = "zephyr" /\ loaded'[r][m] # 0 => fsGlobals'[r]
      BY <1>0, <2>4, <3>1, RequireOpens
    <3> QED
      BY <2>1, <3>2 DEF GlobalsOf, Loading
  <2> QED
    BY <2>2, <2>3, <2>4
<1>10. CASE ScriptEnds(r)
  BY <1>0, <1>10, <1>a DEF ScriptEnds, Goto, Loading
<1>11. CASE Close(r)
  <2>1. rpc'[r] = "ended" /\ \A n \in Modules : loaded'[r][n] = 0
    BY <1>0, <1>11 DEF Close, Goto, CloseState, NoTable, StateTypeOK
  <2> QED
    BY <2>1 DEF GlobalsOf, Loading
<1>12. CASE r = Thread /\ Setup
  BY <1>0, <1>12, <1>a, <1>b DEF Setup, SystemHalts, RunnerRuns, Goto, Loading, rvars
<1>13. CASE r = Thread /\ LoadEmbedded
  <2>1. Guarded(Program[Bundle[1]])
    BY BundleFacts, GuardedText
  <2>2. /\ UNCHANGED svars
        /\ \/ rpc'[r] = "close"
           \/ rpc'[r] = "run" /\ todo'[r] = Program[Bundle[1]]
    BY <1>0, <1>13 DEF LoadEmbedded, Unwind, Goto
  <2> QED
    BY <1>a, <1>s, <2>1, <2>2 DEF Loading
<1>14. CASE \E f \in Files : CmdRun(r, f)
  <2>1. PICK f \in Files : CmdRun(r, f)
    BY <1>14
  <2>2. /\ todo'[r] = <<Call("dofile", f)>> /\ rpc'[r] = "newstate"
        /\ UNCHANGED svars
    BY <1>0, <2>1 DEF CmdRun, Goto
  <2>3. Tail(<<Call("dofile", f)>>) = <<>>
    OBVIOUS
  <2> QED
    BY <1>s, <2>2, <2>3
<1> QED
  BY <1>1, <1>2, <1>3, <1>4, <1>5, <1>6, <1>7, <1>8, <1>9, <1>10, <1>11, <1>12,
     <1>13, <1>14 DEF RunnerActs, RunnerStep

LEMMA GlobalsStep ==
  ASSUME RequiresZephyrFirst, GlobalsInv, [Next]_vars
  PROVE  \A r \in Runners : GlobalsOf(r)'
<1> USE DEF GlobalsInv
<1>1. CASE PowerCut
  <2>1. ASSUME NEW r \in Runners
        PROVE  /\ rpc'[r] = IF r = Thread THEN "newstate" ELSE "ended"
               /\ r = Thread => todo'[r] = ThreadCalls
               /\ \A n \in Modules : loaded'[r][n] = 0
    BY <1>1 DEF PowerCut, RpcAtBoot, TodoAtBoot, NoTable
  <2>2. Tail(ThreadCalls) = <<>>
    BY DEF ThreadCalls
  <2> QED
    BY <2>1, <2>2 DEF GlobalsOf, Loading
<1>2. CASE \E r \in Runners : RunnerActs(r)
  <2>1. PICK r \in Runners : RunnerActs(r)
    BY <1>2
  <2>2. GlobalsOf(r)'
    BY <2>1, GlobalsRunner
  <2>3. ASSUME NEW s \in Runners, s # r PROVE GlobalsOf(s)'
    <3>1. /\ rpc'[s] = rpc[s] /\ todo'[s] = todo[s]
          /\ loaded'[s] = loaded[s] /\ fsGlobals'[s] = fsGlobals[s]
      BY <2>1, <2>3, RunnerAlone
    <3>2. GlobalsOf(s)
      OBVIOUS
    <3> QED
      BY <3>1, <3>2 DEF GlobalsOf, Guarded
  <2> QED
    BY <2>2, <2>3
<1>3. CASE \/ MainStep
           \/ \E a \in Threads : Wait(a)
           \/ \E s \in Shells : Edit(s)
           \/ UNCHANGED vars
  <2>1. UNCHANGED <<rpc, todo, loaded, fsGlobals>>
    BY <1>3 DEF MainStep, Mount, Erase, Format, Remount, Create, Write, MainRuns,
                Wait, Edit, CmdWrite, CmdUnlink, ShellEdits, vars, svars, rvars
  <2> QED
    BY <2>1 DEF GlobalsOf, Guarded
<1> QED
  BY <1>1, <1>2, <1>3, Steps

\* If every script requires zephyr before it calls dofile or loadfile, as those
\* of the sample do, then these are the filesystem's wherever a script calls
\* them: also in a script loaded by another, after a require that failed half
\* way, and in the state a shell makes (luaopen_zephyr, src/luaz_utils.c;
\* luaopen_fs, src/luaz_fs.c).
THEOREM BootDofileIsTheFilesystems ==
  ASSUME RequiresZephyrFirst
  PROVE  Spec => []DofileIsTheFilesystems
<1>1. Init => GlobalsInv
  <2> SUFFICES ASSUME Init, NEW r \in Runners PROVE GlobalsOf(r)
    BY InitTypeInv DEF GlobalsInv
  <2>1. /\ rpc[r] = IF r = Thread THEN "newstate" ELSE "ended"
        /\ r = Thread => todo[r] = ThreadCalls
        /\ \A n \in Modules : loaded[r][n] = 0
    BY DEF Init, RpcAtBoot, TodoAtBoot, StateInit, NoTable
  <2>2. Tail(ThreadCalls) = <<>>
    BY DEF ThreadCalls
  <2> QED
    BY <2>1, <2>2 DEF GlobalsOf, Loading
<1>2. GlobalsInv /\ [Next]_vars => GlobalsInv'
  <2>1. TypeInv /\ [Next]_vars => TypeInv'
    BY Steps, PowerCutTypeInv, MainTypeInv, RunnerTypeInv, OtherTypeInv
  <2>2. GlobalsInv /\ [Next]_vars => \A r \in Runners : GlobalsOf(r)'
    BY RequiresZephyrFirst, GlobalsStep
  <2> QED
    BY <2>1, <2>2 DEF GlobalsInv
<1>3. GlobalsInv => DofileIsTheFilesystems
  <2> SUFFICES ASSUME GlobalsInv, NEW r \in Runners, rpc[r] = "run",
                      NextCall(r, "dofile") \/ NextCall(r, "loadfile"),
                      Guarded(todo[r])
               PROVE  FALSE
    BY DEF GlobalsInv, GlobalsOf, DofileIsTheFilesystems
  <2>1. todo[r] \in Seq(Calls) /\ todo[r] # <<>>
        /\ Head(todo[r]).call \in {"dofile", "loadfile"}
    BY DEF NextCall, GlobalsInv, TypeInv, TypeOK
  <2>2. 1 \in DOMAIN todo[r] /\ Head(todo[r]) = todo[r][1]
    BY <2>1
  <2>3. \E j \in 1..(1 - 1) : todo[r][j] = Zephyr
    BY <2>1, <2>2 DEF Guarded
  <2> QED
    BY <2>3
<1> QED
  BY <1>1, <1>2, <1>3, PTL DEF Spec

-----------------------------------------------------------------------------
(* Every script is run.                                                    *)

Quiet == Undisturbed /\ ~raised /\ ~halted

StillToRun(calls, C) == \E j \in DOMAIN calls : calls[j] \in C

\* In a boot in which nothing failed, the Lua thread has loaded a script of the
\* bundle or has the call that loads it before it.
Owed ==
  Quiet =>
    /\ rpc[Thread] \in Loading => todo[Thread] = ThreadCalls
    /\ rpc[Thread] \notin Loading =>
         \A k \in 2..Len(Bundle) :
           \/ {Bundle[1], Bundle[k]} \cap edits # {}
           \/ <<Bundle[k], firmware>> \in ran[Thread]
           \/ rpc[Thread] = "run" /\ StillToRun(todo[Thread], Loads(Bundle[k]))

RunInv == OrderInv /\ Owed

LEMMA StillInTail ==
  ASSUME NEW calls \in Seq(Calls), NEW C, StillToRun(calls, C)
  PROVE  calls # <<>> /\ (Head(calls) \notin C => StillToRun(Tail(calls), C))
<1>1. PICK j \in DOMAIN calls : calls[j] \in C
  BY DEF StillToRun
<1>2. /\ Len(calls) \in Nat \ {0}
      /\ DOMAIN calls = 1..Len(calls)
      /\ Head(calls) = calls[1]
      /\ DOMAIN Tail(calls) = 1..(Len(calls) - 1)
      /\ \A i \in 1..(Len(calls) - 1) : Tail(calls)[i] = calls[i + 1]
  BY <1>1
<1>3. ASSUME Head(calls) \notin C PROVE StillToRun(Tail(calls), C)
  <2>1. j - 1 \in 1..(Len(calls) - 1) /\ j - 1 + 1 = j
    BY <1>1, <1>2, <1>3
  <2>2. Tail(calls)[j - 1] \in C
    BY <1>1, <1>2, <2>1
  <2> QED
    BY <1>2, <2>1, <2>2 DEF StillToRun
<1> QED
  BY <1>2, <1>3

LEMMA StillInConcat ==
  ASSUME NEW first \in Seq(Calls), NEW rest \in Seq(Calls), NEW C,
         StillToRun(first, C) \/ StillToRun(rest, C)
  PROVE  StillToRun(first \o rest, C)
<1>1. /\ Len(first) \in Nat /\ Len(rest) \in Nat
      /\ DOMAIN first = 1..Len(first) /\ DOMAIN rest = 1..Len(rest)
      /\ DOMAIN (first \o rest) = 1..(Len(first) + Len(rest))
      /\ \A i \in 1..Len(first) : (first \o rest)[i] = first[i]
  OBVIOUS
<1>2. ASSUME NEW i \in 1..Len(rest)
      PROVE  (first \o rest)[Len(first) + i] = rest[i]
  OBVIOUS
<1>3. CASE StillToRun(first, C)
  <2>1. PICK j \in 1..Len(first) : first[j] \in C
    BY <1>1, <1>3 DEF StillToRun
  <2>2. j \in DOMAIN (first \o rest) /\ (first \o rest)[j] \in C
    BY <1>1, <2>1
  <2> QED
    BY <2>2 DEF StillToRun
<1>4. CASE StillToRun(rest, C)
  <2>1. PICK j \in 1..Len(rest) : rest[j] \in C
    BY <1>1, <1>4 DEF StillToRun
  <2>2. Len(first) + j \in DOMAIN (first \o rest)
    BY <1>1, <2>1
  <2>3. (first \o rest)[Len(first) + j] \in C
    BY <1>2, <2>1
  <2> QED
    BY <2>2, <2>3 DEF StillToRun
<1> QED
  BY <1>3, <1>4

LEMMA RunnerQuiet ==
  ASSUME TypeInv, NEW r \in Runners, RunnerActs(r), Quiet'
  PROVE  Quiet
<1>1. UNCHANGED <<fault, slept>> /\ ~halted
  BY RunnerFrame DEF Turn
<1>2. raised => raised'
  BY DEF RunnerActs, RunnerStep, NewState, NewStateFails, OpenLibs, LoadScript, LoadFails,
         LoadfileNil, List, Require, CallRaises, TryFails, ScriptEnds, Close,
         Setup, LoadEmbedded, CmdRun, Raised
<1> QED
  BY <1>1, <1>2 DEF Quiet, Undisturbed

\* The step of another runner does not change what the Lua thread has run.
LEMMA ShellOwed ==
  ASSUME RunInv, NEW s \in Shells, RunnerActs(s)
  PROVE  Owed'
<1>1. s \in Runners /\ s # Thread /\ Thread \in Runners /\ TypeInv
  BY ThreadAssumption DEF Shells, RunInv, OrderInv
<1>2. rpc'[Thread] = rpc[Thread] /\ todo'[Thread] = todo[Thread]
  BY <1>1, RunnerAlone
<1>3. ran'[Thread] = ran[Thread]
  <2>1. DOMAIN ran = Runners
    BY <1>1 DEF TypeInv, TypeOK
  <2> QED
    BY <1>1, <2>1, RunnerLoads
<1>4. UNCHANGED <<firmware, edits>>
  BY <1>1, RunnerFrame DEF flash
<1>5. Quiet' => Quiet
  BY <1>1, RunnerQuiet
<1> QED
  BY <1>2, <1>3, <1>4, <1>5 DEF RunInv, Owed, StillToRun

LEMMA ThreadOwed ==
  ASSUME FirstRunsTheOthers, RunInv, ThreadStep
  PROVE  Owed'
<1> SUFFICES ASSUME Quiet' PROVE Owed'
  BY DEF Owed
<1> DEFINE Load(k) == Loads(Bundle[k])
           Done(k) == \/ {Bundle[1], Bundle[k]} \cap edits # {}
                      \/ <<Bundle[k], firmware>> \in ran[Thread]
<1> USE DEF RunnerRuns
<1>0. /\ Thread \in Runners /\ RunnerActs(Thread) /\ TypeInv
      /\ Quiet /\ UNCHANGED <<firmware, disk, fault, slept, edits>>
  <2>1. Thread \in Runners /\ RunnerActs(Thread) /\ TypeInv
    BY ThreadAssumption DEF ThreadStep, RunnerActs, RunInv, OrderInv
  <2>2. Quiet /\ UNCHANGED <<firmware, disk, fault, slept, edits>>
    BY <2>1, RunnerQuiet, RunnerFrame DEF flash
  <2> QED
    BY <2>1, <2>2
<1>t. /\ rpc \in [Runners -> Labels]
      /\ todo \in [Runners -> Seq(Calls)]
      /\ ran \in [Runners -> SUBSET (Files \X Contents)]
      /\ todo[Thread] \in Seq(Calls)
  BY <1>0 DEF TypeInv, TypeOK, Labels
<1>d. /\ \A k \in DOMAIN Bundle : disk[Bundle[k]] = firmware \/ Bundle[k] \in edits
      /\ firmware \notin {Empty, Saved}
  <2>1. mpc = "sleep"
    BY <1>0, RunnerFrame, TurnAfterMain DEF Quiet, RunInv, OrderInv
  <2>2. \A k \in DOMAIN Bundle : disk[Bundle[k]] = firmware \/ Bundle[k] \in edits
    BY <1>0, <2>1 DEF Quiet, RunInv, OrderInv, Progress
  <2>3. firmware \notin {Empty, Saved}
    BY <1>0, VersionAssumption DEF TypeInv, TypeOK
  <2> QED
    BY <2>2, <2>3
<1>k. \A k \in 2..Len(Bundle) : k \in DOMAIN Bundle /\ Bundle[k] \in Files
  BY BundleFacts
<1>p. /\ Bundle[1] \in Files /\ Program[Bundle[1]] \in Seq(Calls)
      /\ \A k \in 2..Len(Bundle) : StillToRun(Program[Bundle[1]], Load(k))
  BY BundleFacts, ProgramAssumption DEF FirstRunsTheOthers, StillToRun
<1>o. /\ rpc[Thread] \in Loading => todo[Thread] = ThreadCalls
      /\ rpc[Thread] \notin Loading =>
           \A k \in 2..Len(Bundle) :
             Done(k) \/ (rpc[Thread] = "run" /\ StillToRun(todo[Thread], Load(k)))
  BY <1>0 DEF RunInv, Owed
<1>q. ~raised' /\ ~halted'
  BY DEF Quiet
<1>x. UNCHANGED <<firmware, edits>>
  BY <1>0
<1>y. ASSUME NEW k \in 2..Len(Bundle), Done(k), ran[Thread] \subseteq ran'[Thread]
      PROVE  Done(k)'
  BY <1>x, <1>y
<1>z. ASSUME NEW k \in 2..Len(Bundle),
             {Bundle[1], Bundle[k]} \cap edits # {}
               \/ <<Bundle[k], firmware>> \in ran'[Thread]
      PROVE  Done(k)'
  BY <1>x, <1>z
<1>r. ASSUME rpc'[Thread] = "run",
             \A k \in 2..Len(Bundle) : Done(k)' \/ StillToRun(todo'[Thread], Load(k))
      PROVE  Owed'
  BY <1>r, <1>x DEF Owed, Loading, StillToRun
<1>a. ASSUME rpc[Thread] \in Loading, rpc'[Thread] \in Loading, UNCHANGED todo
      PROVE  Owed'
  BY <1>a, <1>o DEF Owed
<1> HIDE DEF Load, Done
<1>1. CASE NewState(Thread)
  BY <1>1, <1>t, <1>0, <1>a DEF NewState, Goto, Loading
<1>2. CASE NewStateFails(Thread)
  BY <1>2, <1>q DEF NewStateFails, SystemHalts
<1>3. CASE OpenLibs(Thread)
  BY <1>3, <1>t, <1>0, <1>a, <1>q DEF OpenLibs, SystemHalts, Goto, Loading
<1>4. CASE LoadScript(Thread, "load")
  <2>1. todo[Thread] = ThreadCalls
    BY <1>4, <1>o DEF LoadScript, Loading
  <2>2. Head(ThreadCalls).arg = Bundle[1] /\ Tail(ThreadCalls) = <<>>
    BY DEF ThreadCalls, Call
  <2>3. /\ rpc'[Thread] = "run"
        /\ todo'[Thread] = Text(Bundle[1]) \o <<>>
    BY <1>0, <1>t, <1>4, <2>1, <2>2 DEF LoadScript, Goto
  <2>4. CASE Bundle[1] \in edits
    <3>1. \A k \in 2..Len(Bundle) : Done(k)'
      BY <1>z, <2>4
    <3> QED
      BY <1>r, <2>3, <3>1
  <2>5. CASE Bundle[1] \notin edits
    <3>1. Text(Bundle[1]) = Program[Bundle[1]]
      BY <1>d, <2>5, BundleFacts DEF Text
    <3>2. Program[Bundle[1]] \o <<>> = Program[Bundle[1]]
      BY <1>p
    <3> QED
      BY <1>r, <1>p, <2>3, <3>1, <3>2
  <2> QED
    BY <2>4, <2>5
<1>5. CASE LoadScript(Thread, "run")
  <2> DEFINE f == Head(todo[Thread]).arg
  <2>1. /\ rpc[Thread] = "run" /\ todo[Thread] # <<>>
        /\ Head(todo[Thread]).call \in {"dofile", "loadfile"}
    BY <1>5 DEF LoadScript, FromDisk
  <2>2. f \in Files /\ Tail(todo[Thread]) \in Seq(Calls) /\ Text(f) \in Seq(Calls)
    BY <1>0, <2>1, NextCallTypes, TextTypes DEF TypeInv
  <2>3. /\ rpc'[Thread] = "run"
        /\ todo'[Thread] = Text(f) \o Tail(todo[Thread])
        /\ ran'[Thread] = ran[Thread] \cup {<<f, disk[f]>>}
    BY <1>0, <1>t, <1>5 DEF LoadScript, Goto
  <2>4. ASSUME NEW k \in 2..Len(Bundle)
        PROVE  Done(k)' \/ StillToRun(todo'[Thread], Load(k))
    <3>1. CASE Done(k)
      BY <1>y, <2>3, <3>1
    <3>2. CASE Head(todo[Thread]) \in Load(k)
      <4>1. f = Bundle[k]
        BY <3>2 DEF Load, Loads, Call
      <4>2. CASE Bundle[k] \in edits
        BY <1>z, <4>2
      <4>3. CASE disk[Bundle[k]] = firmware
        BY <1>z, <2>3, <4>1, <4>3
      <4> QED
        BY <1>d, <1>k, <4>2, <4>3
    <3>3. CASE Head(todo[Thread]) \notin Load(k) /\ StillToRun(todo[Thread], Load(k))
      <4>1. StillToRun(Tail(todo[Thread]), Load(k))
        BY <1>t, <3>3, StillInTail
      <4> QED
        BY <2>2, <2>3, <4>1, StillInConcat
    <3> QED
      BY <1>o, <2>1, <3>1, <3>2, <3>3 DEF Loading
  <2> QED
    BY <1>r, <2>3, <2>4
<1>6. CASE LoadFails(Thread) \/ LoadfileNil(Thread) \/ CallRaises(Thread)
  BY <1>6, <1>q DEF LoadFails, LoadfileNil, CallRaises, Raised
<1>7. CASE List(Thread) \/ Require(Thread) \/ TryFails(Thread)
  <2>1. /\ rpc[Thread] = "run" /\ rpc'[Thread] = "run" /\ UNCHANGED ran
        /\ todo'[Thread] = Tail(todo[Thread])
        /\ Head(todo[Thread]).call \notin {"dofile", "loadfile"}
    BY <1>0, <1>t, <1>7 DEF List, Require, TryFails, NextCall, Continue
  <2>2. \A k \in 2..Len(Bundle) : Head(todo[Thread]) \notin Load(k)
    BY <2>1 DEF Load, Loads, Call
  <2>3. \A k \in 2..Len(Bundle) : Done(k)' \/ StillToRun(todo'[Thread], Load(k))
    BY <1>o, <1>t, <1>y, <2>1, <2>2, StillInTail DEF Loading
  <2> QED
    BY <1>r, <2>1, <2>3
<1>8. CASE ScriptEnds(Thread) \/ Close(Thread)
  <2>1. /\ rpc[Thread] \in {"run", "close"} /\ rpc'[Thread] \in {"close", "ended"}
        /\ ran'[Thread] = ran[Thread]
        /\ rpc[Thread] = "run" => todo[Thread] = <<>>
    BY <1>0, <1>t, <1>8 DEF ScriptEnds, Close, Goto
  <2>2. \A k \in 2..Len(Bundle) : Done(k)'
    BY <1>o, <1>t, <1>y, <2>1, StillInTail DEF Loading
  <2> QED
    BY <2>1, <2>2 DEF Owed, Loading, Done
<1>9. CASE Setup
  BY <1>9, <1>t, <1>0, <1>a, <1>q DEF Setup, SystemHalts, Raised, Goto, Loading
<1>10. CASE LoadEmbedded
  <2>1. rpc'[Thread] = "run" /\ todo'[Thread] = Program[Bundle[1]]
    BY <1>0, <1>10, <1>t, <1>q DEF LoadEmbedded, Raised, Goto
  <2> QED
    BY <1>r, <1>p, <2>1
<1> QED
  BY <1>1, <1>2, <1>3, <1>4, <1>5, <1>6, <1>7, <1>8, <1>9, <1>10
     DEF ThreadStep, RunnerStep

\* main and the shells' saves leave the runners alone, and make no boot quiet
\* that was not.
LEMMA RestOwed ==
  ASSUME RunInv,
         \/ MainStep
         \/ \E a \in Threads : Wait(a)
         \/ \E s \in Shells : Edit(s)
         \/ UNCHANGED vars
  PROVE  Owed'
<1>1. UNCHANGED <<firmware, rpc, todo, halted, raised, ran>> /\ edits \subseteq edits'
  BY DEF MainStep, Mount, Erase, Format, Remount, Create, Write, MainRuns, Wait,
         Edit, CmdWrite, CmdUnlink, ShellEdits, vars, rvars, flash
<1>2. Undisturbed' => Undisturbed
  <2>1. CASE Mount
    BY <2>1 DEF Mount, MainRuns, Undisturbed, RunInv, OrderInv, History
  <2>2. CASE Erase \/ Format \/ Remount \/ Create \/ Write
    BY <2>2 DEF Erase, Format, Remount, Create, Write, Fails, MainRuns, Undisturbed
  <2>3. CASE \/ \E a \in Threads : Wait(a)
             \/ \E s \in Shells : Edit(s)
             \/ UNCHANGED vars
    BY <2>3 DEF Wait, Edit, CmdWrite, CmdUnlink, ShellEdits, vars, Undisturbed
  <2> QED
    BY <2>1, <2>2, <2>3 DEF MainStep
<1>3. Quiet' => Quiet
  BY <1>1, <1>2 DEF Quiet
<1> QED
  BY <1>1, <1>3 DEF RunInv, Owed, StillToRun

LEMMA BootOwed == ASSUME RpcAtBoot = rpc, TodoAtBoot = todo PROVE Owed
  BY ThreadAssumption DEF RpcAtBoot, TodoAtBoot, Owed, Loading

\* If the first script runs all the others by dofile or loadfile, as hello_fs.lua
\* of the sample does with greet.lua and info.lua (lines 8 and 13-15), then a Lua
\* thread that ends in a boot without failures has loaded every bundled script,
\* in the version of this firmware, unless a shell has changed that script or the
\* first one (src/templates/lua_fs_thread.c.in, samples/littlefs/src/main.c).
THEOREM BootRunsEveryScript ==
  ASSUME FirstRunsTheOthers
  PROVE  Spec => []RunsEveryScript
<1>1. Init => Owed
  BY BootOwed DEF Init
<1>2. RunInv /\ [Next]_vars => Owed'
  <2> SUFFICES ASSUME RunInv, [Next]_vars PROVE Owed'
    OBVIOUS
  <2>1. CASE PowerCut
    <3>1. Thread \in Runners /\ rpc'[Thread] = "newstate" /\ todo'[Thread] = ThreadCalls
      BY <2>1, ThreadAssumption DEF PowerCut, RpcAtBoot, TodoAtBoot
    <3> QED
      BY <3>1 DEF Owed, Loading
  <2>2. CASE ThreadStep
    BY <2>2, FirstRunsTheOthers, ThreadOwed
  <2>3. CASE \E s \in Shells : RunnerActs(s)
    BY <2>3, ShellOwed
  <2> QED
    BY <2>1, <2>2, <2>3, RestOwed DEF Next, RunnerActs, Files
<1>3. RunInv => RunsEveryScript
  <2> SUFFICES ASSUME RunInv, Quiet, rpc[Thread] = "ended",
                      NEW k \in 2..Len(Bundle)
               PROVE  \/ <<Bundle[k], firmware>> \in ran[Thread]
                      \/ {Bundle[1], Bundle[k]} \cap edits # {}
    BY DEF RunsEveryScript, Quiet, Undisturbed
  <2> QED
    BY DEF RunInv, Owed, Loading
<1> QED
  BY <1>1, <1>2, <1>3, OrderHolds, PTL DEF Spec, RunInv
=============================================================================
