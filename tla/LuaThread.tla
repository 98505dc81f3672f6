------------------------------ MODULE LuaThread ------------------------------
(***************************************************************************)
(* A firmware boots: main mounts the filesystem and installs the scripts it *)
(* carries (samples/littlefs/src/main.c), a generated Lua thread loads and  *)
(* runs them (src/templates), a shell runs, writes and deletes scripts too   *)
(* (src/luaz_fs_shell.c).  The power may fail at any step; the next boot may *)
(* be that of another firmware version, over the same flash.                 *)
(*                                                                         *)
(* Scheduling is strict by priority: main (0), the Lua thread (7), shells.   *)
(* A thread gives way only when it has ended, sleeps, or waits for the flash *)
(* or the filesystem's mutex, which every filesystem call may do.  LittleFS  *)
(* is external: a file changes when it is closed after writing, and a failed *)
(* write leaves it as it was; a load is one step (LuaFs shows its own).      *)
(***************************************************************************)
EXTENDS LuaState, Sequences

CONSTANTS
  Main, Thread,  \* two of the threads; the other runners are shells
  Bundle,        \* the scripts main installs, in its order
  Typed,         \* the files named in shells' commands, bundled or not
  Program,       \* Program[f]: the calls of the script f as a firmware has it
  SavedProgram,  \* the calls of a script typed into a shell
  Factory,       \* the firmware version of a new device
  Later,         \* the versions that may follow
  NoFile, Empty, \* a file that is missing, or was created and not written
  Saved,         \* what was typed into a shell
  MaxBoots       \* bound: boots

Versions == {Factory} \cup Later

Bundled == {Bundle[k] : k \in DOMAIN Bundle}
Files   == Bundled \cup Typed
Shells  == Runners \ {Thread}
Threads == Runners \cup {Main}
Calls   == [call : {"dofile", "loadfile", "list"}, arg : Files]
             \cup [call : {"require", "try"}, arg : Modules]

ASSUME ThreadAssumption == Thread \in Runners /\ Main \notin Runners
ASSUME BoundAssumption == MaxBoots \in Nat
ASSUME BundleAssumption == /\ Bundle \in Seq(Bundled)
                           /\ Bundle # <<>>
ASSUME ProgramAssumption == /\ Program \in [Files -> Seq(Calls)]
                            /\ SavedProgram \in Seq(Calls)
ASSUME VersionAssumption == {NoFile, Empty, Saved} \cap Versions = {}
ASSUME SavedAssumption == Saved \notin {NoFile, Empty}

VARIABLES
  \* survive the power cut
  firmware, formatted, disk, boots,
  \* main
  mounted, mpc, next,
  \* runners: where in the template or in cmd_run, and the calls to come
  rpc, todo,
  \* scheduling
  waiting, halted,
  \* history of this boot: main's calls failed, main waited, the Lua thread's
  \* calls failed, what each runner loaded, the files that shells changed
  fault, slept, raised, ran, edits

flash == <<firmware, formatted, disk, boots>>
mvars == <<mounted, mpc, next>>
rvars == <<rpc, todo>>
vars  == <<flash, mvars, rvars, waiting, halted, fault, slept, raised, ran, edits,
           svars>>

Call(c, a) == [call |-> c, arg |-> a]
ThreadCalls == <<Call("dofile", Bundle[1])>>
TodoAtBoot == [r \in Runners |-> IF r = Thread THEN ThreadCalls ELSE <<>>]
RpcAtBoot == [r \in Runners |-> IF r = Thread THEN "newstate" ELSE "ended"]

\* A new device, whose flash was never formatted.
Init ==
  /\ firmware = Factory
  /\ formatted = FALSE
  /\ disk = [f \in Files |-> NoFile]
  /\ boots = 1
  /\ mounted = FALSE
  /\ mpc = "mount"
  /\ next = 1
  /\ rpc = RpcAtBoot
  /\ todo = TodoAtBoot
  /\ waiting = [a \in Threads |-> FALSE]
  /\ halted = FALSE
  /\ fault = FALSE
  /\ slept = FALSE
  /\ raised = FALSE
  /\ ran = [r \in Runners |-> {}]
  /\ edits = {}
  /\ StateInit

\* The power fails, or a watchdog resets a halted system; what boots next has
\* its own version.
PowerCut ==
  /\ boots < MaxBoots
  /\ boots' = boots + 1
  /\ firmware' \in Later
  /\ mounted' = FALSE
  /\ mpc' = "mount"
  /\ next' = 1
  /\ rpc' = RpcAtBoot
  /\ todo' = TodoAtBoot
  /\ waiting' = [a \in Threads |-> FALSE]
  /\ halted' = FALSE
  /\ fault' = FALSE
  /\ slept' = FALSE
  /\ raised' = FALSE
  /\ ran' = [r \in Runners |-> {}]
  /\ edits' = {}
  /\ loaded' = [r \in Runners |-> NoTable]
  /\ made' = [r \in Runners |-> 0]
  /\ fsGlobals' = [r \in Runners |-> FALSE]
  /\ answers' = [r \in Runners |-> NoAnswer]
  /\ UNCHANGED <<formatted, disk>>

-----------------------------------------------------------------------------
(* Scheduling.                                                             *)

Above(a) == IF a = Main THEN {} ELSE IF a = Thread THEN {Main} ELSE {Main, Thread}

GivesWay(a) ==
  waiting[a] \/ IF a = Main THEN mpc \in {"sleep", "exit"} ELSE rpc[a] = "ended"

Turn(a) == ~halted /\ \A b \in Above(a) : GivesWay(b)

\* a runs, and what it waited for has come.
Runs(a) == Turn(a) /\ waiting' = [waiting EXCEPT ![a] = FALSE]

\* Shells need not wait: nothing runs below them.
InFilesystem(a) ==
  \/ a = Main /\ mpc \notin {"sleep", "exit"}
  \/ a = Thread /\ rpc[a] = "load"
  \/ /\ a = Thread /\ rpc[a] = "run" /\ todo[a] # <<>>
     /\ Head(todo[a]).call \in {"dofile", "loadfile", "list"}

Wait(a) ==
  /\ Turn(a)
  /\ InFilesystem(a)
  /\ ~waiting[a]
  /\ waiting' = [waiting EXCEPT ![a] = TRUE]
  /\ slept' = (slept \/ a = Main)
  /\ UNCHANGED <<flash, mvars, rvars, halted, fault, raised, ran, edits, svars>>

-----------------------------------------------------------------------------
(* main: mount_fs, then three calls of lua_fs_write_file.                  *)

MainRuns(at) ==
  /\ mpc = at
  /\ Runs(Main)
  /\ UNCHANGED <<firmware, boots, rvars, halted, slept, raised, ran, edits, svars>>

\* Mutant: the mount is tried again and again.
MountRetries ==
  /\ MainRuns("mount")
  /\ \/ formatted /\ mounted' = TRUE /\ mpc' = "create"
     \/ UNCHANGED <<mounted, mpc>>
  /\ UNCHANGED <<formatted, disk, next, fault>>

Mount ==
  /\ MainRuns("mount")
  /\ \/ formatted /\ mounted' = TRUE /\ mpc' = "create" /\ UNCHANGED fault
     \/ mpc' = "erase" /\ fault' = formatted /\ UNCHANGED mounted
  /\ UNCHANGED <<formatted, disk, next>>

\* main returns.
Fails == mpc' = "exit" /\ fault' = TRUE

\* fs_mkfs, and the power may fail in the middle of it.
Erase ==
  /\ MainRuns("erase")
  /\ \/ /\ formatted' = FALSE
        /\ disk' = [f \in Files |-> NoFile]
        /\ mpc' = "format"
        /\ UNCHANGED fault
     \/ Fails /\ UNCHANGED <<formatted, disk>>
  /\ UNCHANGED <<mounted, next>>

Format ==
  /\ MainRuns("format")
  /\ \/ formatted' = TRUE /\ mpc' = "remount" /\ UNCHANGED fault
     \/ Fails /\ UNCHANGED formatted
  /\ UNCHANGED <<mounted, disk, next>>

Remount ==
  /\ MainRuns("remount")
  /\ \/ mounted' = TRUE /\ mpc' = "create" /\ UNCHANGED fault
     \/ Fails /\ UNCHANGED mounted
  /\ UNCHANGED <<formatted, disk, next>>

\* Mutant: the last script is not the end.
AdvanceTooFar ==
  /\ next' = next + 1
  /\ mpc' = IF next > Len(Bundle) THEN "sleep" ELSE "create"

\* What lua_fs_write_file returned is not looked at.
Advance ==
  /\ next' = next + 1
  /\ mpc' = IF next = Len(Bundle) THEN "sleep" ELSE "create"

\* Mutant: the old file is deleted first.
CreateAnew ==
  /\ MainRuns("create")
  /\ disk' = [disk EXCEPT ![Bundle[next]] = Empty]
  /\ mpc' = "write"
  /\ UNCHANGED <<formatted, mounted, next, fault>>

\* fs_open creates a missing file.
Create ==
  /\ MainRuns("create")
  /\ \/ /\ disk' = [disk EXCEPT ![Bundle[next]] = IF @ = NoFile THEN Empty ELSE @]
        /\ mpc' = "write"
        /\ UNCHANGED <<next, fault>>
     \/ Advance /\ fault' = TRUE /\ UNCHANGED disk
  /\ UNCHANGED <<formatted, mounted>>

\* Mutant: a script that is there is left alone.
WriteMissing ==
  /\ MainRuns("write")
  /\ \/ /\ disk' = [disk EXCEPT ![Bundle[next]] = IF @ = Empty THEN firmware ELSE @]
        /\ UNCHANGED fault
     \/ fault' = TRUE /\ UNCHANGED disk
  /\ Advance
  /\ UNCHANGED <<formatted, mounted>>

\* fs_truncate, fs_write and fs_close.
Write ==
  /\ MainRuns("write")
  /\ \/ disk' = [disk EXCEPT ![Bundle[next]] = firmware] /\ UNCHANGED fault
     \/ fault' = TRUE /\ UNCHANGED disk
  /\ Advance
  /\ UNCHANGED <<formatted, mounted>>

-----------------------------------------------------------------------------
(* A Lua thread, and cmd_run.                                              *)

RunnerRuns(r, at) ==
  /\ rpc[r] = at
  /\ Runs(r)
  /\ UNCHANGED <<flash, mvars, fault, slept, edits>>

Goto(r, label) == rpc' = [rpc EXCEPT ![r] = label]

\* A panic, a failed assertion or a null pointer in any thread.
SystemHalts == halted' = TRUE /\ UNCHANGED rvars

Raised(r) == raised' = (raised \/ r = Thread)

\* An error ends the script; it is printed.
Unwind(r) == Goto(r, "close") /\ todo' = [todo EXCEPT ![r] = <<>>]

\* lua_fs run <name>
CmdRun(s, f) ==
  /\ RunnerRuns(s, "ended")
  /\ Goto(s, "newstate")
  /\ todo' = [todo EXCEPT ![s] = <<Call("dofile", f)>>]
  /\ UNCHANGED <<halted, raised, ran, svars>>

NewState(r) ==
  /\ RunnerRuns(r, "newstate")
  /\ Goto(r, "openlibs")
  /\ UNCHANGED <<todo, halted, raised, ran, svars>>

\* NULL: cmd_run tests it, the templates go on to use it.
NewStateFails(r) ==
  /\ RunnerRuns(r, "newstate")
  /\ IF r = Thread
     THEN SystemHalts
     ELSE /\ Goto(r, "ended")
          /\ todo' = [todo EXCEPT ![r] = <<>>]
          /\ UNCHANGED halted
  /\ UNCHANGED <<raised, ran, svars>>

\* luaz_openlibs is not protected: a memory error is a panic.
OpenLibs(r) ==
  /\ RunnerRuns(r, "openlibs")
  /\ \/ SystemHalts
     \/ Goto(r, IF r = Thread THEN "setup" ELSE "load") /\ UNCHANGED <<todo, halted>>
  /\ UNCHANGED <<raised, ran, svars>>

\* The application's hook; with assertions, a failure halts the system.
Setup ==
  /\ RunnerRuns(Thread, "setup")
  /\ \/ Goto(Thread, "load") /\ UNCHANGED <<todo, halted, raised>>
     \/ SystemHalts /\ UNCHANGED raised
     \/ /\ Goto(Thread, "ended")
        /\ todo' = [todo EXCEPT ![Thread] = <<>>]
        /\ Raised(Thread)
        /\ UNCHANGED halted
  /\ UNCHANGED <<ran, svars>>

\* Mutant: the script is compiled and not called.
TextUncalled(f) == <<>>

Text(f) ==
  CASE disk[f] = Empty -> <<>> [] disk[f] = Saved -> SavedProgram [] OTHER -> Program[f]

\* The template is one whose script is part of the image: luaL_dostring, or
\* luaL_loadbuffer and lua_pcall.
LoadEmbedded ==
  /\ ~waiting[Thread]
  /\ RunnerRuns(Thread, "load")
  /\ \/ /\ Goto(Thread, "run")
        /\ todo' = [todo EXCEPT ![Thread] = Program[Bundle[1]]]
        /\ UNCHANGED raised
     \/ Unwind(Thread) /\ Raised(Thread)
  /\ UNCHANGED <<halted, ran, svars>>

FromDisk(r, at) ==
  at = "run" => /\ fsGlobals[r] /\ todo[r] # <<>>
                /\ Head(todo[r]).call \in {"dofile", "loadfile"}

\* The script to run, or one it calls; both run in the same state.
LoadScript(r, at) ==
  /\ RunnerRuns(r, at)
  /\ FromDisk(r, at)
  /\ LET f == Head(todo[r]).arg
     IN  /\ mounted
         /\ disk[f] # NoFile
         /\ todo' = [todo EXCEPT ![r] = Text(f) \o Tail(@)]
         /\ ran' = [ran EXCEPT ![r] = @ \cup {<<f, disk[f]>>}]
  /\ Goto(r, "run")
  /\ UNCHANGED <<halted, raised, svars>>

\* The script to run is missing, unreadable or broken.  The error message of
\* lua_fs_dofile is built outside any protected call.
LoadFails(r) ==
  /\ RunnerRuns(r, "load")
  /\ \/ SystemHalts
     \/ Unwind(r) /\ UNCHANGED halted
  /\ Raised(r)
  /\ UNCHANGED <<ran, svars>>

NextCall(r, c) == todo[r] # <<>> /\ Head(todo[r]).call = c

Continue(r) == todo' = [todo EXCEPT ![r] = Tail(@)] /\ UNCHANGED rpc

\* A script called the filesystem's loadfile: what does not compile is nil,
\* and the script goes on without it.
LoadfileNil(r) ==
  /\ RunnerRuns(r, "run")
  /\ NextCall(r, "loadfile")
  /\ fsGlobals[r]
  /\ mounted
  /\ Continue(r)
  /\ Raised(r)
  /\ UNCHANGED <<halted, ran, svars>>

List(r) ==
  /\ RunnerRuns(r, "run")
  /\ NextCall(r, "list")
  /\ mounted
  /\ Continue(r)
  /\ UNCHANGED <<halted, raised, ran, svars>>

Require(r) ==
  /\ RunnerRuns(r, "run")
  /\ NextCall(r, "require") \/ NextCall(r, "try")
  /\ LET n == Head(todo[r]).arg IN RequireCached(r, n) \/ RequireLoads(r, n)
  /\ Continue(r)
  /\ UNCHANGED <<halted, raised, ran>>

\* A call raises, and the script has no pcall around it.
CallRaises(r) ==
  /\ RunnerRuns(r, "run")
  /\ todo[r] # <<>>
  /\ IF NextCall(r, "require")
     THEN RequireRaises(r, Head(todo[r]).arg)
     ELSE ~NextCall(r, "try") /\ UNCHANGED svars
  /\ Unwind(r)
  /\ Raised(r)
  /\ UNCHANGED <<halted, ran>>

\* pcall(require, name) failed.
TryFails(r) ==
  /\ RunnerRuns(r, "run")
  /\ NextCall(r, "try")
  /\ RequireRaises(r, Head(todo[r]).arg)
  /\ Continue(r)
  /\ UNCHANGED <<halted, raised, ran>>

ScriptEnds(r) ==
  /\ RunnerRuns(r, "run")
  /\ todo[r] = <<>>
  /\ Goto(r, "close")
  /\ UNCHANGED <<todo, halted, raised, ran, svars>>

Close(r) ==
  /\ RunnerRuns(r, "close")
  /\ Goto(r, "ended")
  /\ CloseState(r)
  /\ ran' = [ran EXCEPT ![r] = IF r = Thread THEN @ ELSE {}]
  /\ UNCHANGED <<todo, halted, raised>>

\* A step of `lua_fs write` or `lua_fs delete` that changes the disk, of which
\* LuaFs has the commands: in any order, and the power may fail between them.
ShellEdits(s, f, content) ==
  /\ rpc[s] = "ended"
  /\ mounted
  /\ Runs(s)
  /\ disk' = [disk EXCEPT ![f] = content]
  /\ edits' = edits \cup {f}
  /\ UNCHANGED <<firmware, formatted, boots, mvars, rvars, halted,
                 fault, slept, raised, ran, svars>>

\* The open creates a missing file; a close stores what was typed, maybe nothing.
CmdWrite(s, f) == \E content \in {Empty, Saved} : ShellEdits(s, f, content)

\* lua_fs delete, and Ctrl+D in `lua_fs write`.
CmdUnlink(s, f) == disk[f] # NoFile /\ ShellEdits(s, f, NoFile)

Edit(s) == \E f \in Typed : CmdWrite(s, f) \/ CmdUnlink(s, f)

-----------------------------------------------------------------------------
MainStep == Mount \/ Erase \/ Format \/ Remount \/ Create \/ Write

RunnerStep(r) ==
  \/ NewState(r) \/ NewStateFails(r) \/ OpenLibs(r)
  \/ LoadScript(r, "load") \/ LoadScript(r, "run") \/ LoadFails(r)
  \/ LoadfileNil(r) \/ List(r) \/ Require(r) \/ CallRaises(r) \/ TryFails(r)
  \/ ScriptEnds(r) \/ Close(r)

ThreadStep == Setup \/ LoadEmbedded \/ RunnerStep(Thread)

Next ==
  \/ PowerCut
  \/ MainStep
  \/ ThreadStep
  \/ \E s \in Shells : RunnerStep(s) \/ Edit(s) \/ \E f \in Typed : CmdRun(s, f)
  \/ \E a \in Threads : Wait(a)

Spec == Init /\ [][Next]_vars

\* The scheduler runs main and, when main gives way, the Lua thread; the flash
\* answers.  The power need not fail and nobody need type a command.
FairSpec == Spec /\ WF_vars(MainStep) /\ WF_vars(ThreadStep)

-----------------------------------------------------------------------------
(* Correctness.                                                            *)

Contents == Versions \cup {NoFile, Empty, Saved}

\* Every variable holds a value of its kind.
TypeOK ==
  /\ firmware \in Versions
  /\ formatted \in BOOLEAN
  /\ disk \in [Files -> Contents]
  /\ boots \in Nat
  /\ mounted \in BOOLEAN
  /\ mpc \in {"mount", "erase", "format", "remount", "create", "write",
              "sleep", "exit"}
  /\ next \in 1..(Len(Bundle) + 1)
  /\ mpc \in {"create", "write"} => next \in DOMAIN Bundle
  /\ rpc \in [Runners -> {"ended", "newstate", "openlibs", "setup", "load",
                          "run", "close"}]
  /\ todo \in [Runners -> Seq(Calls)]
  /\ waiting \in [Threads -> BOOLEAN]
  /\ halted \in BOOLEAN
  /\ fault \in BOOLEAN
  /\ slept \in BOOLEAN
  /\ raised \in BOOLEAN
  /\ ran \in [Runners -> SUBSET (Files \X Contents)]
  /\ edits \in SUBSET Typed
  /\ StateTypeOK

\* In a boot in which main's calls did not fail and never waited, every script
\* that was loaded is the one this firmware carries, whatever earlier versions,
\* power cuts and users left on the disk, unless a shell has changed it in this
\* boot: the Lua thread's delay of 0 does not let it in before main sleeps.
RunsThisFirmware ==
  ~fault /\ ~slept =>
    \A r \in Runners : \A x \in ran[r] :
      x[1] \in Bundled => x[2] = firmware \/ x[1] \in edits

\* And if nothing the Lua thread called failed either, it has run all those that
\* its script, the first one, calls, unless a shell has changed one of the two.
RunsEveryScript ==
  ~fault /\ ~slept /\ ~raised /\ ~halted /\ rpc[Thread] = "ended" =>
    \A k \in 2..Len(Bundle) :
      \/ <<Bundle[k], firmware>> \in ran[Thread]
      \/ {Bundle[1], Bundle[k]} \cap edits # {}

\* No step, the power cut in the middle of a write or of mkfs included, loses
\* the last whole version of a file, unless fs_mount failed on a formatted
\* flash in this boot, or a user types the file over, cancels that or deletes it.
KeepsFiles ==
  [][\A f \in Files :
       disk[f] \notin {NoFile, Empty} =>
         \/ disk'[f] \notin {NoFile, Empty}
         \/ mpc = "erase" /\ fault
         \/ \E s \in Shells : CmdWrite(s, f) \/ CmdUnlink(s, f)]_vars

\* dofile and loadfile, wherever a script calls them, are the filesystem's.
DofileIsTheFilesystems ==
  \A r \in Runners :
    rpc[r] = "run" /\ (NextCall(r, "dofile") \/ NextCall(r, "loadfile")) =>
      fsGlobals[r]

\* RunsEveryScript and DofileIsTheFilesystems are promises about scripts written
\* as those of the sample are: a dofile or loadfile comes after require("zephyr")
\* (hello_fs.lua:1-8), and the first script runs the others, by dofile or by
\* loadfile and a call of what it returned (hello_fs.lua:8, 13-15).
ZephyrFirst(calls) ==
  \A k \in DOMAIN calls :
    calls[k].call \in {"dofile", "loadfile"} =>
      \E j \in 1..(k - 1) : calls[j] = Call("require", "zephyr")

RequiresZephyrFirst ==
  ZephyrFirst(SavedProgram) /\ \A f \in Files : ZephyrFirst(Program[f])

Loads(f) == {Call("dofile", f), Call("loadfile", f)}

FirstRunsTheOthers ==
  \A k \in 2..Len(Bundle) :
    \E j \in DOMAIN Program[Bundle[1]] : Program[Bundle[1]][j] \in Loads(Bundle[k])

\* The Lua thread of the last boot ends, or halts the system.
ThreadEnds == []<>(halted \/ rpc[Thread] = "ended")
=============================================================================
