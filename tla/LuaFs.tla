-------------------------------- MODULE LuaFs --------------------------------
(***************************************************************************)
(* Scripts on the filesystem: loading them (src/luaz_fs.c: fs.dofile and   *)
(* fs.loadfile called by Lua, lua_fs_dofile called by a thread template or *)
(* by `lua_fs run`) while the shell (src/luaz_fs_shell.c: write, delete)   *)
(* or lua_fs_write_file changes them.                                      *)
(*                                                                         *)
(* The filesystem is LittleFS, as in samples/littlefs, and external: a     *)
(* handle opened for writing keeps its changes to itself until it is       *)
(* closed, when it commits them or fails to, a handle opened for reading   *)
(* keeps what the file held when it was opened, creating a missing file is *)
(* visible at once, and a handle whose file was deleted commits nothing.   *)
(* A script is a sequence of lines and its size their number.  Calls to    *)
(* the filesystem that no other thread can tell apart share a step.        *)
(***************************************************************************)
EXTENDS Integers, Sequences, FiniteSets

CONSTANTS
  Loaders,   \* threads that load scripts
  Writers,   \* threads that write them
  Paths,     \* files
  Lines,     \* what a line can be
  NoFile,    \* no path, and the content of a missing file
  MaxFile,   \* CONFIG_LUA_FS_MAX_FILE_SIZE
  MaxLines,  \* bound: lines entered in one `lua_fs write`
  MaxLost    \* bound: directory handles lost

ASSUME SizeAssumption == MaxFile \in Nat /\ MaxLines \in Nat /\ MaxLost \in Nat
ASSUME FiniteAssumption == IsFiniteSet(Loaders) /\ IsFiniteSet(Writers)

VARIABLES
  disk,      \* disk[p]: the content of p, or NoFile
  handles,   \* open file handles
  dirs,      \* open directory handles
  lost,      \* history: those a Lua error left open
  \* a loader
  lpc, op, path, size, file, buf, raw, out,
  since,     \* history: every content l's file has had since l's fs_stat
  \* a writer
  wpc, target, draft, entered, said,
  gone,       \* writers whose file was deleted since they opened it
  closeFailed \* history: those whose last fs_close failed, which none looks at

lvars == <<lpc, op, path, size, file, buf, raw, out>>
wvars == <<wpc, target, draft, entered, said, gone, closeFailed>>
dvars == <<dirs, lost>>
vars  == <<disk, since, handles, dvars, lvars, wvars>>

Scripts == Seq(Lines)

\* dofile and loadfile are Lua functions; "run" stands for the C callers of
\* lua_fs_dofile, which print the error.
Ops == {"dofile", "loadfile", "list", "run"}

Nothing == [op |-> "none", kind |-> "none", results |-> 0, values |-> 0]

Init ==
  /\ disk = [p \in Paths |-> NoFile]
  /\ since = [l \in Loaders |-> {}]
  /\ handles = 0
  /\ dirs = 0
  /\ lost = 0
  /\ lpc = [l \in Loaders |-> "idle"]
  /\ op = [l \in Loaders |-> "none"]
  /\ path = [l \in Loaders |-> NoFile]
  /\ size = [l \in Loaders |-> 0]
  /\ file = [l \in Loaders |-> NoFile]
  /\ buf = [l \in Loaders |-> <<>>]
  /\ raw = [l \in Loaders |-> 0]
  /\ out = [l \in Loaders |-> Nothing]
  /\ wpc = [w \in Writers |-> "idle"]
  /\ target = [w \in Writers |-> NoFile]
  /\ draft = [w \in Writers |-> <<>>]
  /\ entered = [w \in Writers |-> <<>>]
  /\ said = [w \in Writers |-> "nothing"]
  /\ gone = {}
  /\ closeFailed = {}

\* p's content becomes s, for every handle opened from now on.
Commit(p, s) ==
  /\ disk' = [disk EXCEPT ![p] = s]
  /\ since' = [l \in Loaders |-> IF path[l] = p THEN since[l] \cup {s} ELSE since[l]]

-----------------------------------------------------------------------------
(* Loading: read_file_into_buf, then luaL_loadbuffer, then lua_pcall.      *)

Outcome(o, kind, n, k) == [op |-> o, kind |-> kind, results |-> n, values |-> k]

\* A negative errno: dofile and loadfile raise it, C callers print it.
Errno(o) == Outcome(o, IF o = "run" THEN "printed" ELSE "raised", 0, 0)

\* A Lua error code: only loadfile turns it into nil and a message.
LuaError(o) ==
  Outcome(o, CASE o = "run" -> "printed"
               [] o = "dofile" -> "raised"
               [] o = "loadfile" -> "nil", 0, 0)

\* What a call returns to l's script, or prints; l is idle again.
Done(l, o) ==
  /\ lpc' = [lpc EXCEPT ![l] = "idle"]
  /\ out' = [out EXCEPT ![l] = o]
  /\ op' = [op EXCEPT ![l] = "none"]
  /\ path' = [path EXCEPT ![l] = NoFile]
  /\ size' = [size EXCEPT ![l] = 0]
  /\ buf' = [buf EXCEPT ![l] = <<>>]
  /\ since' = [since EXCEPT ![l] = {}]

\* Mutant: the buffer is kept when the file cannot be opened or read.
KeepBuf(l) == UNCHANGED raw

FreeBuf(l) == raw' = [raw EXCEPT ![l] = @ - 1]

\* The path is too long, fs_stat fails, the file is too large or the heap is
\* full: read_file_into_buf returns before it has anything to release.
LoadRefused(l, o) ==
  /\ lpc[l] = "idle"
  /\ Done(l, Errno(o))
  /\ UNCHANGED <<disk, handles, file, raw, dvars, wvars>>

\* Mutant: the size is not compared with the limit.
StatAnySize(l, o, p) ==
  /\ lpc[l] = "idle"
  /\ disk[p] # NoFile
  /\ lpc' = [lpc EXCEPT ![l] = "open"]
  /\ op' = [op EXCEPT ![l] = o]
  /\ path' = [path EXCEPT ![l] = p]
  /\ size' = [size EXCEPT ![l] = Len(disk[p])]
  /\ raw' = [raw EXCEPT ![l] = @ + 1]
  /\ out' = [out EXCEPT ![l] = Nothing]
  /\ since' = [since EXCEPT ![l] = {disk[p]}]
  /\ UNCHANGED <<disk, handles, file, buf, dvars, wvars>>

\* fs_stat gives the size; a buffer of that size (and a terminator) is
\* allocated from the caller's heap.
StatAndAlloc(l, o, p) ==
  /\ lpc[l] = "idle"
  /\ disk[p] # NoFile
  /\ Len(disk[p]) <= MaxFile
  /\ lpc' = [lpc EXCEPT ![l] = "open"]
  /\ op' = [op EXCEPT ![l] = o]
  /\ path' = [path EXCEPT ![l] = p]
  /\ size' = [size EXCEPT ![l] = Len(disk[p])]
  /\ raw' = [raw EXCEPT ![l] = @ + 1]
  /\ out' = [out EXCEPT ![l] = Nothing]
  /\ since' = [since EXCEPT ![l] = {disk[p]}]
  /\ UNCHANGED <<disk, handles, file, buf, dvars, wvars>>

Open(l) ==
  /\ lpc[l] = "open"
  /\ disk[path[l]] # NoFile
  /\ file' = [file EXCEPT ![l] = disk[path[l]]]
  /\ handles' = handles + 1
  /\ lpc' = [lpc EXCEPT ![l] = "read"]
  /\ UNCHANGED <<disk, since, op, path, size, buf, raw, out, dvars, wvars>>

\* The file was deleted since fs_stat, or fs_open failed.
OpenFails(l) ==
  /\ lpc[l] = "open"
  /\ FreeBuf(l)
  /\ Done(l, Errno(op[l]))
  /\ UNCHANGED <<disk, handles, file, dvars, wvars>>

\* Mutant: the file is read to its end, whatever fs_stat said.
ReadWhole(n, s) == s

\* Mutant: what fs_read returned is not used; the buffer keeps what it held
\* behind the bytes read, shown here by NoFile.
ReadSizeBytes(n, s) == [k \in 1..n |-> IF k \in DOMAIN s THEN s[k] ELSE NoFile]

\* fs_read fills the buffer with at most n lines.
ReadUpTo(n, s) == SubSeq(s, 1, IF n < Len(s) THEN n ELSE Len(s))

Read(l) ==
  /\ lpc[l] = "read"
  /\ buf' = [buf EXCEPT ![l] = ReadUpTo(size[l], file[l])]
  /\ file' = [file EXCEPT ![l] = NoFile]
  /\ handles' = handles - 1
  /\ lpc' = [lpc EXCEPT ![l] = "load"]
  /\ UNCHANGED <<disk, since, op, path, size, raw, out, dvars, wvars>>

ReadFails(l) ==
  /\ lpc[l] = "read"
  /\ file' = [file EXCEPT ![l] = NoFile]
  /\ handles' = handles - 1
  /\ FreeBuf(l)
  /\ Done(l, Errno(op[l]))
  /\ UNCHANGED <<disk, dvars, wvars>>

\* The buffer is freed whether it compiled or not.
LoadBuffer(l) ==
  /\ lpc[l] = "load"
  /\ FreeBuf(l)
  /\ \/ Done(l, LuaError(op[l]))
     \/ op[l] = "loadfile" /\ Done(l, Outcome("loadfile", "function", 1, 1))
     \/ /\ op[l] # "loadfile"
        /\ lpc' = [lpc EXCEPT ![l] = "run"]
        /\ UNCHANGED <<op, path, size, buf, out, since>>
  /\ UNCHANGED <<disk, handles, file, dvars, wvars>>

\* l_fs_dofile returns lua_gettop(L) - top_before of the values on its stack,
\* which are its a arguments and the script's n results.
Returned(a, n) == (a + n) - (a - 1)

Run(l) ==
  /\ lpc[l] = "run"
  /\ \/ Done(l, LuaError(op[l]))
     \/ \E a \in 1..2, n \in 0..1 :
          Done(l, Outcome(op[l], "values", n,
                          IF op[l] = "dofile" THEN Returned(a, n) ELSE n))
  /\ UNCHANGED <<disk, handles, file, raw, dvars, wvars>>

-----------------------------------------------------------------------------
(* fs.list, and the two shell commands that only look.                     *)

ListBegins(l) ==
  /\ lpc[l] = "idle"
  /\ lpc' = [lpc EXCEPT ![l] = "list"]
  /\ op' = [op EXCEPT ![l] = "list"]
  /\ out' = [out EXCEPT ![l] = Nothing]
  /\ dirs' = dirs + 1
  /\ UNCHANGED <<disk, since, handles, lost, path, size, file, buf, raw, wvars>>

ListEnds(l) ==
  /\ lpc[l] = "list"
  /\ Done(l, Outcome("list", "table", 1, 1))
  /\ dirs' = dirs - 1
  /\ UNCHANGED <<disk, handles, lost, file, raw, wvars>>

\* Memory ends while the table is filled: the error leaves l_fs_list between
\* fs_opendir and fs_closedir.
ListRaises(l) ==
  /\ lpc[l] = "list"
  /\ lost < MaxLost
  /\ lost' = lost + 1
  /\ Done(l, Errno("list"))
  /\ UNCHANGED <<disk, handles, dirs, file, raw, wvars>>

\* lua_fs list, lua_fs cat <name>
CmdLook(w, what) ==
  /\ wpc[w] = "idle"
  /\ \/ what = "list" /\ dirs' = dirs + 1 /\ UNCHANGED handles
     \/ /\ what = "cat"
        /\ \E p \in Paths : disk[p] # NoFile
        /\ handles' = handles + 1
        /\ UNCHANGED dirs
  /\ wpc' = [wpc EXCEPT ![w] = what]
  /\ said' = [said EXCEPT ![w] = "nothing"]
  /\ closeFailed' = closeFailed \ {w}
  /\ UNCHANGED <<disk, since, lost, lvars, target, draft, entered, gone>>

LookEnds(w) ==
  /\ \/ wpc[w] = "list" /\ dirs' = dirs - 1 /\ UNCHANGED handles
     \/ wpc[w] = "cat" /\ handles' = handles - 1 /\ UNCHANGED dirs
  /\ wpc' = [wpc EXCEPT ![w] = "idle"]
  /\ UNCHANGED <<disk, since, lost, lvars, target, draft, entered, said, gone, closeFailed>>

-----------------------------------------------------------------------------
(* Writing.                                                                *)

\* fs_open creates a missing file; truncation stays with the handle.
OpenToWrite(w, p, label, lines) ==
  /\ wpc[w] = "idle"
  /\ IF disk[p] = NoFile THEN Commit(p, <<>>) ELSE UNCHANGED <<disk, since>>
  /\ target' = [target EXCEPT ![w] = p]
  /\ entered' = [entered EXCEPT ![w] = lines]
  /\ said' = [said EXCEPT ![w] = "nothing"]
  /\ handles' = handles + 1
  /\ gone' = gone \ {w}
  /\ closeFailed' = closeFailed \ {w}
  /\ wpc' = [wpc EXCEPT ![w] = label]
  /\ UNCHANGED <<lvars, dvars, draft>>

\* The path is too long, or fs_open, fs_truncate or fs_unlink fails; what was
\* opened is closed again, and may have been created.
WriteRefused(w) ==
  /\ wpc[w] = "idle"
  /\ \/ UNCHANGED <<disk, since>>
     \/ \E p \in Paths : disk[p] = NoFile /\ Commit(p, <<>>)
  /\ said' = [said EXCEPT ![w] = "error"]
  /\ closeFailed' = closeFailed \ {w}
  /\ UNCHANGED <<handles, dvars, lvars, wpc, target, draft, entered, gone>>

\* fs_close, whose result nobody looks at, releases the handle.  What was
\* written to it is the file now, unless the file was deleted in the meantime
\* or a write failed (LittleFS then commits nothing), or fs_close itself fails.
Close(w, s, label, word) ==
  /\ \/ w \notin gone /\ Commit(target[w], s) /\ closeFailed' = closeFailed \ {w}
     \/ /\ w \in gone \/ s # entered[w]
        /\ closeFailed' = closeFailed \ {w}
        /\ UNCHANGED <<disk, since>>
     \/ closeFailed' = closeFailed \cup {w} /\ UNCHANGED <<disk, since>>
  /\ gone' = gone \ {w}
  /\ draft' = [draft EXCEPT ![w] = <<>>]
  /\ entered' = [entered EXCEPT ![w] = <<>>]
  /\ handles' = handles - 1
  /\ wpc' = [wpc EXCEPT ![w] = label]
  /\ said' = [said EXCEPT ![w] = word]

\* lua_fs write <name>
CmdWrite(w, p) == OpenToWrite(w, p, "lines", <<>>)

\* The results of the two fs_write calls are not looked at.
WriteLine(w, line) ==
  /\ wpc[w] = "lines"
  /\ Len(entered[w]) < MaxLines
  /\ entered' = [entered EXCEPT ![w] = Append(@, line)]
  /\ draft' \in {draft, [draft EXCEPT ![w] = Append(@, line)]}
  /\ UNCHANGED <<disk, since, handles, dvars, lvars, wpc, target, said, gone, closeFailed>>

\* A single dot.
WriteDot(w) ==
  /\ wpc[w] = "lines"
  /\ Close(w, draft[w], "idle", "written")
  /\ UNCHANGED <<dvars, lvars, target>>

\* Ctrl+D: the handle is closed, then the file is deleted.
WriteCancel(w) ==
  /\ wpc[w] = "lines"
  /\ Close(w, draft[w], "unlink", "nothing")
  /\ UNCHANGED <<dvars, lvars, target>>

\* The handles still open for writing p commit nothing from now on.
Unlink(p) ==
  /\ disk' = [disk EXCEPT ![p] = NoFile]
  /\ gone' = gone \cup {w \in Writers : wpc[w] \in {"lines", "whole"} /\ target[w] = p}

\* fs_unlink may fail.
WriteUnlink(w) ==
  /\ wpc[w] = "unlink"
  /\ Unlink(target[w]) \/ UNCHANGED <<disk, gone>>
  /\ wpc' = [wpc EXCEPT ![w] = "idle"]
  /\ said' = [said EXCEPT ![w] = "cancelled"]
  /\ UNCHANGED <<since, handles, dvars, lvars, target, draft, entered, closeFailed>>

\* lua_fs delete <name>, from any shell.
CmdDelete(p) ==
  /\ disk[p] # NoFile
  /\ Unlink(p)
  /\ UNCHANGED <<since, handles, lvars, dvars, wpc, target, draft, entered, said, closeFailed>>

\* lua_fs_write_file(path, data, len): fs_write takes all of the data, some
\* of it (-ENOSPC) or none (its error); the handle is closed in any case.
WriteFile(w, p, data) == OpenToWrite(w, p, "whole", data)

\* Mutant: only a negative result of fs_write is an error.
WriteWholeUnchecked(w) ==
  /\ wpc[w] = "whole"
  /\ \E n \in 0..Len(entered[w]) :
       Close(w, SubSeq(entered[w], 1, n), "idle", "returned 0")
  /\ UNCHANGED <<dvars, lvars, target>>

WriteWhole(w) ==
  /\ wpc[w] = "whole"
  /\ \E n \in 0..Len(entered[w]) :
       Close(w, SubSeq(entered[w], 1, n), "idle",
             IF n = Len(entered[w]) THEN "returned 0" ELSE "error")
  /\ UNCHANGED <<dvars, lvars, target>>

-----------------------------------------------------------------------------
LoaderStep(l) ==
  \/ Open(l) \/ OpenFails(l) \/ Read(l) \/ ReadFails(l) \/ LoadBuffer(l) \/ Run(l)
  \/ ListEnds(l) \/ ListRaises(l)

Next ==
  \/ \E l \in Loaders :
       \/ \E o \in Ops : LoadRefused(l, o)
       \/ \E o \in Ops \ {"list"}, p \in Paths : StatAndAlloc(l, o, p)
       \/ ListBegins(l)
       \/ LoaderStep(l)
  \/ \E w \in Writers :
       \/ \E p \in Paths : CmdWrite(w, p)
       \/ \E p \in Paths, line \in Lines :
            \E n \in 1..MaxLines : WriteFile(w, p, [k \in 1..n |-> line])
       \/ \E line \in Lines : WriteLine(w, line)
       \/ WriteRefused(w) \/ WriteDot(w) \/ WriteCancel(w) \/ WriteUnlink(w)
       \/ WriteWhole(w)
       \/ CmdLook(w, "list") \/ CmdLook(w, "cat") \/ LookEnds(w)
  \/ \E p \in Paths : CmdDelete(p)

Spec == Init /\ [][Next]_vars

-----------------------------------------------------------------------------
(* Correctness.                                                            *)

Kinds == {"none", "raised", "printed", "nil", "function", "values", "table"}

\* Every variable holds a value of its kind.
TypeOK ==
  /\ disk \in [Paths -> Scripts \cup {NoFile}]
  /\ since \in [Loaders -> SUBSET Scripts]
  /\ {handles, dirs, lost} \subseteq Nat
  /\ lpc \in [Loaders -> {"idle", "open", "read", "load", "run", "list"}]
  /\ op \in [Loaders -> Ops \cup {"none"}]
  /\ path \in [Loaders -> Paths \cup {NoFile}]
  /\ size \in [Loaders -> 0..MaxFile]
  /\ file \in [Loaders -> Scripts \cup {NoFile}]
  /\ buf \in [Loaders -> Scripts]
  /\ raw \in [Loaders -> Nat]
  /\ out \in [Loaders -> [op : Ops \cup {"none"}, kind : Kinds,
                           results : Nat, values : Nat]]
  /\ wpc \in [Writers -> {"idle", "lines", "whole", "unlink", "list", "cat"}]
  /\ target \in [Writers -> Paths \cup {NoFile}]
  /\ draft \in [Writers -> Scripts]
  /\ entered \in [Writers -> Scripts]
  /\ said \in [Writers -> {"nothing", "error", "written", "cancelled",
                            "returned 0"}]
  /\ gone \subseteq Writers
  /\ closeFailed \subseteq Writers

\* What fs_read puts in the buffer fits in what fs_stat sized it for, and in
\* the limit, although the file may have grown, shrunk or gone in between.
BufferHolds ==
  \A l \in Loaders : Len(buf[l]) <= size[l] /\ size[l] <= MaxFile

Prefix(s, t) == Len(s) <= Len(t) /\ \A k \in DOMAIN s : s[k] = t[k]

\* What is compiled is the start of one content the file had during the call,
\* the whole of it unless it is longer than the version fs_stat saw: never
\* parts of two, never bytes the file did not hold.
LoadsOneVersion ==
  \A l \in Loaders :
    lpc[l] = "load" =>
      \E v \in since[l] :
        /\ Prefix(buf[l], v)
        /\ Len(buf[l]) < size[l] => buf[l] = v

\* Whatever fails, the read buffer is freed once and every handle is closed,
\* but for the directory handles of the fs.list calls a Lua error ended.
NothingLeaks ==
  /\ \A l \in Loaders :
       raw[l] = IF lpc[l] \in {"open", "read", "load"} THEN 1 ELSE 0
  /\ handles = Cardinality({l \in Loaders : lpc[l] = "read"})
                 + Cardinality({w \in Writers : wpc[w] \in {"lines", "whole", "cat"}})
  /\ dirs = lost + Cardinality({l \in Loaders : lpc[l] = "list"})
                  + Cardinality({w \in Writers : wpc[w] = "list"})

\* When lua_fs_write_file returns 0 the file holds all of the data at that
\* moment, and nothing but it, however many of its calls failed or which other
\* thread deleted or wrote the file in between.  Two cases are excepted, and in
\* both the file keeps what it held, never a part of the data: it was deleted
\* since fs_open, or fs_close failed (src/luaz_fs.c:211 drops its result).
WriteFileTellsTheTruth ==
  [][\A w \in Writers :
       wpc[w] = "whole" /\ said'[w] = "returned 0" =>
         \/ disk'[target[w]] = entered[w]
         \/ disk' = disk /\ (w \in gone \/ w \in closeFailed')]_vars

\* fs.dofile returns the "values returned by the script"
\* (src/luaz_apis.lua:52), no more and no fewer.
DofileReturnsTheScriptsValues ==
  \A l \in Loaders : out[l].kind = "values" => out[l].values = out[l].results
=============================================================================
