# lua_zephyr in TLA+

Models, model checks and proofs of *lua_zephyr*, the Zephyr module that runs
Lua scripts as threads of a firmware and gives them zbus, a filesystem and a
shell. Paths below are relative to the repository.

## The system

A firmware holds any number of Lua threads, each generated from a template,
with a heap and a Lua state of its own: no Lua object is shared. What they do
share are zbus channels and message subscribers, the files, and a few static
buffers of the shell commands.

| part | code | state it keeps | operations | what makes it correct |
| --- | --- | --- | --- | --- |
| zbus binding | `src/luaz_zbus.c` | one raw buffer per call, `max_chan_msg_size` | `channel:pub`, `channel:read`, `observer:wait_msg`, boot | a script is told the truth about its call; it gets messages as published; buffers are freed; calls return |
| message descriptors | `src/luaz_msg_descr.c` and its two headers | none | struct to table, table to struct | what fits a field comes back; what Lua can hold of what was read is stored back; a long text is cut inside its array |
| zbus | Zephyr, external | semaphore and message per channel, queues, network buffer pool | `zbus_chan_pub`, `zbus_chan_read`, `zbus_sub_wait_msg` | assumed, see below |
| producer/consumer sample | `samples/producer_consumer` | loop index, running count | publish, wait for the answer | lock step, ordered answers, the loop ends |
| REPL | `src/luaz_repl.c` | static heap and input line | read, evaluate, print | evaluates what was typed; own heap |
| line reader | `src/luaz_fs_shell.c:142-180` | a line buffer | keys | is a line editor |
| filesystem library and commands | `src/luaz_fs.c`, `src/luaz_fs_shell.c` | files, file and directory handles, read buffers | `dofile`, `loadfile`, `list`, `write_file`; `write`, `delete`, `run`, `list`, `cat` | loads one version; leaks nothing; reports are true |
| runtime utilities | `src/luaz_utils.c` | `_LOADED` and `_PRELOAD` of each Lua state | `luaz_openlibs`, `require`, the library loaders | one table per module and state |
| thread templates | `templates` | one heap and Lua state per thread | create, open, set up, load, run, close | the thread ends; its script is this firmware's |
| littlefs sample | `samples/littlefs` | the flash | mount or format, install the scripts | an upgrade or a power cut loses no file and runs no old script |
| allocator, build tooling, other samples | `src/luaz_utils.c`, `scripts`, ... | see PROJECT.json | | not modelled: see below |

Hard behaviours: Lua threads preempt each other inside a binding call; a
publication can block on the channel's semaphore, on the buffer pool, and
between two observers; every wait has a timeout whose answer may come late; a
Lua error leaves a C function in the middle (`longjmp`); files change between
`fs_stat`, `fs_open` and `fs_read`; writes fail or are short; two shells run
the same command on the same static data; buffer positions are unsigned and
wrap; only priorities order the installation of the scripts before the thread
that runs them; the power fails between two of these steps and another
firmware version boots over the same flash. PROJECT.json lists each as a
hazard at its line.

## The modules

| module | models | composed with |
| --- | --- | --- |
| `Zbus` | channel semaphores, messages, observer queues and the pool, one action per blocking point | extended by `LuaZbus`, instantiated by `ProducerConsumer` |
| `ChannelApi` | abstract: what `pub`, `read` and `wait_msg` promise to scripts that call them at the same time | `LuaZbus` implements it |
| `LuaZbus` | the binding: one action per early return, conversion, blocking point and exit of the three calls, and the boot iteration | `MCLuaZbus` for TLC; `LuaZbusProofs`, extended by `LuaZbusDataProofs` |
| `AckLoop` | abstract: what the sample's console test waits for | `ProducerConsumer` implements it |
| `ProducerConsumer` | `producer.lua` and `consumer.c` | `ProducerConsumerProofs` |
| `LineEditor` | abstract: reading one line | `FsReadline` implements it |
| `FsReadline` | `lua_fs_shell_readline` | `FsReadlineProofs` |
| `Repl` | `shell_getline` and `lua_repl_cmd`, one or more shells | `ReplProofs` |
| `LuaFs` | loading and listing against writing, cancelling and deleting | `LuaFsProofs` |
| `LuaState` | what `luaz_openlibs` puts into a state: `require`, its caches, the library loaders | extended by `LuaThread` |
| `LuaThread` | boot, main of the littlefs sample, a generated thread, `lua_fs run`, `write` and `delete` in shells, power cuts and upgrades | `MCLuaThread` for TLC, `LuaThreadProofs` |
| `MsgField` | one field: its case of each switch, and the Lua API conversions it calls | extended by `MsgDescr` |
| `MsgDescr` | the two conversions over nested structs, a script that reads, edits and publishes, and C code that publishes | `MCMsgDescr` for TLC, `MsgDescrProofs` |

Definitions whose comment starts with *Mutant* are never part of a
specification: each is a plausible mistake in the definition it stands before,
and TLC finds the property it is listed with in PROJECT.json violated when it
takes that definition's place.

### Zbus and LuaZbus

`pc[t]` is where thread `t` is between two points at which another thread can
be seen: `pub_lock` and `read_lock` wait for `owner[chan]`, `pub_alloc` and
`pub_notify` for the pool, `wait_get` for `fifo[obs]`; `pub_ret`, `read_ret`
and `wait_ret` have zbus's answer in `err[t]` and still hold the raw buffer.
Code between two such points touches only the thread's own state and is part
of the step before or after it. A heap is full whenever its other contents
say so: `PubNoMemory` and its like are always possible, an allocation that
succeeds needs a free raw block. A conversion can raise (`PubRaise`,
`ReadRaise`, `WaitRaise`): the script's `pcall` goes on, the buffer is counted
in `lost[t]`. A message is its fields and the index of its publication; the
bytes nobody wrote are `Junk`. `MaxPubs` bounds the messages published,
nothing else is bounded.

External, and assumed from the calls: the semaphore is held from the copy to
the last observer; the three waits share a deadline; a timeout is possible
exactly while what is waited for is missing. A negative timeout is not passed
(`K_FOREVER` is not reachable from a millisecond count the scripts use).

`ChannelApi` is what is left of it for a script: a channel is the sequence of
messages stored in it, an observer an inbox. A publication stores its message
once and hands it to each observer after what that observer had; a read sees the
last message stored at one moment of the call; only `wait_msg` takes a message
from an inbox. There is no semaphore, buffer, heap or struct, and no order in
which observers are served. The mapping (`CallOf`, `InboxOf`) drops the program
counter: a call is open until zbus has answered, and has still to hand its
message to the observers from `next[t]` on. `TableOf` leaves open what a failed
read returns, which is the finding of `zbus_nil_on_error`.

### ProducerConsumer

`pp` and `cp` are the points of the Lua loop and of `consumer_thread`. The
producer breaks on any error of `wait_msg` but only prints an error of `pub`.
`AckTimeout` is enabled whenever the queue is empty: the answer may still come.
Reading `chan_version` and reading the configuration back change nothing and
are left out. `AckLoop` is the promise behind `sample.yaml`'s ordered regex
list: sample `k + 1` is sent when count `k` was received.

### FsReadline and Repl

A key is any character, typed or left in `c` by a `WAIT_FOR` that timed out.
Buffer positions are `size_t`, here modulo `SizeMax + 1`. `guard` is the byte
before `input_line` in the REPL's static struct. `inits` numbers the
initialisations of the static heap, `state[s]` the one shell `s`'s Lua state
was created in. The REPL ends only by Ctrl+D; `lua_close` after the loop is
not reachable.

### LuaFs

A file is a sequence of lines, its size their number. The filesystem is
LittleFS, external: a write handle keeps its changes to itself until it is
closed, a read handle keeps the contents it was opened on, and creation is
visible at once. A close has three outcomes (`Close`): what was written is
committed; nothing is, because the file was deleted under the handle (`gone`) or
a write had failed; or `fs_close` itself fails and the disk stays as it was
(`closeFailed`, a history: nobody looks at the result). `lpc` follows
`read_file_into_buf`, `luaL_loadbuffer` and `lua_pcall`, or `l_fs_list`; `wpc`
follows `cmd_write`, `lua_fs_write_file`, `cmd_list` and `cmd_cat`. A script
that loads another script is two calls of the same loader, one after the other.
`lost` counts the directory handles that a Lua error left open in `l_fs_list`,
between `fs_opendir` and `fs_closedir`.

`lua_fs_write_file` drops the result of `fs_close` (src/luaz_fs.c:211), which is
where LittleFS commits, so it can return 0, "success" (include/luaz_fs.h:50),
with none of the data on the disk. `WriteFileTellsTheTruth` compares the answer
with the disk and excepts that case and the deleted file, and nothing else:
without either exception TLC finds a counterexample. In both the file keeps what
it held, so a partial file is never reported as written.

### LuaState and LuaThread

`LuaState` is one Lua state per runner, a runner being a Lua thread or a shell
in `lua_fs run`: `loaded` is `registry._LOADED`, `made` numbers the tables that
library loaders made, so two calls of `require` gave the same module exactly
when they gave the same number. `RequireRaises` stops a loader at each place
where memory can end. `fsGlobals` says whose `dofile` and `loadfile` a script
calls: `luaopen_fs` replaces Lua's, and only `require("zephyr")` calls it.

`LuaThread` boots. `mpc` follows `mount_fs` and the loop of `lua_fs_write_file`
calls in `samples/littlefs/src/main.c`; `rpc[r]` follows a template, or
`cmd_run` for a shell, and `todo[r]` is the calls its scripts have still to
make: a script is a sequence of `require`, `pcall(require, ...)`, `dofile`,
`loadfile` and `fs.list` calls, and running a file puts its calls in front.
Whether the template's script is in the image or in a file is a choice of the
load step. A file holds `NoFile`, `Empty` (created, not yet closed), `Saved`
(what a user typed into a shell) or the version of the firmware that wrote it;
`Program` gives the calls of a file as a firmware has it, `SavedProgram` those of
a typed one. `Typed` are the files that shell commands name, bundled or not:
`lua_fs run` loads them, and each change that `lua_fs write` (a creation, a
close with or without lines, the unlink of Ctrl+D) and `lua_fs delete` make to the
disk is a step of its own (`Edit`), in any order: `LuaFs` has the commands.
`edits` records the files changed in this boot. A new device has the version
`Factory`; `PowerCut` resets everything but `firmware`, `formatted`, `disk` and
`boots`, and what boots next is one of `Later`.

Scheduling is that of the priorities in the code: main is 0, the templates'
threads 7, shells lower. `Turn(a)` lets `a` run only when each thread above it
has ended, sleeps or waits in the filesystem (`Wait`, possible at each
filesystem call). A failed assertion, an unprotected Lua error and the `NULL`
of `lua_newstate`, which the templates use untested, halt the system: whether
address 0 traps depends on the hardware, a build in which it does is modelled.

### MsgField and MsgDescr

`LuaZbus` takes a field's value as it is; these modules say what becomes of it.
An integer of `s` bytes is one of `Patterns[s]` bit patterns, so the same
definitions serve small numbers in TLC and `256^s` in the proofs. A double is
counted in quarters, of which a `float` holds the even ones.

`LuaSize` is the size of Lua's own integers and floats. The repository builds Lua
with `LUA_32BITS` (CMakeLists.txt:13, luaz.cmake:115 for `luac`), so it is 4 in
the run; without the flag it would be 8, and the theorems hold for both. What the
flag does is external: the Lua core is a submodule. Reading a C integer keeps
its low `LuaSize` bytes, as a signed number (`ToLua`), and reading a double rounds
it to Lua's float (`Round`). So with `LUA_32BITS` an unsigned 32-bit field above
the largest signed one reads as a negative number, which stored back gives the
field its value again; but a 64-bit field or a double whose value is wider than
Lua's is changed by reading and republishing it, and no error says so
(src/luaz_msg_descr.c:50, 70, 82). `WhatWasReadSurvives` states both directions.
The conversion of a Lua integer to a float is taken as exact.

A text is a sequence of letters, `NUL` and, as one character, the text of a
number, which is what `lua_tonumber` of a numeral and `lua_tostring` of a number
need. `beyond` is memory after an array whose text does not end in it. Structs
nest; a member is its path, the names from the outside in, which is what the
recursion of the two conversions walks. A descriptor maps paths to fields, a
message the paths of leaves to C values, a table the paths at which it has a
value to that value: an object is `Table`, and what is inside it has longer
paths. So what holds of a struct of any depth is a statement about each path. An
edit at a path takes everything inside it away and makes a table of each object
above it. `Publish` converts into a buffer nobody initialised (any struct at
all); a string or nil where an object is expected follows `lua_getfield`, any
other value raises. The size of a character array is that of the descriptor's
`uint8_t`, 1 to 255. A field that is a string pointer (`LUA_MSG_TYPE_STRING`) is
not modelled. No C integer has another size than 1, 2, 4 or 8 bytes: the
switches' missing default is not modelled.

## The runs

| run | instance | checks | shows |
| --- | --- | --- | --- |
| `zbus_data` | 2 threads, 3 channels (two observers, one shared observer, none and no descriptor), pool of 3, 2 publications | `TypeOK`, `RawBalance`, `WaitBufferFits`, `ReturnedAsPublished`, `PubErrTellsTheTruth`, `DeliveredInOrder` | what scripts are told and given is true in every interleaving; one free per call |
| `zbus_calls` | 2 threads, 2 channels (two observers, none and no descriptor), pool of 3, one value, 2 publications | `CallReturns`, `ImplementsChannelApi` | every interleaving of the calls is one of single steps on logs and inboxes; no circle of waiting threads |
| `sample` | the sample, 10 samples, pool of 4 | `TypeOK`, `PoolSuffices`, `ImplementsAckLoop`, `ProducerStops` | three buffers are enough; the promise is kept when answers are lost or late |
| `readline` | a letter and a zero byte, both erasers and newlines, buffer of 6 | `TypeOK`, `OnlyTheLine`, `ImplementsLineEditor` | buffer boundary and erasing; nothing erased stays behind the line |
| `repl` | 1 shell, line of 5, 3-bit `size_t`, 2 sessions | `TypeOK`, `EvaluatesWhatWasTyped` | the evaluated line is the typed one |
| `fs` | 1 loader, 1 writer, deletion at any time, files of 0 to 2 lines of 2 kinds, limit 1, one directory handle lost | `TypeOK`, `BufferHolds`, `LoadsOneVersion`, `NothingLeaks`, `WriteFileTellsTheTruth` | loading survives a changing file; every error path releases what it took; 0 for data that is not in the file needs a deletion or a failed `fs_close` |
| `boot` | 1 Lua thread, 1 shell, the sample's 3 bundled scripts, one of which the shell writes over, deletes and runs, an upgrade at the second boot | `TypeOK`, `RunsThisFirmware`, `RunsEveryScript`, `KeepsFiles`, `DofileIsTheFilesystems`, `RequireGivesOneModule`, `ThreadEnds` | the order of installing and running scripts over failures, power cuts and upgrades; one module table per state |
| `descriptors` | 11 structs of one or two fields, one with a nested object; integers of 1 to 4 bits for 1 to 8 bytes, Lua's own of 4 bytes, 6 integers, 3 floats, 4 texts, an array of 3 | `TypeOK`, `WhatFitsComesBack`, `WhatWasReadSurvives`, `LongTextsAreCut` | the two conversions agree on width, sign, layout and nesting; reading and republishing keeps exactly what Lua's numbers can hold |

Runs that end in a violation, each a disagreement of the code with a sentence
of the repository (PROJECT.json quotes them):

| run | property | what happens |
| --- | --- | --- |
| `zbus_nil_on_error` | `NilOnError` | `channel:read` returns a table of unwritten memory after a timeout |
| `repl_end_of_line` | `ReturnsOnlyAtEndOfLine` | a backspace on an empty line writes before the buffer and ends the line |
| `repl_two_shells` | `RunsInItsOwnHeap` | a second shell initialises the first one's heap |
| `fs_dofile` | `DofileReturnsTheScriptsValues` | `fs.dofile` returns its path in front of the values |

### Why the bounds are enough

Two threads give every pairwise interleaving, and a third adds no new kind of
contention: each semaphore has one holder, the pool is exhausted by two. The two
observers of one channel give the partial delivery between them, the observer
shared by two channels gives the mixed queue, the channel without a descriptor
the `-EINVAL` path, and a larger second channel the wait buffer that must fit
another channel's message. A pool of 3 runs out in the middle of the second
publication. Two publications suffice to be swapped, duplicated or mixed. In
`LuaFs`, contents of zero, one and two lines are shorter than, equal to and
longer than a size read earlier, and two kinds of line tell versions apart; one
file suffices because a call touches one path. In `MsgDescr` every integer width
is smaller than the next, one field is wider than Lua's integers and one as
wide, doubles and messages include what Lua cannot hold, and a script assigns
numbers at, inside and outside the limits of each, fractions, a numeral, and
texts shorter and longer than the array, one with a NUL inside. `LineSize = 5`
and `BufLen = 6` let every position be reached from both sides. In `LuaThread`
the second boot finds whatever the first one left at the power cut: no flash
format, a half written script, scripts of the other version beside missing ones,
a script the user typed or deleted. It is always an upgrade: no step compares
two versions, so a reboot of the same firmware is one of these behaviours with
its versions made equal, and an invariant that fails there fails here. A third
boot could also find scripts of two earlier versions side by side, of which
`BootRunsThisFirmware` and `BootKeepsFiles`, proved for any number of boots,
scripts and versions, take care. The three bundled scripts are the sample's, as
the calls they make: the first is run by the thread, runs the second by `dofile`
and the third by `loadfile`. `info.lua` also requires `string`, which is left
out: its table is made as zephyr's is. The shell edits `info.lua`, so a bundled
file is also a user's; the typed script requires a module again after an attempt
that failed. One shell suffices for what runs below the Lua thread: shells share
only files.

`CHECK_DEADLOCK FALSE` is set where the program may stop: the sample ends,
`Repl` bounds the number of sessions, and a system that has halted in its last
boot stays so.

### Fairness

`LuaZbus.FairSpec`: weak fairness of each thread's `Step`. The scheduler runs a
ready thread, and every wait of a started call has a finite timeout, so some
step of it stays enabled. Starting a call (`Call`) is not fair: scripts owe
nobody a call. `ProducerConsumer.FairSpec`: the consumer preempts and waits
only for messages, the producer sleeps and waits with finite timeouts.
`LuaThread.FairSpec`: weak fairness of `MainStep` and of `ThreadStep`. Nothing
is above main, only main is above the Lua thread, and the flash answers.
Shells, below both, get no fairness, and the power need not fail.

## The proofs

`LuaZbusProofs` proves, for any threads, channels, observers, fields, sizes and
bounds that satisfy the assumptions named in `Zbus` and `LuaZbus`:

- `TypeCorrect`: `Spec => []TypeOK`.
- `RawBuffersBalance`: `Spec => []RawBalance`, a heap holds one raw buffer for
  the call in progress and one for each call a Lua error cut short.
- `WaitBufferAlwaysFits`: `Spec => []WaitBufferFits`.

`TypeOK` is not inductive as it stands: that `raw[t]` stays a natural number
when a call frees its buffer needs `RawBalance`, and that a message comes from a
channel needs what the program counter says of `chan[t]`, `obs[t]` and `arg[t]`
(`PcShape`). Their conjunction `TypeInv` is inductive, one lemma for the
initial state, one step per action. `WaitBufferFits` follows from `Sized`: once
no channel is left to visit, `maxSize` bounds every message size, and no call
starts before that.

`LuaZbusDataProofs` adds `ReturnedDataIsPublished`: `Spec =>
[]ReturnedAsPublished`. The argument follows the message: `DataInv` says of
every copy, in a channel (`MemoryData`), in a queue (`QueueData`), in a buffer
and in a result (`ThreadData`), that it carries the fields of the publication
its index names. Publications are only added (`PubsGrow`), so a copy stays right
whatever the other threads do. The semaphore plays no part: what it protects in
this model is the order, not the contents, because zbus copies a message in one
step.

Its second part adds `PubErrIsTrue` and `DeliveryIsOrdered`. Neither
property is inductive. `OrderInv` adds that a channel holds its last message
(`MemoryIsLast`); that what an observer has taken, has been given and what was
published are ordered (`Bounds`); and, for the thread that holds a channel's
semaphore (`ThreadOrder`), that its message is the channel's last one, that
every observer before `next[t]` has it and none from `next[t]` on has
(`Served`). So a clone is always newer than what the queue holds, and at the
end of the list all have it (`Told`), which later steps keep because
publications and deliveries only grow (`HistoryGrows`). The proof uses that an
observation list names an observer once (`ObserversAssumption`).

Its third part is the refinement, `BindingImplementsChannelApi`: `Spec =>
ImplementsChannelApi`. Each action is one effect of a call in `ChannelApi` or
changes nothing that it sees (waiting for a semaphore, freeing a buffer, going
to the next observer). It rests on the invariants of the first two parts: that a
clone is newer than what its observer was handed is `Served` and `Bounds`, that
the answer 0 comes with nobody left is `Told`, that a read sees the end of the
log is `MemoryIsLast`, that the table shows the published fields is `DataInv`.
`LocalsInv` adds what an idle thread's local variables are.

`MsgDescrProofs` proves the four properties of the run `descriptors` for any
descriptors, nested to any depth, any numbers and texts, both sizes of Lua's
numbers, and any even `Patterns` of which each is a multiple of twice the next
smaller one, as powers of 256 are:

- `MessagesKeepTheirTypes`: every field of the message holds a value of its C
  type, whatever the script assigned to the key.
- `MessagesComeBack`: a Lua value the field's C type can represent is read back
  after it was published, whatever the buffer and the memory beyond it held.
- `UnchangedFieldsSurvive`: a field that was read and not changed has the same C
  value after publishing if and only if Lua can hold that value (`LuaHolds`):
  all fields but integers and doubles wider than Lua's own, and texts that no
  NUL ends.
- `TextsStayInTheirArrays`: a longer text is cut, and its copy ends.

`IInv`, the inductive invariant, adds to `TypeOK` what the script's table can
hold at a leaf (`Holds`): a value of Lua's own ranges and, where the field is an
array of characters, no number but one the script assigned. The lemmas about one
field rest on `SignedOfWrap` and `WrapOfSigned` (two's complement), on
`IntegerIsStoredBack` (cutting an integer to Lua's width keeps the bytes of every
field that is no wider: `Wider`, `ModOfMultiple`), on `RoundIsExact`, and on
`TerminatedString` (`strncpy` and the final NUL), which needs that a text with a
NUL has a first one: the naturals are well founded (`MinOfIndices`). That a table
stays a tree under edits is `AboveIsTransitive`, a fact about prefixes.

`FsReadlineProofs` proves of the line reader, for every buffer length and
alphabet, `ReadTypeCorrect`, `ReadOnlyTheLine` and `ReadImplementsLineEditor`,
the refinement that the run checks for a buffer of 6. `ReadInv` adds that while
the function reads there is room for one more character and the terminator
(`Room`). The mapping takes the line to be the buffer up to the write position;
the proof shows that each key's step is a step of `LineEditor` or changes
nothing it sees.

`ReplProofs` proves of the REPL, for every line size, width of `size_t`, alphabet
and number of sessions:

- `ReplTypeCorrect`, for any number of shells. `Room` says that a shell that
  reads has room for a character and the terminator; an erase on an empty line
  wraps the position, and that ends the line.
- `ReplEvaluatesTheLine` and `ReplOwnsItsHeap`, for a firmware with one shell
  (`OneShell`): two would share the line and the heap, which is the finding of
  `repl_two_shells`. `LineInv` says that the buffer spells the keys typed and
  holds zeros behind them.

`LuaFsProofs` proves all the properties of the run `fs` for any threads, files,
lines and limits: `FsTypeCorrect`, `FsBufferHolds`, `FsLoadsOneVersion`,
`FsNothingLeaks` and `FsWriteFileTellsTheTruth`. `FsInv` is inductive. Handles
and buffers are natural numbers only because they are counted: `Counted` says
that the open handles are as many as the threads at a place of their code that
holds one (a cardinality, which each step changes by one thread), directories
with those lost added. `Versions` follows a load: the open file and the buffer
are prefixes of a content the path had since `fs_stat`. That 0 tells the truth
needs of it only that a thread in `lua_fs_write_file` has its file; the rest is a
case for each outcome of `Close`, of which only two leave the disk as it was. It
assumes finitely many threads (`FiniteAssumption`).

`LuaThreadProofs` proves, for any scripts, programs, runners, versions and
number of boots:

- `BootTypeCorrect`, from `TypeInv`: what is about to be loaded is a file.
- `BootRunsThisFirmware`. `Progress` says that in a boot in which main neither
  failed nor waited the scripts before `next` are those of this firmware, but
  for those a shell edited, and nobody has loaded or edited one until main
  sleeps (`TurnAfterMain`, from the priorities); `History` says what `fault` and
  `slept` record.
- `OneModulePerName`, from `Cached`: `require` has answered nothing but what
  `loaded` holds.
- `BootKeepsFiles`, an action property, from `FlashInv`: files exist only on a
  formatted flash, and `fs_mkfs` erases a formatted one only after `fs_mount`
  failed on it. A shell's own edit is the other exception.
- `BootDofileIsTheFilesystems` and `BootRunsEveryScript`, which are promises
  about scripts written as the sample's are and therefore have a hypothesis
  about `Program`: `RequiresZephyrFirst`, a file calls `dofile` or `loadfile`
  only after `require("zephyr")`; `FirstRunsTheOthers`, the script the thread
  runs has a `dofile` or a `loadfile` of each other bundled script.
  `MCLuaThread` assumes both of the calls of the sample's three scripts, so TLC
  evaluates them. `GlobalsInv` says that a runner whose next calls include a
  `dofile` has replaced the globals or has the `require` still before it;
  `Owed`, that each script is run, or the call that loads it is still to come,
  or a shell has edited it or the first one.

`ProducerConsumerProofs` proves of the sample, for every number of samples and
every pool, `SampleTypeCorrect`, `SampleImplementsAckLoop` and
`ThreeBuffersSuffice`; `NamesAssumption` says that its threads, channels and
subscribers are different ones. `LockStep` is the invariant: everything sent was
counted and acknowledged, but for one sample that is at one place of the circle
(a publication, a queue, the consumer's count, its publication, the answer's
queue) or lost, and then the producer waits or has given up, which is why a late
answer finds nobody. `Buses` says where each thread publishes, `Loop` that the
k-th answer was k. The sum in `BuffersInUse` is a fold, which `BuffersCounted`
evaluates for two queues by giving the function it chooses.

Only model-checked are the liveness properties (`CallReturns`, `ProducerStops`,
`ThreadEnds`), which are beyond this prover. Every other property of a passing
run is a theorem.

## Not modelled

- Channel and observer lookup, `__eq` and `__tostring`, `lua_fs stat`, and the
  printk, log and msleep wrappers change nothing.
- `LUA_MSG_TYPE_STRING` stores a pointer into the publishing script's Lua heap.
  What a later reader finds there depends on the collector and the allocator of
  that heap; every outcome would have to be allowed.
- The static heap of `lua_fs run`, which two shells would share: `LuaThread`
  gives each shell a state of its own. `Repl` shows the same shape of code
  (`RunsInItsOwnHeap`).
- The allocator is a switch over `sys_heap`, outside the repository. Its
  refusals are steps of every module (`PubNoMemory`, `RequireRaises`, ...).
- The bytecode template and the `hello_world*` and `heavy` samples: a thread
  that runs one script and prints. They differ from `LuaThread` in the loader
  they call, and nothing interacts.
- Build tooling runs alone, at build time; `luac.c` is Lua's own, vendored.
- Wording, logging and the layout of messages are left out everywhere.

## Plan

Done: `Zbus` and `LuaZbus` with theorems for all its safety properties that hold,
and its refinement of `ChannelApi`; the sample against `AckLoop` and the line
reader against `LineEditor`, checked and proved; `Repl`; `LuaFs`; `MsgField` and
`MsgDescr`; `LuaState` and `LuaThread`, each with a theorem for each of its
properties but liveness. What would come next:

1. The heap of `lua_fs run` shared by two shells, in `LuaThread`.
2. The sample over `ChannelApi` instead of `Zbus`, so that the two refinements
   compose: `AckLoop` from what the binding promises.
3. `write` and `delete` against an abstract file store, for what `cmd_write`
   reports.
