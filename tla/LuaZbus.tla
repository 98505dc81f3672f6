------------------------------ MODULE LuaZbus ------------------------------
(***************************************************************************)
(* The Lua binding of zbus (src/luaz_zbus.c): channel:pub, channel:read    *)
(* and observer:wait_msg, called by concurrent Lua threads that each have  *)
(* a heap of their own, and the boot step that sizes the wait buffer.      *)
(*                                                                         *)
(* A binding allocates a raw buffer from the caller's Lua heap, converts   *)
(* or fills it, calls zbus, pushes the results and frees the buffer.  A    *)
(* Lua error raised by a conversion (no memory, a failing metamethod)      *)
(* unwinds past the free: `lost` counts those buffers.  Steps that touch   *)
(* nothing shared are merged with the shared step next to them.            *)
(***************************************************************************)
EXTENDS Zbus

CONSTANTS
  MsgSize,     \* size of a channel's message struct
  Described,   \* the channels that carry a message descriptor
  Fields,      \* the fields a descriptor lists
  Values,      \* what a field can hold
  Junk,        \* the bytes of memory nobody wrote
  Nil,         \* Lua's nil, and no channel
  InitBody,    \* the initial message of a channel
  HeapBlocks,  \* raw buffers a Lua heap has room for
  MaxPubs      \* bound: messages published on all channels

ASSUME SizeAssumption == MsgSize \in [Channels -> Nat]
ASSUME DescribedAssumption == Described \subseteq Channels
ASSUME DataAssumption ==
  /\ InitBody \in [Fields -> Values]
  /\ Junk \notin Values
  /\ Nil \notin Channels \cup Observers \cup [Fields -> Values \cup {Junk}]
ASSUME BoundAssumption == HeapBlocks \in Nat /\ MaxPubs \in Nat

VARIABLES
  todo,     \* channels the boot iteration has not visited
  maxSize,  \* max_chan_msg_size
  pc,       \* pc[t]: where t is inside a binding
  chan,     \* chan[t]: the channel of the call
  obs,      \* obs[t]: the observer of the call
  arg,      \* arg[t]: the table t publishes
  buf,      \* buf[t]: contents of t's raw buffer
  err,      \* err[t]: what zbus answered
  ret,      \* ret[t]: the results of t's last call
  raw,      \* raw[t]: raw buffers allocated from t's heap
  lost,     \* history: raw buffers t can no longer free
  pubs,     \* history: pubs[c], the tables published on c
  put,      \* history: put[o][c], index of the last message of c queued for o
  got       \* history: got[o][c], index of the last message of c taken from o

lvars == <<pc, chan, obs, arg, buf, err, ret, raw, lost>>
hvars == <<pubs, put, got>>
vars  == <<zvars, todo, maxSize, lvars, hvars>>

-----------------------------------------------------------------------------
(* Data: a struct is a function on Fields; a Lua table may lack some.      *)

Tables == UNION {[S -> Values] : S \in SUBSET Fields}
Bodies == [Fields -> Values \cup {Junk}]

\* A message carries the index of its publication, so that two messages with
\* equal contents are still told apart.
Messages == [n : Nat, body : Bodies]

\* What an observer's queue holds.
Entries == [chan : Channels, msg : Messages]

JunkMsg == [n |-> 0, body |-> [f \in Fields |-> Junk]]

\* lua_msg_descr_from_table: a key the table lacks leaves its bytes alone.
FromTable(tab, body) ==
  [f \in Fields |-> IF f \in DOMAIN tab THEN tab[f] ELSE body[f]]

\* msg_struct_to_lua_table: nil without a descriptor.
ToTable(c, body) == IF c \in Described THEN body ELSE Nil

Results == [op : {"none", "raised", "pub", "read", "wait"},
            err : {"OK", "EINVAL", "ENOMEM", "EAGAIN", "ENOMSG"},
            chan : Channels \cup {Nil},
            tab : Bodies \cup {Nil},
            n : Nat]

\* The results of a call that has no message to show.
NoMessage(op, e, c) == [op |-> op, err |-> e, chan |-> c, tab |-> Nil, n |-> 0]

NoResult == NoMessage("none", "OK", Nil)
Raised   == NoMessage("raised", "OK", Nil)

PCs == {"idle", "pub_lock", "pub_alloc", "pub_notify", "pub_ret",
        "read_lock", "read_copy", "read_ret", "wait_get", "wait_ret"}

Init ==
  /\ owner = [c \in Channels |-> NoOwner]
  /\ memory = [c \in Channels |-> [n |-> 0, body |-> InitBody]]
  /\ fifo = [o \in Observers |-> <<>>]
  /\ next = [t \in Threads |-> 0]
  /\ todo = Channels
  /\ maxSize = 0
  /\ pc = [t \in Threads |-> "idle"]
  /\ chan = [t \in Threads |-> Nil]
  /\ obs = [t \in Threads |-> Nil]
  /\ arg = [t \in Threads |-> Nil]
  /\ buf = [t \in Threads |-> JunkMsg]
  /\ err = [t \in Threads |-> "OK"]
  /\ ret = [t \in Threads |-> NoResult]
  /\ raw = [t \in Threads |-> 0]
  /\ lost = [t \in Threads |-> 0]
  /\ pubs = [c \in Channels |-> <<>>]
  /\ put = [o \in Observers |-> [c \in Channels |-> 0]]
  /\ got = [o \in Observers |-> [c \in Channels |-> 0]]

-----------------------------------------------------------------------------
(* Boot: lua_zbus_init visits every channel before any thread starts.      *)

\* Mutant: the maximum is overwritten by every channel visited.
LastVisited(a, b) == a

Larger(a, b) == IF a > b THEN a ELSE b

FindMaxMsgSize(c) ==
  /\ c \in todo
  /\ todo' = todo \ {c}
  /\ maxSize' = Larger(MsgSize[c], maxSize)
  /\ UNCHANGED <<zvars, lvars, hvars>>

Booted == todo = {}

-----------------------------------------------------------------------------
(* What every binding does.                                                *)

\* lua_alloc_raw: the heap also serves Lua's own objects, so it may be full
\* at any time; it certainly is when raw buffers fill it.
CanAlloc(t) == raw[t] < HeapBlocks

\* lua_free_raw, push the results and return to the script.
Return(t, r) ==
  /\ pc' = [pc EXCEPT ![t] = "idle"]
  /\ ret' = [ret EXCEPT ![t] = r]
  /\ chan' = [chan EXCEPT ![t] = Nil]
  /\ obs' = [obs EXCEPT ![t] = Nil]
  /\ arg' = [arg EXCEPT ![t] = Nil]
  /\ buf' = [buf EXCEPT ![t] = JunkMsg]
  /\ err' = [err EXCEPT ![t] = "OK"]

\* Mutant: the buffer is freed a second time.
FreeTwice(t) == raw' = [raw EXCEPT ![t] = @ - 2] /\ UNCHANGED lost

\* Mutant: the error paths return before the free.
FreeOnSuccess(t) ==
  raw' = [raw EXCEPT ![t] = IF err[t] = "OK" THEN @ - 1 ELSE @] /\ UNCHANGED lost

Free(t) == raw' = [raw EXCEPT ![t] = @ - 1] /\ UNCHANGED lost

\* A Lua error unwinds out of the binding; its raw buffer stays allocated.
Raise(t) ==
  /\ Return(t, Raised)
  /\ lost' = [lost EXCEPT ![t] = @ + 1]

\* Wrong arguments, or a call whose lua_alloc_raw returned NULL: the binding
\* returns at once and nothing shared has changed.
Refuse(t, r) ==
  /\ Return(t, r)
  /\ UNCHANGED <<zvars, todo, maxSize, raw, lost, hvars>>

Goto(t, label) == pc' = [pc EXCEPT ![t] = label]

Local(t) == UNCHANGED <<todo, maxSize, chan, obs, arg, ret, raw, lost>>

\* Mutant: zbus's error is dropped.
AnswerOK(t, label, e) ==
  /\ Goto(t, label)
  /\ err' = [err EXCEPT ![t] = "OK"]

\* zbus answered e: the binding goes on at label.
Answer(t, label, e) ==
  /\ Goto(t, label)
  /\ err' = [err EXCEPT ![t] = e]

Ready(t) == Booted /\ pc[t] = "idle"

\* luaL_error and luaL_check* before anything is allocated.
BadArguments(t) ==
  /\ Ready(t)
  /\ Refuse(t, Raised)

-----------------------------------------------------------------------------
(* channel:pub(table, timeout)                                             *)

PubNoMemory(t) ==
  /\ Ready(t)
  /\ Refuse(t, NoMessage("pub", "ENOMEM", Nil))

\* Mutant: err starts as 0 instead of -EINVAL.
PubNoDescrOK(t, c) ==
  /\ Ready(t)
  /\ CanAlloc(t)
  /\ c \notin Described
  /\ Refuse(t, NoMessage("pub", "OK", c))

\* Without a descriptor the conversion yields 0 and nothing is published.
PubNoDescr(t, c) ==
  /\ Ready(t)
  /\ CanAlloc(t)
  /\ c \notin Described
  /\ Refuse(t, NoMessage("pub", "EINVAL", c))

\* lua_table_to_msg_struct raises after the buffer was allocated.
PubRaise(t, c) ==
  /\ Ready(t)
  /\ CanAlloc(t)
  /\ c \in Described
  /\ Raise(t)
  /\ raw' = [raw EXCEPT ![t] = @ + 1]
  /\ UNCHANGED <<zvars, todo, maxSize, hvars>>

\* Publications that are done or will be.
Begun ==
  MapThenSumSet(LAMBDA c : Len(pubs[c]), Channels)
    + Cardinality({t \in Threads : pc[t] = "pub_lock"})

PubBegin(t, c, tab) ==
  /\ Ready(t)
  /\ Begun < MaxPubs
  /\ CanAlloc(t)
  /\ c \in Described
  /\ raw' = [raw EXCEPT ![t] = @ + 1]
  /\ chan' = [chan EXCEPT ![t] = c]
  /\ arg' = [arg EXCEPT ![t] = tab]
  /\ buf' = [buf EXCEPT ![t].body = FromTable(tab, @)]
  /\ ret' = [ret EXCEPT ![t] = NoResult]
  /\ Goto(t, "pub_lock")
  /\ UNCHANGED <<zvars, todo, maxSize, obs, err, lost, hvars>>

PubLock(t) ==
  /\ pc[t] = "pub_lock"
  /\ LET c == chan[t]
         m == [n |-> Len(pubs[c]) + 1, body |-> buf[t].body]
     IN  /\ LockAndCopy(t, c, m)
         /\ buf' = [buf EXCEPT ![t] = m]
         /\ pubs' = [pubs EXCEPT ![c] = Append(@, arg[t])]
  /\ Goto(t, "pub_alloc")
  /\ Local(t)
  /\ UNCHANGED <<err, put, got>>

PubLockTimeout(t) ==
  /\ pc[t] = "pub_lock"
  /\ owner[chan[t]] # NoOwner
  /\ Answer(t, "pub_ret", "EAGAIN")
  /\ Local(t)
  /\ UNCHANGED <<zvars, buf, hvars>>

PubTakeBuffer(t) ==
  /\ pc[t] = "pub_alloc"
  /\ TakeBuffer(t)
  /\ Goto(t, "pub_notify")
  /\ Local(t)
  /\ UNCHANGED <<buf, err, hvars>>

PubNotify(t) ==
  /\ pc[t] = "pub_notify"
  /\ NotifyNext(t, chan[t])
  /\ put' = [put EXCEPT ![ObserversOf[chan[t]][next[t]]][chan[t]] = buf[t].n]
  /\ Local(t)
  /\ UNCHANGED <<pc, buf, err, pubs, got>>

\* The pool stayed empty until the deadline, before the first observer or
\* between two: the message is stored, the rest of the list is skipped.
PubPoolTimeout(t) ==
  /\ pc[t] \in {"pub_alloc", "pub_notify"}
  /\ pc[t] = "pub_notify" => ~ Notified(t, chan[t])
  /\ ~ BufferFree
  /\ Unlock(t, chan[t])
  /\ Answer(t, "pub_ret", "ENOMEM")
  /\ Local(t)
  /\ UNCHANGED <<buf, hvars>>

PubDone(t) ==
  /\ pc[t] = "pub_notify"
  /\ Notified(t, chan[t])
  /\ Unlock(t, chan[t])
  /\ Answer(t, "pub_ret", "OK")
  /\ Local(t)
  /\ UNCHANGED <<buf, hvars>>

PubReturn(t) ==
  /\ pc[t] = "pub_ret"
  /\ Return(t, [op |-> "pub", err |-> err[t], chan |-> chan[t],
                tab |-> Nil, n |-> buf[t].n])
  /\ Free(t)
  /\ UNCHANGED <<zvars, todo, maxSize, hvars>>

-----------------------------------------------------------------------------
(* channel:read(timeout)                                                   *)

ReadNoMemory(t) ==
  /\ Ready(t)
  /\ Refuse(t, NoMessage("read", "ENOMEM", Nil))

ReadBegin(t, c) ==
  /\ Ready(t)
  /\ CanAlloc(t)
  /\ raw' = [raw EXCEPT ![t] = @ + 1]
  /\ chan' = [chan EXCEPT ![t] = c]
  /\ ret' = [ret EXCEPT ![t] = NoResult]
  /\ Goto(t, "read_lock")
  /\ UNCHANGED <<zvars, todo, maxSize, obs, arg, buf, err, lost, hvars>>

ReadLock(t) ==
  /\ pc[t] = "read_lock"
  /\ Lock(t, chan[t])
  /\ Goto(t, "read_copy")
  /\ Local(t)
  /\ UNCHANGED <<buf, err, hvars>>

ReadLockTimeout(t) ==
  /\ pc[t] = "read_lock"
  /\ owner[chan[t]] # NoOwner
  /\ Answer(t, "read_ret", "EAGAIN")
  /\ Local(t)
  /\ UNCHANGED <<zvars, buf, hvars>>

ReadCopy(t) ==
  /\ pc[t] = "read_copy"
  /\ buf' = [buf EXCEPT ![t] = memory[chan[t]]]
  /\ Unlock(t, chan[t])
  /\ Answer(t, "read_ret", "OK")
  /\ Local(t)
  /\ UNCHANGED hvars

\* The buffer is converted whatever zbus_chan_read answered.
ReadReturn(t) ==
  /\ pc[t] = "read_ret"
  /\ Return(t, [op |-> "read", err |-> err[t], chan |-> chan[t],
                tab |-> ToTable(chan[t], buf[t].body), n |-> buf[t].n])
  /\ Free(t)
  /\ UNCHANGED <<zvars, todo, maxSize, hvars>>

\* Building the table needs Lua memory: msg_struct_to_lua_table raises.
ReadRaise(t) ==
  /\ pc[t] = "read_ret"
  /\ chan[t] \in Described
  /\ Raise(t)
  /\ UNCHANGED <<zvars, todo, maxSize, raw, hvars>>

-----------------------------------------------------------------------------
(* observer:wait_msg(timeout)                                              *)

WaitNoMemory(t) ==
  /\ Ready(t)
  /\ Refuse(t, NoMessage("wait", "ENOMEM", Nil))

WaitBegin(t, o) ==
  /\ Ready(t)
  /\ CanAlloc(t)
  /\ raw' = [raw EXCEPT ![t] = @ + 1]
  /\ obs' = [obs EXCEPT ![t] = o]
  /\ ret' = [ret EXCEPT ![t] = NoResult]
  /\ Goto(t, "wait_get")
  /\ UNCHANGED <<zvars, todo, maxSize, chan, arg, buf, err, lost, hvars>>

WaitGet(t) ==
  /\ pc[t] = "wait_get"
  /\ Dequeue(obs[t])
  /\ LET e == Head(fifo[obs[t]])
     IN  /\ chan' = [chan EXCEPT ![t] = e.chan]
         /\ buf' = [buf EXCEPT ![t] = e.msg]
         /\ got' = [got EXCEPT ![obs[t]][e.chan] = e.msg.n]
  /\ Answer(t, "wait_ret", "OK")
  /\ UNCHANGED <<todo, maxSize, obs, arg, ret, raw, lost, pubs, put>>

\* Mutant: wait_msg waits with K_FOREVER, so no timeout ever happens.
WaitForever(t) == t \notin Threads

WaitTimeout(t) ==
  /\ pc[t] = "wait_get"
  /\ fifo[obs[t]] = <<>>
  /\ Answer(t, "wait_ret", "ENOMSG")
  /\ Local(t)
  /\ UNCHANGED <<zvars, buf, hvars>>

WaitReturn(t) ==
  /\ pc[t] = "wait_ret"
  /\ Return(t, IF err[t] = "OK"
               THEN [op |-> "wait", err |-> "OK", chan |-> chan[t],
                     tab |-> ToTable(chan[t], buf[t].body), n |-> buf[t].n]
               ELSE NoMessage("wait", err[t], Nil))
  /\ Free(t)
  /\ UNCHANGED <<zvars, todo, maxSize, hvars>>

\* The channel userdata or the table cannot be built: the message is gone.
WaitRaise(t) ==
  /\ pc[t] = "wait_ret"
  /\ err[t] = "OK"
  /\ Raise(t)
  /\ UNCHANGED <<zvars, todo, maxSize, raw, hvars>>

-----------------------------------------------------------------------------
\* What a script may start.
Call(t) ==
  \/ BadArguments(t)
  \/ PubNoMemory(t) \/ ReadNoMemory(t) \/ WaitNoMemory(t)
  \/ \E c \in Channels :
       \/ PubNoDescr(t, c) \/ PubRaise(t, c)
       \/ \E tab \in Tables : PubBegin(t, c, tab)
       \/ ReadBegin(t, c)
  \/ \E o \in Observers : WaitBegin(t, o)

\* What a started call does next.
Step(t) ==
  \/ PubLock(t) \/ PubLockTimeout(t) \/ PubTakeBuffer(t) \/ PubNotify(t)
  \/ PubPoolTimeout(t) \/ PubDone(t) \/ PubReturn(t)
  \/ ReadLock(t) \/ ReadLockTimeout(t) \/ ReadCopy(t)
  \/ ReadReturn(t) \/ ReadRaise(t)
  \/ WaitGet(t) \/ WaitTimeout(t) \/ WaitReturn(t) \/ WaitRaise(t)

Next ==
  \/ \E c \in Channels : FindMaxMsgSize(c)
  \/ \E t \in Threads : Call(t) \/ Step(t)

Spec == Init /\ [][Next]_vars

\* Every timeout a script passes is finite and the scheduler runs every
\* ready thread: a started call keeps taking steps.
FairSpec == Spec /\ \A t \in Threads : WF_vars(Step(t))
-----------------------------------------------------------------------------
(* Correctness.                                                            *)

\* Every variable holds a value of its kind.
TypeOK ==
  /\ owner \in [Channels -> Threads \cup {NoOwner}]
  /\ memory \in [Channels -> Messages]
  /\ fifo \in [Observers -> Seq(Entries)]
  /\ next \in [Threads -> Nat]
  /\ todo \subseteq Channels
  /\ maxSize \in Nat
  /\ pc \in [Threads -> PCs]
  /\ chan \in [Threads -> Channels \cup {Nil}]
  /\ obs \in [Threads -> Observers \cup {Nil}]
  /\ arg \in [Threads -> Tables \cup {Nil}]
  /\ buf \in [Threads -> Messages]
  /\ err \in [Threads -> {"OK", "ENOMEM", "EAGAIN", "ENOMSG"}]
  /\ ret \in [Threads -> Results]
  /\ raw \in [Threads -> Nat]
  /\ lost \in [Threads -> Nat]
  /\ pubs \in [Channels -> Seq(Tables)]
  /\ put \in [Observers -> [Channels -> Nat]]
  /\ got \in [Observers -> [Channels -> Nat]]

\* A Lua heap holds a raw buffer for the call in progress and for each call
\* that a Lua error cut short, and for nothing else: every other path out of
\* chan_pub, chan_read and sub_wait_msg frees its buffer exactly once.
RawBalance ==
  \A t \in Threads : raw[t] - lost[t] = IF pc[t] = "idle" THEN 0 ELSE 1

\* sub_wait_msg does not know which channel will answer: the buffer sized by
\* find_max_msg_size holds the message of any channel an observer follows.
WaitBufferFits ==
  \A t \in Threads :
    pc[t] = "wait_ret" /\ err[t] = "OK" => MsgSize[chan[t]] <= maxSize

\* body is what a publication of tab, or the channel's definition, stored.
Agrees(body, tab) == \A f \in DOMAIN tab : body[f] = tab[f]

FromChannel(c, n, body) ==
  IF n = 0 THEN body = InitBody
           ELSE n <= Len(pubs[c]) /\ Agrees(body, pubs[c][n])

\* A table a script gets with err = 0, by read or by wait_msg, carries every
\* field some script published together on the channel named with it: no
\* mixture of two messages, nothing from a channel whose message shares the
\* buffer, and junk at most in the fields the publisher's table lacked.
ReturnedAsPublished ==
  \A t \in Threads :
    LET r == ret[t]
    IN  r.op \in {"read", "wait"} /\ r.err = "OK" /\ r.tab # Nil
          => FromChannel(r.chan, r.n, r.tab)

\* pub's error code tells what happened.  0: the message was stored and put
\* in the queue of every observer of the channel.  -EAGAIN, -EINVAL: it was
\* never stored.  (-ENOMEM tells nothing: the heap was full and nothing
\* happened, or the pool was empty and some of the observers have it.)
PubErrTellsTheTruth ==
  \A t \in Threads :
    LET r == ret[t]
    IN  r.op = "pub" =>
          /\ r.err = "OK" =>
               /\ r.n \in 1..Len(pubs[r.chan])
               /\ \A i \in DOMAIN ObserversOf[r.chan] :
                    put[ObserversOf[r.chan][i]][r.chan] >= r.n
          /\ r.err \in {"EAGAIN", "EINVAL"} => r.n = 0

\* Each observer gets the messages of a channel in the order in which they
\* were stored, and none twice, however many threads publish and wait.
DeliveredInOrder ==
  \A o \in Observers :
    \A i \in DOMAIN fifo[o] :
      LET e == fifo[o][i]
      IN  /\ e.msg.n \in (got[o][e.chan] + 1)..put[o][e.chan]
          /\ \A j \in (i + 1)..Len(fifo[o]) :
               fifo[o][j].chan = e.chan => e.msg.n < fifo[o][j].msg.n

\* read and wait_msg hand the script no table when they report an error
\* (src/luaz_apis.lua:16, "Message table, or nil on error").
NilOnError ==
  \A t \in Threads :
    ret[t].op \in {"read", "wait"} /\ ret[t].err # "OK" => ret[t].tab = Nil

\* Every call returns to its script: the finite timeouts break any circle of
\* threads that wait for a channel, a buffer or a message.
CallReturns == \A t \in Threads : pc[t] # "idle" ~> pc[t] = "idle"

\* The call a script is in, without the program counter: see ChannelApi.
CallOf(t) ==
  [op   |-> CASE pc[t] = "idle" -> "none"
              [] pc[t] \in {"read_lock", "read_copy", "read_ret"} -> "read"
              [] pc[t] \in {"wait_get", "wait_ret"} -> "wait"
              [] OTHER -> "pub",
   chan |-> chan[t], obs |-> obs[t], tab |-> arg[t], n |-> buf[t].n,
   err  |-> IF pc[t] \in {"pub_ret", "read_ret", "wait_ret"} THEN err[t] ELSE "open",
   left |-> IF pc[t] \in {"pub_alloc", "pub_notify"}
              THEN {ObserversOf[chan[t]][i] :
                      i \in {j \in DOMAIN ObserversOf[chan[t]] : j >= next[t]}}
              ELSE {}]

InboxOf(o) ==
  [i \in DOMAIN fifo[o] |-> [chan |-> fifo[o][i].chan, n |-> fifo[o][i].msg.n]]

Api == INSTANCE ChannelApi WITH
  Followers <- [c \in Channels |->
                  {ObserversOf[c][i] : i \in DOMAIN ObserversOf[c]}],
  log <- pubs, inbox <- [o \in Observers |-> InboxOf(o)], handed <- put,
  call <- [t \in Threads |-> CallOf(t)], result <- ret

\* The binding over zbus is the interface its documentation describes, at every
\* interleaving of the calls: in particular a read never goes back to an older
\* message, and no message an observer was handed is lost or delivered twice.
ImplementsChannelApi == Api!Spec
=============================================================================
