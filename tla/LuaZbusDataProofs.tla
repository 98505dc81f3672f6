------------------------ MODULE LuaZbusDataProofs ------------------------
(***************************************************************************)
(* What scripts are told is true, for any threads, channels and observers, *)
(* in three parts: the contents of what they read and receive, the order   *)
(* it arrives in and the answer of pub, and the refinement of ChannelApi.  *)
(*                                                                         *)
(* Contents: what scripts read and receive is what scripts published.  The *)
(* argument does not need the channel semaphore: every copy of a message,  *)
(* in a channel, a queue or a buffer, carries the fields of one            *)
(* publication of its channel.                                             *)
(***************************************************************************)
EXTENDS LuaZbusProofs, SequenceTheorems

MemoryData == \A c \in Channels : FromChannel(c, memory[c].n, memory[c].body)

QueueData ==
  \A o \in Observers : \A i \in DOMAIN fifo[o] :
    FromChannel(fifo[o][i].chan, fifo[o][i].msg.n, fifo[o][i].msg.body)

\* A buffer about to be published agrees with its table; a buffer zbus filled
\* holds a message of the call's channel.
BufferOf(t) ==
  /\ pc[t] = "pub_lock" => Agrees(buf[t].body, arg[t])
  /\ pc[t] \in {"read_ret", "wait_ret"} /\ err[t] = "OK" =>
       FromChannel(chan[t], buf[t].n, buf[t].body)

ReturnedOf(t) ==
  LET r == ret[t]
  IN  r.op \in {"read", "wait"} /\ r.err = "OK" /\ r.tab # Nil
        => r.chan \in Channels /\ FromChannel(r.chan, r.n, r.tab)

ThreadData(t) == BufferOf(t) /\ ReturnedOf(t)

DataInv == MemoryData /\ QueueData /\ \A t \in Threads : ThreadData(t)

LEMMA DataInit == Init => DataInv
<1> SUFFICES ASSUME Init PROVE DataInv
  OBVIOUS
<1>1. MemoryData
  BY DEF MemoryData, FromChannel, Init
<1>2. QueueData
  BY DEF QueueData, Init
<1>3. ASSUME NEW t \in Threads PROVE ThreadData(t)
  BY <1>3 DEF ThreadData, BufferOf, ReturnedOf, Init, NoResult, NoMessage
<1> QED
  BY <1>1, <1>2, <1>3 DEF DataInv

\* What was published stays published.
LEMMA PubsGrow ==
  ASSUME TypeInv, [Next]_vars
  PROVE  \A c \in Channels, n \in Nat : \A body :
           FromChannel(c, n, body) => FromChannel(c, n, body)'
<1>1. pubs \in [Channels -> Seq(Tables)]
  BY DEF TypeInv, TypeOK
<1>2. UNCHANGED pubs \/ \E t \in Threads : PubLock(t)
  <2>1. CASE UNCHANGED vars
    BY <2>1 DEF vars, hvars
  <2>2. ASSUME NEW c \in Channels, FindMaxMsgSize(c) PROVE UNCHANGED pubs
    BY <2>2 DEF FindMaxMsgSize, hvars
  <2>3. ASSUME NEW t \in Threads, Call(t) PROVE UNCHANGED pubs
    BY <2>3 DEF hvars, Call, Refuse, BadArguments, PubNoMemory, PubNoDescr,
       PubRaise, PubBegin, ReadNoMemory, ReadBegin, WaitNoMemory, WaitBegin
  <2>4. ASSUME NEW t \in Threads, Step(t), ~ PubLock(t) PROVE UNCHANGED pubs
    BY <2>4 DEF hvars, Step, PubLockTimeout, PubTakeBuffer, PubNotify,
       PubPoolTimeout, PubDone, PubReturn, ReadLock, ReadLockTimeout, ReadCopy,
       ReadReturn, ReadRaise, WaitGet, WaitTimeout, WaitReturn, WaitRaise
  <2> QED
    BY <2>1, <2>2, <2>3, <2>4 DEF Next
<1>3. CASE UNCHANGED pubs
  BY <1>3 DEF FromChannel
<1>4. CASE \E t \in Threads : PubLock(t)
  <2>1. PICK t \in Threads : PubLock(t)
    BY <1>4
  <2>2. chan[t] \in Channels /\ arg[t] \in Tables
    BY <2>1 DEF PubLock, TypeInv, PcShape, InPub, InRead
  <2>3. pubs' = [pubs EXCEPT ![chan[t]] = Append(@, arg[t])]
    BY <2>1 DEF PubLock
  <2>4. \A c \in Channels :
          /\ Len(pubs[c]) <= Len(pubs'[c])
          /\ \A n \in 1 .. Len(pubs[c]) : pubs'[c][n] = pubs[c][n]
    BY <1>1, <2>2, <2>3
  <2>5. \A c \in Channels : Len(pubs[c]) \in Nat /\ Len(pubs'[c]) \in Nat
    BY <1>1, <2>2, <2>3
  <2> QED
    BY <2>4, <2>5 DEF FromChannel, Agrees
<1> QED
  BY <1>2, <1>3, <1>4

LEMMA EntryTypes ==
  ASSUME TypeInv, NEW o \in Observers, NEW i \in DOMAIN fifo[o]
  PROVE  fifo[o][i].chan \in Channels /\ fifo[o][i].msg.n \in Nat
<1>1. fifo[o] \in Seq(Entries)
  BY DEF TypeInv, TypeOK
<1>2. fifo[o][i] \in Entries
  BY <1>1
<1> QED
  BY <1>2 DEF Entries, Messages

\* Queued messages keep their origin, whether the queue stays as it is, gains
\* a message of a channel, or loses its head.
LEMMA QueueKept ==
  ASSUME TypeInv, DataInv, [Next]_vars, UNCHANGED fifo
  PROVE  QueueData'
BY EntryTypes, PubsGrow DEF DataInv, QueueData

LEMMA QueueGrows ==
  ASSUME TypeInv, DataInv, [Next]_vars, NEW o \in Observers, NEW e,
         fifo' = [fifo EXCEPT ![o] = Append(@, e)],
         FromChannel(e.chan, e.msg.n, e.msg.body)'
  PROVE  QueueData'
<1>1. fifo \in [Observers -> Seq(Entries)]
  BY DEF TypeInv, TypeOK
<1> SUFFICES ASSUME NEW p \in Observers, NEW i \in DOMAIN fifo'[p], NEW x, x = fifo'[p][i]
             PROVE  FromChannel(x.chan, x.msg.n, x.msg.body)'
  BY DEF QueueData
<1>2. (i \in DOMAIN fifo[p] /\ x = fifo[p][i]) \/ x = e
  BY <1>1
<1> QED
  BY <1>2, EntryTypes, PubsGrow DEF DataInv, QueueData

LEMMA QueueShrinks ==
  ASSUME TypeInv, DataInv, [Next]_vars, NEW o \in Observers, fifo[o] # <<>>,
         fifo' = [fifo EXCEPT ![o] = Tail(@)]
  PROVE  QueueData'
<1>1. fifo \in [Observers -> Seq(Entries)]
  BY DEF TypeInv, TypeOK
<1> SUFFICES ASSUME NEW p \in Observers, NEW i \in DOMAIN fifo'[p], NEW x, x = fifo'[p][i]
             PROVE  FromChannel(x.chan, x.msg.n, x.msg.body)'
  BY DEF QueueData
<1>2. PICK j \in DOMAIN fifo[p] : x = fifo[p][j]
  <2>1. CASE p = o
    <3>1. fifo[o] \in Seq(Entries) /\ fifo'[o] = Tail(fifo[o])
      BY <1>1
    <3>2. PICK q \in Seq(Entries) : q = fifo[o] /\ q # <<>>
      BY <3>1
    <3>3. i \in DOMAIN Tail(q) /\ x = Tail(q)[i]
      BY <2>1, <3>1, <3>2
    <3>4. i + 1 \in DOMAIN q /\ Tail(q)[i] = q[i + 1]
      BY <3>2, <3>3
    <3> QED
      BY <2>1, <3>2, <3>3, <3>4
  <2>2. CASE p # o
    BY <1>1, <2>2
  <2> QED
    BY <2>1, <2>2
<1> QED
  BY <1>2, EntryTypes, PubsGrow DEF DataInv, QueueData

LEMMA MemoryKept ==
  ASSUME TypeInv, DataInv, [Next]_vars, UNCHANGED memory
  PROVE  MemoryData'
<1>1. \A c \in Channels : memory[c].n \in Nat
  BY DEF TypeInv, TypeOK, Messages
<1> QED
  BY <1>1, PubsGrow DEF DataInv, MemoryData

\* A thread that does not move keeps what it has.
LEMMA ThreadKept ==
  ASSUME TypeInv, DataInv, [Next]_vars, NEW t \in Threads,
         pc'[t] = pc[t], chan'[t] = chan[t], arg'[t] = arg[t],
         buf'[t] = buf[t], err'[t] = err[t], ret'[t] = ret[t]
  PROVE  ThreadData(t)'
<1>1. buf[t].n \in Nat /\ ret[t].n \in Nat
  BY DEF TypeInv, TypeOK, Messages, Results
<1>2. pc[t] \in {"read_ret", "wait_ret"} /\ err[t] = "OK" => chan[t] \in Channels
  BY DEF TypeInv, PcShape, InPub, InRead
<1>3. BufferOf(t)'
  BY <1>1, <1>2, PubsGrow DEF DataInv, ThreadData, BufferOf, Agrees
<1>4. ReturnedOf(t)'
  BY <1>1, PubsGrow DEF DataInv, ThreadData, ReturnedOf
<1> QED
  BY <1>3, <1>4 DEF ThreadData

\* A thread that returns to its script has no buffer left to account for.
LEMMA ReturnData ==
  ASSUME TypeInv, DataInv, [Next]_vars, NEW t \in Threads, NEW r \in Results,
         Return(t, r),
         r.err = "OK" /\ r.tab # Nil =>
           r.chan \in Channels /\ FromChannel(r.chan, r.n, r.tab)'
  PROVE  \A u \in Threads : ThreadData(u)'
<1> USE DEF TypeInv, TypeOK
<1>1. ThreadData(t)'
  BY DEF Return, ThreadData, BufferOf, ReturnedOf
<1>2. ASSUME NEW u \in Threads, u # t PROVE ThreadData(u)'
  BY <1>2, ThreadKept DEF Return
<1> QED
  BY <1>1, <1>2

\* A thread that goes on inside its call.
LEMMA MoveData ==
  ASSUME TypeInv, DataInv, [Next]_vars, NEW t \in Threads, UNCHANGED <<arg, ret>>,
         \A u \in Threads \ {t} :
           pc'[u] = pc[u] /\ chan'[u] = chan[u] /\ buf'[u] = buf[u] /\ err'[u] = err[u],
         pc'[t] # "pub_lock",
         pc'[t] \in {"read_ret", "wait_ret"} /\ err'[t] = "OK" =>
           FromChannel(chan[t], buf[t].n, buf[t].body)'
  PROVE  \A u \in Threads : ThreadData(u)'
<1>1. ThreadData(t)'
  <2>1. ret[t].n \in Nat
    BY DEF TypeInv, TypeOK, Results
  <2>2. ReturnedOf(t)'
    BY <2>1, PubsGrow DEF DataInv, ThreadData, ReturnedOf
  <2> QED
    BY <2>2 DEF ThreadData, BufferOf
<1>2. ASSUME NEW u \in Threads, u # t PROVE ThreadData(u)'
  BY <1>2, ThreadKept
<1> QED
  BY <1>1, <1>2

LEMMA DataStep == TypeInv /\ DataInv /\ [Next]_vars => DataInv'
<1> SUFFICES ASSUME TypeInv, DataInv, [Next]_vars PROVE DataInv'
  OBVIOUS
<1>t. TypeOK /\ PcShape
  BY DEF TypeInv
<1>1. CASE UNCHANGED vars
  <2>1. \A u \in Threads : ThreadData(u)'
    BY <1>1, ThreadKept DEF vars, lvars
  <2> QED
    BY <1>1, <2>1, QueueKept, MemoryKept DEF DataInv, vars, zvars
<1>2. ASSUME NEW c \in Channels, FindMaxMsgSize(c) PROVE DataInv'
  <2>1. \A u \in Threads : ThreadData(u)'
    BY <1>2, ThreadKept DEF FindMaxMsgSize, lvars
  <2> QED
    BY <1>2, <2>1, QueueKept, MemoryKept DEF DataInv, FindMaxMsgSize, zvars
<1>3. ASSUME NEW t \in Threads, NEW r \in Results, Return(t, r),
             r.err = "OK" /\ r.tab # Nil =>
               r.chan \in Channels /\ FromChannel(r.chan, r.n, r.tab)',
             UNCHANGED zvars
      PROVE  DataInv'
  BY <1>3, ReturnData, QueueKept, MemoryKept DEF DataInv, zvars
<1>4. ASSUME NEW t \in Threads, Call(t) PROVE DataInv'
  <2> USE ResultTypes
  <2>1. ASSUME NEW r \in Results, r.tab = Nil, Refuse(t, r) PROVE DataInv'
    BY <1>3, <2>1 DEF Refuse
  <2>2. CASE BadArguments(t)
    BY <2>1, <2>2 DEF BadArguments, Raised, NoMessage
  <2>3. CASE PubNoMemory(t) \/ ReadNoMemory(t) \/ WaitNoMemory(t)
    BY <2>1, <2>3 DEF PubNoMemory, ReadNoMemory, WaitNoMemory, NoMessage
  <2>4. ASSUME NEW c \in Channels, PubNoDescr(t, c) PROVE DataInv'
    BY <2>1, <2>4 DEF PubNoDescr, NoMessage
  <2>5. ASSUME NEW c \in Channels, PubRaise(t, c) PROVE DataInv'
    BY <1>3, <2>5 DEF PubRaise, Raise, Raised, NoMessage
  <2>6. ASSUME NEW c \in Channels, NEW tab \in Tables, PubBegin(t, c, tab)
        PROVE  DataInv'
    <3>1. ThreadData(t)'
      <4>1. /\ pc'[t] = "pub_lock" /\ arg'[t] = tab /\ ret'[t] = NoResult
            /\ buf'[t].body = FromTable(tab, buf[t].body)
        BY <1>t, <2>6 DEF PubBegin, Goto, TypeOK, Messages
      <4>2. buf[t].body \in Bodies
        BY <1>t DEF TypeOK, Messages
      <4> QED
        BY <4>1, <4>2, FromTableAgrees DEF ThreadData, BufferOf, ReturnedOf,
           NoResult, NoMessage
    <3>2. ASSUME NEW u \in Threads, u # t PROVE ThreadData(u)'
      BY <1>t, <2>6, <3>2, ThreadKept DEF PubBegin, Goto, TypeOK
    <3> QED
      BY <2>6, <3>1, <3>2, QueueKept, MemoryKept DEF DataInv, PubBegin, zvars
  <2>7. ASSUME NEW c \in Channels, ReadBegin(t, c) PROVE DataInv'
    <3>1. ThreadData(t)'
      BY <1>t, <2>7 DEF ReadBegin, Goto, TypeOK, ThreadData, BufferOf,
         ReturnedOf, NoResult, NoMessage
    <3>2. ASSUME NEW u \in Threads, u # t PROVE ThreadData(u)'
      BY <1>t, <2>7, <3>2, ThreadKept DEF ReadBegin, Goto, TypeOK
    <3> QED
      BY <2>7, <3>1, <3>2, QueueKept, MemoryKept DEF DataInv, ReadBegin, zvars
  <2>8. ASSUME NEW o \in Observers, WaitBegin(t, o) PROVE DataInv'
    <3>1. ThreadData(t)'
      BY <1>t, <2>8 DEF WaitBegin, Goto, TypeOK, ThreadData, BufferOf,
         ReturnedOf, NoResult, NoMessage
    <3>2. ASSUME NEW u \in Threads, u # t PROVE ThreadData(u)'
      BY <1>t, <2>8, <3>2, ThreadKept DEF WaitBegin, Goto, TypeOK
    <3> QED
      BY <2>8, <3>1, <3>2, QueueKept, MemoryKept DEF DataInv, WaitBegin, zvars
  <2> QED
    BY <1>4, <2>2, <2>3, <2>4, <2>5, <2>6, <2>7, <2>8 DEF Call
<1>5. ASSUME NEW t \in Threads, Step(t) PROVE DataInv'
  <2> USE <1>t DEF TypeOK
  <2>1. CASE PubLock(t)
    <3>1. PICK c \in Channels : c = chan[t]
      BY <2>1 DEF PubLock, PcShape, InPub, InRead
    <3>m. PICK m \in Messages : m = [n |-> Len(pubs[c]) + 1, body |-> buf[t].body]
      <4>1. Len(pubs[c]) + 1 \in Nat
        BY <3>1
      <4> QED
        BY <4>1 DEF Messages
    <3>2. FromChannel(c, m.n, m.body)'
      <4>1. Agrees(m.body, arg[t]) /\ arg[t] \in Tables
        BY <2>1, <3>m DEF PubLock, DataInv, ThreadData, BufferOf, PcShape, InPub, InRead
      <4>2. pubs' = [pubs EXCEPT ![c] = Append(@, arg[t])]
        BY <2>1, <3>1 DEF PubLock
      <4>3. Len(pubs[c]) \in Nat
        BY <3>1
      <4>4. Len(pubs'[c]) = m.n /\ pubs'[c][m.n] = arg[t] /\ m.n # 0
        BY <3>1, <3>m, <4>2, <4>3
      <4> QED
        BY <3>m, <4>1, <4>3, <4>4 DEF FromChannel, Agrees
    <3>3. memory' = [memory EXCEPT ![c] = m]
      BY <2>1, <3>1, <3>m DEF PubLock, LockAndCopy
    <3>4. \A d \in Channels : memory[d].n \in Nat
      BY DEF Messages
    <3>5. MemoryData'
      <4> SUFFICES ASSUME NEW d \in Channels, NEW x, x = memory'[d]
                   PROVE  FromChannel(d, x.n, x.body)'
        BY DEF MemoryData
      <4> QED
        BY <3>2, <3>3, <3>4, PubsGrow DEF DataInv, MemoryData
    <3>6. \A u \in Threads : ThreadData(u)'
      BY <2>1, MoveData DEF PubLock, Goto, Local
    <3> QED
      BY <2>1, <3>5, <3>6, QueueKept DEF DataInv, PubLock, LockAndCopy
  <2>2. CASE PubLockTimeout(t)
    <3>1. \A u \in Threads : ThreadData(u)'
      BY <2>2, MoveData DEF PubLockTimeout, Answer, Goto, Local
    <3> QED
      BY <2>2, <3>1, QueueKept, MemoryKept DEF DataInv, PubLockTimeout, zvars
  <2>3. CASE PubTakeBuffer(t)
    <3>1. \A u \in Threads : ThreadData(u)'
      BY <2>3, MoveData DEF PubTakeBuffer, Goto, Local
    <3> QED
      BY <2>3, <3>1, QueueKept, MemoryKept DEF DataInv, PubTakeBuffer, TakeBuffer
  <2>4. CASE PubNotify(t)
    <3>1. \A u \in Threads : ThreadData(u)'
      BY <2>4, MoveData DEF PubNotify, Local
    <3>2. MemoryData'
      BY <2>4, MemoryKept DEF PubNotify, NotifyNext
    <3>3. QueueData'
      <4> DEFINE c == chan[t]
                 o == ObserversOf[c][next[t]]
      <4>e. PICK e : e = [chan |-> c, msg |-> memory[c]]
        OBVIOUS
      <4>1. c \in Channels /\ next[t] \in 1 .. Len(ObserversOf[c])
        BY <2>4 DEF PubNotify, NotifyNext, Notified, PcShape, InPub, InRead
      <4>2. o \in Observers
        BY <4>1, ObserversAssumption
      <4>3. fifo' = [fifo EXCEPT ![o] = Append(@, e)] /\ UNCHANGED <<memory, chan>>
        BY <2>4, <4>e DEF PubNotify, NotifyNext, Local
      <4>4. FromChannel(e.chan, e.msg.n, e.msg.body)'
        <5>1. FromChannel(c, memory[c].n, memory[c].body)'
          BY <3>2, <4>1, <4>3 DEF MemoryData
        <5>2. e.chan = c' /\ e.msg.n = (memory[c].n)' /\ e.msg.body = (memory[c].body)'
          BY <4>e, <4>3
        <5> QED
          BY <5>1, <5>2
      <4> QED
        BY <4>2, <4>3, <4>4, QueueGrows
    <3> QED
      BY <3>1, <3>2, <3>3 DEF DataInv
  <2>5. CASE PubPoolTimeout(t)
    <3>1. \A u \in Threads : ThreadData(u)'
      BY <2>5, MoveData DEF PubPoolTimeout, Answer, Goto, Local
    <3> QED
      BY <2>5, <3>1, QueueKept, MemoryKept DEF DataInv, PubPoolTimeout, Unlock
  <2>6. CASE PubDone(t)
    <3>1. \A u \in Threads : ThreadData(u)'
      BY <2>6, MoveData DEF PubDone, Answer, Goto, Local
    <3> QED
      BY <2>6, <3>1, QueueKept, MemoryKept DEF DataInv, PubDone, Unlock
  <2>7. CASE PubReturn(t)
    <3> DEFINE r == [op |-> "pub", err |-> err[t], chan |-> chan[t],
                     tab |-> Nil, n |-> buf[t].n]
    <3>1. r \in Results
      BY <2>7 DEF PubReturn, Results, Messages
    <3> QED
      BY <1>3, <2>7, <3>1 DEF PubReturn
  <2>8. CASE ReadLock(t)
    <3>1. \A u \in Threads : ThreadData(u)'
      BY <2>8, MoveData DEF ReadLock, Goto, Local
    <3> QED
      BY <2>8, <3>1, QueueKept, MemoryKept DEF DataInv, ReadLock, Lock
  <2>9. CASE ReadLockTimeout(t)
    <3>1. \A u \in Threads : ThreadData(u)'
      BY <2>9, MoveData DEF ReadLockTimeout, Answer, Goto, Local
    <3> QED
      BY <2>9, <3>1, QueueKept, MemoryKept DEF DataInv, ReadLockTimeout, zvars
  <2>10. CASE ReadCopy(t)
    <3>1. chan[t] \in Channels
      BY <2>10 DEF ReadCopy, PcShape, InPub, InRead
    <3>2. FromChannel(chan[t], memory[chan[t]].n, memory[chan[t]].body)'
      <4>1. UNCHANGED <<memory, chan>>
        BY <2>10 DEF ReadCopy, Unlock, Local
      <4> QED
        BY <3>1, <4>1, MemoryKept DEF MemoryData
    <3>3. \A u \in Threads : ThreadData(u)'
      BY <2>10, <3>1, <3>2, MoveData DEF ReadCopy, Unlock, Answer, Goto, Local
    <3> QED
      BY <2>10, <3>3, QueueKept, MemoryKept DEF DataInv, ReadCopy, Unlock
  <2>11. CASE ReadReturn(t)
    <3>1. chan[t] \in Channels /\ buf[t].body \in Bodies /\ buf[t].n \in Nat
      BY <2>11 DEF ReadReturn, PcShape, InPub, InRead, Messages
    <3>2. PICK r \in Results :
            r = [op |-> "read", err |-> err[t], chan |-> chan[t],
                 tab |-> ToTable(chan[t], buf[t].body), n |-> buf[t].n]
      BY <3>1, ToTableType DEF Results
    <3>3. r.err = "OK" => FromChannel(r.chan, r.n, buf[t].body)
      BY <2>11, <3>2 DEF ReadReturn, DataInv, ThreadData, BufferOf
    <3>4. r.err = "OK" /\ r.tab # Nil => FromChannel(r.chan, r.n, r.tab)
      BY <3>2, <3>3 DEF ToTable
    <3>5. r.err = "OK" /\ r.tab # Nil =>
            r.chan \in Channels /\ FromChannel(r.chan, r.n, r.tab)'
      BY <3>1, <3>2, <3>4, PubsGrow
    <3>6. Return(t, r) /\ UNCHANGED zvars
      BY <2>11, <3>2 DEF ReadReturn
    <3> QED
      BY <1>3, <3>5, <3>6
  <2>12. CASE ReadRaise(t)
    BY <1>3, <2>12, ResultTypes DEF ReadRaise, Raise, Raised, NoMessage
  <2>13. CASE WaitGet(t)
    <3>1. PICK o \in Observers : o = obs[t] /\ fifo[o] # <<>>
      BY <2>13 DEF WaitGet, Dequeue, PcShape
    <3>2. fifo' = [fifo EXCEPT ![o] = Tail(@)] /\ UNCHANGED memory
      BY <2>13, <3>1 DEF WaitGet, Dequeue
    <3>3. PICK e \in Entries : e = Head(fifo[o])
      BY <3>1
    <3>4. e.chan \in Channels /\ e.msg.n \in Nat /\ e.msg \in Messages
      BY DEF Entries, Messages
    <3>5. FromChannel(e.chan, e.msg.n, e.msg.body)
      <4>1. 1 \in DOMAIN fifo[o] /\ e = fifo[o][1]
        BY <3>1, <3>3
      <4> QED
        BY <4>1 DEF DataInv, QueueData
    <3>6. FromChannel(e.chan, e.msg.n, e.msg.body)'
      BY <3>4, <3>5, PubsGrow
    <3>7. chan'[t] = e.chan /\ buf'[t] = e.msg
      BY <2>13, <3>1, <3>3 DEF WaitGet
    <3>8. FromChannel(chan[t], buf[t].n, buf[t].body)'
      BY <3>6, <3>7
    <3>9. \A u \in Threads : ThreadData(u)'
      BY <2>13, <3>8, MoveData DEF WaitGet, Answer, Goto
    <3> QED
      BY <3>1, <3>2, <3>9, QueueShrinks, MemoryKept DEF DataInv
  <2>14. CASE WaitTimeout(t)
    <3>1. \A u \in Threads : ThreadData(u)'
      BY <2>14, MoveData DEF WaitTimeout, Answer, Goto, Local
    <3> QED
      BY <2>14, <3>1, QueueKept, MemoryKept DEF DataInv, WaitTimeout, zvars
  <2>15. CASE WaitReturn(t)
    <3>1. CASE err[t] = "OK"
      <4>1. chan[t] \in Channels /\ buf[t].body \in Bodies /\ buf[t].n \in Nat
        BY <2>15, <3>1 DEF WaitReturn, PcShape, InPub, InRead, Messages
      <4>2. PICK r \in Results :
              r = [op |-> "wait", err |-> "OK", chan |-> chan[t],
                   tab |-> ToTable(chan[t], buf[t].body), n |-> buf[t].n]
        BY <4>1, ToTableType DEF Results
      <4>3. FromChannel(r.chan, r.n, buf[t].body)
        BY <2>15, <3>1, <4>2 DEF WaitReturn, DataInv, ThreadData, BufferOf
      <4>4. r.tab # Nil => FromChannel(r.chan, r.n, r.tab)
        BY <4>2, <4>3 DEF ToTable
      <4>5. r.tab # Nil => r.chan \in Channels /\ FromChannel(r.chan, r.n, r.tab)'
        BY <4>1, <4>2, <4>4, PubsGrow
      <4>6. Return(t, r) /\ UNCHANGED zvars
        BY <2>15, <3>1, <4>2 DEF WaitReturn
      <4> QED
        BY <1>3, <4>5, <4>6
    <3>2. CASE err[t] # "OK"
      <4>1. NoMessage("wait", err[t], Nil) \in Results
        BY ResultTypes
      <4>2. Return(t, NoMessage("wait", err[t], Nil)) /\ UNCHANGED zvars
        BY <2>15, <3>2 DEF WaitReturn
      <4> QED
        BY <1>3, <4>1, <4>2 DEF NoMessage
    <3> QED
      BY <3>1, <3>2
  <2>16. CASE WaitRaise(t)
    BY <1>3, <2>16, ResultTypes DEF WaitRaise, Raise, Raised, NoMessage
  <2> QED
    BY <1>5, <2>1, <2>2, <2>3, <2>4, <2>5, <2>6, <2>7, <2>8, <2>9, <2>10,
       <2>11, <2>12, <2>13, <2>14, <2>15, <2>16 DEF Step
<1> QED
  BY <1>1, <1>2, <1>4, <1>5 DEF Next

(***************************************************************************)
(* The theorem.                                                            *)
(***************************************************************************)

\* A table a script gets with err = 0 carries the fields that some script
\* published together on the channel named with it.
THEOREM ReturnedDataIsPublished == Spec => []ReturnedAsPublished
<1>1. Init => TypeInv /\ DataInv
  BY TypeInit, DataInit
<1>2. (TypeInv /\ DataInv) /\ [Next]_vars => (TypeInv /\ DataInv)'
  BY TypeStep, DataStep
<1>3. TypeInv /\ DataInv => ReturnedAsPublished
  BY DEF DataInv, ThreadData, ReturnedOf, ReturnedAsPublished
<1> QED
  BY <1>1, <1>2, <1>3, PTL DEF Spec

-----------------------------------------------------------------------------
(***************************************************************************)
(* Order of delivery and truth of pub's answer, for any threads, channels  *)
(* and observers.  Here the channel semaphore carries the argument: who    *)
(* holds it publishes the channel's last message, which no observer of the *)
(* list from `next` on has been given yet.                                 *)
(***************************************************************************)

\* What the error code e of a publication of message n on c says.
Told(e, c, n) ==
  /\ e = "OK" =>
       /\ c \in Channels
       /\ n \in 1 .. Len(pubs[c])
       /\ \A i \in DOMAIN ObserversOf[c] : put[ObserversOf[c][i]][c] >= n
  /\ e \in {"EAGAIN", "EINVAL"} => n = 0

\* What a thread that serves the observers of its channel knows of them.
Served(t) ==
  LET c == chan[t]
      n == buf[t].n
  IN  /\ n = Len(pubs[c])
      /\ n >= 1
      /\ \A i \in DOMAIN ObserversOf[c] :
           IF i < next[t] THEN put[ObserversOf[c][i]][c] >= n
                          ELSE put[ObserversOf[c][i]][c] < n

ThreadOrder(t) ==
  /\ pc[t] \in Holding => owner[chan[t]] = t
  /\ pc[t] \in {"idle", "pub_lock"} => buf[t].n = 0
  /\ pc[t] # "pub_notify" => next[t] = 0
  /\ pc[t] \in {"pub_alloc", "pub_notify"} => Served(t)
  /\ pc[t] = "pub_ret" => Told(err[t], chan[t], buf[t].n)
  /\ ret[t].op = "pub" => Told(ret[t].err, ret[t].chan, ret[t].n)

MemoryIsLast == \A c \in Channels : memory[c].n = Len(pubs[c])

Bounds ==
  \A o \in Observers, c \in Channels :
    got[o][c] <= put[o][c] /\ put[o][c] <= Len(pubs[c])

OrderInv ==
  /\ MemoryIsLast
  /\ Bounds
  /\ DeliveredInOrder
  /\ \A t \in Threads : ThreadOrder(t)

LEMMA OrderInit == Init => OrderInv
<1> SUFFICES ASSUME Init PROVE OrderInv
  OBVIOUS
<1>1. MemoryIsLast /\ Bounds
  BY DEF MemoryIsLast, Bounds, Init
<1>2. DeliveredInOrder
  BY DEF DeliveredInOrder, Init
<1>3. ASSUME NEW t \in Threads PROVE ThreadOrder(t)
  BY <1>3 DEF ThreadOrder, Init, NoResult, NoMessage, JunkMsg, Holding
<1> QED
  BY <1>1, <1>2, <1>3 DEF OrderInv

(***************************************************************************)
(* What a step leaves true.                                                *)
(***************************************************************************)

\* The publication in progress serves an observer of its channel.
LEMMA ServesObserver ==
  ASSUME TypeInv, NEW t \in Threads, PubNotify(t)
  PROVE  /\ chan[t] \in Channels
         /\ next[t] \in DOMAIN ObserversOf[chan[t]]
         /\ DOMAIN ObserversOf[chan[t]] \subseteq Nat
         /\ ObserversOf[chan[t]][next[t]] \in Observers
<1>1. chan[t] \in Channels /\ next[t] \in Nat \ {0}
  BY DEF PubNotify, TypeInv, PcShape, InPub, InRead
<1>2. PICK q \in Seq(Observers) : q = ObserversOf[chan[t]]
  BY <1>1, ObserversAssumption
<1>3. ~ (next[t] > Len(q))
  BY <1>2 DEF PubNotify, NotifyNext, Notified
<1>4. next[t] \in DOMAIN q
  BY <1>1, <1>2, <1>3
<1> QED
  BY <1>1, <1>2, <1>4

\* Publications and deliveries are never taken back.
LEMMA HistoryGrows ==
  ASSUME TypeInv, OrderInv, [Next]_vars
  PROVE  /\ \A c \in Channels : Len(pubs[c]) <= Len(pubs'[c])
         /\ \A o \in Observers, c \in Channels : put[o][c] <= put'[o][c]
<1> USE DEF TypeInv, TypeOK
<1>1. (UNCHANGED <<pubs, put>>) \/ \E t \in Threads : PubLock(t) \/ PubNotify(t)
  <2>1. CASE UNCHANGED vars
    BY <2>1 DEF vars, hvars
  <2>2. ASSUME NEW c \in Channels, FindMaxMsgSize(c) PROVE UNCHANGED <<pubs, put>>
    BY <2>2 DEF FindMaxMsgSize, hvars
  <2>3. ASSUME NEW t \in Threads, Call(t) PROVE UNCHANGED <<pubs, put>>
    BY <2>3 DEF hvars, Call, Refuse, BadArguments, PubNoMemory, PubNoDescr,
       PubRaise, PubBegin, ReadNoMemory, ReadBegin, WaitNoMemory, WaitBegin
  <2>4. ASSUME NEW t \in Threads, Step(t), ~ PubLock(t), ~ PubNotify(t)
        PROVE  UNCHANGED <<pubs, put>>
    BY <2>4 DEF hvars, Step, PubLockTimeout, PubTakeBuffer, PubPoolTimeout,
       PubDone, PubReturn, ReadLock, ReadLockTimeout, ReadCopy, ReadReturn,
       ReadRaise, WaitGet, WaitTimeout, WaitReturn, WaitRaise
  <2> QED
    BY <2>1, <2>2, <2>3, <2>4 DEF Next
<1>2. CASE UNCHANGED <<pubs, put>>
  BY <1>2
<1>3. ASSUME NEW t \in Threads, PubLock(t)
      PROVE  UNCHANGED put /\ \A c \in Channels : Len(pubs[c]) <= Len(pubs'[c])
  BY <1>3 DEF PubLock
<1>4. ASSUME NEW t \in Threads, PubNotify(t)
      PROVE  UNCHANGED pubs
             /\ \A o \in Observers, c \in Channels : put[o][c] <= put'[o][c]
  <2>1. PICK c \in Channels : c = chan[t]
    BY <1>4 DEF PubNotify, PcShape, InPub, InRead
  <2>2. next[t] \in DOMAIN ObserversOf[c]
    BY <1>4, <2>1, ServesObserver
  <2>3. PICK o \in Observers : o = ObserversOf[c][next[t]]
    BY <1>4, <2>1, ServesObserver
  <2>4. put[o][c] < buf[t].n
    BY <1>4, <2>1, <2>2, <2>3 DEF PubNotify, OrderInv, ThreadOrder, Served
  <2>5. put' = [put EXCEPT ![o][c] = buf[t].n] /\ UNCHANGED pubs
    BY <1>4, <2>1, <2>3 DEF PubNotify
  <2>6. buf[t].n \in Nat
    BY DEF Messages
  <2> QED
    BY <2>4, <2>5, <2>6, SMTT(30)
<1> QED
  BY <1>1, <1>2, <1>3, <1>4

\* What an answer said of its message stays true.
LEMMA ToldKept ==
  ASSUME TypeInv, TypeInv', OrderInv, [Next]_vars, NEW e, NEW c, NEW n \in Nat,
         Told(e, c, n)
  PROVE  Told(e, c, n)'
<1>1. CASE e = "OK"
  <2>1. c \in Channels /\ n \in 1 .. Len(pubs[c])
    BY <1>1 DEF Told
  <2>2. Len(pubs[c]) \in Nat /\ Len(pubs'[c]) \in Nat
    BY <2>1 DEF TypeInv, TypeOK
  <2>3. n \in 1 .. Len(pubs'[c])
    BY <2>1, <2>2, HistoryGrows
  <2>4. ASSUME NEW i \in DOMAIN ObserversOf[c], NEW o, o = ObserversOf[c][i]
        PROVE  put'[o][c] >= n
    <3>1. o \in Observers
      BY <2>1, <2>4, ObserversAssumption
    <3>2. put[o][c] >= n
      BY <1>1, <2>4 DEF Told
    <3>3. put[o][c] \in Nat /\ put'[o][c] \in Nat
      BY <2>1, <3>1 DEF TypeInv, TypeOK
    <3> QED
      BY <2>1, <3>1, <3>2, <3>3, HistoryGrows
  <2> QED
    BY <1>1, <2>1, <2>3, <2>4 DEF Told
<1>2. CASE e # "OK"
  BY <1>2 DEF Told
<1> QED
  BY <1>1, <1>2

\* A thread that does not move, and whose channel nobody touches if it holds
\* the semaphore, keeps what it knows.
LEMMA OtherOrder ==
  ASSUME TypeInv, TypeInv', OrderInv, [Next]_vars, NEW u \in Threads,
         pc'[u] = pc[u], chan'[u] = chan[u], buf'[u] = buf[u], err'[u] = err[u],
         ret'[u] = ret[u], next'[u] = next[u],
         pc[u] \in Holding => owner'[chan[u]] = owner[chan[u]],
         pc[u] \in {"pub_alloc", "pub_notify"} =>
           /\ pubs'[chan[u]] = pubs[chan[u]]
           /\ \A o \in Observers : put'[o][chan[u]] = put[o][chan[u]]
  PROVE  ThreadOrder(u)'
<1>1. ThreadOrder(u)
  BY DEF OrderInv
<1>2. pc[u] \in Holding => owner'[chan'[u]] = u
  BY <1>1 DEF ThreadOrder
<1>3. pc'[u] \in {"pub_alloc", "pub_notify"} => Served(u)'
  <2> SUFFICES ASSUME pc[u] \in {"pub_alloc", "pub_notify"} PROVE Served(u)'
    OBVIOUS
  <2>1. chan[u] \in Channels
    BY DEF TypeInv, PcShape, InPub, InRead
  <2>2. \A i \in DOMAIN ObserversOf[chan[u]] : ObserversOf[chan[u]][i] \in Observers
    BY <2>1, ObserversAssumption
  <2> QED
    BY <1>1, <2>1, <2>2 DEF ThreadOrder, Served
<1>4. PICK e, c, n : e = err[u] /\ c = chan[u] /\ n = buf[u].n
  OBVIOUS
<1>5. pc[u] = "pub_ret" => Told(e, c, n)'
  BY <1>1, <1>4, ToldKept DEF ThreadOrder, TypeInv, TypeOK, Messages
<1>6. PICK f, d, m : f = ret[u].err /\ d = ret[u].chan /\ m = ret[u].n
  OBVIOUS
<1>7. ret[u].op = "pub" => Told(f, d, m)'
  BY <1>1, <1>6, ToldKept DEF ThreadOrder, TypeInv, TypeOK, Results
<1> QED
  BY <1>1, <1>2, <1>3, <1>4, <1>5, <1>6, <1>7 DEF ThreadOrder

\* A step that stores, queues and takes no message, and that touches no
\* semaphore another thread holds.
LEMMA QuietOrder ==
  ASSUME TypeInv, TypeInv', OrderInv, [Next]_vars, NEW t \in Threads,
         UNCHANGED <<memory, fifo, pubs, put, got>>,
         \A u \in Threads \ {t} :
           /\ pc'[u] = pc[u] /\ chan'[u] = chan[u] /\ buf'[u] = buf[u]
           /\ err'[u] = err[u] /\ ret'[u] = ret[u] /\ next'[u] = next[u],
         \A c \in Channels : owner'[c] = owner[c] \/ owner[c] \in {NoOwner, t},
         ThreadOrder(t)'
  PROVE  OrderInv'
<1>1. MemoryIsLast' /\ Bounds' /\ DeliveredInOrder'
  BY DEF OrderInv, MemoryIsLast, Bounds, DeliveredInOrder
<1>2. ASSUME NEW u \in Threads, u # t PROVE ThreadOrder(u)'
  <2>1. pc[u] \in Holding => chan[u] \in Channels /\ owner[chan[u]] = u
    BY DEF Holding, TypeInv, PcShape, InPub, InRead, OrderInv, ThreadOrder
  <2>2. pc[u] \in Holding => owner'[chan[u]] = owner[chan[u]]
    BY <1>2, <2>1, OwnerAssumption
  <2> QED
    BY <1>2, <2>2, OtherOrder
<1> QED
  BY <1>1, <1>2 DEF OrderInv

\* A call that returns r to its script.
LEMMA ReturnOrder ==
  ASSUME TypeInv, TypeInv', OrderInv, [Next]_vars, NEW t \in Threads,
         NEW r \in Results, Return(t, r), UNCHANGED <<zvars, hvars>>,
         pc[t] # "pub_notify",
         r.op = "pub" => Told(r.err, r.chan, r.n)
  PROVE  OrderInv'
<1>1. ThreadOrder(t)'
  <2>1. /\ pc'[t] = "idle" /\ ret'[t] = r /\ buf'[t] = JunkMsg /\ next'[t] = 0
    BY DEF Return, zvars, TypeInv, TypeOK, OrderInv, ThreadOrder
  <2>2. PICK e, c, n : e = r.err /\ c = r.chan /\ n = r.n
    OBVIOUS
  <2>3. r.op = "pub" => Told(e, c, n)'
    BY <2>2, ToldKept DEF Results
  <2> QED
    BY <2>1, <2>2, <2>3 DEF ThreadOrder, Holding, JunkMsg
<1> QED
  BY <1>1, QuietOrder DEF Return, zvars, hvars, TypeInv, TypeOK

\* A thread that goes on inside its call, without touching a message.
LEMMA MoveOrder ==
  ASSUME TypeInv, TypeInv', OrderInv, [Next]_vars, NEW t \in Threads,
         UNCHANGED <<memory, fifo, pubs, put, got, chan, buf, ret>>,
         \A u \in Threads \ {t} :
           pc'[u] = pc[u] /\ err'[u] = err[u] /\ next'[u] = next[u],
         \A c \in Channels : owner'[c] = owner[c] \/ owner[c] \in {NoOwner, t},
         pc'[t] \notin {"idle", "pub_lock"},
         pc'[t] \in Holding => owner'[chan[t]] = t,
         pc'[t] # "pub_notify" => next'[t] = 0,
         pc'[t] \in {"pub_alloc", "pub_notify"} => Served(t)',
         pc'[t] = "pub_ret" => Told(err'[t], chan[t], buf[t].n)
  PROVE  OrderInv'
<1>1. ThreadOrder(t)
  BY DEF OrderInv
<1>2. PICK f, d, m : f = ret[t].err /\ d = ret[t].chan /\ m = ret[t].n
  OBVIOUS
<1>3. ret[t].op = "pub" => Told(f, d, m)'
  BY <1>1, <1>2, ToldKept DEF ThreadOrder, TypeInv, TypeOK, Results
<1>4. PICK e, c, n : e = err'[t] /\ c = chan[t] /\ n = buf[t].n
  OBVIOUS
<1>5. pc'[t] = "pub_ret" => Told(e, c, n)'
  BY <1>4, ToldKept DEF TypeInv, TypeOK, Messages
<1>6. ThreadOrder(t)'
  BY <1>2, <1>3, <1>4, <1>5 DEF ThreadOrder
<1> QED
  BY <1>6, QuietOrder

\* A publication stores its message: nobody has been given it yet.
LEMMA LockOrder ==
  ASSUME TypeInv, TypeInv', OrderInv, [Next]_vars, NEW t \in Threads, PubLock(t)
  PROVE  OrderInv'
<1> USE DEF TypeInv, TypeOK
<1>1. PICK c \in Channels : c = chan[t]
  BY DEF PubLock, PcShape, InPub, InRead
<1>2. PICK m : m = [n |-> Len(pubs[c]) + 1, body |-> buf[t].body]
  OBVIOUS
<1>3. /\ owner[c] = NoOwner /\ owner' = [owner EXCEPT ![c] = t]
      /\ memory' = [memory EXCEPT ![c] = m]
      /\ buf' = [buf EXCEPT ![t] = m]
      /\ pubs' = [pubs EXCEPT ![c] = Append(@, arg[t])]
      /\ pc' = [pc EXCEPT ![t] = "pub_alloc"]
      /\ UNCHANGED <<fifo, next, chan, err, ret, put, got>>
  BY <1>1, <1>2 DEF PubLock, LockAndCopy, Goto, Local
<1>4. \A d \in Channels : /\ Len(pubs[d]) \in Nat
                          /\ Len(pubs'[d]) = IF d = c THEN Len(pubs[d]) + 1 ELSE Len(pubs[d])
  BY <1>3
<1>5. MemoryIsLast'
  BY <1>2, <1>3, <1>4 DEF OrderInv, MemoryIsLast
<1>6. Bounds' /\ \A o \in Observers : put[o][c] < Len(pubs'[c])
  <2>1. \A o \in Observers, d \in Channels :
          got[o][d] <= put[o][d] /\ put[o][d] <= Len(pubs[d])
    BY DEF OrderInv, Bounds
  <2>2. \A o \in Observers, d \in Channels : put[o][d] \in Nat /\ got[o][d] \in Nat
    OBVIOUS
  <2>3. \A d \in Channels : /\ Len(pubs[d]) \in Nat /\ Len(pubs'[d]) \in Nat
                            /\ Len(pubs[d]) <= Len(pubs'[d])
                            /\ d = c => Len(pubs[d]) < Len(pubs'[d])
    BY <1>4
  <2> HIDE DEF TypeInv, TypeOK
  <2>4. ASSUME NEW o \in Observers, NEW d \in Channels
        PROVE  /\ got[o][d] <= put[o][d] /\ put[o][d] <= Len(pubs'[d])
               /\ d = c => put[o][d] < Len(pubs'[d])
    <3>1. put[o][d] <= Len(pubs[d]) /\ got[o][d] <= put[o][d]
      BY <2>1
    <3>2. PICK p, k, l : p = put[o][d] /\ k = Len(pubs[d]) /\ l = Len(pubs'[d])
      OBVIOUS
    <3>3. k \in Nat /\ l \in Nat /\ k <= l /\ (d = c => k < l)
      BY <2>3, <3>2
    <3>4. p \in Nat /\ p <= k
      BY <2>2, <3>1, <3>2
    <3>5. p <= l /\ (d = c => p < l)
      BY <3>3, <3>4
    <3> QED
      BY <3>1, <3>2, <3>5
  <2> QED
    BY <1>3, <2>4 DEF Bounds
<1>7. DeliveredInOrder'
  BY <1>3 DEF OrderInv, DeliveredInOrder
<1>8. ThreadOrder(t)'
  <2>1. ThreadOrder(t) /\ pc[t] = "pub_lock"
    BY DEF OrderInv, PubLock
  <2>2. buf'[t].n = Len(pubs'[c]) /\ buf'[t].n >= 1 /\ next'[t] = 0 /\ chan'[t] = c
    BY <1>1, <1>2, <1>3, <1>4, <2>1 DEF ThreadOrder
  <2>3. Served(t)'
    <3>1. \A i \in DOMAIN ObserversOf[c] :
            ObserversOf[c][i] \in Observers /\ ~ (i < 0)
      BY ObserversAssumption
    <3> QED
      BY <1>3, <1>6, <2>2, <3>1 DEF Served
  <2>4. PICK f, d, k : f = ret[t].err /\ d = ret[t].chan /\ k = ret[t].n
    OBVIOUS
  <2>5. ret[t].op = "pub" => Told(f, d, k)'
    BY <2>1, <2>4, ToldKept DEF ThreadOrder, Results
  <2> QED
    BY <1>3, <2>2, <2>3, <2>4, <2>5 DEF ThreadOrder
<1>9. ASSUME NEW u \in Threads, u # t PROVE ThreadOrder(u)'
  <2>1. pc[u] \in Holding => chan[u] \in Channels /\ owner[chan[u]] = u
    BY DEF Holding, PcShape, InPub, InRead, OrderInv, ThreadOrder
  <2>2. pc[u] \in Holding => chan[u] # c
    BY <1>3, <2>1, OwnerAssumption
  <2> QED
    BY <1>3, <1>9, <2>1, <2>2, OtherOrder DEF Holding
<1> QED
  BY <1>5, <1>6, <1>7, <1>8, <1>9 DEF OrderInv

\* One observer is given the message of the channel, a newer one than any it
\* has been given before.
LEMMA NotifyOrder ==
  ASSUME TypeInv, TypeInv', OrderInv, [Next]_vars, NEW t \in Threads, PubNotify(t)
  PROVE  OrderInv'
<1>1. PICK c \in Channels : c = chan[t]
  BY DEF PubNotify, TypeInv, PcShape, InPub, InRead
<1>2. next[t] \in DOMAIN ObserversOf[c] /\ DOMAIN ObserversOf[c] \subseteq Nat
  BY <1>1, ServesObserver
<1>3. PICK o \in Observers : o = ObserversOf[c][next[t]]
  BY <1>1, ServesObserver
<1>4. PICK n \in Nat : n = buf[t].n
  BY DEF TypeInv, TypeOK, Messages
<1>5. PICK e : e = [chan |-> c, msg |-> memory[c]]
  OBVIOUS
<1>6. /\ put' = [put EXCEPT ![o][c] = n]
      /\ fifo' = [fifo EXCEPT ![o] = Append(@, e)]
      /\ next' = [next EXCEPT ![t] = @ + 1]
      /\ UNCHANGED <<pc, chan, buf, err, ret, owner, memory, pubs, got>>
  BY <1>1, <1>3, <1>4, <1>5 DEF PubNotify, NotifyNext, Local
<1>7. /\ owner[c] = t /\ pc[t] = "pub_notify"
      /\ n = Len(pubs[c]) /\ n >= 1 /\ put[o][c] < n
      /\ \A i \in DOMAIN ObserversOf[c] :
           IF i < next[t] THEN put[ObserversOf[c][i]][c] >= n
                          ELSE put[ObserversOf[c][i]][c] < n
  BY <1>1, <1>2, <1>3, <1>4 DEF PubNotify, OrderInv, ThreadOrder, Served, Holding
<1>8. e.chan = c /\ e.msg.n = n
  BY <1>5, <1>7 DEF OrderInv, MemoryIsLast
<1>9. MemoryIsLast'
  BY <1>6 DEF OrderInv, MemoryIsLast
<1>10. /\ put \in [Observers -> [Channels -> Nat]]
       /\ got \in [Observers -> [Channels -> Nat]]
       /\ next \in [Threads -> Nat]
       /\ fifo \in [Observers -> Seq(Entries)]
  BY DEF TypeInv, TypeOK
<1>11. \A p \in Observers, d \in Channels :
         /\ put'[p][d] = IF p = o /\ d = c THEN n ELSE put[p][d]
         /\ got'[p][d] = got[p][d]
  BY <1>6, <1>10
<1>12. Bounds'
  <2> SUFFICES ASSUME NEW p \in Observers, NEW d \in Channels
               PROVE  got'[p][d] <= put'[p][d] /\ put'[p][d] <= Len(pubs'[d])
    BY DEF Bounds
  <2>1. got[p][d] <= put[p][d] /\ put[p][d] <= Len(pubs[d])
    BY DEF OrderInv, Bounds
  <2>2. got[p][d] \in Nat /\ put[p][d] \in Nat
    BY <1>10
  <2> QED
    BY <1>6, <1>7, <1>11, <2>1, <2>2
<1>13. DeliveredInOrder'
  <2> SUFFICES ASSUME NEW p \in Observers, NEW i \in DOMAIN fifo'[p], NEW x, x = fifo'[p][i]
               PROVE  /\ x.msg.n \in (got'[p][x.chan] + 1) .. put'[p][x.chan]
                      /\ \A j \in (i + 1) .. Len(fifo'[p]) :
                           fifo'[p][j].chan = x.chan => x.msg.n < fifo'[p][j].msg.n
    BY DEF DeliveredInOrder
  <2>1. ASSUME NEW k \in DOMAIN fifo[p]
        PROVE  /\ fifo[p][k].chan \in Channels /\ fifo[p][k].msg.n \in Nat
               /\ fifo[p][k].msg.n \in (got[p][fifo[p][k].chan] + 1) .. put[p][fifo[p][k].chan]
               /\ \A j \in (k + 1) .. Len(fifo[p]) :
                    fifo[p][j].chan = fifo[p][k].chan => fifo[p][k].msg.n < fifo[p][j].msg.n
    BY EntryTypes DEF OrderInv, DeliveredInOrder
  <2>2. CASE p # o
    <3>1. fifo'[p] = fifo[p]
      BY <1>6, <1>10, <2>2
    <3> QED
      BY <1>11, <2>1, <2>2, <3>1
  <2>3. CASE p = o
    <3>1. PICK q \in Seq(Entries) : q = fifo[o]
      BY <1>10
    <3>2. fifo'[o] = Append(q, e)
      BY <1>6, <1>10, <3>1
    <3>3. /\ Len(q) \in Nat /\ Len(Append(q, e)) = Len(q) + 1
          /\ DOMAIN q = 1 .. Len(q) /\ i \in 1 .. (Len(q) + 1)
          /\ \A k \in 1 .. Len(q) : Append(q, e)[k] = q[k]
          /\ Append(q, e)[Len(q) + 1] = e
      BY <2>3, <3>1, <3>2
    <3>4. CASE i = Len(q) + 1
      <4>1. x = e
        BY <2>3, <3>2, <3>3, <3>4
      <4>2. got'[o][c] + 1 <= n /\ put'[o][c] = n /\ got'[o][c] \in Nat
        <5>1. got[o][c] <= put[o][c]
          BY DEF OrderInv, Bounds
        <5>2. got[o][c] \in Nat /\ put[o][c] \in Nat
          BY <1>10
        <5> QED
          BY <1>7, <1>11, <5>1, <5>2
      <4>3. n \in (got'[o][c] + 1) .. put'[o][c]
        BY <4>2
      <4>4. \A j \in (i + 1) .. Len(fifo'[o]) : FALSE
        BY <3>2, <3>3, <3>4
      <4> QED
        BY <1>8, <2>3, <4>1, <4>3, <4>4
    <3>5. CASE i \in 1 .. Len(q)
      <4>1. x = q[i] /\ i \in DOMAIN fifo[o]
        BY <2>3, <3>1, <3>2, <3>3, <3>5
      <4>2. /\ x.chan \in Channels /\ x.msg.n \in Nat
            /\ x.msg.n \in (got[o][x.chan] + 1) .. put[o][x.chan]
            /\ \A j \in (i + 1) .. Len(q) : q[j].chan = x.chan => x.msg.n < q[j].msg.n
        BY <2>1, <2>3, <3>1, <4>1
      <4>3. x.chan = c => x.msg.n < n
        <5>1. put[o][c] \in Nat /\ got[o][c] \in Nat
          BY <1>10
        <5> QED
          BY <1>7, <4>2, <5>1
      <4>4. x.msg.n \in (got'[o][x.chan] + 1) .. put'[o][x.chan]
        <5>1. PICK g, u : g = got[o][x.chan] /\ u = put[o][x.chan] /\ g \in Nat /\ u \in Nat
          BY <1>10, <4>2
        <5>2. got'[o][x.chan] = g /\ put'[o][x.chan] = IF x.chan = c THEN n ELSE u
          BY <1>11, <4>2, <5>1
        <5> QED
          BY <4>2, <4>3, <5>1, <5>2
      <4>5. ASSUME NEW j \in (i + 1) .. Len(fifo'[o]), fifo'[o][j].chan = x.chan
            PROVE  x.msg.n < fifo'[o][j].msg.n
        <5>1. CASE j = Len(q) + 1
          BY <1>8, <3>2, <3>3, <4>3, <4>5, <5>1
        <5>2. CASE j \in (i + 1) .. Len(q)
          <6>1. fifo'[o][j] = q[j]
            BY <3>2, <3>3, <3>5, <5>2
          <6> QED
            BY <4>2, <4>5, <5>2, <6>1
        <5> QED
          BY <3>2, <3>3, <3>5, <5>1, <5>2
      <4> QED
        BY <2>3, <4>4, <4>5
    <3> QED
      BY <3>3, <3>4, <3>5
  <2> QED
    BY <2>2, <2>3
<1>14. ThreadOrder(t)'
  <2>1. ASSUME NEW i \in DOMAIN ObserversOf[c]
        PROVE  IF i < next[t] + 1 THEN put'[ObserversOf[c][i]][c] >= n
                                  ELSE put'[ObserversOf[c][i]][c] < n
    <3>1. ObserversOf[c][i] \in Observers /\ (i # next[t] => ObserversOf[c][i] # o)
      BY <1>2, <1>3, ObserversAssumption
    <3>2. CASE i = next[t]
      BY <1>2, <1>3, <1>11, <3>2
    <3>3. CASE i # next[t]
      <4>1. put'[ObserversOf[c][i]][c] = put[ObserversOf[c][i]][c]
        BY <1>11, <3>1, <3>3
      <4>2. (i < next[t] + 1) <=> (i < next[t])
        BY <1>2, <3>3
      <4> QED
        BY <1>7, <4>1, <4>2
    <3> QED
      BY <3>2, <3>3
  <2>2. Served(t)'
    BY <1>1, <1>4, <1>6, <1>7, <1>10, <2>1 DEF Served
  <2>3. PICK f, d, k : f = ret[t].err /\ d = ret[t].chan /\ k = ret[t].n
    OBVIOUS
  <2>4. ret[t].op = "pub" => Told(f, d, k)'
    BY <2>3, ToldKept DEF OrderInv, ThreadOrder, TypeInv, TypeOK, Results
  <2> QED
    BY <1>1, <1>6, <1>7, <2>2, <2>3, <2>4 DEF ThreadOrder
<1>15. ASSUME NEW u \in Threads, u # t PROVE ThreadOrder(u)'
  <2>1. pc[u] \in Holding => chan[u] \in Channels /\ owner[chan[u]] = u
    BY DEF Holding, TypeInv, PcShape, InPub, InRead, OrderInv, ThreadOrder
  <2>2. pc[u] \in Holding => chan[u] # c
    BY <1>7, <1>15, <2>1
  <2> QED
    BY <1>6, <1>10, <1>11, <1>15, <2>1, <2>2, OtherOrder DEF Holding
<1> QED
  BY <1>9, <1>12, <1>13, <1>14, <1>15 DEF OrderInv

\* An observer's oldest message is taken: newer ones of its channel follow.
LEMMA GetOrder ==
  ASSUME TypeInv, TypeInv', OrderInv, [Next]_vars, NEW t \in Threads, WaitGet(t)
  PROVE  OrderInv'
<1>1. PICK o \in Observers : o = obs[t] /\ fifo[o] # <<>>
  BY DEF WaitGet, Dequeue, TypeInv, PcShape
<1>2. PICK q \in Seq(Entries) : q = fifo[o] /\ q # <<>>
  BY <1>1 DEF TypeInv, TypeOK
<1>3. PICK e \in Entries : e = Head(q)
  BY <1>2
<1>4. PICK c \in Channels, n \in Nat : c = e.chan /\ n = e.msg.n
  BY DEF Entries, Messages
<1>5. /\ got' = [got EXCEPT ![o][c] = n]
      /\ fifo' = [fifo EXCEPT ![o] = Tail(q)]
      /\ pc'[t] = "wait_ret"
      /\ UNCHANGED <<ret, owner, next, memory, pubs, put>>
      /\ \A u \in Threads \ {t} : /\ pc'[u] = pc[u] /\ chan'[u] = chan[u]
                                  /\ buf'[u] = buf[u] /\ err'[u] = err[u]
  BY <1>1, <1>2, <1>3, <1>4 DEF WaitGet, Dequeue, Answer, Goto, TypeInv, TypeOK
<1>6. /\ put \in [Observers -> [Channels -> Nat]]
      /\ got \in [Observers -> [Channels -> Nat]]
      /\ fifo \in [Observers -> Seq(Entries)]
  BY DEF TypeInv, TypeOK
<1>7. \A p \in Observers, d \in Channels :
        got'[p][d] = IF p = o /\ d = c THEN n ELSE got[p][d]
  BY <1>5, <1>6
<1>8. ASSUME NEW p \in Observers, NEW k \in DOMAIN fifo[p]
      PROVE  /\ fifo[p][k].chan \in Channels /\ fifo[p][k].msg.n \in Nat
             /\ fifo[p][k].msg.n \in (got[p][fifo[p][k].chan] + 1) .. put[p][fifo[p][k].chan]
             /\ \A j \in (k + 1) .. Len(fifo[p]) :
                  fifo[p][j].chan = fifo[p][k].chan => fifo[p][k].msg.n < fifo[p][j].msg.n
  BY EntryTypes DEF OrderInv, DeliveredInOrder
<1>9. /\ Len(q) \in Nat \ {0} /\ DOMAIN q = 1 .. Len(q) /\ q[1] = e
      /\ Len(Tail(q)) = Len(q) - 1 /\ DOMAIN Tail(q) = 1 .. (Len(q) - 1)
      /\ \A k \in 1 .. (Len(q) - 1) : Tail(q)[k] = q[k + 1]
  BY <1>2, <1>3
<1>10. n <= put[o][c] /\ \A j \in 2 .. Len(q) : q[j].chan = c => n < q[j].msg.n
  <2>1. 1 \in DOMAIN fifo[o]
    BY <1>2, <1>9
  <2>2. n \in (got[o][c] + 1) .. put[o][c]
    BY <1>2, <1>4, <1>8, <1>9, <2>1
  <2>3. \A j \in (1 + 1) .. Len(q) : q[j].chan = c => n < q[j].msg.n
    BY <1>2, <1>4, <1>8, <1>9, <2>1
  <2>4. put[o][c] \in Nat /\ got[o][c] \in Nat
    BY <1>6
  <2> QED
    BY <2>2, <2>3, <2>4
<1>11. MemoryIsLast'
  BY <1>5 DEF OrderInv, MemoryIsLast
<1>12. Bounds'
  <2> SUFFICES ASSUME NEW p \in Observers, NEW d \in Channels
               PROVE  got'[p][d] <= put'[p][d] /\ put'[p][d] <= Len(pubs'[d])
    BY DEF Bounds
  <2>1. got[p][d] <= put[p][d] /\ put[p][d] <= Len(pubs[d])
    BY DEF OrderInv, Bounds
  <2> QED
    BY <1>5, <1>7, <1>10, <2>1
<1>13. DeliveredInOrder'
  <2> SUFFICES ASSUME NEW p \in Observers, NEW i \in DOMAIN fifo'[p], NEW x, x = fifo'[p][i]
               PROVE  /\ x.msg.n \in (got'[p][x.chan] + 1) .. put'[p][x.chan]
                      /\ \A j \in (i + 1) .. Len(fifo'[p]) :
                           fifo'[p][j].chan = x.chan => x.msg.n < fifo'[p][j].msg.n
    BY DEF DeliveredInOrder
  <2>1. CASE p # o
    <3>1. fifo'[p] = fifo[p]
      BY <1>5, <1>6, <2>1
    <3> QED
      BY <1>5, <1>7, <1>8, <2>1, <3>1
  <2>2. CASE p = o
    <3>1. fifo'[o] = Tail(q)
      BY <1>5, <1>6
    <3>2. i \in 1 .. (Len(q) - 1) /\ i + 1 \in 2 .. Len(q) /\ x = q[i + 1]
      BY <1>9, <2>2, <3>1
    <3>3. i + 1 \in DOMAIN fifo[o]
      BY <1>2, <1>9, <3>2
    <3>4. /\ x.chan \in Channels /\ x.msg.n \in Nat
          /\ x.msg.n \in (got[o][x.chan] + 1) .. put[o][x.chan]
          /\ \A j \in (i + 1 + 1) .. Len(q) : q[j].chan = x.chan => x.msg.n < q[j].msg.n
      BY <1>2, <1>8, <3>2, <3>3
    <3>5. x.msg.n \in (got'[o][x.chan] + 1) .. put'[o][x.chan]
      <4>1. x.chan = c => n < x.msg.n
        BY <1>10, <3>2
      <4>2. PICK g, u : g = got[o][x.chan] /\ u = put[o][x.chan] /\ g \in Nat /\ u \in Nat
        BY <1>6, <3>4
      <4>3. got'[o][x.chan] = IF x.chan = c THEN n ELSE g
        BY <1>7, <3>4, <4>2
      <4>4. put'[o][x.chan] = u
        BY <1>5, <4>2
      <4>5. x.msg.n \in (g + 1) .. u
        BY <3>4, <4>2
      <4>6. x.msg.n \in ((IF x.chan = c THEN n ELSE g) + 1) .. u
        BY <3>4, <4>1, <4>2, <4>5
      <4> QED
        BY <4>3, <4>4, <4>6
    <3>6. ASSUME NEW j \in (i + 1) .. Len(fifo'[o]), fifo'[o][j].chan = x.chan
          PROVE  x.msg.n < fifo'[o][j].msg.n
      <4>l. Len(Tail(q)) = Len(q) - 1
        BY <1>9
      <4>m. Len(fifo'[o]) = Len(q) - 1
        BY <3>1, <4>l
      <4>n. j \in (i + 1) .. (Len(q) - 1)
        BY <3>6, <4>m
      <4>1. j \in 1 .. (Len(q) - 1) /\ j + 1 \in (i + 1 + 1) .. Len(q)
        BY <1>9, <3>2, <4>n
      <4>2. fifo'[o][j] = q[j + 1]
        BY <1>9, <3>1, <4>1
      <4> QED
        BY <3>4, <3>6, <4>1, <4>2
    <3> QED
      BY <2>2, <3>5, <3>6
  <2> QED
    BY <2>1, <2>2
<1>14. ThreadOrder(t)'
  <2>1. next'[t] = 0
    BY <1>5 DEF WaitGet, OrderInv, ThreadOrder
  <2>2. PICK f, d, k : f = ret[t].err /\ d = ret[t].chan /\ k = ret[t].n
    OBVIOUS
  <2>3. ret[t].op = "pub" => Told(f, d, k)'
    BY <2>2, ToldKept DEF OrderInv, ThreadOrder, TypeInv, TypeOK, Results
  <2> QED
    BY <1>5, <2>1, <2>2, <2>3 DEF ThreadOrder, Holding
<1>15. ASSUME NEW u \in Threads, u # t PROVE ThreadOrder(u)'
  BY <1>5, <1>15, OtherOrder
<1> QED
  BY <1>11, <1>12, <1>13, <1>14, <1>15 DEF OrderInv

LEMMA OrderStep == TypeInv /\ OrderInv /\ [Next]_vars => OrderInv'
<1> SUFFICES ASSUME TypeInv, OrderInv, [Next]_vars PROVE OrderInv'
  OBVIOUS
<1>t. TypeInv'
  BY TypeStep
<1>1. CASE UNCHANGED vars
  <2>1. \A u \in Threads : ThreadOrder(u)'
    BY <1>1, <1>t, OtherOrder DEF vars, lvars, zvars, hvars
  <2> QED
    BY <1>1, <2>1 DEF vars, zvars, hvars, OrderInv, MemoryIsLast, Bounds, DeliveredInOrder
<1>2. ASSUME NEW c \in Channels, FindMaxMsgSize(c) PROVE OrderInv'
  <2>1. \A u \in Threads : ThreadOrder(u)'
    BY <1>2, <1>t, OtherOrder DEF FindMaxMsgSize, lvars, zvars, hvars
  <2> QED
    BY <1>2, <2>1 DEF FindMaxMsgSize, zvars, hvars, OrderInv, MemoryIsLast, Bounds,
       DeliveredInOrder
<1>3. ASSUME NEW t \in Threads, Call(t) PROVE OrderInv'
  <2> USE ResultTypes, <1>t
  <2>1. ASSUME NEW r \in Results, pc[t] = "idle", Return(t, r), UNCHANGED <<zvars, hvars>>,
               r.op = "pub" => r.err = "ENOMEM" \/ (r.err = "EINVAL" /\ r.n = 0)
        PROVE  OrderInv'
    BY <2>1, ReturnOrder DEF Told
  <2>2. CASE BadArguments(t)
    BY <2>1, <2>2 DEF BadArguments, Ready, Refuse, Raised, NoMessage
  <2>3. CASE PubNoMemory(t) \/ ReadNoMemory(t) \/ WaitNoMemory(t)
    BY <2>1, <2>3 DEF PubNoMemory, ReadNoMemory, WaitNoMemory, Ready, Refuse, NoMessage
  <2>4. ASSUME NEW c \in Channels, PubNoDescr(t, c) PROVE OrderInv'
    BY <2>1, <2>4 DEF PubNoDescr, Ready, Refuse, NoMessage
  <2>5. ASSUME NEW c \in Channels, PubRaise(t, c) PROVE OrderInv'
    BY <2>1, <2>5 DEF PubRaise, Ready, Raise, Raised, NoMessage
  <2>6. ASSUME pc[t] = "idle", UNCHANGED <<zvars, hvars>>,
               pc'[t] \in {"pub_lock", "read_lock", "wait_get"},
               ret'[t] = NoResult, buf'[t].n = buf[t].n,
               \A u \in Threads \ {t} :
                 /\ pc'[u] = pc[u] /\ chan'[u] = chan[u] /\ buf'[u] = buf[u]
                 /\ err'[u] = err[u] /\ ret'[u] = ret[u]
        PROVE  OrderInv'
    <3>1. ThreadOrder(t)'
      BY <2>6 DEF OrderInv, ThreadOrder, Holding, NoResult, NoMessage, zvars
    <3> QED
      BY <2>6, <3>1, QuietOrder DEF zvars, hvars
  <2>7. ASSUME NEW c \in Channels, NEW tab \in Tables, PubBegin(t, c, tab) PROVE OrderInv'
    <3>1. buf'[t].n = buf[t].n
      BY <2>7 DEF PubBegin, TypeInv, TypeOK, Messages
    <3> QED
      BY <2>6, <2>7, <3>1 DEF PubBegin, Ready, Goto, TypeInv, TypeOK
  <2>8. ASSUME NEW c \in Channels, ReadBegin(t, c) PROVE OrderInv'
    BY <2>6, <2>8 DEF ReadBegin, Ready, Goto, TypeInv, TypeOK
  <2>9. ASSUME NEW o \in Observers, WaitBegin(t, o) PROVE OrderInv'
    BY <2>6, <2>9 DEF WaitBegin, Ready, Goto, TypeInv, TypeOK
  <2> QED
    BY <1>3, <2>2, <2>3, <2>4, <2>5, <2>7, <2>8, <2>9 DEF Call
<1>4. ASSUME NEW t \in Threads, Step(t) PROVE OrderInv'
  <2>k. ThreadOrder(t) /\ (pc[t] \in InPub \cup InRead => chan[t] \in Channels)
    BY DEF OrderInv, TypeInv, PcShape
  <2> USE <1>t DEF TypeInv, TypeOK
  <2>1. CASE PubLock(t)
    BY <2>1, LockOrder
  <2>2. CASE PubLockTimeout(t)
    BY <2>2, <2>k, MoveOrder DEF PubLockTimeout, Answer, Goto, Local, zvars, hvars,
       ThreadOrder, Told, Holding
  <2>3. CASE PubTakeBuffer(t)
    <3>1. Served(t)'
      BY <2>3, <2>k, ObserversAssumption DEF PubTakeBuffer, TakeBuffer, Local, hvars,
         ThreadOrder, Served, InPub
    <3> QED
      BY <2>3, <2>k, <3>1, MoveOrder DEF PubTakeBuffer, TakeBuffer, Goto, Local, hvars,
         ThreadOrder, Holding
  <2>4. CASE PubNotify(t)
    BY <2>4, NotifyOrder
  <2>5. CASE PubPoolTimeout(t)
    BY <2>5, <2>k, MoveOrder DEF PubPoolTimeout, Unlock, Answer, Goto, Local, hvars,
       ThreadOrder, Told, Holding, InPub
  <2>6. CASE PubDone(t)
    <3>1. Told("OK", chan[t], buf[t].n)
      BY <2>6, <2>k, ObserversAssumption, SMTT(30) DEF PubDone, Notified, ThreadOrder, Served, Told, InPub
    <3> QED
      BY <2>6, <2>k, <3>1, MoveOrder DEF PubDone, Unlock, Answer, Goto, Local, hvars,
         ThreadOrder, Holding, InPub
  <2>7. CASE PubReturn(t)
    <3> DEFINE r == [op |-> "pub", err |-> err[t], chan |-> chan[t],
                     tab |-> Nil, n |-> buf[t].n]
    <3>1. r \in Results
      BY <2>7 DEF PubReturn, Results, Messages
    <3>2. Told(r.err, r.chan, r.n)
      BY <2>7, <2>k DEF PubReturn, ThreadOrder
    <3> QED
      BY <2>7, <3>1, <3>2, ReturnOrder DEF PubReturn
  <2>8. CASE ReadLock(t)
    BY <2>8, <2>k, MoveOrder DEF ReadLock, Lock, Goto, Local, hvars, ThreadOrder, Holding, InRead
  <2>9. CASE ReadLockTimeout(t)
    BY <2>9, <2>k, MoveOrder DEF ReadLockTimeout, Answer, Goto, Local, zvars, hvars,
       ThreadOrder, Holding
  <2>10. CASE ReadCopy(t)
    <3>1. ThreadOrder(t)'
      <4>1. PICK f, d, k : f = ret[t].err /\ d = ret[t].chan /\ k = ret[t].n
        OBVIOUS
      <4>2. ret[t].op = "pub" => Told(f, d, k)'
        BY <2>k, <4>1, ToldKept DEF ThreadOrder, Results
      <4> QED
        BY <2>10, <4>1, <4>2 DEF ReadCopy, Unlock, Answer, Goto, Local, ThreadOrder, Holding
    <3>2. \A c \in Channels : owner'[c] = owner[c] \/ owner[c] = t
      BY <2>10, <2>k DEF ReadCopy, Unlock, ThreadOrder, Holding, InRead
    <3> QED
      BY <2>10, <3>1, <3>2, QuietOrder DEF ReadCopy, Unlock, Answer, Goto, Local, hvars
  <2>11. CASE ReadReturn(t)
    <3> DEFINE r == [op |-> "read", err |-> err[t], chan |-> chan[t],
                     tab |-> ToTable(chan[t], buf[t].body), n |-> buf[t].n]
    <3>1. r \in Results
      BY <2>11, ToTableType DEF ReadReturn, Results, Messages
    <3> QED
      BY <2>11, <3>1, ReturnOrder DEF ReadReturn
  <2>12. CASE ReadRaise(t)
    BY <2>12, ReturnOrder, ResultTypes DEF ReadRaise, Raise, Raised, NoMessage
  <2>13. CASE WaitGet(t)
    BY <2>13, GetOrder
  <2>14. CASE WaitTimeout(t)
    BY <2>14, <2>k, MoveOrder DEF WaitTimeout, Answer, Goto, Local, zvars, hvars,
       ThreadOrder, Holding
  <2>15. CASE WaitReturn(t)
    <3>1. PICK r \in Results : Return(t, r) /\ r.op = "wait"
      <4>1. CASE err[t] = "OK"
        <5> DEFINE r == [op |-> "wait", err |-> "OK", chan |-> chan[t],
                         tab |-> ToTable(chan[t], buf[t].body), n |-> buf[t].n]
        <5>1. r \in Results
          BY ToTableType DEF Results, Messages
        <5> QED
          BY <2>15, <4>1, <5>1 DEF WaitReturn
      <4>2. CASE err[t] # "OK"
        <5>1. NoMessage("wait", err[t], Nil) \in Results
          BY ResultTypes
        <5>2. Return(t, NoMessage("wait", err[t], Nil))
          BY <2>15, <4>2 DEF WaitReturn
        <5> QED
          BY <5>1, <5>2 DEF NoMessage
      <4> QED
        BY <4>1, <4>2
    <3> QED
      BY <2>15, <3>1, ReturnOrder DEF WaitReturn
  <2>16. CASE WaitRaise(t)
    BY <2>16, ReturnOrder, ResultTypes DEF WaitRaise, Raise, Raised, NoMessage
  <2> QED
    BY <1>4, <2>1, <2>2, <2>3, <2>4, <2>5, <2>6, <2>7, <2>8, <2>9, <2>10,
       <2>11, <2>12, <2>13, <2>14, <2>15, <2>16 DEF Step
<1> QED
  BY <1>1, <1>2, <1>3, <1>4 DEF Next

(***************************************************************************)
(* The theorems.                                                           *)
(***************************************************************************)

LEMMA OrderInvariant == Spec => [](TypeInv /\ OrderInv)
<1>1. Init => TypeInv /\ OrderInv
  BY TypeInit, OrderInit
<1>2. (TypeInv /\ OrderInv) /\ [Next]_vars => (TypeInv /\ OrderInv)'
  BY TypeStep, OrderStep
<1> QED
  BY <1>1, <1>2, PTL DEF Spec

\* The error code of channel:pub tells whether the message was stored and
\* queued for every observer, or never stored.
THEOREM PubErrIsTrue == Spec => []PubErrTellsTheTruth
<1>1. TypeInv /\ OrderInv => PubErrTellsTheTruth
  BY DEF OrderInv, ThreadOrder, Told, PubErrTellsTheTruth
<1> QED
  BY <1>1, OrderInvariant, PTL

\* Each observer gets the messages of a channel in the order in which they
\* were stored, and none twice.
THEOREM DeliveryIsOrdered == Spec => []DeliveredInOrder
<1>1. TypeInv /\ OrderInv => DeliveredInOrder
  BY DEF OrderInv
<1> QED
  BY <1>1, OrderInvariant, PTL

-----------------------------------------------------------------------------
(***************************************************************************)
(* The binding over zbus implements ChannelApi.  The invariants of the two *)
(* parts above say what a publication has stored and whom it has served;   *)
(* LocalsInv adds what the locals of a call hold before it has an answer.  *)
(* Every action maps to one action of the interface, except those that     *)
(* take a semaphore or a buffer, which no script sees.                     *)
(***************************************************************************)

\* What a thread's locals hold between calls and before a wait is answered.
LocalsOf(t) ==
  /\ pc[t] = "idle" => chan[t] = Nil /\ obs[t] = Nil /\ arg[t] = Nil
  /\ pc[t] = "wait_get" \/ (pc[t] = "wait_ret" /\ err[t] # "OK") =>
       chan[t] = Nil /\ buf[t].n = 0

LocalsInv == \A t \in Threads : LocalsOf(t)

LEMMA LocalsInit == Init => LocalsInv
BY DEF Init, LocalsInv, LocalsOf

LEMMA LocalsStep == TypeInv /\ OrderInv /\ LocalsInv /\ [Next]_vars => LocalsInv'
<1> SUFFICES ASSUME TypeInv, OrderInv, LocalsInv, [Next]_vars PROVE LocalsInv'
  OBVIOUS
<1>1. ASSUME NEW u \in Threads, pc'[u] = pc[u], chan'[u] = chan[u], obs'[u] = obs[u],
             arg'[u] = arg[u], buf'[u] = buf[u], err'[u] = err[u]
      PROVE  LocalsOf(u)'
  BY <1>1 DEF LocalsInv, LocalsOf
<1>2. CASE UNCHANGED vars
  BY <1>1, <1>2 DEF vars, lvars, LocalsInv
<1>3. ASSUME NEW c \in Channels, FindMaxMsgSize(c) PROVE LocalsInv'
  BY <1>1, <1>3 DEF FindMaxMsgSize, lvars, LocalsInv
<1>t. /\ pc \in [Threads -> PCs] /\ chan \in [Threads -> Channels \cup {Nil}]
      /\ obs \in [Threads -> Observers \cup {Nil}] /\ arg \in [Threads -> Tables \cup {Nil}]
      /\ buf \in [Threads -> Messages]
      /\ err \in [Threads -> {"OK", "ENOMEM", "EAGAIN", "ENOMSG"}]
  BY DEF TypeInv, TypeOK
<1>4. ASSUME NEW t \in Threads, NEW r, Return(t, r) PROVE LocalsInv'
  <2>1. LocalsOf(t)'
    BY <1>4, <1>t DEF Return, LocalsOf
  <2>2. ASSUME NEW u \in Threads, u # t PROVE LocalsOf(u)'
    BY <1>1, <1>4, <1>t, <2>2 DEF Return
  <2> QED
    BY <2>1, <2>2 DEF LocalsInv
<1>5. ASSUME NEW t \in Threads, LocalsOf(t)',
             \A u \in Threads \ {t} :
               /\ pc'[u] = pc[u] /\ chan'[u] = chan[u] /\ obs'[u] = obs[u]
               /\ arg'[u] = arg[u] /\ buf'[u] = buf[u] /\ err'[u] = err[u]
      PROVE  LocalsInv'
  BY <1>1, <1>5 DEF LocalsInv
<1>6. ASSUME NEW t \in Threads, Call(t) PROVE LocalsInv'
  <2>1. ASSUME NEW r, Refuse(t, r) PROVE LocalsInv'
    BY <1>4, <2>1 DEF Refuse
  <2>2. CASE BadArguments(t) \/ PubNoMemory(t) \/ ReadNoMemory(t) \/ WaitNoMemory(t)
    BY <2>1, <2>2 DEF BadArguments, PubNoMemory, ReadNoMemory, WaitNoMemory
  <2>3. ASSUME NEW c \in Channels, PubNoDescr(t, c) \/ PubRaise(t, c) PROVE LocalsInv'
    BY <1>4, <2>1, <2>3 DEF PubNoDescr, PubRaise, Raise
  <2>4. ASSUME NEW c \in Channels, NEW tab \in Tables, PubBegin(t, c, tab) PROVE LocalsInv'
    BY <1>5, <1>t, <2>4 DEF PubBegin, Goto, LocalsOf
  <2>5. ASSUME NEW c \in Channels, ReadBegin(t, c) PROVE LocalsInv'
    BY <1>5, <1>t, <2>5 DEF ReadBegin, Goto, LocalsOf
  <2>6. ASSUME NEW o \in Observers, WaitBegin(t, o) PROVE LocalsInv'
    <3>1. LocalsOf(t)'
      BY <1>t, <2>6 DEF WaitBegin, Ready, Goto, LocalsInv, LocalsOf, OrderInv, ThreadOrder
    <3> QED
      BY <1>5, <1>t, <2>6, <3>1 DEF WaitBegin, Goto
  <2> QED
    BY <1>6, <2>2, <2>3, <2>4, <2>5, <2>6 DEF Call
<1>7. ASSUME NEW t \in Threads, Step(t) PROVE LocalsInv'
  <2>1. CASE PubReturn(t) \/ ReadReturn(t) \/ ReadRaise(t) \/ WaitReturn(t) \/ WaitRaise(t)
    BY <1>4, <2>1 DEF PubReturn, ReadReturn, ReadRaise, WaitReturn, WaitRaise, Raise
  <2>2. CASE PubLock(t) \/ PubTakeBuffer(t) \/ PubNotify(t) \/ ReadLock(t)
    BY <1>5, <1>t, <2>2 DEF PubLock, PubTakeBuffer, PubNotify, ReadLock, Goto, Local, LocalsOf
  <2>3. CASE PubLockTimeout(t) \/ PubPoolTimeout(t) \/ PubDone(t) \/ ReadLockTimeout(t)
             \/ ReadCopy(t)
    BY <1>5, <1>t, <2>3 DEF PubLockTimeout, PubPoolTimeout, PubDone, ReadLockTimeout,
       ReadCopy, Answer, Goto, Local, LocalsOf
  <2>4. CASE WaitGet(t)
    <3>1. LocalsOf(t)'
      BY <1>t, <2>4 DEF WaitGet, Answer, Goto, LocalsOf
    <3> QED
      BY <1>5, <1>t, <2>4, <3>1 DEF WaitGet, Answer, Goto
  <2>5. CASE WaitTimeout(t)
    <3>1. LocalsOf(t)'
      BY <1>t, <2>5 DEF WaitTimeout, Answer, Goto, Local, LocalsInv, LocalsOf
    <3> QED
      BY <1>5, <1>t, <2>5, <3>1 DEF WaitTimeout, Answer, Goto, Local
  <2> QED
    BY <1>7, <2>1, <2>2, <2>3, <2>4, <2>5 DEF Step
<1> QED
  BY <1>2, <1>3, <1>6, <1>7 DEF Next

\* Only t's locals change.
Others(t) ==
  \A u \in Threads \ {t} :
    /\ pc'[u] = pc[u] /\ chan'[u] = chan[u] /\ obs'[u] = obs[u] /\ arg'[u] = arg[u]
    /\ buf'[u] = buf[u] /\ err'[u] = err[u] /\ next'[u] = next[u]

\* A thread whose locals stay is in the same call.
LEMMA CallKept ==
  ASSUME NEW u, pc'[u] = pc[u], chan'[u] = chan[u], obs'[u] = obs[u], arg'[u] = arg[u],
         buf'[u] = buf[u], err'[u] = err[u], next'[u] = next[u]
  PROVE  CallOf(u)' = CallOf(u)
BY DEF CallOf

LEMMA CallMoves ==
  ASSUME NEW t \in Threads, Others(t), NEW k, CallOf(t)' = k
  PROVE  Api!Goes(t, k)
<1>1. \A u \in Threads : CallOf(u)' = IF u = t THEN k ELSE CallOf(u)
  BY CallKept DEF Others
<1> QED
  BY <1>1 DEF Api!Goes

\* A call that goes on keeps its operation, its observer and its table.
LEMMA CallGoesOn ==
  ASSUME NEW t \in Threads, Others(t), NEW c, NEW n, NEW e, NEW left, NEW k, CallOf(t) = k,
         CallOf(t)' = [op |-> k.op, chan |-> c, obs |-> k.obs, tab |-> k.tab,
                       n |-> n, err |-> e, left |-> left]
  PROVE  Api!GoesOn(t, c, n, e, left)
<1>1. [u \in Threads |-> CallOf(u)][t] = k
  OBVIOUS
<1>2. Api!Goes(t, [op |-> k.op, chan |-> c, obs |-> k.obs, tab |-> k.tab,
                   n |-> n, err |-> e, left |-> left])
  BY CallMoves
<1> QED
  BY <1>1, <1>2 DEF Api!GoesOn

LEMMA CallStays ==
  ASSUME NEW t \in Threads, Others(t), CallOf(t)' = CallOf(t)
  PROVE  UNCHANGED [u \in Threads |-> CallOf(u)]
<1>1. \A u \in Threads : CallOf(u)' = CallOf(u)
  BY CallKept DEF Others
<1> QED
  BY <1>1

LEMMA InboxKept ==
  ASSUME UNCHANGED fifo
  PROVE  UNCHANGED [o \in Observers |-> InboxOf(o)]
BY DEF InboxOf

\* Between calls a thread's call is no call.
LEMMA IdleCall ==
  ASSUME TypeInv, OrderInv, LocalsInv, NEW t \in Threads, pc[t] = "idle"
  PROVE  CallOf(t) = Api!Idle
<1>1. chan[t] = Nil /\ obs[t] = Nil /\ arg[t] = Nil /\ buf[t].n = 0
  BY DEF LocalsInv, LocalsOf, OrderInv, ThreadOrder
<1> QED
  BY <1>1 DEF CallOf, Api!Idle, Api!Request

\* The message is stored when its bytes are copied in.
LEMMA MapLock ==
  ASSUME TypeInv, OrderInv, NEW t \in Threads, PubLock(t)
  PROVE  Api!Publishes(t)
<1> DEFINE All(d) == {ObserversOf[d][i] : i \in DOMAIN ObserversOf[d]}
<1>1. PICK c \in Channels : c = chan[t]
  BY DEF PubLock, TypeInv, PcShape, InPub
<1>2. PICK k : k = CallOf(t)
  OBVIOUS
<1>3. [u \in Threads |-> CallOf(u)][t] = k
  BY <1>2
<1>4. /\ k.op = "pub" /\ k.chan = c /\ k.obs = obs[t] /\ k.tab = arg[t] /\ k.n = 0
      /\ k.err = "open"
  BY <1>1, <1>2 DEF PubLock, CallOf, OrderInv, ThreadOrder
<1>5. Others(t) /\ UNCHANGED fifo /\ UNCHANGED put /\ UNCHANGED ret
  BY DEF PubLock, LockAndCopy, Goto, Local, Others, TypeInv, TypeOK
<1>6. pubs' = [pubs EXCEPT ![c] = Append(@, arg[t])]
  BY <1>1 DEF PubLock
<1>7. CallOf(t)' = [op |-> k.op, chan |-> c, obs |-> k.obs, tab |-> k.tab,
                    n |-> Len(pubs[c]) + 1, err |-> "open", left |-> All(c)]
  <2>1. /\ pc'[t] = "pub_alloc" /\ chan'[t] = c /\ obs'[t] = obs[t] /\ arg'[t] = arg[t]
        /\ next'[t] = 0 /\ buf'[t].n = Len(pubs[c]) + 1
    BY <1>1 DEF PubLock, LockAndCopy, Goto, Local, TypeInv, TypeOK, OrderInv, ThreadOrder
  <2>2. {i \in DOMAIN ObserversOf[c] : i >= next'[t]} = DOMAIN ObserversOf[c]
    BY <2>1, ObserversAssumption
  <2> QED
    BY <1>4, <2>1, <2>2 DEF CallOf
<1>8. Api!GoesOn(t, c, Len(pubs[c]) + 1, "open", All(c))
  BY <1>2, <1>5, <1>7, CallGoesOn
<1>9. [d \in Channels |-> All(d)][c] = All(c)
  OBVIOUS
<1>10. UNCHANGED [o \in Observers |-> InboxOf(o)]
  BY <1>5, InboxKept
<1>11. Api!Store(t)
  BY <1>3, <1>4, <1>5, <1>6, <1>8, <1>9, <1>10 DEF Api!Store
<1> QED
  BY <1>3, <1>4, <1>5, <1>11 DEF Api!Publishes

\* What an inbox tells of a queue's entry.
Note(e) == [chan |-> e.chan, n |-> e.msg.n]

Notes == [chan : Channels, n : Nat]

LEMMA NotesOf ==
  ASSUME NEW q \in Seq(Entries)
  PROVE  /\ [i \in DOMAIN q |-> Note(q[i])] \in Seq(Notes)
         /\ Len([i \in DOMAIN q |-> Note(q[i])]) = Len(q)
<1>1. PICK k \in Nat : k = Len(q) /\ DOMAIN q = 1 .. k
  BY LenProperties
<1>2. ASSUME NEW i \in 1 .. k PROVE Note(q[i]) \in Notes
  <2>1. q[i] \in Entries
    BY <1>1, ElementOfSeq
  <2> QED
    BY <2>1 DEF Note, Notes, Entries, Messages
<1>3. PICK f : f = [i \in 1 .. k |-> Note(q[i])]
  OBVIOUS
<1>4. f \in [1 .. k -> Notes]
  BY <1>2, <1>3
<1>5. f \in Seq(Notes)
  BY <1>4, SeqDef
<1>6. DOMAIN f = 1 .. k
  BY <1>3
<1>7. Len(f) \in Nat /\ DOMAIN f = 1 .. Len(f)
  BY <1>5, LenProperties
<1>8. Len(f) = k
  BY <1>6, <1>7
<1> QED
  BY <1>1, <1>3, <1>5, <1>8

LEMMA InboxFacts ==
  ASSUME TypeInv, NEW o \in Observers
  PROVE  /\ InboxOf(o) \in Seq(Notes) /\ Len(InboxOf(o)) = Len(fifo[o])
         /\ \A i \in 1 .. Len(fifo[o]) : InboxOf(o)[i] = Note(fifo[o][i])
<1>1. fifo[o] \in Seq(Entries)
  BY DEF TypeInv, TypeOK
<1> QED
  BY <1>1, NotesOf, LenProperties DEF InboxOf, Note

LEMMA InboxFactsNext ==
  ASSUME TypeInv', NEW o \in Observers
  PROVE  /\ InboxOf(o)' \in Seq(Notes) /\ Len(InboxOf(o)') = Len(fifo'[o])
         /\ \A i \in 1 .. Len(fifo'[o]) : InboxOf(o)'[i] = Note(fifo'[o][i])
<1>1. fifo'[o] \in Seq(Entries)
  BY DEF TypeInv, TypeOK
<1> QED
  BY <1>1, NotesOf, LenProperties DEF InboxOf, Note

\* A queue that grows is an inbox that grows, and the same when it shrinks.
LEMMA InboxGrows ==
  ASSUME TypeInv, TypeInv', NEW o \in Observers, NEW c \in Channels, NEW m \in Messages,
         fifo' = [fifo EXCEPT ![o] = Append(@, [chan |-> c, msg |-> m])]
  PROVE  [p \in Observers |-> InboxOf(p)]'
           = [[p \in Observers |-> InboxOf(p)] EXCEPT ![o] = Append(@, [chan |-> c, n |-> m.n])]
<1>1. fifo \in [Observers -> Seq(Entries)]
  BY DEF TypeInv, TypeOK
<1>2. ASSUME NEW p \in Observers, p # o PROVE InboxOf(p)' = InboxOf(p)
  BY <1>1, <1>2 DEF InboxOf
<1>3. InboxOf(o)' = Append(InboxOf(o), [chan |-> c, n |-> m.n])
  <2>1. PICK q \in Seq(Entries), k \in Nat : q = fifo[o] /\ k = Len(q)
    BY <1>1
  <2>2. PICK e \in Entries : e = [chan |-> c, msg |-> m]
    BY DEF Entries
  <2>3. PICK a \in Notes : a = [chan |-> c, n |-> m.n] /\ a = Note(e)
    BY <2>2 DEF Note, Notes, Messages
  <2>4. fifo'[o] = Append(q, e)
    BY <1>1, <2>1, <2>2
  <2>5. PICK b \in Seq(Notes) :
          b = InboxOf(o) /\ Len(b) = k /\ \A i \in 1 .. k : b[i] = Note(q[i])
    BY <2>1, InboxFacts
  <2>6. Len(Append(q, e)) = k + 1 /\ \A i \in 1 .. (k + 1) :
          Append(q, e)[i] = IF i <= k THEN q[i] ELSE e
    BY <2>1
  <2>7. PICK d \in Seq(Notes) : d = Append(b, a)
    BY AppendProperties
  <2>8. Len(d) = k + 1 /\ \A i \in 1 .. (k + 1) : d[i] = IF i <= k THEN b[i] ELSE a
    BY <2>5, <2>7
  <2>9. PICK g \in Seq(Notes) : g = InboxOf(o)' /\ Len(g) = k + 1
                                /\ \A i \in 1 .. (k + 1) : g[i] = Note(Append(q, e)[i])
    BY <2>4, <2>6, InboxFactsNext
  <2>10. \A i \in 1 .. (k + 1) : g[i] = d[i]
    BY <2>3, <2>5, <2>6, <2>8, <2>9
  <2>11. g = d
    BY <2>8, <2>9, <2>10, SeqEqual
  <2> QED
    BY <2>3, <2>5, <2>7, <2>9, <2>11
<1> QED
  BY <1>2, <1>3

LEMMA InboxShrinks ==
  ASSUME TypeInv, TypeInv', NEW o \in Observers, fifo[o] # <<>>,
         fifo' = [fifo EXCEPT ![o] = Tail(@)]
  PROVE  /\ InboxOf(o) # <<>>
         /\ Head(InboxOf(o)) = Note(Head(fifo[o]))
         /\ [p \in Observers |-> InboxOf(p)]'
              = [[p \in Observers |-> InboxOf(p)] EXCEPT ![o] = Tail(@)]
<1>1. fifo \in [Observers -> Seq(Entries)]
  BY DEF TypeInv, TypeOK
<1>2. ASSUME NEW p \in Observers, p # o PROVE InboxOf(p)' = InboxOf(p)
  BY <1>1, <1>2 DEF InboxOf
<1>3. PICK q \in Seq(Entries), k \in Nat \ {0} : q = fifo[o] /\ k = Len(q) /\ q # <<>>
  BY <1>1
<1>4. PICK b \in Seq(Notes) :
        b = InboxOf(o) /\ Len(b) = k /\ \A i \in 1 .. k : b[i] = Note(q[i])
  BY <1>3, InboxFacts
<1>5. b # <<>> /\ Head(b) = b[1] /\ Head(q) = q[1] /\ 1 \in 1 .. k
  BY <1>3, <1>4
<1>6. InboxOf(o)' = Tail(b)
  <2>1. fifo'[o] = Tail(q)
    BY <1>1, <1>3
  <2>2. Len(Tail(q)) = k - 1 /\ \A i \in 1 .. (k - 1) : Tail(q)[i] = q[i + 1]
    BY <1>3
  <2>3. PICK d \in Seq(Notes) : d = Tail(b)
    BY <1>5, HeadTailProperties
  <2>4. Len(d) = k - 1 /\ \A i \in 1 .. (k - 1) : d[i] = b[i + 1]
    BY <1>4, <1>5, <2>3
  <2>5. PICK g \in Seq(Notes) : g = InboxOf(o)' /\ Len(g) = k - 1
                                /\ \A i \in 1 .. (k - 1) : g[i] = Note(Tail(q)[i])
    <3>1. PICK w : w = Tail(q)
      OBVIOUS
    <3>2. fifo'[o] = w /\ Len(w) = k - 1
      BY <2>1, <2>2, <3>1
    <3>3. /\ InboxOf(o)' \in Seq(Notes) /\ Len(InboxOf(o)') = k - 1
          /\ \A i \in 1 .. (k - 1) : InboxOf(o)'[i] = Note(w[i])
      BY <3>2, InboxFactsNext
    <3> QED
      BY <3>1, <3>3
  <2>6. \A i \in 1 .. (k - 1) : i + 1 \in 1 .. k
    BY <1>3
  <2>7. \A i \in 1 .. (k - 1) : g[i] = d[i]
    BY <1>4, <2>2, <2>4, <2>5, <2>6
  <2>8. g = d
    BY <2>4, <2>5, <2>7, SeqEqual
  <2> QED
    BY <2>3, <2>5, <2>8
<1> QED
  BY <1>2, <1>3, <1>4, <1>5, <1>6

\* The next observer of the list is handed the message.
LEMMA MapNotify ==
  ASSUME TypeInv, TypeInv', OrderInv, NEW t \in Threads, PubNotify(t)
  PROVE  Api!Publishes(t)
<1> DEFINE Rest(d, j) == {ObserversOf[d][i] : i \in {x \in DOMAIN ObserversOf[d] : x >= j}}
<1>1. PICK c \in Channels, j \in Nat :
        c = chan[t] /\ j = next[t] /\ j \in DOMAIN ObserversOf[c]
  BY ObserversAssumption DEF PubNotify, NotifyNext, Notified, TypeInv, TypeOK, PcShape, InPub
<1>2. PICK o \in Observers : o = ObserversOf[c][j]
  BY <1>1, ObserversAssumption
<1>3. PICK n \in Nat, m \in Messages : n = buf[t].n /\ m = memory[c] /\ m.n = n /\ put[o][c] < n
  <2>1. Served(t)
    BY DEF PubNotify, OrderInv, ThreadOrder
  <2>2. memory[c] \in Messages /\ memory[c].n = Len(pubs[c])
    BY DEF OrderInv, MemoryIsLast, TypeInv, TypeOK
  <2>3. buf[t].n \in Nat
    BY DEF TypeInv, TypeOK, Messages
  <2> QED
    BY <1>1, <1>2, <2>1, <2>2, <2>3 DEF Served
<1>4. PICK k : k = CallOf(t)
  OBVIOUS
<1>5. [u \in Threads |-> CallOf(u)][t] = k
  BY <1>4
<1>6. /\ k.op = "pub" /\ k.chan = c /\ k.obs = obs[t] /\ k.tab = arg[t] /\ k.n = n
      /\ k.err = "open" /\ k.left = Rest(c, j)
  BY <1>1, <1>3, <1>4 DEF PubNotify, CallOf
<1>7. Others(t) /\ UNCHANGED pubs /\ UNCHANGED ret
  BY DEF PubNotify, NotifyNext, Local, Others, TypeInv, TypeOK
<1>8. put' = [put EXCEPT ![o][c] = n]
  BY <1>1, <1>2, <1>3 DEF PubNotify
<1>9. fifo' = [fifo EXCEPT ![o] = Append(@, [chan |-> c, msg |-> m])]
  BY <1>1, <1>2, <1>3 DEF PubNotify, NotifyNext
<1>10. [p \in Observers |-> InboxOf(p)]'
         = [[p \in Observers |-> InboxOf(p)] EXCEPT ![o] = Append(@, [chan |-> c, n |-> n])]
  BY <1>3, <1>9, InboxGrows
<1>11. o \in Rest(c, j) /\ Rest(c, j + 1) = Rest(c, j) \ {o}
  <2>1. \A i \in DOMAIN ObserversOf[c] :
          i \in Nat /\ (ObserversOf[c][i] = o => i = j)
    BY <1>1, <1>2, ObserversAssumption
  <2>2. \A i \in DOMAIN ObserversOf[c] : i >= j + 1 <=> (i >= j /\ i # j)
    BY <1>1, <2>1
  <2> QED
    BY <1>1, <1>2, <2>1, <2>2
<1>12. CallOf(t)' = [op |-> k.op, chan |-> c, obs |-> k.obs, tab |-> k.tab,
                     n |-> n, err |-> "open", left |-> Rest(c, j) \ {o}]
  <2>1. /\ pc'[t] = "pub_notify" /\ chan'[t] = c /\ obs'[t] = obs[t] /\ arg'[t] = arg[t]
        /\ next'[t] = j + 1 /\ buf'[t].n = n
    BY <1>1, <1>3 DEF PubNotify, NotifyNext, Local, TypeInv, TypeOK
  <2>2. CallOf(t)' = [op |-> k.op, chan |-> c, obs |-> k.obs, tab |-> k.tab,
                      n |-> n, err |-> "open", left |-> Rest(c, j + 1)]
    BY <1>6, <2>1 DEF CallOf
  <2> QED
    BY <1>11, <2>2
<1>13. Api!GoesOn(t, c, n, "open", k.left \ {o})
  BY <1>4, <1>6, <1>7, <1>12, CallGoesOn
<1>14. Api!Hand(t, o)
  BY <1>3, <1>5, <1>6, <1>7, <1>8, <1>10, <1>11, <1>13 DEF Api!Hand
<1> QED
  BY <1>5, <1>6, <1>7, <1>14 DEF Api!Publishes

\* The answer of a publication is decided.
LEMMA MapDecide ==
  ASSUME TypeInv, OrderInv, NEW t \in Threads,
         PubLockTimeout(t) \/ PubPoolTimeout(t) \/ PubDone(t)
  PROVE  Api!Publishes(t)
<1>1. PICK c, n, e : c = chan[t] /\ n = buf[t].n /\ e = err'[t]
  OBVIOUS
<1>2. PICK k : k = CallOf(t)
  OBVIOUS
<1>3. [u \in Threads |-> CallOf(u)][t] = k
  BY <1>2
<1>4. /\ k.op = "pub" /\ k.chan = c /\ k.obs = obs[t] /\ k.tab = arg[t] /\ k.n = n
      /\ k.err = "open"
  BY <1>1, <1>2 DEF PubLockTimeout, PubPoolTimeout, PubDone, CallOf
<1>5. /\ UNCHANGED pubs /\ UNCHANGED put /\ UNCHANGED ret /\ UNCHANGED fifo
  BY DEF PubLockTimeout, PubPoolTimeout, PubDone, Unlock, Local, zvars, hvars
<1>6. Others(t)
  BY DEF PubLockTimeout, PubPoolTimeout, PubDone, Unlock, Answer, Goto, Local, zvars, Others,
     TypeInv, TypeOK
<1>7. /\ pc'[t] = "pub_ret" /\ chan'[t] = c /\ obs'[t] = obs[t] /\ arg'[t] = arg[t]
      /\ buf'[t].n = n
  BY <1>1 DEF PubLockTimeout, PubPoolTimeout, PubDone, Answer, Goto, Local, TypeInv, TypeOK
<1>8. CallOf(t)' = [op |-> k.op, chan |-> c, obs |-> k.obs, tab |-> k.tab,
                    n |-> n, err |-> e, left |-> {}]
  BY <1>1, <1>4, <1>7 DEF CallOf
<1>9. Api!GoesOn(t, k.chan, k.n, e, {})
  BY <1>2, <1>4, <1>6, <1>8, CallGoesOn
<1>10. UNCHANGED [o \in Observers |-> InboxOf(o)]
  BY <1>5, InboxKept
<1>11. ASSUME e \in {"OK", "ENOMEM", "EAGAIN"},
              CASE e = "OK" -> k.n # 0 /\ k.left = {}
                [] e = "ENOMEM" -> k.n # 0
                [] e = "EAGAIN" -> k.n = 0
       PROVE  Api!Publishes(t)
  <2>1. Api!Decide(t, e)
    BY <1>3, <1>5, <1>9, <1>10, <1>11 DEF Api!Decide
  <2> QED
    BY <1>3, <1>4, <1>5, <1>11, <2>1 DEF Api!Publishes
<1>12. CASE PubLockTimeout(t)
  <2>1. e = "EAGAIN" /\ n = 0
    BY <1>1, <1>12 DEF PubLockTimeout, Answer, TypeInv, TypeOK, OrderInv, ThreadOrder
  <2> QED
    BY <1>4, <1>11, <2>1
<1>13. CASE PubPoolTimeout(t)
  <2>1. e = "ENOMEM" /\ n # 0
    BY <1>1, <1>13 DEF PubPoolTimeout, Answer, TypeInv, TypeOK, OrderInv, ThreadOrder, Served
  <2> QED
    BY <1>4, <1>11, <2>1
<1>14. CASE PubDone(t)
  <2>1. e = "OK" /\ n # 0
    BY <1>1, <1>14 DEF PubDone, Answer, TypeInv, TypeOK, OrderInv, ThreadOrder, Served
  <2>2. k.left = {}
    <3>1. c \in Channels /\ next[t] \in Nat /\ next[t] > Len(ObserversOf[c])
      BY <1>1, <1>14 DEF PubDone, Notified, TypeInv, TypeOK, PcShape, InPub
    <3>2. {i \in DOMAIN ObserversOf[c] : i >= next[t]} = {}
      BY <3>1, ObserversAssumption
    <3> QED
      BY <1>1, <1>2, <1>14, <3>2 DEF PubDone, CallOf
  <2> QED
    BY <1>4, <1>11, <2>1, <2>2
<1> QED
  BY <1>12, <1>13, <1>14

\* Taking the pool's buffer or the semaphore is not seen by any script.
LEMMA MapNothing ==
  ASSUME TypeInv, OrderInv, NEW t \in Threads, PubTakeBuffer(t) \/ ReadLock(t)
  PROVE  UNCHANGED Api!vars
<1>1. UNCHANGED pubs /\ UNCHANGED put /\ UNCHANGED ret /\ UNCHANGED fifo
  BY DEF PubTakeBuffer, TakeBuffer, ReadLock, Lock, Local, hvars
<1>2. Others(t)
  BY DEF PubTakeBuffer, TakeBuffer, ReadLock, Lock, Goto, Local, Others, TypeInv, TypeOK
<1>3. CallOf(t)' = CallOf(t)
  <2>1. CASE PubTakeBuffer(t)
    <3>1. PICK c \in Channels : c = chan[t]
      BY <2>1 DEF PubTakeBuffer, TypeInv, PcShape, InPub
    <3>2. next[t] = 0 /\ next'[t] = 1
      BY <2>1 DEF PubTakeBuffer, TakeBuffer, TypeInv, TypeOK, OrderInv, ThreadOrder
    <3>3. {i \in DOMAIN ObserversOf[c] : i >= next[t]}
            = {i \in DOMAIN ObserversOf[c] : i >= next'[t]}
      BY <3>2, ObserversAssumption
    <3>4. pc[t] = "pub_alloc" /\ pc'[t] = "pub_notify" /\ UNCHANGED <<chan, obs, arg, buf>>
      BY <2>1 DEF PubTakeBuffer, Goto, Local, TypeInv, TypeOK
    <3> QED
      BY <3>1, <3>3, <3>4 DEF CallOf
  <2>2. CASE ReadLock(t)
    <3>1. pc[t] = "read_lock" /\ pc'[t] = "read_copy" /\ UNCHANGED <<chan, obs, arg, buf>>
      BY <2>2 DEF ReadLock, Goto, Local, TypeInv, TypeOK
    <3> QED
      BY <3>1 DEF CallOf
  <2> QED
    BY <2>1, <2>2
<1>4. UNCHANGED [u \in Threads |-> CallOf(u)]
  BY <1>2, <1>3, CallStays
<1>5. UNCHANGED [o \in Observers |-> InboxOf(o)]
  BY <1>1, InboxKept
<1> QED
  BY <1>1, <1>4, <1>5 DEF Api!vars

\* The copy is the moment at which read sees the channel.
LEMMA MapRead ==
  ASSUME TypeInv, OrderInv, NEW t \in Threads, ReadCopy(t) \/ ReadLockTimeout(t)
  PROVE  Api!Reads(t)
<1>1. PICK c \in Channels : c = chan[t]
  BY DEF ReadCopy, ReadLockTimeout, TypeInv, PcShape, InRead
<1>2. PICK k : k = CallOf(t)
  OBVIOUS
<1>3. [u \in Threads |-> CallOf(u)][t] = k
  BY <1>2
<1>4. /\ k.op = "read" /\ k.chan = c /\ k.obs = obs[t] /\ k.tab = arg[t] /\ k.n = buf[t].n
      /\ k.err = "open"
  BY <1>1, <1>2 DEF ReadCopy, ReadLockTimeout, CallOf
<1>5. UNCHANGED pubs /\ UNCHANGED put /\ UNCHANGED ret /\ UNCHANGED fifo
  BY DEF ReadCopy, ReadLockTimeout, Unlock, Local, zvars, hvars
<1>6. Others(t)
  BY DEF ReadCopy, ReadLockTimeout, Unlock, Answer, Goto, Local, zvars, Others, TypeInv, TypeOK
<1>7. pc'[t] = "read_ret" /\ chan'[t] = c /\ obs'[t] = obs[t] /\ arg'[t] = arg[t]
  BY <1>1 DEF ReadCopy, ReadLockTimeout, Answer, Goto, Local, TypeInv, TypeOK
<1>8. UNCHANGED [o \in Observers |-> InboxOf(o)]
  BY <1>5, InboxKept
<1>9. CASE ReadCopy(t)
  <2>1. buf'[t].n = Len(pubs[c]) /\ err'[t] = "OK"
    BY <1>1, <1>9 DEF ReadCopy, Answer, TypeInv, TypeOK, OrderInv, MemoryIsLast
  <2>2. CallOf(t)' = [op |-> k.op, chan |-> c, obs |-> k.obs, tab |-> k.tab,
                      n |-> Len(pubs[c]), err |-> "OK", left |-> {}]
    BY <1>4, <1>7, <2>1 DEF CallOf
  <2>3. Api!GoesOn(t, c, Len(pubs[c]), "OK", {})
    BY <1>2, <1>6, <2>2, CallGoesOn
  <2> QED
    BY <1>3, <1>4, <1>5, <1>8, <2>3 DEF Api!Reads
<1>10. CASE ReadLockTimeout(t)
  <2>1. buf'[t].n = k.n /\ err'[t] = "EAGAIN"
    BY <1>4, <1>10 DEF ReadLockTimeout, Answer, TypeInv, TypeOK
  <2>2. CallOf(t)' = [op |-> k.op, chan |-> c, obs |-> k.obs, tab |-> k.tab,
                      n |-> k.n, err |-> "EAGAIN", left |-> {}]
    BY <1>4, <1>7, <2>1 DEF CallOf
  <2>3. Api!GoesOn(t, c, k.n, "EAGAIN", {})
    BY <1>2, <1>6, <2>2, CallGoesOn
  <2> QED
    BY <1>3, <1>4, <1>5, <1>8, <2>3 DEF Api!Reads
<1> QED
  BY <1>9, <1>10

\* wait_msg takes the oldest message, or finds none until its deadline.
LEMMA MapWait ==
  ASSUME TypeInv, TypeInv', OrderInv, LocalsInv, NEW t \in Threads,
         WaitGet(t) \/ WaitTimeout(t)
  PROVE  Api!Waits(t)
<1>1. PICK o \in Observers : o = obs[t]
  BY DEF WaitGet, WaitTimeout, TypeInv, PcShape
<1>2. PICK k : k = CallOf(t)
  OBVIOUS
<1>3. [u \in Threads |-> CallOf(u)][t] = k
  BY <1>2
<1>4. /\ k.op = "wait" /\ k.chan = chan[t] /\ k.obs = o /\ k.tab = arg[t] /\ k.n = buf[t].n
      /\ k.err = "open"
  BY <1>1, <1>2 DEF WaitGet, WaitTimeout, CallOf
<1>5. UNCHANGED pubs /\ UNCHANGED put /\ UNCHANGED ret
  BY DEF WaitGet, WaitTimeout, Local, hvars
<1>6. Others(t)
  BY DEF WaitGet, WaitTimeout, Dequeue, Answer, Goto, Local, zvars, Others, TypeInv, TypeOK
<1>7. pc'[t] = "wait_ret" /\ obs'[t] = o /\ arg'[t] = arg[t]
  BY <1>1 DEF WaitGet, WaitTimeout, Answer, Goto, Local, TypeInv, TypeOK
<1>i. [p \in Observers |-> InboxOf(p)][o] = InboxOf(o)
  OBVIOUS
<1>8. CASE WaitGet(t)
  <2>1. fifo[o] # <<>> /\ fifo' = [fifo EXCEPT ![o] = Tail(@)]
    BY <1>1, <1>8 DEF WaitGet, Dequeue
  <2>2. PICK h : h = Note(Head(fifo[o]))
    OBVIOUS
  <2>3. /\ InboxOf(o) # <<>> /\ Head(InboxOf(o)) = h
        /\ [p \in Observers |-> InboxOf(p)]'
             = [[p \in Observers |-> InboxOf(p)] EXCEPT ![o] = Tail(@)]
    BY <2>1, <2>2, InboxShrinks
  <2>4. chan'[t] = h.chan /\ buf'[t].n = h.n /\ err'[t] = "OK"
    BY <1>1, <1>8, <2>2 DEF WaitGet, Answer, Note, TypeInv, TypeOK
  <2>5. CallOf(t)' = [op |-> k.op, chan |-> h.chan, obs |-> k.obs, tab |-> k.tab,
                      n |-> h.n, err |-> "OK", left |-> {}]
    BY <1>4, <1>7, <2>4 DEF CallOf
  <2>6. Api!GoesOn(t, h.chan, h.n, "OK", {})
    BY <1>2, <1>6, <2>5, CallGoesOn
  <2>7. Api!Takes(t)
    BY <1>3, <1>4, <1>i, <2>3, <2>6 DEF Api!Takes
  <2> QED
    BY <1>3, <1>4, <1>5, <2>7 DEF Api!Waits
<1>9. CASE WaitTimeout(t)
  <2>1. fifo[o] = <<>> /\ UNCHANGED fifo
    BY <1>1, <1>9 DEF WaitTimeout, zvars
  <2>2. InboxOf(o) = <<>>
    BY <2>1 DEF InboxOf
  <2>3. UNCHANGED [p \in Observers |-> InboxOf(p)]
    BY <2>1, InboxKept
  <2>4. chan'[t] = k.chan /\ buf'[t].n = k.n /\ err'[t] = "ENOMSG"
    BY <1>4, <1>9 DEF WaitTimeout, Answer, Local, TypeInv, TypeOK
  <2>5. CallOf(t)' = [op |-> k.op, chan |-> k.chan, obs |-> k.obs, tab |-> k.tab,
                      n |-> k.n, err |-> "ENOMSG", left |-> {}]
    BY <1>4, <1>7, <2>4 DEF CallOf
  <2>6. Api!GoesOn(t, k.chan, k.n, "ENOMSG", {})
    BY <1>2, <1>6, <2>5, CallGoesOn
  <2>7. Api!TakesNothing(t)
    BY <1>3, <1>4, <1>i, <2>2, <2>3, <2>6 DEF Api!TakesNothing
  <2> QED
    BY <1>3, <1>4, <1>5, <2>7 DEF Api!Waits
<1> QED
  BY <1>8, <1>9

\* A script starts a call, or is refused one.
LEMMA MapCall ==
  ASSUME TypeInv, OrderInv, LocalsInv, NEW t \in Threads, Call(t)
  PROVE  Api!Calls(t)
<1>1. CallOf(t) = Api!Idle
  BY IdleCall DEF Call, BadArguments, PubNoMemory, ReadNoMemory, WaitNoMemory, PubNoDescr,
     PubRaise, PubBegin, ReadBegin, WaitBegin, Ready
<1>2. [u \in Threads |-> CallOf(u)][t] = Api!Idle
  BY <1>1
<1>t. /\ pc \in [Threads -> PCs] /\ chan \in [Threads -> Channels \cup {Nil}]
      /\ obs \in [Threads -> Observers \cup {Nil}] /\ arg \in [Threads -> Tables \cup {Nil}]
      /\ buf \in [Threads -> Messages] /\ ret \in [Threads -> Results]
      /\ err \in [Threads -> {"OK", "ENOMEM", "EAGAIN", "ENOMSG"}]
  BY DEF TypeInv, TypeOK
<1>3. ASSUME UNCHANGED zvars, UNCHANGED hvars, NEW r, Return(t, r), r \in Api!Refusals
      PROVE  Api!Calls(t)
  <2>1. ret' = [ret EXCEPT ![t] = r] /\ Others(t)
    BY <1>t, <1>3 DEF Return, Others, zvars
  <2>2. CallOf(t)' = CallOf(t)
    <3>1. /\ pc'[t] = "idle" /\ chan'[t] = Nil /\ obs'[t] = Nil /\ arg'[t] = Nil
          /\ buf'[t].n = 0
      BY <1>t, <1>3 DEF Return, JunkMsg
    <3>2. CallOf(t)' = Api!Idle
      BY <3>1 DEF CallOf, Api!Idle, Api!Request
    <3> QED
      BY <1>1, <3>2
  <2>3. UNCHANGED [u \in Threads |-> CallOf(u)]
    BY <2>1, <2>2, CallStays
  <2>4. UNCHANGED [o \in Observers |-> InboxOf(o)]
    BY <1>3, InboxKept DEF zvars
  <2>5. UNCHANGED pubs /\ UNCHANGED put
    BY <1>3 DEF hvars
  <2> QED
    BY <1>2, <1>3, <2>1, <2>3, <2>4, <2>5 DEF Api!Calls
<1>4. ASSUME UNCHANGED zvars, UNCHANGED hvars, Others(t), NEW r \in Api!Requests,
             CallOf(t)' = r, ret' = [ret EXCEPT ![t] = NoResult]
      PROVE  Api!Calls(t)
  <2>1. Api!Goes(t, r)
    BY <1>4, CallMoves
  <2>2. UNCHANGED [o \in Observers |-> InboxOf(o)]
    BY <1>4, InboxKept DEF zvars
  <2>3. UNCHANGED pubs /\ UNCHANGED put
    BY <1>4 DEF hvars
  <2>4. NoResult = Api!NoResult
    BY DEF NoResult, NoMessage, Api!NoResult, Api!Result
  <2> QED
    BY <1>2, <1>4, <2>1, <2>2, <2>3, <2>4 DEF Api!Calls
<1>5. CASE BadArguments(t)
  <2>1. Raised \in Api!Refusals
    BY DEF Raised, NoMessage, Api!Refusals, Api!Raised, Api!Result
  <2> QED
    BY <1>3, <1>5, <2>1 DEF BadArguments, Refuse
<1>6. CASE PubNoMemory(t) \/ ReadNoMemory(t) \/ WaitNoMemory(t)
  <2>1. \A op \in {"pub", "read", "wait"} : NoMessage(op, "ENOMEM", Nil) \in Api!Refusals
    BY DEF NoMessage, Api!Refusals, Api!Result
  <2> QED
    BY <1>3, <1>6, <2>1 DEF PubNoMemory, ReadNoMemory, WaitNoMemory, Refuse
<1>7. ASSUME NEW c \in Channels, PubNoDescr(t, c) PROVE Api!Calls(t)
  <2>1. NoMessage("pub", "EINVAL", c) \in Api!Refusals
    BY DEF NoMessage, Api!Refusals, Api!Result
  <2> QED
    BY <1>3, <1>7, <2>1 DEF PubNoDescr, Refuse
<1>8. ASSUME NEW c \in Channels, PubRaise(t, c) PROVE Api!Calls(t)
  <2>1. Raised \in Api!Refusals
    BY DEF Raised, NoMessage, Api!Refusals, Api!Raised, Api!Result
  <2> QED
    BY <1>3, <1>8, <2>1 DEF PubRaise, Raise
<1>9. ASSUME NEW c \in Channels, NEW tab \in Tables, PubBegin(t, c, tab)
      PROVE  Api!Calls(t)
  <2>1. Others(t)
    BY <1>t, <1>9 DEF PubBegin, Goto, Others, zvars
  <2>2. obs[t] = Nil /\ buf[t].n = 0
    BY <1>9 DEF PubBegin, Ready, LocalsInv, LocalsOf, OrderInv, ThreadOrder
  <2>3. buf'[t].n = buf[t].n
    BY <1>t, <1>9 DEF PubBegin, Messages
  <2>4. pc'[t] = "pub_lock" /\ chan'[t] = c /\ obs'[t] = Nil /\ arg'[t] = tab
    BY <1>t, <1>9, <2>2 DEF PubBegin, Goto
  <2>5. CallOf(t)' = Api!Request("pub", c, Nil, tab)
    BY <2>2, <2>3, <2>4 DEF CallOf, Api!Request
  <2>6. Api!Request("pub", c, Nil, tab) \in Api!Requests
    BY <1>9 DEF PubBegin, Api!Requests, Tables, Api!Tables
  <2> QED
    BY <1>4, <1>9, <2>1, <2>5, <2>6 DEF PubBegin
<1>10. ASSUME NEW c \in Channels, ReadBegin(t, c) PROVE Api!Calls(t)
  <2>1. Others(t)
    BY <1>t, <1>10 DEF ReadBegin, Goto, Others, zvars
  <2>2. obs[t] = Nil /\ arg[t] = Nil /\ buf[t].n = 0
    BY <1>10 DEF ReadBegin, Ready, LocalsInv, LocalsOf, OrderInv, ThreadOrder
  <2>3. /\ pc'[t] = "read_lock" /\ chan'[t] = c /\ obs'[t] = Nil /\ arg'[t] = Nil
        /\ buf'[t].n = 0
    BY <1>t, <1>10, <2>2 DEF ReadBegin, Goto
  <2>4. CallOf(t)' = Api!Request("read", c, Nil, Nil)
    BY <2>3 DEF CallOf, Api!Request
  <2>5. Api!Request("read", c, Nil, Nil) \in Api!Requests
    BY DEF Api!Requests
  <2> QED
    BY <1>4, <1>10, <2>1, <2>4, <2>5 DEF ReadBegin
<1>11. ASSUME NEW o \in Observers, WaitBegin(t, o) PROVE Api!Calls(t)
  <2>1. Others(t)
    BY <1>t, <1>11 DEF WaitBegin, Goto, Others, zvars
  <2>2. chan[t] = Nil /\ arg[t] = Nil /\ buf[t].n = 0
    BY <1>11 DEF WaitBegin, Ready, LocalsInv, LocalsOf, OrderInv, ThreadOrder
  <2>3. /\ pc'[t] = "wait_get" /\ chan'[t] = Nil /\ obs'[t] = o /\ arg'[t] = Nil
        /\ buf'[t].n = 0
    BY <1>t, <1>11, <2>2 DEF WaitBegin, Goto
  <2>4. CallOf(t)' = Api!Request("wait", Nil, o, Nil)
    BY <2>3 DEF CallOf, Api!Request
  <2>5. Api!Request("wait", Nil, o, Nil) \in Api!Requests
    BY DEF Api!Requests
  <2> QED
    BY <1>4, <1>11, <2>1, <2>4, <2>5 DEF WaitBegin
<1> QED
  BY <1>5, <1>6, <1>7, <1>8, <1>9, <1>10, <1>11 DEF Call

\* What the binding knows of a message is what the interface shows of it.
LEMMA ShowsIt ==
  ASSUME TypeInv, NEW c \in Channels, NEW n \in Nat, NEW body, FromChannel(c, n, body)
  PROVE  Api!Shows(c, n, body)
BY DEF FromChannel, Agrees, Api!Shows

\* A call ends with what the interface lets it end with.
LEMMA AnswerMaps ==
  ASSUME TypeInv, OrderInv, DataInv, LocalsInv, NEW t \in Threads,
         pc[t] \in {"pub_ret", "read_ret", "wait_ret"},
         NEW r, Return(t, r), UNCHANGED zvars, UNCHANGED hvars,
         NEW k, k = CallOf(t),
         \/ r = Raised /\ Api!CanRaise(k)
         \/ \E tab \in Api!TableOf(k) : r = Api!Result(k.op, k.err, k.chan, tab, k.n)
  PROVE  Api!Answers(t)
<1>t. /\ pc \in [Threads -> PCs] /\ chan \in [Threads -> Channels \cup {Nil}]
      /\ obs \in [Threads -> Observers \cup {Nil}] /\ arg \in [Threads -> Tables \cup {Nil}]
      /\ buf \in [Threads -> Messages] /\ ret \in [Threads -> Results]
      /\ err \in [Threads -> {"OK", "ENOMEM", "EAGAIN", "ENOMSG"}]
  BY DEF TypeInv, TypeOK
<1>1. ret' = [ret EXCEPT ![t] = r] /\ Others(t)
  BY <1>t DEF Return, Others, zvars
<1>2. k.err # "open"
  BY <1>t DEF CallOf
<1>3. CallOf(t)' = Api!Idle
  <2>1. /\ pc'[t] = "idle" /\ chan'[t] = Nil /\ obs'[t] = Nil /\ arg'[t] = Nil
        /\ buf'[t].n = 0
    BY <1>t DEF Return, JunkMsg
  <2> QED
    BY <2>1 DEF CallOf, Api!Idle, Api!Request
<1>4. Api!Goes(t, Api!Idle)
  BY <1>1, <1>3, CallMoves
<1>5. UNCHANGED [o \in Observers |-> InboxOf(o)]
  BY InboxKept DEF zvars
<1>6. UNCHANGED pubs /\ UNCHANGED put
  BY DEF hvars
<1>7. [u \in Threads |-> CallOf(u)][t] = k
  OBVIOUS
<1>8. Raised = Api!Raised
  BY DEF Raised, NoMessage, Api!Raised, Api!Result
<1> QED
  BY <1>1, <1>2, <1>4, <1>5, <1>6, <1>7, <1>8 DEF Api!Answers

LEMMA MapAnswer ==
  ASSUME TypeInv, OrderInv, DataInv, LocalsInv, NEW t \in Threads,
         PubReturn(t) \/ ReadReturn(t) \/ ReadRaise(t) \/ WaitReturn(t) \/ WaitRaise(t)
  PROVE  Api!Answers(t)
<1>1. PICK k : k = CallOf(t)
  OBVIOUS
<1>2. UNCHANGED zvars /\ UNCHANGED hvars
  BY DEF PubReturn, ReadReturn, ReadRaise, WaitReturn, WaitRaise
<1>3. pc[t] \in {"pub_ret", "read_ret", "wait_ret"}
  BY DEF PubReturn, ReadReturn, ReadRaise, WaitReturn, WaitRaise
<1>4. k.chan = chan[t] /\ k.n = buf[t].n /\ k.err = err[t]
  BY <1>1, <1>3 DEF CallOf
<1>5. buf[t].n \in Nat /\ buf[t].body \in Bodies
  BY DEF TypeInv, TypeOK, Messages
<1>6. ASSUME NEW r, Return(t, r),
             \/ r = Raised /\ Api!CanRaise(k)
             \/ \E tab \in Api!TableOf(k) : r = Api!Result(k.op, k.err, k.chan, tab, k.n)
      PROVE  Api!Answers(t)
  BY <1>1, <1>2, <1>3, <1>6, AnswerMaps
<1>7. ASSUME k.op \in {"read", "wait"}, k.err = "OK", chan[t] \in Channels
      PROVE  ToTable(chan[t], buf[t].body) \in Api!TableOf(k)
  <2>1. FromChannel(chan[t], buf[t].n, buf[t].body)
    BY <1>1, <1>3, <1>4, <1>7 DEF DataInv, ThreadData, BufferOf, CallOf
  <2>2. Api!Shows(k.chan, k.n, buf[t].body)
    BY <1>4, <1>5, <1>7, <2>1, ShowsIt
  <2>3. buf[t].body \in Api!Bodies
    BY <1>5 DEF Bodies, Api!Bodies
  <2>4. CASE chan[t] \in Described
    BY <1>4, <1>7, <2>2, <2>3, <2>4 DEF ToTable, Api!TableOf
  <2>5. CASE chan[t] \notin Described
    BY <1>4, <1>7, <2>5 DEF ToTable, Api!TableOf
  <2> QED
    BY <2>4, <2>5
<1>8. CASE PubReturn(t)
  <2>1. k.op = "pub"
    BY <1>1, <1>8 DEF PubReturn, CallOf
  <2>2. Nil \in Api!TableOf(k)
    BY <2>1 DEF Api!TableOf
  <2> QED
    BY <1>4, <1>6, <1>8, <2>1, <2>2 DEF PubReturn, Api!Result
<1>9. CASE ReadReturn(t)
  <2>1. k.op = "read" /\ chan[t] \in Channels
    BY <1>1, <1>9 DEF ReadReturn, CallOf, TypeInv, PcShape, InRead
  <2>2. ToTable(chan[t], buf[t].body) \in Api!TableOf(k)
    <3>1. CASE k.err = "OK"
      BY <1>7, <2>1, <3>1
    <3>2. CASE k.err # "OK"
      BY <1>5, <2>1, <3>2 DEF ToTable, Bodies, Api!Bodies, Api!TableOf
    <3> QED
      BY <3>1, <3>2
  <2> QED
    BY <1>4, <1>6, <1>9, <2>1, <2>2 DEF ReadReturn, Api!Result
<1>10. CASE ReadRaise(t)
  <2>1. k.op = "read"
    BY <1>1, <1>10 DEF ReadRaise, CallOf
  <2> QED
    BY <1>6, <1>10, <2>1 DEF ReadRaise, Raise, Api!CanRaise
<1>11. CASE WaitReturn(t)
  <2>1. k.op = "wait"
    BY <1>1, <1>11 DEF WaitReturn, CallOf
  <2>2. CASE err[t] = "OK"
    <3>1. chan[t] \in Channels
      BY <1>11, <2>2 DEF WaitReturn, TypeInv, PcShape
    <3>2. ToTable(chan[t], buf[t].body) \in Api!TableOf(k)
      BY <1>4, <1>7, <2>1, <2>2, <3>1
    <3> QED
      BY <1>4, <1>6, <1>11, <2>1, <2>2, <3>2 DEF WaitReturn, Api!Result
  <2>3. CASE err[t] # "OK"
    <3>1. chan[t] = Nil /\ buf[t].n = 0
      BY <1>11, <2>3 DEF WaitReturn, LocalsInv, LocalsOf
    <3>2. Nil \in Api!TableOf(k)
      BY <1>4, <2>1, <2>3 DEF Api!TableOf
    <3> QED
      BY <1>4, <1>6, <1>11, <2>1, <2>3, <3>1, <3>2 DEF WaitReturn, NoMessage, Api!Result
  <2> QED
    BY <2>2, <2>3
<1>12. CASE WaitRaise(t)
  <2>1. k.op = "wait" /\ k.err = "OK"
    BY <1>1, <1>4, <1>12 DEF WaitRaise, CallOf
  <2> QED
    BY <1>6, <1>12, <2>1 DEF WaitRaise, Raise, Api!CanRaise
<1> QED
  BY <1>8, <1>9, <1>10, <1>11, <1>12

LEMMA ApiInit == Init => Api!Init
<1> SUFFICES ASSUME Init PROVE Api!Init
  OBVIOUS
<1>1. ASSUME NEW o \in Observers PROVE InboxOf(o) = <<>>
  BY DEF InboxOf, Init
<1>2. ASSUME NEW t \in Threads PROVE CallOf(t) = Api!Idle
  BY DEF CallOf, Init, JunkMsg, Api!Idle, Api!Request
<1>3. NoResult = Api!NoResult
  BY DEF NoResult, NoMessage, Api!NoResult, Api!Result
<1> QED
  BY <1>1, <1>2, <1>3 DEF Init, Api!Init

LEMMA ApiStep ==
  TypeInv /\ TypeInv' /\ OrderInv /\ DataInv /\ LocalsInv /\ [Next]_vars
    => [Api!Next]_(Api!vars)
<1> SUFFICES ASSUME TypeInv, TypeInv', OrderInv, DataInv, LocalsInv, [Next]_vars
             PROVE  [Api!Next]_(Api!vars)
  OBVIOUS
<1>1. ASSUME UNCHANGED zvars, UNCHANGED lvars, UNCHANGED hvars PROVE UNCHANGED Api!vars
  <2>1. \A t \in Threads : CallOf(t)' = CallOf(t)
    BY <1>1, CallKept DEF lvars, zvars
  <2>2. UNCHANGED [t \in Threads |-> CallOf(t)]
    BY <2>1
  <2>3. UNCHANGED [o \in Observers |-> InboxOf(o)]
    BY <1>1, InboxKept DEF zvars
  <2>4. UNCHANGED pubs /\ UNCHANGED put /\ UNCHANGED ret
    BY <1>1 DEF hvars, lvars
  <2> QED
    BY <2>2, <2>3, <2>4 DEF Api!vars
<1>2. CASE UNCHANGED vars
  BY <1>1, <1>2 DEF vars
<1>3. ASSUME NEW c \in Channels, FindMaxMsgSize(c) PROVE UNCHANGED Api!vars
  BY <1>1, <1>3 DEF FindMaxMsgSize
<1>4. ASSUME NEW t \in Threads, Call(t) PROVE Api!Next
  BY <1>4, MapCall DEF Api!Next
<1>5. ASSUME NEW t \in Threads, Step(t) PROVE [Api!Next]_(Api!vars)
  <2>1. CASE PubLock(t)
    BY <2>1, MapLock DEF Api!Next
  <2>2. CASE PubNotify(t)
    BY <2>2, MapNotify DEF Api!Next
  <2>3. CASE PubLockTimeout(t) \/ PubPoolTimeout(t) \/ PubDone(t)
    BY <2>3, MapDecide DEF Api!Next
  <2>4. CASE PubTakeBuffer(t) \/ ReadLock(t)
    BY <2>4, MapNothing
  <2>5. CASE ReadCopy(t) \/ ReadLockTimeout(t)
    BY <2>5, MapRead DEF Api!Next
  <2>6. CASE WaitGet(t) \/ WaitTimeout(t)
    BY <2>6, MapWait DEF Api!Next
  <2>7. CASE PubReturn(t) \/ ReadReturn(t) \/ ReadRaise(t) \/ WaitReturn(t) \/ WaitRaise(t)
    BY <2>7, MapAnswer DEF Api!Next
  <2> QED
    BY <1>5, <2>1, <2>2, <2>3, <2>4, <2>5, <2>6, <2>7 DEF Step
<1> QED
  BY <1>2, <1>3, <1>4, <1>5 DEF Next

\* For any threads, channels, observers, pool and heaps, the binding over zbus
\* does only what its interface promises to scripts that call it concurrently.
THEOREM BindingImplementsChannelApi == Spec => ImplementsChannelApi
<1> DEFINE Inv == TypeInv /\ OrderInv /\ DataInv /\ LocalsInv
<1>1. Init => Inv
  BY TypeInit, OrderInit, DataInit, LocalsInit
<1>2. Inv /\ [Next]_vars => Inv'
  BY TypeStep, OrderStep, DataStep, LocalsStep
<1>3. Init => Api!Init
  BY ApiInit
<1>4. Inv /\ Inv' /\ [Next]_vars => [Api!Next]_(Api!vars)
  BY ApiStep
<1> QED
  BY <1>1, <1>2, <1>3, <1>4, PTL DEF Spec, ImplementsChannelApi, Api!Spec
=============================================================================
