--------------------------- MODULE LuaZbusProofs ---------------------------
(***************************************************************************)
(* Proofs about the zbus binding, for any threads, channels, observers,    *)
(* heap and pool sizes, and without a bound on how long scripts run.       *)
(***************************************************************************)
EXTENDS LuaZbus, TLAPS

(***************************************************************************)
(* Facts about the data.                                                   *)
(***************************************************************************)

\* The unwritten buffer is a message struct.
LEMMA JunkMsgType == JunkMsg \in Messages
BY DEF JunkMsg, Messages, Bodies

\* The decoder of src/luaz_msg_descr.c fills a struct from any table.
LEMMA FromTableType ==
  ASSUME NEW tab \in Tables, NEW body \in Bodies
  PROVE  FromTable(tab, body) \in Bodies
<1>1. PICK S \in SUBSET Fields : tab \in [S -> Values]
  BY DEF Tables
<1>2. DOMAIN tab \subseteq Fields
  BY <1>1
<1>3. ASSUME NEW f \in Fields
      PROVE  (IF f \in DOMAIN tab THEN tab[f] ELSE body[f]) \in Values \cup {Junk}
  BY <1>1 DEF Bodies
<1> QED
  BY <1>3 DEF FromTable, Bodies

\* The table's fields arrive in the struct as they are.
LEMMA FromTableAgrees ==
  ASSUME NEW tab \in Tables, NEW body \in Bodies
  PROVE  Agrees(FromTable(tab, body), tab)
<1>1. PICK S \in SUBSET Fields : tab \in [S -> Values]
  BY DEF Tables
<1>2. DOMAIN tab \subseteq Fields
  BY <1>1
<1> QED
  BY <1>2 DEF FromTable, Agrees

\* The encoder yields a table, or nil for a channel without a descriptor.
LEMMA ToTableType ==
  ASSUME NEW c, NEW body \in Bodies
  PROVE  ToTable(c, body) \in Bodies \cup {Nil}
BY DEF ToTable

\* Queues stay queues of entries when one grows at its end or loses its head.
LEMMA QueueTypes ==
  ASSUME NEW q \in [Observers -> Seq(Entries)], NEW o \in Observers
  PROVE  /\ \A e \in Entries :
              [q EXCEPT ![o] = Append(@, e)] \in [Observers -> Seq(Entries)]
         /\ q[o] # <<>> =>
              /\ Head(q[o]) \in Entries
              /\ [q EXCEPT ![o] = Tail(@)] \in [Observers -> Seq(Entries)]
OBVIOUS

\* One more, one fewer: counters stay natural numbers.
LEMMA CounterTypes ==
  ASSUME NEW k \in [Threads -> Nat], NEW t \in Threads
  PROVE  /\ [k EXCEPT ![t] = @ + 1] \in [Threads -> Nat]
         /\ k[t] > 0 => [k EXCEPT ![t] = @ - 1] \in [Threads -> Nat]
OBVIOUS

\* What the bindings return is a result.
LEMMA ResultTypes ==
  /\ NoResult \in Results
  /\ Raised \in Results
  /\ \A op \in {"pub", "read", "wait"}, c \in Channels \cup {Nil},
        e \in {"OK", "EINVAL", "ENOMEM", "EAGAIN", "ENOMSG"} :
       NoMessage(op, e, c) \in Results
BY DEF NoResult, Raised, NoMessage, Results

(***************************************************************************)
(* Type correctness needs to know which local variables are set where.     *)
(***************************************************************************)
InPub   == {"pub_lock", "pub_alloc", "pub_notify", "pub_ret"}
InRead  == {"read_lock", "read_copy", "read_ret"}
Holding == {"pub_alloc", "pub_notify", "read_copy"}

PcShape ==
  \A t \in Threads :
    /\ pc[t] # "idle" => Booted
    /\ pc[t] \in InPub \cup InRead => chan[t] \in Channels
    /\ pc[t] \in InPub => chan[t] \in Described /\ arg[t] \in Tables
    /\ pc[t] = "pub_notify" => next[t] \in Nat \ {0}
    /\ pc[t] = "wait_get" => obs[t] \in Observers
    /\ pc[t] = "wait_ret" /\ err[t] = "OK" => chan[t] \in Channels

TypeInv == TypeOK /\ PcShape /\ RawBalance

LEMMA TypeInit == Init => TypeInv
<1> SUFFICES ASSUME Init PROVE TypeInv
  OBVIOUS
<1> USE JunkMsgType, ResultTypes
<1>1. [n |-> 0, body |-> InitBody] \in Messages
  BY DataAssumption DEF Messages, Bodies
<1>2. TypeOK
  BY <1>1 DEF TypeOK, Init, PCs
<1>3. PcShape
  BY DEF PcShape, Init, InPub, InRead
<1>4. RawBalance
  BY DEF RawBalance, Init
<1> QED
  BY <1>2, <1>3, <1>4 DEF TypeInv

\* A return or a refusal leaves well-typed locals behind.
LEMMA ReturnType ==
  ASSUME TypeOK, NEW t \in Threads, NEW r \in Results, Return(t, r)
  PROVE  /\ pc' \in [Threads -> PCs]
         /\ chan' \in [Threads -> Channels \cup {Nil}]
         /\ obs' \in [Threads -> Observers \cup {Nil}]
         /\ arg' \in [Threads -> Tables \cup {Nil}]
         /\ buf' \in [Threads -> Messages]
         /\ err' \in [Threads -> {"OK", "ENOMEM", "EAGAIN", "ENOMSG"}]
         /\ ret' \in [Threads -> Results]
BY JunkMsgType DEF TypeOK, Return, PCs

\* Between two steps a call still holds the buffer it allocated.
LEMMA CallHoldsBuffer ==
  ASSUME TypeOK, RawBalance, NEW t \in Threads, pc[t] # "idle"
  PROVE  raw[t] > 0
<1>1. raw \in [Threads -> Nat] /\ lost \in [Threads -> Nat]
  BY DEF TypeOK
<1> QED
  BY <1>1 DEF RawBalance

\* Each step allocates, frees and loses buffers in balance.
LEMMA RawStep == TypeOK /\ RawBalance /\ [Next]_vars => RawBalance'
<1> SUFFICES ASSUME TypeOK, RawBalance, [Next]_vars PROVE RawBalance'
  OBVIOUS
<1>1. /\ pc \in [Threads -> PCs]
      /\ raw \in [Threads -> Nat]
      /\ lost \in [Threads -> Nat]
  BY DEF TypeOK
<1> USE <1>1 DEF RawBalance
<1>2. ASSUME NEW c \in Channels, FindMaxMsgSize(c) PROVE RawBalance'
  BY <1>2 DEF FindMaxMsgSize, lvars
<1>3. ASSUME NEW t \in Threads, Ready(t), NEW r, Refuse(t, r)
     PROVE  RawBalance'
  BY <1>3 DEF Ready, Refuse, Return
<1>4. ASSUME NEW t \in Threads, BadArguments(t) PROVE RawBalance'
  BY <1>3, <1>4 DEF BadArguments
<1>5. ASSUME NEW t \in Threads, PubNoMemory(t)
      PROVE  RawBalance'
  BY <1>3, <1>5 DEF PubNoMemory
<1>6. ASSUME NEW t \in Threads, NEW c \in Channels, PubNoDescr(t, c)
      PROVE  RawBalance'
  BY <1>3, <1>6 DEF PubNoDescr
<1>7. ASSUME NEW t \in Threads, NEW c \in Channels, PubRaise(t, c)
      PROVE  RawBalance'
  BY <1>7 DEF PubRaise, Raise, Return, Ready
<1>8. ASSUME NEW t \in Threads, NEW c \in Channels, NEW tab \in Tables,
             PubBegin(t, c, tab)
      PROVE  RawBalance'
  BY <1>8 DEF PubBegin, Goto, Ready
<1>9. ASSUME NEW t \in Threads, ReadNoMemory(t)
      PROVE  RawBalance'
  BY <1>3, <1>9 DEF ReadNoMemory
<1>10. ASSUME NEW t \in Threads, NEW c \in Channels, ReadBegin(t, c)
       PROVE  RawBalance'
  BY <1>10 DEF ReadBegin, Goto, Ready
<1>11. ASSUME NEW t \in Threads, WaitNoMemory(t) PROVE RawBalance'
  BY <1>3, <1>11 DEF WaitNoMemory
<1>12. ASSUME NEW t \in Threads, NEW o \in Observers, WaitBegin(t, o)
       PROVE  RawBalance'
  BY <1>12 DEF WaitBegin, Goto, Ready
<1>13. ASSUME NEW t \in Threads, PubLock(t) PROVE RawBalance'
  BY <1>13 DEF PubLock, Goto, Local
<1>14. ASSUME NEW t \in Threads, PubLockTimeout(t) PROVE RawBalance'
  BY <1>14 DEF PubLockTimeout, Answer, Goto, Local
<1>15. ASSUME NEW t \in Threads, PubTakeBuffer(t) PROVE RawBalance'
  BY <1>15 DEF PubTakeBuffer, Goto, Local
<1>16. ASSUME NEW t \in Threads, PubNotify(t) PROVE RawBalance'
  BY <1>16 DEF PubNotify, Local
<1>17. ASSUME NEW t \in Threads, PubPoolTimeout(t) PROVE RawBalance'
  BY <1>17 DEF PubPoolTimeout, Answer, Goto, Local
<1>18. ASSUME NEW t \in Threads, PubDone(t) PROVE RawBalance'
  BY <1>18 DEF PubDone, Answer, Goto, Local
<1>19. ASSUME NEW t \in Threads, PubReturn(t) PROVE RawBalance'
  BY <1>19 DEF PubReturn, Return, Free
<1>20. ASSUME NEW t \in Threads, ReadLock(t) PROVE RawBalance'
  BY <1>20 DEF ReadLock, Goto, Local
<1>21. ASSUME NEW t \in Threads, ReadLockTimeout(t) PROVE RawBalance'
  BY <1>21 DEF ReadLockTimeout, Answer, Goto, Local
<1>22. ASSUME NEW t \in Threads, ReadCopy(t) PROVE RawBalance'
  BY <1>22 DEF ReadCopy, Answer, Goto, Local
<1>23. ASSUME NEW t \in Threads, ReadReturn(t) PROVE RawBalance'
  BY <1>23 DEF ReadReturn, Return, Free
<1>24. ASSUME NEW t \in Threads, ReadRaise(t) PROVE RawBalance'
  BY <1>24 DEF ReadRaise, Raise, Return
<1>25. ASSUME NEW t \in Threads, WaitGet(t) PROVE RawBalance'
  BY <1>25 DEF WaitGet, Answer, Goto
<1>26. ASSUME NEW t \in Threads, WaitTimeout(t) PROVE RawBalance'
  BY <1>26 DEF WaitTimeout, Answer, Goto, Local
<1>27. ASSUME NEW t \in Threads, WaitReturn(t) PROVE RawBalance'
  BY <1>27 DEF WaitReturn, Return, Free
<1>28. ASSUME NEW t \in Threads, WaitRaise(t) PROVE RawBalance'
  BY <1>28 DEF WaitRaise, Raise, Return
<1>29. CASE UNCHANGED vars
  BY <1>29 DEF vars, lvars
<1> QED
  BY <1>2, <1>3, <1>4, <1>5, <1>6, <1>7, <1>8, <1>9, <1>10, <1>11, <1>12,
     <1>13, <1>14, <1>15, <1>16, <1>17, <1>18, <1>19, <1>20, <1>21,
     <1>22, <1>23, <1>24, <1>25, <1>26, <1>27, <1>28, <1>29
     DEF Next, Call, Step

\* Every step of the bindings and of the boot keeps the types.
LEMMA TypeStep == TypeInv /\ [Next]_vars => TypeInv'
<1> SUFFICES ASSUME TypeInv, [Next]_vars PROVE TypeInv'
  OBVIOUS
<1> USE JunkMsgType, ResultTypes DEF TypeInv, TypeOK, PCs
<1>1. ASSUME NEW c \in Channels, FindMaxMsgSize(c) PROVE TypeInv'
  <2>1. maxSize' \in Nat
    BY <1>1, SizeAssumption DEF FindMaxMsgSize, Larger
  <2>2. TypeOK'
    BY <1>1, <2>1 DEF FindMaxMsgSize, lvars, zvars, hvars
  <2>3. PcShape'
    BY <1>1 DEF FindMaxMsgSize, lvars, zvars, hvars, PcShape, InPub,
                InRead, Booted, Ready
  <2> QED
    BY <2>2, <2>3, RawStep
<1>2. ASSUME NEW t \in Threads, NEW r \in Results, Refuse(t, r)
     PROVE  TypeInv'
  <2>1. TypeOK'
    BY <1>2, ReturnType DEF Refuse, Return, zvars, hvars
  <2>2. PcShape'
    BY <1>2 DEF Refuse, Return, zvars, hvars, PcShape, InPub, InRead,
                Booted, Ready
  <2> QED
    BY <2>1, <2>2, RawStep
<1>3. ASSUME NEW t \in Threads, BadArguments(t) PROVE TypeInv'
  BY <1>2, <1>3 DEF BadArguments
<1>4. ASSUME NEW t \in Threads, PubNoMemory(t)
      PROVE  TypeInv'
  BY <1>2, <1>4 DEF PubNoMemory
<1>5. ASSUME NEW t \in Threads, NEW c \in Channels, PubNoDescr(t, c)
      PROVE  TypeInv'
  BY <1>2, <1>5 DEF PubNoDescr
<1>6. ASSUME NEW t \in Threads, NEW c \in Channels, PubRaise(t, c)
      PROVE  TypeInv'
  <2>1. raw' \in [Threads -> Nat] /\ lost' \in [Threads -> Nat]
    BY <1>6, CounterTypes DEF PubRaise, Raise
  <2>2. TypeOK'
    BY <1>6, <2>1, ReturnType DEF PubRaise, Raise, Return, zvars, hvars
  <2>3. PcShape'
    BY <1>6 DEF PubRaise, Raise, Return, zvars, hvars, PcShape, InPub,
                InRead, Booted, Ready
  <2> QED
    BY <2>2, <2>3, RawStep
<1>7. ASSUME NEW t \in Threads, NEW c \in Channels, NEW tab \in Tables,
             PubBegin(t, c, tab)
      PROVE  TypeInv'
  <2>1. buf' \in [Threads -> Messages]
    BY <1>7, FromTableType DEF PubBegin, Messages
  <2>2. raw' \in [Threads -> Nat]
    BY <1>7, CounterTypes DEF PubBegin
  <2>3. TypeOK'
    BY <1>7, <2>1, <2>2 DEF PubBegin, Goto, zvars, hvars
  <2>4. PcShape'
    BY <1>7 DEF PubBegin, Goto, zvars, hvars, PcShape, InPub, InRead,
                Booted, Ready
  <2> QED
    BY <2>3, <2>4, RawStep
<1>8. ASSUME NEW t \in Threads, ReadNoMemory(t)
      PROVE  TypeInv'
  BY <1>2, <1>8 DEF ReadNoMemory
<1>9. ASSUME NEW t \in Threads, NEW c \in Channels, ReadBegin(t, c)
      PROVE  TypeInv'
  <2>1. raw' \in [Threads -> Nat]
    BY <1>9, CounterTypes DEF ReadBegin
  <2>2. TypeOK'
    BY <1>9, <2>1 DEF ReadBegin, Goto, zvars, hvars
  <2>3. PcShape'
    BY <1>9 DEF ReadBegin, Goto, zvars, hvars, PcShape, InPub, InRead,
                Booted, Ready
  <2> QED
    BY <2>2, <2>3, RawStep
<1>10. ASSUME NEW t \in Threads, WaitNoMemory(t) PROVE TypeInv'
  BY <1>2, <1>10 DEF WaitNoMemory
<1>11. ASSUME NEW t \in Threads, NEW o \in Observers, WaitBegin(t, o)
       PROVE  TypeInv'
  <2>1. raw' \in [Threads -> Nat]
    BY <1>11, CounterTypes DEF WaitBegin
  <2>2. TypeOK'
    BY <1>11, <2>1 DEF WaitBegin, Goto, zvars, hvars
  <2>3. PcShape'
    BY <1>11 DEF WaitBegin, Goto, zvars, hvars, PcShape, InPub, InRead,
                 Booted, Ready
  <2> QED
    BY <2>2, <2>3, RawStep
<1>12. ASSUME NEW t \in Threads, PubLock(t) PROVE TypeInv'
  <2> DEFINE c == chan[t]
             m == [n |-> Len(pubs[c]) + 1, body |-> buf[t].body]
  <2>1. c \in Channels /\ arg[t] \in Tables
    BY <1>12 DEF PubLock, PcShape, InPub
  <2>2. m \in Messages
    BY <2>1 DEF Messages
  <2>3. pubs' \in [Channels -> Seq(Tables)]
    BY <1>12, <2>1 DEF PubLock
  <2>4. TypeOK'
    BY <1>12, <2>1, <2>2, <2>3 DEF PubLock, LockAndCopy, Goto, Local
  <2>5. PcShape'
    BY <1>12 DEF PubLock, LockAndCopy, Goto, Local, PcShape, InPub,
                 InRead, Booted, Ready
  <2> QED
    BY <2>4, <2>5, RawStep
<1>13. ASSUME NEW t \in Threads, PubLockTimeout(t) PROVE TypeInv'
  <2>1. TypeOK'
    BY <1>13 DEF PubLockTimeout, Answer, Goto, Local, zvars, hvars
  <2>2. PcShape'
    BY <1>13 DEF PubLockTimeout, Answer, Goto, Local, zvars, hvars,
                 PcShape, InPub, InRead, Booted, Ready
  <2> QED
    BY <2>1, <2>2, RawStep
<1>14. ASSUME NEW t \in Threads, PubTakeBuffer(t) PROVE TypeInv'
  <2>1. TypeOK'
    BY <1>14 DEF PubTakeBuffer, TakeBuffer, Goto, Local, hvars
  <2>2. PcShape'
    BY <1>14 DEF PubTakeBuffer, TakeBuffer, Goto, Local, hvars, PcShape,
                 InPub, InRead, Booted, Ready
  <2> QED
    BY <2>1, <2>2, RawStep
<1>15. ASSUME NEW t \in Threads, PubNotify(t) PROVE TypeInv'
  <2> DEFINE c == chan[t]
             o == ObserversOf[c][next[t]]
             e == [chan |-> c, msg |-> memory[c]]
  <2>1. c \in Channels /\ next[t] \in Nat \ {0}
    BY <1>15 DEF PubNotify, PcShape, InPub
  <2>2. next[t] \in DOMAIN ObserversOf[c]
    BY <1>15, <2>1, ObserversAssumption DEF PubNotify, NotifyNext, Notified
  <2>3. o \in Observers
    BY <2>1, <2>2, ObserversAssumption
  <2>4. e \in Entries
    BY <2>1 DEF Entries
  <2>5. fifo' = [fifo EXCEPT ![o] = Append(@, e)]
    BY <1>15 DEF PubNotify, NotifyNext
  <2>6. fifo' \in [Observers -> Seq(Entries)]
    BY <2>3, <2>4, <2>5, QueueTypes
  <2>7. put' \in [Observers -> [Channels -> Nat]]
    BY <1>15, <2>1, <2>3 DEF PubNotify, Messages
  <2>8. next' \in [Threads -> Nat]
    BY <1>15, CounterTypes DEF PubNotify, NotifyNext
  <2>9. TypeOK'
    BY <1>15, <2>6, <2>7, <2>8 DEF PubNotify, NotifyNext, Local
  <2>10. PcShape'
    BY <1>15 DEF PubNotify, NotifyNext, Local, PcShape, InPub, InRead,
                 Booted, Ready
  <2> QED
    BY <2>9, <2>10, RawStep
<1>16. ASSUME NEW t \in Threads, PubPoolTimeout(t) PROVE TypeInv'
  <2>1. TypeOK'
    BY <1>16 DEF PubPoolTimeout, Unlock, Answer, Goto, Local, hvars
  <2>2. PcShape'
    BY <1>16 DEF PubPoolTimeout, Unlock, Answer, Goto, Local, hvars,
                 PcShape, InPub, InRead, Booted, Ready
  <2> QED
    BY <2>1, <2>2, RawStep
<1>17. ASSUME NEW t \in Threads, PubDone(t) PROVE TypeInv'
  <2>1. TypeOK'
    BY <1>17 DEF PubDone, Unlock, Answer, Goto, Local, hvars
  <2>2. PcShape'
    BY <1>17 DEF PubDone, Unlock, Answer, Goto, Local, hvars, PcShape,
                 InPub, InRead, Booted, Ready
  <2> QED
    BY <2>1, <2>2, RawStep
<1>18. ASSUME NEW t \in Threads, PubReturn(t) PROVE TypeInv'
  <2> DEFINE r == [op |-> "pub", err |-> err[t], chan |-> chan[t],
                   tab |-> Nil, n |-> buf[t].n]
  <2>1. r \in Results
    BY <1>18, ToTableType DEF PubReturn, Results, Messages, PcShape, InPub
  <2>2. raw[t] > 0
    BY <1>18, CallHoldsBuffer DEF PubReturn
  <2>3. raw' \in [Threads -> Nat]
    BY <1>18, <2>2, CounterTypes DEF PubReturn, Free
  <2>4. TypeOK'
    BY <1>18, <2>1, <2>3, ReturnType DEF PubReturn, Return, Free, zvars,
                                         hvars
  <2>5. PcShape'
    BY <1>18 DEF PubReturn, Return, Free, zvars, hvars, PcShape, InPub,
                 InRead, Booted, Ready
  <2> QED
    BY <2>4, <2>5, RawStep
<1>19. ASSUME NEW t \in Threads, ReadLock(t) PROVE TypeInv'
  <2>1. TypeOK'
    BY <1>19 DEF ReadLock, Lock, Goto, Local, hvars
  <2>2. PcShape'
    BY <1>19 DEF ReadLock, Lock, Goto, Local, hvars, PcShape, InPub,
                 InRead, Booted, Ready
  <2> QED
    BY <2>1, <2>2, RawStep
<1>20. ASSUME NEW t \in Threads, ReadLockTimeout(t) PROVE TypeInv'
  <2>1. TypeOK'
    BY <1>20 DEF ReadLockTimeout, Answer, Goto, Local, zvars, hvars
  <2>2. PcShape'
    BY <1>20 DEF ReadLockTimeout, Answer, Goto, Local, zvars, hvars,
                 PcShape, InPub, InRead, Booted, Ready
  <2> QED
    BY <2>1, <2>2, RawStep
<1>21. ASSUME NEW t \in Threads, ReadCopy(t) PROVE TypeInv'
  <2>1. chan[t] \in Channels
    BY <1>21 DEF ReadCopy, PcShape, InRead
  <2>2. TypeOK'
    BY <1>21, <2>1 DEF ReadCopy, Unlock, Answer, Goto, Local, hvars
  <2>3. PcShape'
    BY <1>21 DEF ReadCopy, Unlock, Answer, Goto, Local, hvars, PcShape,
                 InPub, InRead, Booted, Ready
  <2> QED
    BY <2>2, <2>3, RawStep
<1>22. ASSUME NEW t \in Threads, ReadReturn(t) PROVE TypeInv'
  <2> DEFINE r == [op |-> "read", err |-> err[t], chan |-> chan[t],
                   tab |-> ToTable(chan[t], buf[t].body), n |-> buf[t].n]
  <2>1. r \in Results
    BY <1>22, ToTableType DEF ReadReturn, Results, Messages, PcShape, InRead
  <2>2. raw[t] > 0
    BY <1>22, CallHoldsBuffer DEF ReadReturn
  <2>3. raw' \in [Threads -> Nat]
    BY <1>22, <2>2, CounterTypes DEF ReadReturn, Free
  <2>4. TypeOK'
    BY <1>22, <2>1, <2>3, ReturnType DEF ReadReturn, Return, Free, zvars,
                                         hvars
  <2>5. PcShape'
    BY <1>22 DEF ReadReturn, Return, Free, zvars, hvars, PcShape, InPub,
                 InRead, Booted, Ready
  <2> QED
    BY <2>4, <2>5, RawStep
<1>23. ASSUME NEW t \in Threads, ReadRaise(t) PROVE TypeInv'
  <2>1. lost' \in [Threads -> Nat]
    BY <1>23, CounterTypes DEF ReadRaise, Raise
  <2>2. TypeOK'
    BY <1>23, <2>1, ReturnType DEF ReadRaise, Raise, Return, zvars,
                                   hvars
  <2>3. PcShape'
    BY <1>23 DEF ReadRaise, Raise, Return, zvars, hvars, PcShape, InPub,
                 InRead, Booted, Ready
  <2> QED
    BY <2>2, <2>3, RawStep
<1>24. ASSUME NEW t \in Threads, WaitGet(t) PROVE TypeInv'
  <2> DEFINE o == obs[t]
             e == Head(fifo[obs[t]])
  <2>1. o \in Observers /\ fifo[o] # <<>>
    BY <1>24 DEF WaitGet, Dequeue, PcShape
  <2>2. e \in Entries
    BY <2>1, QueueTypes
  <2>3. e.chan \in Channels /\ e.msg \in Messages /\ e.msg.n \in Nat
    BY <2>2 DEF Entries, Messages
  <2>4. fifo' \in [Observers -> Seq(Entries)]
    BY <1>24, <2>1, QueueTypes DEF WaitGet, Dequeue
  <2>5. got' \in [Observers -> [Channels -> Nat]]
    BY <1>24, <2>1, <2>3 DEF WaitGet
  <2>6. TypeOK'
    BY <1>24, <2>3, <2>4, <2>5 DEF WaitGet, Dequeue, Answer, Goto
  <2>7. PcShape'
    BY <1>24, <2>3 DEF WaitGet, Dequeue, Answer, Goto, PcShape, InPub,
                       InRead, Booted, Ready
  <2> QED
    BY <2>6, <2>7, RawStep
<1>25. ASSUME NEW t \in Threads, WaitTimeout(t) PROVE TypeInv'
  <2>1. TypeOK'
    BY <1>25 DEF WaitTimeout, Answer, Goto, Local, zvars, hvars
  <2>2. PcShape'
    BY <1>25 DEF WaitTimeout, Answer, Goto, Local, zvars, hvars, PcShape,
                 InPub, InRead, Booted, Ready
  <2> QED
    BY <2>1, <2>2, RawStep
<1>26. ASSUME NEW t \in Threads, WaitReturn(t) PROVE TypeInv'
  <2> DEFINE q == [op |-> "wait", err |-> "OK", chan |-> chan[t],
                   tab |-> ToTable(chan[t], buf[t].body), n |-> buf[t].n]
             r == IF err[t] = "OK" THEN q ELSE NoMessage("wait", err[t], Nil)
  <2>1. err[t] = "OK" => q \in Results
    BY <1>26, ToTableType DEF WaitReturn, Results, Messages, PcShape
  <2>2. err[t] # "OK" => NoMessage("wait", err[t], Nil) \in Results
    BY <1>26
  <2>3. r \in Results
    BY <2>1, <2>2
  <2>4. raw' \in [Threads -> Nat]
    BY <1>26, CallHoldsBuffer, CounterTypes DEF WaitReturn, Free
  <2>5. TypeOK'
    BY <1>26, <2>3, <2>4, ReturnType DEF WaitReturn, Return, Free, zvars,
                                         hvars
  <2>6. PcShape'
    BY <1>26 DEF WaitReturn, Return, Free, zvars, hvars, PcShape, InPub,
                 InRead, Booted, Ready
  <2> QED
    BY <2>5, <2>6, RawStep
<1>27. ASSUME NEW t \in Threads, WaitRaise(t) PROVE TypeInv'
  <2>1. lost' \in [Threads -> Nat]
    BY <1>27, CounterTypes DEF WaitRaise, Raise
  <2>2. TypeOK'
    BY <1>27, <2>1, ReturnType DEF WaitRaise, Raise, Return, zvars,
                                   hvars
  <2>3. PcShape'
    BY <1>27 DEF WaitRaise, Raise, Return, zvars, hvars, PcShape, InPub,
                 InRead, Booted, Ready
  <2> QED
    BY <2>2, <2>3, RawStep
<1>28. CASE UNCHANGED vars
  <2>1. TypeOK'
    BY <1>28 DEF vars, zvars, lvars, hvars
  <2>2. PcShape'
    BY <1>28 DEF vars, zvars, lvars, PcShape, Booted
  <2> QED
    BY <2>1, <2>2, RawStep
<1> QED
  BY <1>1, <1>2, <1>3, <1>4, <1>5, <1>6, <1>7, <1>8, <1>9, <1>10, <1>11,
     <1>12, <1>13, <1>14, <1>15, <1>16, <1>17, <1>18, <1>19, <1>20,
     <1>21, <1>22, <1>23, <1>24, <1>25, <1>26, <1>27, <1>28
     DEF Next, Call, Step

\* What holds in every reachable state of the bindings.
LEMMA TypeInvariant == Spec => []TypeInv
<1>1. Init => TypeInv
  BY TypeInit
<1>2. TypeInv /\ [Next]_vars => TypeInv'
  BY TypeStep
<1> QED
  BY <1>1, <1>2, PTL DEF Spec

\* Every variable always holds a value of its kind, whatever the threads,
\* channels, observers, descriptors and pool.
THEOREM TypeCorrect == Spec => []TypeOK
BY TypeInvariant, PTL DEF TypeInv

\* chan_pub, chan_read and sub_wait_msg never free a buffer twice nor forget
\* one, except the buffers a Lua error unwinds past.
THEOREM RawBuffersBalance == Spec => []RawBalance
BY TypeInvariant, PTL DEF TypeInv

(***************************************************************************)
(* The wait buffer.  What boot has visited fits; boot is over before any   *)
(* call starts, and what has started boot never resumes.                   *)
(***************************************************************************)
Sized == \A c \in Channels \ todo : MsgSize[c] <= maxSize

LEMMA SizedInit == Init => Sized
BY DEF Init, Sized

LEMMA SizedStep == TypeInv /\ Sized /\ [Next]_vars => Sized'
<1> SUFFICES ASSUME TypeInv, Sized, [Next]_vars PROVE Sized'
  OBVIOUS
<1>1. maxSize \in Nat
  BY DEF TypeInv, TypeOK
<1>2. ASSUME NEW c \in Channels, FindMaxMsgSize(c) PROVE Sized'
  BY <1>1, <1>2, SizeAssumption DEF FindMaxMsgSize, Larger, Sized
<1>3. CASE UNCHANGED <<todo, maxSize>>
  BY <1>3 DEF Sized
<1>4. ASSUME NEW t \in Threads, Call(t) PROVE UNCHANGED <<todo, maxSize>>
  BY <1>4 DEF Call, BadArguments, PubNoMemory, PubNoDescr, PubRaise, PubBegin,
              ReadNoMemory, ReadBegin, WaitNoMemory, WaitBegin, Refuse
<1>5. ASSUME NEW t \in Threads, Step(t) PROVE UNCHANGED <<todo, maxSize>>
  BY <1>5 DEF Step, PubLock, PubLockTimeout, PubTakeBuffer, PubNotify,
              PubPoolTimeout, PubDone, PubReturn, ReadLock, ReadLockTimeout,
              ReadCopy, ReadReturn, ReadRaise, WaitGet, WaitTimeout,
              WaitReturn, WaitRaise, Local
<1>6. CASE UNCHANGED vars
  BY <1>6, <1>3 DEF vars
<1> QED
  BY <1>2, <1>3, <1>4, <1>5, <1>6 DEF Next

LEMMA SizedFits == TypeInv /\ Sized => WaitBufferFits
BY DEF TypeInv, PcShape, Sized, WaitBufferFits, Booted

\* The buffer sub_wait_msg allocates holds the message of every channel,
\* in whatever order boot visited the channels.
THEOREM WaitBufferAlwaysFits == Spec => []WaitBufferFits
<1>1. Init => Sized
  BY SizedInit
<1>2. TypeInv /\ Sized /\ [Next]_vars => Sized'
  BY SizedStep
<1>3. TypeInv /\ Sized => WaitBufferFits
  BY SizedFits
<1> QED
  BY <1>1, <1>2, <1>3, TypeInvariant, PTL DEF Spec
=============================================================================
