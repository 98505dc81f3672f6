-------------------------------- MODULE Zbus --------------------------------
(***************************************************************************)
(* The part of Zephyr's zbus that this repository uses, seen through its   *)
(* calls in src/luaz_zbus.c and samples/producer_consumer/src/consumer.c.  *)
(* zbus itself is not in the repository: every definition is external.     *)
(*                                                                         *)
(* A channel is a message guarded by a semaphore.  A publication takes the *)
(* semaphore, copies the message in, takes one network buffer for it, and  *)
(* puts a clone of that buffer in the queue of each message subscriber, in *)
(* the order of the channel's observation list; the semaphore is given     *)
(* back only then.  All buffers come from one pool of PoolSize.  The three *)
(* waits of a publication share one deadline, and every wait ends in       *)
(* success or in an error when what it waits for stays unavailable.        *)
(***************************************************************************)
EXTENDS Integers, Sequences, FiniteSets, FiniteSetsExt

CONSTANTS
  Threads,      \* the threads that call zbus
  Channels,     \* the channels defined in the firmware
  Observers,    \* the message subscribers
  ObserversOf,  \* a channel's observation list
  PoolSize,     \* buffers in the pool shared by all message subscribers
  NoOwner       \* what owns a free semaphore

ASSUME ObserversAssumption ==
  /\ ObserversOf \in [Channels -> Seq(Observers)]
  /\ \A c \in Channels : \A i, j \in DOMAIN ObserversOf[c] :
       ObserversOf[c][i] = ObserversOf[c][j] => i = j
ASSUME PoolAssumption == PoolSize \in Nat
ASSUME OwnerAssumption == NoOwner \notin Threads

VARIABLES
  owner,   \* owner[c]: the thread that holds c's semaphore
  memory,  \* memory[c]: the message stored in channel c
  fifo,    \* fifo[o]: the (channel, message) pairs queued for observer o
  next     \* next[t]: the position in the observation list that t's
           \* publication serves next; 0 when t holds no network buffer

zvars == <<owner, memory, fifo, next>>

-----------------------------------------------------------------------------
\* Each queued message and each publication in progress holds a buffer.
BuffersInUse ==
  MapThenSumSet(LAMBDA o : Len(fifo[o]), Observers)
    + Cardinality({t \in Threads : next[t] # 0})

BufferFree == BuffersInUse < PoolSize

\* Mutant: the message is copied in without taking the semaphore.
CopyUnlocked(t, c, m) ==
  /\ owner' = [owner EXCEPT ![c] = t]
  /\ memory' = [memory EXCEPT ![c] = m]
  /\ UNCHANGED <<fifo, next>>

\* zbus_chan_pub: the semaphore is taken and the message copied in.
LockAndCopy(t, c, m) ==
  /\ owner[c] = NoOwner
  /\ owner' = [owner EXCEPT ![c] = t]
  /\ memory' = [memory EXCEPT ![c] = m]
  /\ UNCHANGED <<fifo, next>>

\* The publication takes the buffer it will clone.
TakeBuffer(t) ==
  /\ BufferFree
  /\ next' = [next EXCEPT ![t] = 1]
  /\ UNCHANGED <<owner, memory, fifo>>

Notified(t, c) == next[t] > Len(ObserversOf[c])

\* One clone goes to the next observer of the list.
NotifyNext(t, c) ==
  /\ ~ Notified(t, c)
  /\ BufferFree
  /\ LET o == ObserversOf[c][next[t]]
     IN  fifo' = [fifo EXCEPT ![o] = Append(@, [chan |-> c, msg |-> memory[c]])]
  /\ next' = [next EXCEPT ![t] = @ + 1]
  /\ UNCHANGED <<owner, memory>>

\* The publication drops its own buffer and gives the semaphore back.
Unlock(t, c) ==
  /\ owner' = [owner EXCEPT ![c] = NoOwner]
  /\ next' = [next EXCEPT ![t] = 0]
  /\ UNCHANGED <<memory, fifo>>

\* zbus_chan_read takes the semaphore before it copies the message out.
Lock(t, c) ==
  /\ owner[c] = NoOwner
  /\ owner' = [owner EXCEPT ![c] = t]
  /\ UNCHANGED <<memory, fifo, next>>

\* Mutant: the messages queued behind the oldest go with it.
DequeueAll(o) ==
  /\ fifo[o] # <<>>
  /\ fifo' = [fifo EXCEPT ![o] = <<>>]
  /\ UNCHANGED <<owner, memory, next>>

\* zbus_sub_wait_msg removes the oldest message and frees its buffer.
Dequeue(o) ==
  /\ fifo[o] # <<>>
  /\ fifo' = [fifo EXCEPT ![o] = Tail(@)]
  /\ UNCHANGED <<owner, memory, next>>
=============================================================================
