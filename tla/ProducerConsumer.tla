-------------------------- MODULE ProducerConsumer --------------------------
(***************************************************************************)
(* samples/producer_consumer: a Lua producer (producer.lua, through the    *)
(* zbus binding) and a native consumer (consumer.c) in lock step over two  *)
(* channels.  zbus is the instance of Zbus below; the third channel only   *)
(* receives the configuration the producer publishes first.  Reading       *)
(* chan_version, and reading that configuration back, changes nothing.     *)
(*                                                                         *)
(* No two threads use the same channel's semaphore, so neither lock waits; *)
(* what can fail is the supply of network buffers, the script's heap and   *)
(* the producer's patience.                                                *)
(***************************************************************************)
EXTENDS Integers, Sequences, FiniteSets

CONSTANTS
  Target,    \* the loop bound of producer.lua
  PoolSize,  \* network buffers
  producer, consumer,                            \* threads
  chan_sensor_config, chan_acc_data, chan_acc_data_consumed,
  msub_consumer, msub_acc_consumed,              \* message subscribers
  Nobody     \* no thread, no channel

ASSUME TargetAssumption == Target \in Nat \ {0}
ASSUME NamesAssumption ==
  /\ producer # consumer /\ Nobody \notin {producer, consumer}
  /\ chan_sensor_config \notin {chan_acc_data, chan_acc_data_consumed, Nobody}
  /\ chan_acc_data \notin {chan_acc_data_consumed, Nobody}
  /\ chan_acc_data_consumed # Nobody
  /\ msub_consumer # msub_acc_consumed

Threads   == {producer, consumer}
Channels  == {chan_sensor_config, chan_acc_data, chan_acc_data_consumed}
Observers == {msub_consumer, msub_acc_consumed}

ObserversOf ==
  [c \in Channels |-> CASE c = chan_acc_data -> <<msub_consumer>>
                        [] c = chan_acc_data_consumed -> <<msub_acc_consumed>>
                        [] c = chan_sensor_config -> <<>>]

VARIABLES
  owner, memory, fifo, next,  \* zbus
  pub,    \* pub[t]: the channel t is publishing on, after the copy
  pp,     \* where producer.lua is
  cp,     \* where consumer_thread is
  i,      \* the loop variable of producer.lua
  count,  \* ack_msg.count
  acks    \* history: the counts the producer received

INSTANCE Zbus WITH NoOwner <- Nobody

bus  == <<owner, memory, fifo, next>>
own  == <<pp, cp, i, count, acks>>
vars == <<bus, pub, own>>

Init ==
  /\ owner = [c \in Channels |-> Nobody]
  /\ memory = [c \in Channels |-> 0]
  /\ fifo = [o \in Observers |-> <<>>]
  /\ next = [t \in Threads |-> 0]
  /\ pub = [t \in Threads |-> Nobody]
  /\ pp = "config"
  /\ cp = "wait"
  /\ i = 1
  /\ count = 0
  /\ acks = <<>>

Ready(t) == pub[t] = Nobody

-----------------------------------------------------------------------------
(* zbus_chan_pub, for either thread.                                       *)

Publish(t, c, m) ==
  /\ LockAndCopy(t, c, m)
  /\ pub' = [pub EXCEPT ![t] = c]

Distribute(t) ==
  /\ ~ Ready(t)
  /\ \/ next[t] = 0 /\ TakeBuffer(t)
     \/ next[t] # 0 /\ NotifyNext(t, pub[t])
  /\ UNCHANGED <<pub, own>>

Distributed(t) == next[t] # 0 /\ Notified(t, pub[t])

\* The observer list is done, or no buffer could be had until the deadline:
\* they come from the system heap, which the rest of the firmware uses too.
Finish(t) ==
  /\ ~ Ready(t)
  /\ Unlock(t, pub[t])
  /\ pub' = [pub EXCEPT ![t] = Nobody]
  /\ UNCHANGED own

-----------------------------------------------------------------------------
(* producer.lua                                                            *)

\* The body does not look at the error of either publication except to
\* print it.
PublishConfig ==
  /\ pp = "config"
  /\ Publish(producer, chan_sensor_config, 1)
  /\ pp' = "loop"
  /\ UNCHANGED <<cp, i, count, acks>>

PublishData ==
  /\ pp = "loop" /\ Ready(producer)
  /\ Publish(producer, chan_acc_data, 1)
  /\ pp' = "wait"
  /\ UNCHANGED <<cp, i, count, acks>>

\* chan_pub found the script's heap full and returned -ENOMEM.
PublishRefused ==
  /\ \/ pp = "config" /\ pp' = "loop"
     \/ pp = "loop" /\ Ready(producer) /\ pp' = "wait"
  /\ UNCHANGED <<bus, pub, cp, i, count, acks>>

GetAck ==
  /\ pp = "wait" /\ Ready(producer)
  /\ Dequeue(msub_acc_consumed)
  /\ LET ack == Head(fifo[msub_acc_consumed]).msg
     IN  i' = ack /\ acks' = Append(acks, ack)
  /\ pp' = "sleep"
  /\ UNCHANGED <<pub, cp, count>>

\* Mutant: the loop goes on after an error.
AckTimeoutGoesOn ==
  /\ pp = "wait" /\ Ready(producer)
  /\ fifo[msub_acc_consumed] = <<>>
  /\ pp' = "sleep"
  /\ UNCHANGED <<bus, pub, cp, i, count, acks>>

\* Mutant: the producer waits with K_FOREVER.
AckForever == pp = "wait" /\ pp' = "wait" /\ UNCHANGED vars

\* err ~= 0: the loop breaks.
AckTimeout ==
  /\ pp = "wait" /\ Ready(producer)
  /\ fifo[msub_acc_consumed] = <<>>
  /\ pp' = "done"
  /\ UNCHANGED <<bus, pub, cp, i, count, acks>>

\* Mutant: the loop bound is tested with <=.
LoopTestOffByOne ==
  /\ pp = "sleep"
  /\ pp' = IF i <= Target THEN "loop" ELSE "done"
  /\ UNCHANGED <<bus, pub, cp, i, count, acks>>

LoopTest ==
  /\ pp = "sleep"
  /\ pp' = IF i < Target THEN "loop" ELSE "done"
  /\ UNCHANGED <<bus, pub, cp, i, count, acks>>

\* A Lua error, or wait_msg's -ENOMEM, ends the script wherever it is.
ScriptEnds ==
  /\ pp # "done" /\ Ready(producer)
  /\ pp' = "done"
  /\ UNCHANGED <<bus, pub, cp, i, count, acks>>

ProducerStep ==
  \/ PublishConfig \/ PublishData \/ PublishRefused
  \/ Distribute(producer) \/ Finish(producer)
  \/ GetAck \/ AckTimeout \/ LoopTest

-----------------------------------------------------------------------------
(* consumer.c                                                              *)

CountData ==
  /\ cp = "wait" /\ Ready(consumer)
  /\ Dequeue(msub_consumer)
  /\ count' = count + 1
  /\ cp' = "pub"
  /\ UNCHANGED <<pub, pp, i, acks>>

PublishAck ==
  /\ cp = "pub"
  /\ Publish(consumer, chan_acc_data_consumed, count)
  /\ cp' = "wait"
  /\ UNCHANGED <<pp, i, count, acks>>

ConsumerStep ==
  CountData \/ PublishAck \/ Distribute(consumer) \/ Finish(consumer)

-----------------------------------------------------------------------------
Next == ProducerStep \/ ScriptEnds \/ ConsumerStep

Spec == Init /\ [][Next]_vars

\* Zephyr runs both threads: the consumer preempts, the producer sleeps and
\* waits with finite timeouts.  That the script fails is never owed.
FairSpec == Spec /\ WF_vars(ProducerStep) /\ WF_vars(ConsumerStep)

-----------------------------------------------------------------------------
(* Correctness.                                                            *)

\* Every variable holds a value of its kind; no count passes Target.
TypeOK ==
  /\ owner \in [Channels -> Threads \cup {Nobody}]
  /\ memory \in [Channels -> 0..Target]
  /\ fifo \in [Observers -> Seq([chan : Channels, msg : 0..Target])]
  /\ next \in [Threads -> 0..2]
  /\ pub \in [Threads -> Channels \cup {Nobody}]
  /\ pp \in {"config", "loop", "wait", "sleep", "done"}
  /\ cp \in {"wait", "pub"}
  /\ i \in 1..Target
  /\ count \in 0..Target
  /\ acks \in Seq(1..Target)

\* The sample does what its console test waits for, or a prefix of it: never
\* two samples in flight, and the k-th count the producer receives is k, so
\* an answer that comes after the timeout is never taken for a later one's.
Promise ==
  INSTANCE AckLoop WITH
    sent <- count + Len(fifo[msub_consumer]), seen <- count, open <- pp # "done"

ImplementsAckLoop == Promise!Spec

\* Lock step bounds the buffers in use: whoever needs one, at most two are
\* taken, so a pool of three is never what makes a publication fail.
PoolSuffices ==
  \A t \in Threads : ~ Ready(t) /\ ~ Distributed(t) => BuffersInUse < 3

\* The producer's loop ends, however many answers are lost.
ProducerStops == <>(pp = "done")
=============================================================================
