------------------------ MODULE ProducerConsumerProofs ------------------------
(***************************************************************************)
(* Proofs about the sample, for any number of samples and any pool size.   *)
(***************************************************************************)
EXTENDS ProducerConsumer, FiniteSetTheorems, TLAPS

-----------------------------------------------------------------------------
(* The two threads are in lock step.                                       *)

Data    == fifo[msub_consumer]
Answers == fifo[msub_acc_consumed]

\* A publication its observer does not have yet.
Sending   == pub[producer] = chan_acc_data /\ next[producer] # 2
Answering == pub[consumer] = chan_acc_data_consumed /\ next[consumer] # 2

\* Where a thread publishes, and what.
Buses ==
  /\ \A t \in Threads : Ready(t) => next[t] = 0
  /\ pub[producer] \in {Nobody, chan_sensor_config, chan_acc_data}
  /\ pub[consumer] \in {Nobody, chan_acc_data_consumed}
  /\ pub[producer] = chan_sensor_config => pp = "loop" /\ next[producer] # 2
  /\ pub[producer] = chan_acc_data => pp = "wait"
  /\ cp = "pub" => Ready(consumer)
  /\ ~ Ready(consumer) => memory[chan_acc_data_consumed] = count

\* The k-th answer was k, and so is the loop variable.
Loop ==
  /\ \A k \in DOMAIN acks : acks[k] = k
  /\ i = IF acks = <<>> THEN 1 ELSE Len(acks)
  /\ pp = "config" => acks = <<>>
  /\ pp = "loop" => Len(acks) < Target
  /\ pp = "sleep" => acks # <<>>

Settled == Data = <<>> /\ cp = "wait" /\ ~ Answering /\ Answers = <<>>

\* A sample or its answer is at one place, or lost.
OneInFlight ==
  \/ Settled
  \/ Len(Data) = 1 /\ cp = "wait" /\ ~ Answering /\ Answers = <<>>
  \/ Data = <<>> /\ cp = "pub" /\ Answers = <<>>
  \/ Data = <<>> /\ cp = "wait" /\ Answering /\ Answers = <<>>
  \/ /\ Data = <<>> /\ cp = "wait" /\ ~ Answering
     /\ Len(Answers) = 1 /\ Head(Answers).msg = count

\* Everything sent was counted and acknowledged, but for one sample.
LockStep ==
  \/ Len(acks) = count /\ Settled
  \/ /\ Len(acks) + 1 = count + Len(Data)
     /\ Len(acks) < Target
     /\ OneInFlight
     /\ pp \in {"wait", "done"}
     /\ ~ Sending

SendingFirst == Sending => Len(acks) = count /\ Len(acks) < Target

Inv == TypeOK /\ Buses /\ Loop /\ LockStep /\ SendingFirst

LEMMA Names ==
  /\ producer \in Threads /\ consumer \in Threads /\ Threads = {producer, consumer}
  /\ producer # consumer /\ producer # Nobody /\ consumer # Nobody
  /\ chan_sensor_config \in Channels
  /\ chan_acc_data \in Channels
  /\ chan_acc_data_consumed \in Channels
  /\ chan_sensor_config # chan_acc_data /\ chan_sensor_config # Nobody
  /\ chan_sensor_config # chan_acc_data_consumed
  /\ chan_acc_data # chan_acc_data_consumed /\ chan_acc_data # Nobody
  /\ chan_acc_data_consumed # Nobody
  /\ msub_consumer \in Observers /\ msub_acc_consumed \in Observers
  /\ msub_consumer # msub_acc_consumed
  /\ Target \in Nat /\ Target >= 1
BY NamesAssumption, TargetAssumption DEF Threads, Channels, Observers

LEMMA Lists ==
  /\ ObserversOf[chan_sensor_config] = <<>>
  /\ ObserversOf[chan_acc_data] = <<msub_consumer>>
  /\ ObserversOf[chan_acc_data_consumed] = <<msub_acc_consumed>>
BY Names DEF ObserversOf

\* An update stays in the function's set.
LEMMA Update ==
  ASSUME NEW A, NEW B, NEW f \in [A -> B], NEW a \in A, NEW b \in B
  PROVE  [f EXCEPT ![a] = b] \in [A -> B]
OBVIOUS

Clones == [chan : Channels, msg : 0..Target]

\* The types of the variables that are functions.
FunctionTypes ==
  /\ owner \in [Channels -> Threads \cup {Nobody}]
  /\ memory \in [Channels -> 0..Target]
  /\ fifo \in [Observers -> Seq(Clones)]
  /\ next \in [Threads -> 0..2]
  /\ pub \in [Threads -> Channels \cup {Nobody}]

OtherTypes ==
  /\ pp \in {"config", "loop", "wait", "sleep", "done"}
  /\ cp \in {"wait", "pub"}
  /\ i \in 1..Target
  /\ count \in 0..Target
  /\ acks \in Seq(1..Target)

LEMMA Types == TypeOK <=> FunctionTypes /\ OtherTypes
BY Zenon DEF TypeOK, FunctionTypes, OtherTypes, Clones

LEMMA TypesNext == TypeOK' <=> FunctionTypes' /\ OtherTypes'
BY Zenon DEF TypeOK, FunctionTypes, OtherTypes, Clones

LEMMA InitInv == Init => Inv
<1>1. ASSUME Init PROVE TypeOK
  BY <1>1, Names DEF Init, TypeOK
<1>2. ASSUME Init PROVE Buses /\ Loop
  BY <1>2, Names DEF Init, Buses, Loop, Ready
<1>3. ASSUME Init PROVE LockStep /\ SendingFirst
  BY <1>3, Names DEF Init, LockStep, SendingFirst, Sending, Settled, Answering, Data, Answers
<1>4. QED
  BY <1>1, <1>2, <1>3 DEF Inv

\* What the producer does to its own variables.
LEMMA StartsInv ==
  ASSUME Inv, NEW c \in {chan_sensor_config, chan_acc_data},
         Publish(producer, c, 1), UNCHANGED <<cp, i, count, acks>>,
         Ready(producer),
         \/ c = chan_sensor_config /\ pp = "config" /\ pp' = "loop"
         \/ c = chan_acc_data /\ pp = "loop" /\ pp' = "wait"
  PROVE  Inv'
<1> USE Names DEF Inv
<1>1. /\ pub' = [pub EXCEPT ![producer] = c] /\ UNCHANGED <<fifo, next>>
      /\ owner' = [owner EXCEPT ![c] = producer]
      /\ memory' = [memory EXCEPT ![c] = 1]
  BY DEF Publish, LockAndCopy
<1>2. pub'[producer] = c /\ pub'[consumer] = pub[consumer]
  BY <1>1 DEF TypeOK
<1>3. memory'[chan_acc_data_consumed] = memory[chan_acc_data_consumed]
  BY <1>1 DEF TypeOK
<1>4. next'[producer] = 0 /\ next'[consumer] = next[consumer]
  <2>1. next[producer] = 0
    BY DEF Buses
  <2>2. QED
    BY <1>1, <2>1
<1>5. TypeOK'
  <2>1. FunctionTypes'
    <3>1. pub' \in [Threads -> Channels \cup {Nobody}]
      BY <1>1, Types, Update DEF FunctionTypes
    <3>2. owner' \in [Channels -> Threads \cup {Nobody}]
      BY <1>1, Types, Update DEF FunctionTypes
    <3>3. memory' \in [Channels -> 0..Target]
      BY <1>1, Types, Update DEF FunctionTypes
    <3>4. QED
      BY <1>1, <3>1, <3>2, <3>3, Types DEF FunctionTypes
  <2>2. OtherTypes'
    BY Types DEF OtherTypes
  <2>3. QED
    BY <2>1, <2>2, TypesNext
<1>6. Buses'
  BY <1>1, <1>2, <1>3, <1>4 DEF Buses, Ready
<1>7. Len(acks) = count /\ Settled /\ Len(acks) < Target
  BY DEF LockStep, Loop, TypeOK
<1>8. Loop'
  BY <1>7 DEF Loop
<1>9. LockStep'
  BY <1>1, <1>2, <1>4, <1>7 DEF LockStep, Settled, Answering, Data, Answers
<1>10. SendingFirst'
  BY <1>7 DEF SendingFirst
<1>11. QED
  BY <1>5, <1>6, <1>8, <1>9, <1>10

LEMMA ProducerInv ==
  ASSUME Inv,
         PublishConfig \/ PublishData \/ PublishRefused \/ AckTimeout \/ LoopTest
           \/ ScriptEnds
  PROVE  Inv'
<1> USE Names DEF Inv
<1>1. CASE PublishConfig \/ PublishData
  <2>1. Ready(producer)
    BY <1>1 DEF PublishConfig, PublishData, Buses, Ready
  <2>2. QED
    BY <1>1, <2>1, StartsInv DEF PublishConfig, PublishData
<1>2. CASE PublishRefused \/ AckTimeout \/ LoopTest \/ ScriptEnds
  <2>1. UNCHANGED <<owner, memory, fifo, next, pub, cp, i, count, acks>>
    BY <1>2 DEF PublishRefused, AckTimeout, LoopTest, ScriptEnds, bus
  <2>2. /\ Ready(producer)
        /\ pp' \in {"config", "loop", "wait", "sleep", "done"}
        /\ pp' # "config"
        /\ pp' # "sleep"
    BY <1>2 DEF PublishRefused, AckTimeout, LoopTest, ScriptEnds, Buses, Ready
  <2>3. TypeOK'
    BY <2>1, <2>2 DEF TypeOK
  <2>4. Buses'
    BY <2>1, <2>2 DEF Buses, Ready
  <2>5. /\ pp' = "loop" => pp \in {"config", "sleep"} /\ Len(acks) < Target
        /\ pp' = "wait" => pp = "loop"
    BY <1>2, SMTT(30) DEF PublishRefused, AckTimeout, LoopTest, ScriptEnds, Loop, TypeOK
  <2>6. Loop'
    BY <2>1, <2>2, <2>5 DEF Loop
  <2>7. LockStep'
    BY <2>1, <2>2, <2>5
       DEF LockStep, OneInFlight, Settled, Answering, Sending, Data, Answers
  <2>8. SendingFirst'
    BY <2>1 DEF SendingFirst, Sending
  <2>9. QED
    BY <2>3, <2>4, <2>6, <2>7, <2>8
<1>3. QED
  BY <1>1, <1>2

-----------------------------------------------------------------------------
(* zbus.                                                                   *)

LEMMA TakeInv ==
  ASSUME Inv, NEW t \in Threads, ~ Ready(t), next[t] = 0, TakeBuffer(t),
         UNCHANGED <<pub, own>>
  PROVE  Inv'
<1> USE Names DEF Inv
<1>1. /\ next' = [next EXCEPT ![t] = 1]
      /\ UNCHANGED <<owner, memory, fifo, pub, pp, cp, i, count, acks>>
  BY DEF TakeBuffer, own
<1>2. /\ next'[t] = 1
      /\ \A u \in Threads \ {t} : next'[u] = next[u]
  BY <1>1 DEF TypeOK
<1>3. /\ next'[producer] # 2 <=> next[producer] # 2
      /\ next'[consumer] # 2 <=> next[consumer] # 2
  BY <1>2
<1>4. TypeOK'
  <2>1. next' \in [Threads -> 0..2]
    BY <1>1, Types, Update DEF FunctionTypes
  <2>2. FunctionTypes' /\ OtherTypes'
    BY <1>1, <2>1, Types DEF FunctionTypes, OtherTypes
  <2>3. QED
    BY <2>2, TypesNext
<1>5. Buses'
  BY <1>1, <1>2, <1>3 DEF Buses, Ready
<1>6. Loop'
  BY <1>1 DEF Loop
<1>7. LockStep' /\ SendingFirst'
  BY <1>1, <1>3 DEF LockStep, OneInFlight, Settled, Answering, Sending,
                    SendingFirst, Data, Answers
<1>8. QED
  BY <1>4, <1>5, <1>6, <1>7

\* A clone goes to the end of a queue, or leaves its front.
LEMMA QueueTypes ==
  ASSUME FunctionTypes, NEW o \in Observers
  PROVE  /\ \A m \in Clones : [fifo EXCEPT ![o] = Append(@, m)] \in [Observers -> Seq(Clones)]
         /\ fifo[o] # <<>> => [fifo EXCEPT ![o] = Tail(@)] \in [Observers -> Seq(Clones)]
<1>1. fifo \in [Observers -> Seq(Clones)] /\ fifo[o] \in Seq(Clones)
  BY DEF FunctionTypes
<1>2. ASSUME NEW m \in Clones
      PROVE  [fifo EXCEPT ![o] = Append(@, m)] \in [Observers -> Seq(Clones)]
  <2>1. Append(fifo[o], m) \in Seq(Clones)
    BY <1>1
  <2>2. QED
    BY <1>1, <2>1, Update
<1>3. ASSUME fifo[o] # <<>>
      PROVE  [fifo EXCEPT ![o] = Tail(@)] \in [Observers -> Seq(Clones)]
  <2>1. Tail(fifo[o]) \in Seq(Clones)
    BY <1>1, <1>3
  <2>2. QED
    BY <1>1, <2>1, Update
<1>4. QED
  BY <1>2, <1>3

LEMMA NotifyInv ==
  ASSUME Inv, NEW t \in Threads, ~ Ready(t), next[t] # 0, NotifyNext(t, pub[t]),
         UNCHANGED <<pub, own>>
  PROVE  Inv'
<1> USE Names DEF Inv
<1>1. next[t] = 1
  BY Lists, SMTT(30) DEF NotifyNext, Notified, TypeOK, Buses, Ready
<1>2. /\ next' = [next EXCEPT ![t] = 2]
      /\ UNCHANGED <<owner, memory, pub, pp, cp, i, count, acks>>
  BY <1>1 DEF NotifyNext, own
<1>3. /\ next'[t] = 2
      /\ \A u \in Threads \ {t} : next'[u] = next[u]
  BY <1>2 DEF TypeOK
<1>4. CASE t = producer
  <2>1. pub[producer] = chan_acc_data
    BY <1>1, <1>4, Lists DEF NotifyNext, Notified, Buses, Ready
  <2>2. Sending /\ Len(acks) = count /\ Settled /\ Len(acks) < Target
    BY <1>1, <1>4, <2>1 DEF Sending, SendingFirst, LockStep
  <2>3. fifo' = [fifo EXCEPT ![msub_consumer] =
                   Append(@, [chan |-> chan_acc_data, msg |-> memory[chan_acc_data]])]
    BY <1>1, <1>4, <2>1, Lists DEF NotifyNext
  <2>4. Data' = <<[chan |-> chan_acc_data, msg |-> memory[chan_acc_data]]>>
    BY <2>2, <2>3 DEF Data, Settled, TypeOK
  <2>5. Answers' = Answers
    BY <2>3 DEF Answers, TypeOK
  <2>6. TypeOK'
    <3>1. [chan |-> chan_acc_data, msg |-> memory[chan_acc_data]] \in Clones
      BY DEF Clones, TypeOK
    <3>2. fifo' \in [Observers -> Seq(Clones)]
      BY <2>3, <3>1, Types, QueueTypes
    <3>3. next' \in [Threads -> 0..2]
      BY <1>2, Types, Update DEF FunctionTypes
    <3>4. FunctionTypes' /\ OtherTypes'
      BY <1>2, <3>2, <3>3, Types DEF FunctionTypes, OtherTypes
    <3>5. QED
      BY <3>4, TypesNext
  <2>7. Buses'
    BY <1>2, <1>3, <1>4, <2>1 DEF Buses, Ready
  <2>8. Loop'
    BY <1>2 DEF Loop
  <2>9. ~ Sending' /\ pp' = "wait"
    BY <1>2, <1>3, <1>4, <2>1 DEF Sending, Buses
  <2>10. LockStep'
    <3>1. Len(Data') = 1 /\ cp' = "wait" /\ ~ Answering' /\ Answers' = <<>>
      BY <1>2, <1>3, <1>4, <2>2, <2>4, <2>5 DEF Settled, Answering
    <3>2. Len(acks') + 1 = count' + Len(Data')
      BY <1>2, <2>2, <3>1 DEF TypeOK
    <3>3. QED
      BY <1>2, <2>2, <2>9, <3>1, <3>2 DEF LockStep, OneInFlight
  <2>11. QED
    BY <2>6, <2>7, <2>8, <2>9, <2>10 DEF SendingFirst
<1>5. CASE t = consumer
  <2>1. pub[consumer] = chan_acc_data_consumed /\ Answering
    BY <1>1, <1>5 DEF Buses, Ready, Answering
  <2>2. /\ Len(acks) + 1 = count + Len(Data)
        /\ Len(acks) < Target
        /\ Data = <<>> /\ cp = "wait" /\ Answers = <<>>
        /\ pp \in {"wait", "done"}
        /\ ~ Sending
    <3>1. ~ Settled /\ OneInFlight
      BY <2>1 DEF LockStep, Settled
    <3>2. Data = <<>> /\ cp = "wait" /\ Answers = <<>>
      <4>1. cp # "pub"
        BY <2>1 DEF Buses, Ready
      <4>2. QED
        BY <2>1, <3>1, <4>1 DEF OneInFlight
    <3>3. QED
      BY <3>1, <3>2 DEF LockStep
  <2>3. fifo' = [fifo EXCEPT ![msub_acc_consumed] =
                   Append(@, [chan |-> chan_acc_data_consumed, msg |-> count])]
    <3>1. memory[chan_acc_data_consumed] = count
      BY <2>1 DEF Buses, Ready
    <3>2. QED
      BY <1>1, <1>5, <2>1, <3>1, Lists DEF NotifyNext
  <2>4. Answers' = <<[chan |-> chan_acc_data_consumed, msg |-> count]>>
    BY <2>2, <2>3 DEF Answers, TypeOK
  <2>5. Data' = Data
    BY <2>3 DEF Data, TypeOK
  <2>6. TypeOK'
    <3>1. [chan |-> chan_acc_data_consumed, msg |-> count] \in Clones
      BY DEF Clones, TypeOK
    <3>2. fifo' \in [Observers -> Seq(Clones)]
      BY <2>3, <3>1, Types, QueueTypes
    <3>3. next' \in [Threads -> 0..2]
      BY <1>2, Types, Update DEF FunctionTypes
    <3>4. FunctionTypes' /\ OtherTypes'
      BY <1>2, <3>2, <3>3, Types DEF FunctionTypes, OtherTypes
    <3>5. QED
      BY <3>4, TypesNext
  <2>7. Buses'
    BY <1>2, <1>3, <1>5, <2>1 DEF Buses, Ready
  <2>8. Loop'
    BY <1>2 DEF Loop
  <2>9. ~ Sending' /\ ~ Answering'
    BY <1>2, <1>3, <1>5, <2>2 DEF Sending, Answering
  <2>10. Len(Answers') = 1 /\ Head(Answers').msg = count'
    BY <1>2, <2>4
  <2>11. LockStep'
    BY <1>2, <2>2, <2>5, <2>9, <2>10 DEF LockStep, OneInFlight
  <2>12. QED
    BY <2>6, <2>7, <2>8, <2>9, <2>11 DEF SendingFirst
<1>6. QED
  BY <1>4, <1>5

LEMMA FinishInv ==
  ASSUME Inv, NEW t \in Threads, Finish(t)
  PROVE  Inv'
<1> USE Names DEF Inv
<1>1. /\ pub' = [pub EXCEPT ![t] = Nobody]
      /\ next' = [next EXCEPT ![t] = 0]
      /\ owner' = [owner EXCEPT ![pub[t]] = Nobody]
      /\ UNCHANGED <<memory, fifo, pp, cp, i, count, acks>>
  BY DEF Finish, Unlock, own
<1>2. /\ pub'[t] = Nobody /\ next'[t] = 0
      /\ \A u \in Threads \ {t} : pub'[u] = pub[u] /\ next'[u] = next[u]
  BY <1>1 DEF TypeOK
<1>3. pub[t] \in Channels
  BY DEF Finish, Ready, TypeOK
<1>4. TypeOK'
  <2>1. next' \in [Threads -> 0..2]
    BY <1>1, Types, Update DEF FunctionTypes
  <2>2. pub' \in [Threads -> Channels \cup {Nobody}]
    BY <1>1, Types, Update DEF FunctionTypes
  <2>3. owner' \in [Channels -> Threads \cup {Nobody}]
    BY <1>1, <1>3, Types, Update DEF FunctionTypes
  <2>4. FunctionTypes' /\ OtherTypes'
    BY <1>1, <2>1, <2>2, <2>3, Types DEF FunctionTypes, OtherTypes
  <2>5. QED
    BY <2>4, TypesNext
<1>5. Buses'
  BY <1>1, <1>2 DEF Buses, Ready
<1>6. Loop'
  BY <1>1 DEF Loop
<1>7. /\ Sending' => Sending
      /\ Answering' => Answering
      /\ t = producer => Answering' = Answering
  BY <1>2 DEF Sending, Answering
<1>8. Settled => Settled'
  BY <1>1, <1>7 DEF Settled, Data, Answers
<1>9. OneInFlight => OneInFlight'
  BY <1>1, <1>7, <1>8 DEF OneInFlight, Settled, Data, Answers
<1>10. LockStep'
  BY <1>1, <1>7, <1>8, <1>9 DEF LockStep, Data
<1>11. SendingFirst'
  BY <1>1, <1>7 DEF SendingFirst
<1>12. QED
  BY <1>4, <1>5, <1>6, <1>10, <1>11

LEMMA GetAckInv == ASSUME Inv, GetAck PROVE Inv'
<1> USE Names DEF Inv
<1> DEFINE ack == Head(Answers).msg
<1>1. /\ UNCHANGED <<owner, memory, next, pub, cp, count>>
      /\ i' = ack /\ acks' = Append(acks, ack)
      /\ pp = "wait" /\ pp' = "sleep" /\ Ready(producer)
      /\ Answers # <<>>
      /\ fifo' = [fifo EXCEPT ![msub_acc_consumed] = Tail(@)]
  BY DEF GetAck, Dequeue, Answers
<1>2. /\ Len(acks) + 1 = count /\ Len(acks) < Target
      /\ Data = <<>> /\ cp = "wait" /\ ~ Answering
      /\ Len(Answers) = 1 /\ ack = count
  BY <1>1 DEF LockStep, OneInFlight, Settled, TypeOK
<1>3. Data' = <<>> /\ Answers' = <<>>
  <2>1. Data' = Data /\ Answers' = Tail(Answers)
    BY <1>1 DEF Data, Answers, TypeOK
  <2>2. Answers \in Seq([chan : Channels, msg : 0..Target])
    BY DEF Answers, TypeOK
  <2>3. QED
    BY <1>2, <2>1, <2>2
<1> HIDE DEF ack
<1>4. Len(acks') = Len(acks) + 1
  BY <1>1 DEF TypeOK
<1>5. TypeOK'
  <2>1. ack \in 1..Target
    BY <1>2 DEF TypeOK
  <2>2. acks' \in Seq(1..Target) /\ i' \in 1..Target
    BY <1>1, <2>1 DEF TypeOK
  <2>3. fifo' \in [Observers -> Seq([chan : Channels, msg : 0..Target])]
    BY <1>1, Types, QueueTypes DEF Answers, Clones
  <2>4. QED
    BY <1>1, <2>2, <2>3 DEF TypeOK
<1>6. Buses'
  BY <1>1 DEF Buses, Ready
<1>7. Loop'
  <2>1. \A k \in DOMAIN acks' : acks'[k] = k
    BY <1>1, <1>2, SMTT(30) DEF Loop, TypeOK
  <2>2. acks' # <<>>
    BY <1>4 DEF TypeOK
  <2>3. QED
    BY <1>1, <1>2, <1>4, <2>1, <2>2 DEF Loop
<1>8. LockStep'
  BY <1>1, <1>2, <1>3, <1>4 DEF LockStep, Settled, Answering
<1>9. SendingFirst'
  BY <1>1 DEF SendingFirst, Sending, Ready
<1>10. QED
  BY <1>5, <1>6, <1>7, <1>8, <1>9

LEMMA ConsumerInv == ASSUME Inv, CountData \/ PublishAck PROVE Inv'
<1> USE Names DEF Inv
<1>1. CASE CountData
  <2>1. /\ UNCHANGED <<owner, memory, next, pub, pp, i, acks>>
        /\ count' = count + 1 /\ cp = "wait" /\ cp' = "pub" /\ Ready(consumer)
        /\ Data # <<>>
        /\ fifo' = [fifo EXCEPT ![msub_consumer] = Tail(@)]
    BY <1>1 DEF CountData, Dequeue, Data
  <2>2. /\ Len(acks) = count /\ Len(acks) < Target
        /\ Len(Data) = 1 /\ Answers = <<>>
        /\ pp \in {"wait", "done"} /\ ~ Sending
    <3>1. ~ Settled /\ OneInFlight
      BY <2>1 DEF LockStep, Settled
    <3>2. Len(Data) = 1 /\ Answers = <<>>
      BY <2>1, <3>1 DEF OneInFlight
    <3>3. Len(acks) + 1 = count + Len(Data) /\ Len(acks) < Target
      BY <3>1 DEF LockStep
    <3>4. Len(acks) = count
      BY <3>2, <3>3 DEF TypeOK
    <3>5. QED
      BY <3>1, <3>2, <3>3, <3>4 DEF LockStep
  <2>3. Data' = <<>> /\ Answers' = <<>>
    <3>1. Data' = Tail(Data) /\ Answers' = Answers
      BY <2>1 DEF Data, Answers, TypeOK
    <3>2. Data \in Seq([chan : Channels, msg : 0..Target])
      BY DEF Data, TypeOK
    <3>3. QED
      BY <2>2, <3>1, <3>2
  <2>4. TypeOK'
    <3>1. fifo' \in [Observers -> Seq([chan : Channels, msg : 0..Target])]
      BY <2>1, Types, QueueTypes DEF Data, Clones
    <3>2. count' \in 0..Target
      BY <2>1, <2>2 DEF TypeOK
    <3>3. QED
      BY <2>1, <3>1, <3>2 DEF TypeOK
  <2>5. Buses'
    BY <2>1 DEF Buses, Ready
  <2>6. Loop'
    BY <2>1 DEF Loop
  <2>7. LockStep'
    BY <2>1, <2>2, <2>3 DEF LockStep, OneInFlight, Sending, TypeOK
  <2>8. SendingFirst'
    BY <2>1, <2>2 DEF SendingFirst, Sending
  <2>9. QED
    BY <2>4, <2>5, <2>6, <2>7, <2>8
<1>2. CASE PublishAck
  <2>1. /\ UNCHANGED <<fifo, next, pp, i, count, acks>>
        /\ cp = "pub" /\ cp' = "wait" /\ Ready(consumer)
        /\ pub' = [pub EXCEPT ![consumer] = chan_acc_data_consumed]
        /\ owner' = [owner EXCEPT ![chan_acc_data_consumed] = consumer]
        /\ memory' = [memory EXCEPT ![chan_acc_data_consumed] = count]
    BY <1>2 DEF PublishAck, Publish, LockAndCopy, Buses
  <2>2. /\ pub'[consumer] = chan_acc_data_consumed /\ pub'[producer] = pub[producer]
        /\ memory'[chan_acc_data_consumed] = count
        /\ next'[consumer] = 0 /\ next'[producer] = next[producer]
    <3>1. next[consumer] = 0
      BY <2>1 DEF Buses
    <3>2. QED
      BY <2>1, <3>1 DEF TypeOK
  <2>3. /\ Len(acks) + 1 = count /\ Len(acks) < Target
        /\ Data = <<>> /\ Answers = <<>>
        /\ pp \in {"wait", "done"} /\ ~ Sending
    BY <2>1 DEF LockStep, OneInFlight, Settled, TypeOK
  <2>4. TypeOK'
    BY <2>1 DEF TypeOK
  <2>5. Buses'
    BY <2>1, <2>2 DEF Buses, Ready
  <2>6. Loop'
    BY <2>1 DEF Loop
  <2>7. ~ Sending' /\ Answering' /\ Data' = <<>> /\ Answers' = <<>>
    BY <2>1, <2>2, <2>3 DEF Sending, Answering, Data, Answers
  <2>8. LockStep'
    BY <2>1, <2>3, <2>7 DEF LockStep, OneInFlight, TypeOK
  <2>9. QED
    BY <2>4, <2>5, <2>6, <2>7, <2>8 DEF SendingFirst
<1>3. QED
  BY <1>1, <1>2

LEMMA InvStep == Inv /\ [Next]_vars => Inv'
<1> SUFFICES ASSUME Inv, [Next]_vars PROVE Inv'
  OBVIOUS
<1> USE Names
<1>1. CASE \E t \in Threads : Distribute(t)
  <2>1. PICK t \in Threads : Distribute(t)
    BY <1>1
  <2>2. QED
    BY <2>1, TakeInv, NotifyInv DEF Distribute
<1>2. CASE \E t \in Threads : Finish(t)
  BY <1>2, FinishInv
<1>3. CASE PublishConfig \/ PublishData \/ PublishRefused \/ AckTimeout \/ LoopTest
             \/ ScriptEnds
  BY <1>3, ProducerInv
<1>4. CASE GetAck
  BY <1>4, GetAckInv
<1>5. CASE CountData \/ PublishAck
  BY <1>5, ConsumerInv
<1>6. CASE UNCHANGED vars
  <2>1. UNCHANGED <<owner, memory, fifo, next, pub, pp, cp, i, count, acks>>
    BY <1>6 DEF vars, bus, own
  <2>2. TypeOK' /\ Buses' /\ Loop'
    BY <2>1 DEF Inv, TypeOK, Buses, Loop, Ready
  <2>3. LockStep' /\ SendingFirst'
    BY <2>1 DEF Inv, LockStep, OneInFlight, Settled, Sending, Answering,
                SendingFirst, Data, Answers
  <2>4. QED
    BY <2>2, <2>3 DEF Inv
<1>7. QED
  BY <1>1, <1>2, <1>3, <1>4, <1>5, <1>6 DEF Next, ProducerStep, ConsumerStep

LEMMA InvHolds == Spec => []Inv
BY InitInv, InvStep, PTL DEF Spec

\* Every variable keeps its kind and no count passes Target, for any Target.
THEOREM SampleTypeCorrect == Spec => []TypeOK
<1>1. Inv => TypeOK
  BY DEF Inv
<1>2. QED
  BY <1>1, InvHolds, PTL

-----------------------------------------------------------------------------
(* The sample implements AckLoop.                                          *)

Sent == count + Len(fifo[msub_consumer])

Open == pp # "done"

\* A step changes nothing of what AckLoop sees, or the producer gives up.
LEMMA Stutters ==
  ASSUME UNCHANGED <<count, acks>>, Sent' = Sent,
         \/ Open' = Open
         \/ Open /\ ~ Open'
  PROVE  [Promise!Next]_(Promise!vars)
<1>1. Sent = count + Len(fifo[msub_consumer]) /\ Open = (pp # "done")
  BY DEF Sent, Open
<1>2. CASE Open' = Open
  BY <1>2 DEF Promise!vars, Sent, Open
<1>3. CASE Open /\ ~ Open'
  <2>1. Promise!GiveUp
    BY <1>3 DEF Promise!GiveUp, Sent, Open
  <2>2. QED
    BY <2>1 DEF Promise!Next
<1>4. QED
  BY <1>2, <1>3

LEMMA NotifyProduces ==
  ASSUME Inv, NEW t \in Threads, Distribute(t)
  PROVE  [Promise!Next]_(Promise!vars)
<1> USE Names DEF Inv
<1>1. UNCHANGED <<pub, pp, cp, i, count, acks>>
  BY DEF Distribute, own
<1>2. CASE TakeBuffer(t)
  <2>1. Sent' = Sent /\ Open' = Open
    BY <1>1, <1>2 DEF TakeBuffer, Sent, Open
  <2>2. QED
    BY <1>1, <2>1, Stutters
<1>3. CASE ~ TakeBuffer(t)
  <2>1. ~ Ready(t) /\ next[t] # 0 /\ NotifyNext(t, pub[t])
    BY <1>3 DEF Distribute
  <2>2. next[t] = 1
    BY <2>1, Lists, SMTT(30) DEF NotifyNext, Notified, TypeOK, Buses, Ready
  <2>3. CASE t = producer
    <3>1. pub[producer] = chan_acc_data
      BY <2>1, <2>2, <2>3, Lists DEF NotifyNext, Notified, Buses, Ready
    <3>2. Len(acks) = count /\ Settled /\ Len(acks) < Target /\ pp = "wait"
      BY <2>2, <2>3, <3>1 DEF Sending, SendingFirst, LockStep, Buses
    <3>3. Data' = Append(Data, [chan |-> chan_acc_data, msg |-> memory[chan_acc_data]])
      BY <2>1, <2>2, <2>3, <3>1, Lists DEF NotifyNext, Data, TypeOK
    <3>4. Sent = count /\ Sent' = count + 1
      <4>1. Data = <<>>
        BY <3>2 DEF Settled
      <4>2. Len(Data) = 0 /\ Len(Data') = 1
        BY <3>3, <4>1
      <4>3. QED
        BY <1>1, <4>2 DEF Sent, Data, TypeOK
    <3>5. Promise!Produce
      BY <1>1, <3>2, <3>4 DEF Promise!Produce, Sent, Open
    <3>6. QED
      BY <3>5 DEF Promise!Next
  <2>4. CASE t = consumer
    <3>1. fifo'[msub_consumer] = fifo[msub_consumer]
      <4>1. pub[consumer] = chan_acc_data_consumed
        BY <2>1, <2>4 DEF Buses, Ready
      <4>2. QED
        BY <2>1, <2>2, <2>4, <4>1, Lists DEF NotifyNext, TypeOK
    <3>2. Sent' = Sent /\ Open' = Open
      BY <1>1, <3>1 DEF Sent, Open
    <3>3. QED
      BY <1>1, <3>2, Stutters
  <2>5. QED
    BY <2>3, <2>4
<1>4. QED
  BY <1>2, <1>3

LEMMA OthersStutter ==
  ASSUME Inv,
         \/ PublishConfig \/ PublishData \/ PublishRefused \/ AckTimeout
         \/ LoopTest \/ ScriptEnds \/ PublishAck
         \/ \E t \in Threads : Finish(t)
  PROVE  [Promise!Next]_(Promise!vars)
<1>1. UNCHANGED <<fifo, count, acks>>
  BY DEF PublishConfig, PublishData, PublishRefused, AckTimeout, LoopTest,
         ScriptEnds, PublishAck, Finish, Publish, LockAndCopy, Unlock, bus, own
<1>2. Sent' = Sent
  BY <1>1 DEF Sent
<1>3. Open' = Open \/ (Open /\ ~ Open')
  BY DEF PublishConfig, PublishData, PublishRefused, AckTimeout, LoopTest,
         ScriptEnds, PublishAck, Finish, own, Open
<1>4. QED
  BY <1>1, <1>2, <1>3, Stutters

LEMMA CountConsumes ==
  ASSUME Inv, CountData
  PROVE  Promise!Consume
<1>1. /\ fifo' = [fifo EXCEPT ![msub_consumer] = Tail(@)]
      /\ fifo[msub_consumer] # <<>>
      /\ count' = count + 1 /\ UNCHANGED <<pp, acks>>
  BY DEF CountData, Dequeue
<1>2. Data' = Tail(Data) /\ Data # <<>> /\ Data \in Seq(Clones)
  BY <1>1, Names DEF Data, Inv, TypeOK, Clones
<1>3. Len(Data) \in Nat /\ Len(Data) > 0 /\ Len(Data') = Len(Data) - 1
  BY <1>2
<1>4. Sent' = Sent /\ count < Sent
  <2>1. Sent = count + Len(Data) /\ Sent' = count' + Len(Data')
    BY DEF Sent, Data
  <2>2. count \in Int
    BY DEF Inv, TypeOK
  <2>3. QED
    BY <1>1, <1>3, <2>1, <2>2
<1>5. QED
  BY <1>1, <1>4 DEF Promise!Consume, Sent

LEMMA GetAckAcks ==
  ASSUME Inv, GetAck
  PROVE  Promise!Ack
<1>1. /\ acks' = Append(acks, Head(Answers).msg)
      /\ pp = "wait" /\ pp' = "sleep" /\ UNCHANGED count
      /\ Answers # <<>>
      /\ fifo' = [fifo EXCEPT ![msub_acc_consumed] = Tail(@)]
  BY DEF GetAck, Dequeue, Answers
<1>2. Len(acks) < count /\ Head(Answers).msg = count
  BY <1>1 DEF Inv, LockStep, OneInFlight, Settled, TypeOK
<1>3. fifo'[msub_consumer] = fifo[msub_consumer]
  BY <1>1, Names DEF Inv, TypeOK
<1>4. Sent' = Sent /\ (pp # "done") /\ (pp' # "done")
  BY <1>1, <1>3 DEF Sent
<1>5. acks' = Append(acks, count)
  BY <1>1, <1>2
<1>6. QED
  BY <1>1, <1>2, <1>4, <1>5 DEF Promise!Ack, Sent

LEMMA PromiseStep == Inv /\ [Next]_vars => [Promise!Next]_(Promise!vars)
<1> SUFFICES ASSUME Inv, [Next]_vars PROVE [Promise!Next]_(Promise!vars)
  OBVIOUS
<1> USE Names
<1>1. CASE \E t \in Threads : Distribute(t)
  BY <1>1, NotifyProduces
<1>2. CASE \/ PublishConfig \/ PublishData \/ PublishRefused \/ AckTimeout
           \/ LoopTest \/ ScriptEnds \/ PublishAck
           \/ \E t \in Threads : Finish(t)
  BY <1>2, OthersStutter
<1>3. CASE CountData
  BY <1>3, CountConsumes DEF Promise!Next
<1>4. CASE GetAck
  BY <1>4, GetAckAcks DEF Promise!Next
<1>5. CASE UNCHANGED vars
  BY <1>5 DEF vars, bus, own, Promise!vars
<1>6. QED
  BY <1>1, <1>2, <1>3, <1>4, <1>5 DEF Next, ProducerStep, ConsumerStep

\* Samples go out one at a time, each answered with its number before the next
\* is sent, whatever is lost or late and however long the loop is.
THEOREM SampleImplementsAckLoop == Spec => ImplementsAckLoop
<1>1. Init => Promise!Init
  BY Names DEF Init, Promise!Init
<1>2. QED
  BY <1>1, InvHolds, PromiseStep, PTL DEF Spec, ImplementsAckLoop, Promise!Spec

-----------------------------------------------------------------------------
(* Three network buffers are enough.                                       *)

Pick(s) == CHOOSE x \in s : TRUE

L(o) == Len(fifo[o])

Tokens == Cardinality({t \in Threads : next[t] # 0})

\* The sum over the two queues, whichever the fold of BuffersInUse chooses first.
LEMMA BuffersCounted ==
  ASSUME NEW a, NEW b, a # b, Observers = {a, b}, L(a) \in Nat, L(b) \in Nat
  PROVE  BuffersInUse = (L(a) + L(b)) + Tokens
<1> DEFINE S == {a, b}
           g == [s \in SUBSET S |-> IF s = {} THEN 0
                                    ELSE IF s = {a} THEN L(a)
                                    ELSE IF s = {b} THEN L(b) ELSE L(a) + L(b)]
           iter == CHOOSE it : it = [s \in SUBSET S |->
                     IF s = {} THEN 0 ELSE L(Pick(s)) + it[s \ {Pick(s)}]]
<1>1. SUFFICES iter[S] = L(a) + L(b)
  <2>1. BuffersInUse = iter[Observers] + Tokens
    BY DEF BuffersInUse, MapThenSumSet, MapThenFoldSet, Pick, L, Tokens
  <2>2. QED
    BY <2>1
<1>2. \A s \in SUBSET S : s = {} \/ s = {a} \/ s = {b} \/ s = S
  OBVIOUS
<1>3. /\ Pick({a}) = a /\ Pick({b}) = b /\ Pick(S) \in {a, b}
      /\ {a} \ {a} = {} /\ {b} \ {b} = {} /\ S \ {a} = {b} /\ S \ {b} = {a}
      /\ {a} # {} /\ {b} # {} /\ S # {} /\ S # {a} /\ S # {b} /\ {a} # {b}
      /\ {} \in SUBSET S /\ {a} \in SUBSET S /\ {b} \in SUBSET S /\ S \in SUBSET S
  <2>1. Pick({a}) = a /\ Pick({b}) = b /\ Pick(S) \in {a, b}
    BY DEF Pick
  <2>2. QED
    BY <2>1
<1> HIDE DEF S
<1>4. g[{}] = 0 /\ g[{a}] = L(a) /\ g[{b}] = L(b) /\ g[S] = L(a) + L(b)
  BY <1>3
<1>5. g = [s \in SUBSET S |-> IF s = {} THEN 0 ELSE L(Pick(s)) + g[s \ {Pick(s)}]]
  <2> HIDE DEF g
  <2>1. ASSUME NEW s \in SUBSET S
        PROVE  g[s] = IF s = {} THEN 0 ELSE L(Pick(s)) + g[s \ {Pick(s)}]
    <3>1. CASE s = {}
      BY <3>1, <1>4
    <3>2. CASE s = {a}
      <4>1. Pick(s) = a /\ s \ {Pick(s)} = {} /\ s # {}
        BY <3>2, <1>3
      <4>2. g[s] = L(a) /\ g[s \ {Pick(s)}] = 0
        BY <3>2, <4>1, <1>4
      <4>3. QED
        BY <4>1, <4>2
    <3>3. CASE s = {b}
      <4>1. Pick(s) = b /\ s \ {Pick(s)} = {} /\ s # {}
        BY <3>3, <1>3
      <4>2. g[s] = L(b) /\ g[s \ {Pick(s)}] = 0
        BY <3>3, <4>1, <1>4
      <4>3. QED
        BY <4>1, <4>2
    <3>4. CASE s = S
      <4>1. CASE Pick(S) = a
        BY <3>4, <4>1, <1>3, <1>4
      <4>2. CASE Pick(S) = b
        <5>1. g[S] = L(b) + L(a)
          BY <1>4
        <5>2. L(Pick(S)) + g[S \ {Pick(S)}] = L(b) + L(a)
          BY <4>2, <1>3, <1>4
        <5>3. QED
          BY <3>4, <5>1, <5>2, <1>3
      <4>3. QED
        BY <4>1, <4>2, <1>3
    <3>5. QED
      BY <3>1, <3>2, <3>3, <3>4, <1>2
  <2>2. g = [s \in SUBSET S |-> g[s]]
    BY DEF g
  <2>3. QED
    BY <2>1, <2>2, Zenon
<1>6. iter = [s \in SUBSET S |-> IF s = {} THEN 0 ELSE L(Pick(s)) + iter[s \ {Pick(s)}]]
  <2> HIDE DEF g
  <2>1. QED
    BY <1>5, Zenon
<1> HIDE DEF iter
<1>7. ASSUME NEW s \in SUBSET S
      PROVE  iter[s] = IF s = {} THEN 0 ELSE L(Pick(s)) + iter[s \ {Pick(s)}]
  BY <1>6, Zenon
<1>8. iter[{}] = 0 /\ iter[{a}] = L(a) /\ iter[{b}] = L(b)
  <2>1. iter[{}] = 0
    BY <1>7, <1>3
  <2>2. iter[{a}] = L(a) + iter[{}]
    BY <1>7, <1>3
  <2>3. iter[{b}] = L(b) + iter[{}]
    BY <1>7, <1>3
  <2>4. QED
    BY <2>1, <2>2, <2>3
<1>9. iter[S] = L(a) + L(b)
  <2>1. iter[S] = L(Pick(S)) + iter[S \ {Pick(S)}]
    BY <1>7, <1>3
  <2>2. CASE Pick(S) = a
    BY <2>1, <2>2, <1>3, <1>8
  <2>3. CASE Pick(S) = b
    <3>1. iter[S] = L(b) + L(a)
      BY <2>1, <2>3, <1>3, <1>8
    <3>2. QED
      BY <3>1
  <2>4. QED
    BY <2>2, <2>3, <1>3
<1>10. QED
  BY <1>9

LEMMA TokensBounded == Tokens \in {0, 1, 2}
<1>1. \/ {t \in Threads : next[t] # 0} = {}
      \/ \E t \in Threads : {u \in Threads : next[u] # 0} = {t}
      \/ {t \in Threads : next[t] # 0} = {producer, consumer}
  BY Names
<1>2. Cardinality({producer, consumer}) = 2
  <2>1. IsFiniteSet({producer}) /\ Cardinality({producer}) = 1
    BY FS_Singleton
  <2>2. {producer, consumer} = {producer} \cup {consumer}
    OBVIOUS
  <2>3. consumer \notin {producer}
    BY Names
  <2>4. Cardinality({producer} \cup {consumer}) = Cardinality({producer}) + 1
    BY <2>1, <2>3, FS_AddElement, Zenon
  <2>5. QED
    BY <2>1, <2>2, <2>4
<1>3. QED
  BY <1>1, <1>2, FS_EmptySet, FS_Singleton DEF Tokens

\* Whoever publishes, fewer than three buffers are taken: a pool of three is
\* never what makes a publication of the sample fail (channels.c, consumer.c).
THEOREM ThreeBuffersSuffice == Spec => []PoolSuffices
<1>1. ASSUME Inv, NEW t \in Threads, ~ Ready(t), ~ Distributed(t)
      PROVE  BuffersInUse < 3
  <2>1. Data = <<>> /\ Answers = <<>>
    <3>1. CASE t = producer
      <4>1. Settled
        <5>1. CASE pub[producer] = chan_acc_data
          <6>1. Sending
            BY <1>1, <3>1, <5>1, Lists DEF Sending, Distributed, Notified
          <6>2. QED
            BY <1>1, <6>1 DEF Inv, LockStep
        <5>2. CASE pub[producer] # chan_acc_data
          <6>1. pp = "loop"
            BY <1>1, <3>1, <5>2 DEF Inv, Buses, Ready
          <6>2. QED
            BY <1>1, <6>1 DEF Inv, LockStep
        <5>3. QED
          BY <5>1, <5>2
      <4>2. QED
        BY <4>1 DEF Settled
    <3>2. CASE t = consumer
      <4>1. Answering /\ cp # "pub"
        <5>1. pub[consumer] = chan_acc_data_consumed /\ cp # "pub"
          BY <1>1, <3>2 DEF Inv, Buses, Ready
        <5>2. next[consumer] # 2
          BY <1>1, <3>2, <5>1, Lists DEF Distributed, Notified
        <5>3. QED
          BY <5>1, <5>2 DEF Answering
      <4>2. QED
        <5>1. OneInFlight
          BY <1>1, <4>1 DEF Inv, LockStep, Settled
        <5>2. QED
          BY <1>1, <4>1, <5>1 DEF OneInFlight, Settled
    <3>3. QED
      BY <3>1, <3>2, Names
  <2>2. L(msub_consumer) = 0 /\ L(msub_acc_consumed) = 0
    BY <2>1 DEF L, Data, Answers
  <2>3. BuffersInUse = (L(msub_consumer) + L(msub_acc_consumed)) + Tokens
    BY <2>2, Names, BuffersCounted DEF Observers
  <2>4. QED
    BY <2>2, <2>3, TokensBounded
<1>2. Inv => PoolSuffices
  BY <1>1 DEF PoolSuffices
<1>3. QED
  BY <1>2, InvHolds, PTL
=============================================================================
