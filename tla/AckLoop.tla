------------------------------- MODULE AckLoop -------------------------------
(***************************************************************************)
(* What the producer/consumer sample promises (the ordered console output  *)
(* samples/producer_consumer/sample.yaml:10-38 waits for): data goes out   *)
(* one sample at a time, each answered by the consumer's running count     *)
(* before the next is sent.  The producer may give up at any point; what   *)
(* it has sent by then may still be consumed.                              *)
(***************************************************************************)
EXTENDS Naturals, Sequences

CONSTANT Target  \* the producer stops once it holds this count

VARIABLES sent,  \* samples handed to the consumer
          seen,  \* samples the consumer has counted
          acks,  \* the counts the producer received
          open   \* the producer has not given up

vars == <<sent, seen, acks, open>>

Init == sent = 0 /\ seen = 0 /\ acks = <<>> /\ open = TRUE

Produce ==
  /\ open
  /\ sent < Target
  /\ sent = Len(acks)
  /\ sent' = sent + 1
  /\ UNCHANGED <<seen, acks, open>>

Consume ==
  /\ seen < sent
  /\ seen' = seen + 1
  /\ UNCHANGED <<sent, acks, open>>

Ack ==
  /\ open
  /\ Len(acks) < seen
  /\ acks' = Append(acks, seen)
  /\ UNCHANGED <<sent, seen, open>>

GiveUp ==
  /\ open
  /\ open' = FALSE
  /\ UNCHANGED <<sent, seen, acks>>

Next == Produce \/ Consume \/ Ack \/ GiveUp

Spec == Init /\ [][Next]_vars
=============================================================================
