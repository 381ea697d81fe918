---------------------------- MODULE BoundedFifo ----------------------------
(***************************************************************************)
(* What a single-producer single-consumer queue promises: what is pushed   *)
(* is popped once, in order, and never more than Capacity items are held.  *)
(* A call that returns false changes nothing, so it is a stutter.          *)
(***************************************************************************)
EXTENDS Integers, Sequences

CONSTANTS Values, Capacity

VARIABLES
  sent,      \* everything the producer has pushed
  received   \* everything the consumer has popped

Init == sent = <<>> /\ received = <<>>

Push(v) ==
  /\ Len(sent) - Len(received) < Capacity
  /\ sent' = Append(sent, v)
  /\ received' = received

Pop ==
  /\ Len(received) < Len(sent)
  /\ received' = Append(received, sent[Len(received) + 1])
  /\ sent' = sent

Next == Pop \/ \E v \in Values : Push(v)

Spec == Init /\ [][Next]_<<sent, received>>
=============================================================================
