---------------------------- MODULE ValueChannel ----------------------------
(***************************************************************************)
(* What the cdr package promises the two ends of a topic: the reader that  *)
(* makes the calls matching the writer's gets the writer's values, in      *)
(* order, none changed, and may miss only a tail of them, and only when    *)
(* the payload did not arrive whole.                                       *)
(***************************************************************************)
EXTENDS Sequences, Naturals

VARIABLES
  sent,         \* the values of the published message
  whole,        \* whether its payload arrived whole
  rcvd,         \* the values the reader has got
  broken        \* whether a read failed, which ends the message

vars == <<sent, whole, rcvd, broken>>

Init == sent = <<>> /\ whole = TRUE /\ rcvd = <<>> /\ broken = FALSE

Publish ==
  /\ sent = <<>> /\ rcvd = <<>> /\ ~broken
  /\ sent' # <<>>
  /\ whole' \in BOOLEAN
  /\ broken' \in BOOLEAN
  /\ broken' => ~whole'
  /\ UNCHANGED rcvd

Receive ==
  /\ ~broken
  /\ Len(rcvd) < Len(sent)
  /\ rcvd' = Append(rcvd, sent[Len(rcvd) + 1])
  /\ UNCHANGED <<sent, whole, broken>>

Break ==
  /\ ~broken /\ ~whole
  /\ Len(rcvd) < Len(sent)
  /\ broken' = TRUE
  /\ UNCHANGED <<sent, whole, rcvd>>

Next == Publish \/ Receive \/ Break

Spec == Init /\ [][Next]_vars
=============================================================================
