--------------------------- MODULE VideoDelivery ---------------------------
(***************************************************************************)
(* What a mirror session promises: the frames that were sent completely    *)
(* are handled whole, each once, in the order in which they were sent and  *)
(* without a gap, also when the sender connects again in between.          *)
(***************************************************************************)
EXTENDS Naturals, Sequences

CONSTANT Frame

VARIABLES
  sent,     \* the frames sent in this session
  handled   \* the frames handled in this session

vars == <<sent, handled>>

Init == sent = <<>> /\ handled = <<>>

Send(f) == sent' = Append(sent, f) /\ UNCHANGED handled

Handle ==
  /\ Len(handled) < Len(sent)
  /\ handled' = Append(handled, sent[Len(handled) + 1])
  /\ UNCHANGED sent

NewSession == sent' = <<>> /\ handled' = <<>>

Next == Handle \/ NewSession \/ \E f \in Frame : Send(f)

Spec == Init /\ [][Next]_vars
=============================================================================
