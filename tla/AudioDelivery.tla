--------------------------- MODULE AudioDelivery ----------------------------
(***************************************************************************)
(* What the audio path promises its renderer: of the packets that were     *)
(* sent it plays some, each at most once and in the order in which they    *)
(* were sent.  Only a flush of the jitter buffer (a volume change, a stop) *)
(* makes it forget what it has played.                                     *)
(***************************************************************************)
EXTENDS Integers

CONSTANT Payload   \* positions in the audio stream

VARIABLES
  sent,   \* positions below this one were sent
  last    \* the last position played since the last flush, -1 if none

vars == <<sent, last>>

Init == sent = 0 /\ last = -1

Send == sent \in Payload /\ sent' = sent + 1 /\ UNCHANGED last

Play(p) == last < p /\ p < sent /\ last' = p /\ UNCHANGED sent

Forget == last' = -1 /\ UNCHANGED sent

Next == Send \/ Forget \/ \E p \in Payload : Play(p)

Spec == Init /\ [][Next]_vars
=============================================================================
