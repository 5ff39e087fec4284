---------------------------- MODULE MCRaopBufferCalls ----------------------------
(* A ring of 4 slots and 12 sequence numbers: as in the code, the window   *)
(* is shorter than half of the numbers and its length divides their count. *)
EXTENDS RaopBufferCalls
=============================================================================
