----------------------------- MODULE SessionLife ----------------------------
(***************************************************************************)
(* What the audio session, the mirror session and the clock have in        *)
(* common, and what a connection may rely on: the httpd thread starts,     *)
(* stops and frees a session that has one thread, and the two agree        *)
(* through the flags running and joined.                                   *)
(***************************************************************************)
VARIABLES
  running, joined,
  thread,   \* "none", "loop", after it has cleared running "tail", then "done"
  call,     \* the httpd thread is in "stop" or "destroy", waiting for the thread
  freed

Init ==
  /\ running = FALSE /\ joined = TRUE /\ freed = FALSE
  /\ thread = "none" /\ call = "idle"

Ready == call = "idle" /\ ~freed

(* A start is refused unless the last thread was joined. *)
Start ==
  /\ Ready /\ ~running /\ joined
  /\ running' = TRUE /\ joined' = FALSE /\ thread' = "loop"
  /\ UNCHANGED <<call, freed>>

(* Stop waits for a thread that runs, and for no other. *)
Stop ==
  /\ Ready /\ running /\ ~joined
  /\ running' = FALSE /\ call' \in {"stop", "destroy"}
  /\ UNCHANGED <<joined, thread, freed>>

StopReturns ==
  /\ call # "idle" /\ thread = "done"
  /\ joined' = TRUE /\ freed' = (call = "destroy") /\ call' = "idle"
  /\ UNCHANGED <<running, thread>>

DestroyStopped ==
  /\ Ready /\ (~running \/ joined)
  /\ freed' = TRUE
  /\ UNCHANGED <<running, joined, thread, call>>

ThreadEnds ==
  /\ \/ thread = "loop" /\ thread' = "tail" /\ running' = FALSE
     \/ thread = "tail" /\ thread' = "done" /\ UNCHANGED running
  /\ UNCHANGED <<joined, call, freed>>

Next == Start \/ Stop \/ StopReturns \/ DestroyStopped \/ ThreadEnds

vars == <<running, joined, thread, call, freed>>
Spec == Init /\ [][Next]_vars
=============================================================================
