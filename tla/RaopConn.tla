------------------------------ MODULE RaopConn ------------------------------
(***************************************************************************)
(* src/lib/lib/raop.c and the SETUP handler of raop_handlers.h: the clock  *)
(* and the two sessions of one RTSP connection.  The httpd thread runs one *)
(* handler after the other and at the end conn_destroy; the threads of the *)
(* clock and of the sessions run beside it, and those of the sessions read *)
(* the clock.  Each keeps to the life cycle of SessionLife, as the modules *)
(* RaopNtp, RaopRtp and RaopRtpMirror do in detail.                        *)
(*                                                                         *)
(* A SETUP with keys creates all three, so the session of a connection is  *)
(* named by its kind and the number of that SETUP.                         *)
(***************************************************************************)
EXTENDS Integers, Sequences

CONSTANTS
  MaxSetups,  \* bounds the SETUPs with keys,
  MaxErrors   \* the threads that end by themselves, and the failing starts

ASSUME ConnAssumption == {MaxSetups, MaxErrors} \subseteq Nat

Kind    == {"ntp", "rtp", "mirror"}
Streams == Kind \ {"ntp"}
SetupNo == 1 .. MaxSetups

VARIABLES
  session,    \* the session of a kind that a SETUP has created
  ptr,        \* conn->raop_ntp, raop_rtp and raop_rtp_mirror: a SETUP, or 0
  setups,
  phase,      \* the connection is "open", in conn_destroy, or "gone"
  disconnect, \* http_response_set_disconnect was called
  todo,       \* what is left of the handler: calls [op, kind]
  joining,    \* the first of these calls is in THREAD_JOIN
  errors

handler == <<setups, phase, disconnect>>
vars == <<session, ptr, handler, todo, joining, errors>>

(* running is FALSE and joined is TRUE in a session that was just created, *)
(* and in one that does not exist yet.                                     *)
NoThread == [exists |-> FALSE, running |-> FALSE, joined |-> TRUE,
             thread |-> "none", freed |-> FALSE]
Current(k) == session[k][ptr[k]]
Live(s)    == s.exists /\ ~s.freed
Update(k, s) == session' = [session EXCEPT ![k][ptr[k]] = s]

Init ==
  /\ session = [k \in Kind |-> [n \in SetupNo |-> NoThread]]
  /\ ptr = [k \in Kind |-> 0]
  /\ setups = 0 /\ phase = "open" /\ disconnect = FALSE
  /\ todo = <<>> /\ joining = FALSE
  /\ errors = 0

Failure == errors < MaxErrors /\ errors' = errors + 1

-----------------------------------------------------------------------------
(* The httpd thread: handlers of requests.                                 *)

Idle     == phase = "open" /\ todo = <<>>
Handling == Idle /\ ~disconnect

Created(s) == [s EXCEPT !.exists = TRUE]
Started(s) == [s EXCEPT !.running = TRUE, !.joined = FALSE, !.thread = "loop"]

(* SETUP with keys: raop_ntp_init and raop_ntp_start, which may fail       *)
(* without a word, and the two sessions.  What an earlier SETUP has        *)
(* created is forgotten.                                                   *)
Setup ==
  /\ Handling /\ setups < MaxSetups
  /\ setups' = setups + 1
  /\ ptr' = [k \in Kind |-> setups']
  /\ \E start \in BOOLEAN :
       /\ start => UNCHANGED errors
       /\ ~start => Failure
       /\ session' = [k \in Kind |-> [session[k] EXCEPT ![setups'] =
                        IF k = "ntp" /\ start THEN Started(Created(@)) ELSE Created(@)]]
  /\ UNCHANGED <<phase, disconnect, todo, joining>>

(* The test of raop_rtp_start_audio and raop_rtp_start_mirror; a mistake.  *)
StartableByRunning(s) == ~s.running
Startable(s) == ~s.running /\ s.joined

(* SETUP of a stream of type 96 or 110.  A start that is refused or fails  *)
(* returns without a word.  One request may name several streams, and goes *)
(* on to the next one after it has asked for the disconnection.            *)
SetupStream(k) ==
  /\ Idle
  /\ IF ptr[k] = 0 THEN disconnect' = TRUE ELSE UNCHANGED disconnect
  /\ \/ /\ ptr[k] # 0 => ~Startable(Current(k))
        /\ UNCHANGED <<session, errors>>
     \/ /\ ptr[k] # 0 /\ Startable(Current(k))
        /\ \/ Failure /\ UNCHANGED session
           \/ /\ Update(k, Started(Current(k)))
              /\ UNCHANGED errors
  /\ UNCHANGED <<ptr, setups, phase, todo, joining>>

(* SETUP of a stream of another type                                       *)
SetupUnknown ==
  /\ Idle
  /\ disconnect' = TRUE
  /\ UNCHANGED <<session, ptr, setups, phase, todo, joining, errors>>

Do(op, k) == [op |-> op, kind |-> k]
EndBoth   == <<Do("destroy", "rtp"), Do("forget", "rtp"),
               Do("destroy", "mirror"), Do("forget", "mirror")>>

(* TEARDOWN: while audio runs it stops the audio session, else it ends     *)
(* both sessions, but for those it has ended already.  (Mistakes: it keeps *)
(* the pointers, or ends the clock as well.)                               *)
AudioRuns == ptr["rtp"] # 0 /\ Current("rtp").running

TeardownSteps(ends) ==
  /\ Handling
  /\ todo' = IF AudioRuns THEN <<Do("stop", "rtp")>>
             ELSE IF ptr["mirror"] # 0 THEN ends ELSE <<>>
  /\ UNCHANGED <<session, ptr, handler, joining, errors>>
TeardownKeeping   == TeardownSteps(<<Do("destroy", "rtp"), Do("destroy", "mirror")>>)
TeardownWithClock == TeardownSteps(<<Do("destroy", "ntp"), Do("forget", "ntp")>> \o EndBoth)
Teardown          == TeardownSteps(EndBoth)

(* The connection ends: the sender has closed it, a handler has asked for  *)
(* it, or the server stops.  conn_destroy destroys the clock first.  (A    *)
(* mistake: it leaves the clock alone.)                                    *)
Destroy(k)   == IF ptr[k] = 0 THEN <<>> ELSE <<Do("destroy", k)>>
OwnedStreams == Destroy("rtp") \o Destroy("mirror")
Owned        == Destroy("ntp") \o Destroy("rtp") \o Destroy("mirror")

Close ==
  /\ Idle
  /\ phase' = "closing"
  /\ todo' = Owned
  /\ UNCHANGED <<session, ptr, setups, disconnect, joining, errors>>

Gone ==
  /\ phase = "closing" /\ todo = <<>>
  /\ phase' = "gone"
  /\ UNCHANGED <<session, ptr, setups, disconnect, todo, joining, errors>>

-----------------------------------------------------------------------------
(* The httpd thread: the calls of a handler, one after the other.          *)

Called     == Head(todo)
CalledOn   == Current(Called.kind)
Calling(op) == todo # <<>> /\ Called.op \in op

(* raop_ntp_stop, raop_rtp_stop and raop_rtp_mirror_stop: clear running,   *)
(* and join a thread that ran.                                             *)
Stop ==
  /\ Calling({"stop", "destroy"}) /\ ~joining
  /\ CalledOn.running /\ ~CalledOn.joined
  /\ Update(Called.kind, [CalledOn EXCEPT !.running = FALSE])
  /\ joining' = TRUE
  /\ UNCHANGED <<ptr, handler, todo, errors>>

StopReturns ==
  /\ joining /\ CalledOn.thread = "done"
  /\ Update(Called.kind, [CalledOn EXCEPT !.joined = TRUE, !.freed = (Called.op = "destroy")])
  /\ joining' = FALSE /\ todo' = Tail(todo)
  /\ UNCHANGED <<ptr, handler, errors>>

(* Stop returns at once from a session that does not run, and destroy      *)
(* frees it.                                                               *)
StoppedAlready ==
  /\ Calling({"stop", "destroy"}) /\ ~joining
  /\ ~CalledOn.running \/ CalledOn.joined
  /\ Update(Called.kind, [CalledOn EXCEPT !.freed = (Called.op = "destroy")])
  /\ todo' = Tail(todo)
  /\ UNCHANGED <<ptr, handler, joining, errors>>

(* conn->raop_rtp = NULL, conn->raop_rtp_mirror = NULL                     *)
Forget ==
  /\ Calling({"forget"})
  /\ ptr' = [ptr EXCEPT ![Called.kind] = 0]
  /\ todo' = Tail(todo)
  /\ UNCHANGED <<session, handler, joining, errors>>

-----------------------------------------------------------------------------
(* The threads of the clock and of the sessions.                           *)

Step(k, n, from, to) ==
  /\ session[k][n].thread = from
  /\ session' = [session EXCEPT ![k][n].thread = to]

(* The head of the loop; a mistake: no test.                               *)
CheckNothing(k, n) == Step(k, n, "loop", "busy")
CheckRunning(k, n) ==
  Step(k, n, "loop", IF session[k][n].running THEN "busy" ELSE "clear")

(* In the loop the thread waits and works for a while; that of a session   *)
(* converts times with the clock.  A system call that fails ends it.       *)
ThreadStep(k, n) ==
  /\ \/ CheckRunning(k, n) /\ UNCHANGED errors
     \/ Step(k, n, "busy", "loop") /\ UNCHANGED errors
     \/ k \in Streams /\ Step(k, n, "busy", "clear") /\ Failure
     \/ /\ session[k][n].thread = "clear"
        /\ session' = [session EXCEPT ![k][n].thread = "tail", ![k][n].running = FALSE]
        /\ UNCHANGED errors
     \/ Step(k, n, "tail", "done") /\ UNCHANGED errors
  /\ UNCHANGED <<ptr, handler, todo, joining>>

-----------------------------------------------------------------------------
Httpd ==
  \/ Setup \/ SetupUnknown \/ Teardown \/ Close \/ Gone
  \/ \E k \in Streams : SetupStream(k)

Calls == Stop \/ StopReturns \/ StoppedAlready \/ Forget

Next == Httpd \/ Calls \/ \E k \in Kind, n \in SetupNo : ThreadStep(k, n)

Spec == Init /\ [][Next]_vars

(* The threads and the httpd thread keep running; httpd ends a connection  *)
(* whose handler has asked for it.                                         *)
Fairness ==
  /\ \A k \in Kind, n \in SetupNo : WF_vars(ThreadStep(k, n))
  /\ WF_vars(Calls \/ Gone) /\ WF_vars(disconnect /\ Close)
FairSpec == Spec /\ Fairness

-----------------------------------------------------------------------------
(* Every variable has the type its declaration in the code gives it, and a *)
(* handler calls a session only through a pointer that is set.             *)
Session == [exists : BOOLEAN, running : BOOLEAN, joined : BOOLEAN, freed : BOOLEAN,
            thread : {"none", "loop", "busy", "clear", "tail", "done"}]
Call == [op : {"stop", "destroy", "forget"}, kind : Kind]
TypeOK ==
  /\ session \in [Kind -> [SetupNo -> Session]]
  /\ ptr \in [Kind -> 0 .. setups] /\ setups \in 0 .. MaxSetups
  /\ phase \in {"open", "closing", "gone"}
  /\ {disconnect, joining} \subseteq BOOLEAN
  /\ todo \in Seq(Call) /\ (joining => todo # <<>>)
  /\ \A i \in DOMAIN todo : ptr[todo[i].kind] # 0
  /\ errors \in Nat

(* A handler finds only live sessions behind the connection's pointers,    *)
(* and what conn_destroy is about to destroy was not freed before.         *)
PointersLive ==
  /\ Idle => \A k \in Kind : ptr[k] # 0 => Live(Current(k))
  /\ phase = "closing" =>
       \A i \in DOMAIN todo : Live(Current(todo[i].kind))

(* Of the sessions a connection has created, those of its last SETUP are   *)
(* freed when it is gone, and their threads were joined or ended by        *)
(* themselves.  Those of an earlier SETUP are not: nobody knows them.      *)
LastSetupFreed ==
  phase = "gone" =>
    \A k \in Kind, n \in SetupNo :
      n = setups => /\ session[k][n].freed
                    /\ session[k][n].thread \in {"none", "tail", "done"}

(* Until the connection ends, a thread that may read the clock finds it,   *)
(* also when it belongs to an earlier SETUP.  (conn_destroy frees the clock     *)
(* before it stops the sessions that read it.)                             *)
ClockInUse ==
  phase = "open" =>
    \A k \in Streams, n \in SetupNo :
      session[k][n].thread = "busy" => Live(session["ntp"][n])

(* Whatever requests arrive, each session is started, stopped and freed in *)
(* the order that RaopNtp, RaopRtp and RaopRtpMirror implement.            *)
LifeThread(s) == IF s.thread \in {"busy", "clear"} THEN "loop" ELSE s.thread
LifeCall(k, n) == IF joining /\ Called.kind = k /\ ptr[k] = n THEN Called.op ELSE "idle"
Life(k, n) == INSTANCE SessionLife WITH
                running <- session[k][n].running, joined <- session[k][n].joined,
                freed <- session[k][n].freed,
                thread <- LifeThread(session[k][n]), call <- LifeCall(k, n)
EachIsSession ==
  /\ \A k \in Kind, n \in SetupNo : Life(k, n)!Init
  /\ [][\A k \in Kind, n \in SetupNo :
          [Life(k, n)!Next]_(Life(k, n)!vars)]_vars

(* A connection that ends, or that a handler has given up, is gone in the  *)
(* end, whatever its threads are doing.                                    *)
ConnectionEnds == phase = "closing" \/ disconnect ~> phase = "gone"
=============================================================================
