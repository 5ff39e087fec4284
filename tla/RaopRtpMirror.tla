---------------------------- MODULE RaopRtpMirror --------------------------
(***************************************************************************)
(* src/lib/lib/raop_rtp_mirror.c: the mirror session.  The httpd thread    *)
(* starts, stops and destroys it; the mirror thread accepts one TCP        *)
(* connection at a time, reads frames (a header of fixed length, then as   *)
(* much payload as the header says) and hands them to video_process.       *)
(*                                                                         *)
(* The sender and TCP are the environment.  What is sent is cut into units *)
(* <<n, k>>, the kth unit of frame n.  The first unit of a header holds    *)
(* the size of the payload, the last one its type.                         *)
(***************************************************************************)
EXTENDS Integers, Sequences

CONSTANTS
  Frames,      \* the frames of the stream: a sequence of [type, size]
  HeaderLen,   \* units of a header
  NULL,        \* no payload buffer
  Breaks,      \* the sender may close in the middle of a frame, or reset
  MaxConns,    \* bounds the connections of a session
  MaxStarts,   \* bounds the sessions
  MaxErrors    \* bounds the failures of system calls

FrameInfo == [type : Nat, size : 0 .. 9]
Frame == 1 .. Len(Frames)
Unit  == Frame \X (1 .. HeaderLen + 9)

ASSUME MirrorAssumption ==
  /\ Frames \in Seq(FrameInfo)
  /\ HeaderLen \in Nat \ {0}
  /\ NULL \notin Seq(Unit)
  /\ Breaks \in BOOLEAN
  /\ {MaxConns, MaxStarts, MaxErrors} \subseteq Nat

VARIABLES
  running, joined,
  mirror_data_sock,  \* the listening socket: "open", "closed", or "none" for -1
  call,       \* the blocking call the httpd thread is in, "idle" if none
  freed,      \* raop_rtp_mirror_destroy has freed the session
  thread,     \* where the mirror thread is; "none" before it is created
  stream_fd,  \* the connection that is read, 0 for -1
  packet,     \* the part of a header that was read
  payload,    \* the part of a payload that was read, or NULL
  conns,      \* connections: what is under way, and what the sender did last
  accepted,   \* the connections of this session that were accepted
  cursor,     \* the unit the sender sends next
  sent,       \* history: the frames sent completely in this session
  handled,    \* history: the headers and payloads handled in this session
  starts, errors   \* counters of the bounded actions

control == <<running, joined, mirror_data_sock, call, freed, starts>>
stream  == <<stream_fd, packet, payload>>
network == <<conns, cursor, sent>>
vars == <<control, thread, stream, network, accepted, handled, errors>>

Size(n) == Frames[n].size
Header(n)  == [k \in 1 .. HeaderLen |-> <<n, k>>]
Payload(n) == [k \in 1 .. Size(n) |-> <<n, HeaderLen + k>>]
FrameEnd(n) == HeaderLen + Size(n)

(* payload_size and payload_type, read from the header *)
PayloadSize == Size(Head(packet)[1])
PayloadType == Frames[packet[HeaderLen][1]].type

Conn  == [bytes : Seq(Unit), state : {"open", "fin", "reset", "closed"}]
Over(state) == [bytes |-> <<>>, state |-> state]

ThreadAlive == thread \notin {"none", "done", "aborted"}

Init ==
  /\ running = FALSE /\ joined = TRUE
  /\ mirror_data_sock = "none"
  /\ call = "idle" /\ freed = FALSE
  /\ thread = "none"
  /\ stream_fd = 0 /\ packet = <<>> /\ payload = NULL
  /\ conns = <<>> /\ accepted = 0
  /\ cursor = <<1, 1>> /\ sent = <<>> /\ handled = <<>>
  /\ starts = 0 /\ errors = 0

Failure == errors < MaxErrors /\ errors' = errors + 1

-----------------------------------------------------------------------------
(* The httpd thread.                                                       *)

HttpdReady == call = "idle" /\ ~freed /\ thread # "aborted"

(* raop_rtp_start_mirror.  A refused start returns without a word.         *)
StartMirror ==
  /\ HttpdReady /\ starts < MaxStarts
  /\ starts' = starts + 1
  /\ \/ /\ running \/ ~joined \/ Failure
        /\ running \/ ~joined => UNCHANGED errors
        /\ UNCHANGED <<running, joined, mirror_data_sock, thread, stream, conns,
                       accepted, sent, handled>>
     \/ /\ ~running /\ joined
        /\ running' = TRUE /\ joined' = FALSE
        /\ mirror_data_sock' = "open"
        /\ thread' = "check" /\ stream_fd' = 0 /\ packet' = <<>> /\ payload' = NULL
        /\ conns' = <<>> /\ accepted' = 0 /\ sent' = <<>> /\ handled' = <<>>
        /\ UNCHANGED errors
  /\ UNCHANGED <<call, freed, cursor>>

(* raop_rtp_mirror_stop: clear running, close the listening socket, set it *)
(* to -1, join the thread.  The connections wait on the listening socket   *)
(* until they are accepted, and are reset when it is closed.  (Mistakes: a *)
(* stop that closes the socket first, and one that does not join.)         *)
StopClosingFirst(by) ==
  /\ HttpdReady
  /\ running /\ ~joined
  /\ mirror_data_sock' = "closed" /\ call' = by
  /\ UNCHANGED <<running, joined, freed, starts, thread, stream, network, accepted,
                 handled, errors>>
Stop(by) ==
  /\ HttpdReady
  /\ running /\ ~joined
  /\ running' = FALSE /\ call' = by
  /\ UNCHANGED <<joined, mirror_data_sock, freed, starts, thread, stream, network,
                 accepted, handled, errors>>

CloseSocket ==
  /\ call # "idle"
  /\ \/ /\ mirror_data_sock = "open" /\ mirror_data_sock' = "closed"
        /\ conns' = SubSeq(conns, 1, accepted)
     \/ mirror_data_sock = "closed" /\ mirror_data_sock' = "none" /\ UNCHANGED conns
  /\ UNCHANGED <<running, joined, call, freed, starts, thread, stream, cursor, sent,
                 accepted, handled, errors>>

StopWithoutJoin ==
  /\ call # "idle"
  /\ mirror_data_sock = "none"
  /\ joined' = TRUE
  /\ freed' = (call = "destroy")
  /\ call' = "idle"
  /\ UNCHANGED <<running, mirror_data_sock, starts, thread, stream, network, accepted,
                 handled, errors>>
StopReturns ==
  /\ call # "idle"
  /\ mirror_data_sock = "none" /\ thread = "done"
  /\ joined' = TRUE
  /\ freed' = (call = "destroy")
  /\ call' = "idle"
  /\ UNCHANGED <<running, mirror_data_sock, starts, thread, stream, network, accepted,
                 handled, errors>>

(* raop_rtp_mirror_destroy when raop_rtp_mirror_stop returns early.        *)
DestroyStopped ==
  /\ HttpdReady
  /\ ~running \/ joined
  /\ freed' = TRUE
  /\ UNCHANGED <<running, joined, mirror_data_sock, call, starts, thread, stream,
                 network, accepted, handled, errors>>

-----------------------------------------------------------------------------
(* The mirror thread: raop_rtp_mirror_thread.                              *)

Step(from, to) == thread = from /\ thread' = to

(* The test of running; a mistake: no test. *)
CheckNothing ==
  /\ Step("check", "select")
  /\ UNCHANGED <<control, stream, network, accepted, handled, errors>>
CheckRunning ==
  /\ Step("check", IF running THEN "select" ELSE "close")
  /\ UNCHANGED <<control, stream, network, accepted, handled, errors>>

(* recv returns at once: there is data, or the connection is over.         *)
Readable(c) == conns[c].bytes # <<>> \/ conns[c].state # "open"

(* select on the connection, or on the listening socket if there is none.  *)
(* It returns after 5 ms if nothing is readable.  Without a connection the *)
(* socket may have been closed by now, which select reports as an error,   *)
(* or be -1, which FD_SET either takes for a bit of no descriptor or stops *)
(* the program for.                                                        *)
Select ==
  /\ \/ Step("select", "close") /\ Failure
     \/ /\ IF stream_fd # 0
           THEN Step("select", IF ~Readable(stream_fd) THEN "check"
                               ELSE IF payload = NULL THEN "header" ELSE "payload")
           ELSE \/ /\ mirror_data_sock = "open"
                   /\ Step("select", IF accepted < Len(conns) THEN "accept" ELSE "check")
                \/ mirror_data_sock = "closed" /\ Step("select", "close")
                \/ /\ mirror_data_sock = "none"
                   /\ \E to \in {"check", "aborted"} : Step("select", to)
        /\ UNCHANGED errors
  /\ UNCHANGED <<control, stream, network, accepted, handled>>

(* accept, then the options of the connection.  The timeout of recv is one *)
(* that the thread does not do without.  (A mistake: the part of a header  *)
(* that the last connection left is kept.)                                 *)
AcceptKeepingHeader ==
  /\ mirror_data_sock = "open"
  /\ accepted' = accepted + 1 /\ stream_fd' = accepted + 1
  /\ Step("accept", "check")
  /\ UNCHANGED <<control, packet, payload, network, handled, errors>>
Accept ==
  /\ \/ /\ mirror_data_sock # "open" \/ Failure
        /\ mirror_data_sock # "open" => UNCHANGED errors
        /\ Step("accept", "close")
        /\ UNCHANGED <<stream_fd, accepted, packet>>
     \/ /\ mirror_data_sock = "open"
        /\ accepted' = accepted + 1 /\ stream_fd' = accepted + 1
        /\ \/ Step("accept", "close") /\ Failure /\ UNCHANGED packet
           \/ Step("accept", "check") /\ packet' = <<>> /\ UNCHANGED errors
  /\ UNCHANGED <<control, payload, network, handled>>

(* recv of at most n units of what has arrived                             *)
Taken(n) == SubSeq(conns[stream_fd].bytes, 1, n)
Rest(n)  == [conns EXCEPT ![stream_fd].bytes = SubSeq(@, n + 1, Len(@))]
Available(wanted) == LET there == Len(conns[stream_fd].bytes)
                     IN IF there < wanted THEN there ELSE wanted

(* recv returned nothing: the timeout of 5 ms, the end of the connection,  *)
(* or an error.  In the payload the end of the connection ends the thread; *)
(* in the header it does not, and the thread accepts the next connection.  *)
AfterPayloadEnd(state) == IF state = "open" THEN "check" ELSE "close"
AfterHeaderEnd(state)  == IF state = "reset" THEN "close" ELSE "check"

(* A header that is complete is followed by the allocation of the payload. *)
ReceiveHeader ==
  /\ thread = "header"
  /\ LET n == Available(HeaderLen - Len(packet))
         state == conns[stream_fd].state
     IN \/ /\ n > 0
           /\ packet' = packet \o Taken(n) /\ conns' = Rest(n)
           /\ IF Len(packet') = HeaderLen
              THEN thread' = "payload" /\ payload' = <<>>
              ELSE UNCHANGED <<thread, payload>>
           /\ UNCHANGED stream_fd
        \/ /\ n = 0
           /\ thread' = AfterHeaderEnd(state)
           /\ stream_fd' = IF state = "fin" THEN 0 ELSE stream_fd
           /\ UNCHANGED <<packet, payload, conns>>
  /\ UNCHANGED <<control, cursor, sent, accepted, handled, errors>>

ReceivePayload ==
  /\ thread = "payload" /\ Len(payload) < PayloadSize
  /\ LET n == Available(PayloadSize - Len(payload))
     IN \/ /\ n > 0
           /\ payload' = payload \o Taken(n) /\ conns' = Rest(n)
           /\ UNCHANGED thread
        \/ /\ n = 0
           /\ thread' = AfterPayloadEnd(conns[stream_fd].state)
           /\ UNCHANGED <<payload, conns>>
  /\ UNCHANGED <<control, stream_fd, packet, cursor, sent, accepted, handled, errors>>

(* The payload is complete: video data and the codec data go to            *)
(* video_process, other types are dropped.                                 *)
HandleFrame ==
  /\ Step("payload", "check") /\ Len(payload) >= PayloadSize
  /\ handled' = Append(handled, [type |-> PayloadType, header |-> packet,
                                 payload |-> payload])
  /\ packet' = <<>> /\ payload' = NULL
  /\ UNCHANGED <<control, stream_fd, network, accepted, errors>>

(* After the loop: close the connection, "ensure running reflects the      *)
(* actual state", write a last line to the log.                            *)
Exit ==
  /\ \/ /\ Step("close", "clear")
        /\ IF stream_fd # 0
           THEN /\ stream_fd' = 0
                /\ conns' = [conns EXCEPT ![stream_fd] =
                                Over(IF @.state = "reset" THEN "reset" ELSE "closed")]
           ELSE UNCHANGED <<stream_fd, conns>>
        /\ UNCHANGED running
     \/ Step("clear", "tail") /\ running' = FALSE /\ UNCHANGED <<stream_fd, conns>>
     \/ Step("tail", "done") /\ UNCHANGED <<running, stream_fd, conns>>
  /\ UNCHANGED <<joined, mirror_data_sock, call, freed, starts, packet, payload,
                 cursor, sent, accepted, handled, errors>>

-----------------------------------------------------------------------------
(* The sender and TCP.                                                     *)

Current == Len(conns)
Sending == Current > 0 /\ conns[Current].state = "open"

(* A new connection starts with a new frame.                               *)
NextFrame == <<IF cursor[2] = 1 THEN cursor[1] ELSE cursor[1] + 1, 1>>

Connect ==
  /\ mirror_data_sock = "open" /\ ~Sending /\ Current < MaxConns
  /\ conns' = Append(conns, [bytes |-> <<>>, state |-> "open"])
  /\ cursor' = NextFrame
  /\ UNCHANGED sent

Send ==
  /\ Sending /\ cursor[1] \in Frame
  /\ conns' = [conns EXCEPT ![Current].bytes = Append(@, cursor)]
  /\ LET n == cursor[1]
     IN IF cursor[2] = FrameEnd(n)
        THEN cursor' = <<n + 1, 1>> /\ sent' = Append(sent, n)
        ELSE cursor' = <<n, cursor[2] + 1>> /\ UNCHANGED sent

(* The sender closes the connection; a reset takes what is under way.      *)
Disconnect ==
  /\ Sending
  /\ \E state \in {"fin", "reset"} :
       /\ state = "reset" \/ cursor[2] # 1 => Breaks
       /\ conns' = [conns EXCEPT ![Current] =
                      IF state = "reset" THEN Over(state) ELSE [@ EXCEPT !.state = "fin"]]
  /\ UNCHANGED <<cursor, sent>>

Network ==
  /\ Connect \/ Send \/ Disconnect
  /\ UNCHANGED <<control, thread, stream, accepted, handled, errors>>

-----------------------------------------------------------------------------
Thread ==
  \/ CheckRunning \/ Select \/ Accept \/ ReceiveHeader \/ ReceivePayload
  \/ HandleFrame \/ Exit

Httpd ==
  \/ StartMirror \/ CloseSocket \/ StopReturns \/ DestroyStopped
  \/ \E by \in {"stop", "destroy"} : Stop(by)

Next == Thread \/ Httpd \/ Network

Spec == Init /\ [][Next]_vars

(* Both threads keep running: select and recv return after 5 ms, and       *)
(* THREAD_JOIN once the thread has ended.                                  *)
Fairness == WF_vars(Thread) /\ WF_vars(CloseSocket) /\ WF_vars(StopReturns)
FairSpec == Spec /\ Fairness

-----------------------------------------------------------------------------
(* Every variable has the type its declaration in the code gives it.       *)
TypeOK ==
  /\ {running, joined, freed} \subseteq BOOLEAN
  /\ mirror_data_sock \in {"none", "open", "closed"}
  /\ call \in {"idle", "stop", "destroy"}
  /\ thread \in {"none", "check", "select", "accept", "header", "payload", "close",
                 "clear", "tail", "done", "aborted"}
  /\ packet \in Seq(Unit) /\ Len(packet) <= HeaderLen
  /\ payload \in Seq(Unit) \cup {NULL}
  /\ conns \in Seq(Conn)
  /\ accepted \in 0 .. Len(conns) /\ stream_fd \in 0 .. accepted
  /\ cursor \in (Nat \ {0}) \X (Nat \ {0})
  /\ cursor[1] \in Frame => cursor[2] <= FrameEnd(cursor[1])
  /\ {starts, errors} \subseteq Nat
  /\ sent \in Seq(Frame)

(* What the thread hands on is a prefix of what was sent: whole frames,    *)
(* none skipped, none torn, whatever pieces TCP delivers them in and       *)
(* wherever a connection ends.                                             *)
Contents(n) == [type |-> Frames[n].type, header |-> Header(n), payload |-> Payload(n)]
Delivery == INSTANCE VideoDelivery WITH
              Frame <- {Contents(n) : n \in Frame},
              sent <- [i \in 1 .. Len(sent) |-> Contents(sent[i])]
FramesInOrder == Delivery!Spec

(* The listening socket is open for as long as the session runs, and only  *)
(* raop_rtp_mirror_stop closes it.                                         *)
ListensWhileRunning == running => mirror_data_sock = "open" /\ ~joined

(* There is one mirror thread: a new one is created only when the last one *)
(* has ended, since raop_rtp_mirror_stop joins it.                         *)
OneThread == joined => ~ThreadAlive

(* The session keeps to the life cycle that a connection relies on, which  *)
(* has no more than one thread at a time.  A thread that has ended the     *)
(* program never gets to its end.                                          *)
LifeThread == CASE thread \in {"none", "tail", "done"} -> thread
                [] thread = "aborted" -> "tail"
                [] OTHER -> "loop"
Life == INSTANCE SessionLife WITH thread <- LifeThread
IsSession == Life!Spec

(* raop_rtp_mirror_stop returns, also while the sender has stalled in the  *)
(* middle of a frame.  (FD_SET of -1 may end the program before that.)     *)
StopTerminates == call # "idle" ~> call = "idle" \/ thread = "aborted"

(* Every frame that was sent completely is handled unless the session is   *)
(* stopped, also when the sender closes the connection and opens another.  *)
(* A system call that fails, a reset, or a connection that ends within a   *)
(* payload ends the thread, and what comes later is lost.                  *)
Ended     == thread \in {"close", "clear", "tail", "done"}
BrokenOff == \/ errors > 0 \/ (Ended /\ payload # NULL)
             \/ \E c \in DOMAIN conns : conns[c].state = "reset"
EveryFrameHandled ==
  \A i \in Frame :
    Len(sent) >= i ~> Len(handled) >= i \/ call # "idle" \/ joined \/ BrokenOff

(* The thread of a session that destroy has freed has ended.  The one      *)
(* exception is a thread that ended by itself, which nobody joins: it has  *)
(* cleared running, and may still be about to take the logger out of the   *)
(* freed session for its last line in the log.                             *)
FreedThreadOnlyLogs == freed => ~ThreadAlive \/ (thread = "tail" /\ ~joined)
=============================================================================
