------------------------------ MODULE RaopRtp -------------------------------
(***************************************************************************)
(* src/lib/lib/raop_rtp.c: the audio session.  The httpd thread starts,    *)
(* stops and destroys the session and leaves commands in a mailbox; the    *)
(* audio thread takes them, receives packets on a data and on a control    *)
(* socket, puts them in order with the buffer of raop_buffer.c and plays   *)
(* them.  Between the two are a mutex (run_mutex) and the flags running    *)
(* and joined.                                                             *)
(*                                                                         *)
(* The sender and the network are the environment: packets are numbered    *)
(* by their position in the stream, the packet at position pos carries     *)
(* FirstSeq + pos as its sequence number, and its payload is pos.          *)
(***************************************************************************)
EXTENDS RaopBuffer

CONSTANTS
  FirstSeq,      \* the sequence number the stream starts with
  Markers,       \* positions that carry the "no data" marker
  ControlRports, \* the remote control ports given to raop_rtp_start_audio
  MaxDelay,      \* a packet arrives before MaxDelay later ones are sent
  Lossy, Duplicating, Reordering,  \* what the network may do
  MaxCommands,   \* bounds the commands of the httpd thread
  MaxStarts,     \* bounds the sessions
  MaxErrors      \* bounds the failures of select and of socket creation

NO_FLUSH == -42
Sync     == -1          \* a control packet that carries no audio
Texts    == {"metadata", "progress"}

ASSUME RtpAssumption ==
  /\ \A pos \in Payload : pos \in Nat /\ 0 .. pos \subseteq Payload
  /\ FirstSeq \in SeqNum
  /\ Markers \subseteq Payload
  /\ ControlRports \subseteq Nat
  /\ MaxDelay \in 1 .. M \div 2
  /\ {Lossy, Duplicating, Reordering} \subseteq BOOLEAN
  /\ {MaxCommands, MaxStarts, MaxErrors} \subseteq Nat

VARIABLES
  buf,      \* raop_rtp->buffer
  running, joined,
  mail,     \* volume, flush, metadata and progress, written by the httpd thread
  taken,    \* raop_rtp_process_events' copy of the mailbox
  thread,   \* where the audio thread is; "none" before it is created
  call,     \* the blocking call the httpd thread is in, "idle" if none
  sockets,  \* csock and dsock: "none", "open" or "closed"
  freed,    \* raop_rtp_destroy has freed the session
  control_known,  \* control_saddr is set
  control_rport,
  sent,     \* positions below this one were sent
  dsock, csock,   \* packets on their way to the two sockets
  requests, \* sequence numbers of resend requests on their way to the sender
  applied,  \* history: the last volume and texts passed to the callbacks
  last,     \* history: the last position played since the last flush
  high,     \* history: the highest position played in this session
  commands, starts, errors   \* counters of the bounded actions

httpdVars == <<call, freed, commands, starts>>
netVars   == <<sent, dsock, csock, requests>>
history   == <<applied, last, high>>
control   == <<control_known, control_rport>>
vars == <<buf, running, joined, mail, taken, thread, call, sockets, freed,
          control, netVars, history, commands, starts, errors>>

(* Commands are numbered; 0 is a part of the mailbox that was not written. *)
NoMail == [volume |-> 0, flush |-> NO_FLUSH, text |-> [k \in Texts |-> 0]]

SeqOf(pos)   == (FirstSeq + pos) % M
KindOf(pos)  == IF pos \in Markers THEN "no_data" ELSE "audio"
no_resend    == control_rport = 0
ThreadAlive  == thread \notin {"none", "done"}

Init ==
  /\ buf = EmptyBuffer
  /\ running = FALSE /\ joined = TRUE
  /\ mail = NoMail /\ taken = NoMail
  /\ thread = "none" /\ call = "idle"
  /\ sockets = "none" /\ freed = FALSE /\ control_known = FALSE
  /\ control_rport = 0
  /\ sent = 0 /\ dsock = {} /\ csock = {} /\ requests = {}
  /\ applied = [volume |-> 0, text |-> [k \in Texts |-> 0]]
  /\ last = -1 /\ high = -1
  /\ commands = 0 /\ starts = 0 /\ errors = 0

-----------------------------------------------------------------------------
(* The httpd thread.                                                       *)

HttpdReady == call = "idle" /\ ~freed

(* raop_rtp_start_audio.  A refused start (running or not joined) returns  *)
(* without a word, and so does one whose sockets cannot be created.        *)
StartAudio ==
  /\ HttpdReady /\ starts < MaxStarts
  /\ starts' = starts + 1
  /\ \/ /\ running \/ ~joined
        /\ UNCHANGED <<running, joined, thread, sockets, control, high, errors>>
     \/ /\ ~running /\ joined
        /\ errors < MaxErrors /\ errors' = errors + 1
        /\ control_rport' \in ControlRports
        /\ UNCHANGED <<running, joined, thread, sockets, control_known, high>>
     \/ /\ ~running /\ joined
        /\ running' = TRUE /\ joined' = FALSE
        /\ thread' = "events" /\ sockets' = "open"
        /\ control_rport' \in ControlRports
        /\ high' = -1
        /\ UNCHANGED <<control_known, errors>>
  /\ UNCHANGED <<buf, mail, taken, call, freed, netVars, applied, last, commands>>

Command ==
  /\ HttpdReady /\ commands < MaxCommands
  /\ commands' = commands + 1
  /\ UNCHANGED <<buf, running, joined, taken, thread, call, sockets, freed,
                 control, netVars, history, starts, errors>>

(* raop_rtp_set_volume *)
SetVolume == Command /\ mail' = [mail EXCEPT !.volume = commands + 1]

(* raop_rtp_set_metadata, raop_rtp_set_progress *)
SetText(k) == Command /\ mail' = [mail EXCEPT !.text[k] = commands + 1]

(* raop_rtp_flush; next_seq is -1 or the number the sender will send next. *)
FlushAudio(next_seq) == Command /\ mail' = [mail EXCEPT !.flush = next_seq]

(* raop_rtp_stop up to its THREAD_JOIN; by = "destroy" when it is called   *)
(* from raop_rtp_destroy.  It returns at once if the thread is not running. *)
Stop(by) ==
  /\ HttpdReady
  /\ running /\ ~joined
  /\ running' = FALSE
  /\ call' = by
  /\ UNCHANGED <<buf, joined, mail, taken, thread, sockets, freed, control,
                 netVars, history, commands, starts, errors>>

(* A mistake: raop_rtp_stop that does not wait for the thread.             *)
StopWithoutJoin ==
  /\ call \in {"stop", "destroy"}
  /\ sockets' = "closed"
  /\ dsock' = {} /\ csock' = {} /\ requests' = {}
  /\ buf' = Flushed(buf, -1)
  /\ last' = -1
  /\ joined' = TRUE
  /\ freed' = (call = "destroy")
  /\ call' = "idle"
  /\ UNCHANGED <<running, mail, taken, thread, control, sent, applied, high,
                 commands, starts, errors>>

(* The rest of raop_rtp_stop, once the thread has ended.  What was on its  *)
(* way to the closed sockets is lost.  raop_rtp_destroy then frees.        *)
StopReturns ==
  /\ call \in {"stop", "destroy"}
  /\ thread = "done"
  /\ sockets' = "closed"
  /\ dsock' = {} /\ csock' = {} /\ requests' = {}
  /\ buf' = Flushed(buf, -1)
  /\ last' = -1
  /\ joined' = TRUE
  /\ freed' = (call = "destroy")
  /\ call' = "idle"
  /\ UNCHANGED <<running, mail, taken, thread, control, sent, applied, high,
                 commands, starts, errors>>

(* raop_rtp_destroy of a session that is not running: raop_rtp_stop has    *)
(* returned early.                                                         *)
DestroyStopped ==
  /\ HttpdReady
  /\ ~running \/ joined
  /\ freed' = TRUE
  /\ UNCHANGED <<buf, running, joined, mail, taken, thread, call, sockets,
                 control, netVars, history, commands, starts, errors>>

-----------------------------------------------------------------------------
(* The audio thread: raop_rtp_thread_udp.                                  *)

(* Mistakes: process_events that does not look at running, and one that    *)
(* clears the mailbox only after the callbacks.                            *)
TakeMailAlways ==
  /\ thread = "events"
  /\ thread' = "apply" /\ taken' = mail /\ mail' = NoMail
  /\ UNCHANGED <<buf, running, joined, sockets, control, netVars, history,
                 httpdVars, errors>>
ApplyThenClear ==
  /\ thread = "apply"
  /\ thread' = "select"
  /\ IF taken.volume # 0
     THEN buf' = Flushed(buf, taken.flush) /\ last' = -1
     ELSE UNCHANGED <<buf, last>>
  /\ applied' =
       [volume |-> IF taken.volume # 0 THEN taken.volume ELSE applied.volume,
        text |-> [k \in Texts |-> IF taken.text[k] # 0 THEN taken.text[k]
                                                     ELSE applied.text[k]]]
  /\ taken' = NoMail /\ mail' = NoMail
  /\ UNCHANGED <<running, joined, sockets, control, netVars, high,
                 httpdVars, errors>>

(* raop_rtp_process_events, under the mutex *)
TakeMail ==
  /\ thread = "events"
  /\ IF running
     THEN thread' = "apply" /\ taken' = mail /\ mail' = NoMail
     ELSE thread' = "exit" /\ UNCHANGED <<taken, mail>>
  /\ UNCHANGED <<buf, running, joined, sockets, control, netVars, history,
                 httpdVars, errors>>

(* The rest of raop_rtp_process_events: the callbacks.  A volume change    *)
(* flushes the buffer, to the number of a flush command if there is one.   *)
ApplyMail ==
  /\ thread = "apply"
  /\ thread' = "select"
  /\ IF taken.volume # 0
     THEN buf' = Flushed(buf, taken.flush) /\ last' = -1
     ELSE UNCHANGED <<buf, last>>
  /\ applied' =
       [volume |-> IF taken.volume # 0 THEN taken.volume ELSE applied.volume,
        text |-> [k \in Texts |-> IF taken.text[k] # 0 THEN taken.text[k]
                                                     ELSE applied.text[k]]]
  /\ taken' = NoMail
  /\ UNCHANGED <<running, joined, mail, sockets, control, netVars, high,
                 httpdVars, errors>>

(* select: the timeout of 5 ms, an error, or readable sockets. *)
Select ==
  /\ thread = "select"
  /\ \/ thread' = "events" /\ UNCHANGED errors
     \/ errors < MaxErrors /\ errors' = errors + 1 /\ thread' = "exit"
     \/ csock # {} /\ thread' = "control" /\ UNCHANGED errors
     \/ csock # {} /\ dsock # {} /\ thread' = "control_data" /\ UNCHANGED errors
     \/ dsock # {} /\ thread' = "data" /\ UNCHANGED errors
  /\ UNCHANGED <<buf, running, joined, mail, taken, sockets, control, netVars,
                 history, httpdVars>>

(* The packet recvfrom returns, and what is left on its way. *)
Receive(queue, pos) == /\ pos \in queue
                       /\ Reordering \/ \A q \in queue : pos <= q
Left(queue, pos)    == {queue \ {pos}} \cup (IF Duplicating THEN {queue} ELSE {})

(* A control packet: a resent packet (type 0x56) goes to the buffer.  (Here *)
(* and below recvfrom does not fail after select, and packets are whole.)   *)
ReceiveControl ==
  /\ thread \in {"control", "control_data"}
  /\ thread' = IF thread = "control" THEN "events" ELSE "data"
  /\ control_known' = TRUE
  /\ \E pos \in csock :
       /\ Receive(csock, pos)
       /\ csock' \in Left(csock, pos)
       /\ buf' = IF pos = Sync THEN buf
                 ELSE Enqueued(buf, KindOf(pos), SeqOf(pos), pos)
  /\ UNCHANGED <<running, joined, mail, taken, sockets, control_rport, sent, dsock,
                 requests, history, httpdVars, errors>>

(* A data packet goes to the buffer. *)
ReceiveData ==
  /\ thread = "data"
  /\ thread' = "render"
  /\ \E pos \in dsock :
       /\ Receive(dsock, pos)
       /\ dsock' \in Left(dsock, pos)
       /\ buf' = Enqueued(buf, KindOf(pos), SeqOf(pos), pos)
  /\ UNCHANGED <<running, joined, mail, taken, sockets, control, sent, csock,
                 requests, history, httpdVars, errors>>

(* One round of "while ((payload = raop_buffer_dequeue(...)))" with its    *)
(* callback audio_process.                                                 *)
Render ==
  /\ thread = "render"
  /\ buf' = Dequeued(buf, no_resend)
  /\ LET payload == Delivered(buf, no_resend)
     IN IF payload = NoData
        THEN /\ thread' = IF no_resend THEN "events" ELSE "resend"
             /\ UNCHANGED <<last, high>>
        ELSE /\ last' = payload
             /\ high' = IF payload > high THEN payload ELSE high
             /\ UNCHANGED thread
  /\ UNCHANGED <<running, joined, mail, taken, sockets, control, netVars,
                 applied, httpdVars, errors>>

(* raop_buffer_handle_resends with raop_rtp_resend_callback; before the    *)
(* first control packet there is no address to send the request to.        *)
HandleResends ==
  /\ thread = "resend"
  /\ thread' = "events"
  /\ requests' = IF control_known THEN requests \cup ResendRange(buf) ELSE requests
  /\ UNCHANGED <<buf, running, joined, mail, taken, sockets, control, sent,
                 dsock, csock, history, httpdVars, errors>>

(* "Ensure running reflects the actual state", then the last log line. *)
Exit ==
  /\ \/ thread = "exit" /\ running' = FALSE /\ thread' = "tail"
     \/ thread = "tail" /\ thread' = "done" /\ UNCHANGED running
  /\ UNCHANGED <<buf, joined, mail, taken, sockets, control, netVars, history,
                 httpdVars, errors>>

-----------------------------------------------------------------------------
(* The sender and the network.                                             *)

Fresh(queue) == \A pos \in queue \ {Sync} : sent - pos < MaxDelay

Send ==
  /\ sockets = "open" /\ sent \in Payload
  /\ Fresh(dsock) /\ Fresh(csock)
  /\ sent' = sent + 1
  /\ dsock' = dsock \cup {sent}
  /\ UNCHANGED <<csock, requests>>

SendSync ==
  /\ sockets = "open" /\ ~control_known
  /\ csock' = csock \cup {Sync}
  /\ UNCHANGED <<sent, dsock, requests>>

(* The sender answers a request with the latest packet of that number,     *)
(* unless it is too old.                                                   *)
Resend(s) ==
  /\ requests' = requests \ {s}
  /\ csock' = csock \cup {pos \in 0 .. sent - 1 : SeqOf(pos) = s /\ sent - pos < MaxDelay}
  /\ UNCHANGED <<sent, dsock>>

(* What select has found on a socket is not lost any more. *)
Lose ==
  /\ Lossy
  /\ \/ \E pos \in dsock : dsock' = dsock \ {pos} /\ UNCHANGED <<csock, requests>>
     \/ \E pos \in csock : csock' = csock \ {pos} /\ UNCHANGED <<dsock, requests>>
     \/ \E s \in requests : requests' = requests \ {s} /\ UNCHANGED <<dsock, csock>>
  /\ thread \in {"control", "control_data"} => csock' # {}
  /\ thread \in {"control_data", "data"} => dsock' # {}
  /\ UNCHANGED sent

Network ==
  /\ Send \/ SendSync \/ Lose \/ \E s \in requests : Resend(s)
  /\ UNCHANGED <<buf, running, joined, mail, taken, thread, sockets, control,
                 history, httpdVars, errors>>

-----------------------------------------------------------------------------
Thread ==
  \/ TakeMail \/ ApplyMail \/ Select \/ ReceiveControl \/ ReceiveData \/ Render
  \/ HandleResends \/ Exit

Httpd ==
  \/ StartAudio
  \/ SetVolume
  \/ \E k \in Texts : SetText(k)
  \/ \E next_seq \in {-1, SeqOf(sent)} : FlushAudio(next_seq)
  \/ \E by \in {"stop", "destroy"} : Stop(by)
  \/ StopReturns
  \/ DestroyStopped

Next == Thread \/ Httpd \/ Network

Spec == Init /\ [][Next]_vars

(* The audio thread keeps running; THREAD_JOIN returns once it has ended.  *)
Fairness == WF_vars(Thread) /\ WF_vars(StopReturns)

(* As well: a stream that goes on, over a network that delivers.           *)
StreamFairness == WF_vars(Send /\ Network) /\ SF_vars(Select /\ thread' = "data")

FairSpec   == Spec /\ Fairness
StreamSpec == FairSpec /\ StreamFairness

-----------------------------------------------------------------------------
(* Every variable has the type its declaration in the code gives it.       *)
CommandNo == 0 .. MaxCommands
Mail == [volume : CommandNo, flush : {NO_FLUSH, -1} \cup SeqNum,
         text : [Texts -> CommandNo]]
TypeOK ==
  /\ buf \in Buffer
  /\ {running, joined, freed, control_known} \subseteq BOOLEAN
  /\ control_rport \in Nat
  /\ mail \in Mail /\ taken \in Mail
  /\ thread \in {"none", "events", "apply", "select", "control", "control_data",
                 "data", "render", "resend", "exit", "tail", "done"}
  /\ call \in {"idle", "stop", "destroy"}
  /\ sockets \in {"none", "open", "closed"}
  /\ sent \in Nat /\ 0 .. sent - 1 \subseteq Payload
  /\ dsock \subseteq Payload /\ csock \subseteq Payload \cup {Sync}
  /\ requests \subseteq SeqNum
  /\ applied \in [volume : CommandNo, text : [Texts -> CommandNo]]
  /\ {last, high} \subseteq Payload \cup {-1}
  /\ {commands, starts, errors} \subseteq Nat

(* The thread and the httpd thread together keep the buffer a window: it   *)
(* never overflows and never mixes packets up.                             *)
Window == WindowOf(buf)

(* While the audio thread exists, its sockets are open and it is not       *)
(* joined: raop_rtp_stop closes them only after THREAD_JOIN.               *)
ThreadHasSockets == ThreadAlive => sockets = "open" /\ ~joined

(* raop_rtp_destroy frees the session only when no thread uses it any      *)
(* more.  (Not when select failed before: then stop does not join.)        *)
NoUseAfterFree == freed => ~ThreadAlive

(* Packets are played in the order in which they were sent, each once, up  *)
(* to the next flush, however the network reorders, repeats or loses them, *)
(* in a stream of at most M packets, or a longer one with which the buffer *)
(* keeps up.  (A hole that nothing fills for a whole round of numbers      *)
(* takes a packet of the next round.)                                      *)
Delivery == INSTANCE AudioDelivery
InOrder  == Delivery!Spec

(* The session keeps to the life cycle that a connection relies on.        *)
LifeThread == IF thread \in {"none", "tail", "done"} THEN thread ELSE "loop"
Life == INSTANCE SessionLife WITH thread <- LifeThread
IsSession == Life!Spec

(* A request names only packets that are neither in the buffer nor played  *)
(* already, and asks for the hole at the head of the buffer if it has one, *)
(* in a stream of at most M packets, or a longer one that is played on.    *)
AsksForHoles ==
  [][/\ requests \subseteq requests' =>
          \A s \in requests' \ requests :
            /\ ~buf.entries[SlotOf(s)].filled
            /\ \A pos \in 0 .. last : last - pos < M \div 2 => SeqOf(pos) # s
     /\ thread = "resend" /\ thread' = "events" /\ control_known =>
          \/ ~SeqCmp(buf.first, buf.last) < 0
          \/ FirstEntry(buf).filled
          \/ buf.first \in requests']_vars

(* raop_rtp_stop returns: it clears running, and the thread sees that.     *)
StopTerminates == call # "idle" ~> call = "idle"

(* The last volume and texts set while the session runs reach the          *)
(* callbacks, even when several are set before the thread looks.           *)
LastCommandApplied ==
  \A n \in 1 .. MaxCommands :
    /\ (mail.volume = n /\ running) ~> (applied.volume >= n \/ ~running)
    /\ \A k \in Texts :
         (mail.text[k] = n /\ running) ~> (applied.text[k] >= n \/ ~running)

(* Over a network that loses and reorders nothing every packet that is on  *)
(* its way is played, and none of the session is left out, as long as not  *)
(* M \div 2 packets in a row are "no data" markers: after so many the next *)
(* packet counts as too late for the buffer, which waits where it was.     *)
EveryPacketPlayed ==
  /\ [][high' > high /\ high >= 0 =>
          \A pos \in high + 1 .. high' - 1 : pos \in Markers]_vars
  /\ \A pos \in Payload \ Markers :
       pos \in dsock /\ running ~> high >= pos \/ ~running

-----------------------------------------------------------------------------
(* What comments of the code say and the code does not do.                 *)

(* raop_rtp.c "Handle flush if requested": when the callbacks of a turn    *)
(* that has taken a FLUSH have run, the buffer is empty.  The code empties *)
(* it on a volume change instead.                                          *)
FlushEmptiesBuffer ==
  [][thread = "apply" /\ thread' = "select" /\ taken.flush # NO_FLUSH =>
       \A i \in Slot : ~buf'.entries[i].filled]_vars
=============================================================================
