------------------------------- MODULE Httpd --------------------------------
(***************************************************************************)
(* src/lib/lib/httpd.c: the RTSP server.  One thread selects, accepts,     *)
(* receives and answers on a table of connections; the application starts, *)
(* stops and destroys it through running and joined.  The callbacks        *)
(* conn_init, conn_request and conn_destroy of raop.c make, use and end    *)
(* what a connection owns (RaopConn has the inside of it).                 *)
(*                                                                         *)
(* Beside the server there are senders: each opens a TCP connection, sends *)
(* its requests one after the other, a piece at a time, and may close or   *)
(* reset it at any moment.                                                 *)
(***************************************************************************)
EXTENDS HttpRequest, SequencesExt, FiniteSets

CONSTANTS
  Conn,            \* the connections that senders open
  Text,            \* the parts of strings
  Requests,        \* the requests on each: [url, headers, body, disconnect]
  CSeq,            \* the name of the header that a request needs
  MaxConnections,  \* max_connections, the length of the table
  BufferSize,      \* the pieces a recv can take
  NULL,
  MaxStarts,       \* bounds the starts,
  MaxErrors        \* the system calls and allocations that fail, and resets

ASSUME HttpdAssumption ==
  /\ MaxConnections \in Nat \ {0} /\ BufferSize \in Nat \ {0}
  /\ {MaxStarts, MaxErrors} \subseteq Nat
  /\ NULL \notin Conn \cup HttpRequestOf(Text)

(* A header has a name and a value.  llhttp calls back for an empty value  *)
(* too: it has one part, the empty text.                                   *)
ASSUME RequestsAssumption ==
  /\ Requests \in [Conn -> Seq([url : Seq(Text), headers : Seq(Seq(Text)),
                               body : Seq(Text), disconnect : BOOLEAN])]
  /\ \A c \in Conn : \A n \in DOMAIN Requests[c] :
       LET headers == Requests[c][n].headers
       IN Len(headers) % 2 = 0 /\ \A i \in DOMAIN headers : headers[i] # <<>>

Slot == 1 .. MaxConnections
Fd   == 1 .. MaxConnections   \* descriptors that accept returns
server_fd == 0

VARIABLES
  running, joined,
  call,      \* the application is in "stop" or "destroy", waiting for the thread
  freed,     \* httpd_destroy has freed the server
  thread,    \* where the server's thread is
  listening, \* the listening socket is open
  slot,      \* the table: [connected, socket_fd, user_data, request]
  open_connections,
  rfds,      \* the set select has left
  at,        \* the next slot the loop looks at
  sock,      \* the kernel's descriptors: a connection, or NULL
  backlog,   \* the connections that wait for accept
  tcp,       \* the connections: [state, left, unread, closed]
  life,      \* what the callbacks have made for it: "none", "live", "destroyed"
  answered,  \* the requests on it that were answered
  starts, errors

flags  == <<running, joined, call, freed>>
table  == <<slot, open_connections, sock, life>>
loop   == <<rfds, at>>
net    == <<listening, backlog, tcp, answered>>
bounds == <<starts, errors>>
vars == <<flags, thread, table, loop, net, bounds>>

-----------------------------------------------------------------------------
(* The pieces of a request in the order of the stream.                     *)
Pieces(kind, texts) == [i \in DOMAIN texts |-> [kind |-> kind, text |-> texts[i]]]
HeaderPieces(headers) ==
  LET first[n \in 0 .. Len(headers)] ==
        IF n = 0 THEN <<>>
        ELSE first[n - 1] \o Pieces(IF n % 2 = 1 THEN "field" ELSE "value", headers[n])
  IN first[Len(headers)]
Stream(q) == Pieces("url", q.url) \o HeaderPieces(q.headers)
               \o Pieces("body", q.body) \o <<[kind |-> "end"]>>
NextRequest(c, n) == IF n < Len(Requests[c]) THEN Stream(Requests[c][n + 1]) ELSE <<>>

Empty == [connected |-> FALSE, socket_fd |-> 0, user_data |-> NULL, request |-> NULL]
Garbage == [NewRequest EXCEPT !.url = <<"garbage">>]

Init ==
  /\ running = FALSE /\ joined = TRUE /\ call = "idle" /\ freed = FALSE
  /\ thread = "none" /\ listening = FALSE
  /\ slot = [i \in Slot |-> Empty] /\ open_connections = 0
  /\ rfds = {} /\ at = 1
  /\ sock = [fd \in Fd |-> NULL] /\ backlog = <<>>
  /\ tcp = [c \in Conn |-> [state |-> "new", left |-> NextRequest(c, 0),
                            unread |-> <<>>, closed |-> "no"]]
  /\ life = [c \in Conn |-> "none"] /\ answered = [c \in Conn |-> 0]
  /\ starts = 0 /\ errors = 0

(* A connection that the server has closed                                 *)
Gone == [state |-> "closed", left |-> <<>>, unread |-> <<>>, closed |-> "no"]

Failure == errors < MaxErrors /\ errors' = errors + 1

-----------------------------------------------------------------------------
(* The application: raop_start, raop_stop and raop_destroy.                *)

Ready == call = "idle" /\ ~freed
Startable == ~running /\ joined

Start ==
  /\ Ready /\ Startable /\ starts < MaxStarts
  /\ \/ /\ running' = TRUE /\ joined' = FALSE /\ listening' = TRUE
        /\ thread' = "select" /\ starts' = starts + 1
        /\ UNCHANGED errors
     \/ Failure /\ UNCHANGED <<running, joined, listening, thread, starts>>
  /\ UNCHANGED <<call, freed, table, loop, backlog, tcp, answered>>

Stop ==
  /\ Ready /\ running /\ ~joined
  /\ running' = FALSE /\ call' \in {"stop", "destroy"}
  /\ UNCHANGED <<joined, freed, thread, table, loop, net, bounds>>

StopReturns ==
  /\ call # "idle" /\ thread = "done"
  /\ joined' = TRUE /\ freed' = (call = "destroy") /\ call' = "idle"
  /\ UNCHANGED <<running, thread, table, loop, net, bounds>>

(* Stop has nothing to wait for, and destroy frees the server.             *)
DestroyStopped ==
  /\ Ready /\ (~running \/ joined)
  /\ freed' = TRUE
  /\ UNCHANGED <<running, joined, call, thread, table, loop, net, bounds>>

-----------------------------------------------------------------------------
(* The thread: running is tested, and select reports what is readable.     *)

Connected == {i \in Slot : slot[i].connected}
HasRoom   == open_connections < MaxConnections
Watched   == (IF HasRoom /\ listening THEN {server_fd} ELSE {})
               \cup {slot[i].socket_fd : i \in Connected}

Incoming(c)  == tcp[c].unread # <<>> \/ tcp[c].closed # "no"
Readable(fd) == IF fd = server_fd THEN backlog # <<>>
                ELSE sock[fd] # NULL /\ Incoming(sock[fd])
Reported  == {fd \in Watched : Readable(fd)}
AcceptableForTwo(fds) ==   \* a mistake
  open_connections < MaxConnections - 1 /\ listening /\ server_fd \in fds
Acceptable(fds) == HasRoom /\ listening /\ server_fd \in fds

(* The two ways the loop goes on, and a mistake: running is not tested.    *)
RunningOrNot == TRUE
StillRunning == running

(* What arrives between the test and select finds the set all the same.    *)
(* select times out if nothing is readable, and the loop begins again.     *)
Select ==
  /\ thread = "select" /\ StillRunning
  /\ rfds' = Reported
  /\ thread' = CASE Reported = {}         -> "select"
                 [] Acceptable(Reported)  -> "accept"
                 [] OTHER                 -> "serve"
  /\ UNCHANGED <<flags, table, at, net, bounds>>

LeaveLoop ==
  /\ thread = "select"
  /\ \/ ~StillRunning /\ UNCHANGED errors
     \/ StillRunning /\ Failure     \* select
  /\ thread' = "cleanup"
  /\ UNCHANGED <<flags, table, loop, net, starts>>

-----------------------------------------------------------------------------
(* httpd_accept_connection and httpd_add_connection.                       *)

Lowest(S) == CHOOSE x \in S : \A y \in S : x <= y

Accept ==
  /\ thread = "accept"
  /\ LET c == Head(backlog)
         i == Lowest(Slot \ Connected)
         fd == Lowest({x \in Fd : sock[x] = NULL})
     IN /\ slot' = [slot EXCEPT ![i] = [@ EXCEPT
                      !.connected = TRUE, !.socket_fd = fd, !.user_data = c]]
        /\ open_connections' = open_connections + 1
        /\ sock' = [sock EXCEPT ![fd] = c]
        /\ life' = [life EXCEPT ![c] = "live"]
        /\ tcp' = [tcp EXCEPT ![c].state = "accepted"]
  /\ backlog' = Tail(backlog)
  /\ thread' = "serve"
  /\ UNCHANGED <<flags, loop, listening, answered, bounds>>

(* accept fails, and the server gives up; or getsockname or conn_init      *)
(* does, and the new connection is closed.                                 *)
AcceptFails ==
  /\ thread = "accept" /\ Failure
  /\ \/ thread' = "cleanup" /\ UNCHANGED <<backlog, tcp>>
     \/ /\ thread' = "select"
        /\ tcp' = [tcp EXCEPT ![Head(backlog)] = Gone]
        /\ backlog' = Tail(backlog)
  /\ rfds' = {}
  /\ UNCHANGED <<flags, table, at, listening, answered, starts>>

-----------------------------------------------------------------------------
(* The loop over the table.                                                *)

(* httpd_remove_connection: what is left in a slot is not read again.      *)
(* (A mistake: the count stays.)                                           *)
RemoveLeaving(i, entry, removed) ==
  LET c == slot[i].user_data
  IN /\ slot' = [slot EXCEPT ![i] = entry]
     /\ open_connections' = open_connections - removed
     /\ sock' = [sock EXCEPT ![slot[i].socket_fd] = NULL]
     /\ life' = [life EXCEPT ![c] = "destroyed"]
     /\ tcp' = [tcp EXCEPT ![c] = Gone]
RemoveKeepingCount(i) == RemoveLeaving(i, Empty, 0)
RemoveConnection(i)   == RemoveLeaving(i, Empty, 1)

TurnOfAll == {i \in Slot : i >= at /\ slot[i].connected}   \* a mistake
Turn == {i \in Slot : i >= at /\ slot[i].connected /\ slot[i].socket_fd \in rfds}

(* rfds and the place in the table are local to a turn of the loop.        *)
ServedAll ==
  /\ thread = "serve" /\ Turn = {}
  /\ thread' = "select" /\ rfds' = {} /\ at' = 1
  /\ UNCHANGED <<flags, table, net, bounds>>

(* recv waits until there is something; it takes at most a buffer.         *)
InTurn(i, c) ==
  /\ thread = "serve" /\ Turn # {} /\ i = Lowest(Turn)
  /\ c = sock[slot[i].socket_fd] /\ Incoming(c)

(* http_request_init, unless the connection is within a request            *)
RequestOf(i) == IF slot[i].request = NULL THEN NewRequest ELSE slot[i].request

(* The loop goes on with the request that is put together so far.          *)
Parsed(i, request) ==
  /\ slot' = [slot EXCEPT ![i].request = request]
  /\ IF request.complete THEN thread' = "handle" /\ at' = i
     ELSE at' = i + 1 /\ UNCHANGED thread
  /\ UNCHANGED <<open_connections, sock, life>>

Receive(i, c) ==
  /\ InTurn(i, c) /\ tcp[c].unread # <<>>
  /\ LET taken == Min({BufferSize, Len(tcp[c].unread)})
     IN /\ Parsed(i, AddData(RequestOf(i), SubSeq(tcp[c].unread, 1, taken)))
        /\ tcp' = [tcp EXCEPT ![c].unread = SubSeq(@, taken + 1, Len(@))]
  /\ UNCHANGED <<flags, rfds, listening, backlog, answered, bounds>>

Closed(i, c) ==
  /\ InTurn(i, c) /\ tcp[c].closed = "fin" /\ tcp[c].unread = <<>>
  /\ RemoveConnection(i) /\ at' = i + 1
  /\ UNCHANGED <<flags, thread, rfds, listening, backlog, answered, bounds>>

(* recv has returned -1, and this is the length that the parser gets: it   *)
(* reads on behind the buffer, and finds an error, the end of a request or *)
(* neither.  A reset is reported once.                                     *)
BrokenOff(i, c) ==
  /\ InTurn(i, c) /\ tcp[c].closed = "reset" /\ tcp[c].unread = <<>>
  /\ \/ RemoveConnection(i) /\ at' = i + 1 /\ UNCHANGED thread
     \/ /\ \E complete \in BOOLEAN : Parsed(i, [Garbage EXCEPT !.complete = complete])
        /\ tcp' = [tcp EXCEPT ![c].closed = "fin"]
  /\ UNCHANGED <<flags, rfds, listening, backlog, answered, bounds>>

(* conn_request and the response, which the sender takes.  A request       *)
(* without CSeq has none, and its sender waits for ever.                   *)
Answer(i, c) ==
  LET n == answered[c] + 1
  IN /\ answered' = [answered EXCEPT ![c] = n]
     /\ IF Requests[c][n].disconnect THEN RemoveConnection(i)
        ELSE /\ slot' = [slot EXCEPT ![i].request = NULL]
             /\ tcp' = [tcp EXCEPT ![c].left = NextRequest(c, n)]
             /\ UNCHANGED <<open_connections, sock, life>>

NoAnswer(i) ==
  /\ slot' = [slot EXCEPT ![i].request = NULL]
  /\ UNCHANGED <<open_connections, sock, life, tcp, answered>>

Garbled(i) == slot[i].request.url = Garbage.url

Handle ==
  /\ thread = "handle"
  /\ \/ HasHeader(slot[at].request, CSeq) /\ Answer(at, slot[at].user_data)
     \/ ~HasHeader(slot[at].request, CSeq) /\ NoAnswer(at)
     \/ Garbled(at) /\ RemoveConnection(at) /\ UNCHANGED answered
  /\ thread' = "serve" /\ at' = at + 1
  /\ UNCHANGED <<flags, rfds, listening, backlog, bounds>>

-----------------------------------------------------------------------------
(* The end of the thread.                                                  *)

Cleanup ==
  /\ thread = "cleanup" /\ Connected # {}
  /\ RemoveConnection(Lowest(Connected))
  /\ UNCHANGED <<flags, thread, loop, listening, backlog, answered, bounds>>

Refuse(queue) == [c \in Conn |-> IF c \in queue THEN Gone ELSE tcp[c]]

CloseServer ==
  /\ thread = "cleanup" /\ Connected = {}
  /\ listening' = FALSE
  /\ tcp' = Refuse(ToSet(backlog)) /\ backlog' = <<>>
  /\ thread' = "clear"
  /\ UNCHANGED <<flags, table, loop, answered, bounds>>

ClearNothing ==   \* a mistake
  /\ thread = "clear"
  /\ thread' = "tail"
  /\ UNCHANGED <<flags, table, loop, net, bounds>>
ClearRunning ==
  /\ thread = "clear"
  /\ running' = FALSE /\ thread' = "tail"
  /\ UNCHANGED <<joined, call, freed, table, loop, net, bounds>>

Return ==
  /\ thread = "tail"
  /\ thread' = "done"
  /\ UNCHANGED <<flags, table, loop, net, bounds>>

-----------------------------------------------------------------------------
(* The senders.  The 5 places of the code's backlog are more than Conn.    *)

Connect(c) ==
  /\ tcp[c].state = "new" /\ listening
  /\ tcp' = [tcp EXCEPT ![c].state = "backlog"]
  /\ backlog' = Append(backlog, c)
  /\ UNCHANGED <<flags, thread, table, loop, listening, answered, bounds>>

(* What a sender does before its connection is accepted is to the server   *)
(* as if it did so right after.                                            *)
Sending(c) == tcp[c].state = "accepted" /\ tcp[c].closed = "no"

(* The next piece arrives.                                                 *)
SendPiece(c) ==
  /\ Sending(c) /\ tcp[c].left # <<>>
  /\ tcp' = [tcp EXCEPT ![c] = [@ EXCEPT
                !.left = Tail(tcp[c].left),
                !.unread = Append(tcp[c].unread, Head(tcp[c].left))]]
  /\ UNCHANGED <<flags, thread, table, loop, listening, backlog, answered, bounds>>

(* The sender closes the connection, or resets it.                         *)
Leave(c) ==
  /\ Sending(c) /\ Failure
  /\ \E how \in {"fin", "reset"} :
       tcp' = [tcp EXCEPT ![c] = [@ EXCEPT !.closed = how, !.left = <<>>]]
  /\ UNCHANGED <<flags, thread, table, loop, listening, backlog, answered, starts>>

-----------------------------------------------------------------------------
Application == Start \/ Stop \/ StopReturns \/ DestroyStopped

Thread ==
  \/ Select \/ LeaveLoop \/ Accept \/ AcceptFails
  \/ ServedAll \/ Handle
  \/ \E i \in Slot, c \in Conn : Receive(i, c) \/ Closed(i, c) \/ BrokenOff(i, c)
  \/ Cleanup \/ CloseServer \/ ClearRunning \/ Return

Sender(c) == Connect(c) \/ SendPiece(c) \/ Leave(c)

Next == Application \/ Thread \/ \E c \in Conn : Sender(c)

Spec == Init /\ [][Next]_vars

(* The server's thread is scheduled, and a thread that was joined is       *)
(* noticed.  Nothing is assumed of the application and of the senders.     *)
Fairness == WF_vars(Thread) /\ WF_vars(StopReturns)
FairSpec == Spec /\ Fairness

-----------------------------------------------------------------------------
(* The table, the count, the kernel's descriptors and the connections of   *)
(* raop.c agree: whatever fails, no descriptor and no connection is lost,  *)
(* freed twice or left behind, and no request outlives its connection.     *)
Entry == [connected : BOOLEAN, socket_fd : {0} \cup Fd, user_data : Conn \cup {NULL}]
Serving == {"select", "accept", "serve", "handle", "cleanup"}
TableOK ==
  /\ open_connections = Cardinality(Connected)
  /\ \A i \in Connected : sock[slot[i].socket_fd] = slot[i].user_data
  /\ \A i \in Slot \ Connected : slot[i] = Empty
  /\ \A i, j \in Connected : slot[i].socket_fd = slot[j].socket_fd => i = j
  /\ \A fd \in Fd : sock[fd] # NULL => \E i \in Connected : slot[i].socket_fd = fd
  /\ \A c \in Conn : life[c] = "live" <=> \E i \in Connected : slot[i].user_data = c
  /\ Connected # {} => thread \in Serving

(* When the loop comes to a connection that select has reported there is   *)
(* still something to receive: the server's only thread never waits for    *)
(* one sender while it could serve another.                                *)
NeverBlocks == thread = "serve" => \A i \in Turn : Incoming(sock[slot[i].socket_fd])

(* However the bytes of a request were cut, on the wire and by the buffer, *)
(* conn_request gets its url, headers and body as they were sent, and      *)
(* nothing of the request before it or of another connection.              *)
RequestAsSent ==
  thread = "handle" /\ ~Garbled(at) =>
    LET c == slot[at].user_data
        q == Requests[c][answered[c] + 1]
        r == slot[at].request
    IN r.url = q.url /\ r.headers = q.headers /\ r.data = q.body

(* The server is started, stopped and freed in the order the sessions are. *)
LifeThread == IF thread \in Serving \cup {"clear"} THEN "loop" ELSE thread
Life == INSTANCE SessionLife WITH thread <- LifeThread
IsSession == Life!Spec

(* While its connection is open a complete request with a CSeq is answered *)
(* in the end, however many other connections are served.                  *)
Awaiting(c) ==
  /\ tcp[c].state = "accepted" /\ tcp[c].closed = "no" /\ tcp[c].left = <<>>
  /\ answered[c] < Len(Requests[c])
  /\ HasHeader(Requests[c][answered[c] + 1], CSeq)
EveryRequestAnswered == \A c \in Conn : Awaiting(c) ~> ~Awaiting(c)

(* A connection that finds the table full is not lost: if there is room    *)
(* again and again, all that wait are accepted or refused in the end.      *)
WaitingAccepted == []<>HasRoom => []<>(backlog = <<>>)

(* A stop, which waits for the thread, comes to its end.                   *)
StopTerminates == call # "idle" ~> call = "idle"
=============================================================================
