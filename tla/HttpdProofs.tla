---------------------------- MODULE HttpdProofs -----------------------------
(***************************************************************************)
(* What the RTSP server (Httpd) promises, for any number of connections,   *)
(* any requests, any table and any number of failures.                     *)
(***************************************************************************)
EXTENDS Httpd, FiniteSetTheorems, SequenceTheorems, WellFoundedInduction, TLAPS

-----------------------------------------------------------------------------
(* The life of the server's thread.                                        *)

LEMMA InitLife == Init => Life!Init
BY DEF Init, Life!Init, LifeThread, Serving

LEMMA ApplicationLife ==
  ASSUME Application
  PROVE  Life!Next \/ UNCHANGED <<running, joined, LifeThread, call, freed>>
<1>1. CASE Start
  <2>1. CASE UNCHANGED <<running, joined, thread>>
    BY <1>1, <2>1 DEF Start, LifeThread
  <2>2. CASE ~UNCHANGED <<running, joined, thread>>
    <3>1. Life!Start
      BY <1>1, <2>2 DEF Start, Ready, Startable, LifeThread, Serving,
                        Life!Start, Life!Ready
    <3> QED BY <3>1 DEF Life!Next
  <2> QED BY <2>1, <2>2
<1>2. CASE Stop
  <2>1. Life!Stop BY <1>2 DEF Stop, Ready, LifeThread, Life!Stop, Life!Ready
  <2> QED BY <2>1 DEF Life!Next
<1>3. CASE StopReturns
  <2>1. Life!StopReturns
    BY <1>3 DEF StopReturns, LifeThread, Serving, Life!StopReturns
  <2> QED BY <2>1 DEF Life!Next
<1>4. CASE DestroyStopped
  <2>1. Life!DestroyStopped
    BY <1>4 DEF DestroyStopped, Ready, LifeThread, Life!DestroyStopped, Life!Ready
  <2> QED BY <2>1 DEF Life!Next
<1> QED BY <1>1, <1>2, <1>3, <1>4 DEF Application

LEMMA ThreadLife ==
  ASSUME Thread
  PROVE  Life!Next \/ UNCHANGED <<running, joined, LifeThread, call, freed>>
<1>1. CASE ClearRunning \/ Return
  <2>1. Life!ThreadEnds
    BY <1>1 DEF ClearRunning, Return, flags, LifeThread, Serving, Life!ThreadEnds
  <2> QED BY <2>1 DEF Life!Next
<1>2. ASSUME NEW i \in Slot, NEW c \in Conn,
             Receive(i, c) \/ Closed(i, c) \/ BrokenOff(i, c)
      PROVE  UNCHANGED flags /\ {thread, thread'} \subseteq Serving
  BY <1>2 DEF Receive, Closed, BrokenOff, InTurn, Parsed, Serving
<1>3. CASE \/ Select \/ LeaveLoop \/ Accept \/ AcceptFails \/ ServedAll \/ Handle
           \/ Cleanup \/ CloseServer
  <2>1. UNCHANGED flags /\ {thread, thread'} \subseteq Serving \cup {"clear"}
    BY <1>3 DEF Select, LeaveLoop, Accept, AcceptFails, ServedAll, Handle,
                Cleanup, CloseServer, Serving
  <2> QED BY <2>1 DEF flags, LifeThread
<1> QED BY <1>1, <1>2, <1>3 DEF Thread, flags, LifeThread

(* Whatever the server's thread and the senders do, start, stop, destroy   *)
(* and the thread's own end happen in the order of SessionLife.            *)
THEOREM HttpdIsSession == Spec => IsSession
<1>1. [Next]_vars => [Life!Next]_(Life!vars)
  <2>1. ASSUME NEW c \in Conn, Sender(c) PROVE UNCHANGED <<flags, thread>>
    BY <2>1 DEF Sender, Connect, SendPiece, Leave
  <2>2. CASE UNCHANGED <<flags, thread>>
    BY <2>2 DEF flags, LifeThread, Life!vars
  <2>3. UNCHANGED vars => UNCHANGED <<flags, thread>>
    BY DEF vars
  <2> QED BY <2>1, <2>2, <2>3, ApplicationLife, ThreadLife DEF Next, Life!vars
<1> QED BY <1>1, InitLife, PTL DEF Spec, IsSession, Life!Spec

-----------------------------------------------------------------------------
(* A set of slots or descriptors has a lowest one.                         *)

LEMMA LowestOf ==
  ASSUME NEW n \in Nat, NEW S \in SUBSET (1 .. n), S # {}
  PROVE  Lowest(S) \in S /\ \A y \in S : Lowest(S) <= y
<1> DEFINE upTo(x) == {y \in S : y <= x}
           T == {upTo(x) : x \in S}
<1>1. IsFiniteSet(1 .. n) BY FS_Interval
<1>2. T \subseteq FiniteSubsetsOf(1 .. n)
  <2>1. ASSUME NEW x \in S PROVE upTo(x) \in SUBSET (1 .. n) OBVIOUS
  <2>2. FiniteSubsetsOf(1 .. n) = SUBSET (1 .. n)
    BY <1>1, FS_FiniteSubsetsOfFinite
  <2> QED BY <2>1, <2>2
<1>3. T # {} OBVIOUS
<1> DEFINE R == StrictSubsetOrdering(1 .. n)
<1>4. IsWellFoundedOn(R, FiniteSubsetsOf(1 .. n))
  BY FS_StrictSubsetOrderingWellFounded
<1>5. \E t \in T : \A u \in T : ~(<<u, t>> \in R)
  <2> HIDE DEF T, R
  <2> QED BY <1>2, <1>3, <1>4, WFMin
<1>6. PICK x \in S : \A u \in T : ~(<<u, upTo(x)>> \in R)
  BY <1>5
<1>7. ASSUME NEW y \in S, ~(x <= y) PROVE FALSE
  <2>1. upTo(y) \subseteq upTo(x) /\ x \in upTo(x) /\ x \notin upTo(y)
    <3>1. S \subseteq Int OBVIOUS
    <3>2. \A z \in S : z <= y => z <= x BY <1>7, <3>1
    <3>3. x <= x /\ ~(x <= y) BY <1>7, <3>1
    <3> QED BY <3>2, <3>3
  <2>2. upTo(y) \in SUBSET (1 .. n) /\ upTo(x) \in SUBSET (1 .. n) OBVIOUS
  <2>3. <<upTo(y), upTo(x)>> \in R
    <3> HIDE DEF upTo
    <3> QED BY <2>1, <2>2 DEF StrictSubsetOrdering
  <2> QED BY <1>6, <2>3
<1> QED BY <1>7 DEF Lowest

-----------------------------------------------------------------------------
(* The inductive invariant.  What is in the records and the functions: the *)
(* contents of a request are not looked into.                              *)
EntryOf(e) == [connected |-> e.connected, socket_fd |-> e.socket_fd,
               user_data |-> e.user_data, request |-> e.request]
TcpOf(t) == [state |-> t.state, left |-> t.left, unread |-> t.unread,
             closed |-> t.closed]

IsSeq(s) == \E S : s \in Seq(S)

TableTyped ==
  /\ slot = [i \in Slot |-> slot[i]]
  /\ \A i \in Slot : slot[i] = EntryOf(slot[i])
  /\ \A i \in Connected : slot[i].socket_fd \in Fd /\ slot[i].user_data \in Conn
  /\ sock \in [Fd -> Conn \cup {NULL}]
  /\ life \in [Conn -> {"none", "live", "destroyed"}]
  /\ open_connections \in Nat
WireTyped ==
  /\ tcp = [c \in Conn |-> tcp[c]]
  /\ \A c \in Conn : tcp[c] = TcpOf(tcp[c]) /\ IsSeq(tcp[c].unread)
  /\ backlog \in Seq(Conn)

(* TableOK without its last conjunct, and no connection in two slots.      *)
TableAgrees ==
  /\ open_connections = Cardinality(Connected)
  /\ \A i \in Connected : sock[slot[i].socket_fd] = slot[i].user_data
  /\ \A i \in Slot \ Connected : slot[i] = Empty
  /\ \A i, j \in Connected : slot[i].socket_fd = slot[j].socket_fd => i = j
  /\ \A fd \in Fd : sock[fd] # NULL => \E i \in Connected : slot[i].socket_fd = fd
  /\ \A c \in Conn : life[c] = "live" <=> \E i \in Connected : slot[i].user_data = c
  /\ \A i, j \in Connected : slot[i].user_data = slot[j].user_data => i = j

(* A connection is in one place: new, in the backlog, once, or accepted.   *)
OnePlace ==
  /\ \A c \in Conn : life[c] = "live" => tcp[c].state = "accepted"
  /\ \A k \in DOMAIN backlog : tcp[backlog[k]].state = "backlog"
  /\ \A k, l \in DOMAIN backlog : backlog[k] = backlog[l] => k = l

(* What the thread knows where it is.                                      *)
AtWork ==
  /\ thread = "accept" => /\ backlog # <<>> /\ HasRoom
                          /\ \A fd \in rfds \cap Fd : sock[fd] # NULL
  /\ thread = "handle" => at \in Connected
  /\ at \in Nat
  /\ Connected # {} => thread \in Serving

(* The slots that the loop has still to come to can be received from.      *)
Ahead == {i \in Connected : /\ slot[i].socket_fd \in rfds
                            /\ \/ thread = "accept"
                               \/ thread = "serve" /\ i >= at
                               \/ thread = "handle" /\ i > at}
AheadIncoming == \A i \in Ahead : Incoming(slot[i].user_data)

Inv == /\ TableTyped /\ TableAgrees
       /\ WireTyped /\ OnePlace
       /\ AtWork /\ AheadIncoming

LEMMA EmptyIsSeq == IsSeq(<<>>)
<1>1. <<>> \in Seq({}) OBVIOUS
<1> QED BY <1>1 DEF IsSeq

LEMMA InitInv == Init => Inv
<1> SUFFICES ASSUME Init PROVE Inv OBVIOUS
<1>1. Connected = {}
  BY DEF Init, Connected, Empty
<1>2. TableTyped
  BY <1>1 DEF Init, TableTyped, EntryOf, Empty
<1>3. TableAgrees
  BY <1>1, FS_EmptySet DEF Init, TableAgrees
<1>4. WireTyped /\ OnePlace
  BY EmptyIsSeq DEF Init, WireTyped, OnePlace, TcpOf
<1>5. AtWork /\ AheadIncoming
  BY <1>1 DEF Init, AtWork, AheadIncoming, Ahead
<1> QED BY <1>2, <1>3, <1>4, <1>5 DEF Inv

-----------------------------------------------------------------------------
(* The changes of the table.                                               *)

LEMMA ConnectedFinite ==
  /\ IsFiniteSet(Slot) /\ Cardinality(Slot) = MaxConnections
  /\ Connected \in SUBSET Slot /\ IsFiniteSet(Connected)
<1>1. IsFiniteSet(Slot) /\ Cardinality(Slot) = MaxConnections
  <2>1. 1 \in Int /\ MaxConnections \in Int /\ MaxConnections >= 1
    BY HttpdAssumption
  <2>2. /\ IsFiniteSet(1 .. MaxConnections)
        /\ Cardinality(1 .. MaxConnections)
             = IF 1 > MaxConnections THEN 0 ELSE MaxConnections - 1 + 1
    BY <2>1, FS_Interval
  <2> QED BY <2>1, <2>2 DEF Slot
<1>2. Connected \in SUBSET Slot BY DEF Connected
<1> QED BY <1>1, <1>2, FS_Subset

(* There is a place in the table, and a descriptor for it.                 *)
LEMMA PlaceFor ==
  ASSUME TableTyped, TableAgrees, HasRoom
  PROVE  /\ Lowest(Slot \ Connected) \in Slot \ Connected
         /\ Lowest({fd \in Fd : sock[fd] = NULL}) \in {fd \in Fd : sock[fd] = NULL}
<1>1. Cardinality(Connected) < MaxConnections
  BY DEF HasRoom, TableAgrees
<1>2. Slot \ Connected # {}
  <2> SUFFICES ASSUME Slot \ Connected = {} PROVE FALSE OBVIOUS
  <2>1. Connected = Slot BY ConnectedFinite
  <2>2. MaxConnections < MaxConnections BY <1>1, <2>1, ConnectedFinite
  <2> QED BY <2>2, HttpdAssumption
<1>3. {fd \in Fd : sock[fd] = NULL} # {}
  <2> SUFFICES ASSUME \A fd \in Fd : sock[fd] # NULL PROVE FALSE OBVIOUS
  <2> DEFINE f == [fd \in Fd |-> CHOOSE i \in Connected : slot[i].socket_fd = fd]
  <2>1. \A fd \in Fd : f[fd] \in Connected /\ slot[f[fd]].socket_fd = fd
    BY DEF TableAgrees
  <2>2. f \in [Fd -> Connected] BY <2>1
  <2>3. IsFiniteSet(Fd) /\ Cardinality(Connected) < Cardinality(Fd)
    BY <1>1, ConnectedFinite DEF Fd, Slot
  <2>4. \E x, y \in Fd : x # y /\ f[x] = f[y]
    <3> HIDE DEF f
    <3> QED BY <2>2, <2>3, ConnectedFinite, FS_PigeonHole
  <2> QED BY <2>1, <2>4
<1>4. (Slot \ Connected) \in SUBSET (1 .. MaxConnections) BY DEF Slot
<1>5. {fd \in Fd : sock[fd] = NULL} \in SUBSET (1 .. MaxConnections) BY DEF Fd
<1>6. MaxConnections \in Nat BY HttpdAssumption
<1> QED BY <1>2, <1>3, <1>4, <1>5, <1>6, LowestOf

LEMMA RemovalTable ==
  ASSUME TableTyped, TableAgrees, NEW i \in Connected, RemoveConnection(i)
  PROVE  /\ TableTyped' /\ TableAgrees'
         /\ Connected' = Connected \ {i}
         /\ \A j \in Connected' : slot'[j] = slot[j]
<1> USE DEF RemoveConnection, RemoveLeaving
<1>1. /\ i \in Slot /\ slot[i].socket_fd \in Fd /\ slot[i].user_data \in Conn
      /\ \A j \in Slot : slot'[j] = IF j = i THEN Empty ELSE slot[j]
      /\ slot' = [j \in Slot |-> slot'[j]]
  BY DEF TableTyped, Connected
<1>2. Connected' = Connected \ {i}
  BY <1>1 DEF Connected, Empty
<1>3. \A j \in Connected' : slot'[j] = slot[j]
  BY <1>1, <1>2 DEF Connected
<1>4. open_connections' \in Nat /\ open_connections' = Cardinality(Connected')
  <2>1. Cardinality(Connected') = Cardinality(Connected) - 1
    BY <1>2, ConnectedFinite, FS_RemoveElement
  <2>2. IsFiniteSet(Connected')
    BY <1>2, ConnectedFinite, FS_RemoveElement
  <2>3. Cardinality(Connected') \in Nat BY <2>2, FS_CardinalityType
  <2> QED BY <2>1, <2>3 DEF TableAgrees, TableTyped
<1>5. /\ \A fd \in Fd : sock'[fd] = IF fd = slot[i].socket_fd THEN NULL ELSE sock[fd]
      /\ sock' \in [Fd -> Conn \cup {NULL}]
  BY <1>1 DEF TableTyped
<1>6. /\ \A c \in Conn :
           life'[c] = IF c = slot[i].user_data THEN "destroyed" ELSE life[c]
      /\ life' \in [Conn -> {"none", "live", "destroyed"}]
  BY <1>1 DEF TableTyped
<1>7. TableTyped'
  <2>1. \A j \in Slot : slot'[j] = EntryOf(slot'[j])
    BY <1>1 DEF TableTyped, EntryOf, Empty
  <2>2. \A j \in Connected' : slot'[j].socket_fd \in Fd /\ slot'[j].user_data \in Conn
    BY <1>2, <1>3 DEF TableTyped
  <2> QED BY <1>1, <1>4, <1>5, <1>6, <2>1, <2>2 DEF TableTyped
<1>8. TableAgrees'
  <2>1. \A j \in Connected' : /\ j \in Connected /\ j # i
                              /\ slot'[j].socket_fd = slot[j].socket_fd
                              /\ slot'[j].user_data = slot[j].user_data
                              /\ slot'[j].socket_fd \in Fd
    BY <1>2, <1>3 DEF TableTyped
  <2>2. \A j \in Connected' : sock'[slot'[j].socket_fd] = slot'[j].user_data
    BY <2>1, <1>5 DEF TableAgrees
  <2>3. \A j \in Slot \ Connected' : slot'[j] = Empty
    BY <1>1, <1>2 DEF TableAgrees
  <2>4. /\ \A j, k \in Connected' : slot'[j].socket_fd = slot'[k].socket_fd => j = k
        /\ \A j, k \in Connected' : slot'[j].user_data = slot'[k].user_data => j = k
    BY <2>1 DEF TableAgrees
  <2>5. ASSUME NEW fd \in Fd, sock'[fd] # NULL
        PROVE  \E j \in Connected' : slot'[j].socket_fd = fd
    BY <2>5, <2>1, <1>2, <1>5 DEF TableAgrees
  <2>6. ASSUME NEW c \in Conn
        PROVE  life'[c] = "live" <=> \E j \in Connected' : slot'[j].user_data = c
    BY <2>1, <1>2, <1>6 DEF TableAgrees
  <2> QED BY <1>4, <2>2, <2>3, <2>4, <2>5, <2>6 DEF TableAgrees
<1> QED BY <1>2, <1>3, <1>7, <1>8

(* The request of a slot is put together or cleared.                       *)
RequestChanges(i) ==
  \E r : /\ slot' = [slot EXCEPT ![i].request = r]
         /\ UNCHANGED <<open_connections, sock, life>>

LEMMA RequestTable ==
  ASSUME TableTyped, TableAgrees, NEW i \in Connected, RequestChanges(i)
  PROVE  /\ TableTyped' /\ TableAgrees'
         /\ Connected' = Connected
         /\ \A j \in Connected : /\ slot'[j].socket_fd = slot[j].socket_fd
                                 /\ slot'[j].user_data = slot[j].user_data
<1>1. PICK r : /\ slot' = [slot EXCEPT ![i].request = r]
               /\ UNCHANGED <<open_connections, sock, life>>
  BY DEF RequestChanges
<1>2. /\ i \in Slot
      /\ slot' = [j \in Slot |-> slot'[j]]
      /\ \A j \in Slot \ {i} : slot'[j] = slot[j]
      /\ slot'[i] = [connected |-> slot[i].connected, socket_fd |-> slot[i].socket_fd,
                     user_data |-> slot[i].user_data, request |-> r]
  BY <1>1 DEF TableTyped, Connected, EntryOf
<1>3. \A j \in Slot : /\ slot'[j].connected = slot[j].connected
                      /\ slot'[j].socket_fd = slot[j].socket_fd
                      /\ slot'[j].user_data = slot[j].user_data
                      /\ slot'[j] = EntryOf(slot'[j])
  BY <1>2 DEF TableTyped, EntryOf
<1>4. Connected' = Connected
  BY <1>3 DEF Connected
<1>5. \A j \in Connected : /\ slot'[j].socket_fd = slot[j].socket_fd
                           /\ slot'[j].user_data = slot[j].user_data
  BY <1>3, ConnectedFinite
<1>6. TableTyped'
  BY <1>1, <1>2, <1>3, <1>4, <1>5 DEF TableTyped
<1>7. \A j \in Slot \ Connected' : slot'[j] = Empty
  BY <1>2, <1>4 DEF TableAgrees
<1>8. TableAgrees'
  BY <1>1, <1>4, <1>5, <1>7 DEF TableAgrees
<1> QED BY <1>4, <1>5, <1>6, <1>8
(* A connection is accepted: what is new in the table.                     *)
LEMMA AcceptTable ==
  ASSUME Inv, Accept
  PROVE  /\ TableTyped' /\ TableAgrees'
         /\ \E i \in Slot \ Connected, fd \in Fd :
              /\ Connected' = Connected \cup {i} /\ sock[fd] = NULL
              /\ slot'[i].socket_fd = fd /\ slot'[i].user_data = Head(backlog)
              /\ slot'[i].request = NULL
              /\ \A j \in Connected : slot'[j] = slot[j]
         /\ life' = [life EXCEPT ![Head(backlog)] = "live"]
<1> DEFINE i == Lowest(Slot \ Connected)
           fd == Lowest({x \in Fd : sock[x] = NULL})
           c == Head(backlog)
<1>1. /\ i \in Slot \ Connected /\ fd \in Fd /\ sock[fd] = NULL
      /\ c \in Conn /\ life[c] # "live" /\ open_connections < MaxConnections
  <2>1. backlog # <<>> /\ HasRoom BY DEF Accept, Inv, AtWork
  <2>2. c \in Conn /\ 1 \in DOMAIN backlog /\ c = backlog[1]
    BY <2>1 DEF Inv, WireTyped
  <2>3. life[c] # "live" BY <2>2 DEF Inv, OnePlace
  <2>4. i \in Slot \ Connected /\ fd \in {x \in Fd : sock[x] = NULL}
    BY <2>1, PlaceFor DEF Inv
  <2> QED BY <2>1, <2>2, <2>3, <2>4 DEF HasRoom
<1>2. /\ slot' = [slot EXCEPT ![i] = [@ EXCEPT
                    !.connected = TRUE, !.socket_fd = fd, !.user_data = c]]
      /\ open_connections' = open_connections + 1
      /\ sock' = [sock EXCEPT ![fd] = c]
      /\ life' = [life EXCEPT ![c] = "live"]
  BY DEF Accept
<1> HIDE DEF i, fd, c
<1>3. slot[i] = Empty /\ TableTyped /\ TableAgrees
  BY <1>1 DEF Inv, TableAgrees
<1>4. /\ slot' = [j \in Slot |-> slot'[j]]
      /\ \A j \in Slot \ {i} : slot'[j] = slot[j]
      /\ slot'[i] = [connected |-> TRUE, socket_fd |-> fd, user_data |-> c,
                     request |-> NULL]
  <2>1. PICK e : /\ slot' = [slot EXCEPT ![i] = e]
                 /\ e = [slot[i] EXCEPT !.connected = TRUE, !.socket_fd = fd,
                                        !.user_data = c]
    BY <1>2
  <2>2. e = [connected |-> TRUE, socket_fd |-> fd, user_data |-> c, request |-> NULL]
    <3>1. /\ e.connected = TRUE /\ e.socket_fd = fd /\ e.user_data = c
          /\ e.request = NULL
      BY <1>3, <2>1 DEF Empty
    <3>2. e = EntryOf(e)
      BY <1>3, <2>1 DEF Empty, EntryOf
    <3> QED BY <3>1, <3>2 DEF EntryOf
  <2>3. slot' = [j \in Slot |-> IF j = i THEN e ELSE slot[j]]
    BY <1>3, <2>1 DEF TableTyped
  <2> QED BY <1>1, <2>2, <2>3
<1>5. Connected' = Connected \cup {i}
  BY <1>1, <1>4 DEF Connected
<1>6. \A j \in Connected : slot'[j] = slot[j]
  BY <1>1, <1>4, ConnectedFinite
<1>7. open_connections' \in Nat /\ open_connections' = Cardinality(Connected')
  <2>1. Cardinality(Connected') = Cardinality(Connected) + 1
    BY <1>1, <1>5, ConnectedFinite, FS_AddElement
  <2> QED BY <1>2, <1>3, <2>1 DEF TableAgrees, TableTyped
<1>8. /\ \A x \in Fd : sock'[x] = IF x = fd THEN c ELSE sock[x]
      /\ sock' \in [Fd -> Conn \cup {NULL}]
  BY <1>1, <1>2, <1>3 DEF TableTyped
<1>9. /\ \A x \in Conn : life'[x] = IF x = c THEN "live" ELSE life[x]
      /\ life' \in [Conn -> {"none", "live", "destroyed"}]
  BY <1>1, <1>2, <1>3 DEF TableTyped
<1>10. TableTyped'
  <2>1. \A j \in Slot : slot'[j] = EntryOf(slot'[j])
    BY <1>3, <1>4 DEF TableTyped, EntryOf
  <2>2. \A j \in Connected' : slot'[j].socket_fd \in Fd /\ slot'[j].user_data \in Conn
    BY <1>1, <1>3, <1>4, <1>5, <1>6 DEF TableTyped
  <2> QED BY <1>4, <1>7, <1>8, <1>9, <2>1, <2>2 DEF TableTyped
<1>11. \A j \in Connected : /\ slot[j].socket_fd # fd /\ slot[j].user_data # c
                            /\ slot[j].socket_fd \in Fd /\ slot[j].user_data \in Conn
  <2> SUFFICES ASSUME NEW j \in Connected
               PROVE  /\ slot[j].socket_fd # fd /\ slot[j].user_data # c
                      /\ slot[j].socket_fd \in Fd /\ slot[j].user_data \in Conn
    OBVIOUS
  <2>1. slot[j].socket_fd \in Fd /\ slot[j].user_data \in Conn
    BY <1>3 DEF TableTyped
  <2>2. sock[slot[j].socket_fd] = slot[j].user_data
    BY <1>3 DEF TableAgrees
  <2>3. slot[j].socket_fd # fd
    BY <1>1, <2>1, <2>2, HttpdAssumption
  <2>4. life[slot[j].user_data] = "live"
    BY <1>3, <2>1 DEF TableAgrees
  <2> QED BY <1>1, <2>1, <2>3, <2>4
<1>12. TableAgrees'
  <2>1. slot'[i].socket_fd = fd /\ slot'[i].user_data = c BY <1>4
  <2>2. \A j \in Connected' : sock'[slot'[j].socket_fd] = slot'[j].user_data
    BY <2>1, <1>1, <1>3, <1>5, <1>6, <1>8, <1>11 DEF TableAgrees
  <2>3. \A j \in Slot \ Connected' : slot'[j] = Empty
    BY <1>3, <1>4, <1>5 DEF TableAgrees
  <2>4. /\ \A j, k \in Connected' : slot'[j].socket_fd = slot'[k].socket_fd => j = k
        /\ \A j, k \in Connected' : slot'[j].user_data = slot'[k].user_data => j = k
    BY <2>1, <1>3, <1>5, <1>6, <1>11 DEF TableAgrees
  <2>5. ASSUME NEW x \in Fd, sock'[x] # NULL
        PROVE  \E j \in Connected' : slot'[j].socket_fd = x
    BY <2>1, <2>5, <1>3, <1>5, <1>6, <1>8 DEF TableAgrees
  <2>6. ASSUME NEW x \in Conn
        PROVE  life'[x] = "live" <=> \E j \in Connected' : slot'[j].user_data = x
    BY <2>1, <1>3, <1>5, <1>6, <1>9, <1>11 DEF TableAgrees
  <2> QED BY <1>7, <2>2, <2>3, <2>4, <2>5, <2>6 DEF TableAgrees
<1>13. life' = [life EXCEPT ![Head(backlog)] = "live"] BY DEF Accept
<1>14. /\ slot'[i].socket_fd = fd /\ slot'[i].user_data = Head(backlog)
       /\ slot'[i].request = NULL
  BY <1>4 DEF c
<1> QED BY <1>1, <1>5, <1>6, <1>10, <1>12, <1>13, <1>14

-----------------------------------------------------------------------------
(* The changes on the wire.                                                *)

(* A connection that is not waiting changes, and stays what it is.         *)
TcpChanges(c) ==
  \E t : /\ tcp' = [tcp EXCEPT ![c] = t] /\ t.state = tcp[c].state
         /\ t = TcpOf(t) /\ IsSeq(t.unread)

LEMMA WireChanges ==
  ASSUME WireTyped, OnePlace, NEW c \in Conn, TcpChanges(c), UNCHANGED <<life, backlog>>
  PROVE  /\ WireTyped' /\ OnePlace'
         /\ \A d \in Conn \ {c} : tcp'[d] = tcp[d]
<1>1. PICK t : /\ tcp' = [tcp EXCEPT ![c] = t] /\ t.state = tcp[c].state
               /\ t = TcpOf(t) /\ IsSeq(t.unread)
  BY DEF TcpChanges
<1>2. /\ tcp' = [d \in Conn |-> tcp'[d]]
      /\ \A d \in Conn : tcp'[d] = IF d = c THEN t ELSE tcp[d]
  BY <1>1 DEF WireTyped
<1>3. \A d \in Conn : tcp'[d].state = tcp[d].state BY <1>1, <1>2
<1>4. WireTyped' BY <1>1, <1>2 DEF WireTyped
<1>5. \A k \in DOMAIN backlog : backlog[k] \in Conn BY DEF WireTyped
<1>6. OnePlace' BY <1>3, <1>5 DEF OnePlace
<1> QED BY <1>2, <1>4, <1>6

LEMMA RemovalWire ==
  ASSUME TableTyped, TableAgrees, WireTyped, OnePlace,
         NEW i \in Connected, RemoveConnection(i), UNCHANGED backlog
  PROVE  /\ WireTyped' /\ OnePlace'
         /\ \A j \in Connected' : tcp'[slot'[j].user_data] = tcp[slot[j].user_data]
<1> DEFINE c == slot[i].user_data
<1>1. c \in Conn /\ life[c] = "live" /\ tcp[c].state = "accepted"
  BY DEF TableTyped, TableAgrees, OnePlace
<1>2. tcp' = [tcp EXCEPT ![c] = Gone] /\ life' = [life EXCEPT ![c] = "destroyed"]
  BY DEF RemoveConnection, RemoveLeaving
<1>3. \A j \in Connected' : /\ slot'[j] = slot[j] /\ slot[j].user_data # c
                            /\ slot[j].user_data \in Conn
  <2>1. Connected' = Connected \ {i} /\ \A j \in Connected' : slot'[j] = slot[j]
    BY RemovalTable
  <2>2. \A j \in Connected : slot[j].user_data = c => j = i
    BY DEF TableAgrees
  <2>3. \A j \in Connected : slot[j].user_data \in Conn
    BY DEF TableTyped
  <2> QED BY <2>1, <2>2, <2>3
<1> HIDE DEF c
<1>4. /\ tcp' = [d \in Conn |-> tcp'[d]]
      /\ \A d \in Conn : tcp'[d] = IF d = c THEN Gone ELSE tcp[d]
  BY <1>1, <1>2 DEF WireTyped
<1>5. \A d \in Conn : life'[d] = "live" => life[d] = "live" /\ d # c
  BY <1>1, <1>2 DEF TableTyped
<1>6. WireTyped' BY <1>4, EmptyIsSeq DEF WireTyped, Gone, TcpOf
<1>7. \A k \in DOMAIN backlog : backlog[k] \in Conn /\ backlog[k] # c
  <2>1. \A k \in DOMAIN backlog : backlog[k] \in Conn BY DEF WireTyped
  <2>2. \A k \in DOMAIN backlog : tcp[backlog[k]].state = "backlog" BY DEF OnePlace
  <2> QED BY <1>1, <2>1, <2>2
<1>8. OnePlace' BY <1>4, <1>5, <1>7 DEF OnePlace
<1> QED BY <1>3, <1>4, <1>6, <1>8

LEMMA TableKept ==
  ASSUME TableTyped, TableAgrees, UNCHANGED table
  PROVE  TableTyped' /\ TableAgrees' /\ Connected' = Connected
<1>1. Connected' = Connected BY DEF table, Connected
<1>2. UNCHANGED <<slot, open_connections, sock, life>> BY DEF table
<1>3. TableTyped' BY <1>1, <1>2 DEF TableTyped
<1>4. TableAgrees' BY <1>1, <1>2 DEF TableAgrees
<1> QED BY <1>1, <1>3, <1>4

LEMMA WireKept ==
  ASSUME WireTyped, OnePlace, UNCHANGED <<tcp, backlog, life>>
  PROVE  WireTyped' /\ OnePlace'
BY DEF WireTyped, OnePlace

(* The head of the backlog leaves it.                                      *)
LEMMA TailOfBacklog ==
  ASSUME WireTyped, OnePlace, backlog # <<>>, backlog' = Tail(backlog)
  PROVE  /\ backlog' \in Seq(Conn) /\ Head(backlog) \in Conn
         /\ tcp[Head(backlog)].state = "backlog"
         /\ \A k \in DOMAIN backlog' : /\ backlog'[k] \in Conn \ {Head(backlog)}
                                      /\ tcp[backlog'[k]].state = "backlog"
         /\ \A k, l \in DOMAIN backlog' : backlog'[k] = backlog'[l] => k = l
<1>1. backlog \in Seq(Conn) BY DEF WireTyped
<1>2. /\ backlog' \in Seq(Conn) /\ Len(backlog') = Len(backlog) - 1
      /\ \A k \in 1 .. Len(backlog') : backlog'[k] = backlog[k + 1]
  BY <1>1
<1>3. Len(backlog) \in Nat \ {0} /\ DOMAIN backlog = 1 .. Len(backlog)
  BY <1>1
<1>4. Head(backlog) = backlog[1] /\ 1 \in DOMAIN backlog
  BY <1>1, <1>3
<1>5. DOMAIN backlog' = 1 .. Len(backlog') BY <1>2
<1>6. \A k \in DOMAIN backlog' : k \in Int /\ k + 1 \in DOMAIN backlog /\ k + 1 # 1
  BY <1>2, <1>3, <1>5
<1>7. \A k \in DOMAIN backlog : backlog[k] \in Conn BY <1>1
<1> QED BY <1>2, <1>4, <1>5, <1>6, <1>7 DEF OnePlace
-----------------------------------------------------------------------------
(* Every step keeps the invariant.                                         *)

(* Steps that leave the table and the connections alone, and that do not   *)
(* begin to serve.                                                         *)
Idle == Serving \ {"accept", "serve", "handle"}

Waits == \/ UNCHANGED <<thread, rfds, at>>
         \/ thread' \in Idle
         \/ thread' \notin Serving /\ Connected = {}

LEMMA QuietStep ==
  ASSUME Inv, UNCHANGED <<table, tcp, backlog>>, at' \in Nat, Waits
  PROVE  Inv'
<1>1. TableTyped' /\ TableAgrees' /\ Connected' = Connected
  BY TableKept DEF Inv
<1>2. UNCHANGED <<slot, open_connections, sock, life>> BY DEF table
<1>3. WireTyped' /\ OnePlace' BY <1>2, WireKept DEF Inv
<1>4. CASE thread' = thread /\ rfds' = rfds /\ at' = at
  <2>1. AtWork' BY <1>1, <1>2, <1>4 DEF Inv, AtWork, HasRoom
  <2>2. AheadIncoming' BY <1>1, <1>2, <1>4 DEF Inv, AheadIncoming, Ahead, Incoming
  <2> QED BY <1>1, <1>3, <2>1, <2>2 DEF Inv
<1>5. CASE (thread' \in Idle) \/ (thread' \notin Serving /\ Connected = {})
  <2>1. thread' \notin {"accept", "serve", "handle"} BY <1>5 DEF Idle, Serving
  <2>2. AtWork' BY <1>1, <1>5, <2>1 DEF AtWork, Idle
  <2>3. AheadIncoming' BY <2>1 DEF AheadIncoming, Ahead
  <2> QED BY <1>1, <1>3, <2>2, <2>3 DEF Inv
<1> QED BY <1>4, <1>5 DEF Waits

LEMMA ApplicationInv == ASSUME Inv, Application PROVE Inv'
<1>1. at \in Nat BY DEF Inv, AtWork
<1>2. UNCHANGED <<table, tcp, backlog, at>>
  BY DEF Application, Start, Stop, StopReturns, DestroyStopped, loop, net
<1>3. UNCHANGED <<thread, rfds, at>> \/ thread' = "select"
  BY DEF Application, Start, Stop, StopReturns, DestroyStopped, loop
<1> QED BY <1>1, <1>2, <1>3, QuietStep DEF Waits, Idle, Serving

LEMMA LeavingInv ==
  ASSUME Inv, LeaveLoop \/ ServedAll \/ ClearRunning \/ Return
  PROVE  Inv'
<1>1. at \in Nat /\ (thread \notin Serving => Connected = {}) BY DEF Inv, AtWork
<1>2. UNCHANGED <<table, tcp, backlog>> /\ at' \in Nat
  BY <1>1 DEF LeaveLoop, ServedAll, ClearRunning, Return, loop, net
<1>3. \/ thread' \in Idle
      \/ thread' \notin Serving /\ Connected = {}
  BY <1>1 DEF LeaveLoop, ServedAll, ClearRunning, Return, Idle, Serving
<1> QED BY <1>2, <1>3, QuietStep DEF Waits

(* What select reports can be accepted and received.                       *)
LEMMA SelectInv == ASSUME Inv, Select PROVE Inv'
<1>1. /\ UNCHANGED <<table, tcp, backlog, at>> /\ rfds' = Reported
      /\ thread' \in {"select", "accept", "serve"}
      /\ thread' = "accept" => Acceptable(Reported)
  BY DEF Select, net
<1>2. TableTyped' /\ TableAgrees' /\ Connected' = Connected
  BY <1>1, TableKept DEF Inv
<1>3. UNCHANGED <<slot, open_connections, sock, life>> BY <1>1 DEF table
<1>4. WireTyped' /\ OnePlace' BY <1>1, <1>3, WireKept DEF Inv
<1>5. \A fd \in Fd : fd # server_fd BY HttpdAssumption DEF Fd, server_fd
<1>6. AtWork'
  <2>1. thread' = "accept" => backlog # <<>> /\ HasRoom
    BY <1>1 DEF Acceptable, Reported, Readable
  <2>2. \A fd \in rfds' \cap Fd : sock[fd] # NULL
    BY <1>1, <1>5 DEF Reported, Readable
  <2> QED BY <1>1, <1>2, <1>3, <2>1, <2>2 DEF Inv, AtWork, HasRoom, Serving
<1>7. AheadIncoming'
  <2> SUFFICES ASSUME NEW i \in Connected, slot[i].socket_fd \in Reported
               PROVE  Incoming(slot[i].user_data)
    BY <1>1, <1>2, <1>3 DEF AheadIncoming, Ahead, Incoming
  <2>1. slot[i].socket_fd \in Fd /\ sock[slot[i].socket_fd] = slot[i].user_data
    BY DEF Inv, TableTyped, TableAgrees
  <2> QED BY <1>5, <2>1 DEF Reported, Readable
<1> QED BY <1>2, <1>4, <1>6, <1>7 DEF Inv

LEMMA AcceptInv == ASSUME Inv, Accept PROVE Inv'
<1> DEFINE c == Head(backlog)
<1>1. PICK i \in Slot \ Connected, fd \in Fd :
        /\ Connected' = Connected \cup {i} /\ sock[fd] = NULL
        /\ slot'[i].socket_fd = fd /\ slot'[i].user_data = Head(backlog)
        /\ \A j \in Connected : slot'[j] = slot[j]
  BY AcceptTable
<1>2. TableTyped' /\ TableAgrees' /\ life' = [life EXCEPT ![c] = "live"]
  BY AcceptTable
<1>3. /\ thread = "accept" /\ thread' = "serve" /\ UNCHANGED <<rfds, at>>
      /\ backlog # <<>> /\ backlog' = Tail(backlog) /\ at \in Nat
      /\ \A x \in rfds \cap Fd : sock[x] # NULL
      /\ tcp' = [tcp EXCEPT ![c].state = "accepted"]
  BY DEF Accept, loop, Inv, AtWork
<1>4. WireTyped /\ OnePlace /\ TableTyped /\ TableAgrees /\ AheadIncoming
  BY DEF Inv
<1>5. /\ backlog' \in Seq(Conn) /\ c \in Conn /\ tcp[c].state = "backlog"
      /\ \A k \in DOMAIN backlog' : /\ backlog'[k] \in Conn \ {c}
                                    /\ tcp[backlog'[k]].state = "backlog"
      /\ \A k, l \in DOMAIN backlog' : backlog'[k] = backlog'[l] => k = l
  BY <1>3, <1>4, TailOfBacklog
<1> HIDE DEF c
<1>6. /\ tcp' = [d \in Conn |-> tcp'[d]]
      /\ \A d \in Conn \ {c} : tcp'[d] = tcp[d]
      /\ tcp'[c] = [state |-> "accepted", left |-> tcp[c].left,
                    unread |-> tcp[c].unread, closed |-> tcp[c].closed]
  BY <1>3, <1>4, <1>5 DEF WireTyped, TcpOf
<1>7. WireTyped'
  BY <1>4, <1>5, <1>6 DEF WireTyped, TcpOf
<1>8. OnePlace'
  <2>1. \A d \in Conn : life'[d] = "live" => d = c \/ life[d] = "live"
    BY <1>2, <1>4 DEF TableTyped
  <2>2. \A d \in Conn : life'[d] = "live" => tcp'[d].state = "accepted"
    BY <1>4, <1>6, <2>1 DEF OnePlace
  <2>3. \A k \in DOMAIN backlog' : tcp'[backlog'[k]].state = "backlog"
    BY <1>5, <1>6
  <2> QED BY <1>5, <2>2, <2>3 DEF OnePlace
<1>9. AtWork' BY <1>3 DEF AtWork, Serving
<1>10. AheadIncoming'
  <2> SUFFICES ASSUME NEW j \in Connected', slot'[j].socket_fd \in rfds
               PROVE  \/ tcp'[slot'[j].user_data].unread # <<>>
                      \/ tcp'[slot'[j].user_data].closed # "no"
    BY <1>3 DEF AheadIncoming, Ahead, Incoming
  <2>1. j # i BY <1>1, <1>3
  <2>2. j \in Connected /\ slot'[j] = slot[j] BY <1>1, <2>1
  <2>3. Incoming(slot[j].user_data) BY <1>3, <1>4, <2>2 DEF AheadIncoming, Ahead
  <2>4. slot[j].user_data \in Conn BY <1>4, <2>2 DEF TableTyped
  <2>5. \A d \in Conn : tcp'[d].unread = tcp[d].unread /\ tcp'[d].closed = tcp[d].closed
    BY <1>6
  <2> QED BY <2>2, <2>3, <2>4, <2>5 DEF Incoming
<1> QED BY <1>2, <1>7, <1>8, <1>9, <1>10 DEF Inv

LEMMA AcceptFailsInv == ASSUME Inv, AcceptFails PROVE Inv'
<1>1. /\ thread = "accept" /\ UNCHANGED <<table, at>>
      /\ \/ thread' = "cleanup" /\ UNCHANGED <<backlog, tcp>>
         \/ /\ thread' = "select"
            /\ tcp' = [tcp EXCEPT ![Head(backlog)] = Gone] /\ backlog' = Tail(backlog)
      /\ backlog # <<>> /\ at \in Nat
  BY DEF AcceptFails, Inv, AtWork
<1>2. CASE thread' = "cleanup"
  BY <1>1, <1>2, QuietStep DEF Waits, Idle, Serving
<1>3. CASE thread' = "select"
  <2>1. TableTyped' /\ TableAgrees' /\ Connected' = Connected /\ UNCHANGED life
    BY <1>1, TableKept DEF Inv, table
  <2>2. WireTyped /\ OnePlace BY DEF Inv
  <2> DEFINE c == Head(backlog)
  <2>3. /\ backlog' \in Seq(Conn) /\ c \in Conn /\ tcp[c].state = "backlog"
        /\ \A k \in DOMAIN backlog' : /\ backlog'[k] \in Conn \ {c}
                                      /\ tcp[backlog'[k]].state = "backlog"
        /\ \A k, l \in DOMAIN backlog' : backlog'[k] = backlog'[l] => k = l
    BY <1>1, <1>3, <2>2, TailOfBacklog
  <2>4. /\ tcp' = [d \in Conn |-> tcp'[d]]
        /\ \A d \in Conn : tcp'[d] = IF d = c THEN Gone ELSE tcp[d]
    BY <1>1, <1>3, <2>2, <2>3 DEF WireTyped
  <2> HIDE DEF c
  <2>5. WireTyped' BY <2>2, <2>3, <2>4, EmptyIsSeq DEF WireTyped, TcpOf, Gone
  <2>6. OnePlace' BY <2>1, <2>2, <2>3, <2>4 DEF OnePlace
  <2>7. AtWork' /\ AheadIncoming'
    BY <1>1, <1>3 DEF AtWork, AheadIncoming, Ahead, Serving
  <2> QED BY <2>1, <2>5, <2>6, <2>7 DEF Inv
<1> QED BY <1>1, <1>2, <1>3
(* The slot whose turn it is: the loop goes on behind it.                  *)
LEMMA InTurnSlot ==
  ASSUME Inv, NEW i \in Slot, NEW c \in Conn, InTurn(i, c)
  PROVE  /\ i \in Connected /\ i \in Nat /\ c = slot[i].user_data
         /\ thread = "serve" /\ at <= i /\ Incoming(c)
<1>1. /\ thread = "serve" /\ Turn # {} /\ i = Lowest(Turn)
      /\ c = sock[slot[i].socket_fd] /\ Incoming(c)
  BY DEF InTurn
<1>2. Turn \in SUBSET (1 .. MaxConnections) /\ MaxConnections \in Nat
  BY HttpdAssumption DEF Turn, Slot
<1>3. i \in Turn BY <1>1, <1>2, LowestOf
<1>4. i \in Connected /\ i >= at /\ at \in Nat /\ i \in Nat
  BY <1>3 DEF Turn, Connected, Slot, Inv, AtWork
<1>5. sock[slot[i].socket_fd] = slot[i].user_data
  BY <1>4 DEF Inv, TableAgrees
<1> QED BY <1>1, <1>4, <1>5

(* The loop goes on from i: what was ahead behind it still is.             *)
GoesOn(i) ==
  /\ at <= i /\ UNCHANGED rfds
  /\ \/ thread = "serve"
     \/ thread = "handle" /\ at = i
  /\ \/ thread' = "serve" /\ at' = i + 1
     \/ thread' = "handle" /\ at' = i

(* A connection is removed, in the loop or at the end of the thread.       *)
LEMMA RemovalInv ==
  ASSUME Inv, NEW i \in Connected, RemoveConnection(i), UNCHANGED backlog,
         \/ GoesOn(i) /\ thread' = "serve"
         \/ thread = "cleanup" /\ UNCHANGED <<thread, rfds, at>>
  PROVE  Inv'
<1>1. /\ TableTyped' /\ TableAgrees'
      /\ Connected' = Connected \ {i}
      /\ \A j \in Connected' : slot'[j] = slot[j]
  BY RemovalTable DEF Inv
<1>2. /\ WireTyped' /\ OnePlace'
      /\ \A j \in Connected' : tcp'[slot'[j].user_data] = tcp[slot[j].user_data]
  BY RemovalWire DEF Inv
<1>3. i \in Nat /\ Connected \in SUBSET Nat /\ at \in Nat
  BY DEF Connected, Slot, Inv, AtWork
<1>4. at' \in Nat /\ thread' \in {"serve", "cleanup"}
  BY <1>3 DEF GoesOn
<1>5. AtWork' BY <1>4 DEF AtWork, Serving
<1>6. AheadIncoming'
  <2> SUFFICES ASSUME NEW j \in Connected', slot'[j].socket_fd \in rfds',
                      thread' = "serve", j >= at'
               PROVE  \/ tcp'[slot'[j].user_data].unread # <<>>
                      \/ tcp'[slot'[j].user_data].closed # "no"
    BY <1>4 DEF AheadIncoming, Ahead, Incoming
  <2>1. GoesOn(i) OBVIOUS
  <2>2. j \in Connected /\ slot'[j] = slot[j] /\ UNCHANGED rfds /\ j \in Nat
    BY <1>1, <1>3, <2>1 DEF GoesOn
  <2>3. j \in Ahead BY <1>3, <2>1, <2>2 DEF GoesOn, Ahead
  <2>4. Incoming(slot[j].user_data) BY <2>3 DEF Inv, AheadIncoming
  <2> QED BY <1>2, <2>4 DEF Incoming
<1> QED BY <1>1, <1>2, <1>5, <1>6 DEF Inv

(* A request grows or is cleared, and its connection may change.           *)
LEMMA RequestInv ==
  ASSUME Inv, NEW i \in Connected, RequestChanges(i), UNCHANGED backlog, GoesOn(i),
         UNCHANGED tcp \/ TcpChanges(slot[i].user_data)
  PROVE  Inv'
<1>1. /\ TableTyped' /\ TableAgrees' /\ Connected' = Connected
      /\ \A j \in Connected : /\ slot'[j].socket_fd = slot[j].socket_fd
                              /\ slot'[j].user_data = slot[j].user_data
  BY RequestTable DEF Inv
<1>2. UNCHANGED <<sock, life>> BY DEF RequestChanges
<1>3. slot[i].user_data \in Conn BY DEF Inv, TableTyped
<1>4. /\ WireTyped' /\ OnePlace'
      /\ \A d \in Conn \ {slot[i].user_data} : tcp'[d] = tcp[d]
  <2>1. WireTyped /\ OnePlace BY DEF Inv
  <2>2. CASE UNCHANGED tcp BY <1>2, <2>1, <2>2, WireKept
  <2>3. CASE TcpChanges(slot[i].user_data) BY <1>2, <1>3, <2>1, <2>3, WireChanges
  <2> QED BY <2>2, <2>3
<1>5. i \in Nat /\ Connected \in SUBSET Nat /\ at \in Nat
  BY DEF Connected, Slot, Inv, AtWork
<1>6. /\ at' \in Nat /\ thread' \in {"serve", "handle"}
      /\ thread' = "handle" => at' = i
  BY <1>5 DEF GoesOn
<1>7. AtWork' BY <1>1, <1>6 DEF AtWork, Serving
<1>8. AheadIncoming'
  <2> SUFFICES ASSUME NEW j \in Connected', slot'[j].socket_fd \in rfds',
                      \/ thread' = "serve" /\ j >= at'
                      \/ thread' = "handle" /\ j > at'
               PROVE  \/ tcp'[slot'[j].user_data].unread # <<>>
                      \/ tcp'[slot'[j].user_data].closed # "no"
    BY <1>6 DEF AheadIncoming, Ahead, Incoming
  <2>1. j \in Connected /\ j \in Nat /\ UNCHANGED rfds
    BY <1>1, <1>5 DEF GoesOn
  <2>2. j > i BY <1>5, <2>1 DEF GoesOn
  <2>3. j \in Ahead BY <1>1, <1>5, <2>1, <2>2 DEF GoesOn, Ahead
  <2>4. Incoming(slot[j].user_data) BY <2>3 DEF Inv, AheadIncoming
  <2>5. slot[j].user_data \in Conn \ {slot[i].user_data}
    <3>1. slot[j].user_data \in Conn BY <2>1 DEF Inv, TableTyped
    <3>2. slot[j].user_data = slot[i].user_data => j = i
      BY <2>1 DEF Inv, TableAgrees
    <3>3. j # i BY <1>5, <2>1, <2>2
    <3> QED BY <3>1, <3>2, <3>3
  <2> QED BY <1>1, <1>4, <2>1, <2>4, <2>5 DEF Incoming
<1> QED BY <1>1, <1>4, <1>7, <1>8 DEF Inv

(* A field other than the state of a connection that is not waiting.       *)
FieldSet(c, x) == \/ tcp' = [tcp EXCEPT ![c].unread = x] /\ IsSeq(x)
                  \/ tcp' = [tcp EXCEPT ![c].left = x]
                  \/ tcp' = [tcp EXCEPT ![c].closed = x]

LEMMA FieldChanges ==
  ASSUME WireTyped, NEW c \in Conn, NEW x, FieldSet(c, x)
  PROVE  TcpChanges(c)
<1> DEFINE t == [state |-> tcp[c].state, left |-> tcp[c].left,
                 unread |-> tcp[c].unread, closed |-> tcp[c].closed]
<1>1. tcp[c] = t /\ IsSeq(t.unread) BY DEF WireTyped, TcpOf
<1>2. \/ tcp' = [tcp EXCEPT ![c] = [t EXCEPT !.unread = x]] /\ IsSeq(x)
      \/ tcp' = [tcp EXCEPT ![c] = [t EXCEPT !.left = x]]
      \/ tcp' = [tcp EXCEPT ![c] = [t EXCEPT !.closed = x]]
  BY <1>1 DEF FieldSet
<1> QED BY <1>1, <1>2 DEF TcpChanges, TcpOf
LEMMA ParsedChanges ==
  ASSUME NEW i, NEW r, Parsed(i, r)
  PROVE  /\ RequestChanges(i)
         /\ \/ thread' = "handle" /\ at' = i
            \/ thread' = thread /\ at' = i + 1
BY DEF Parsed, RequestChanges

(* What is left of a sequence when its beginning is taken.                 *)
LEMMA RestIsSeq ==
  ASSUME NEW s, IsSeq(s)
  PROVE  IsSeq(SubSeq(s, Min({BufferSize, Len(s)}) + 1, Len(s)))
<1>1. PICK S : s \in Seq(S) BY DEF IsSeq
<1>2. Len(s) \in Nat /\ BufferSize \in Nat BY <1>1, HttpdAssumption
<1> DEFINE m == Min({BufferSize, Len(s)})
<1>3. m \in Nat /\ m <= Len(s)
  BY <1>2 DEF Min
<1> HIDE DEF m
<1>4. m + 1 \in Nat /\ 1 <= m + 1 /\ \A k \in 1 .. Len(s) : s[k] \in S
  BY <1>1, <1>2, <1>3
<1>5. SubSeq(s, m + 1, Len(s)) \in Seq(S)
  BY <1>1, <1>2, <1>3, <1>4
<1> QED BY <1>5 DEF IsSeq, m

LEMMA ReceiveInv ==
  ASSUME Inv, NEW i \in Slot, NEW c \in Conn, Receive(i, c)
  PROVE  Inv'
<1> DEFINE rest == SubSeq(tcp[c].unread, Min({BufferSize, Len(tcp[c].unread)}) + 1,
                          Len(tcp[c].unread))
<1>1. /\ InTurn(i, c) /\ UNCHANGED <<rfds, backlog>>
      /\ \E r : Parsed(i, r)
      /\ tcp' = [tcp EXCEPT ![c].unread = rest]
  BY DEF Receive
<1>2. /\ i \in Connected /\ i \in Nat /\ c = slot[i].user_data
      /\ thread = "serve" /\ at <= i
  BY <1>1, InTurnSlot
<1>3. /\ RequestChanges(i)
      /\ \/ thread' = "handle" /\ at' = i
         \/ thread' = thread /\ at' = i + 1
  BY <1>1, ParsedChanges
<1>4. GoesOn(i) BY <1>1, <1>2, <1>3 DEF GoesOn
<1>5. WireTyped BY DEF Inv
<1>6. IsSeq(rest) BY <1>5, RestIsSeq DEF WireTyped
<1>7. FieldSet(c, rest) BY <1>1, <1>6 DEF FieldSet
<1>8. TcpChanges(slot[i].user_data) BY <1>2, <1>5, <1>7, FieldChanges
<1> QED BY <1>1, <1>2, <1>3, <1>4, <1>8, RequestInv

LEMMA ClosedInv ==
  ASSUME Inv, NEW i \in Slot, NEW c \in Conn, Closed(i, c)
  PROVE  Inv'
<1>1. /\ InTurn(i, c) /\ RemoveConnection(i) /\ at' = i + 1
      /\ UNCHANGED <<thread, rfds, backlog>>
  BY DEF Closed
<1>2. i \in Connected /\ thread = "serve" /\ at <= i
  BY <1>1, InTurnSlot
<1>3. GoesOn(i) /\ thread' = "serve" BY <1>1, <1>2 DEF GoesOn
<1> QED BY <1>1, <1>2, <1>3, RemovalInv

LEMMA BrokenOffInv ==
  ASSUME Inv, NEW i \in Slot, NEW c \in Conn, BrokenOff(i, c)
  PROVE  Inv'
<1>1. InTurn(i, c) /\ UNCHANGED <<rfds, backlog>>
  BY DEF BrokenOff
<1>2. /\ i \in Connected /\ c = slot[i].user_data
      /\ thread = "serve" /\ at <= i
  BY <1>1, InTurnSlot
<1>3. CASE RemoveConnection(i) /\ at' = i + 1 /\ UNCHANGED thread
  <2>1. GoesOn(i) /\ thread' = "serve" BY <1>1, <1>2, <1>3 DEF GoesOn
  <2> QED BY <1>1, <1>2, <1>3, <2>1, RemovalInv
<1>4. CASE /\ \E r : Parsed(i, r)
           /\ tcp' = [tcp EXCEPT ![c].closed = "fin"]
  <2>1. /\ RequestChanges(i)
        /\ \/ thread' = "handle" /\ at' = i
           \/ thread' = thread /\ at' = i + 1
    BY <1>4, ParsedChanges
  <2>2. GoesOn(i) BY <1>1, <1>2, <2>1 DEF GoesOn
  <2>3. FieldSet(c, "fin") BY <1>4 DEF FieldSet
  <2>4. TcpChanges(slot[i].user_data) BY <1>2, <2>3, FieldChanges DEF Inv
  <2> QED BY <1>1, <1>2, <2>1, <2>2, <2>4, RequestInv
<1> QED BY <1>3, <1>4 DEF BrokenOff

(* A request is answered, and its connection closed if it asks for that.   *)
LEMMA HandleInv == ASSUME Inv, Handle PROVE Inv'
<1> DEFINE c == slot[at].user_data
<1>1. /\ thread = "handle" /\ thread' = "serve" /\ at' = at + 1
      /\ UNCHANGED <<rfds, backlog>>
  BY DEF Handle
<1>2. at \in Connected /\ at \in Nat BY <1>1 DEF Inv, AtWork
<1>3. c \in Conn BY <1>2 DEF Inv, TableTyped
<1>4. GoesOn(at) /\ thread' = "serve" BY <1>1, <1>2 DEF GoesOn
<1>5. \/ RemoveConnection(at)
      \/ /\ slot' = [slot EXCEPT ![at].request = NULL]
         /\ UNCHANGED <<open_connections, sock, life>>
         /\ \/ UNCHANGED tcp
            \/ \E n : tcp' = [tcp EXCEPT ![c].left = NextRequest(c, n)]
  BY DEF Handle, Answer, NoAnswer
<1>6. CASE RemoveConnection(at)
  BY <1>1, <1>2, <1>4, <1>6, RemovalInv
<1>7. CASE /\ slot' = [slot EXCEPT ![at].request = NULL]
           /\ UNCHANGED <<open_connections, sock, life>>
           /\ \/ UNCHANGED tcp
              \/ \E n : tcp' = [tcp EXCEPT ![c].left = NextRequest(c, n)]
  <2>1. RequestChanges(at) BY <1>7 DEF RequestChanges
  <2>2. UNCHANGED tcp \/ TcpChanges(c)
    <3>1. ASSUME NEW n, tcp' = [tcp EXCEPT ![c].left = NextRequest(c, n)]
          PROVE  TcpChanges(c)
      <4>1. FieldSet(c, NextRequest(c, n)) BY <3>1 DEF FieldSet
      <4> QED BY <1>3, <4>1, FieldChanges DEF Inv
    <3> QED BY <1>7, <3>1
  <2> QED BY <1>1, <1>2, <1>4, <2>1, <2>2, RequestInv
<1> QED BY <1>5, <1>6, <1>7

LEMMA CleanupInv == ASSUME Inv, Cleanup PROVE Inv'
<1>1. /\ thread = "cleanup" /\ UNCHANGED <<thread, rfds, at, backlog>>
      /\ Connected # {} /\ RemoveConnection(Lowest(Connected))
  BY DEF Cleanup, loop
<1>2. Connected \in SUBSET (1 .. MaxConnections) /\ MaxConnections \in Nat
  BY HttpdAssumption DEF Connected, Slot
<1>3. Lowest(Connected) \in Connected BY <1>1, <1>2, LowestOf
<1> QED BY <1>1, <1>3, RemovalInv

(* The socket is closed, and with it what waits in its backlog.            *)
LEMMA CloseServerInv == ASSUME Inv, CloseServer PROVE Inv'
<1>1. /\ thread' = "clear" /\ Connected = {} /\ UNCHANGED <<table, at>>
      /\ backlog' = <<>>
      /\ tcp' = [c \in Conn |-> IF c \in ToSet(backlog) THEN Gone ELSE tcp[c]]
  BY DEF CloseServer, loop, Refuse
<1>2. TableTyped' /\ TableAgrees' /\ Connected' = {} /\ UNCHANGED life
  BY <1>1, TableKept DEF Inv, table
<1>3. WireTyped'
  <2>1. <<>> \in Seq(Conn) OBVIOUS
  <2>2. \A c \in Conn : tcp'[c] = TcpOf(tcp'[c]) /\ IsSeq(tcp'[c].unread)
    BY <1>1, EmptyIsSeq DEF Inv, WireTyped, TcpOf, Gone
  <2> QED BY <1>1, <2>1, <2>2 DEF WireTyped
<1>4. OnePlace'
  <2>1. \A c \in Conn : life[c] # "live"
    BY <1>1 DEF Inv, TableAgrees
  <2> QED BY <1>1, <1>2, <2>1 DEF OnePlace
<1>5. at' \in Nat BY <1>1 DEF Inv, AtWork
<1>6. AtWork' /\ AheadIncoming'
  BY <1>1, <1>2, <1>5 DEF AtWork, AheadIncoming, Ahead
<1> QED BY <1>2, <1>3, <1>4, <1>6 DEF Inv
(* A sender connects.                                                      *)
LEMMA ConnectInv == ASSUME Inv, NEW c \in Conn, Connect(c) PROVE Inv'
<1>1. /\ tcp[c].state = "new" /\ tcp' = [tcp EXCEPT ![c].state = "backlog"]
      /\ backlog' = Append(backlog, c)
      /\ UNCHANGED <<thread, table, rfds, at>>
  BY DEF Connect, loop
<1>2. TableTyped' /\ TableAgrees' /\ Connected' = Connected
  BY <1>1, TableKept DEF Inv
<1>3. UNCHANGED <<slot, open_connections, sock, life>> BY <1>1 DEF table
<1>4. /\ tcp' = [d \in Conn |-> tcp'[d]]
      /\ \A d \in Conn \ {c} : tcp'[d] = tcp[d]
      /\ tcp'[c] = [state |-> "backlog", left |-> tcp[c].left,
                    unread |-> tcp[c].unread, closed |-> tcp[c].closed]
  BY <1>1 DEF Inv, WireTyped, TcpOf
<1>5. /\ backlog \in Seq(Conn) /\ backlog' \in Seq(Conn)
      /\ DOMAIN backlog = 1 .. Len(backlog) /\ Len(backlog) \in Nat
      /\ DOMAIN backlog' = 1 .. Len(backlog) + 1
      /\ \A k \in DOMAIN backlog : backlog'[k] = backlog[k]
      /\ backlog'[Len(backlog) + 1] = c
  BY <1>1 DEF Inv, WireTyped
<1>6. \A k \in DOMAIN backlog : backlog[k] \in Conn \ {c}
  BY <1>1, <1>5 DEF Inv, OnePlace
<1>7. WireTyped'
  <2>1. \A d \in Conn : tcp'[d] = TcpOf(tcp'[d]) /\ IsSeq(tcp'[d].unread)
    BY <1>4 DEF Inv, WireTyped, TcpOf
  <2> QED BY <1>4, <1>5, <2>1 DEF WireTyped
<1>8. OnePlace'
  <2>1. \A d \in Conn : life[d] = "live" => tcp'[d].state = "accepted"
    BY <1>1, <1>4 DEF Inv, OnePlace
  <2>2. \A k \in DOMAIN backlog' : k \in DOMAIN backlog \/ k = Len(backlog) + 1
    BY <1>5
  <2>3. \A k \in DOMAIN backlog' : tcp'[backlog'[k]].state = "backlog"
    BY <1>4, <1>5, <1>6, <2>2 DEF Inv, OnePlace
  <2>4. \A k, l \in DOMAIN backlog' : backlog'[k] = backlog'[l] => k = l
    BY <1>5, <1>6, <2>2 DEF Inv, OnePlace
  <2> QED BY <1>3, <2>1, <2>3, <2>4 DEF OnePlace
<1>9. AtWork'
  <2>1. backlog' # <<>> BY <1>5
  <2> QED BY <1>1, <1>2, <1>3, <2>1 DEF Inv, AtWork, HasRoom
<1>10. AheadIncoming'
  <2>1. \A d \in Conn : tcp'[d].unread = tcp[d].unread /\ tcp'[d].closed = tcp[d].closed
    BY <1>4
  <2>2. \A i \in Connected : slot[i].user_data \in Conn BY DEF Inv, TableTyped
  <2> QED BY <1>1, <1>2, <1>3, <2>1, <2>2 DEF Inv, AheadIncoming, Ahead, Incoming
<1> QED BY <1>2, <1>7, <1>8, <1>9, <1>10 DEF Inv

(* A sender sends or leaves: there is no less to receive than before.      *)
LEMMA SendsInv ==
  ASSUME Inv, NEW c \in Conn, SendPiece(c) \/ Leave(c)
  PROVE  Inv'
<1>1. /\ UNCHANGED <<thread, table, rfds, at, backlog>>
  BY DEF SendPiece, Leave, loop
<1>2. TableTyped' /\ TableAgrees' /\ Connected' = Connected
  BY <1>1, TableKept DEF Inv
<1>3. UNCHANGED <<slot, open_connections, sock, life>> BY <1>1 DEF table
<1>4. /\ WireTyped /\ OnePlace
      /\ tcp[c] = TcpOf(tcp[c]) /\ IsSeq(tcp[c].unread)
  BY DEF Inv, WireTyped
<1>5. /\ TcpChanges(c)
      /\ tcp'[c].unread # <<>> \/ tcp'[c].closed # "no"
  <2>1. CASE SendPiece(c)
    <3> DEFINE more == Append(tcp[c].unread, Head(tcp[c].left))
    <3>1. IsSeq(more) /\ more # <<>>
      <4>1. PICK S : tcp[c].unread \in Seq(S) BY <1>4 DEF IsSeq
      <4> DEFINE x == Head(tcp[c].left)
                 T == S \cup {x}
      <4>2. tcp[c].unread \in Seq(T) /\ x \in T BY <4>1
      <4> HIDE DEF T, x
      <4>3. Append(tcp[c].unread, x) \in Seq(T) /\ Append(tcp[c].unread, x) # <<>>
        BY <4>2
      <4> QED BY <4>3 DEF IsSeq, x
    <3>2. PICK l, t : /\ tcp' = [tcp EXCEPT ![c] = t]
                      /\ t = [tcp[c] EXCEPT !.left = l, !.unread = more]
      BY <2>1 DEF SendPiece
    <3> HIDE DEF more
    <3>3. t = TcpOf(t) /\ t.state = tcp[c].state /\ t.unread = more
      BY <1>4, <3>2 DEF TcpOf
    <3>4. tcp'[c] = t BY <1>4, <3>2 DEF WireTyped
    <3>5. TcpChanges(c) BY <3>1, <3>2, <3>3 DEF TcpChanges
    <3> QED BY <3>1, <3>3, <3>4, <3>5
  <2>2. CASE Leave(c)
    <3>1. PICK t, how : /\ tcp' = [tcp EXCEPT ![c] = t]
                        /\ t = [tcp[c] EXCEPT !.closed = how, !.left = <<>>]
                        /\ how \in {"fin", "reset"}
      BY <2>2 DEF Leave
    <3>2. /\ t = TcpOf(t) /\ t.state = tcp[c].state /\ t.unread = tcp[c].unread
          /\ t.closed = how
      BY <1>4, <3>1 DEF TcpOf
    <3>3. tcp'[c] = t BY <1>4, <3>1 DEF WireTyped
    <3>4. TcpChanges(c) BY <1>4, <3>1, <3>2 DEF TcpChanges
    <3> QED BY <3>1, <3>2, <3>3, <3>4
  <2> QED BY <2>1, <2>2
<1>6. /\ WireTyped' /\ OnePlace'
      /\ \A d \in Conn \ {c} : tcp'[d] = tcp[d]
  BY <1>1, <1>3, <1>4, <1>5, WireChanges
<1>7. AtWork' BY <1>1, <1>2, <1>3 DEF Inv, AtWork, HasRoom
<1>8. AheadIncoming'
  <2>1. \A i \in Connected : slot[i].user_data \in Conn BY DEF Inv, TableTyped
  <2>2. \A d \in Conn : Incoming(d) => tcp'[d].unread # <<>> \/ tcp'[d].closed # "no"
    BY <1>5, <1>6 DEF Incoming
  <2> QED BY <1>1, <1>2, <1>3, <2>1, <2>2 DEF Inv, AheadIncoming, Ahead, Incoming
<1> QED BY <1>2, <1>6, <1>7, <1>8 DEF Inv

LEMMA StutterInv == ASSUME Inv, UNCHANGED vars PROVE Inv'
<1>1. UNCHANGED <<table, tcp, backlog, thread, rfds, at>>
  BY DEF vars, loop, net
<1>2. at' \in Nat BY <1>1 DEF Inv, AtWork
<1> QED BY <1>1, <1>2, QuietStep DEF Waits

THEOREM Invariant == Spec => []Inv
<1>1. Inv /\ [Next]_vars => Inv'
  BY ApplicationInv, SelectInv, LeavingInv, AcceptInv, AcceptFailsInv, HandleInv,
     ReceiveInv, ClosedInv, BrokenOffInv, CleanupInv, CloseServerInv,
     ConnectInv, SendsInv, StutterInv DEF Next, Thread, Sender
<1> QED BY <1>1, InitInv, PTL DEF Spec

(* The table, the count, the descriptors and the connections of raop.c     *)
(* agree, whatever fails and whoever leaves (httpd.c:101-183).             *)
THEOREM HttpdTableOK == Spec => []TableOK
<1>1. Inv => TableOK BY DEF Inv, TableAgrees, AtWork, TableOK
<1> QED BY <1>1, Invariant, PTL

(* What select has reported can still be received when the loop comes to   *)
(* it: accepting, serving and removing others do not change that           *)
(* (httpd.c:249-285).                                                      *)
THEOREM HttpdNeverBlocks == Spec => []NeverBlocks
<1>1. Inv => NeverBlocks
  <2> SUFFICES ASSUME Inv, thread = "serve", NEW i \in Turn
               PROVE  Incoming(sock[slot[i].socket_fd])
    BY DEF NeverBlocks
  <2>1. i \in Connected /\ i \in Ahead BY DEF Turn, Ahead, Connected
  <2>2. sock[slot[i].socket_fd] = slot[i].user_data BY <2>1 DEF Inv, TableAgrees
  <2> QED BY <2>1, <2>2 DEF Inv, AheadIncoming
<1> QED BY <1>1, Invariant, PTL

-----------------------------------------------------------------------------
(* Induction over the numbers and over sequences, for a set of them.       *)

LEMMA NumberInduction ==
  ASSUME NEW S \in SUBSET Nat, 0 \in S, \A n \in S : n + 1 \in S
  PROVE  S = Nat
<1> SUFFICES ASSUME NEW x \in Nat, x \notin S PROVE FALSE OBVIOUS
<1> DEFINE B == {n \in 1 .. x : n \notin S}
<1>1. B \in SUBSET (1 .. x) /\ x \in B OBVIOUS
<1>2. PICK b \in B : \A y \in B : b <= y
  <2> HIDE DEF B
  <2> QED BY <1>1, LowestOf
<1>3. b \in Nat /\ b >= 1 /\ b <= x /\ b - 1 \in Nat OBVIOUS
<1>4. b - 1 \in S
  <2>1. CASE b = 1 BY <2>1
  <2>2. CASE b # 1
    <3>1. b - 1 \in 1 .. x /\ ~(b <= b - 1) BY <1>3, <2>2
    <3> QED BY <1>2, <3>1
  <2> QED BY <2>1, <2>2
<1>5. (b - 1) + 1 \in S BY <1>4
<1> QED BY <1>3, <1>5

LEMMA SeqInduction ==
  ASSUME NEW E, NEW T \in SUBSET Seq(E), <<>> \in T,
         \A s \in T : \A e \in E : Append(s, e) \in T
  PROVE  T = Seq(E)
<1> DEFINE S == {n \in Nat : \A s \in Seq(E) : Len(s) = n => s \in T}
<1>1. 0 \in S
  <2>1. \A s \in Seq(E) : Len(s) = 0 => s = <<>> BY EmptySeq
  <2> QED BY <2>1
<1>2. ASSUME NEW n \in S PROVE n + 1 \in S
  <2> SUFFICES ASSUME NEW s \in Seq(E), Len(s) = n + 1 PROVE s \in T
    OBVIOUS
  <2>1. s # <<>> BY EmptySeq
  <2>2. PICK t \in Seq(E), e \in E : s = Append(t, e)
    BY <2>1, SequenceEmptyOrAppend
  <2>3. Len(s) = Len(t) + 1 /\ Len(t) \in Nat
    BY <2>2, AppendProperties, LenProperties
  <2>4. Len(t) = n BY <2>3
  <2>5. t \in T BY <2>4
  <2> QED BY <2>2, <2>5
<1>3. S = Nat
  <2>1. S \in SUBSET Nat OBVIOUS
  <2> HIDE DEF S
  <2> QED BY <1>1, <1>2, <2>1, NumberInduction
<1>4. \A s \in Seq(E) : Len(s) \in S BY <1>3, LenProperties
<1> QED BY <1>4

(* A function defined by a step from each number to the next.              *)
IsStep(step, N, X) == step \in [1 .. N -> [X -> X]]
Follows(g, N, X, x0, step) ==
  /\ g \in [0 .. N -> X] /\ g[0] = x0
  /\ \A n \in 1 .. N : g[n] = step[n][g[n - 1]]

LEMMA StepwiseFunction ==
  ASSUME NEW N \in Nat, NEW X, NEW x0 \in X, NEW step, IsStep(step, N, X)
  PROVE  \E g : Follows(g, N, X, x0, step)
<1> USE DEF IsStep
<1> DEFINE Upto(g, n) == /\ g \in [0 .. n -> X] /\ g[0] = x0
                         /\ \A i \in 1 .. n : g[i] = step[i][g[i - 1]]
           S == {n \in Nat : n <= N => \E g : Upto(g, n)}
<1>1. 0 \in S
  <2>1. Upto([i \in 0 .. 0 |-> x0], 0) OBVIOUS
  <2> QED BY <2>1
<1>2. ASSUME NEW n \in S PROVE n + 1 \in S
  <2> SUFFICES ASSUME n + 1 <= N PROVE \E g : Upto(g, n + 1)
    OBVIOUS
  <2>1. PICK g : Upto(g, n) BY n <= N
  <2> DEFINE next == step[n + 1][g[n]]
  <2>2. next \in X /\ g[n] \in X
    <3>1. n \in 0 .. n /\ n + 1 \in 1 .. N OBVIOUS
    <3>2. g[n] \in X BY <2>1, <3>1
    <3> QED BY <3>1, <3>2
  <2> DEFINE h == [i \in 0 .. n + 1 |-> IF i = n + 1 THEN next ELSE g[i]]
  <2>3. h \in [0 .. n + 1 -> X]
    <3>1. \A i \in 0 .. n + 1 : i # n + 1 => i \in 0 .. n OBVIOUS
    <3> HIDE DEF next
    <3> QED BY <2>1, <2>2, <3>1
  <2>4. \A i \in 0 .. n : h[i] = g[i] OBVIOUS
  <2>5. h[n + 1] = next OBVIOUS
  <2> HIDE DEF h
  <2>6. \A i \in 1 .. n + 1 : h[i] = step[i][h[i - 1]]
    <3> TAKE i \in 1 .. n + 1
    <3>1. CASE i = n + 1
      <4>1. i - 1 = n /\ n \in 0 .. n BY <3>1
      <4> QED BY <2>4, <2>5, <3>1, <4>1
    <3>2. CASE i # n + 1
      <4>1. i \in 1 .. n /\ i \in 0 .. n /\ i - 1 \in 0 .. n BY <3>2
      <4>2. g[i] = step[i][g[i - 1]] BY <2>1, <4>1
      <4> QED BY <2>4, <4>1, <4>2
    <3> QED BY <3>1, <3>2
  <2>7. h[0] = x0 BY <2>1, <2>4
  <2> QED BY <2>3, <2>6, <2>7
<1>3. S = Nat
  <2>1. S \in SUBSET Nat OBVIOUS
  <2> HIDE DEF S
  <2> QED BY <1>1, <1>2, <2>1, NumberInduction
<1>4. N \in S BY <1>3
<1> QED BY <1>4 DEF Follows

-----------------------------------------------------------------------------
(* What the callbacks put together, a piece at a time.                     *)

PieceOf(T) == [kind : {"url", "field", "value", "body"}, text : T]
                \cup {[kind |-> "end"]}

LEMMA CallbackType ==
  ASSUME NEW T, NEW r \in HttpRequestOf(T), NEW p \in PieceOf(T)
  PROVE  Callback(r, p) \in HttpRequestOf(T)
<1>1. /\ r = [url |-> r.url, headers |-> r.headers, headers_index |-> r.headers_index,
              data |-> r.data, complete |-> r.complete]
      /\ r.url \in Seq(T) /\ r.headers \in Seq(Seq(T)) /\ r.headers_index \in Nat
      /\ r.data \in Seq(T) /\ r.complete \in BOOLEAN
  BY DEF HttpRequestOf
<1>2. ASSUME NEW i \in Nat, NEW hs \in Seq(Seq(T)), NEW t \in T
      PROVE  AppendHeader(r, i, hs, t) \in HttpRequestOf(T)
  <2> DEFINE new == [hs EXCEPT ![i + 1] = Append(hs[i + 1], t)]
  <2>1. new \in Seq(Seq(T))
    <3>1. CASE i + 1 \in 1 .. Len(hs)
      <4>1. Append(hs[i + 1], t) \in Seq(T)
        BY <3>1, ElementOfSeq, AppendProperties
      <4> QED BY <3>1, <4>1, ExceptSeq
    <3>2. CASE i + 1 \notin 1 .. Len(hs)
      <4>1. hs \in [1 .. Len(hs) -> Seq(T)] BY LenProperties
      <4>2. new = hs BY <3>2, <4>1
      <4> QED BY <4>2
    <3> QED BY <3>1, <3>2
  <2>2. AppendHeader(r, i, hs, t)
          = [url |-> r.url, headers |-> new, headers_index |-> i,
             data |-> r.data, complete |-> r.complete]
    <3>1. AppendHeader(r, i, hs, t) = [r EXCEPT !.headers_index = i, !.headers = new]
      BY DEF AppendHeader
    <3> HIDE DEF new
    <3> QED BY <1>1, <3>1
  <2> HIDE DEF new
  <2> QED BY <1>1, <2>1, <2>2 DEF HttpRequestOf
<1>3. CASE p.kind = "url" /\ p.text \in T
  <2>1. Append(r.url, p.text) \in Seq(T) BY <1>1, <1>3, AppendProperties
  <2> QED BY <1>1, <1>3, <2>1 DEF Callback, OnUrl, HttpRequestOf
<1>4. CASE p.kind = "field" /\ p.text \in T
  <2>1. FieldIndex(r) \in Nat BY <1>1 DEF FieldIndex
  <2>2. r.headers \o <<<<>>, <<>>>> \in Seq(Seq(T))
    <3>1. <<<<>>, <<>>>> \in Seq(Seq(T)) OBVIOUS
    <3> QED BY <1>1, <3>1, ConcatProperties
  <2>3. Callback(r, p) = OnHeaderField(r, p.text) BY <1>4 DEF Callback
  <2> QED BY <1>1, <1>2, <1>4, <2>1, <2>2, <2>3 DEF OnHeaderField
<1>5. CASE p.kind = "value" /\ p.text \in T
  <2>1. ValueIndex(r) \in Nat BY <1>1 DEF ValueIndex
  <2>2. Callback(r, p) = OnHeaderValue(r, p.text) BY <1>5 DEF Callback
  <2> QED BY <1>1, <1>2, <1>5, <2>1, <2>2 DEF OnHeaderValue
<1>6. CASE p.kind = "body" /\ p.text \in T
  <2>1. Append(r.data, p.text) \in Seq(T) BY <1>1, <1>6, AppendProperties
  <2> QED BY <1>1, <1>6, <2>1 DEF Callback, OnBody, HttpRequestOf
<1>7. CASE p.kind = "end"
  BY <1>1, <1>7 DEF Callback, OnMessageComplete, HttpRequestOf
<1> QED BY <1>3, <1>4, <1>5, <1>6, <1>7 DEF PieceOf

(* f is the request after each of the pieces.                              *)
After(f, T, r, pieces) ==
  /\ f \in [0 .. Len(pieces) -> HttpRequestOf(T)]
  /\ f[0] = r
  /\ \A n \in 1 .. Len(pieces) : f[n] = Callback(f[n - 1], pieces[n])

LEMMA AddDataDef ==
  ASSUME NEW T, NEW r \in HttpRequestOf(T), NEW pieces \in Seq(PieceOf(T))
  PROVE  \E f : After(f, T, r, pieces) /\ AddData(r, pieces) = f[Len(pieces)]
<1> DEFINE N == Len(pieces)
           X == HttpRequestOf(T)
           step == [n \in 1 .. N |-> [x \in X |-> Callback(x, pieces[n])]]
           Is(f) == f = [n \in 0 .. N |-> IF n = 0 THEN r ELSE Callback(f[n - 1], pieces[n])]
<1>1. N \in Nat /\ \A n \in 1 .. N : pieces[n] \in PieceOf(T)
  BY LenProperties, ElementOfSeq
<1>2. IsStep(step, N, X)
  BY <1>1, CallbackType DEF IsStep
<1>3. PICK g : Follows(g, N, X, r, step)
  <2>1. N \in Nat BY <1>1
  <2>2. r \in X OBVIOUS
  <2> HIDE DEF N, X, step
  <2> QED BY <1>2, <2>1, <2>2, StepwiseFunction
<1> USE DEF Follows
<1>4. \A n \in 1 .. N : g[n - 1] \in X /\ g[n] = Callback(g[n - 1], pieces[n])
  <2> TAKE n \in 1 .. N
  <2>1. n - 1 \in 0 .. N BY <1>1
  <2>2. g[n - 1] \in X BY <1>3, <2>1
  <2>3. step[n][g[n - 1]] = Callback(g[n - 1], pieces[n])
    <3> HIDE DEF X
    <3> QED BY <2>2
  <2> QED BY <1>3, <2>2, <2>3
<1>5. Is(g)
  <2> DEFINE h == [n \in 0 .. N |-> IF n = 0 THEN r ELSE Callback(g[n - 1], pieces[n])]
  <2>1. \A n \in 0 .. N : h[n] = g[n]
    <3> TAKE n \in 0 .. N
    <3>1. CASE n = 0 BY <1>3, <3>1
    <3>2. CASE n # 0
      <4>1. n \in 1 .. N BY <1>1, <3>2
      <4> QED BY <1>4, <3>2, <4>1
    <3> QED BY <3>1, <3>2
  <2>2. DOMAIN h = 0 .. N /\ DOMAIN g = 0 .. N BY <1>3
  <2>3. h = [n \in 0 .. N |-> h[n]] /\ g = [n \in 0 .. N |-> g[n]] BY <1>3
  <2> HIDE DEF h
  <2>4. g = h BY <2>1, <2>3
  <2> QED BY <2>4 DEF h
<1> DEFINE F == CHOOSE f : Is(f)
<1>6. Is(F) BY <1>5
<1>7. AddData(r, pieces) = F[N] BY DEF AddData
<1>8. After(F, T, r, pieces)
  <2> HIDE DEF F
  <2>1. \A n \in 0 .. N : F[n] = IF n = 0 THEN r ELSE Callback(F[n - 1], pieces[n])
    BY <1>6
  <2>2. F[0] = r BY <1>1, <2>1
  <2>3. \A n \in 1 .. N : F[n] = Callback(F[n - 1], pieces[n])
    BY <1>1, <2>1
  <2> DEFINE S == {n \in Nat : n <= N => F[n] \in X}
  <2>4. 0 \in S BY <2>2
  <2>5. ASSUME NEW n \in S PROVE n + 1 \in S
    <3> SUFFICES ASSUME n + 1 <= N PROVE F[n + 1] \in X OBVIOUS
    <3>1. n \in Nat /\ n + 1 \in 1 .. N /\ n <= N /\ (n + 1) - 1 = n BY <1>1
    <3>2. F[n] \in X BY <3>1
    <3>3. F[n + 1] = Callback(F[n], pieces[n + 1]) BY <2>3, <3>1
    <3> QED BY <1>1, <3>1, <3>2, <3>3, CallbackType
  <2>6. S = Nat
    <3>1. S \in SUBSET Nat OBVIOUS
    <3> HIDE DEF S
    <3> QED BY <2>4, <2>5, <3>1, NumberInduction
  <2>7. \A n \in 0 .. N : F[n] \in X BY <1>1, <2>6
  <2>8. F = [n \in 0 .. N |-> F[n]] BY <1>6
  <2> HIDE DEF S, X
  <2>9. F \in [0 .. N -> X] BY <2>7, <2>8
  <2> QED BY <2>2, <2>3, <2>9 DEF After, X
<1> QED BY <1>7, <1>8

LEMMA AddDataType ==
  ASSUME NEW T, NEW r \in HttpRequestOf(T), NEW pieces \in Seq(PieceOf(T))
  PROVE  AddData(r, pieces) \in HttpRequestOf(T)
<1>1. PICK f : After(f, T, r, pieces) /\ AddData(r, pieces) = f[Len(pieces)]
  BY AddDataDef
<1>2. Len(pieces) \in 0 .. Len(pieces) BY LenProperties
<1> QED BY <1>1, <1>2 DEF After

LEMMA AddNothing ==
  ASSUME NEW T, NEW r \in HttpRequestOf(T)
  PROVE  AddData(r, <<>>) = r
<1>1. <<>> \in Seq(PieceOf(T)) /\ Len(<<>>) = 0 OBVIOUS
<1>2. PICK f : After(f, T, r, <<>>) /\ AddData(r, <<>>) = f[Len(<<>>)]
  BY <1>1, AddDataDef
<1> QED BY <1>1, <1>2 DEF After

LEMMA AddOne ==
  ASSUME NEW T, NEW r \in HttpRequestOf(T), NEW s \in Seq(PieceOf(T)),
         NEW p \in PieceOf(T)
  PROVE  AddData(r, Append(s, p)) = Callback(AddData(r, s), p)
<1> DEFINE t == Append(s, p)
           m == Len(s)
<1>1. /\ t \in Seq(PieceOf(T)) /\ Len(t) = m + 1 /\ t[m + 1] = p
      /\ m \in Nat /\ \A i \in 1 .. m : t[i] = s[i]
  BY AppendProperties, LenProperties
<1>2. PICK f : After(f, T, r, s) /\ AddData(r, s) = f[m]
  BY AddDataDef
<1> HIDE DEF t
<1>3. PICK g : After(g, T, r, t) /\ AddData(r, t) = g[Len(t)]
  BY <1>1, AddDataDef
<1> DEFINE S == {n \in Nat : n <= m => f[n] = g[n]}
<1>4. 0 \in S BY <1>2, <1>3 DEF After
<1>5. ASSUME NEW n \in S PROVE n + 1 \in S
  <2> SUFFICES ASSUME n + 1 <= m PROVE f[n + 1] = g[n + 1] OBVIOUS
  <2>1. /\ n \in Nat /\ n <= m /\ (n + 1) - 1 = n
        /\ n + 1 \in 1 .. m /\ n + 1 \in 1 .. Len(t)
    BY <1>1
  <2>2. f[n] = g[n] BY <2>1
  <2>3. f[n + 1] = Callback(f[n], s[n + 1]) BY <1>2, <2>1 DEF After
  <2>4. g[n + 1] = Callback(g[n], t[n + 1]) BY <1>3, <2>1 DEF After
  <2> QED BY <1>1, <2>1, <2>2, <2>3, <2>4
<1>6. S = Nat
  <2>1. S \in SUBSET Nat OBVIOUS
  <2> HIDE DEF S
  <2> QED BY <1>4, <1>5, <2>1, NumberInduction
<1>7. f[m] = g[m] BY <1>1, <1>6
<1>8. g[m + 1] = Callback(g[m], p)
  <2>1. m + 1 \in 1 .. Len(t) /\ (m + 1) - 1 = m BY <1>1
  <2>2. g[m + 1] = Callback(g[(m + 1) - 1], t[m + 1]) BY <1>3, <2>1 DEF After
  <2> QED BY <1>1, <2>1, <2>2
<1> QED BY <1>1, <1>2, <1>3, <1>7, <1>8 DEF t

LEMMA AppendToConcat ==
  ASSUME NEW E, NEW s \in Seq(E), NEW t \in Seq(E), NEW e \in E
  PROVE  s \o Append(t, e) = Append(s \o t, e)
<1>1. <<e>> \in Seq(E) OBVIOUS
<1>2. Append(t, e) = t \o <<e>> BY AppendIsConcat
<1>3. s \o t \in Seq(E) BY ConcatProperties
<1>4. Append(s \o t, e) = (s \o t) \o <<e>> BY <1>3, AppendIsConcat
<1> QED BY <1>1, <1>2, <1>4, ConcatAssociative

(* Cutting the stream elsewhere makes no difference.                       *)
LEMMA AddDataConcat ==
  ASSUME NEW T, NEW r \in HttpRequestOf(T),
         NEW s \in Seq(PieceOf(T)), NEW t \in Seq(PieceOf(T))
  PROVE  AddData(r, s \o t) = AddData(AddData(r, s), t)
<1> DEFINE E == PieceOf(T)
           U == {u \in Seq(E) : AddData(r, s \o u) = AddData(AddData(r, s), u)}
<1>1. AddData(r, s) \in HttpRequestOf(T) BY AddDataType
<1>2. <<>> \in U
  <2>1. <<>> \in Seq(E) OBVIOUS
  <2>2. s \o <<>> = s BY ConcatEmptySeq
  <2>3. AddData(AddData(r, s), <<>>) = AddData(r, s) BY <1>1, AddNothing
  <2> QED BY <2>1, <2>2, <2>3
<1>3. ASSUME NEW u \in U, NEW e \in E PROVE Append(u, e) \in U
  <2>1. u \in Seq(E) /\ Append(u, e) \in Seq(E) BY AppendProperties
  <2>2. s \o Append(u, e) = Append(s \o u, e) /\ s \o u \in Seq(E)
    BY <2>1, AppendToConcat, ConcatProperties
  <2>3. AddData(r, Append(s \o u, e)) = Callback(AddData(r, s \o u), e)
    <3> DEFINE v == s \o u
    <3>1. v \in Seq(PieceOf(T)) /\ e \in PieceOf(T) BY <2>2
    <3> HIDE DEF v
    <3>2. AddData(r, Append(v, e)) = Callback(AddData(r, v), e) BY <3>1, AddOne
    <3> QED BY <3>2 DEF v
  <2>4. AddData(AddData(r, s), Append(u, e)) = Callback(AddData(AddData(r, s), u), e)
    BY <1>1, <2>1, AddOne
  <2> QED BY <2>1, <2>2, <2>3, <2>4
<1>4. U = Seq(E)
  <2>1. U \in SUBSET Seq(E) OBVIOUS
  <2> HIDE DEF U, E
  <2> QED BY <1>2, <1>3, <2>1, SeqInduction
<1> QED BY <1>4

-----------------------------------------------------------------------------
(* The parts of one string.                                                *)

Kinds == {"url", "field", "value", "body"}

LEMMA PiecesOfNothing ==
  ASSUME NEW kind
  PROVE  Pieces(kind, <<>>) = <<>>
BY DEF Pieces

LEMMA PiecesType ==
  ASSUME NEW T, NEW kind \in Kinds, NEW u \in Seq(T)
  PROVE  Pieces(kind, u) \in Seq(PieceOf(T)) /\ Len(Pieces(kind, u)) = Len(u)
<1>1. DOMAIN u = 1 .. Len(u) /\ Len(u) \in Nat /\ \A i \in 1 .. Len(u) : u[i] \in T
  BY LenProperties, ElementOfSeq
<1>2. \A t \in T : [kind |-> kind, text |-> t] \in PieceOf(T) BY DEF Kinds, PieceOf
<1> QED BY <1>1, <1>2 DEF Pieces

LEMMA PiecesAppend ==
  ASSUME NEW T, NEW kind \in Kinds, NEW u \in Seq(T), NEW t \in T
  PROVE  /\ [kind |-> kind, text |-> t] \in PieceOf(T)
         /\ Pieces(kind, Append(u, t)) = Append(Pieces(kind, u), [kind |-> kind, text |-> t])
<1> DEFINE p == [kind |-> kind, text |-> t]
           v == Append(u, t)
<1>1. p \in PieceOf(T) BY DEF Kinds, PieceOf
<1>2. /\ v \in Seq(T) /\ Len(v) = Len(u) + 1 /\ v[Len(u) + 1] = t
      /\ Len(u) \in Nat /\ \A i \in 1 .. Len(u) : v[i] = u[i]
      /\ DOMAIN v = 1 .. Len(u) + 1 /\ DOMAIN u = 1 .. Len(u)
  BY AppendProperties, LenProperties
<1> HIDE DEF p, v
<1>3. /\ Pieces(kind, v) \in Seq(PieceOf(T)) /\ Len(Pieces(kind, v)) = Len(u) + 1
      /\ Pieces(kind, u) \in Seq(PieceOf(T)) /\ Len(Pieces(kind, u)) = Len(u)
  BY <1>2, PiecesType
<1>4. /\ Append(Pieces(kind, u), p) \in Seq(PieceOf(T))
      /\ Len(Append(Pieces(kind, u), p)) = Len(u) + 1
      /\ \A i \in 1 .. Len(u) : Append(Pieces(kind, u), p)[i] = Pieces(kind, u)[i]
      /\ Append(Pieces(kind, u), p)[Len(u) + 1] = p
  BY <1>1, <1>3, AppendProperties
<1>5. ASSUME NEW i \in 1 .. Len(u) + 1
      PROVE  Pieces(kind, v)[i] = Append(Pieces(kind, u), p)[i]
  <2>1. Pieces(kind, v)[i] = [kind |-> kind, text |-> v[i]] BY <1>2 DEF Pieces
  <2>2. CASE i = Len(u) + 1 BY <1>2, <1>4, <2>1, <2>2 DEF p
  <2>3. CASE i # Len(u) + 1
    <3>1. i \in 1 .. Len(u) BY <1>2, <2>3
    <3>2. Pieces(kind, u)[i] = [kind |-> kind, text |-> u[i]] BY <1>2, <3>1 DEF Pieces
    <3> QED BY <1>2, <1>4, <2>1, <3>1, <3>2
  <2> QED BY <2>2, <2>3
<1>6. Pieces(kind, v) = Append(Pieces(kind, u), p)
  BY <1>3, <1>4, <1>5, SeqEqual
<1> QED BY <1>1, <1>6 DEF p, v

(* A request as the record of its fields                                   *)
LEMMA RequestFields ==
  ASSUME NEW T, NEW r \in HttpRequestOf(T)
  PROVE  /\ r = [url |-> r.url, headers |-> r.headers,
                 headers_index |-> r.headers_index, data |-> r.data,
                 complete |-> r.complete]
         /\ r.url \in Seq(T) /\ r.headers \in Seq(Seq(T)) /\ r.headers_index \in Nat
         /\ r.data \in Seq(T) /\ r.complete \in BOOLEAN
BY DEF HttpRequestOf

LEMMA OneMorePart ==
  ASSUME NEW T, NEW r \in HttpRequestOf(T), NEW kind \in Kinds,
         NEW w \in Seq(T), NEW t \in T
  PROVE  AddData(r, Pieces(kind, Append(w, t)))
           = Callback(AddData(r, Pieces(kind, w)), [kind |-> kind, text |-> t])
<1> DEFINE p == [kind |-> kind, text |-> t]
           s == Pieces(kind, w)
<1>1. p \in PieceOf(T) /\ Pieces(kind, Append(w, t)) = Append(s, p) BY PiecesAppend
<1>2. s \in Seq(PieceOf(T)) BY PiecesType
<1> HIDE DEF p, s
<1>3. AddData(r, Append(s, p)) = Callback(AddData(r, s), p) BY <1>1, <1>2, AddOne
<1> QED BY <1>1, <1>3 DEF p, s

LEMMA UrlAdded ==
  ASSUME NEW T, NEW r \in HttpRequestOf(T), r.url = <<>>, NEW u \in Seq(T)
  PROVE  AddData(r, Pieces("url", u)) = [r EXCEPT !.url = u]
<1> DEFINE U == {w \in Seq(T) : AddData(r, Pieces("url", w)) = [r EXCEPT !.url = w]}
<1>1. <<>> \in U
  <2>1. [r EXCEPT !.url = <<>>] = r BY RequestFields
  <2> QED BY <2>1, AddNothing, PiecesOfNothing
<1>2. ASSUME NEW w \in U, NEW t \in T PROVE Append(w, t) \in U
  <2> DEFINE p == [kind |-> "url", text |-> t]
  <2>1. Append(w, t) \in Seq(T) /\ w \in Seq(T) BY AppendProperties
  <2>2. AddData(r, Pieces("url", Append(w, t))) = Callback(AddData(r, Pieces("url", w)), p)
    <3>1. "url" \in Kinds BY DEF Kinds
    <3> QED BY <2>1, <3>1, OneMorePart
  <2>3. p.kind = "url" /\ p.text = t OBVIOUS
  <2> HIDE DEF p
  <2>5. AddData(r, Pieces("url", w)) = [r EXCEPT !.url = w] OBVIOUS
  <2>6. Callback([r EXCEPT !.url = w], p) = OnUrl([r EXCEPT !.url = w], t)
    BY <2>3 DEF Callback
  <2>7. OnUrl([r EXCEPT !.url = w], t) = [r EXCEPT !.url = Append(w, t)]
    BY RequestFields DEF OnUrl
  <2> QED BY <2>1, <2>2, <2>5, <2>6, <2>7
<1>3. U = Seq(T)
  <2>1. U \in SUBSET Seq(T) OBVIOUS
  <2> HIDE DEF U
  <2> QED BY <1>1, <1>2, <2>1, SeqInduction
<1> QED BY <1>3

LEMMA BodyAdded ==
  ASSUME NEW T, NEW r \in HttpRequestOf(T), r.data = <<>>, NEW u \in Seq(T)
  PROVE  AddData(r, Pieces("body", u)) = [r EXCEPT !.data = u]
<1> DEFINE U == {w \in Seq(T) : AddData(r, Pieces("body", w)) = [r EXCEPT !.data = w]}
<1>1. <<>> \in U
  <2>1. [r EXCEPT !.data = <<>>] = r BY RequestFields
  <2> QED BY <2>1, AddNothing, PiecesOfNothing
<1>2. ASSUME NEW w \in U, NEW t \in T PROVE Append(w, t) \in U
  <2> DEFINE p == [kind |-> "body", text |-> t]
  <2>1. Append(w, t) \in Seq(T) /\ w \in Seq(T) BY AppendProperties
  <2>2. AddData(r, Pieces("body", Append(w, t))) = Callback(AddData(r, Pieces("body", w)), p)
    <3>1. "body" \in Kinds BY DEF Kinds
    <3> QED BY <2>1, <3>1, OneMorePart
  <2>3. p.kind = "body" /\ p.text = t OBVIOUS
  <2> HIDE DEF p
  <2>5. AddData(r, Pieces("body", w)) = [r EXCEPT !.data = w] OBVIOUS
  <2>6. Callback([r EXCEPT !.data = w], p) = OnBody([r EXCEPT !.data = w], t)
    BY <2>3 DEF Callback
  <2>7. OnBody([r EXCEPT !.data = w], t) = [r EXCEPT !.data = Append(w, t)]
    BY RequestFields DEF OnBody
  <2> QED BY <2>1, <2>2, <2>5, <2>6, <2>7
<1>3. U = Seq(T)
  <2>1. U \in SUBSET Seq(T) OBVIOUS
  <2> HIDE DEF U
  <2> QED BY <1>1, <1>2, <2>1, SeqInduction
<1> QED BY <1>3

-----------------------------------------------------------------------------
(* The headers: a name and its value after those that are there.           *)

PairBehind(g, E, h, a, b) ==
  /\ g \in Seq(E) /\ Len(g) = Len(h) + 2 /\ Len(h) \in Nat
  /\ g[Len(h) + 1] = a /\ g[Len(h) + 2] = b
  /\ \A x \in E : /\ [g EXCEPT ![Len(h) + 1] = x] = h \o <<x, b>>
                  /\ [g EXCEPT ![Len(h) + 2] = x] = h \o <<a, x>>

LEMMA PairAdded ==
  ASSUME NEW E, NEW h \in Seq(E), NEW a \in E, NEW b \in E
  PROVE  PairBehind(h \o <<a, b>>, E, h, a, b)
<1>1. \A x, y \in E : LET p == <<x, y>> IN p \in Seq(E) /\ Len(p) = 2 /\ p[1] = x /\ p[2] = y
  OBVIOUS
<1>2. Len(h) \in Nat BY LenProperties
<1>3. \A x, y \in E : LET g == h \o <<x, y>>
                      IN /\ g \in Seq(E) /\ Len(g) = Len(h) + 2
                         /\ g[Len(h) + 1] = x /\ g[Len(h) + 2] = y
                         /\ \A i \in 1 .. Len(h) : g[i] = h[i]
  <2> TAKE x, y \in E
  <2> DEFINE p == <<x, y>>
  <2>1. p \in Seq(E) /\ Len(p) = 2 /\ p[1] = x /\ p[2] = y BY <1>1
  <2> HIDE DEF p
  <2>2. /\ h \o p \in Seq(E) /\ Len(h \o p) = Len(h) + 2
        /\ \A i \in 1 .. Len(h) + 2 :
             (h \o p)[i] = IF i <= Len(h) THEN h[i] ELSE p[i - Len(h)]
    <3>1. /\ h \o p \in Seq(E) /\ Len(h \o p) = Len(h) + Len(p)
          /\ \A i \in 1 .. Len(h) + Len(p) :
               (h \o p)[i] = IF i <= Len(h) THEN h[i] ELSE p[i - Len(h)]
      BY <2>1, ConcatProperties
    <3> QED BY <2>1, <3>1
  <2>3. /\ Len(h) + 1 \in 1 .. Len(h) + 2 /\ ~(Len(h) + 1 <= Len(h))
        /\ Len(h) + 2 \in 1 .. Len(h) + 2 /\ ~(Len(h) + 2 <= Len(h))
        /\ (Len(h) + 1) - Len(h) = 1 /\ (Len(h) + 2) - Len(h) = 2
    BY <1>2
  <2>4. (h \o p)[Len(h) + 1] = x /\ (h \o p)[Len(h) + 2] = y
    BY <2>1, <2>2, <2>3
  <2>5. \A i \in 1 .. Len(h) : i \in 1 .. Len(h) + 2 /\ i <= Len(h) BY <1>2
  <2> QED BY <2>2, <2>4, <2>5 DEF p
<1> DEFINE g == h \o <<a, b>>
<1>4. ASSUME NEW x \in E, NEW d \in {1, 2},
             NEW k, k = h \o (IF d = 1 THEN <<x, b>> ELSE <<a, x>>)
      PROVE  [g EXCEPT ![Len(h) + d] = x] = k
  <2> DEFINE f == [g EXCEPT ![Len(h) + d] = x]
  <2>1. /\ g \in Seq(E) /\ Len(g) = Len(h) + 2
        /\ g[Len(h) + 1] = a /\ g[Len(h) + 2] = b
        /\ \A i \in 1 .. Len(h) : g[i] = h[i]
    BY <1>3
  <2>2. /\ k \in Seq(E) /\ Len(k) = Len(h) + 2
        /\ k[Len(h) + 1] = (IF d = 1 THEN x ELSE a)
        /\ k[Len(h) + 2] = (IF d = 1 THEN b ELSE x)
        /\ \A i \in 1 .. Len(h) : k[i] = h[i]
    <3>1. CASE d = 1 BY <1>3, <1>4, <3>1
    <3>2. CASE d = 2 BY <1>3, <1>4, <3>2
    <3> QED BY <3>1, <3>2
  <2> HIDE DEF g
  <2>3. Len(h) + d \in 1 .. Len(g) BY <1>2, <2>1
  <2>4. /\ f \in Seq(E) /\ Len(f) = Len(g)
        /\ \A j \in 1 .. Len(g) : f[j] = IF j = Len(h) + d THEN x ELSE g[j]
    BY <2>1, <2>3, ExceptSeq
  <2> HIDE DEF f
  <2>5. ASSUME NEW j \in 1 .. Len(g) PROVE f[j] = k[j]
    <3>1. j \in 1 .. Len(h) \/ j = Len(h) + 1 \/ j = Len(h) + 2 BY <1>2, <2>1
    <3>2. CASE j \in 1 .. Len(h)
      <4>1. j # Len(h) + d BY <1>2, <3>2
      <4> QED BY <2>1, <2>2, <2>4, <3>2, <4>1
    <3>3. CASE j = Len(h) + 1
      <4>1. j = Len(h) + d <=> d = 1 BY <1>2, <3>3
      <4> QED BY <2>1, <2>2, <2>4, <3>3, <4>1
    <3>4. CASE j = Len(h) + 2
      <4>1. j = Len(h) + d <=> d = 2 BY <1>2, <3>4
      <4> QED BY <2>1, <2>2, <2>4, <3>4, <4>1
    <3> QED BY <3>1, <3>2, <3>3, <3>4
  <2>6. f = k BY <2>1, <2>2, <2>4, <2>5, SeqEqual
  <2> QED BY <2>6 DEF f
<1>5. \A x \in E : /\ [g EXCEPT ![Len(h) + 1] = x] = h \o <<x, b>>
                   /\ [g EXCEPT ![Len(h) + 2] = x] = h \o <<a, x>>
  <2> TAKE x \in E
  <2> HIDE DEF g
  <2>1. [g EXCEPT ![Len(h) + 1] = x] = h \o <<x, b>> BY <1>4
  <2>2. [g EXCEPT ![Len(h) + 2] = x] = h \o <<a, x>>
    <3>1. 2 \in {1, 2} /\ 2 # 1 OBVIOUS
    <3> QED BY <1>4, <3>1
  <2> QED BY <2>1, <2>2
<1> QED BY <1>2, <1>3, <1>5 DEF PairBehind

WithHeaders(r, index, headers) ==
  [r EXCEPT !.headers_index = index, !.headers = headers]

RequestRecord(url, headers, index, data, complete) ==
  [url |-> url, headers |-> headers, headers_index |-> index, data |-> data,
   complete |-> complete]

LEMMA WithHeadersFields ==
  ASSUME NEW T, NEW r \in HttpRequestOf(T), NEW i \in Nat, NEW h \in Seq(Seq(T))
  PROVE  /\ WithHeaders(r, i, h) \in HttpRequestOf(T)
         /\ WithHeaders(r, i, h).headers = h /\ WithHeaders(r, i, h).headers_index = i
         /\ \A j, g : WithHeaders(WithHeaders(r, i, h), j, g) = WithHeaders(r, j, g)
         /\ WithHeaders(r, i, h) = RequestRecord(r.url, h, i, r.data, r.complete)
<1>1. WithHeaders(r, i, h) = [url |-> r.url, headers |-> h, headers_index |-> i,
                              data |-> r.data, complete |-> r.complete]
  <2>1. PICK u, hs, ix, d, done :
          r = [url |-> u, headers |-> hs, headers_index |-> ix, data |-> d,
               complete |-> done]
    BY DEF HttpRequestOf
  <2> DEFINE q == [r EXCEPT !.headers_index = i]
  <2>2. [r EXCEPT !.headers_index = i, !.headers = h]
          = [url |-> u, headers |-> h, headers_index |-> i, data |-> d, complete |-> done]
    <3>1. q = [url |-> u, headers |-> hs, headers_index |-> i, data |-> d,
               complete |-> done]
      BY <2>1
    <3>2. [r EXCEPT !.headers_index = i, !.headers = h] = [q EXCEPT !.headers = h]
      OBVIOUS
    <3> HIDE DEF q
    <3> QED BY <3>1, <3>2
  <2>3. r.url = u /\ r.data = d /\ r.complete = done BY <2>1
  <2> QED BY <2>2, <2>3 DEF WithHeaders
<1> QED BY <1>1, RequestFields DEF HttpRequestOf, WithHeaders, RequestRecord

(* A whole number of names and values, and where the next one goes         *)
Even(n) == \E j \in Nat : n = 2 * j
IndexAfter(n) == IF n = 0 THEN 0 ELSE n - 1

LEMMA EvenIndex ==
  ASSUME NEW n \in Nat, Even(n)
  PROVE  /\ n % 2 = 0 /\ (n + 1) % 2 = 1
         /\ n # 0 => IndexAfter(n) % 2 = 1 /\ IndexAfter(n) + 1 = n
         /\ n = 0 => IndexAfter(n) = 0
         /\ IndexAfter(n) \in Nat
<1>1. PICK j \in Nat : n = 2 * j BY DEF Even
<1>2. n % 2 = 0 /\ (n + 1) % 2 = 1 BY <1>1
<1>3. n # 0 => n - 1 \in Nat /\ (n - 1) % 2 = 1 /\ (n - 1) + 1 = n BY <1>1
<1> QED BY <1>2, <1>3 DEF IndexAfter

(* The first part of a name begins a pair, the others are added to it.     *)
LEMMA FieldBegins ==
  ASSUME NEW T, NEW r \in HttpRequestOf(T), Even(Len(r.headers)),
         r.headers_index = IndexAfter(Len(r.headers)),
         NEW t \in T
  PROVE  Callback(r, [kind |-> "field", text |-> t])
           = WithHeaders(r, Len(r.headers), r.headers \o <<<<t>>, <<>>>>)
<1> DEFINE h == r.headers
           n == Len(h)
           none == h \o <<<<>>, <<>>>>
<1>1. h \in Seq(Seq(T)) /\ n \in Nat BY RequestFields, LenProperties
<1>2. FieldIndex(r) = n BY <1>1, EvenIndex DEF FieldIndex
<1>3. <<>> \in Seq(T) /\ <<t>> \in Seq(T) /\ Append(<<>>, t) = <<t>> OBVIOUS
<1>4. /\ none[n + 1] = <<>>
      /\ [none EXCEPT ![n + 1] = <<t>>] = h \o <<<<t>>, <<>>>>
  <2>1. PairBehind(none, Seq(T), h, <<>>, <<>>)
    <3> HIDE DEF h
    <3> QED BY <1>1, <1>3, PairAdded
  <2> QED BY <1>3, <2>1 DEF PairBehind
<1> HIDE DEF none
<1>5. AppendHeader(r, n, none, t) = WithHeaders(r, n, [none EXCEPT ![n + 1] = <<t>>])
  <2>1. Append(none[n + 1], t) = <<t>> BY <1>3, <1>4
  <2> QED BY <2>1 DEF AppendHeader, WithHeaders
<1>6. Callback(r, [kind |-> "field", text |-> t]) = AppendHeader(r, n, none, t)
  BY <1>2 DEF Callback, OnHeaderField, none
<1> QED BY <1>4, <1>5, <1>6

LEMMA FieldGoesOn ==
  ASSUME NEW T, NEW r \in HttpRequestOf(T), NEW h \in Seq(Seq(T)), Even(Len(h)),
         NEW a \in Seq(T), NEW t \in T
  PROVE  Callback(WithHeaders(r, Len(h), h \o <<a, <<>>>>), [kind |-> "field", text |-> t])
           = WithHeaders(r, Len(h), h \o <<Append(a, t), <<>>>>)
<1> DEFINE n == Len(h)
           g == h \o <<a, <<>>>>
           q == WithHeaders(r, n, g)
<1>1. n \in Nat BY LenProperties
<1>2. <<>> \in Seq(T) /\ Append(a, t) \in Seq(T) BY AppendProperties
<1>3. /\ g \in Seq(Seq(T)) /\ Len(g) = n + 2 /\ g[n + 1] = a
      /\ [g EXCEPT ![n + 1] = Append(a, t)] = h \o <<Append(a, t), <<>>>>
  <2>1. PairBehind(g, Seq(T), h, a, <<>>) BY <1>2, PairAdded
  <2> QED BY <1>2, <2>1 DEF PairBehind
<1> HIDE DEF g
<1>4. q.headers = g /\ q.headers_index = n /\ \A j, k : WithHeaders(q, j, k) = WithHeaders(r, j, k)
  <2> HIDE DEF n
  <2> QED BY <1>1, <1>3, WithHeadersFields
<1> HIDE DEF q
<1>5. FieldIndex(q) = n /\ n # Len(q.headers)
  <2>1. n % 2 = 0 BY <1>1, EvenIndex
  <2>2. n % 2 # 1 BY <2>1
  <2>3. n # n + 2 BY <1>1
  <2> HIDE DEF n
  <2>4. FieldIndex(q) = n BY <1>4, <2>2 DEF FieldIndex
  <2> QED BY <1>3, <1>4, <2>3, <2>4
<1>6. Callback(q, [kind |-> "field", text |-> t]) = AppendHeader(q, n, g, t)
  BY <1>4, <1>5 DEF Callback, OnHeaderField
<1>7. AppendHeader(q, n, g, t) = WithHeaders(q, n, [g EXCEPT ![n + 1] = Append(a, t)])
  BY <1>3 DEF AppendHeader, WithHeaders
<1> QED BY <1>3, <1>4, <1>6, <1>7 DEF q, g

(* The parts of a value are added behind the name.                         *)
AddsToValue(r, i, h, a, b, t) ==
  Callback(WithHeaders(r, i, h \o <<a, b>>), [kind |-> "value", text |-> t])
    = WithHeaders(r, Len(h) + 1, h \o <<a, Append(b, t)>>)

LEMMA ValueGoesOn ==
  ASSUME NEW T, NEW r \in HttpRequestOf(T), NEW h \in Seq(Seq(T)), Even(Len(h)),
         NEW a \in Seq(T), NEW b \in Seq(T), NEW t \in T, NEW i \in {Len(h), Len(h) + 1}
  PROVE  AddsToValue(r, i, h, a, b, t)
<1> DEFINE n == Len(h)
           g == h \o <<a, b>>
           q == WithHeaders(r, i, g)
<1>1. n \in Nat /\ i \in Nat BY LenProperties
<1>2. Append(b, t) \in Seq(T) BY AppendProperties
<1>3. /\ g \in Seq(Seq(T)) /\ g[n + 2] = b
      /\ [g EXCEPT ![n + 2] = Append(b, t)] = h \o <<a, Append(b, t)>>
  <2>1. PairBehind(g, Seq(T), h, a, b) BY PairAdded
  <2> QED BY <1>2, <2>1 DEF PairBehind
<1> HIDE DEF g
<1>4. q.headers = g /\ q.headers_index = i
      /\ \A j, k : WithHeaders(q, j, k) = WithHeaders(r, j, k)
  <2>1. i \in Nat /\ g \in Seq(Seq(T)) BY <1>1, <1>3
  <2>2. \A x \in Nat, y \in Seq(Seq(T)) :
          LET w == WithHeaders(r, x, y)
          IN w.headers = y /\ w.headers_index = x
             /\ \A j, k : WithHeaders(w, j, k) = WithHeaders(r, j, k)
    BY WithHeadersFields
  <2> QED BY <2>1, <2>2
<1> HIDE DEF q
<1>5. ValueIndex(q) = n + 1
  <2>1. n % 2 = 0 /\ (n + 1) % 2 = 1 BY <1>1, EvenIndex
  <2>2. CASE i = n BY <1>1, <1>4, <2>1, <2>2 DEF ValueIndex
  <2>3. CASE i = n + 1 BY <1>1, <1>4, <2>1, <2>3 DEF ValueIndex
  <2> QED BY <2>2, <2>3
<1>6. Callback(q, [kind |-> "value", text |-> t]) = AppendHeader(q, n + 1, g, t)
  BY <1>4, <1>5 DEF Callback, OnHeaderValue
<1>7. AppendHeader(q, n + 1, g, t) = WithHeaders(q, n + 1, [g EXCEPT ![n + 2] = Append(b, t)])
  <2>1. (n + 1) + 1 = n + 2 BY <1>1
  <2> QED BY <1>3, <2>1 DEF AppendHeader, WithHeaders
<1> QED BY <1>3, <1>4, <1>6, <1>7 DEF AddsToValue, q, g

(* A whole name, then a whole value: each has at least one part.           *)
LEMMA FieldAdded ==
  ASSUME NEW T, NEW r \in HttpRequestOf(T), Even(Len(r.headers)),
         r.headers_index = IndexAfter(Len(r.headers)),
         NEW a \in Seq(T), a # <<>>
  PROVE  AddData(r, Pieces("field", a))
           = WithHeaders(r, Len(r.headers), r.headers \o <<a, <<>>>>)
<1> DEFINE h == r.headers
           n == Len(h)
           with(w) == WithHeaders(r, n, h \o <<w, <<>>>>)
           U == {w \in Seq(T) : w # <<>> => AddData(r, Pieces("field", w)) = with(w)}
<1>1. <<>> \in U OBVIOUS
<1>2. ASSUME NEW w \in U, NEW t \in T PROVE Append(w, t) \in U
  <2> DEFINE p == [kind |-> "field", text |-> t]
  <2>1. Append(w, t) \in Seq(T) /\ w \in Seq(T) BY AppendProperties
  <2>2. AddData(r, Pieces("field", Append(w, t))) = Callback(AddData(r, Pieces("field", w)), p)
    <3>1. "field" \in Kinds BY DEF Kinds
    <3> QED BY <2>1, <3>1, OneMorePart
  <2>4. CASE w = <<>>
    <3>1. AddData(r, Pieces("field", w)) = r
      BY <2>4, AddNothing, PiecesOfNothing
    <3>2. Callback(r, p) = with(<<t>>) BY FieldBegins
    <3>3. Append(w, t) = <<t>> BY <2>4
    <3> HIDE DEF with, p
    <3> QED BY <2>1, <2>2, <3>1, <3>2, <3>3
  <2>5. CASE w # <<>>
    <3>1. AddData(r, Pieces("field", w)) = with(w) BY <2>5
    <3>2. h \in Seq(Seq(T)) BY RequestFields
    <3>3. Callback(with(w), p) = with(Append(w, t))
      <4> HIDE DEF h
      <4>1. Even(Len(h)) BY DEF h
      <4> QED BY <2>1, <3>2, <4>1, FieldGoesOn
    <3> HIDE DEF with, p
    <3> QED BY <2>1, <2>2, <3>1, <3>3
  <2> QED BY <2>4, <2>5
<1>3. U = Seq(T)
  <2>1. U \in SUBSET Seq(T) OBVIOUS
  <2> HIDE DEF U
  <2> QED BY <1>1, <1>2, <2>1, SeqInduction
<1> QED BY <1>3

LEMMA ValueAdded ==
  ASSUME NEW T, NEW r \in HttpRequestOf(T), NEW h \in Seq(Seq(T)), Even(Len(h)),
         NEW a \in Seq(T), NEW b \in Seq(T), b # <<>>
  PROVE  AddData(WithHeaders(r, Len(h), h \o <<a, <<>>>>), Pieces("value", b))
           = WithHeaders(r, Len(h) + 1, h \o <<a, b>>)
<1> DEFINE n == Len(h)
           q == WithHeaders(r, n, h \o <<a, <<>>>>)
           with(w) == WithHeaders(r, n + 1, h \o <<a, w>>)
           U == {w \in Seq(T) : w # <<>> => AddData(q, Pieces("value", w)) = with(w)}
<1>1. <<>> \in U OBVIOUS
<1>2. q \in HttpRequestOf(T)
  <2>1. <<>> \in Seq(T) /\ n \in Nat BY LenProperties
  <2>2. PairBehind(h \o <<a, <<>>>>, Seq(T), h, a, <<>>) BY <2>1, PairAdded
  <2>3. h \o <<a, <<>>>> \in Seq(Seq(T)) BY <2>2 DEF PairBehind
  <2> HIDE DEF n
  <2> QED BY <2>1, <2>3, WithHeadersFields
<1>3. ASSUME NEW w \in U, NEW t \in T PROVE Append(w, t) \in U
  <2> DEFINE p == [kind |-> "value", text |-> t]
  <2>0. \A y \in Seq(T) : AddsToValue(r, n, h, a, y, t) /\ AddsToValue(r, n + 1, h, a, y, t)
    BY ValueGoesOn
  <2>1. Append(w, t) \in Seq(T) /\ w \in Seq(T) BY AppendProperties
  <2>2. AddData(q, Pieces("value", Append(w, t))) = Callback(AddData(q, Pieces("value", w)), p)
    <3>1. "value" \in Kinds BY DEF Kinds
    <3> HIDE DEF q
    <3> QED BY <1>2, <2>1, <3>1, OneMorePart
  <2>4. CASE w = <<>>
    <3>1. AddData(q, Pieces("value", w)) = q
      <4> HIDE DEF q
      <4> QED BY <1>2, <2>4, AddNothing, PiecesOfNothing
    <3>2. Callback(q, p) = with(<<t>>)
      <4>1. <<>> \in Seq(T) /\ Append(<<>>, t) = <<t>> OBVIOUS
      <4>2. Callback(q, p) = WithHeaders(r, n + 1, h \o <<a, Append(<<>>, t)>>)
        BY <2>0, <4>1 DEF AddsToValue
      <4> QED BY <4>1, <4>2
    <3>3. Append(w, t) = <<t>> BY <2>4
    <3> HIDE DEF with, p, q
    <3> QED BY <2>1, <2>2, <3>1, <3>2, <3>3
  <2>5. CASE w # <<>>
    <3>1. AddData(q, Pieces("value", w)) = with(w) BY <2>5
    <3>2. Callback(with(w), p) = with(Append(w, t))
      BY <2>0, <2>1 DEF AddsToValue
    <3> HIDE DEF with, p, q
    <3> QED BY <2>1, <2>2, <3>1, <3>2
  <2> QED BY <2>4, <2>5
<1>4. U = Seq(T)
  <2>1. U \in SUBSET Seq(T) OBVIOUS
  <2> HIDE DEF U
  <2> QED BY <1>1, <1>3, <2>1, SeqInduction
<1> QED BY <1>4

LEMMA HeaderAdded ==
  ASSUME NEW T, NEW r \in HttpRequestOf(T), NEW i \in Nat, NEW h \in Seq(Seq(T)),
         Even(Len(h)), i = IndexAfter(Len(h)),
         NEW a \in Seq(T), NEW b \in Seq(T), a # <<>>, b # <<>>
  PROVE  AddData(AddData(WithHeaders(r, i, h), Pieces("field", a)), Pieces("value", b))
           = WithHeaders(r, Len(h) + 1, h \o <<a, b>>)
<1> DEFINE q == WithHeaders(r, i, h)
<1>1. /\ q \in HttpRequestOf(T) /\ q.headers = h /\ q.headers_index = i
      /\ \A j, g : WithHeaders(q, j, g) = WithHeaders(r, j, g)
  BY WithHeadersFields
<1> HIDE DEF q
<1>2. AddData(q, Pieces("field", a)) = WithHeaders(q, Len(h), h \o <<a, <<>>>>)
  BY <1>1, FieldAdded
<1>3. AddData(WithHeaders(r, Len(h), h \o <<a, <<>>>>), Pieces("value", b))
        = WithHeaders(r, Len(h) + 1, h \o <<a, b>>)
  BY ValueAdded
<1> QED BY <1>1, <1>2, <1>3 DEF q

(* The pieces of all headers, one string after the other                   *)
KindOf(n) == IF n % 2 = 1 THEN "field" ELSE "value"

LEMMA HeaderPiecesDef ==
  ASSUME NEW T, NEW hs \in Seq(Seq(T))
  PROVE  \E f : /\ f \in [0 .. Len(hs) -> Seq(PieceOf(T))] /\ f[0] = <<>>
                /\ \A n \in 1 .. Len(hs) : f[n] = f[n - 1] \o Pieces(KindOf(n), hs[n])
                /\ HeaderPieces(hs) = f[Len(hs)]
<1> DEFINE N == Len(hs)
           X == Seq(PieceOf(T))
           step == [n \in 1 .. N |-> [x \in X |-> x \o Pieces(KindOf(n), hs[n])]]
           Is(f) == f = [n \in 0 .. N |-> IF n = 0 THEN <<>>
                                          ELSE f[n - 1] \o Pieces(KindOf(n), hs[n])]
<1>1. N \in Nat /\ \A n \in 1 .. N : Pieces(KindOf(n), hs[n]) \in X
  <2>1. N \in Nat /\ \A n \in 1 .. N : hs[n] \in Seq(T)
    BY LenProperties, ElementOfSeq
  <2>2. \A n \in Nat : KindOf(n) \in Kinds BY DEF KindOf, Kinds
  <2> QED BY <2>1, <2>2, PiecesType
<1>2. IsStep(step, N, X)
  <2>1. \A n \in 1 .. N : \A x \in X : x \o Pieces(KindOf(n), hs[n]) \in X
    BY <1>1, ConcatProperties
  <2> HIDE DEF X, N
  <2> QED BY <2>1 DEF IsStep
<1>3. PICK g : Follows(g, N, X, <<>>, step)
  <2>1. N \in Nat BY <1>1
  <2>2. <<>> \in X OBVIOUS
  <2> HIDE DEF N, X, step
  <2> QED BY <1>2, <2>1, <2>2, StepwiseFunction
<1>4. \A n \in 1 .. N : g[n - 1] \in X /\ g[n] = g[n - 1] \o Pieces(KindOf(n), hs[n])
  <2> TAKE n \in 1 .. N
  <2>1. n - 1 \in 0 .. N BY <1>1
  <2>2. g[n - 1] \in X BY <1>3, <2>1 DEF Follows
  <2>3. step[n][g[n - 1]] = g[n - 1] \o Pieces(KindOf(n), hs[n])
    <3> HIDE DEF X
    <3> QED BY <2>2
  <2> QED BY <1>3, <2>2, <2>3 DEF Follows
<1>5. Is(g)
  <2> DEFINE k == [n \in 0 .. N |-> IF n = 0 THEN <<>>
                                    ELSE g[n - 1] \o Pieces(KindOf(n), hs[n])]
  <2>1. \A n \in 0 .. N : k[n] = g[n]
    <3> TAKE n \in 0 .. N
    <3>1. CASE n = 0 BY <1>3, <3>1 DEF Follows
    <3>2. CASE n # 0
      <4>1. n \in 1 .. N BY <1>1, <3>2
      <4> QED BY <1>4, <3>2, <4>1
    <3> QED BY <3>1, <3>2
  <2>2. k = [n \in 0 .. N |-> k[n]] /\ g = [n \in 0 .. N |-> g[n]] BY <1>3 DEF Follows
  <2> HIDE DEF k
  <2>3. g = k BY <2>1, <2>2
  <2> QED BY <2>3 DEF k
<1> DEFINE F == CHOOSE f : Is(f)
<1>6. Is(F) BY <1>5
<1>7. HeaderPieces(hs) = F[N] BY DEF HeaderPieces, KindOf
<1>8. /\ F \in [0 .. N -> X] /\ F[0] = <<>>
      /\ \A n \in 1 .. N : F[n] = F[n - 1] \o Pieces(KindOf(n), hs[n])
  <2> HIDE DEF F, X, step
  <2>1. \A n \in 0 .. N : F[n] = IF n = 0 THEN <<>>
                                 ELSE F[n - 1] \o Pieces(KindOf(n), hs[n])
    BY <1>6
  <2>2. F[0] = <<>> BY <1>1, <2>1
  <2>3. \A n \in 1 .. N : F[n] = F[n - 1] \o Pieces(KindOf(n), hs[n])
    <3> TAKE n \in 1 .. N
    <3>1. n \in 0 .. N /\ n # 0 BY <1>1
    <3> QED BY <2>1, <3>1
  <2> DEFINE S == {n \in Nat : n <= N => F[n] \in X}
  <2>4. 0 \in S
    <3>1. <<>> \in X BY DEF X
    <3> QED BY <2>2, <3>1
  <2>5. ASSUME NEW n \in S PROVE n + 1 \in S
    <3> SUFFICES ASSUME n + 1 <= N PROVE F[n + 1] \in X OBVIOUS
    <3>1. n \in Nat /\ n + 1 \in 1 .. N /\ n <= N /\ (n + 1) - 1 = n BY <1>1
    <3>2. F[n] \in X /\ Pieces(KindOf(n + 1), hs[n + 1]) \in X BY <1>1, <3>1
    <3>3. F[n + 1] = F[n] \o Pieces(KindOf(n + 1), hs[n + 1]) BY <2>3, <3>1
    <3> QED BY <3>2, <3>3, ConcatProperties DEF X
  <2>6. S = Nat
    <3>1. S \in SUBSET Nat OBVIOUS
    <3> HIDE DEF S
    <3> QED BY <2>4, <2>5, <3>1, NumberInduction
  <2>7. \A n \in 0 .. N : F[n] \in X BY <1>1, <2>6
  <2>8. F = [n \in 0 .. N |-> F[n]] BY <1>6
  <2> HIDE DEF S, X
  <2>9. F \in [0 .. N -> X] BY <2>7, <2>8
  <2> QED BY <2>2, <2>3, <2>9 DEF X
<1> QED BY <1>7, <1>8

LEMMA HeaderPiecesType ==
  ASSUME NEW T, NEW hs \in Seq(Seq(T))
  PROVE  HeaderPieces(hs) \in Seq(PieceOf(T))
<1>1. PICK f : /\ f \in [0 .. Len(hs) -> Seq(PieceOf(T))]
               /\ HeaderPieces(hs) = f[Len(hs)]
  BY HeaderPiecesDef
<1>2. Len(hs) \in 0 .. Len(hs) BY LenProperties
<1> QED BY <1>1, <1>2

LEMMA HeaderPiecesOfNothing == HeaderPieces(<<>>) = <<>>
<1>1. <<>> \in Seq(Seq({})) /\ Len(<<>>) = 0 OBVIOUS
<1>2. PICK f : f[0] = <<>> /\ HeaderPieces(<<>>) = f[Len(<<>>)]
  BY <1>1, HeaderPiecesDef
<1> QED BY <1>1, <1>2

LEMMA HeaderPiecesAppend ==
  ASSUME NEW T, NEW h \in Seq(Seq(T)), NEW a \in Seq(T)
  PROVE  HeaderPieces(Append(h, a)) = HeaderPieces(h) \o Pieces(KindOf(Len(h) + 1), a)
<1> DEFINE t == Append(h, a)
           m == Len(h)
<1>1. /\ t \in Seq(Seq(T)) /\ Len(t) = m + 1 /\ t[m + 1] = a
      /\ m \in Nat /\ \A i \in 1 .. m : t[i] = h[i]
  BY AppendProperties, LenProperties
<1>2. PICK f : /\ f[0] = <<>>
               /\ \A n \in 1 .. m : f[n] = f[n - 1] \o Pieces(KindOf(n), h[n])
               /\ HeaderPieces(h) = f[m]
  BY HeaderPiecesDef
<1> HIDE DEF t
<1>3. PICK g : /\ g[0] = <<>>
               /\ \A n \in 1 .. Len(t) : g[n] = g[n - 1] \o Pieces(KindOf(n), t[n])
               /\ HeaderPieces(t) = g[Len(t)]
  BY <1>1, HeaderPiecesDef
<1> DEFINE S == {n \in Nat : n <= m => f[n] = g[n]}
<1>4. 0 \in S BY <1>2, <1>3
<1>5. ASSUME NEW n \in S PROVE n + 1 \in S
  <2> SUFFICES ASSUME n + 1 <= m PROVE f[n + 1] = g[n + 1] OBVIOUS
  <2>1. /\ n \in Nat /\ n <= m /\ (n + 1) - 1 = n
        /\ n + 1 \in 1 .. m /\ n + 1 \in 1 .. Len(t)
    BY <1>1
  <2>2. f[n] = g[n] BY <2>1
  <2>3. f[n + 1] = f[n] \o Pieces(KindOf(n + 1), h[n + 1]) BY <1>2, <2>1
  <2>4. g[n + 1] = g[n] \o Pieces(KindOf(n + 1), t[n + 1]) BY <1>3, <2>1
  <2>5. t[n + 1] = h[n + 1] BY <1>1, <2>1
  <2> QED BY <2>2, <2>3, <2>4, <2>5
<1>6. S = Nat
  <2>1. S \in SUBSET Nat OBVIOUS
  <2> HIDE DEF S
  <2> QED BY <1>4, <1>5, <2>1, NumberInduction
<1>7. f[m] = g[m] BY <1>1, <1>6
<1>8. g[m + 1] = g[m] \o Pieces(KindOf(m + 1), a)
  <2>1. m + 1 \in 1 .. Len(t) /\ (m + 1) - 1 = m BY <1>1
  <2>2. g[m + 1] = g[(m + 1) - 1] \o Pieces(KindOf(m + 1), t[m + 1]) BY <1>3, <2>1
  <2> QED BY <1>1, <2>1, <2>2
<1> QED BY <1>1, <1>2, <1>3, <1>7, <1>8 DEF t

(* All headers of a request                                                *)
Whole(hs) == Even(Len(hs)) /\ \A i \in DOMAIN hs : hs[i] # <<>>

LEMMA HeadersAdded ==
  ASSUME NEW T, NEW r \in HttpRequestOf(T), r.headers = <<>>, r.headers_index = 0,
         NEW hs \in Seq(Seq(T)), Whole(hs)
  PROVE  AddData(r, HeaderPieces(hs)) = WithHeaders(r, IndexAfter(Len(hs)), hs)
<1> DEFINE E == Seq(T)
           Holds(h) == AddData(r, HeaderPieces(h)) = WithHeaders(r, IndexAfter(Len(h)), h)
           S == {j \in Nat : \A h \in Seq(E) : Len(h) = 2 * j /\ Whole(h) => Holds(h)}
<1>1. 0 \in S
  <2> SUFFICES ASSUME NEW h \in Seq(E), Len(h) = 2 * 0 PROVE Holds(h) OBVIOUS
  <2>1. h = <<>> BY EmptySeq
  <2>2. AddData(r, <<>>) = r BY AddNothing
  <2>3. WithHeaders(r, 0, <<>>) = r
    <3>1. WithHeaders(r, 0, <<>>) = RequestRecord(r.url, <<>>, 0, r.data, r.complete)
      <4> DEFINE e == <<>>
                 z == 0
      <4>1. z \in Nat /\ e \in Seq(Seq(T)) OBVIOUS
      <4> HIDE DEF S, Holds, E, e, z
      <4>2. WithHeaders(r, z, e) = RequestRecord(r.url, e, z, r.data, r.complete)
        BY <4>1, WithHeadersFields
      <4> QED BY <4>2 DEF e, z
    <3> QED BY <3>1, RequestFields DEF RequestRecord
  <2>4. IndexAfter(Len(h)) = 0 BY DEF IndexAfter
  <2> QED BY <2>1, <2>2, <2>3, <2>4, HeaderPiecesOfNothing
<1>2. ASSUME NEW j \in S PROVE j + 1 \in S
  <2> SUFFICES ASSUME NEW g \in Seq(E), Len(g) = 2 * (j + 1), Whole(g) PROVE Holds(g)
    OBVIOUS
  <2>1. j \in Nat /\ g # <<>> BY EmptySeq
  <2>2. PICK k \in Seq(E), b \in E : g = Append(k, b)
    BY <2>1, SequenceEmptyOrAppend
  <2>3. Len(k) = 2 * j + 1 /\ g[Len(k) + 1] = b /\ \A i \in 1 .. Len(k) : g[i] = k[i]
    BY <2>1, <2>2, AppendProperties, LenProperties
  <2>4. k # <<>> BY <2>1, <2>3, EmptySeq
  <2>5. PICK h \in Seq(E), a \in E : k = Append(h, a)
    BY <2>4, SequenceEmptyOrAppend
  <2>6. Len(h) = 2 * j /\ k[Len(h) + 1] = a /\ \A i \in 1 .. Len(h) : k[i] = h[i]
    BY <2>1, <2>3, <2>5, AppendProperties, LenProperties
  <2>7. DOMAIN g = 1 .. 2 * j + 2 /\ DOMAIN h = 1 .. 2 * j
    BY <2>1, <2>6, LenProperties
  <2>8. a # <<>> /\ b # <<>> /\ Whole(h)
    <3>1. \A i \in 1 .. 2 * j + 2 : g[i] # <<>> BY <2>7 DEF Whole
    <3>2. g[2 * j + 2] = b /\ g[2 * j + 1] = a
      <4> HIDE DEF S
      <4>1. Len(k) + 1 = 2 * j + 2 /\ Len(h) + 1 = 2 * j + 1 BY <2>1, <2>3, <2>6
      <4>2. Len(h) + 1 \in 1 .. Len(k) BY <2>1, <2>3, <2>6
      <4>3. g[Len(h) + 1] = k[Len(h) + 1] BY <2>3, <4>2
      <4> QED BY <2>3, <2>6, <4>1, <4>3
    <3>3. \A i \in 1 .. 2 * j : g[i] = h[i] /\ i \in 1 .. 2 * j + 2
      <4> HIDE DEF S
      <4>1. \A i \in 1 .. 2 * j : /\ i \in 1 .. Len(h) /\ i \in 1 .. Len(k)
                                  /\ i \in 1 .. 2 * j + 2
        BY <2>1, <2>3, <2>6
      <4> QED BY <2>3, <2>6, <4>1
    <3>4. Even(Len(h)) BY <2>1, <2>6 DEF Even
    <3> QED BY <2>1, <2>7, <3>1, <3>2, <3>3, <3>4 DEF Whole
  <2>9. Holds(h) BY <2>6, <2>8
  <2>10. g = h \o <<a, b>>
    <3>1. PairBehind(h \o <<a, b>>, E, h, a, b) BY PairAdded
    <3>2. \A i \in 1 .. Len(h) : (h \o <<a, b>>)[i] = h[i]
      <4>1. <<a, b>> \in Seq(E) OBVIOUS
      <4> QED BY <4>1, ConcatProperties, LenProperties
    <3>3. Len(g) = Len(h) + 2 /\ Len(h) \in Nat /\ g[Len(h) + 2] = b /\ g[Len(h) + 1] = a
      BY <2>1, <2>3, <2>6
    <3>4. \A i \in 1 .. Len(h) : g[i] = h[i] BY <2>1, <2>3, <2>6
    <3> DEFINE z == h \o <<a, b>>
    <3>5. z \in Seq(E) /\ Len(z) = Len(g) /\ z[Len(h) + 1] = a /\ z[Len(h) + 2] = b
          /\ \A i \in 1 .. Len(h) : z[i] = h[i]
      BY <3>1, <3>2, <3>3 DEF PairBehind
    <3> HIDE DEF z
    <3>6. ASSUME NEW i \in 1 .. Len(g) PROVE g[i] = z[i]
      <4> HIDE DEF S
      <4>1. i \in 1 .. Len(h) + 2 BY <3>3
      <4>2. \A n \in Nat : \A x \in 1 .. n + 2 : x \in 1 .. n \/ x = n + 1 \/ x = n + 2
        OBVIOUS
      <4>3. i \in 1 .. Len(h) \/ i = Len(h) + 1 \/ i = Len(h) + 2
        BY <3>3, <4>1, <4>2
      <4> QED BY <3>3, <3>4, <3>5, <4>3
    <3>7. g = z BY <3>5, <3>6, SeqEqual
    <3> QED BY <3>7 DEF z
  <2>11. HeaderPieces(g) = (HeaderPieces(h) \o Pieces("field", a)) \o Pieces("value", b)
    <3>1. Even(Len(h)) /\ Len(h) \in Nat /\ Len(k) = Len(h) + 1
      BY <2>1, <2>3, <2>6, <2>8 DEF Whole
    <3>2. KindOf(Len(h) + 1) = "field" /\ KindOf(Len(k) + 1) = "value"
      BY <2>1, <2>3, <2>6 DEF KindOf
    <3> QED BY <2>2, <2>5, <3>2, HeaderPiecesAppend
  <2> DEFINE q == WithHeaders(r, IndexAfter(Len(h)), h)
  <2>12. AddData(r, HeaderPieces(g)) = AddData(AddData(q, Pieces("field", a)), Pieces("value", b))
    <3> DEFINE u == HeaderPieces(h)
               v == Pieces("field", a)
               w == Pieces("value", b)
    <3>1. u \in Seq(PieceOf(T)) /\ v \in Seq(PieceOf(T)) /\ w \in Seq(PieceOf(T))
      BY HeaderPiecesType, PiecesType DEF Kinds
    <3>2. AddData(r, u) = q BY <2>9
    <3> HIDE DEF u, v, w, q
    <3>3. u \o v \in Seq(PieceOf(T)) BY <3>1, ConcatProperties
    <3> DEFINE x == u \o v
    <3>4. AddData(r, x \o w) = AddData(AddData(r, x), w)
      <4>1. x \in Seq(PieceOf(T)) BY <3>3
      <4> HIDE DEF x
      <4> QED BY <3>1, <4>1, AddDataConcat
    <3>5. AddData(r, u \o v) = AddData(AddData(r, u), v)
      BY <3>1, AddDataConcat
    <3> QED BY <2>11, <3>2, <3>4, <3>5 DEF u, v, w
  <2>13. AddData(AddData(q, Pieces("field", a)), Pieces("value", b))
           = WithHeaders(r, Len(h) + 1, h \o <<a, b>>)
    <3>1. Len(h) \in Nat /\ Even(Len(h)) BY <2>1, <2>6, <2>8 DEF Whole
    <3>2. IndexAfter(Len(h)) \in Nat BY <3>1, EvenIndex
    <3> QED BY <2>8, <3>1, <3>2, HeaderAdded
  <2>14. IndexAfter(Len(g)) = Len(h) + 1
    <3> HIDE DEF S
    <3>1. Len(g) # 0 /\ Len(g) - 1 = 2 * j + 1 BY <2>1
    <3> QED BY <2>6, <3>1 DEF IndexAfter
  <2> QED BY <2>10, <2>12, <2>13, <2>14
<1>3. S = Nat
  <2>1. S \in SUBSET Nat OBVIOUS
  <2> HIDE DEF S
  <2> QED BY <1>1, <1>2, <2>1, NumberInduction
<1>4. PICK j \in Nat : Len(hs) = 2 * j BY DEF Whole, Even
<1> QED BY <1>3, <1>4

-----------------------------------------------------------------------------
(* A whole request                                                         *)
Sent(T) == [url : Seq(T), headers : Seq(Seq(T)), body : Seq(T), disconnect : BOOLEAN]
End == [kind |-> "end"]
AllButEnd(q) == Pieces("url", q.url) \o HeaderPieces(q.headers) \o Pieces("body", q.body)

LEMMA StreamType ==
  ASSUME NEW T, NEW q \in Sent(T)
  PROVE  /\ AllButEnd(q) \in Seq(PieceOf(T)) /\ Stream(q) \in Seq(PieceOf(T))
         /\ Stream(q) = Append(AllButEnd(q), End) /\ Len(Stream(q)) = Len(AllButEnd(q)) + 1
<1> DEFINE E == PieceOf(T)
           u == Pieces("url", q.url)
           h == HeaderPieces(q.headers)
           b == Pieces("body", q.body)
<1>1. u \in Seq(E) /\ h \in Seq(E) /\ b \in Seq(E)
  BY PiecesType, HeaderPiecesType DEF Kinds, Sent
<1> HIDE DEF u, h, b
<1>2. u \o h \in Seq(E) BY <1>1, ConcatProperties
<1>3. (u \o h) \o b \in Seq(E) BY <1>1, <1>2, ConcatProperties
<1>4. AllButEnd(q) = (u \o h) \o b BY DEF AllButEnd, u, h, b
<1>5. AllButEnd(q) \in Seq(E) BY <1>3, <1>4
<1>6. End \in E BY DEF End, PieceOf
<1>7. Stream(q) = AllButEnd(q) \o <<End>> BY DEF Stream, AllButEnd, End
<1> HIDE DEF E
<1>8. Append(AllButEnd(q), End) = AllButEnd(q) \o <<End>> BY <1>5, <1>6, AppendIsConcat
<1>9. /\ Append(AllButEnd(q), End) \in Seq(E)
      /\ Len(Append(AllButEnd(q), End)) = Len(AllButEnd(q)) + 1
  BY <1>5, <1>6, AppendProperties
<1> QED BY <1>5, <1>7, <1>8, <1>9 DEF E

LEMMA NewRequestType ==
  ASSUME NEW T
  PROVE  NewRequest \in HttpRequestOf(T)
BY DEF NewRequest, HttpRequestOf

PutTogether(q, complete) ==
  RequestRecord(q.url, q.headers, IndexAfter(Len(q.headers)), q.body, complete)

LEMMA AllButEndGives ==
  ASSUME NEW T, NEW q \in Sent(T), Whole(q.headers)
  PROVE  AddData(NewRequest, AllButEnd(q)) = PutTogether(q, FALSE)
<1> DEFINE u == Pieces("url", q.url)
           h == HeaderPieces(q.headers)
           b == Pieces("body", q.body)
           i == IndexAfter(Len(q.headers))
<1>1. q.url \in Seq(T) /\ q.headers \in Seq(Seq(T)) /\ q.body \in Seq(T) BY DEF Sent
<1>2. /\ u \in Seq(PieceOf(T)) /\ h \in Seq(PieceOf(T)) /\ b \in Seq(PieceOf(T))
      /\ u \o h \in Seq(PieceOf(T))
  BY <1>1, PiecesType, HeaderPiecesType, ConcatProperties DEF Kinds
<1>3. i \in Nat
  <2>1. Len(q.headers) \in Nat /\ Even(Len(q.headers)) BY <1>1, LenProperties DEF Whole
  <2> QED BY <2>1, EvenIndex
<1> DEFINE r1 == RequestRecord(q.url, <<>>, 0, <<>>, FALSE)
           r2 == RequestRecord(q.url, q.headers, i, <<>>, FALSE)
<1>4. NewRequest \in HttpRequestOf(T) BY NewRequestType
<1>5. r1 \in HttpRequestOf(T) BY <1>1 DEF HttpRequestOf, RequestRecord
<1>6. AddData(NewRequest, u) = r1
  <2>1. NewRequest.url = <<>> BY DEF NewRequest
  <2>2. AddData(NewRequest, u) = [NewRequest EXCEPT !.url = q.url]
    BY <1>1, <1>4, <2>1, UrlAdded
  <2> QED BY <2>2 DEF NewRequest, RequestRecord
<1>7. AddData(r1, h) = r2 /\ r2 \in HttpRequestOf(T)
  <2>1. r1.headers = <<>> /\ r1.headers_index = 0 /\ r1.url = q.url /\ r1.data = <<>>
        /\ r1.complete = FALSE
    BY DEF RequestRecord
  <2> HIDE DEF r1
  <2>2. AddData(r1, h) = WithHeaders(r1, i, q.headers)
    BY <1>1, <1>5, <2>1, HeadersAdded
  <2> HIDE DEF i
  <2>3. /\ WithHeaders(r1, i, q.headers)
             = RequestRecord(r1.url, q.headers, i, r1.data, r1.complete)
        /\ WithHeaders(r1, i, q.headers) \in HttpRequestOf(T)
    BY <1>1, <1>3, <1>5, WithHeadersFields
  <2> QED BY <2>1, <2>2, <2>3
<1>8. AddData(r2, b) = PutTogether(q, FALSE)
  <2>1. r2.data = <<>> BY DEF RequestRecord
  <2>2. [r2 EXCEPT !.data = q.body] = PutTogether(q, FALSE)
    <3> DEFINE body == q.body
               url == q.url
               hs == q.headers
               whole == PutTogether(q, FALSE)
               no == FALSE
    <3>1. r2 = [url |-> url, headers |-> hs, headers_index |-> i, data |-> <<>>,
                complete |-> no]
      BY DEF RequestRecord
    <3>2. whole = [url |-> url, headers |-> hs, headers_index |-> i,
                   data |-> body, complete |-> no]
      BY DEF PutTogether, RequestRecord
    <3> HIDE DEF i, body, url, hs, r2, whole, no
    <3>3. [r2 EXCEPT !.data = body] = whole BY <3>1, <3>2
    <3> QED BY <3>3 DEF body, whole
  <2>3. r2 \in HttpRequestOf(T) /\ q.body \in Seq(T) BY <1>1, <1>7
  <2> HIDE DEF r2
  <2>4. AddData(r2, b) = [r2 EXCEPT !.data = q.body] BY <2>1, <2>3, BodyAdded
  <2> QED BY <2>2, <2>4
<1>9. AddData(NewRequest, u \o h) = r2
  <2> HIDE DEF u, h, r1, r2
  <2> QED BY <1>2, <1>4, <1>6, <1>7, AddDataConcat
<1> DEFINE uh == u \o h
<1>10. AddData(NewRequest, uh \o b) = AddData(AddData(NewRequest, uh), b)
  <2>1. uh \in Seq(PieceOf(T)) BY <1>2
  <2> HIDE DEF uh, b
  <2> QED BY <1>2, <1>4, <2>1, AddDataConcat
<1> QED BY <1>8, <1>9, <1>10 DEF AllButEnd

LEMMA StreamGives ==
  ASSUME NEW T, NEW q \in Sent(T), Whole(q.headers)
  PROVE  AddData(NewRequest, Stream(q)) = PutTogether(q, TRUE)
<1>1. NewRequest \in HttpRequestOf(T) /\ End \in PieceOf(T)
  BY NewRequestType DEF End, PieceOf
<1>2. AddData(NewRequest, Append(AllButEnd(q), End)) = Callback(AddData(NewRequest, AllButEnd(q)), End)
  BY <1>1, StreamType, AddOne
<1>3. Callback(PutTogether(q, FALSE), End) = PutTogether(q, TRUE)
  BY DEF Callback, End, OnMessageComplete, PutTogether, RequestRecord
<1> QED BY <1>2, <1>3, AllButEndGives, StreamType

(* A request that is complete stays so: it is not before its end.          *)
LEMMA StaysComplete ==
  ASSUME NEW T, NEW r \in HttpRequestOf(T), r.complete, NEW s \in Seq(PieceOf(T))
  PROVE  AddData(r, s).complete
<1> DEFINE E == PieceOf(T)
           U == {w \in Seq(E) : AddData(r, w).complete}
<1>1. <<>> \in U BY AddNothing
<1>2. ASSUME NEW w \in U, NEW p \in E PROVE Append(w, p) \in U
  <2>1. Append(w, p) \in Seq(E) /\ w \in Seq(PieceOf(T)) BY AppendProperties
  <2>2. AddData(r, w) \in HttpRequestOf(T) /\ AddData(r, w).complete
    BY <2>1, AddDataType
  <2>3. AddData(r, Append(w, p)) = Callback(AddData(r, w), p) BY <2>1, AddOne
  <2>4. ASSUME NEW q \in HttpRequestOf(T), q.complete PROVE Callback(q, p).complete
    <3>1. \A i, hs, t : AppendHeader(q, i, hs, t).complete = q.complete
      BY <2>4 DEF AppendHeader, HttpRequestOf
    <3>2. CASE p.kind = "url" BY <2>4, <3>2 DEF Callback, OnUrl, HttpRequestOf
    <3>3. CASE p.kind = "field" BY <2>4, <3>1, <3>3 DEF Callback, OnHeaderField
    <3>4. CASE p.kind = "value" BY <2>4, <3>1, <3>4 DEF Callback, OnHeaderValue
    <3>5. CASE p.kind = "body" BY <2>4, <3>5 DEF Callback, OnBody, HttpRequestOf
    <3>6. CASE p.kind = "end" BY <2>4, <3>6 DEF Callback, OnMessageComplete, HttpRequestOf
    <3> QED BY <3>2, <3>3, <3>4, <3>5, <3>6 DEF PieceOf
  <2> QED BY <2>1, <2>2, <2>3, <2>4
<1>3. U = Seq(E)
  <2>1. U \in SUBSET Seq(E) OBVIOUS
  <2> HIDE DEF U, E
  <2> QED BY <1>1, <1>2, <2>1, SeqInduction
<1> QED BY <1>3

LEMMA NotBeforeTheEnd ==
  ASSUME NEW T, NEW q \in Sent(T), Whole(q.headers), NEW k \in 0 .. Len(Stream(q)),
         AddData(NewRequest, SubSeq(Stream(q), 1, k)).complete
  PROVE  k = Len(Stream(q))
<1> DEFINE s == Stream(q)
           f == AllButEnd(q)
           n == Len(f)
<1>1. /\ f \in Seq(PieceOf(T)) /\ s = Append(f, End) /\ s \in Seq(PieceOf(T))
      /\ Len(s) = n + 1 /\ n \in Nat
  BY StreamType, LenProperties
<1> SUFFICES ASSUME k # Len(s) PROVE FALSE OBVIOUS
<1>2. AddData(NewRequest, f) = PutTogether(q, FALSE) BY AllButEndGives
<1> HIDE DEF s, f
<1>3. k \in 0 .. n BY <1>1 DEF s
<1>4. \A i \in 1 .. n : s[i] = f[i]
  <2>1. End \in PieceOf(T) BY DEF End, PieceOf
  <2> QED BY <1>1, <2>1, AppendProperties
<1> DEFINE a == SubSeq(f, 1, k)
           b == SubSeq(f, k + 1, n)
<1>5. SubSeq(s, 1, k) = a
  <2>1. \A i \in 1 .. k : i \in 1 .. n /\ s[i] = f[i] BY <1>1, <1>3, <1>4
  <2>2. \A i \in 1 .. k : s[i] \in PieceOf(T) /\ f[i] \in PieceOf(T)
    BY <1>1, <2>1, ElementOfSeq
  <2>3. k \in Int /\ 1 \in Int /\ k \in Nat BY <1>1, <1>3
  <2>4. /\ SubSeq(s, 1, k) \in Seq(PieceOf(T)) /\ a \in Seq(PieceOf(T))
        /\ Len(SubSeq(s, 1, k)) = k /\ Len(a) = k
        /\ \A i \in 1 .. k : SubSeq(s, 1, k)[i] = s[i] /\ a[i] = f[i]
    BY <2>2, <2>3, SubSeqProperties
  <2> QED BY <2>1, <2>4, SeqEqual
<1>6. a \in Seq(PieceOf(T)) /\ b \in Seq(PieceOf(T)) /\ a \o b = f
  <2>1. \A i \in 1 .. n : f[i] \in PieceOf(T) BY <1>1, ElementOfSeq
  <2>2. \A i \in 1 .. k : i \in 1 .. n BY <1>1, <1>3
  <2>3. \A i \in k + 1 .. n : i \in 1 .. n BY <1>1, <1>3
  <2>4. k \in Int /\ k + 1 \in Int /\ n \in Int BY <1>1, <1>3
  <2>5. a \in Seq(PieceOf(T)) /\ b \in Seq(PieceOf(T))
    BY <2>1, <2>2, <2>3, <2>4, SubSeqProperties
  <2>6. a \o b = SubSeq(f, 1, n)
    <3>1. 1 \in 1 .. Len(f) + 1 /\ k \in 1 - 1 .. Len(f) /\ n \in k .. Len(f)
      BY <1>1, <1>3
    <3> QED BY <1>1, <3>1, ConcatAdjacentSubSeq
  <2> QED BY <1>1, <2>5, <2>6, SubSeqFull
<1>7. AddData(NewRequest, a).complete BY <1>5 DEF s
<1>8. AddData(NewRequest, f).complete
  <2>1. NewRequest \in HttpRequestOf(T) BY NewRequestType
  <2>5. a \in Seq(PieceOf(T)) /\ b \in Seq(PieceOf(T)) BY <1>6
  <2> HIDE DEF a, b, n
  <2>2. AddData(NewRequest, a) \in HttpRequestOf(T) BY <1>6, <2>1, AddDataType
  <2>3. AddData(AddData(NewRequest, a), b).complete
    BY <1>6, <1>7, <2>2, StaysComplete
  <2>4. AddData(NewRequest, a \o b) = AddData(AddData(NewRequest, a), b)
    BY <2>1, <2>5, AddDataConcat
  <2> QED BY <1>6, <2>3, <2>4
<1> QED BY <1>2, <1>8 DEF PutTogether, RequestRecord

-----------------------------------------------------------------------------
(* What has come of the stream s of a request: k pieces are in the request *)
(* of the slot, m - k wait in the socket, and the sender has the rest, or  *)
(* sends no more.                                                          *)
SoFar(s, k) == IF k = 0 THEN NULL ELSE AddData(NewRequest, SubSeq(s, 1, k))
CameTo(s, k, m, request, t, whole) ==
  /\ request = SoFar(s, k)
  /\ t.unread = SubSeq(s, k + 1, m)
  /\ t.closed = "no" => t.left \in {SubSeq(s, m + 1, Len(s)), <<>>}
  /\ whole => k = Len(s) /\ k > 0
Came(s, request, t, whole) ==
  \E k \in 0 .. Len(s) : \E m \in k .. Len(s) : CameTo(s, k, m, request, t, whole)

LEMMA PartOfSeq ==
  ASSUME NEW E, NEW s \in Seq(E), NEW k \in 0 .. Len(s), NEW m \in k .. Len(s)
  PROVE  /\ SubSeq(s, k + 1, m) \in Seq(E) /\ Len(SubSeq(s, k + 1, m)) = m - k
         /\ \A i \in 1 .. m - k : SubSeq(s, k + 1, m)[i] = s[k + i]
<1>1. Len(s) \in Nat /\ k \in Nat /\ m \in Nat /\ k <= m /\ m <= Len(s)
  BY LenProperties
<1>2. \A i \in k + 1 .. m : s[i] \in E
  <2>1. \A i \in k + 1 .. m : i \in 1 .. Len(s) BY <1>1
  <2> QED BY <2>1, ElementOfSeq
<1>3. k + 1 \in Int /\ m \in Int BY <1>1
<1>4. /\ SubSeq(s, k + 1, m) \in Seq(E)
      /\ Len(SubSeq(s, k + 1, m)) = IF k + 1 <= m THEN m - (k + 1) + 1 ELSE 0
      /\ \A i \in 1 .. m - (k + 1) + 1 : SubSeq(s, k + 1, m)[i] = s[(k + 1) + i - 1]
  BY <1>2, <1>3, SubSeqProperties
<1>5. m - (k + 1) + 1 = m - k BY <1>1
<1>6. (IF k + 1 <= m THEN m - (k + 1) + 1 ELSE 0) = m - k BY <1>1
<1>7. \A i \in 1 .. m - k : (k + 1) + i - 1 = k + i BY <1>1
<1> QED BY <1>4, <1>5, <1>6, <1>7

(* A part is cut once more.                                                *)
LEMMA PartOfPart ==
  ASSUME NEW E, NEW s \in Seq(E), NEW k \in 0 .. Len(s), NEW m \in k .. Len(s),
         NEW j \in 0 .. m - k
  PROVE  /\ SubSeq(SubSeq(s, k + 1, m), 1, j) = SubSeq(s, k + 1, k + j)
         /\ SubSeq(SubSeq(s, k + 1, m), j + 1, m - k) = SubSeq(s, (k + j) + 1, m)
<1> DEFINE u == SubSeq(s, k + 1, m)
           a == SubSeq(u, 1, j)
           b == SubSeq(u, j + 1, m - k)
           c == SubSeq(s, k + 1, k + j)
           d == SubSeq(s, (k + j) + 1, m)
<1>1. Len(s) \in Nat /\ k \in Nat /\ m \in Nat /\ k <= m /\ m <= Len(s)
      /\ j \in Nat /\ j <= m - k
  BY LenProperties
<1>2. /\ u \in Seq(E) /\ Len(u) = m - k
      /\ \A i \in 1 .. m - k : u[i] = s[k + i]
  BY PartOfSeq
<1>3. k + j \in k .. Len(s) /\ k + j \in 0 .. Len(s) /\ m \in k + j .. Len(s) BY <1>1
<1>4. /\ c \in Seq(E) /\ Len(c) = (k + j) - k
      /\ \A i \in 1 .. (k + j) - k : c[i] = s[k + i]
  BY <1>3, PartOfSeq
<1>5. /\ d \in Seq(E) /\ Len(d) = m - (k + j)
      /\ \A i \in 1 .. m - (k + j) : d[i] = s[(k + j) + i]
  BY <1>3, PartOfSeq
<1> HIDE DEF u, c, d
<1>6. /\ 0 \in 0 .. Len(u) /\ j \in 0 .. Len(u) /\ Len(u) \in j .. Len(u) BY <1>1, <1>2
<1>7. /\ a \in Seq(E) /\ Len(a) = j /\ \A i \in 1 .. j : a[i] = u[i]
  <2> DEFINE z == 0
  <2>1. z \in 0 .. Len(u) /\ j \in z .. Len(u) BY <1>6
  <2> HIDE DEF z
  <2>2. /\ SubSeq(u, z + 1, j) \in Seq(E) /\ Len(SubSeq(u, z + 1, j)) = j - z
        /\ \A i \in 1 .. j - z : SubSeq(u, z + 1, j)[i] = u[z + i]
    BY <1>2, <2>1, PartOfSeq
  <2>3. z + 1 = 1 /\ j - z = j /\ \A i \in 1 .. j : z + i = i BY <1>1 DEF z
  <2> QED BY <2>2, <2>3
<1>8. /\ b \in Seq(E) /\ Len(b) = (m - k) - j
      /\ \A i \in 1 .. (m - k) - j : b[i] = u[j + i]
  <2>1. /\ SubSeq(u, j + 1, Len(u)) \in Seq(E)
        /\ Len(SubSeq(u, j + 1, Len(u))) = Len(u) - j
        /\ \A i \in 1 .. Len(u) - j : SubSeq(u, j + 1, Len(u))[i] = u[j + i]
    BY <1>2, <1>6, PartOfSeq
  <2> QED BY <1>2, <2>1
<1> HIDE DEF a, b
<1>9. a = c
  <2>1. Len(a) = Len(c) BY <1>1, <1>4, <1>7
  <2>2. \A i \in 1 .. Len(a) : i \in 1 .. m - k /\ i \in 1 .. j /\ i \in 1 .. (k + j) - k
    BY <1>1, <1>7
  <2>3. \A i \in 1 .. Len(a) : a[i] = c[i] BY <1>2, <1>4, <1>7, <2>2
  <2> QED BY <1>4, <1>7, <2>1, <2>3, SeqEqual
<1>10. b = d
  <2>1. Len(b) = Len(d) BY <1>1, <1>5, <1>8
  <2>2. \A i \in 1 .. Len(b) : /\ j + i \in 1 .. m - k /\ i \in 1 .. (m - k) - j
                               /\ i \in 1 .. m - (k + j) /\ k + (j + i) = (k + j) + i
    BY <1>1, <1>8
  <2>3. \A i \in 1 .. Len(b) : b[i] = d[i] BY <1>2, <1>5, <1>8, <2>2
  <2> QED BY <1>5, <1>8, <2>1, <2>3, SeqEqual
<1> QED BY <1>9, <1>10 DEF a, b, c, d, u

(* The next piece goes over to the part before it.                         *)
LEMMA PartGrows ==
  ASSUME NEW E, NEW s \in Seq(E), NEW k \in 0 .. Len(s), NEW m \in k .. Len(s),
         SubSeq(s, m + 1, Len(s)) # <<>>
  PROVE  /\ m + 1 \in k .. Len(s)
         /\ Append(SubSeq(s, k + 1, m), Head(SubSeq(s, m + 1, Len(s))))
              = SubSeq(s, k + 1, m + 1)
         /\ Tail(SubSeq(s, m + 1, Len(s))) = SubSeq(s, (m + 1) + 1, Len(s))
<1>1. Len(s) \in Nat /\ k \in Nat /\ m \in Nat /\ k <= m /\ m <= Len(s)
  BY LenProperties
<1>2. m < Len(s)
  <2>1. m + 1 \in Int /\ Len(s) \in Int /\ (Len(s) < m + 1 => SubSeq(s, m + 1, Len(s)) = <<>>)
    BY <1>1, SubSeqEmpty
  <2> QED BY <1>1, <2>1
<1>3. /\ m + 1 \in 1 .. Len(s) /\ Len(s) \in m + 1 .. Len(s)
      /\ m + 1 \in k .. Len(s)
  BY <1>1, <1>2
<1>4. /\ Head(SubSeq(s, m + 1, Len(s))) = s[m + 1]
      /\ Tail(SubSeq(s, m + 1, Len(s))) = SubSeq(s, (m + 1) + 1, Len(s))
  BY <1>3, HeadTailOfSubSeq
<1> DEFINE u == SubSeq(s, k + 1, m)
           v == SubSeq(s, k + 1, m + 1)
           e == s[m + 1]
           w == Append(u, e)
<1>5. /\ u \in Seq(E) /\ Len(u) = m - k /\ \A i \in 1 .. m - k : u[i] = s[k + i]
  BY PartOfSeq
<1>6. /\ v \in Seq(E) /\ Len(v) = (m + 1) - k
      /\ \A i \in 1 .. (m + 1) - k : v[i] = s[k + i]
  BY <1>3, PartOfSeq
<1>7. e \in E BY <1>3, ElementOfSeq
<1> HIDE DEF u, v, e
<1>8. /\ w \in Seq(E) /\ Len(w) = Len(u) + 1 /\ w[Len(u) + 1] = e
      /\ \A i \in 1 .. Len(u) : w[i] = u[i]
  BY <1>5, <1>7, AppendProperties
<1> HIDE DEF w
<1>9. w = v
  <2>1. Len(w) = Len(v) BY <1>1, <1>5, <1>6, <1>8
  <2>2. ASSUME NEW i \in 1 .. Len(w) PROVE w[i] = v[i]
    <3>1. /\ i \in 1 .. (m + 1) - k
          /\ i \in 1 .. m - k \/ i = (m - k) + 1
      BY <1>1, <1>5, <1>8
    <3>2. v[i] = s[k + i] BY <1>6, <3>1
    <3>3. CASE i \in 1 .. m - k BY <1>5, <1>8, <3>2, <3>3
    <3>4. CASE i = (m - k) + 1
      <4>1. k + i = m + 1 BY <1>1, <3>4
      <4> QED BY <1>5, <1>8, <3>2, <3>4, <4>1 DEF e
    <3> QED BY <3>1, <3>3, <3>4
  <2> QED BY <1>6, <1>8, <2>1, <2>2, SeqEqual
<1> QED BY <1>3, <1>4, <1>9 DEF w, u, v, e

-----------------------------------------------------------------------------
(* The streams of this server's connections.                               *)
IsStream(s) ==
  s = <<>> \/ \E q \in Sent(Text) : Whole(q.headers) /\ s = Stream(q)

LEMMA NextIsStream ==
  ASSUME NEW c \in Conn, NEW n \in Nat
  PROVE  /\ IsStream(NextRequest(c, n))
         /\ NextRequest(c, n) # <<>> =>
              /\ Requests[c][n + 1] \in Sent(Text) /\ Whole(Requests[c][n + 1].headers)
              /\ NextRequest(c, n) = Stream(Requests[c][n + 1])
<1>1. CASE ~(n < Len(Requests[c])) BY <1>1 DEF NextRequest, IsStream
<1>2. CASE n < Len(Requests[c])
  <2> DEFINE q == Requests[c][n + 1]
  <2>1. Requests[c] \in Seq(Sent(Text)) BY RequestsAssumption DEF Sent
  <2>2. n + 1 \in 1 .. Len(Requests[c]) /\ n + 1 \in DOMAIN Requests[c]
    BY <1>2, <2>1, LenProperties
  <2>3. q \in Sent(Text) BY <2>1, <2>2, ElementOfSeq
  <2>4. Len(q.headers) % 2 = 0 /\ \A i \in DOMAIN q.headers : q.headers[i] # <<>>
    BY <2>2, RequestsAssumption
  <2>5. Whole(q.headers)
    <3>1. Len(q.headers) \in Nat
      <4>1. q.headers \in Seq(Seq(Text)) BY <2>3 DEF Sent
      <4> QED BY <4>1, LenProperties
    <3>2. \A l \in Nat : l % 2 = 0 => Even(l) BY DEF Even
    <3> QED BY <2>4, <3>1, <3>2 DEF Whole
  <2>6. NextRequest(c, n) = Stream(q) BY <1>2 DEF NextRequest
  <2> QED BY <2>3, <2>5, <2>6 DEF IsStream
<1> QED BY <1>1, <1>2

LEMMA StreamIsSeq ==
  ASSUME NEW s, IsStream(s)
  PROVE  s \in Seq(PieceOf(Text))
<1>1. CASE s = <<>> BY <1>1
<1>2. ASSUME NEW q \in Sent(Text), s = Stream(q) PROVE s \in Seq(PieceOf(Text))
  BY <1>2, StreamType
<1> QED BY <1>1, <1>2 DEF IsStream

LEMMA RequestIsNot ==
  ASSUME NEW r \in HttpRequestOf(Text)
  PROVE  r # NULL
BY HttpdAssumption

LEMMA SoFarGrows ==
  ASSUME NEW s, IsStream(s), NEW k \in 0 .. Len(s), NEW m \in k .. Len(s),
         NEW j \in 1 .. m - k
  PROVE  /\ k + j \in 1 .. Len(s)
         /\ AddData(IF SoFar(s, k) = NULL THEN NewRequest ELSE SoFar(s, k),
                    SubSeq(s, k + 1, k + j)) = SoFar(s, k + j)
<1> DEFINE E == PieceOf(Text)
           u == SubSeq(s, 1, k)
           v == SubSeq(s, k + 1, k + j)
<1>1. s \in Seq(PieceOf(Text)) BY StreamIsSeq
<1>2. /\ Len(s) \in Nat /\ k \in Nat /\ m \in Nat /\ j \in Nat /\ j > 0
      /\ k + j <= Len(s) /\ k + j \in 1 .. Len(s) /\ k + j \in k .. Len(s)
      /\ k + j \in 0 .. Len(s) /\ 1 \in 1 .. Len(s) + 1 /\ k \in 1 - 1 .. Len(s)
  BY <1>1, LenProperties
<1>3. v \in Seq(PieceOf(Text)) BY <1>1, <1>2, PartOfSeq
<1>4. u \in Seq(PieceOf(Text))
  <2> DEFINE z == 0
  <2>1. z \in 0 .. Len(s) /\ k \in z .. Len(s) /\ z + 1 = 1 BY <1>2
  <2> HIDE DEF z
  <2>2. SubSeq(s, z + 1, k) \in Seq(PieceOf(Text)) BY <1>1, <2>1, PartOfSeq
  <2> QED BY <2>1, <2>2
<1>5. u \o v = SubSeq(s, 1, k + j) BY <1>1, <1>2, ConcatAdjacentSubSeq
<1>6. NewRequest \in HttpRequestOf(Text) BY NewRequestType
<1>7. k + j # 0 /\ SoFar(s, k + j) = AddData(NewRequest, SubSeq(s, 1, k + j))
  BY <1>2 DEF SoFar
<1>8. CASE k = 0
  <2>1. SoFar(s, k) = NULL BY <1>8 DEF SoFar
  <2>2. k + 1 = 1 BY <1>8
  <2> QED BY <1>2, <1>7, <2>1, <2>2
<1>9. CASE k # 0
  <2> HIDE DEF u, v
  <2>1. SoFar(s, k) = AddData(NewRequest, u) BY <1>9 DEF SoFar, u
  <2>2. AddData(NewRequest, u) # NULL BY <1>4, <1>6, AddDataType, RequestIsNot
  <2>3. AddData(NewRequest, u \o v) = AddData(AddData(NewRequest, u), v)
    BY <1>3, <1>4, <1>6, AddDataConcat
  <2> QED BY <1>2, <1>5, <1>7, <2>1, <2>2, <2>3 DEF v
<1> QED BY <1>8, <1>9

(* A request that is complete has come to the end of its stream.           *)
LEMMA CompleteIsWhole ==
  ASSUME NEW s, IsStream(s), NEW k \in 1 .. Len(s), SoFar(s, k).complete
  PROVE  k = Len(s)
<1>1. s # <<>>
  <2>1. CASE s = <<>> BY <2>1
  <2> QED BY <2>1
<1>2. PICK q \in Sent(Text) : Whole(q.headers) /\ s = Stream(q)
  BY <1>1 DEF IsStream
<1>3. k \in 0 .. Len(Stream(q)) /\ k # 0
  <2>1. Len(s) \in Nat BY StreamIsSeq, LenProperties
  <2> QED BY <1>2, <2>1
<1>4. AddData(NewRequest, SubSeq(Stream(q), 1, k)).complete
  BY <1>2, <1>3 DEF SoFar
<1> QED BY <1>2, <1>3, <1>4, NotBeforeTheEnd

(* Nothing of it has come to the server's memory.                          *)
LEMMA NothingCame ==
  ASSUME NEW s, IsStream(s), NEW t, t.unread = <<>>,
         t.closed = "no" => t.left \in {s, <<>>}
  PROVE  Came(s, NULL, t, FALSE)
<1>1. s \in Seq(PieceOf(Text)) BY StreamIsSeq
<1>2. Len(s) \in Nat /\ 0 \in 0 .. Len(s) /\ 0 \in 0 .. 0
  BY <1>1, LenProperties
<1>3. SubSeq(s, 0 + 1, Len(s)) = s /\ SubSeq(s, 0 + 1, 0) = <<>>
  BY <1>1, SubSeqFull, SubSeqEmpty
<1>4. SoFar(s, 0) = NULL BY DEF SoFar
<1>5. CameTo(s, 0, 0, NULL, t, FALSE) BY <1>3, <1>4 DEF CameTo
<1> DEFINE z == 0
<1>6. /\ z \in 0 .. Len(s) /\ z \in z .. Len(s)
      /\ CameTo(s, z, z, NULL, t, FALSE)
  BY <1>2, <1>5
<1> HIDE DEF z
<1> QED BY <1>6 DEF Came

(* The server takes j pieces from the socket.                              *)
LEMMA TakesSome ==
  ASSUME NEW s, IsStream(s), NEW request, NEW t, NEW t2, Came(s, request, t, FALSE),
         NEW j \in 1 .. Len(t.unread),
         t2.unread = SubSeq(t.unread, j + 1, Len(t.unread)),
         t2.left = t.left, t2.closed = t.closed,
         NEW new,
         new = AddData(IF request = NULL THEN NewRequest ELSE request,
                       SubSeq(t.unread, 1, j))
  PROVE  Came(s, new, t2, FALSE) /\ (new.complete => Came(s, new, t2, TRUE))
<1>1. PICK k \in 0 .. Len(s) : \E m \in k .. Len(s) : CameTo(s, k, m, request, t, FALSE)
  BY DEF Came
<1>2. PICK m \in k .. Len(s) : CameTo(s, k, m, request, t, FALSE)
  BY <1>1
<1>3. s \in Seq(PieceOf(Text)) BY StreamIsSeq
<1>4. t.unread = SubSeq(s, k + 1, m) /\ Len(t.unread) = m - k
  BY <1>2, <1>3, PartOfSeq DEF CameTo
<1>5. /\ Len(s) \in Nat /\ k \in Nat /\ m \in Nat /\ k <= m /\ m <= Len(s)
      /\ j \in 1 .. m - k /\ j \in 0 .. m - k
      /\ k + j \in 0 .. Len(s) /\ m \in k + j .. Len(s) /\ k + j > 0
  BY <1>3, <1>4, LenProperties
<1>6. /\ SubSeq(t.unread, 1, j) = SubSeq(s, k + 1, k + j)
      /\ t2.unread = SubSeq(s, (k + j) + 1, m)
  BY <1>3, <1>4, <1>5, PartOfPart
<1>7. request = SoFar(s, k) BY <1>2 DEF CameTo
<1>8. k + j \in 1 .. Len(s) /\ new = SoFar(s, k + j)
  BY <1>5, <1>6, <1>7, SoFarGrows
<1> DEFINE n == k + j
<1>9. t2.closed = "no" => t2.left \in {SubSeq(s, m + 1, Len(s)), <<>>}
  BY <1>2 DEF CameTo
<1>10. CameTo(s, n, m, new, t2, FALSE) BY <1>6, <1>8, <1>9 DEF CameTo
<1>11. ASSUME new.complete PROVE CameTo(s, n, m, new, t2, TRUE)
  <2>1. n = Len(s) BY <1>8, <1>11, CompleteIsWhole
  <2>2. n > 0 BY <1>5
  <2> QED BY <1>10, <2>1, <2>2 DEF CameTo
<1>12. n \in 0 .. Len(s) /\ m \in n .. Len(s) BY <1>5
<1> HIDE DEF n
<1> QED BY <1>10, <1>11, <1>12 DEF Came

(* The sender sends the next piece.                                        *)
LEMMA SendsOne ==
  ASSUME NEW s, IsStream(s), NEW request, NEW t, NEW t2, NEW whole,
         Came(s, request, t, whole), t.closed = "no", t.left # <<>>,
         t2.unread = Append(t.unread, Head(t.left)), t2.left = Tail(t.left)
  PROVE  Came(s, request, t2, whole)
<1>1. PICK k \in 0 .. Len(s) : \E m \in k .. Len(s) : CameTo(s, k, m, request, t, whole)
  BY DEF Came
<1>2. PICK m \in k .. Len(s) : CameTo(s, k, m, request, t, whole)
  BY <1>1
<1>3. s \in Seq(PieceOf(Text)) BY StreamIsSeq
<1>4. t.unread = SubSeq(s, k + 1, m) /\ t.left = SubSeq(s, m + 1, Len(s))
  BY <1>2 DEF CameTo
<1>5. /\ m + 1 \in k .. Len(s)
      /\ t2.unread = SubSeq(s, k + 1, m + 1) /\ t2.left = SubSeq(s, (m + 1) + 1, Len(s))
  BY <1>3, <1>4, PartGrows
<1> DEFINE n == m + 1
<1>6. CameTo(s, k, n, request, t2, whole) BY <1>2, <1>5 DEF CameTo
<1>7. n \in k .. Len(s) BY <1>5
<1> HIDE DEF n
<1> QED BY <1>6, <1>7 DEF Came

(* The sender leaves, and sends no more.                                   *)
LEMMA SendsNoMore ==
  ASSUME NEW s, NEW request, NEW t, NEW t2, NEW whole,
         Came(s, request, t, whole), t2.closed # "no", t2.unread = t.unread
  PROVE  Came(s, request, t2, whole)
<1>1. \A k, m : CameTo(s, k, m, request, t, whole) => CameTo(s, k, m, request, t2, whole)
  BY DEF CameTo
<1> QED BY <1>1 DEF Came

(* A whole request: nothing of it is left, and nothing else has come.      *)
LEMMA AllCame ==
  ASSUME NEW c \in Conn, NEW n \in Nat, NEW request, NEW t,
         Came(NextRequest(c, n), request, t, TRUE)
  PROVE  /\ t.unread = <<>> /\ (t.closed = "no" => t.left = <<>>)
         /\ request = PutTogether(Requests[c][n + 1], TRUE)
<1> DEFINE s == NextRequest(c, n)
           q == Requests[c][n + 1]
<1>1. PICK k \in 0 .. Len(s) : \E m \in k .. Len(s) : CameTo(s, k, m, request, t, TRUE)
  BY DEF Came
<1>2. PICK m \in k .. Len(s) : CameTo(s, k, m, request, t, TRUE)
  BY <1>1
<1>3. s \in Seq(PieceOf(Text)) /\ IsStream(s) BY NextIsStream, StreamIsSeq
<1>4. k = Len(s) /\ k > 0 /\ m = Len(s) /\ Len(s) \in Nat
  <2>1. Len(s) \in Nat BY <1>3, LenProperties
  <2>2. k = Len(s) /\ k > 0 BY <1>2 DEF CameTo
  <2> HIDE DEF s
  <2> QED BY <2>1, <2>2
<1>5. s # <<>>
  <2>1. s = <<>> => Len(s) = 0 OBVIOUS
  <2> HIDE DEF s
  <2> QED BY <1>4, <2>1
<1>6. q \in Sent(Text) /\ Whole(q.headers) /\ s = Stream(q)
  BY <1>5, NextIsStream
<1>7. SubSeq(s, Len(s) + 1, Len(s)) = <<>>
  <2> HIDE DEF s
  <2>1. Len(s) + 1 \in Int /\ Len(s) \in Int /\ Len(s) < Len(s) + 1 BY <1>4
  <2> QED BY <2>1, SubSeqEmpty
<1>8. t.unread = <<>> /\ (t.closed = "no" => t.left = <<>>)
  <2> HIDE DEF s
  <2> QED BY <1>2, <1>4, <1>7 DEF CameTo
<1>9. request = AddData(NewRequest, s)
  <2> HIDE DEF s
  <2>1. request = AddData(NewRequest, SubSeq(s, 1, Len(s)))
    BY <1>2, <1>4 DEF CameTo, SoFar
  <2> QED BY <1>3, <2>1, SubSeqFull
<1>10. AddData(NewRequest, Stream(q)) = PutTogether(q, TRUE)
  <2> HIDE DEF q
  <2> QED BY <1>6, StreamGives
<1> QED BY <1>6, <1>8, <1>9, <1>10

-----------------------------------------------------------------------------
(* The inductive invariant: the request of a slot is what has come of the  *)
(* next request of its connection, and at conn_request it is whole; or     *)
(* recv has failed, and the request is garbage.                            *)
Broken(request, t) ==
  /\ \E complete \in BOOLEAN : request = [Garbage EXCEPT !.complete = complete]
  /\ t.unread = <<>> /\ t.closed # "no"
BeingHandled(i) == thread = "handle" /\ at = i
SlotInPieces(i) ==
  LET c == slot[i].user_data
      s == NextRequest(c, answered[c])
  IN \/ Broken(slot[i].request, tcp[c])
     \/ Came(s, slot[i].request, tcp[c], TRUE)
     \/ ~BeingHandled(i) /\ Came(s, slot[i].request, tcp[c], FALSE)
Untouched(c) == /\ answered[c] = 0 /\ tcp[c].unread = <<>> /\ tcp[c].closed = "no"
                /\ tcp[c].left = NextRequest(c, 0)
InPieces ==
  /\ answered \in [Conn -> Nat]
  /\ \A i \in Connected : SlotInPieces(i)
  /\ \A c \in Conn : tcp[c].state \in {"new", "backlog"} => Untouched(c)

LEMMA InitPieces == Init => InPieces
BY DEF Init, InPieces, Connected, Empty, Untouched

LEMMA WholeCame ==
  ASSUME NEW s, NEW request, NEW t, Came(s, request, t, TRUE)
  PROVE  Came(s, request, t, FALSE)
<1>1. \A k, m : CameTo(s, k, m, request, t, TRUE) => CameTo(s, k, m, request, t, FALSE)
  BY DEF CameTo
<1> QED BY <1>1 DEF Came

(* A slot that nothing has been done to.                                   *)
LEMMA SlotKept ==
  ASSUME InPieces, NEW i \in Connected, slot'[i] = slot[i],
         tcp'[slot[i].user_data] = tcp[slot[i].user_data],
         answered'[slot[i].user_data] = answered[slot[i].user_data],
         BeingHandled(i)' => BeingHandled(i)
  PROVE  SlotInPieces(i)'
<1> DEFINE c == slot[i].user_data
           s == NextRequest(c, answered[c])
<1>1. \/ Broken(slot[i].request, tcp[c])
      \/ Came(s, slot[i].request, tcp[c], TRUE)
      \/ ~BeingHandled(i) /\ Came(s, slot[i].request, tcp[c], FALSE)
  BY DEF InPieces, SlotInPieces
<1>2. \/ Broken(slot'[i].request, tcp'[c])
      \/ Came(NextRequest(c, answered'[c]), slot'[i].request, tcp'[c], TRUE)
      \/ /\ ~BeingHandled(i)'
         /\ Came(NextRequest(c, answered'[c]), slot'[i].request, tcp'[c], FALSE)
  BY <1>1
<1> QED BY <1>2 DEF SlotInPieces

(* A step that leaves the requests and the wire alone.                     *)
LEMMA QuietPieces ==
  ASSUME InPieces, UNCHANGED <<slot, tcp, answered>>,
         thread' # "handle" \/ UNCHANGED <<thread, at>>
  PROVE  InPieces'
<1>1. Connected' = Connected BY DEF Connected
<1>2. \A i : BeingHandled(i)' => BeingHandled(i) BY DEF BeingHandled
<1>3. \A i \in Connected : SlotInPieces(i)'
  <2> SUFFICES ASSUME NEW i \in Connected PROVE SlotInPieces(i)' OBVIOUS
  <2> QED BY <1>2, SlotKept
<1>4. \A c \in Conn : tcp'[c].state \in {"new", "backlog"} => Untouched(c)'
  BY DEF InPieces, Untouched
<1> QED BY <1>1, <1>3, <1>4 DEF InPieces

(* The thread is at slot i, and does with it and its connection what it    *)
(* wants.                                                                  *)
LEMMA SlotChanges ==
  ASSUME Inv, InPieces, NEW i \in Connected,
         Connected' \subseteq Connected,
         \A j \in Connected' \ {i} : slot'[j] = slot[j],
         \A d \in Conn \ {slot[i].user_data} :
            tcp'[d] = tcp[d] /\ answered'[d] = answered[d],
         tcp'[slot[i].user_data].state \notin {"new", "backlog"},
         answered' \in [Conn -> Nat],
         \A j \in Connected' \ {i} : ~BeingHandled(j)',
         i \in Connected' => SlotInPieces(i)'
  PROVE  InPieces'
<1> DEFINE c == slot[i].user_data
<1>1. ASSUME NEW j \in Connected' PROVE SlotInPieces(j)'
  <2>1. CASE j = i BY <2>1
  <2>2. CASE j # i
    <3>1. j \in Connected /\ slot'[j] = slot[j] /\ ~BeingHandled(j)' BY <2>2
    <3>2. slot[j].user_data \in Conn BY <3>1 DEF Inv, TableTyped
    <3>3. slot[j].user_data # c BY <2>2, <3>1 DEF Inv, TableAgrees
    <3> QED BY <3>1, <3>2, <3>3, SlotKept
  <2> QED BY <2>1, <2>2
<1>2. ASSUME NEW d \in Conn, tcp'[d].state \in {"new", "backlog"} PROVE Untouched(d)'
  <2>1. d \in Conn \ {c} BY <1>2
  <2>2. tcp'[d] = tcp[d] /\ answered'[d] = answered[d] BY <2>1
  <2>3. Untouched(d) BY <1>2, <2>2 DEF InPieces
  <2> QED BY <2>2, <2>3 DEF Untouched
<1> QED BY <1>1, <1>2 DEF InPieces

LEMMA SlotConnection ==
  ASSUME Inv, NEW i \in Connected
  PROVE  /\ slot[i].user_data \in Conn /\ i \in Slot
         /\ tcp[slot[i].user_data].state = "accepted"
BY DEF Inv, TableTyped, TableAgrees, OnePlace, Connected

LEMMA RemovalPieces ==
  ASSUME Inv, InPieces, NEW i \in Connected, RemoveConnection(i),
         thread' # "handle", answered' \in [Conn -> Nat],
         \A d \in Conn \ {slot[i].user_data} : answered'[d] = answered[d]
  PROVE  InPieces'
<1> DEFINE c == slot[i].user_data
<1>1. Connected' = Connected \ {i} /\ \A j \in Connected' : slot'[j] = slot[j]
  BY RemovalTable DEF Inv
<1>2. c \in Conn BY SlotConnection
<1>3. tcp' = [tcp EXCEPT ![c] = Gone] BY DEF RemoveConnection, RemoveLeaving
<1>4. tcp = [d \in Conn |-> tcp[d]] BY DEF Inv, WireTyped
<1>5. tcp'[c] = Gone /\ \A d \in Conn \ {c} : tcp'[d] = tcp[d] BY <1>2, <1>3, <1>4
<1>6. tcp'[c].state \notin {"new", "backlog"} BY <1>5 DEF Gone
<1>7. \A j : ~BeingHandled(j)' BY DEF BeingHandled
<1> QED BY <1>1, <1>5, <1>6, <1>7, SlotChanges

LEMMA RequestSet ==
  ASSUME Inv, NEW i \in Connected, NEW r, slot' = [slot EXCEPT ![i].request = r]
  PROVE  /\ Connected' = Connected /\ slot'[i].request = r
         /\ slot'[i].user_data = slot[i].user_data
         /\ \A j \in Connected \ {i} : slot'[j] = slot[j]
<1>1. /\ i \in Slot
      /\ \A j \in Slot \ {i} : slot'[j] = slot[j]
      /\ slot'[i] = [connected |-> slot[i].connected, socket_fd |-> slot[i].socket_fd,
                     user_data |-> slot[i].user_data, request |-> r]
  BY DEF Inv, TableTyped, Connected, EntryOf
<1>2. \A j \in Slot : slot'[j].connected = slot[j].connected BY <1>1
<1>3. Connected' = Connected BY <1>2 DEF Connected
<1> QED BY <1>1, <1>3, ConnectedFinite

(* A field of a connection changes.                                        *)
LEMMA FieldIsSet ==
  ASSUME Inv, NEW c \in Conn, NEW x
  PROVE  /\ tcp' = [tcp EXCEPT ![c].unread = x] =>
              /\ tcp'[c].unread = x /\ tcp'[c].left = tcp[c].left
              /\ tcp'[c].closed = tcp[c].closed /\ tcp'[c].state = tcp[c].state
              /\ \A d \in Conn \ {c} : tcp'[d] = tcp[d]
         /\ tcp' = [tcp EXCEPT ![c].left = x] =>
              /\ tcp'[c].left = x /\ tcp'[c].unread = tcp[c].unread
              /\ tcp'[c].closed = tcp[c].closed /\ tcp'[c].state = tcp[c].state
              /\ \A d \in Conn \ {c} : tcp'[d] = tcp[d]
         /\ tcp' = [tcp EXCEPT ![c].closed = x] =>
              /\ tcp'[c].closed = x /\ tcp'[c].unread = tcp[c].unread
              /\ tcp'[c].left = tcp[c].left /\ tcp'[c].state = tcp[c].state
              /\ \A d \in Conn \ {c} : tcp'[d] = tcp[d]
         /\ tcp' = [tcp EXCEPT ![c].state = x] =>
              /\ tcp'[c].state = x /\ tcp'[c].unread = tcp[c].unread
              /\ tcp'[c].left = tcp[c].left /\ tcp'[c].closed = tcp[c].closed
              /\ \A d \in Conn \ {c} : tcp'[d] = tcp[d]
<1> DEFINE t == [state |-> tcp[c].state, left |-> tcp[c].left,
                 unread |-> tcp[c].unread, closed |-> tcp[c].closed]
<1>1. tcp[c] = t /\ tcp = [d \in Conn |-> tcp[d]] BY DEF Inv, WireTyped, TcpOf
<1>2. ASSUME tcp' = [tcp EXCEPT ![c].unread = x]
      PROVE  tcp'[c] = [t EXCEPT !.unread = x] /\ \A d \in Conn \ {c} : tcp'[d] = tcp[d]
  BY <1>1, <1>2
<1>3. ASSUME tcp' = [tcp EXCEPT ![c].left = x]
      PROVE  tcp'[c] = [t EXCEPT !.left = x] /\ \A d \in Conn \ {c} : tcp'[d] = tcp[d]
  BY <1>1, <1>3
<1>4. ASSUME tcp' = [tcp EXCEPT ![c].closed = x]
      PROVE  tcp'[c] = [t EXCEPT !.closed = x] /\ \A d \in Conn \ {c} : tcp'[d] = tcp[d]
  BY <1>1, <1>4
<1>5. ASSUME tcp' = [tcp EXCEPT ![c].state = x]
      PROVE  tcp'[c] = [t EXCEPT !.state = x] /\ \A d \in Conn \ {c} : tcp'[d] = tcp[d]
  BY <1>1, <1>5
<1> QED BY <1>1, <1>2, <1>3, <1>4, <1>5

(* The request that is put together so far.                                *)
LEMMA ParsedPieces ==
  ASSUME Inv, InPieces, NEW i \in Connected, NEW r, Parsed(i, r), thread = "serve",
         UNCHANGED answered,
         \A d \in Conn \ {slot[i].user_data} : tcp'[d] = tcp[d],
         tcp'[slot[i].user_data].state = tcp[slot[i].user_data].state,
         LET c == slot[i].user_data
             s == NextRequest(c, answered[c])
         IN \/ Broken(r, tcp'[c])
            \/ Came(s, r, tcp'[c], FALSE) /\ (r.complete => Came(s, r, tcp'[c], TRUE))
  PROVE  InPieces'
<1> DEFINE c == slot[i].user_data
           s == NextRequest(c, answered[c])
<1>1. slot' = [slot EXCEPT ![i].request = r]
      /\ (IF r.complete THEN thread' = "handle" /\ at' = i ELSE UNCHANGED thread)
  BY DEF Parsed
<1>2. /\ Connected' = Connected /\ slot'[i].request = r /\ slot'[i].user_data = c
      /\ \A j \in Connected \ {i} : slot'[j] = slot[j]
  BY <1>1, RequestSet
<1>3. tcp[c].state = "accepted" BY SlotConnection
<1>4. \A j \in Connected' \ {i} : ~BeingHandled(j)'
  BY <1>1 DEF BeingHandled
<1>5. BeingHandled(i)' => r.complete BY <1>1 DEF BeingHandled
<1>6. \/ Broken(slot'[i].request, tcp'[c])
      \/ Came(NextRequest(c, answered'[c]), slot'[i].request, tcp'[c], TRUE)
      \/ /\ ~BeingHandled(i)'
         /\ Came(NextRequest(c, answered'[c]), slot'[i].request, tcp'[c], FALSE)
  BY <1>2, <1>5
<1>7. SlotInPieces(i)' BY <1>2, <1>6 DEF SlotInPieces
<1>8. answered' \in [Conn -> Nat] BY DEF InPieces
<1> QED BY <1>2, <1>3, <1>4, <1>7, <1>8, SlotChanges

LEMMA ReceivePieces ==
  ASSUME Inv, InPieces, NEW i \in Slot, NEW c \in Conn, Receive(i, c)
  PROVE  InPieces'
<1> DEFINE u == tcp[c].unread
           taken == Min({BufferSize, Len(u)})
           s == NextRequest(c, answered[c])
           r == AddData(RequestOf(i), SubSeq(u, 1, taken))
           rest == SubSeq(u, taken + 1, Len(u))
<1>1. /\ InTurn(i, c) /\ u # <<>> /\ UNCHANGED answered
      /\ Parsed(i, r) /\ tcp' = [tcp EXCEPT ![c].unread = rest]
  BY DEF Receive
<1>2. i \in Connected /\ c = slot[i].user_data /\ thread = "serve"
  BY <1>1, InTurnSlot
<1>3. Came(s, slot[i].request, tcp[c], FALSE)
  <2>1. ~Broken(slot[i].request, tcp[c]) BY <1>1 DEF Broken
  <2>2. \/ Broken(slot[i].request, tcp[c])
        \/ Came(s, slot[i].request, tcp[c], TRUE)
        \/ Came(s, slot[i].request, tcp[c], FALSE)
    BY <1>2 DEF InPieces, SlotInPieces
  <2> QED BY <2>1, <2>2, WholeCame
<1>4. taken \in 1 .. Len(u)
  <2>1. Len(u) \in Nat /\ Len(u) # 0
    <3>1. IsSeq(u) BY DEF Inv, WireTyped
    <3> QED BY <1>1, <3>1, EmptySeq, LenProperties DEF IsSeq
  <2> DEFINE n == Len(u)
  <2>2. n \in Nat \ {0} /\ BufferSize \in Nat \ {0} BY <2>1, HttpdAssumption
  <2> HIDE DEF n, u
  <2>3. Min({BufferSize, n}) \in 1 .. n BY <2>2 DEF Min
  <2> QED BY <2>3 DEF n
<1>5. /\ tcp'[c].unread = rest /\ tcp'[c].left = tcp[c].left
      /\ tcp'[c].closed = tcp[c].closed /\ tcp'[c].state = tcp[c].state
      /\ \A d \in Conn \ {c} : tcp'[d] = tcp[d]
  <2> HIDE DEF rest
  <2> QED BY <1>1, FieldIsSet
<1>6. answered[c] \in Nat BY DEF InPieces
<1>7. IsStream(s) BY <1>6, NextIsStream
<1>8. r = AddData(IF slot[i].request = NULL THEN NewRequest ELSE slot[i].request,
                  SubSeq(u, 1, taken))
  BY DEF RequestOf
<1>9. Came(s, r, tcp'[c], FALSE) /\ (r.complete => Came(s, r, tcp'[c], TRUE))
  <2> DEFINE old == slot[i].request
             t == tcp[c]
             t2 == tcp'[c]
  <2>1. /\ IsStream(s) /\ Came(s, old, t, FALSE) /\ taken \in 1 .. Len(t.unread)
        /\ t2.unread = SubSeq(t.unread, taken + 1, Len(t.unread))
        /\ t2.left = t.left /\ t2.closed = t.closed
        /\ r = AddData(IF old = NULL THEN NewRequest ELSE old,
                       SubSeq(t.unread, 1, taken))
    BY <1>3, <1>4, <1>5, <1>7, <1>8
  <2> HIDE DEF r, rest, taken, u, s, old, t, t2
  <2>2. Came(s, r, t2, FALSE) /\ (r.complete => Came(s, r, t2, TRUE))
    BY <2>1, TakesSome
  <2> QED BY <2>2 DEF t2
<1> HIDE DEF r
<1> QED BY <1>1, <1>2, <1>5, <1>9, ParsedPieces

LEMMA BrokenOffPieces ==
  ASSUME Inv, InPieces, NEW i \in Slot, NEW c \in Conn, BrokenOff(i, c)
  PROVE  InPieces'
<1>1. InTurn(i, c) /\ tcp[c].unread = <<>> /\ UNCHANGED answered
  BY DEF BrokenOff
<1>2. i \in Connected /\ c = slot[i].user_data /\ thread = "serve"
  BY <1>1, InTurnSlot
<1>3. CASE RemoveConnection(i) /\ UNCHANGED thread
  BY <1>1, <1>2, <1>3, RemovalPieces DEF InPieces
<1>4. ASSUME NEW complete \in BOOLEAN, Parsed(i, [Garbage EXCEPT !.complete = complete]),
             tcp' = [tcp EXCEPT ![c].closed = "fin"]
      PROVE  InPieces'
  <2> DEFINE r == [Garbage EXCEPT !.complete = complete]
  <2>1. /\ tcp'[c].closed = "fin" /\ tcp'[c].unread = tcp[c].unread
        /\ tcp'[c].state = tcp[c].state /\ \A d \in Conn \ {c} : tcp'[d] = tcp[d]
    BY <1>4, FieldIsSet
  <2>2. Broken(r, tcp'[c]) BY <1>1, <2>1 DEF Broken
  <2>3. Parsed(i, r) BY <1>4
  <2> HIDE DEF r
  <2> QED BY <1>1, <1>2, <2>1, <2>2, <2>3, ParsedPieces
<1> QED BY <1>3, <1>4 DEF BrokenOff

LEMMA ClosedPieces ==
  ASSUME Inv, InPieces, NEW i \in Slot, NEW c \in Conn, Closed(i, c)
  PROVE  InPieces'
<1>1. InTurn(i, c) /\ RemoveConnection(i) /\ UNCHANGED <<thread, answered>>
  BY DEF Closed
<1>2. i \in Connected /\ thread = "serve" BY <1>1, InTurnSlot
<1> QED BY <1>1, <1>2, RemovalPieces DEF InPieces

LEMMA CleanupPieces == ASSUME Inv, InPieces, Cleanup PROVE InPieces'
<1>1. /\ thread = "cleanup" /\ UNCHANGED <<thread, answered>>
      /\ Connected # {} /\ RemoveConnection(Lowest(Connected))
  BY DEF Cleanup
<1>2. Connected \in SUBSET (1 .. MaxConnections) /\ MaxConnections \in Nat
  BY HttpdAssumption DEF Connected, Slot
<1>3. Lowest(Connected) \in Connected BY <1>1, <1>2, LowestOf
<1> QED BY <1>1, <1>3, RemovalPieces DEF InPieces

(* conn_request has answered or not, and the slot's request is cleared.    *)
LEMMA HandlePieces == ASSUME Inv, InPieces, Handle PROVE InPieces'
<1> DEFINE c == slot[at].user_data
           n == answered[c]
           s == NextRequest(c, n)
<1>1. /\ thread = "handle" /\ thread' = "serve" BY DEF Handle
<1>2. at \in Connected BY <1>1 DEF Inv, AtWork
<1>3. c \in Conn /\ tcp[c].state = "accepted" BY <1>2, SlotConnection
<1>4. n \in Nat /\ answered \in [Conn -> Nat] BY <1>3 DEF InPieces
<1>5. \/ Broken(slot[at].request, tcp[c])
      \/ Came(s, slot[at].request, tcp[c], TRUE)
  BY <1>1, <1>2 DEF InPieces, SlotInPieces, BeingHandled
<1>6. tcp[c].unread = <<>> /\ (tcp[c].closed = "no" => tcp[c].left = <<>>)
  <2>1. CASE Broken(slot[at].request, tcp[c]) BY <2>1 DEF Broken
  <2>2. CASE Came(s, slot[at].request, tcp[c], TRUE)
    <3> HIDE DEF c
    <3> QED BY <1>3, <1>4, <2>2, AllCame
  <2> QED BY <1>5, <2>1, <2>2
<1>7. \A j : ~BeingHandled(j)' BY <1>1 DEF BeingHandled
<1>8. CASE RemoveConnection(at) /\ UNCHANGED answered
  BY <1>1, <1>2, <1>4, <1>8, RemovalPieces
<1>9. CASE RemoveConnection(at) /\ answered' = [answered EXCEPT ![c] = n + 1]
  <2>1. answered' \in [Conn -> Nat] /\ \A d \in Conn \ {c} : answered'[d] = answered[d]
    BY <1>3, <1>4, <1>9
  <2> QED BY <1>1, <1>2, <1>9, <2>1, RemovalPieces
<1>10. ASSUME slot' = [slot EXCEPT ![at].request = NULL],
              \/ UNCHANGED <<tcp, answered>>
              \/ /\ answered' = [answered EXCEPT ![c] = n + 1]
                 /\ tcp' = [tcp EXCEPT ![c].left = NextRequest(c, n + 1)]
       PROVE  InPieces'
  <2>1. /\ Connected' = Connected /\ slot'[at].request = NULL /\ slot'[at].user_data = c
        /\ \A j \in Connected \ {at} : slot'[j] = slot[j]
    BY <1>2, <1>10, RequestSet
  <2>2. /\ answered' \in [Conn -> Nat]
        /\ \A d \in Conn \ {c} : tcp'[d] = tcp[d] /\ answered'[d] = answered[d]
        /\ tcp'[c].unread = <<>> /\ tcp'[c].state = "accepted"
        /\ tcp'[c].closed = "no" => tcp'[c].left \in {NextRequest(c, answered'[c]), <<>>}
    <3>1. CASE UNCHANGED <<tcp, answered>> BY <1>3, <1>4, <1>6, <3>1
    <3>2. CASE /\ answered' = [answered EXCEPT ![c] = n + 1]
               /\ tcp' = [tcp EXCEPT ![c].left = NextRequest(c, n + 1)]
      <4> DEFINE x == NextRequest(c, n + 1)
      <4>1. /\ tcp'[c].left = x /\ tcp'[c].unread = tcp[c].unread
            /\ tcp'[c].closed = tcp[c].closed /\ tcp'[c].state = tcp[c].state
            /\ \A d \in Conn \ {c} : tcp'[d] = tcp[d]
        <5>1. tcp' = [tcp EXCEPT ![c].left = x] BY <3>2
        <5> HIDE DEF x, c
        <5> QED BY <1>3, <5>1, FieldIsSet
      <4>2. /\ answered' \in [Conn -> Nat] /\ answered'[c] = n + 1
            /\ \A d \in Conn \ {c} : answered'[d] = answered[d]
        BY <1>3, <1>4, <3>2
      <4> QED BY <1>3, <1>6, <4>1, <4>2
    <3> QED BY <1>10, <3>1, <3>2
  <2>3. IsStream(NextRequest(c, answered'[c]))
    <3>1. answered'[c] \in Nat BY <1>3, <2>2
    <3> HIDE DEF c
    <3> QED BY <1>3, <3>1, NextIsStream
  <2>4. Came(NextRequest(c, answered'[c]), NULL, tcp'[c], FALSE)
    <3> DEFINE z == NextRequest(c, answered'[c])
               t == tcp'[c]
    <3>1. IsStream(z) /\ t.unread = <<>> /\ (t.closed = "no" => t.left \in {z, <<>>})
      BY <2>2, <2>3
    <3> HIDE DEF z, t
    <3>2. Came(z, NULL, t, FALSE) BY <3>1, NothingCame
    <3> QED BY <3>2 DEF z, t
  <2>6. ASSUME NEW j \in Connected' PROVE SlotInPieces(j)'
    <3>1. CASE j = at
      <4>1. /\ slot'[j].user_data = c /\ slot'[j].request = NULL /\ ~BeingHandled(j)'
        BY <1>7, <2>1, <3>1
      <4> HIDE DEF c
      <4> QED BY <2>4, <4>1 DEF SlotInPieces
    <3>2. CASE j # at
      <4>1. j \in Connected /\ slot'[j] = slot[j] /\ ~BeingHandled(j)'
        BY <1>7, <2>1, <3>2
      <4>2. slot[j].user_data \in Conn \ {c}
        BY <1>2, <3>2, <4>1 DEF Inv, TableTyped, TableAgrees
      <4> QED BY <2>2, <4>1, <4>2, SlotKept
    <3> QED BY <3>1, <3>2
  <2>7. ASSUME NEW d \in Conn, tcp'[d].state \in {"new", "backlog"} PROVE Untouched(d)'
    <3>1. d \in Conn \ {c} BY <2>2, <2>7
    <3>2. tcp'[d] = tcp[d] /\ answered'[d] = answered[d] BY <2>2, <3>1
    <3>3. Untouched(d) BY <2>7, <3>2 DEF InPieces
    <3> QED BY <3>2, <3>3 DEF Untouched
  <2> QED BY <2>2, <2>6, <2>7 DEF InPieces
<1>11. \/ HasHeader(slot[at].request, CSeq) /\ Answer(at, c)
       \/ NoAnswer(at)
       \/ RemoveConnection(at) /\ UNCHANGED answered
  BY DEF Handle
<1>12. CASE NoAnswer(at)
  <2>1. slot' = [slot EXCEPT ![at].request = NULL] /\ UNCHANGED <<tcp, answered>>
    BY <1>12 DEF NoAnswer
  <2> QED BY <1>10, <2>1
<1>13. CASE Answer(at, c)
  <2>1. /\ answered' = [answered EXCEPT ![c] = n + 1]
        /\ \/ RemoveConnection(at)
           \/ /\ slot' = [slot EXCEPT ![at].request = NULL]
              /\ tcp' = [tcp EXCEPT ![c].left = NextRequest(c, n + 1)]
    BY <1>13 DEF Answer
  <2> QED BY <1>9, <1>10, <2>1
<1> QED BY <1>8, <1>11, <1>12, <1>13

(* A connection that is accepted comes with nothing received.              *)
LEMMA AcceptPieces == ASSUME Inv, InPieces, Accept PROVE InPieces'
<1> DEFINE c == Head(backlog)
<1>1. PICK i \in Slot \ Connected, fd \in Fd :
        /\ Connected' = Connected \cup {i} /\ sock[fd] = NULL
        /\ slot'[i].socket_fd = fd /\ slot'[i].user_data = c
        /\ slot'[i].request = NULL
        /\ \A j \in Connected : slot'[j] = slot[j]
  BY AcceptTable
<1>2. /\ thread' = "serve" /\ tcp' = [tcp EXCEPT ![c].state = "accepted"]
      /\ UNCHANGED answered /\ backlog # <<>> /\ backlog' = Tail(backlog)
  BY DEF Accept, Inv, AtWork
<1>3. c \in Conn /\ tcp[c].state = "backlog"
  BY <1>2, TailOfBacklog DEF Inv
<1>4. Untouched(c) /\ answered \in [Conn -> Nat] BY <1>3 DEF InPieces
<1> HIDE DEF c
<1>5. /\ tcp'[c].unread = <<>> /\ tcp'[c].left = NextRequest(c, 0)
      /\ tcp'[c].state = "accepted" /\ \A d \in Conn \ {c} : tcp'[d] = tcp[d]
      /\ answered[c] = 0
  BY <1>2, <1>3, <1>4, FieldIsSet DEF Untouched
<1>6. \A j : ~BeingHandled(j)' BY <1>2 DEF BeingHandled
<1>7. ASSUME NEW j \in Connected' PROVE SlotInPieces(j)'
  <2>1. CASE j = i
    <3> DEFINE s == NextRequest(c, answered'[c])
               t == tcp'[c]
    <3>1. IsStream(s) /\ t.unread = <<>> /\ t.left = s
      BY <1>2, <1>3, <1>5, NextIsStream
    <3> HIDE DEF s, t
    <3>2. Came(s, NULL, t, FALSE) BY <3>1, NothingCame
    <3> QED BY <1>1, <1>6, <2>1, <3>2 DEF SlotInPieces, s, t
  <2>2. CASE j # i
    <3>1. j \in Connected /\ slot'[j] = slot[j] /\ ~BeingHandled(j)'
      BY <1>1, <1>6, <2>2
    <3>2. slot[j].user_data \in Conn /\ tcp[slot[j].user_data].state = "accepted"
      BY <3>1, SlotConnection
    <3>3. slot[j].user_data \in Conn \ {c} BY <1>3, <3>2
    <3> QED BY <1>2, <1>5, <3>1, <3>3, SlotKept
  <2> QED BY <2>1, <2>2
<1>8. ASSUME NEW d \in Conn, tcp'[d].state \in {"new", "backlog"} PROVE Untouched(d)'
  <2>1. tcp'[d] = tcp[d] /\ answered'[d] = answered[d] BY <1>2, <1>5, <1>8
  <2>2. Untouched(d) BY <1>8, <2>1 DEF InPieces
  <2> QED BY <2>1, <2>2 DEF Untouched
<1> QED BY <1>2, <1>4, <1>7, <1>8 DEF InPieces

(* Connections without a slot change: nobody handles a request.            *)
LEMMA OutsidePieces ==
  ASSUME Inv, InPieces, UNCHANGED <<slot, answered>>,
         thread' # "handle" \/ UNCHANGED <<thread, at>>,
         \A i \in Connected : tcp'[slot[i].user_data] = tcp[slot[i].user_data],
         \A d \in Conn : tcp'[d].state \in {"new", "backlog"} =>
            /\ tcp[d].state \in {"new", "backlog"} /\ tcp'[d].unread = tcp[d].unread
            /\ tcp'[d].left = tcp[d].left /\ tcp'[d].closed = tcp[d].closed
  PROVE  InPieces'
<1>1. Connected' = Connected BY DEF Connected
<1>2. \A i : BeingHandled(i)' => BeingHandled(i) BY DEF BeingHandled
<1>3. ASSUME NEW i \in Connected PROVE SlotInPieces(i)'
  BY <1>2, SlotKept
<1>4. \A d \in Conn : tcp'[d].state \in {"new", "backlog"} => Untouched(d)'
  BY DEF InPieces, Untouched
<1> QED BY <1>1, <1>3, <1>4 DEF InPieces

LEMMA AcceptFailsPieces == ASSUME Inv, InPieces, AcceptFails PROVE InPieces'
<1>1. /\ UNCHANGED <<slot, answered>> /\ thread' # "handle" /\ backlog # <<>>
      /\ \/ UNCHANGED tcp
         \/ tcp' = [tcp EXCEPT ![Head(backlog)] = Gone] /\ backlog' = Tail(backlog)
  BY DEF AcceptFails, table, Inv, AtWork
<1>2. CASE UNCHANGED tcp BY <1>1, <1>2, QuietPieces
<1>3. CASE tcp' = [tcp EXCEPT ![Head(backlog)] = Gone] /\ backlog' = Tail(backlog)
  <2> DEFINE c == Head(backlog)
  <2>1. c \in Conn /\ tcp[c].state = "backlog"
    BY <1>1, <1>3, TailOfBacklog DEF Inv
  <2>2. \A d \in Conn : tcp'[d] = IF d = c THEN Gone ELSE tcp[d]
    BY <1>3, <2>1 DEF Inv, WireTyped
  <2>3. \A i \in Connected : slot[i].user_data \in Conn \ {c}
    BY <2>1, SlotConnection
  <2> HIDE DEF c
  <2>4. \A i \in Connected : tcp'[slot[i].user_data] = tcp[slot[i].user_data]
    BY <2>2, <2>3
  <2>5. \A d \in Conn : tcp'[d].state \in {"new", "backlog"} => tcp'[d] = tcp[d]
    BY <2>2 DEF Gone
  <2> QED BY <1>1, <2>4, <2>5, OutsidePieces
<1> QED BY <1>1, <1>2, <1>3

LEMMA CloseServerPieces == ASSUME Inv, InPieces, CloseServer PROVE InPieces'
<1>1. /\ UNCHANGED <<slot, answered>> /\ thread' # "handle" /\ Connected = {}
      /\ tcp' = [c \in Conn |-> IF c \in ToSet(backlog) THEN Gone ELSE tcp[c]]
  BY DEF CloseServer, table, Refuse
<1>2. \A d \in Conn : tcp'[d].state \in {"new", "backlog"} => tcp'[d] = tcp[d]
  BY <1>1 DEF Gone
<1> QED BY <1>1, <1>2, OutsidePieces

LEMMA ConnectPieces ==
  ASSUME Inv, InPieces, NEW c \in Conn, Connect(c)
  PROVE  InPieces'
<1>1. /\ tcp[c].state = "new" /\ tcp' = [tcp EXCEPT ![c].state = "backlog"]
      /\ UNCHANGED <<slot, answered, thread, at>>
  BY DEF Connect, table, loop
<1>2. /\ tcp'[c].state = "backlog" /\ tcp'[c].unread = tcp[c].unread
      /\ tcp'[c].left = tcp[c].left /\ tcp'[c].closed = tcp[c].closed
      /\ \A d \in Conn \ {c} : tcp'[d] = tcp[d]
  BY <1>1, FieldIsSet
<1>3. \A i \in Connected : slot[i].user_data \in Conn \ {c}
  BY <1>1, SlotConnection
<1>4. \A i \in Connected : tcp'[slot[i].user_data] = tcp[slot[i].user_data]
  BY <1>2, <1>3
<1>5. ASSUME NEW d \in Conn, tcp'[d].state \in {"new", "backlog"}
      PROVE  /\ tcp[d].state \in {"new", "backlog"} /\ tcp'[d].unread = tcp[d].unread
             /\ tcp'[d].left = tcp[d].left /\ tcp'[d].closed = tcp[d].closed
  BY <1>1, <1>2, <1>5
<1> QED BY <1>1, <1>4, <1>5, OutsidePieces

LEMMA SendsPieces ==
  ASSUME Inv, InPieces, NEW c \in Conn, SendPiece(c) \/ Leave(c)
  PROVE  InPieces'
<1>1. /\ UNCHANGED <<slot, answered, thread, at>>
      /\ tcp[c].state = "accepted" /\ tcp[c].closed = "no"
  BY DEF SendPiece, Leave, Sending, table, loop
<1>2. /\ tcp'[c].state = "accepted" /\ \A d \in Conn \ {c} : tcp'[d] = tcp[d]
      /\ \/ /\ tcp[c].left # <<>> /\ tcp'[c].unread = Append(tcp[c].unread, Head(tcp[c].left))
            /\ tcp'[c].left = Tail(tcp[c].left)
         \/ tcp'[c].closed # "no" /\ tcp'[c].unread = tcp[c].unread
  <2> DEFINE t == [state |-> tcp[c].state, left |-> tcp[c].left,
                   unread |-> tcp[c].unread, closed |-> tcp[c].closed]
  <2>1. tcp[c] = t /\ tcp = [d \in Conn |-> tcp[d]] BY DEF Inv, WireTyped, TcpOf
  <2>2. CASE SendPiece(c)
    <3> DEFINE x == Tail(tcp[c].left)
               y == Append(tcp[c].unread, Head(tcp[c].left))
    <3>1. tcp[c].left # <<>> /\ tcp' = [tcp EXCEPT ![c] = [@ EXCEPT !.left = x, !.unread = y]]
      BY <2>2 DEF SendPiece
    <3> HIDE DEF x, y
    <3>2. PICK w : /\ tcp' = [tcp EXCEPT ![c] = w]
                   /\ w = [tcp[c] EXCEPT !.left = x, !.unread = y]
      BY <3>1
    <3>3. w.left = x /\ w.unread = y /\ w.state = tcp[c].state BY <2>1, <3>2
    <3>4. tcp'[c] = w /\ \A d \in Conn \ {c} : tcp'[d] = tcp[d] BY <2>1, <3>2
    <3> QED BY <1>1, <3>1, <3>3, <3>4 DEF x, y
  <2>3. CASE Leave(c)
    <3>1. PICK w, how : /\ tcp' = [tcp EXCEPT ![c] = w]
                        /\ w = [tcp[c] EXCEPT !.closed = how, !.left = <<>>]
                        /\ how \in {"fin", "reset"}
      BY <2>3 DEF Leave
    <3>2. w.closed = how /\ w.unread = tcp[c].unread /\ w.state = tcp[c].state
      BY <2>1, <3>1
    <3>3. tcp'[c] = w /\ \A d \in Conn \ {c} : tcp'[d] = tcp[d] BY <2>1, <3>1
    <3> QED BY <1>1, <3>1, <3>2, <3>3
  <2> QED BY <2>2, <2>3
<1>3. Connected' = Connected BY <1>1 DEF Connected
<1>4. ASSUME NEW i \in Connected PROVE SlotInPieces(i)'
  <2>1. slot[i].user_data \in Conn BY SlotConnection
  <2>2. CASE slot[i].user_data # c
    <3>1. tcp'[slot[i].user_data] = tcp[slot[i].user_data] BY <1>2, <2>1, <2>2
    <3>2. BeingHandled(i)' => BeingHandled(i) BY <1>1 DEF BeingHandled
    <3> QED BY <1>1, <3>1, <3>2, SlotKept
  <2>3. CASE slot[i].user_data = c
    <3> DEFINE s == NextRequest(c, answered[c])
               r == slot[i].request
    <3>1. answered[c] \in Nat BY DEF InPieces
    <3>2. IsStream(s) BY <3>1, NextIsStream
    <3>3. ~Broken(r, tcp[c]) BY <1>1 DEF Broken
    <3>4. \/ Came(s, r, tcp[c], TRUE)
          \/ ~BeingHandled(i) /\ Came(s, r, tcp[c], FALSE)
      BY <2>3, <3>3 DEF InPieces, SlotInPieces
    <3>5. ASSUME NEW whole, Came(s, r, tcp[c], whole) PROVE Came(s, r, tcp'[c], whole)
      <4> HIDE DEF s, r
      <4>1. CASE /\ tcp[c].left # <<>>
                 /\ tcp'[c].unread = Append(tcp[c].unread, Head(tcp[c].left))
                 /\ tcp'[c].left = Tail(tcp[c].left)
        BY <1>1, <3>2, <3>5, <4>1, SendsOne
      <4>2. CASE tcp'[c].closed # "no" /\ tcp'[c].unread = tcp[c].unread
        BY <3>5, <4>2, SendsNoMore
      <4> QED BY <1>2, <4>1, <4>2
    <3>6. BeingHandled(i)' => BeingHandled(i) BY <1>1 DEF BeingHandled
    <3>7. \/ Came(s, r, tcp'[c], TRUE)
          \/ ~BeingHandled(i)' /\ Came(s, r, tcp'[c], FALSE)
      BY <3>4, <3>5, <3>6
    <3> QED BY <1>1, <2>3, <3>7 DEF SlotInPieces
  <2> QED BY <2>2, <2>3
<1>5. ASSUME NEW d \in Conn, tcp'[d].state \in {"new", "backlog"} PROVE Untouched(d)'
  <2>1. tcp'[d] = tcp[d] /\ answered'[d] = answered[d] BY <1>1, <1>2, <1>5
  <2>2. Untouched(d) BY <1>5, <2>1 DEF InPieces
  <2> QED BY <2>1, <2>2 DEF Untouched
<1>6. answered' \in [Conn -> Nat] BY <1>1 DEF InPieces
<1> QED BY <1>3, <1>4, <1>5, <1>6 DEF InPieces

LEMMA QuietOfPieces ==
  ASSUME InPieces,
         \/ Application \/ Select \/ LeaveLoop \/ ServedAll \/ ClearRunning \/ Return
         \/ UNCHANGED vars
  PROVE  InPieces'
<1>1. /\ UNCHANGED <<slot, tcp, answered>>
      /\ thread' # "handle" \/ UNCHANGED <<thread, at>>
  BY DEF Application, Start, Stop, StopReturns, DestroyStopped, Select, LeaveLoop,
         ServedAll, ClearRunning, Return, vars, table, loop, net
<1> QED BY <1>1, QuietPieces

LEMMA PiecesInvariant == Spec => []InPieces
<1>1. Inv /\ InPieces /\ [Next]_vars => InPieces'
  BY QuietOfPieces, AcceptPieces, AcceptFailsPieces, HandlePieces, ReceivePieces,
     ClosedPieces, BrokenOffPieces, CleanupPieces, CloseServerPieces,
     ConnectPieces, SendsPieces DEF Next, Thread, Sender
<1> QED BY <1>1, InitPieces, Invariant, PTL DEF Spec

(* However the bytes of a request were cut, conn_request gets its url,     *)
(* headers and body as they were sent, and nothing of another request      *)
(* (http_request.c:42-128, httpd.c:289-331).                               *)
THEOREM HttpdRequestAsSent == Spec => []RequestAsSent
<1>1. ASSUME Inv, InPieces PROVE RequestAsSent
  <2> SUFFICES ASSUME thread = "handle", ~Garbled(at)
               PROVE  LET c == slot[at].user_data
                          q == Requests[c][answered[c] + 1]
                          r == slot[at].request
                      IN r.url = q.url /\ r.headers = q.headers /\ r.data = q.body
    BY DEF RequestAsSent
  <2> DEFINE c == slot[at].user_data
             n == answered[c]
             r == slot[at].request
  <2>1. at \in Connected BY <1>1 DEF Inv, AtWork
  <2>2. c \in Conn BY <1>1, <2>1, SlotConnection
  <2>3. n \in Nat BY <1>1, <2>2 DEF InPieces
  <2>4. ~Broken(r, tcp[c])
    <3>1. \A complete \in BOOLEAN : [Garbage EXCEPT !.complete = complete].url = Garbage.url
      BY DEF Garbage, NewRequest
    <3> QED BY <3>1 DEF Broken, Garbled
  <2>5. Came(NextRequest(c, n), r, tcp[c], TRUE)
    BY <1>1, <2>1, <2>4 DEF InPieces, SlotInPieces, BeingHandled
  <2>6. r = PutTogether(Requests[c][n + 1], TRUE)
    <3> HIDE DEF c, n, r
    <3> QED BY <2>2, <2>3, <2>5, AllCame
  <2> QED BY <2>6 DEF PutTogether, RequestRecord
<1> QED BY <1>1, Invariant, PiecesInvariant, PTL
=============================================================================
