---------------------------- MODULE MirrorProofs ---------------------------
(***************************************************************************)
(* Proofs about a mirror stream, for every sequence of frames and every    *)
(* behaviour of the sender: its session (RaopRtpMirror), the cipher that   *)
(* decrypts it (MirrorBuffer) and where the cipher's key comes from        *)
(* (Pairing).  The three have no variable in common.                       *)
(***************************************************************************)
EXTENDS RaopRtpMirror, MirrorBuffer, Pairing, TLAPS

-----------------------------------------------------------------------------
(* The session: its types.                                                 *)

(* Where the thread is in a frame: in the payload if it has one, and then  *)
(* the header is complete.                                                 *)
InFrame ==
  /\ payload # NULL => Len(packet) = HeaderLen
  /\ payload = NULL => Len(packet) < HeaderLen
  /\ thread = "header" => payload = NULL /\ stream_fd # 0
  /\ thread = "payload" => payload # NULL /\ stream_fd # 0
  /\ thread \in {"check", "select"} /\ payload # NULL => stream_fd # 0
  /\ thread = "accept" => payload = NULL

(* accept finds the connection that select saw.                            *)
Waiting == thread = "accept" /\ mirror_data_sock = "open" => accepted < Len(conns)

FlagsOK == running \in BOOLEAN /\ joined \in BOOLEAN /\ freed \in BOOLEAN
ControlOK ==
  /\ mirror_data_sock \in {"none", "open", "closed"}
  /\ call \in {"idle", "stop", "destroy"}
  /\ {starts, errors} \subseteq Nat
ThreadOK ==
  thread \in {"none", "check", "select", "accept", "header", "payload", "close",
             "clear", "tail", "done", "aborted"}
BufferOK ==
  /\ packet \in Seq(Unit) /\ Len(packet) <= HeaderLen
  /\ payload \in Seq(Unit) \cup {NULL}
ConnsOK ==
  /\ conns \in Seq(Conn)
  /\ accepted \in 0 .. Len(conns) /\ stream_fd \in 0 .. accepted
SenderOK ==
  /\ cursor \in (Nat \ {0}) \X (Nat \ {0})
  /\ cursor[1] \in Frame => cursor[2] <= FrameEnd(cursor[1])
  /\ sent \in Seq(Frame)

LEMMA TypeParts ==
  TypeOK <=> FlagsOK /\ ControlOK /\ ThreadOK /\ BufferOK /\ ConnsOK /\ SenderOK
BY Zenon DEF TypeOK, FlagsOK, ControlOK, ThreadOK, BufferOK, ConnsOK, SenderOK

Inv == /\ FlagsOK /\ ControlOK /\ ThreadOK /\ BufferOK /\ ConnsOK /\ SenderOK
       /\ InFrame /\ Waiting

-----------------------------------------------------------------------------
(* The order in which the threads come and go needs no types: running is   *)
(* set together with the socket and cleared before stop touches it.        *)
Lifecycle ==
  /\ {running, joined} \subseteq BOOLEAN
  /\ running => call = "idle"
  /\ ListensWhileRunning
  /\ OneThread

LEMMA LifecycleInit == Init => Lifecycle
BY DEF Init, Lifecycle, ListensWhileRunning, OneThread, ThreadAlive

LEMMA LifecycleStep == Lifecycle /\ [Next]_vars => Lifecycle'
<1> SUFFICES ASSUME Lifecycle, [Next]_vars PROVE Lifecycle' OBVIOUS
<1> USE DEF Lifecycle, ListensWhileRunning, OneThread, ThreadAlive
<1>1. CASE StartMirror
  <2>1. CASE UNCHANGED <<running, joined, mirror_data_sock, thread>>
    BY <1>1, <2>1 DEF StartMirror
  <2>2. CASE ~UNCHANGED <<running, joined, mirror_data_sock, thread>>
    <3>1. /\ running' = TRUE /\ joined' = FALSE /\ mirror_data_sock' = "open"
          /\ call' = call /\ call = "idle"
      BY <1>1, <2>2 DEF StartMirror, HttpdReady
    <3> QED BY <3>1
  <2> QED BY <2>1, <2>2
<1>2. ASSUME NEW by \in {"stop", "destroy"}, Stop(by) PROVE Lifecycle'
  BY <1>2 DEF Stop, HttpdReady
<1>3. CASE CloseSocket
  BY <1>3 DEF CloseSocket
<1>4. CASE StopReturns
  BY <1>4 DEF StopReturns
<1>5. CASE DestroyStopped
  BY <1>5 DEF DestroyStopped
<1>6. CASE CheckRunning \/ Select \/ Accept \/ ReceiveHeader \/ ReceivePayload \/ HandleFrame
  <2>1. /\ UNCHANGED control
        /\ thread \in {"check", "select", "accept", "header", "payload"}
    BY <1>6 DEF CheckRunning, Select, Accept, ReceiveHeader, ReceivePayload,
       HandleFrame, Step
  <2> QED BY <2>1 DEF control
<1>7. CASE Exit
  <2>1. /\ thread \in {"close", "clear", "tail"}
        /\ UNCHANGED <<joined, mirror_data_sock, call>>
        /\ running' = running \/ running' = FALSE
    BY <1>7 DEF Exit, Step
  <2>2. joined = FALSE /\ joined' = FALSE
    BY <2>1
  <2>3. CASE running' = running
    BY <2>1, <2>2, <2>3
  <2>4. CASE running' = FALSE
    BY <2>2, <2>4
  <2> QED BY <2>1, <2>3, <2>4
<1>8. CASE Network
  BY <1>8 DEF Network, control
<1>9. CASE UNCHANGED vars
  BY <1>9 DEF vars, control
<1> QED
  BY <1>1, <1>2, <1>3, <1>4, <1>5, <1>6, <1>7, <1>8, <1>9 DEF Next, Thread, Httpd

-----------------------------------------------------------------------------
(* Types.                                                                  *)

LEMMA FramesTyped ==
  ASSUME NEW n \in Frame
  PROVE  Size(n) \in 0 .. 9 /\ FrameEnd(n) \in Nat
<1>1. Frames \in Seq(FrameInfo) /\ n \in 1 .. Len(Frames) /\ HeaderLen \in Nat
  BY MirrorAssumption DEF Frame
<1>2. Frames[n] \in FrameInfo
  BY <1>1
<1>3. Frames[n].size \in 0 .. 9
  BY <1>2 DEF FrameInfo
<1>4. Frames[n].size \in Nat
  BY <1>3
<1> QED BY <1>1, <1>3, <1>4 DEF Size, FrameEnd

LEMMA OverIsConn ==
  ASSUME NEW state \in {"reset", "closed"} PROVE Over(state) \in Conn
BY DEF Over, Conn

(* What recv takes is a beginning of what has arrived, and fits.           *)
LEMMA Received ==
  ASSUME Inv, stream_fd # 0, NEW wanted \in Nat,
         NEW n, n = Available(wanted), n > 0
  PROVE  /\ n \in 1 .. wanted
         /\ Taken(n) \in Seq(Unit) /\ Len(Taken(n)) = n
         /\ Rest(n) \in Seq(Conn) /\ Len(Rest(n)) = Len(conns)
<1> DEFINE c == conns[stream_fd]
<1>1. /\ conns \in Seq(Conn) /\ stream_fd \in 1 .. Len(conns)
      /\ c \in Conn /\ c.bytes \in Seq(Unit) /\ Len(c.bytes) \in Nat
  <2>1. conns \in Seq(Conn) /\ accepted \in 0 .. Len(conns) /\ stream_fd \in 0 .. accepted
    BY DEF Inv, ConnsOK
  <2>2. Len(conns) \in Nat /\ stream_fd \in 1 .. Len(conns)
    BY <2>1
  <2>3. c \in Conn
    BY <2>1, <2>2
  <2>4. c.bytes \in Seq(Unit)
    BY <2>3 DEF Conn
  <2> QED BY <2>1, <2>2, <2>3, <2>4
<1>2. n \in 1 .. wanted /\ n \in 1 .. Len(c.bytes)
  BY <1>1 DEF Available
<1>3. Taken(n) \in Seq(Unit) /\ Len(Taken(n)) = n
  <2> HIDE DEF c
  <2>1. SubSeq(c.bytes, 1, n) \in Seq(Unit) /\ Len(SubSeq(c.bytes, 1, n)) = n
    BY <1>1, <1>2
  <2> QED BY <2>1 DEF Taken, c
<1>4. SubSeq(c.bytes, n + 1, Len(c.bytes)) \in Seq(Unit)
  <2> HIDE DEF c
  <2> QED BY <1>1, <1>2
<1>5. [c EXCEPT !.bytes = SubSeq(c.bytes, n + 1, Len(c.bytes))] \in Conn
  BY <1>1, <1>4 DEF Conn
<1>6. Rest(n) = [conns EXCEPT ![stream_fd] =
                   [c EXCEPT !.bytes = SubSeq(c.bytes, n + 1, Len(c.bytes))]]
  BY DEF Rest
<1>7. Rest(n) \in Seq(Conn) /\ Len(Rest(n)) = Len(conns)
  <2> HIDE DEF c
  <2> QED BY <1>1, <1>5, <1>6
<1> QED BY <1>2, <1>3, <1>7

(* A header that is complete says how long the payload is.                 *)
LEMMA PayloadTyped ==
  ASSUME BufferOK, Len(packet) = HeaderLen
  PROVE  PayloadSize \in Nat
<1>1. packet \in Seq(Unit) /\ Len(packet) > 0
  BY MirrorAssumption DEF BufferOK
<1>2. Head(packet) \in Unit
  BY <1>1
<1>3. Head(packet)[1] \in Frame
  BY <1>2 DEF Unit
<1> QED BY <1>3, FramesTyped DEF PayloadSize

(* The sender sends units of frames.                                       *)
LEMMA CursorInFrame ==
  ASSUME SenderOK, cursor[1] \in Frame
  PROVE  cursor \in Unit
<1>1. Size(cursor[1]) \in 0 .. 9 /\ HeaderLen \in Nat
  BY FramesTyped, MirrorAssumption
<1>2. cursor[2] \in 1 .. HeaderLen + 9
  BY <1>1 DEF SenderOK, FrameEnd
<1>3. cursor = <<cursor[1], cursor[2]>>
  BY DEF SenderOK
<1> QED BY <1>2, <1>3 DEF Unit

LEMMA InvInit == Init => Inv
<1> SUFFICES ASSUME Init PROVE Inv OBVIOUS
<1>1. cursor \in (Nat \ {0}) \X (Nat \ {0}) /\ (cursor[1] \in Frame => cursor[2] <= FrameEnd(cursor[1]))
  <2>1. 1 \in Frame => 1 <= FrameEnd(1)
    BY MirrorAssumption, FramesTyped, SMTT(40) DEF FrameEnd
  <2> QED BY <2>1 DEF Init
<1>2. InFrame /\ Waiting
  BY MirrorAssumption DEF Init, InFrame, Waiting
<1>3. ControlOK /\ ThreadOK
  BY DEF Init, ControlOK, ThreadOK
<1>5. FlagsOK
  BY DEF Init, FlagsOK
<1>6. SenderOK
  BY <1>1 DEF Init, SenderOK
<1>4. BufferOK /\ ConnsOK
  BY MirrorAssumption DEF Init, BufferOK, ConnsOK
<1> QED BY <1>2, <1>3, <1>4, <1>5, <1>6 DEF Inv

LEMMA FlagsStep == Inv /\ [Next]_vars => FlagsOK'
<1> SUFFICES ASSUME Inv, [Next]_vars PROVE FlagsOK' OBVIOUS
<1> USE DEF Inv, FlagsOK
<1>1. CASE StartMirror
  <2>1. CASE UNCHANGED <<running, joined>>
    BY <1>1, <2>1 DEF StartMirror
  <2>2. CASE ~UNCHANGED <<running, joined>>
    BY <1>1, <2>2 DEF StartMirror
  <2> QED BY <2>1, <2>2
<1>2. ASSUME NEW by \in {"stop", "destroy"}, Stop(by) PROVE FlagsOK'
  BY <1>2 DEF Stop
<1>3. CASE CloseSocket
  BY <1>3 DEF CloseSocket
<1>4. CASE StopReturns
  BY <1>4 DEF StopReturns
<1>5. CASE DestroyStopped
  BY <1>5 DEF DestroyStopped
<1>6. CASE Exit
  <2>1. UNCHANGED <<joined, freed>> /\ (running' = running \/ running' = FALSE)
    BY <1>6 DEF Exit
  <2> QED BY <2>1
<1>7. CASE UNCHANGED control
  BY <1>7 DEF control
<1> QED
  BY <1>1, <1>2, <1>3, <1>4, <1>5, <1>6, <1>7 DEF Next, Thread, Httpd, vars, Network,
     CheckRunning, Select, Accept, ReceiveHeader, ReceivePayload, HandleFrame

LEMMA ControlStep == Inv /\ [Next]_vars => ControlOK' /\ ThreadOK'
<1> SUFFICES ASSUME Inv, [Next]_vars PROVE ControlOK' /\ ThreadOK' OBVIOUS
<1> USE DEF Inv, ControlOK, ThreadOK
<1>1. CASE StartMirror
  <2>1. CASE UNCHANGED <<mirror_data_sock, thread>>
    BY <1>1, <2>1 DEF StartMirror, Failure
  <2>2. CASE ~UNCHANGED <<mirror_data_sock, thread>>
    <3>1. /\ mirror_data_sock' = "open" /\ thread' = "check"
          /\ call' = call /\ starts' = starts + 1 /\ UNCHANGED errors
      BY <1>1, <2>2 DEF StartMirror
    <3> QED BY <3>1
  <2> QED BY <2>1, <2>2
<1>2. ASSUME NEW by \in {"stop", "destroy"}, Stop(by) PROVE ControlOK' /\ ThreadOK'
  BY <1>2 DEF Stop, HttpdReady
<1>3. CASE CloseSocket
  BY <1>3 DEF CloseSocket
<1>4. CASE StopReturns
  BY <1>4 DEF StopReturns
<1>5. CASE DestroyStopped
  BY <1>5 DEF DestroyStopped
<1>6. CASE CheckRunning
  BY <1>6 DEF CheckRunning, Step, control
<1>7. CASE Select
  BY <1>7 DEF Select, Step, control, Failure
<1>8. CASE Accept
  BY <1>8 DEF Accept, Step, control, Failure
<1>9. CASE ReceiveHeader
  BY <1>9 DEF ReceiveHeader, AfterHeaderEnd, control
<1>10. CASE ReceivePayload
  BY <1>10 DEF ReceivePayload, AfterPayloadEnd, control
<1>11. CASE HandleFrame
  BY <1>11 DEF HandleFrame, Step, control
<1>12. CASE Exit
  BY <1>12 DEF Exit, Step
<1>13. CASE Network
  BY <1>13 DEF Network, control
<1>14. CASE UNCHANGED vars
  BY <1>14 DEF vars, control
<1> QED
  BY <1>1, <1>2, <1>3, <1>4, <1>5, <1>6, <1>7, <1>8, <1>9, <1>10, <1>11, <1>12, <1>13,
     <1>14 DEF Next, Thread, Httpd

(* The buffers of the thread.  InFrame goes with them: a header is only    *)
(* complete when there is a payload.                                       *)
LEMMA BufferStep == Inv /\ [Next]_vars => BufferOK' /\ InFrame'
<1> SUFFICES ASSUME Inv, [Next]_vars PROVE BufferOK' /\ InFrame' OBVIOUS
<1> HeaderLen \in Nat /\ HeaderLen > 0 /\ NULL \notin Seq(Unit) /\ <<>> \in Seq(Unit)
  BY MirrorAssumption
<1> USE DEF Inv, BufferOK, InFrame
<1>1. CASE StartMirror
  <2>1. CASE UNCHANGED <<thread, stream>>
    BY <1>1, <2>1 DEF StartMirror, stream
  <2>2. CASE ~UNCHANGED <<thread, stream>>
    <3>1. thread' = "check" /\ stream_fd' = 0 /\ packet' = <<>> /\ payload' = NULL
      BY <1>1, <2>2 DEF StartMirror, stream
    <3>2. Len(packet') = 0
      BY <3>1
    <3> QED BY <3>1, <3>2
  <2> QED BY <2>1, <2>2
<1>2. CASE UNCHANGED <<thread, stream>>
  BY <1>2 DEF stream
<1>3. CASE CheckRunning
  BY <1>3 DEF CheckRunning, Step, stream
<1>4. CASE Select
  BY <1>4 DEF Select, Step, stream
<1>5. CASE Accept
  <2>1. /\ thread = "accept" /\ payload = NULL /\ payload' = NULL
        /\ thread' \in {"check", "close"}
        /\ packet' \in {packet, <<>>}
    BY <1>5 DEF Accept, Step
  <2>2. packet' \in Seq(Unit) /\ Len(packet') < HeaderLen
    <3>1. CASE packet' = packet
      BY <2>1, <3>1
    <3>2. CASE packet' = <<>>
      <4>1. Len(packet') = 0 BY <3>2
      <4> QED BY <3>2, <4>1
    <3> QED BY <2>1, <3>1, <3>2
  <2> QED BY <2>1, <2>2
<1>6. CASE ReceiveHeader
  <2>1. thread = "header" /\ stream_fd # 0 /\ payload = NULL
    BY <1>6 DEF ReceiveHeader
  <2>2. CASE UNCHANGED <<packet, payload>> /\ thread' \in {"check", "close"}
    BY <1>6, <2>1, <2>2 DEF ReceiveHeader
  <2>3. CASE ~(UNCHANGED <<packet, payload>> /\ thread' \in {"check", "close"})
    <3> DEFINE wanted == HeaderLen - Len(packet)
               n == Available(wanted)
    <3>1. /\ n > 0 /\ packet' = packet \o Taken(n) /\ UNCHANGED stream_fd
          /\ IF Len(packet') = HeaderLen
             THEN thread' = "payload" /\ payload' = <<>>
             ELSE UNCHANGED <<thread, payload>>
      BY <1>6, <2>3 DEF ReceiveHeader, AfterHeaderEnd
    <3>2. wanted \in Nat /\ Len(packet) \in Nat
      OBVIOUS
    <3>3. n \in 1 .. wanted /\ Taken(n) \in Seq(Unit) /\ Len(Taken(n)) = n
      <4> HIDE DEF wanted
      <4> QED BY <2>1, <3>1, <3>2, Received
    <3>4. packet' \in Seq(Unit) /\ Len(packet') <= HeaderLen
      <4> HIDE DEF n
      <4> QED BY <3>1, <3>2, <3>3
    <3>5. Len(packet') \in Nat
      BY <3>4
    <3>6. CASE Len(packet') = HeaderLen
      <4>1. thread' = "payload" /\ payload' = <<>> /\ payload' # NULL
        BY <3>1, <3>6
      <4> QED BY <2>1, <3>1, <3>4, <3>6, <4>1
    <3>7. CASE Len(packet') < HeaderLen
      <4>1. thread' = "header" /\ payload' = NULL
        BY <2>1, <3>1, <3>4, <3>5, <3>7
      <4> QED BY <2>1, <3>1, <3>4, <3>7, <4>1
    <3> QED BY <3>4, <3>5, <3>6, <3>7
  <2> QED BY <2>2, <2>3
<1>7. CASE ReceivePayload
  <2>1. /\ thread = "payload" /\ stream_fd # 0 /\ payload \in Seq(Unit)
        /\ UNCHANGED <<packet, stream_fd>>
    BY <1>7 DEF ReceivePayload
  <2>2. CASE UNCHANGED payload
    BY <1>7, <2>1, <2>2 DEF ReceivePayload, AfterPayloadEnd
  <2>3. CASE ~UNCHANGED payload
    <3> DEFINE wanted == PayloadSize - Len(payload)
               n == Available(wanted)
    <3>1. n > 0 /\ payload' = payload \o Taken(n) /\ UNCHANGED thread
      BY <1>7, <2>3 DEF ReceivePayload
    <3>2. wanted \in Nat
      BY <1>7, <2>1, PayloadTyped DEF ReceivePayload
    <3>3. Taken(n) \in Seq(Unit)
      <4> HIDE DEF wanted
      <4> QED BY <2>1, <3>1, <3>2, Received
    <3>4. payload' \in Seq(Unit)
      <4> HIDE DEF n
      <4> QED BY <2>1, <3>1, <3>3
    <3> QED BY <2>1, <3>1, <3>4
  <2> QED BY <2>2, <2>3
<1>8. CASE HandleFrame
  BY <1>8 DEF HandleFrame, Step
<1>9. CASE Exit
  BY <1>9 DEF Exit, Step
<1> QED
  BY <1>1, <1>2, <1>3, <1>4, <1>5, <1>6, <1>7, <1>8, <1>9 DEF Next, Thread, Httpd, vars,
     Network, Stop, CloseSocket, StopReturns, DestroyStopped

(* The connections of a session; none is forgotten while it is read.       *)
LEMMA ConnsStep == Inv /\ [Next]_vars => ConnsOK'
<1> SUFFICES ASSUME Inv, [Next]_vars PROVE ConnsOK' OBVIOUS
<1>0. /\ conns \in Seq(Conn) /\ Len(conns) \in Nat
      /\ accepted \in 0 .. Len(conns) /\ stream_fd \in 0 .. accepted
  BY DEF Inv, ConnsOK
<1>1. CASE UNCHANGED <<conns, accepted, stream_fd>>
  BY <1>0, <1>1 DEF ConnsOK
<1>2. CASE StartMirror
  <2>1. CASE UNCHANGED <<conns, accepted, stream_fd>>
    BY <1>1, <2>1
  <2>2. CASE ~UNCHANGED <<conns, accepted, stream_fd>>
    <3>1. conns' = <<>> /\ accepted' = 0 /\ stream_fd' = 0
      BY <1>2, <2>2 DEF StartMirror, stream
    <3> QED BY <3>1 DEF ConnsOK
  <2> QED BY <2>1, <2>2
<1>3. CASE CloseSocket
  <2>1. CASE conns' = conns
    BY <1>1, <1>3, <2>1 DEF CloseSocket, stream
  <2>2. CASE conns' = SubSeq(conns, 1, accepted)
    <3>1. conns' \in Seq(Conn) /\ Len(conns') = accepted
      BY <1>0, <2>2
    <3> QED BY <1>0, <1>3, <3>1 DEF CloseSocket, stream, ConnsOK
  <2> QED BY <1>3, <2>1, <2>2 DEF CloseSocket
<1>4. CASE Accept
  <2>1. CASE UNCHANGED <<accepted, stream_fd>>
    BY <1>1, <1>4, <2>1 DEF Accept, network
  <2>2. CASE ~UNCHANGED <<accepted, stream_fd>>
    <3>1. accepted' = accepted + 1 /\ stream_fd' = accepted + 1 /\ conns' = conns
      BY <1>4, <2>2 DEF Accept, network
    <3>2. thread = "accept" /\ mirror_data_sock = "open"
      BY <1>4, <2>2 DEF Accept, Step
    <3>3. accepted < Len(conns)
      BY <3>2 DEF Inv, Waiting
    <3> QED BY <1>0, <3>1, <3>3 DEF ConnsOK
  <2> QED BY <2>1, <2>2
<1>5. CASE ReceiveHeader
  <2>1. thread = "header" /\ stream_fd # 0 /\ accepted' = accepted
    BY <1>5 DEF ReceiveHeader, Inv, InFrame
  <2>2. CASE conns' = conns /\ stream_fd' \in {0, stream_fd}
    BY <1>0, <2>1, <2>2 DEF ConnsOK
  <2>3. CASE ~(conns' = conns /\ stream_fd' \in {0, stream_fd})
    <3> DEFINE wanted == HeaderLen - Len(packet)
               n == Available(wanted)
    <3>1. n > 0 /\ conns' = Rest(n) /\ UNCHANGED stream_fd
      BY <1>5, <2>3 DEF ReceiveHeader
    <3>2. wanted \in Nat
      BY MirrorAssumption DEF Inv, BufferOK
    <3>3. Rest(n) \in Seq(Conn) /\ Len(Rest(n)) = Len(conns)
      <4> HIDE DEF wanted
      <4> QED BY <2>1, <3>1, <3>2, Received
    <3> HIDE DEF n
    <3> QED BY <1>0, <2>1, <3>1, <3>3 DEF ConnsOK
  <2> QED BY <2>2, <2>3
<1>6. CASE ReceivePayload
  <2>1. /\ thread = "payload" /\ stream_fd # 0 /\ payload \in Seq(Unit)
        /\ Len(packet) = HeaderLen /\ UNCHANGED <<accepted, stream_fd>>
    BY <1>6 DEF ReceivePayload, Inv, InFrame, BufferOK
  <2>2. CASE conns' = conns
    BY <1>1, <2>1, <2>2
  <2>3. CASE conns' # conns
    <3> DEFINE wanted == PayloadSize - Len(payload)
               n == Available(wanted)
    <3>1. n > 0 /\ conns' = Rest(n)
      BY <1>6, <2>3 DEF ReceivePayload
    <3>2. wanted \in Nat
      BY <1>6, <2>1, PayloadTyped DEF ReceivePayload, Inv
    <3>3. Rest(n) \in Seq(Conn) /\ Len(Rest(n)) = Len(conns)
      <4> HIDE DEF wanted
      <4> QED BY <2>1, <3>1, <3>2, Received
    <3> HIDE DEF n
    <3> QED BY <1>0, <2>1, <3>1, <3>3 DEF ConnsOK
  <2> QED BY <2>2, <2>3
<1>7. CASE Exit
  <2>1. CASE UNCHANGED <<conns, stream_fd>>
    BY <1>1, <1>7, <2>1 DEF Exit
  <2>2. CASE ~UNCHANGED <<conns, stream_fd>>
    <3>1. /\ stream_fd # 0 /\ stream_fd' = 0 /\ accepted' = accepted
          /\ \E state \in {"reset", "closed"} :
               conns' = [conns EXCEPT ![stream_fd] = Over(state)]
      BY <1>7, <2>2 DEF Exit
    <3>2. conns' \in Seq(Conn) /\ Len(conns') = Len(conns)
      BY <1>0, <3>1, OverIsConn
    <3> QED BY <1>0, <3>1, <3>2 DEF ConnsOK
  <2> QED BY <2>1, <2>2
<1>8. CASE Network
  <2>0. UNCHANGED <<accepted, stream_fd>>
    BY <1>8 DEF Network, stream
  <2>1. conns' \in Seq(Conn) /\ Len(conns') \in Nat /\ Len(conns') >= Len(conns)
    <3>1. CASE Connect
      <4>1. [bytes |-> <<>>, state |-> "open"] \in Conn
        BY DEF Conn
      <4> QED BY <1>0, <3>1, <4>1 DEF Connect
    <3>2. CASE Send
      <4> DEFINE c == conns[Current]
      <4>1. Current \in 1 .. Len(conns) /\ c \in Conn
        BY <1>0, <3>2 DEF Send, Sending, Current
      <4>2. c.bytes \in Seq(Unit)
        BY <4>1 DEF Conn
      <4>3. cursor \in Unit
        BY <3>2, CursorInFrame DEF Send, Inv
      <4>4. [c EXCEPT !.bytes = Append(c.bytes, cursor)] \in Conn
        <5>1. Append(c.bytes, cursor) \in Seq(Unit)
          <6> HIDE DEF c
          <6> QED BY <4>2, <4>3
        <5> QED BY <4>1, <5>1 DEF Conn
      <4>5. conns' = [conns EXCEPT ![Current] =
                        [c EXCEPT !.bytes = Append(c.bytes, cursor)]]
        BY <3>2 DEF Send
      <4> HIDE DEF c
      <4> QED BY <1>0, <4>1, <4>4, <4>5
    <3>3. CASE Disconnect
      <4> DEFINE c == conns[Current]
      <4>1. Current \in 1 .. Len(conns) /\ c \in Conn
        BY <1>0, <3>3 DEF Disconnect, Sending, Current
      <4>2. [c EXCEPT !.state = "fin"] \in Conn
        BY <4>1 DEF Conn
      <4>3. \/ conns' = [conns EXCEPT ![Current] = Over("reset")]
            \/ conns' = [conns EXCEPT ![Current] = [c EXCEPT !.state = "fin"]]
        BY <3>3 DEF Disconnect
      <4> HIDE DEF c
      <4> QED BY <1>0, <4>1, <4>2, <4>3, OverIsConn
    <3> QED BY <1>8, <3>1, <3>2, <3>3 DEF Network
  <2> QED BY <1>0, <2>0, <2>1 DEF ConnsOK
<1> QED
  BY <1>1, <1>2, <1>3, <1>4, <1>5, <1>6, <1>7, <1>8 DEF Next, Thread, Httpd, vars,
     stream, network, Stop, StopReturns, DestroyStopped, CheckRunning, Select, HandleFrame

LEMMA WaitingStep == Inv /\ [Next]_vars => Waiting'
<1> SUFFICES ASSUME Inv, [Next]_vars, thread' = "accept", mirror_data_sock' = "open"
             PROVE  accepted' < Len(conns')
  BY DEF Waiting
<1>0. accepted \in Nat /\ conns \in Seq(Conn) /\ Len(conns) \in Nat
  <2>1. Len(conns) \in Nat /\ accepted \in 0 .. Len(conns) /\ conns \in Seq(Conn)
    BY DEF Inv, ConnsOK
  <2> QED BY <2>1
<1>1. CASE UNCHANGED <<thread, mirror_data_sock, accepted, conns>>
  BY <1>1 DEF Inv, Waiting
<1>2. CASE Select
  BY <1>2 DEF Select, Step, control, network
<1>3. CASE Network
  <2>1. UNCHANGED <<thread, mirror_data_sock, accepted>> /\ accepted < Len(conns)
    BY <1>3 DEF Network, control, Inv, Waiting
  <2>2. Len(conns') \in {Len(conns), Len(conns) + 1}
    BY <1>0, <1>3 DEF Network, Connect, Send, Disconnect, Sending, Current
  <2> QED BY <1>0, <2>1, <2>2
<1>4. CASE StartMirror \/ CloseSocket
  BY <1>1, <1>4 DEF StartMirror, CloseSocket
<1>5. CASE Accept \/ CheckRunning \/ ReceiveHeader \/ ReceivePayload \/ HandleFrame \/ Exit
  BY <1>5 DEF Accept, CheckRunning, ReceiveHeader, ReceivePayload, HandleFrame, Exit,
     Step, AfterHeaderEnd, AfterPayloadEnd
<1> QED
  BY <1>1, <1>2, <1>3, <1>4, <1>5 DEF Next, Thread, Httpd, vars, control, network, Stop,
     StopReturns, DestroyStopped

(* The sender stays in the stream, whatever becomes of its connections.    *)
LEMMA SenderStep == Inv /\ [Next]_vars => SenderOK'
<1> SUFFICES ASSUME Inv, [Next]_vars PROVE SenderOK' OBVIOUS
<1>0. cursor[1] \in Nat \ {0} /\ cursor[2] \in Nat \ {0} /\ sent \in Seq(Frame)
  BY DEF Inv, SenderOK
<1>1. CASE UNCHANGED <<cursor, sent>>
  BY <1>1 DEF Inv, SenderOK
<1>2. CASE StartMirror
  <2>1. cursor' = cursor /\ (sent' = sent \/ sent' = <<>>)
    BY <1>2 DEF StartMirror
  <2>2. sent' \in Seq(Frame)
    <3>1. <<>> \in Seq(Frame) OBVIOUS
    <3> QED BY <1>0, <2>1, <3>1
  <2> QED BY <2>1, <2>2 DEF Inv, SenderOK, FrameEnd, Size
<1>3. CASE Connect
  <2>1. sent' = sent /\ cursor' = NextFrame
    BY <1>3 DEF Connect
  <2>2. \A n \in Frame : 1 <= FrameEnd(n)
    BY FramesTyped, MirrorAssumption, SMTT(40) DEF FrameEnd
  <2> QED BY <1>0, <2>1, <2>2 DEF NextFrame, SenderOK
<1>4. CASE Send
  <2> DEFINE n == cursor[1]
  <2>1. n \in Frame /\ cursor[2] <= FrameEnd(n) /\ FrameEnd(n) \in Nat
    BY <1>4, FramesTyped DEF Send, Inv, SenderOK
  <2>2. CASE cursor[2] = FrameEnd(n)
    <3>1. cursor' = <<n + 1, 1>> /\ sent' = Append(sent, n)
      BY <1>4, <2>2 DEF Send
    <3>2. \A i \in Frame : 1 <= FrameEnd(i)
      BY FramesTyped, MirrorAssumption, SMTT(40) DEF FrameEnd
    <3> QED BY <1>0, <2>1, <3>1, <3>2 DEF SenderOK
  <2>3. CASE cursor[2] # FrameEnd(n)
    <3>1. cursor' = <<n, cursor[2] + 1>> /\ sent' = sent
      BY <1>4, <2>3 DEF Send
    <3> QED BY <1>0, <2>1, <2>3, <3>1 DEF SenderOK
  <2> QED BY <2>2, <2>3
<1>5. CASE Disconnect
  BY <1>1, <1>5 DEF Disconnect
<1> QED
  BY <1>1, <1>2, <1>3, <1>4, <1>5 DEF Next, Thread, Httpd, vars, network, Network, Stop,
     CloseSocket, StopReturns, DestroyStopped, CheckRunning, Select, Accept,
     ReceiveHeader, ReceivePayload, HandleFrame, Exit

(* The state keeps its types: a header is never longer than HeaderLen, and *)
(* the thread reads only from a connection it has accepted.                *)
THEOREM MirrorTypeCorrect == Spec => []TypeOK
<1>1. Inv /\ [Next]_vars => Inv'
  BY FlagsStep, ControlStep, BufferStep, ConnsStep, WaitingStep, SenderStep
  DEF Inv
<1>2. Inv => TypeOK
  BY TypeParts DEF Inv
<1> QED BY InvInit, <1>1, <1>2, PTL DEF Spec

(* The listening socket is open for as long as the session runs.           *)
THEOREM MirrorListens == Spec => []ListensWhileRunning
<1>1. Spec => []Lifecycle
  BY LifecycleInit, LifecycleStep, PTL DEF Spec
<1>2. Lifecycle => ListensWhileRunning
  BY DEF Lifecycle
<1> QED BY <1>1, <1>2, PTL

(* There is never a second mirror thread.                                  *)
THEOREM MirrorOneThread == Spec => []OneThread
<1>1. Spec => []Lifecycle
  BY LifecycleInit, LifecycleStep, PTL DEF Spec
<1>2. Lifecycle => OneThread
  BY DEF Lifecycle
<1> QED BY <1>1, <1>2, PTL

(* Where the thread has cleared running or is gone; elsewhere somebody     *)
(* will still stop it, or is waiting for it.                               *)
Past == {"none", "tail", "done", "aborted"}
Freeing ==
  /\ freed => thread \in Past /\ call = "idle"
  /\ thread \notin Past => running = TRUE \/ call # "idle"

LEMMA FreeingStep == Lifecycle /\ Freeing /\ [Next]_vars => Freeing'
<1> SUFFICES ASSUME Lifecycle, Freeing, [Next]_vars PROVE Freeing' OBVIOUS
<1> USE DEF Freeing, Past
<1>1. CASE StartMirror
  <2>1. CASE UNCHANGED <<running, thread>>
    BY <1>1, <2>1 DEF StartMirror
  <2>2. CASE ~UNCHANGED <<running, thread>>
    BY <1>1, <2>2 DEF StartMirror, HttpdReady
  <2> QED BY <2>1, <2>2
<1>2. ASSUME NEW by \in {"stop", "destroy"}, Stop(by) PROVE Freeing'
  BY <1>2 DEF Stop, HttpdReady
<1>3. CASE CloseSocket
  BY <1>3 DEF CloseSocket
<1>4. CASE StopReturns
  BY <1>4 DEF StopReturns
<1>5. CASE DestroyStopped
  <2>1. thread \in Past /\ call = "idle"
    BY <1>5 DEF DestroyStopped, HttpdReady, Lifecycle, OneThread, ThreadAlive
  <2> QED BY <1>5, <2>1 DEF DestroyStopped
<1>6. CASE CheckRunning \/ Select \/ Accept \/ ReceiveHeader \/ ReceivePayload \/ HandleFrame
  <2>1. UNCHANGED control /\ thread \notin Past
    BY <1>6 DEF CheckRunning, Select, Accept, ReceiveHeader, ReceivePayload,
       HandleFrame, Step
  <2> QED BY <2>1 DEF control
<1>7. CASE Exit
  <2>1. /\ UNCHANGED <<freed, call>>
        /\ \/ thread = "close" /\ UNCHANGED running
           \/ thread \in {"clear", "tail"} /\ thread' \in {"tail", "done"}
    BY <1>7 DEF Exit, Step
  <2> QED BY <2>1
<1>8. CASE Network
  BY <1>8 DEF Network, control
<1>9. CASE UNCHANGED vars
  BY <1>9 DEF vars, control
<1> QED
  BY <1>1, <1>2, <1>3, <1>4, <1>5, <1>6, <1>7, <1>8, <1>9 DEF Next, Thread, Httpd

(* Destroy frees a session only when its thread has ended, whatever has    *)
(* failed before, but for a thread that ended by itself, is joined by      *)
(* nobody, and has no more to do than to write its last line in the log.   *)
THEOREM MirrorFreedThreadOnlyLogs == Spec => []FreedThreadOnlyLogs
<1>1. Init => Freeing
  BY DEF Init, Freeing, Past
<1>2. Spec => []Lifecycle
  BY LifecycleInit, LifecycleStep, PTL DEF Spec
<1>3. Spec => []Freeing
  BY <1>1, <1>2, FreeingStep, PTL DEF Spec
<1>4. Lifecycle /\ Freeing => FreedThreadOnlyLogs
  <2> SUFFICES ASSUME Lifecycle, Freeing, freed, thread = "tail" PROVE ~joined
    BY DEF Freeing, Past, FreedThreadOnlyLogs, ThreadAlive
  <2> QED BY DEF Lifecycle, OneThread, ThreadAlive
<1> QED BY <1>2, <1>3, <1>4, PTL

-----------------------------------------------------------------------------
(* The session keeps to the life cycle that a connection relies on.        *)

LEMMA InitLife == Init => Life!Init
BY DEF Init, Life!Init, LifeThread

LEMMA HttpdLife ==
  ASSUME Httpd
  PROVE  Life!Next \/ UNCHANGED <<running, joined, LifeThread, call, freed>>
<1>1. CASE StartMirror
  <2>1. CASE UNCHANGED <<running, joined, thread>>
    BY <1>1, <2>1 DEF StartMirror, LifeThread
  <2>2. CASE ~UNCHANGED <<running, joined, thread>>
    <3>1. Life!Start
      BY <1>1, <2>2 DEF StartMirror, HttpdReady, LifeThread, Life!Start, Life!Ready
    <3> QED BY <3>1 DEF Life!Next
  <2> QED BY <2>1, <2>2
<1>2. ASSUME NEW by \in {"stop", "destroy"}, Stop(by) PROVE Life!Stop
  BY <1>2 DEF Stop, HttpdReady, LifeThread, Life!Stop, Life!Ready
<1>3. CASE CloseSocket BY <1>3 DEF CloseSocket, LifeThread
<1>4. CASE StopReturns
  <2>1. Life!StopReturns BY <1>4 DEF StopReturns, LifeThread, Life!StopReturns
  <2> QED BY <2>1 DEF Life!Next
<1>5. CASE DestroyStopped
  <2>1. Life!DestroyStopped
    BY <1>5 DEF DestroyStopped, HttpdReady, LifeThread, Life!DestroyStopped,
                Life!Ready
  <2> QED BY <2>1 DEF Life!Next
<1> QED BY <1>1, <1>2, <1>3, <1>4, <1>5 DEF Httpd, Life!Next

(* select ends the program only after stop has cleared running. *)
LEMMA ThreadLife ==
  ASSUME Thread, Lifecycle
  PROVE  Life!Next \/ UNCHANGED <<running, joined, LifeThread, call, freed>>
<1>1. CASE Exit
  <2>1. Life!ThreadEnds \/ UNCHANGED <<running, joined, LifeThread, call, freed>>
    BY <1>1 DEF Exit, Step, LifeThread, Life!ThreadEnds
  <2> QED BY <2>1 DEF Life!Next
<1>2. CASE thread' = "aborted" /\ Select
  <2>1. thread = "select" /\ mirror_data_sock = "none" /\ UNCHANGED control
    BY <1>2 DEF Select, Step
  <2>2. running = FALSE
    BY <2>1 DEF Lifecycle, ListensWhileRunning
  <2>3. Life!ThreadEnds
    BY <1>2, <2>1, <2>2 DEF control, LifeThread, Life!ThreadEnds
  <2> QED BY <2>3 DEF Life!Next
<1>3. CASE \/ CheckRunning \/ (Select /\ thread' # "aborted") \/ Accept
           \/ ReceiveHeader \/ ReceivePayload \/ HandleFrame
  <2>1. UNCHANGED control
    BY <1>3 DEF CheckRunning, Select, Accept, ReceiveHeader, ReceivePayload,
                HandleFrame
  <2>2. {thread, thread'} \cap {"none", "tail", "done", "aborted"} = {}
    BY <1>3 DEF CheckRunning, Select, Accept, ReceiveHeader, ReceivePayload,
                HandleFrame, Step, AfterHeaderEnd, AfterPayloadEnd
  <2> QED BY <2>1, <2>2 DEF control, LifeThread
<1> QED BY <1>1, <1>2, <1>3 DEF Thread

(* Whatever the mirror thread and the sender do, start, stop, destroy and  *)
(* the thread's own end happen in the order of SessionLife.                *)
THEOREM MirrorIsSession == Spec => IsSession
<1>1. Lifecycle /\ [Next]_vars
        => [Life!Next]_(Life!vars)
  <2>1. CASE Network \/ UNCHANGED vars
    BY <2>1 DEF Network, vars, control, LifeThread, Life!vars
  <2> QED BY <2>1, HttpdLife, ThreadLife DEF Next, Life!vars
<1> QED BY <1>1, InitLife, LifecycleInit, LifecycleStep, PTL
        DEF Spec, IsSession, Life!Spec

-----------------------------------------------------------------------------
(* Streams: what of a connection is still to be read.  Its units follow    *)
(* each other, from the beginning of a frame on; a unit that is further on *)
(* belongs to the same frame as far as this goes, or else to a later one.  *)

Follows(u, v) ==
  v = IF u[2] = FrameEnd(u[1]) THEN <<u[1] + 1, 1>> ELSE <<u[1], u[2] + 1>>
LastUnit(n) == <<n, FrameEnd(n)>>
Units(s) == {s[j] : j \in 1 .. Len(s)}

IsStream(s) ==
  /\ s \in Seq(Unit)
  /\ \A j \in 1 .. Len(s) : s[j][2] <= FrameEnd(s[j][1])
  /\ s # <<>> => s[1][2] = 1
  /\ \A j \in 1 .. Len(s) - 1 : Follows(s[j], s[j + 1])
  /\ \A j, k \in 1 .. Len(s) : j < k =>
       IF s[j][2] + (k - j) <= FrameEnd(s[j][1])
       THEN s[k] = <<s[j][1], s[j][2] + (k - j)>>
       ELSE s[k][1] > s[j][1]

(* Numbers of units and frames are numbers, for the provers.               *)
LEMMA UnitTyped ==
  ASSUME NEW u \in Unit
  PROVE  /\ u[1] \in Frame /\ u[1] \in Nat /\ u[2] \in Nat /\ u[2] >= 1
         /\ u = <<u[1], u[2]>>
         /\ FrameEnd(u[1]) \in Nat /\ FrameEnd(u[1]) >= HeaderLen
<1>1. u[1] \in Frame /\ u[2] \in 1 .. HeaderLen + 9 /\ u = <<u[1], u[2]>> BY DEF Unit
<1>2. Size(u[1]) \in 0 .. 9 /\ HeaderLen \in Nat BY <1>1, FramesTyped, MirrorAssumption
<1>3. u[1] \in Nat BY <1>1 DEF Frame
<1> QED BY <1>1, <1>2, <1>3 DEF FrameEnd

LEMMA StreamTyped ==
  ASSUME NEW s, IsStream(s)
  PROVE  /\ Len(s) \in Nat
         /\ \A j \in 1 .. Len(s) :
              /\ s[j] \in Unit
              /\ s[j][1] \in Frame /\ s[j][1] \in Nat /\ s[j][2] \in Nat /\ s[j][2] >= 1
              /\ s[j] = <<s[j][1], s[j][2]>>
              /\ FrameEnd(s[j][1]) \in Nat /\ FrameEnd(s[j][1]) >= HeaderLen
<1>1. s \in Seq(Unit) BY DEF IsStream
<1>2. \A j \in 1 .. Len(s) : s[j] \in Unit BY <1>1
<1> QED BY <1>1, <1>2, UnitTyped

LEMMA EmptyStream == IsStream(<<>>)
BY DEF IsStream

LEMMA StreamExtends ==
  ASSUME NEW s, IsStream(s), NEW u \in Unit, u[2] <= FrameEnd(u[1]),
         s = <<>> => u[2] = 1, s # <<>> => Follows(s[Len(s)], u)
  PROVE  IsStream(Append(s, u))
<1> DEFINE t == Append(s, u)
           n == Len(s)
<1>1. s \in Seq(Unit) BY DEF IsStream
<1>2. /\ t \in Seq(Unit) /\ Len(t) = n + 1 /\ n \in Nat
      /\ t[n + 1] = u /\ \A j \in 1 .. n : t[j] = s[j]
  BY <1>1
<1>3. s = <<>> <=> n = 0 BY <1>1
<1>4. \A j \in 1 .. n : s[j][2] <= FrameEnd(s[j][1]) BY DEF IsStream
<1>5. n # 0 => s[1][2] = 1 BY <1>3 DEF IsStream
<1>6. \A j \in 1 .. n - 1 : Follows(s[j], s[j + 1]) BY DEF IsStream
<1>7. \A j, k \in 1 .. n : j < k =>
        IF s[j][2] + (k - j) <= FrameEnd(s[j][1])
        THEN s[k] = <<s[j][1], s[j][2] + (k - j)>>
        ELSE s[k][1] > s[j][1]
  BY DEF IsStream
<1>8. \A j \in 1 .. n :
         /\ s[j][1] \in Nat /\ s[j][2] \in Nat /\ FrameEnd(s[j][1]) \in Nat
         /\ s[j] = <<s[j][1], s[j][2]>>
  BY StreamTyped
<1>9. u[1] \in Nat /\ u[2] \in Nat BY UnitTyped
<1>10. n # 0 => Follows(s[n], u) BY <1>3
<1>11. n = 0 => u[2] = 1 BY <1>3
<1> HIDE DEF t, n
<1>12. \A j \in 1 .. n + 1 : t[j][2] <= FrameEnd(t[j][1])
  <2> TAKE j \in 1 .. n + 1
  <2>1. CASE j = n + 1 BY <2>1, <1>2
  <2>2. CASE j # n + 1
    <3>1. j \in 1 .. n BY <2>2, <1>2
    <3> QED BY <3>1, <1>2, <1>4
  <2> QED BY <2>1, <2>2
<1>13. t[1][2] = 1
  <2>1. CASE n = 0 BY <2>1, <1>2, <1>11
  <2>2. CASE n # 0
    <3>1. 1 \in 1 .. n BY <2>2, <1>2
    <3> QED BY <3>1, <2>2, <1>2, <1>5
  <2> QED BY <2>1, <2>2
<1>14. \A j \in 1 .. (n + 1) - 1 : Follows(t[j], t[j + 1])
  <2> TAKE j \in 1 .. (n + 1) - 1
  <2>1. j \in 1 .. n BY <1>2
  <2>2. CASE j = n BY <2>1, <2>2, <1>2, <1>10
  <2>3. CASE j # n
    <3>1. j \in 1 .. n - 1 /\ j + 1 \in 1 .. n BY <2>1, <2>3, <1>2
    <3>2. t[j] = s[j] /\ t[j + 1] = s[j + 1] BY <2>1, <3>1, <1>2
    <3> QED BY <3>1, <3>2, <1>6
  <2> QED BY <2>2, <2>3
<1>15. ASSUME NEW j \in 1 .. n + 1, NEW k \in 1 .. n + 1, j < k
       PROVE  IF t[j][2] + (k - j) <= FrameEnd(t[j][1])
              THEN t[k] = <<t[j][1], t[j][2] + (k - j)>>
              ELSE t[k][1] > t[j][1]
  <2>1. j \in 1 .. n /\ t[j] = s[j] BY <1>2, <1>15
  <2>2. CASE k \in 1 .. n BY <2>1, <2>2, <1>2, <1>7, <1>15
  <2>3. CASE k = n + 1
    <3>1. t[k] = u /\ n \in 1 .. n /\ Follows(s[n], u) BY <2>1, <2>3, <1>2, <1>10
    <3>2. CASE j = n
      <4>1. k - j = 1 BY <2>3, <3>2, <1>2
      <4> QED BY <2>1, <3>1, <3>2, <4>1, <1>4, <1>8 DEF Follows
    <3>3. CASE j < n
      <4>1. IF s[j][2] + (n - j) <= FrameEnd(s[j][1])
            THEN s[n] = <<s[j][1], s[j][2] + (n - j)>>
            ELSE s[n][1] > s[j][1]
        BY <2>1, <3>1, <3>3, <1>7
      <4>2. k - j = (n - j) + 1 BY <2>3, <1>2
      <4>3. CASE s[j][2] + (k - j) <= FrameEnd(s[j][1])
        <5>0. s[j][2] + (n - j) <= FrameEnd(s[j][1])
          BY <4>2, <4>3, <2>1, <1>8, <1>2
        <5>1. s[n][1] = s[j][1] /\ s[n][2] = s[j][2] + (n - j)
          BY <4>1, <5>0
        <5>2. s[n][2] # FrameEnd(s[n][1]) BY <5>1, <4>2, <4>3, <2>1, <1>8, <1>2
        <5>3. u = <<s[n][1], s[n][2] + 1>> BY <3>1, <5>2 DEF Follows
        <5> QED BY <2>1, <3>1, <5>1, <5>3, <4>2, <4>3, <1>8, <1>2
      <4>4. CASE ~(s[j][2] + (k - j) <= FrameEnd(s[j][1]))
        <5>1. CASE s[j][2] + (n - j) <= FrameEnd(s[j][1])
          <6>1. s[n][1] = s[j][1] /\ s[n][2] = s[j][2] + (n - j) BY <4>1, <5>1
          <6>2. s[n][2] = FrameEnd(s[n][1])
            BY <6>1, <5>1, <4>2, <4>4, <2>1, <1>8, <1>2
          <6>3. u = <<s[n][1] + 1, 1>> BY <3>1, <6>2 DEF Follows
          <6> QED BY <6>1, <6>3, <2>1, <3>1, <4>4, <1>8
        <5>2. CASE ~(s[j][2] + (n - j) <= FrameEnd(s[j][1]))
          <6>1. s[n][1] > s[j][1] BY <4>1, <5>2
          <6>2. u[1] >= s[n][1] BY <3>1, <1>8 DEF Follows
          <6> QED BY <6>1, <6>2, <2>1, <3>1, <4>4, <1>8, <1>9, SMTT(40)
        <5> QED BY <5>1, <5>2
      <4> QED BY <4>3, <4>4
    <3> QED BY <2>1, <3>2, <3>3, <1>2
  <2> QED BY <2>2, <2>3, <1>2
<1>16. t \in Seq(Unit) /\ Len(t) = n + 1 BY <1>2
<1>17. IsStream(t)
  BY <1>12, <1>13, <1>14, <1>15, <1>16 DEF IsStream
<1> QED BY <1>17 DEF t

(* A stream that is read: what was taken is a stream, and after a whole    *)
(* frame so is the rest, which goes on with the next one.                  *)
LEMMA StreamBegins ==
  ASSUME NEW s \in Seq(Unit), NEW t \in Seq(Unit), IsStream(s \o t)
  PROVE  IsStream(s) /\ Units(s) \subseteq Units(s \o t)
<1> DEFINE w == s \o t
           n == Len(s)
<1>1. /\ w \in Seq(Unit) /\ n \in Nat /\ Len(w) \in Nat /\ n <= Len(w)
      /\ \A j \in 1 .. n : w[j] = s[j] /\ j \in 1 .. Len(w)
  OBVIOUS
<1>2. s # <<>> => 1 \in 1 .. n /\ w # <<>>
  BY <1>1
<1>3. IsStream(w) OBVIOUS
<1> HIDE DEF w, n
<1>4. s # <<>> => s[1][2] = 1 BY <1>1, <1>2, <1>3 DEF IsStream
<1>5. \A j \in 1 .. n : s[j][2] <= FrameEnd(s[j][1]) BY <1>1, <1>3 DEF IsStream
<1>6. ASSUME NEW j \in 1 .. n - 1 PROVE Follows(s[j], s[j + 1])
  <2>1. j \in 1 .. n /\ j + 1 \in 1 .. n /\ j \in 1 .. Len(w) - 1 BY <1>1
  <2> QED BY <2>1, <1>1, <1>3 DEF IsStream
<1>7. \A j, k \in 1 .. n : j < k =>
        IF s[j][2] + (k - j) <= FrameEnd(s[j][1])
        THEN s[k] = <<s[j][1], s[j][2] + (k - j)>>
        ELSE s[k][1] > s[j][1]
  BY <1>1, <1>3 DEF IsStream
<1>8. IsStream(s) BY <1>4, <1>5, <1>6, <1>7 DEF IsStream, n
<1>9. Units(s) \subseteq Units(w) BY <1>1 DEF Units, n
<1> QED BY <1>8, <1>9 DEF w

LEMMA StreamGoesOn ==
  ASSUME NEW s \in Seq(Unit), NEW t \in Seq(Unit), IsStream(s \o t),
         s # <<>>, Len(s) = FrameEnd(s[1][1])
  PROVE  /\ s[1][1] \in Frame
         /\ \A j \in 1 .. Len(s) : s[j] = <<s[1][1], j>>
         /\ IsStream(t) /\ Units(t) \subseteq Units(s \o t)
         /\ t # <<>> => t[1] = <<s[1][1] + 1, 1>>
         /\ \A u \in Units(t) : u[1] > s[1][1]
<1> DEFINE w == s \o t
           n == Len(s)
           f == s[1][1]
<1>1. /\ w \in Seq(Unit) /\ n \in Nat /\ Len(w) \in Nat /\ Len(t) \in Nat
      /\ Len(w) = n + Len(t)
      /\ \A j \in 1 .. n : w[j] = s[j] /\ j \in 1 .. Len(w)
      /\ \A j \in 1 .. Len(t) : w[n + j] = t[j] /\ n + j \in 1 .. Len(w)
      /\ 1 \in 1 .. n
  OBVIOUS
<1>2. IsStream(w) /\ t \in Seq(Unit) OBVIOUS
<1>3. n = FrameEnd(f) OBVIOUS
<1>4. t # <<>> => 1 \in 1 .. Len(t) BY <1>1
<1>5. w[1][1] = f /\ w[1] \in Unit BY <1>1
<1>6. w # <<>> BY <1>1
<1> HIDE DEF w, n, f
<1>7. w[1] = <<f, 1>> /\ f \in Frame
  <2>1. w[1][2] = 1 BY <1>2, <1>6 DEF IsStream
  <2> QED BY <2>1, <1>5, UnitTyped
<1>8. \A k \in 1 .. Len(w) : 1 < k =>
        IF 1 + (k - 1) <= FrameEnd(f) THEN w[k] = <<f, 1 + (k - 1)>> ELSE w[k][1] > f
  <2>1. 1 \in 1 .. Len(w) BY <1>1
  <2> QED BY <2>1, <1>2, <1>7 DEF IsStream
<1>9. \A k \in 1 .. n : w[k] = <<f, k>>
  <2> TAKE k \in 1 .. n
  <2>1. k \in 1 .. Len(w) BY <1>1
  <2>2. CASE k = 1 BY <2>2, <1>7
  <2>3. CASE k # 1
    <3>1. 1 < k /\ 1 + (k - 1) = k /\ k <= FrameEnd(f) BY <2>3, <1>1, <1>3
    <3> QED BY <2>1, <3>1, <1>8
  <2> QED BY <2>2, <2>3
<1>10. \A j \in 1 .. Len(t) : t[j][1] > f
  <2> TAKE j \in 1 .. Len(t)
  <2>1. n + j \in 1 .. Len(w) /\ 1 < n + j /\ 1 + ((n + j) - 1) = n + j /\ ~(n + j <= FrameEnd(f))
    BY <1>1, <1>3
  <2>2. w[n + j][1] > f BY <2>1, <1>8
  <2> QED BY <2>2, <1>1
<1>11. t # <<>> => t[1] = <<f + 1, 1>>
  <2> SUFFICES ASSUME t # <<>> PROVE t[1] = <<f + 1, 1>> OBVIOUS
  <2>1. 1 \in 1 .. Len(t) /\ n \in 1 .. Len(w) - 1 /\ n \in 1 .. n BY <1>1, <1>4
  <2>2. Follows(w[n], w[n + 1]) BY <2>1, <1>2 DEF IsStream
  <2>3. w[n] = <<f, FrameEnd(f)>> /\ w[n + 1] = t[1] BY <2>1, <1>1, <1>3, <1>9
  <2> QED BY <2>2, <2>3 DEF Follows
<1>12. IsStream(t)
  <2>1. \A j \in 1 .. Len(t) : t[j][2] <= FrameEnd(t[j][1])
    BY <1>1, <1>2 DEF IsStream
  <2>2. ASSUME NEW j \in 1 .. Len(t) - 1 PROVE Follows(t[j], t[j + 1])
    <3>1. /\ j \in 1 .. Len(t) /\ j + 1 \in 1 .. Len(t) /\ n + j \in 1 .. Len(w) - 1
          /\ n + (j + 1) = (n + j) + 1
      BY <1>1
    <3>2. Follows(w[n + j], w[(n + j) + 1]) BY <3>1, <1>2 DEF IsStream
    <3> QED BY <3>1, <3>2, <1>1
  <2>3. ASSUME NEW j \in 1 .. Len(t), NEW k \in 1 .. Len(t), j < k
        PROVE  IF t[j][2] + (k - j) <= FrameEnd(t[j][1])
               THEN t[k] = <<t[j][1], t[j][2] + (k - j)>>
               ELSE t[k][1] > t[j][1]
    <3> DEFINE J == n + j
               K == n + k
    <3>1. J \in 1 .. Len(w) /\ K \in 1 .. Len(w) /\ J < K /\ K - J = k - j
      BY <1>1, <2>3
    <3>2. w[J] = t[j] /\ w[K] = t[k] BY <1>1
    <3> HIDE DEF J, K
    <3>3. IF w[J][2] + (K - J) <= FrameEnd(w[J][1])
          THEN w[K] = <<w[J][1], w[J][2] + (K - J)>>
          ELSE w[K][1] > w[J][1]
      BY <3>1, <1>2 DEF IsStream
    <3> QED BY <3>1, <3>2, <3>3
  <2>4. t # <<>> => t[1][2] = 1 BY <1>11
  <2> QED BY <1>2, <2>1, <2>2, <2>3, <2>4 DEF IsStream
<1>13. Units(t) \subseteq Units(w) BY <1>1 DEF Units
<1>14. \A u \in Units(t) : u[1] > f BY <1>10 DEF Units
<1>15. \A j \in 1 .. n : s[j] = <<f, j>> BY <1>1, <1>9
<1> QED BY <1>7, <1>11, <1>12, <1>13, <1>14, <1>15 DEF w, n, f

(* A part of a header ends no frame.                                       *)
LEMMA PartEndsNothing ==
  ASSUME NEW s, IsStream(s), Len(s) < HeaderLen, NEW m \in Frame
  PROVE  LastUnit(m) \notin Units(s)
<1> SUFFICES ASSUME NEW k \in 1 .. Len(s), s[k] = LastUnit(m) PROVE FALSE
  BY DEF Units
<1>1. Len(s) \in Nat /\ HeaderLen \in Nat BY StreamTyped, MirrorAssumption
<1>2. 1 \in 1 .. Len(s) /\ s # <<>> /\ k \in Nat BY <1>1
<1>3. s[1][2] = 1 /\ FrameEnd(s[1][1]) >= HeaderLen /\ FrameEnd(s[1][1]) \in Nat
  BY <1>2, StreamTyped DEF IsStream
<1>4. s[k][2] = k
  <2>1. CASE k = 1 BY <2>1, <1>3
  <2>2. CASE k # 1
    <3>1. 1 < k /\ 1 + (k - 1) = k /\ k <= FrameEnd(s[1][1]) BY <2>2, <1>1, <1>2, <1>3
    <3>2. s[k] = <<s[1][1], s[1][2] + (k - 1)>> BY <3>1, <1>2, <1>3 DEF IsStream
    <3> QED BY <3>1, <3>2, <1>3
  <2> QED BY <2>1, <2>2
<1>5. FrameEnd(s[k][1]) >= HeaderLen /\ FrameEnd(s[k][1]) \in Nat BY StreamTyped
<1>6. s[k][2] = FrameEnd(s[k][1]) BY DEF LastUnit
<1> QED BY <1>1, <1>4, <1>5, <1>6

-----------------------------------------------------------------------------
(* What the thread has before it: of the connection that it reads, the     *)
(* part of a frame that it has taken and what has arrived after this, and  *)
(* the connections that it has not accepted.                               *)

Live == thread \in {"check", "select", "accept", "header", "payload"}

Read   == IF payload = NULL THEN packet ELSE packet \o payload
Unread == {c \in 1 .. Len(conns) : c = stream_fd \/ c > accepted}
Pending(c) == IF c = stream_fd THEN Read \o conns[c].bytes ELSE conns[c].bytes
unread == [c \in Unread |-> Pending(c)]
State(c) == conns[c].state

(* A frame is to come as long as its last unit is, or it was lost with a   *)
(* connection, at which the thread will end.                               *)
Carries(b, m) == LastUnit(m) \in Units(unread[b]) \/ State(b) = "reset"

SentInOrder ==
  /\ \A i, j \in 1 .. Len(sent) : i < j => sent[i] < sent[j]
  /\ \A i \in 1 .. Len(sent) : sent[i] < cursor[1]

Reads ==
  /\ stream_fd \in {0, accepted}
  /\ thread = "accept" => stream_fd = 0
  /\ \A c \in 1 .. Len(conns) : State(c) = "open" => c = Len(conns) /\ c \in Unread
  /\ payload # NULL => Len(payload) <= PayloadSize

Streams == \A c \in Unread : IsStream(unread[c])

(* What is unread was sent before the cursor, and a frame whose last unit  *)
(* is unread was sent completely.                                          *)
Known ==
  \A c \in Unread : \A u \in Units(unread[c]) :
    /\ u[1] < cursor[1] \/ (u[1] = cursor[1] /\ u[2] < cursor[2])
    /\ u[2] = FrameEnd(u[1]) => \E i \in 1 .. Len(sent) : sent[i] = u[1]

(* A frame is on one connection, and after those of earlier connections.   *)
Apart ==
  /\ \A b, c \in Unread : b < c =>
       \A u \in Units(unread[b]), v \in Units(unread[c]) : u[1] < v[1]
  /\ Sending => \A c \in Unread \ {Current} : \A u \in Units(unread[c]) : u[1] < cursor[1]

(* What was handled are whole frames, which come before what is unread.    *)
NotYet ==
  /\ handled \in Seq({Contents(n) : n \in Frame}) /\ Len(handled) <= Len(sent)
  /\ \A c \in Unread : \A u \in Units(unread[c]) :
       \A i \in 1 .. Len(handled) : sent[i] < u[1]

(* The sender goes on where the stream of its connection ends.             *)
Continues ==
  Sending => IF unread[Current] = <<>> THEN cursor[2] = 1
             ELSE Follows(unread[Current][Len(unread[Current])], cursor)

(* No stream begins after a frame that was sent and not handled, unless it *)
(* is behind a connection that has this frame, or was reset.               *)
Unhandled == Len(handled) + 1 .. Len(sent)
InTurn ==
  \A i \in Unhandled : \A c \in Unread :
    unread[c] # <<>> \/ State(c) = "open" =>
      \/ unread[c] # <<>> /\ unread[c][1][1] <= sent[i]
      \/ \E b \in Unread : b < c /\ Carries(b, sent[i])

(* While it listens, the thread has what it has not handled before it.     *)
NoneLost ==
  mirror_data_sock = "open" =>
    \A i \in Unhandled : \E b \in Unread : Carries(b, sent[i])

Delivers == Streams /\ Known /\ Apart /\ NotYet /\ Continues /\ InTurn /\ NoneLost

DeliveryInv == SentInOrder /\ (Live => Reads /\ Delivers)

-----------------------------------------------------------------------------
(* Steps that leave the streams as they are.                               *)

SameStates ==
  /\ Len(conns') = Len(conns)
  /\ \A c \in 1 .. Len(conns) : conns'[c].state = conns[c].state
SameHistory == cursor' = cursor /\ sent' = sent /\ handled' = handled
SameView ==
  /\ Unread' = Unread /\ unread' = unread /\ SameStates /\ SameHistory
  /\ mirror_data_sock' = "open" => mirror_data_sock = "open"

LEMMA UnreadConns ==
  ASSUME ConnsOK
  PROVE  Unread \subseteq 1 .. Len(conns) /\ Len(conns) \in Nat
BY DEF Unread, ConnsOK

LEMMA SameSending ==
  ASSUME ConnsOK, SameStates
  PROVE  Current' = Current /\ Sending' = Sending
<1>1. Current' = Current BY DEF Current, SameStates
<1>2. Current > 0 => Current \in 1 .. Len(conns) BY DEF ConnsOK, Current
<1> QED BY <1>1, <1>2 DEF Sending, SameStates

LEMMA SameViewDelivers ==
  ASSUME ConnsOK, Delivers, SameView
  PROVE  Delivers'
<1>1. Unread \subseteq 1 .. Len(conns) BY UnreadConns
<1>2. /\ Unread' = Unread /\ unread' = unread /\ cursor' = cursor /\ sent' = sent
      /\ handled' = handled /\ Current' = Current /\ Sending' = Sending
      /\ \A c \in Unread : State(c)' = State(c)
  BY <1>1, SameSending DEF SameView, SameStates, SameHistory, State
<1>3. Unhandled' = Unhandled BY <1>2 DEF Unhandled
<1>4. \A b \in Unread : \A m : Carries(b, m)' <=> Carries(b, m)
  BY <1>2 DEF Carries
<1>5. Streams' BY <1>2, Zenon DEF Delivers, Streams
<1>6. Known' BY <1>2, Zenon DEF Delivers, Known
<1>7. Apart' BY <1>2, Zenon DEF Delivers, Apart
<1>8. NotYet' BY <1>2, Zenon DEF Delivers, NotYet
<1>9. Continues' BY <1>2, Zenon DEF Delivers, Continues
<1>10. InTurn' BY <1>2, <1>3, <1>4 DEF Delivers, InTurn
<1>11. NoneLost' BY <1>2, <1>3, <1>4 DEF Delivers, NoneLost, SameView
<1> QED BY <1>5, <1>6, <1>7, <1>8, <1>9, <1>10, <1>11 DEF Delivers

LEMMA SameStateViews ==
  ASSUME UNCHANGED <<stream, conns, accepted, cursor, sent, handled>>,
         mirror_data_sock' = "open" => mirror_data_sock = "open"
  PROVE  SameView
<1>1. Unread' = Unread /\ Read' = Read BY DEF Unread, Read, stream
<1>2. unread' = unread BY <1>1 DEF unread, Pending, stream
<1> QED BY <1>1, <1>2 DEF SameView, SameStates, SameHistory

(* What is received goes from the connection to what was read.             *)
LEMMA Concat ==
  ASSUME NEW S, NEW a \in Seq(S), NEW b \in Seq(S), NEW c \in Seq(S)
  PROVE  (a \o b) \o c = a \o (b \o c) /\ a \o <<>> = a /\ <<>> \o a = a
OBVIOUS

LEMMA ConcatAt ==
  ASSUME NEW S, NEW a \in Seq(S), NEW b \in Seq(S)
  PROVE  /\ a \o b \in Seq(S) /\ Len(a \o b) = Len(a) + Len(b)
         /\ \A j \in 1 .. Len(a) + Len(b) :
              (a \o b)[j] = IF j <= Len(a) THEN a[j] ELSE b[j - Len(a)]
OBVIOUS

LEMMA SameElements ==
  ASSUME NEW S, NEW a \in Seq(S), NEW b \in Seq(S), Len(a) = Len(b),
         \A j \in 1 .. Len(a) : a[j] = b[j]
  PROVE  a = b
OBVIOUS

LEMMA Cut ==
  ASSUME NEW S, NEW a \in Seq(S), NEW n \in 1 .. Len(a)
  PROVE  /\ SubSeq(a, 1, n) \in Seq(S) /\ SubSeq(a, n + 1, Len(a)) \in Seq(S)
         /\ SubSeq(a, 1, n) \o SubSeq(a, n + 1, Len(a)) = a
<1> DEFINE x == SubSeq(a, 1, n)
           y == SubSeq(a, n + 1, Len(a))
<1>1. /\ x \in Seq(S) /\ Len(x) = n /\ \A j \in 1 .. n : x[j] = a[j]
      /\ n \in Nat /\ Len(a) \in Nat /\ n <= Len(a)
  OBVIOUS
<1>2. y \in Seq(S) /\ Len(y) = Len(a) - n /\ \A j \in 1 .. Len(a) - n : y[j] = a[n + j]
  OBVIOUS
<1> HIDE DEF x, y
<1>3. /\ x \o y \in Seq(S) /\ Len(x \o y) = Len(x) + Len(y)
      /\ \A j \in 1 .. Len(x) + Len(y) :
           (x \o y)[j] = IF j <= Len(x) THEN x[j] ELSE y[j - Len(x)]
  BY <1>1, <1>2, ConcatAt
<1>4. Len(x \o y) = Len(a) BY <1>1, <1>2, <1>3
<1>5. \A j \in 1 .. Len(a) : (x \o y)[j] = a[j]
  <2> TAKE j \in 1 .. Len(a)
  <2>1. (j <= n => (x \o y)[j] = x[j]) /\ (~(j <= n) => (x \o y)[j] = y[j - n])
    BY <1>1, <1>2, <1>3
  <2>2. CASE j <= n BY <2>1, <2>2, <1>1
  <2>3. CASE j > n
    <3>1. j - n \in 1 .. Len(a) - n /\ n + (j - n) = j /\ ~(j <= n)
      BY <2>3, <1>1
    <3>2. y[j - n] = a[j] BY <3>1, <1>2, Zenon
    <3> QED BY <2>1, <3>1, <3>2, Zenon
  <2>4. j <= n \/ j > n BY <1>1
  <2> QED BY <2>2, <2>3, <2>4, Zenon
<1>6. x \o y = a BY <1>3, <1>4, <1>5, SameElements
<1> QED BY <1>1, <1>2, <1>6 DEF x, y

LEMMA ReadTyped ==
  ASSUME BufferOK
  PROVE  Read \in Seq(Unit)
BY DEF BufferOK, Read

LEMMA BytesTyped ==
  ASSUME ConnsOK, NEW c \in 1 .. Len(conns)
  PROVE  conns[c].bytes \in Seq(Unit) /\ conns[c] \in Conn
<1>1. conns \in Seq(Conn) BY DEF ConnsOK
<1>2. conns[c] \in Conn BY <1>1
<1> QED BY <1>2 DEF Conn

LEMMA ReceivedView ==
  ASSUME Inv, stream_fd # 0, NEW wanted \in Nat, NEW n, n = Available(wanted), n > 0,
         conns' = Rest(n), UNCHANGED <<stream_fd, accepted, mirror_data_sock>>,
         Read' = Read \o Taken(n), SameHistory
  PROVE  SameView
<1> DEFINE c == stream_fd
           bytes == conns[c].bytes
           rest == SubSeq(bytes, n + 1, Len(bytes))
<1>1. /\ conns \in Seq(Conn) /\ c \in 1 .. Len(conns) /\ Len(conns) \in Nat
      /\ bytes \in Seq(Unit) /\ conns[c] \in Conn /\ Len(bytes) \in Nat
  <2>1. ConnsOK BY DEF Inv
  <2>2. c \in 1 .. Len(conns) BY <2>1 DEF ConnsOK
  <2> QED BY <2>1, <2>2, BytesTyped DEF ConnsOK
<1>2. n \in 1 .. Len(bytes) BY <1>1 DEF Available
<1>3. Taken(n) = SubSeq(bytes, 1, n) BY DEF Taken
<1>4. conns' = [conns EXCEPT ![c] = [conns[c] EXCEPT !.bytes = rest]] BY DEF Rest
<1>5. Read \in Seq(Unit) BY ReadTyped DEF Inv
<1> HIDE DEF bytes, rest
<1>6. /\ Len(conns') = Len(conns) /\ conns'[c] = [conns[c] EXCEPT !.bytes = rest]
      /\ \A d \in 1 .. Len(conns) : d # c => conns'[d] = conns[d]
  BY <1>1, <1>4
<1>7. conns'[c].bytes = rest /\ conns'[c].state = conns[c].state BY <1>1, <1>6 DEF Conn
<1>8. SameStates BY <1>1, <1>6, <1>7 DEF SameStates
<1>9. Unread' = Unread BY <1>6 DEF Unread
<1>10. Read' \o rest = Read \o bytes
  <2>1. /\ SubSeq(bytes, 1, n) \in Seq(Unit) /\ rest \in Seq(Unit)
        /\ SubSeq(bytes, 1, n) \o rest = bytes
    BY <1>1, <1>2, Cut DEF rest
  <2>2. Taken(n) \in Seq(Unit) /\ Taken(n) \o rest = bytes BY <2>1, <1>3, Zenon
  <2> DEFINE x == Read
             y == Taken(n)
  <2>3. x \in Seq(Unit) /\ y \in Seq(Unit) /\ rest \in Seq(Unit) BY <2>1, <2>2, <1>5, Zenon
  <2> HIDE DEF x, y
  <2>4. (x \o y) \o rest = x \o (y \o rest) BY ONLY <2>3, Concat
  <2> USE DEF x, y
  <2>5. x \o (y \o rest) = Read \o bytes BY <2>2, Zenon
  <2> QED BY <2>4, <2>5, Zenon
<1>11. \A d \in Unread : Pending(d)' = Pending(d)
  <2> TAKE d \in Unread
  <2>1. CASE d = c BY <2>1, <1>7, <1>10 DEF Pending, bytes
  <2>2. CASE d # c BY <2>2, <1>6 DEF Pending, Unread
  <2> QED BY <2>1, <2>2
<1>12. unread' = unread BY <1>9, <1>11 DEF unread
<1> QED BY <1>8, <1>9, <1>12 DEF SameView

LEMMA ReceiveHeaderView ==
  ASSUME Inv, ReceiveHeader, ~UNCHANGED <<packet, payload>>
  PROVE  SameView
<1> DEFINE wanted == HeaderLen - Len(packet)
           n == Available(wanted)
<1>1. thread = "header" /\ stream_fd # 0 /\ payload = NULL BY DEF ReceiveHeader, Inv, InFrame
<1>2. /\ n > 0 /\ packet' = packet \o Taken(n) /\ conns' = Rest(n)
      /\ payload' \in {payload, <<>>}
      /\ UNCHANGED <<stream_fd, accepted, mirror_data_sock>> /\ SameHistory
  BY DEF ReceiveHeader, control, SameHistory
<1>3. wanted \in Nat BY <1>1, MirrorAssumption DEF Inv, InFrame, BufferOK
<1> HIDE DEF wanted
<1>4. Taken(n) \in Seq(Unit) BY <1>1, <1>2, <1>3, Received
<1>5. packet \in Seq(Unit) BY DEF Inv, BufferOK
<1> HIDE DEF n
<1>6. packet' \in Seq(Unit) /\ packet' \o <<>> = packet'
  BY <1>2, <1>4, <1>5, Concat, ConcatAt
<1>7. Read' = Read \o Taken(n)
  <2>1. Read = packet BY <1>1 DEF Read
  <2>2. Read' = packet' BY <1>1, <1>2, <1>6 DEF Read
  <2> QED BY <2>1, <2>2, <1>2
<1> QED BY <1>1, <1>2, <1>3, <1>7, ReceivedView DEF n

LEMMA ReceivePayloadView ==
  ASSUME Inv, ReceivePayload, ~UNCHANGED payload
  PROVE  /\ SameView
         /\ Len(payload') <= PayloadSize /\ UNCHANGED <<packet, stream_fd>>
<1> DEFINE wanted == PayloadSize - Len(payload)
           n == Available(wanted)
<1>1. thread = "payload" /\ stream_fd # 0 /\ payload # NULL
  BY DEF ReceivePayload, Inv, InFrame
<1>2. /\ n > 0 /\ payload' = payload \o Taken(n) /\ conns' = Rest(n)
      /\ UNCHANGED <<stream_fd, packet, accepted, mirror_data_sock>> /\ SameHistory
  BY DEF ReceivePayload, control, SameHistory
<1>3. packet \in Seq(Unit) /\ payload \in Seq(Unit) /\ Len(packet) = HeaderLen
  BY <1>1 DEF Inv, BufferOK, InFrame
<1>4. PayloadSize \in Nat BY <1>3, PayloadTyped DEF Inv
<1>5. wanted \in Nat BY <1>3, <1>4 DEF ReceivePayload
<1>6. wanted = PayloadSize - Len(payload) /\ Len(payload) \in Nat BY <1>3
<1> HIDE DEF wanted
<1>7. Taken(n) \in Seq(Unit) /\ Len(Taken(n)) = n /\ n \in 1 .. wanted
  BY <1>1, <1>2, <1>5, Received
<1> HIDE DEF n
<1>8. payload' \in Seq(Unit) /\ Len(payload') = Len(payload) + n
  BY <1>2, <1>3, <1>7, ConcatAt
<1>9. payload' # NULL BY <1>8, MirrorAssumption
<1>10. Read' = Read \o Taken(n)
  <2>1. Read = packet \o payload BY <1>1 DEF Read
  <2>2. Read' = packet \o (payload \o Taken(n)) BY <1>2, <1>9 DEF Read
  <2>3. (packet \o payload) \o Taken(n) = packet \o (payload \o Taken(n))
    BY <1>3, <1>7, Concat, SMTT(40)
  <2> QED BY <2>1, <2>2, <2>3
<1>11. SameView BY <1>1, <1>2, <1>5, <1>10, ReceivedView DEF n
<1>12. Len(payload') <= PayloadSize BY <1>4, <1>5, <1>6, <1>7, <1>8
<1> QED BY <1>2, <1>11, <1>12

(* A connection that is accepted has been before the thread already.       *)
LEMMA AcceptView ==
  ASSUME Inv, Reads, Accept, thread' = "check"
  PROVE  SameView
<1>1. /\ mirror_data_sock = "open" /\ accepted' = accepted + 1 /\ stream_fd' = accepted + 1
      /\ packet' = <<>> /\ payload' = payload /\ conns' = conns /\ thread = "accept"
      /\ SameHistory /\ mirror_data_sock' = mirror_data_sock
  BY DEF Accept, Step, network, control, SameHistory
<1>2. payload = NULL /\ stream_fd = 0 BY <1>1 DEF Inv, InFrame, Reads
<1>3. accepted \in Nat /\ Len(conns) \in Nat BY DEF Inv, ConnsOK
<1>4. Unread' = Unread BY <1>1, <1>2, <1>3 DEF Unread
<1>5. \A c \in Unread : c \in 1 .. Len(conns) /\ conns[c].bytes \in Seq(Unit) /\ c # 0
  BY BytesTyped DEF Inv, Unread
<1>6. Read' = <<>> BY <1>1, <1>2 DEF Read
<1>7. \A c \in Unread : Pending(c)' = Pending(c)
  BY <1>1, <1>2, <1>5, <1>6, Concat DEF Pending
<1>8. unread' = unread BY <1>4, <1>7 DEF unread
<1> QED BY <1>1, <1>4, <1>8 DEF SameView, SameStates

-----------------------------------------------------------------------------
(* Steps that take a connection from what is before the thread: one that   *)
(* ends within a header, and those that closing the socket resets.         *)

LEMMA Shrinks ==
  ASSUME Inv, Delivers, SameHistory,
         Unread' \subseteq Unread,
         \A c \in Unread' : unread'[c] = unread[c] /\ State(c)' = State(c),
         Sending' => Sending /\ Current' = Current /\ Current \in Unread',
         \A c \in Unread', b \in Unread \ Unread' :
           b < c => \A m \in Frame : ~Carries(b, m),
         mirror_data_sock' = "open" =>
           /\ mirror_data_sock = "open"
           /\ \A b \in Unread \ Unread' : \A m \in Frame : ~Carries(b, m)
  PROVE  Delivers'
<1>1. cursor' = cursor /\ sent' = sent /\ handled' = handled BY DEF SameHistory
<1>2. Unhandled' = Unhandled BY <1>1 DEF Unhandled
<1>3. \A b \in Unread' : \A m : Carries(b, m)' <=> Carries(b, m) BY DEF Carries
<1>4. \A i \in Unhandled : sent[i] \in Frame
  <2>1. Len(handled) \in Nat /\ sent \in Seq(Frame) BY DEF Delivers, NotYet, Inv, SenderOK
  <2>2. \A i \in Unhandled : i \in 1 .. Len(sent) BY <2>1 DEF Unhandled
  <2> QED BY <2>1, <2>2
<1>5. Streams' BY DEF Delivers, Streams
<1>6. Known' BY <1>1 DEF Delivers, Known
<1>7. Apart' BY <1>1 DEF Delivers, Apart
<1>8. NotYet' BY <1>1 DEF Delivers, NotYet
<1>9. Continues' BY <1>1 DEF Delivers, Continues
<1>10. InTurn'
  <2> SUFFICES ASSUME NEW i \in Unhandled, NEW c \in Unread',
                      unread[c] # <<>> \/ State(c) = "open"
               PROVE  \/ unread[c] # <<>> /\ unread[c][1][1] <= sent[i]
                      \/ \E b \in Unread' : b < c /\ Carries(b, sent[i])
    BY <1>1, <1>2, <1>3 DEF InTurn
  <2>1. CASE unread[c] # <<>> /\ unread[c][1][1] <= sent[i] BY <2>1
  <2>2. CASE \E b \in Unread : b < c /\ Carries(b, sent[i])
    <3>1. PICK b \in Unread : b < c /\ Carries(b, sent[i]) BY <2>2
    <3>2. b \in Unread' BY <3>1, <1>4
    <3> QED BY <3>1, <3>2
  <2> QED BY <2>1, <2>2 DEF Delivers, InTurn
<1>11. NoneLost'
  <2> SUFFICES ASSUME mirror_data_sock' = "open", NEW i \in Unhandled
               PROVE  \E b \in Unread' : Carries(b, sent[i])
    BY <1>1, <1>2, <1>3 DEF NoneLost
  <2>1. PICK b \in Unread : Carries(b, sent[i]) BY DEF Delivers, NoneLost
  <2>2. b \in Unread' BY <2>1, <1>4
  <2> QED BY <2>1, <2>2
<1> QED BY <1>5, <1>6, <1>7, <1>8, <1>9, <1>10, <1>11 DEF Delivers

LEMMA HeaderEnds ==
  ASSUME Inv, Reads, Delivers, ReceiveHeader, stream_fd' # stream_fd
  PROVE  Delivers'
<1> DEFINE f == stream_fd
           bytes == conns[f].bytes
           wanted == HeaderLen - Len(packet)
<1>1. thread = "header" /\ f # 0 /\ payload = NULL BY DEF ReceiveHeader, Inv, InFrame
<1>2. /\ Available(wanted) = 0 /\ State(f) = "fin" /\ stream_fd' = 0
      /\ UNCHANGED <<packet, payload, conns, accepted, mirror_data_sock>> /\ SameHistory
  BY DEF ReceiveHeader, State, control, SameHistory
<1>3. f = accepted /\ f \in 1 .. Len(conns) /\ Len(conns) \in Nat /\ accepted \in Nat
  BY <1>1 DEF Reads, Inv, ConnsOK
<1>4. Len(packet) \in Nat /\ packet \in Seq(Unit) /\ Len(packet) < HeaderLen /\ HeaderLen \in Nat
  BY <1>1, MirrorAssumption DEF Inv, InFrame, BufferOK
<1>5. wanted \in Nat /\ wanted > 0 BY <1>4
<1>6. bytes = <<>>
  <2>1. bytes \in Seq(Unit) BY <1>3, BytesTyped DEF Inv
  <2> HIDE DEF wanted, bytes
  <2>2. Len(bytes) = 0 BY <1>2, <1>5, <2>1 DEF Available, bytes
  <2> QED BY <2>1, <2>2
<1>7. Unread' = Unread \ {f} BY <1>2, <1>3 DEF Unread
<1>8. \A c \in Unread' : unread'[c] = unread[c] /\ State(c)' = State(c)
  <2>1. \A c \in Unread' : c \in Unread /\ c # stream_fd /\ c # stream_fd'
    BY <1>2, <1>3, <1>7, UnreadConns DEF Inv
  <2>2. \A c \in Unread' : Pending(c)' = Pending(c) BY <2>1, <1>2 DEF Pending
  <2> QED BY <2>1, <2>2, <1>2 DEF unread, State
<1>9. f \in Unread BY <1>3 DEF Unread
<1>10. unread[f] = packet
  <2>1. unread[f] = Read \o bytes BY <1>9 DEF unread, Pending
  <2>2. packet \o <<>> = packet BY <1>4, Concat
  <2> QED BY <2>1, <2>2, <1>1, <1>6 DEF Read
<1>11. ASSUME NEW m \in Frame PROVE ~Carries(f, m)
  <2>1. IsStream(packet) BY <1>9, <1>10 DEF Delivers, Streams
  <2>2. LastUnit(m) \notin Units(packet) BY <2>1, <1>4, PartEndsNothing
  <2> QED BY <2>2, <1>2, <1>10 DEF Carries
<1>12. Sending' => Sending /\ Current' = Current /\ Current \in Unread'
  <2>1. Current' = Current /\ Sending' = Sending BY <1>2 DEF Current, Sending
  <2>2. Sending => Current \in Unread /\ Current # f
    <3> SUFFICES ASSUME Sending PROVE Current \in Unread /\ Current # f OBVIOUS
    <3>1. Current \in 1 .. Len(conns) /\ State(Current) = "open"
      BY <1>3 DEF Sending, Current, State
    <3> QED BY <3>1, <1>2 DEF Reads
  <2> QED BY <2>1, <2>2, <1>7
<1> HIDE DEF f
<1> QED BY <1>2, <1>7, <1>8, <1>11, <1>12, Shrinks

LEMMA CloseSocketDelivers ==
  ASSUME Inv, Reads, Delivers, CloseSocket
  PROVE  Delivers'
<1>1. CASE conns' = conns
  <2>1. SameView
    BY <1>1, SameStateViews DEF CloseSocket
  <2> QED BY <2>1, SameViewDelivers DEF Inv
<1>2. CASE conns' # conns
  <2>1. /\ conns' = SubSeq(conns, 1, accepted) /\ mirror_data_sock' = "closed"
        /\ UNCHANGED <<packet, payload, stream_fd, accepted>> /\ SameHistory
    BY <1>2 DEF CloseSocket, stream, SameHistory
  <2>2. conns \in Seq(Conn) /\ accepted \in 0 .. Len(conns) /\ Len(conns) \in Nat
    BY DEF Inv, ConnsOK
  <2>3. Len(conns') = accepted /\ \A c \in 1 .. accepted : conns'[c] = conns[c]
    BY <2>1, <2>2
  <2>4. Unread' \subseteq {c \in 1 .. accepted : c = stream_fd}
    BY <2>1, <2>2, <2>3 DEF Unread
  <2>5. Unread' \subseteq Unread BY <2>2, <2>4 DEF Unread
  <2>6. Read' = Read BY <2>1 DEF Read
  <2>7. \A c \in Unread' : unread'[c] = unread[c] /\ State(c)' = State(c)
    <3>1. \A c \in Unread' : Pending(c)' = Pending(c)
      BY <2>1, <2>3, <2>4, <2>6 DEF Pending
    <3> QED BY <3>1, <2>3, <2>4, <2>5 DEF unread, State
  <2>8. \A c \in Unread', b \in Unread \ Unread' : ~(b < c)
    <3>1. \A b \in Unread \ Unread' : b > accepted /\ b \in Nat
      BY <2>1, <2>2, <2>3 DEF Unread
    <3> QED BY <3>1, <2>2, <2>4
  <2>9. Sending' => Sending /\ Current' = Current /\ Current \in Unread'
    <3> SUFFICES ASSUME Sending'
                 PROVE  Sending /\ Current' = Current /\ Current \in Unread'
      OBVIOUS
    <3>1. Current' = accepted /\ accepted \in 1 .. Len(conns) /\ State(accepted) = "open"
      BY <2>2, <2>3 DEF Sending, Current, State
    <3>2. accepted = Len(conns) /\ accepted \in Unread BY <3>1 DEF Reads
    <3>3. accepted \in Unread' BY <3>1, <3>2, <2>1, <2>3 DEF Unread
    <3> QED BY <3>1, <3>2, <3>3 DEF Sending, Current, State
  <2> QED BY <2>1, <2>5, <2>7, <2>8, <2>9, Shrinks
<1> QED BY <1>1, <1>2

-----------------------------------------------------------------------------
(* The sender: connections that begin, go on and end.                      *)

LEMMA UnreadTyped ==
  ASSUME Streams, NEW c \in Unread, NEW u \in Units(unread[c])
  PROVE  /\ u \in Unit /\ u[1] \in Nat /\ u[2] \in Nat /\ u[2] >= 1
         /\ FrameEnd(u[1]) \in Nat
<1>1. IsStream(unread[c]) BY DEF Streams
<1>2. PICK j \in 1 .. Len(unread[c]) : u = unread[c][j] BY DEF Units
<1> QED BY <1>1, <1>2, StreamTyped

LEMMA NoUnits == Units(<<>>) = {}
BY DEF Units

LEMMA ConnectDelivers ==
  ASSUME Inv, SentInOrder, Reads, Delivers, Network, Connect
  PROVE  Delivers'
<1>0. PICK new : new = Len(conns) + 1 OBVIOUS
<1> DEFINE k == cursor[1]
<1>1. /\ mirror_data_sock = "open" /\ conns' = Append(conns, [bytes |-> <<>>, state |-> "open"])
      /\ cursor' = <<IF cursor[2] = 1 THEN k ELSE k + 1, 1>> /\ sent' = sent
      /\ handled' = handled
      /\ UNCHANGED <<packet, payload, stream_fd, accepted, mirror_data_sock>>
  BY DEF Network, Connect, NextFrame, stream, control
<1>2. /\ conns \in Seq(Conn) /\ Len(conns) \in Nat /\ accepted \in Nat
      /\ accepted <= Len(conns) /\ stream_fd \in Nat /\ stream_fd <= Len(conns)
  BY DEF Inv, ConnsOK
<1>3. /\ Len(conns') = new /\ conns'[new] = [bytes |-> <<>>, state |-> "open"]
      /\ \A c \in 1 .. Len(conns) : conns'[c] = conns[c] /\ c # new
  BY <1>0, <1>1, <1>2
<1>4. k \in Nat /\ cursor[2] \in Nat BY DEF Inv, SenderOK
<1>5. new \in Nat /\ new > stream_fd /\ new > accepted /\ \A c \in 1 .. Len(conns) : c < new
  BY <1>0, <1>2
<1>6. 1 .. new = (1 .. Len(conns)) \cup {new} BY <1>0, <1>2
<1> HIDE DEF k
<1>7. Unread' = Unread \cup {new}
  <2>1. Unread' = {c \in 1 .. new : c = stream_fd \/ c > accepted} BY <1>1, <1>3 DEF Unread
  <2> QED BY <2>1, <1>5, <1>6 DEF Unread
<1>8. Unread \subseteq 1 .. Len(conns) BY UnreadConns DEF Inv
<1>9. \A c \in Unread : unread'[c] = unread[c] /\ State(c)' = State(c)
  <2>1. \A c \in Unread : Pending(c)' = Pending(c) BY <1>1, <1>3, <1>8 DEF Pending, Read
  <2> QED BY <2>1, <1>3, <1>7, <1>8 DEF unread, State
<1>10. unread'[new] = <<>> /\ State(new)' = "open"
  <2>1. stream_fd' # new BY <1>1, <1>2, <1>5
  <2>2. Pending(new)' = <<>> BY <2>1, <1>3 DEF Pending
  <2> QED BY <2>2, <1>3, <1>7 DEF unread, State
<1>11. Current' = new /\ Sending' BY <1>2, <1>3, <1>5 DEF Sending, Current
<1>12. cursor'[1] >= k /\ cursor'[1] \in Nat /\ cursor'[2] = 1 BY <1>1, <1>4
<1>13. \A c \in Unread : \A u \in Units(unread[c]) : u[1] < cursor'[1]
  <2> TAKE c \in Unread
  <2> TAKE u \in Units(unread[c])
  <2>1. u[1] \in Nat /\ u[2] \in Nat /\ u[2] >= 1 BY UnreadTyped DEF Delivers
  <2>2. u[1] < k \/ (u[1] = k /\ u[2] < cursor[2]) BY DEF Delivers, Known, k
  <2> QED BY <2>1, <2>2, <1>1, <1>4
<1>14. Units(unread'[new]) = {} BY <1>10, NoUnits
<1>15. Unhandled' = Unhandled BY <1>1 DEF Unhandled
<1>16. \A b \in Unread : \A m : Carries(b, m)' <=> Carries(b, m) BY <1>9 DEF Carries
<1>17. Streams' BY <1>7, <1>9, <1>10, EmptyStream DEF Delivers, Streams
<1>18. Known'
  <2> SUFFICES ASSUME NEW c \in Unread', NEW u \in Units(unread'[c])
               PROVE  /\ u[1] < cursor'[1]
                      /\ u[2] = FrameEnd(u[1]) => \E i \in 1 .. Len(sent) : sent[i] = u[1]
    BY <1>1 DEF Known
  <2>1. c \in Unread /\ u \in Units(unread[c]) BY <1>7, <1>9, <1>14
  <2> QED BY <2>1, <1>13 DEF Delivers, Known
<1>19. Apart'
  <2>1. ASSUME NEW b \in Unread', NEW c \in Unread', b < c,
               NEW u \in Units(unread'[b]), NEW v \in Units(unread'[c])
        PROVE  u[1] < v[1]
    <3>1. b \in Unread /\ c \in Unread /\ u \in Units(unread[b]) /\ v \in Units(unread[c])
      BY <2>1, <1>7, <1>9, <1>14
    <3> QED BY <3>1, <2>1 DEF Delivers, Apart
  <2>2. ASSUME NEW c \in Unread' \ {Current'}, NEW u \in Units(unread'[c])
        PROVE  u[1] < cursor'[1]
    BY <2>2, <1>7, <1>9, <1>11, <1>13
  <2> QED BY <2>1, <2>2 DEF Apart
<1>20. NotYet'
  <2> SUFFICES ASSUME NEW c \in Unread', NEW u \in Units(unread'[c]),
                      NEW i \in 1 .. Len(handled)
               PROVE  sent[i] < u[1]
    BY <1>1 DEF Delivers, NotYet
  <2>1. c \in Unread /\ u \in Units(unread[c]) BY <1>7, <1>9, <1>14
  <2> QED BY <2>1 DEF Delivers, NotYet
<1>21. Continues' BY <1>10, <1>11, <1>12 DEF Continues
<1>22. InTurn'
  <2> SUFFICES ASSUME NEW i \in Unhandled, NEW c \in Unread',
                      unread'[c] # <<>> \/ State(c)' = "open"
               PROVE  \/ unread'[c] # <<>> /\ unread'[c][1][1] <= sent[i]
                      \/ \E b \in Unread : b < c /\ Carries(b, sent[i])
    BY <1>1, <1>7, <1>15, <1>16 DEF InTurn
  <2>1. CASE c = new
    <3>1. PICK b \in Unread : Carries(b, sent[i]) BY <1>1 DEF Delivers, NoneLost
    <3>2. b < new BY <1>5, <1>8
    <3> QED BY <2>1, <3>1, <3>2
  <2>2. CASE c # new
    <3>1. c \in Unread BY <2>2, <1>7
    <3> QED BY <3>1, <1>9 DEF Delivers, InTurn
  <2> QED BY <2>1, <2>2
<1>23. NoneLost' BY <1>1, <1>7, <1>15, <1>16 DEF Delivers, NoneLost
<1> QED BY <1>17, <1>18, <1>19, <1>20, <1>21, <1>22, <1>23 DEF Delivers

(* A connection ends: in a reset it loses what has not been received.      *)
LEMMA LosesDelivers ==
  ASSUME Inv, Delivers, SameHistory, Unread' = Unread, ~Sending',
         mirror_data_sock' = mirror_data_sock,
         \A c \in Unread :
           /\ IsStream(unread'[c]) /\ Units(unread'[c]) \subseteq Units(unread[c])
           /\ unread'[c] # <<>> => unread[c] # <<>> /\ unread'[c][1] = unread[c][1]
           /\ State(c)' = "open" => State(c) = "open"
           /\ unread'[c] # unread[c] => State(c)' = "reset"
           /\ State(c) = "reset" => State(c)' = "reset"
  PROVE  Delivers'
<1>1. cursor' = cursor /\ sent' = sent /\ handled' = handled BY DEF SameHistory
<1>2. Unhandled' = Unhandled BY <1>1 DEF Unhandled
<1>3. \A b \in Unread : \A m : Carries(b, m) => Carries(b, m)' BY DEF Carries
<1>4. Streams' BY DEF Streams
<1>5. Known' BY <1>1 DEF Delivers, Known
<1>6. Apart' BY <1>1 DEF Delivers, Apart
<1>7. NotYet' BY <1>1 DEF Delivers, NotYet
<1>8. Continues' BY DEF Continues
<1>9. InTurn'
  <2> SUFFICES ASSUME NEW i \in Unhandled, NEW c \in Unread,
                      unread'[c] # <<>> \/ State(c)' = "open"
               PROVE  \/ unread'[c] # <<>> /\ unread'[c][1][1] <= sent[i]
                      \/ \E b \in Unread : b < c /\ Carries(b, sent[i])
    BY <1>1, <1>2, <1>3 DEF InTurn
  <2>1. \/ unread[c] # <<>> /\ unread[c][1][1] <= sent[i]
        \/ \E b \in Unread : b < c /\ Carries(b, sent[i])
    BY DEF Delivers, InTurn
  <2>2. CASE unread'[c] # <<>> BY <2>1, <2>2
  <2>3. CASE State(c)' = "open"
    <3>1. unread'[c] = unread[c] BY <2>3
    <3> QED BY <2>1, <3>1
  <2> QED BY <2>2, <2>3
<1>10. NoneLost' BY <1>1, <1>2, <1>3 DEF Delivers, NoneLost
<1> QED BY <1>4, <1>5, <1>6, <1>7, <1>8, <1>9, <1>10 DEF Delivers

LEMMA DisconnectDelivers ==
  ASSUME Inv, Reads, Delivers, Network, Disconnect
  PROVE  Delivers'
<1>0. PICK C : C = Current OBVIOUS
<1> DEFINE old == conns[C]
<1>1. Sending /\ cursor' = cursor /\ sent' = sent BY DEF Disconnect
<1>2. /\ conns \in Seq(Conn) /\ Len(conns) \in Nat /\ C \in 1 .. Len(conns)
      /\ old \in Conn /\ old.bytes \in Seq(Unit) /\ C = Len(conns)
  <2>1. Len(conns) \in Nat /\ conns \in Seq(Conn) BY DEF Inv, ConnsOK
  <2>2. C \in 1 .. Len(conns) BY <1>0, <1>1, <2>1 DEF Sending, Current
  <2> QED BY <1>0, <2>1, <2>2, BytesTyped DEF Inv, Current
<1>3. PICK state \in {"fin", "reset"} :
        conns' = [conns EXCEPT ![C] =
                    IF state = "reset" THEN Over(state) ELSE [conns[C] EXCEPT !.state = "fin"]]
  BY <1>0 DEF Disconnect
<1>4. /\ UNCHANGED <<packet, payload, stream_fd, accepted, mirror_data_sock, handled>>
  BY DEF Network, stream, control
<1>5. /\ Len(conns') = Len(conns)
      /\ \A c \in 1 .. Len(conns) : c # C => conns'[c] = conns[c]
      /\ conns'[C] = IF state = "reset" THEN Over(state) ELSE [old EXCEPT !.state = "fin"]
  <2> DEFINE now == IF state = "reset" THEN Over(state) ELSE [old EXCEPT !.state = "fin"]
  <2>1. conns' = [conns EXCEPT ![C] = now] BY <1>3
  <2> HIDE DEF now
  <2>2. /\ Len(conns') = Len(conns) /\ conns'[C] = now
        /\ \A c \in 1 .. Len(conns) : c # C => conns'[c] = conns[c]
    BY <1>2, <2>1
  <2> QED BY <2>2 DEF now
<1> HIDE DEF old
<1>6. conns'[C].state = state /\ conns'[C].bytes = IF state = "reset" THEN <<>> ELSE old.bytes
  BY <1>2, <1>5 DEF Over, Conn
<1>7. SameHistory BY <1>1, <1>4 DEF SameHistory
<1>8. Unread' = Unread BY <1>4, <1>5 DEF Unread
<1>9. ~Sending' BY <1>0, <1>2, <1>5, <1>6 DEF Sending, Current
<1>10. C \in Unread /\ State(C) = "open" BY <1>0, <1>1, <1>2 DEF Reads, Sending, State
<1>11. Read' = Read BY <1>4 DEF Read
<1>12. ASSUME NEW c \in Unread, c # C
       PROVE  unread'[c] = unread[c] /\ State(c)' = State(c)
  <2>1. c \in 1 .. Len(conns) BY UnreadConns DEF Inv
  <2>2. Pending(c)' = Pending(c) BY <2>1, <1>4, <1>5, <1>11, <1>12 DEF Pending
  <2> QED BY <2>1, <2>2, <1>5, <1>8, <1>12 DEF unread, State
<1>13. ASSUME state = "fin" PROVE unread'[C] = unread[C]
  <2>1. Pending(C)' = Pending(C) BY <1>4, <1>6, <1>11, <1>13 DEF Pending, old
  <2> QED BY <2>1, <1>8, <1>10 DEF unread
<1>14. ASSUME state = "reset"
       PROVE  /\ IsStream(unread'[C]) /\ Units(unread'[C]) \subseteq Units(unread[C])
              /\ unread'[C] # <<>> => unread[C] # <<>> /\ unread'[C][1] = unread[C][1]
  <2>1. conns'[C].bytes = <<>> BY <1>6, <1>14
  <2>2. IsStream(unread[C]) BY <1>10 DEF Delivers, Streams
  <2>3. CASE C = stream_fd
    <3>1. Read \in Seq(Unit) BY ReadTyped DEF Inv
    <3>2. Read \o <<>> = Read BY <3>1, Concat
    <3>3. unread'[C] = Read BY <1>4, <1>8, <1>10, <1>11, <2>1, <2>3, <3>2 DEF unread, Pending
    <3>4. unread[C] = Read \o old.bytes BY <1>10, <2>3 DEF unread, Pending, old
    <3>5. IsStream(Read) /\ Units(Read) \subseteq Units(Read \o old.bytes)
      BY <1>2, <2>2, <3>1, <3>4, StreamBegins
    <3>6. Read # <<>> => Read \o old.bytes # <<>> /\ (Read \o old.bytes)[1] = Read[1]
      <4>1. old.bytes \in Seq(Unit) BY <1>2
      <4> QED BY <3>1, <4>1
    <3> QED BY <3>3, <3>4, <3>5, <3>6
  <2>4. CASE C # stream_fd
    <3>1. unread'[C] = <<>> BY <1>4, <1>8, <1>10, <2>1, <2>4 DEF unread, Pending
    <3> QED BY <3>1, EmptyStream, NoUnits
  <2> QED BY <2>3, <2>4
<1>15. State(C)' = state BY <1>6 DEF State
<1>16. \A c \in Unread :
           /\ IsStream(unread'[c]) /\ Units(unread'[c]) \subseteq Units(unread[c])
           /\ unread'[c] # <<>> => unread[c] # <<>> /\ unread'[c][1] = unread[c][1]
           /\ State(c)' = "open" => State(c) = "open"
           /\ unread'[c] # unread[c] => State(c)' = "reset"
           /\ State(c) = "reset" => State(c)' = "reset"
  <2> TAKE c \in Unread
  <2>1. IsStream(unread[c]) BY DEF Delivers, Streams
  <2>2. CASE c # C BY <2>1, <2>2, <1>12
  <2>3. CASE c = C BY <2>1, <2>3, <1>10, <1>13, <1>14, <1>15
  <2> QED BY <2>2, <2>3
<1> QED BY <1>4, <1>7, <1>8, <1>9, <1>16, LosesDelivers

LEMMA UnitsAppend ==
  ASSUME NEW s \in Seq(Unit), NEW u \in Unit
  PROVE  Units(Append(s, u)) = Units(s) \cup {u}
<1> DEFINE t == Append(s, u)
           n == Len(s)
<1>1. /\ n \in Nat /\ Len(t) = n + 1 /\ t[n + 1] = u
      /\ \A j \in 1 .. n : t[j] = s[j]
  OBVIOUS
<1>2. Units(s) = {s[j] : j \in 1 .. n} /\ Units(t) = {t[j] : j \in 1 .. Len(t)} BY DEF Units
<1> HIDE DEF t, n
<1>3. 1 .. n + 1 = (1 .. n) \cup {n + 1} BY <1>1
<1>4. Units(t) = Units(s) \cup {u} BY <1>1, <1>2, <1>3
<1> QED BY <1>4 DEF t

LEMMA UnitsConcat ==
  ASSUME NEW s \in Seq(Unit), NEW t \in Seq(Unit)
  PROVE  Units(s \o t) \subseteq Units(s) \cup Units(t)
<1> DEFINE w == s \o t
<1>1. /\ Len(s) \in Nat /\ Len(t) \in Nat /\ Len(w) = Len(s) + Len(t)
      /\ \A j \in 1 .. Len(s) + Len(t) : w[j] = IF j <= Len(s) THEN s[j] ELSE t[j - Len(s)]
  BY ConcatAt
<1>2. ASSUME NEW j \in 1 .. Len(w) PROVE w[j] \in Units(s) \cup Units(t)
  <2> HIDE DEF w
  <2>1. CASE j <= Len(s)
    <3>1. j \in 1 .. Len(s) /\ w[j] = s[j] BY <2>1, <1>1
    <3> QED BY <3>1 DEF Units
  <2>2. CASE ~(j <= Len(s))
    <3>1. j - Len(s) \in 1 .. Len(t) /\ w[j] = t[j - Len(s)] BY <2>2, <1>1
    <3> QED BY <3>1 DEF Units
  <2> QED BY <2>1, <2>2
<1> QED BY <1>2 DEF Units

(* The sender goes on.                                                     *)
SendsTo(C) ==
  /\ C = Current /\ C = Len(conns) /\ C \in Unread /\ Sending /\ Sending' /\ Current' = C
  /\ Unread' = Unread /\ unread'[C] = Append(unread[C], cursor)
  /\ \A c \in Unread : c # C => unread'[c] = unread[c]
  /\ \A c \in Unread : State(c)' = State(c)
  /\ SameStates
  /\ handled' = handled /\ mirror_data_sock' = mirror_data_sock
  /\ cursor \in Unit /\ cursor[2] <= FrameEnd(cursor[1])
  /\ IF cursor[2] = FrameEnd(cursor[1])
     THEN cursor' = <<cursor[1] + 1, 1>> /\ sent' = Append(sent, cursor[1])
     ELSE cursor' = <<cursor[1], cursor[2] + 1>> /\ sent' = sent

LEMMA SendView ==
  ASSUME Inv, Reads, Network, Send
  PROVE  \E C \in 1 .. Len(conns) : SendsTo(C)
<1>0. PICK C : C = Current OBVIOUS
<1> DEFINE old == conns[C]
           now == [old EXCEPT !.bytes = Append(old.bytes, cursor)]
<1>1. Sending /\ cursor[1] \in Frame BY DEF Send
<1>2. /\ conns \in Seq(Conn) /\ Len(conns) \in Nat /\ C \in 1 .. Len(conns)
      /\ old \in Conn /\ old.bytes \in Seq(Unit) /\ C = Len(conns)
  <2>1. Len(conns) \in Nat /\ conns \in Seq(Conn) BY DEF Inv, ConnsOK
  <2>2. C \in 1 .. Len(conns) BY <1>0, <1>1, <2>1 DEF Sending, Current
  <2> QED BY <1>0, <2>1, <2>2, BytesTyped DEF Inv, Current
<1>3. cursor \in Unit BY <1>1, CursorInFrame DEF Inv
<1>4. cursor[2] <= FrameEnd(cursor[1]) BY <1>1 DEF Inv, SenderOK
<1>5. conns' = [conns EXCEPT ![C] = now] BY <1>0 DEF Send
<1>6. UNCHANGED <<packet, payload, stream_fd, accepted, mirror_data_sock, handled>>
  BY DEF Network, stream, control
<1>7. now.bytes = Append(old.bytes, cursor) /\ now.state = old.state BY <1>2 DEF Conn
<1> HIDE DEF now
<1>8. /\ Len(conns') = Len(conns) /\ conns'[C] = now
      /\ \A c \in 1 .. Len(conns) : c # C => conns'[c] = conns[c]
  BY <1>2, <1>5
<1> HIDE DEF old
<1>9. Unread' = Unread BY <1>6, <1>8 DEF Unread
<1>10. C \in Unread BY <1>0, <1>1, <1>2 DEF Reads, Sending, State
<1>11. Read' = Read /\ Read \in Seq(Unit) BY <1>6, ReadTyped DEF Read, Inv
<1>12. ASSUME NEW c \in Unread, c # C
       PROVE  unread'[c] = unread[c] /\ State(c)' = State(c)
  <2>1. c \in 1 .. Len(conns) BY UnreadConns DEF Inv
  <2>2. Pending(c)' = Pending(c) BY <2>1, <1>6, <1>8, <1>11, <1>12 DEF Pending
  <2> QED BY <2>1, <2>2, <1>8, <1>9, <1>12 DEF unread, State
<1>13. State(C)' = State(C) BY <1>7, <1>8 DEF State, old
<1>14. unread'[C] = Append(unread[C], cursor)
  <2>1. conns'[C].bytes = Append(old.bytes, cursor) BY <1>7, <1>8
  <2>2. unread[C] = IF C = stream_fd THEN Read \o old.bytes ELSE old.bytes
    BY <1>10 DEF unread, Pending, old
  <2>3. unread'[C] = IF C = stream_fd THEN Read \o Append(old.bytes, cursor)
                     ELSE Append(old.bytes, cursor)
    BY <1>6, <1>9, <1>10, <1>11, <2>1 DEF unread, Pending
  <2>4. \A x, y \in Seq(Unit) : \A u \in Unit : x \o Append(y, u) = Append(x \o y, u)
    OBVIOUS
  <2>5. Read \o Append(old.bytes, cursor) = Append(Read \o old.bytes, cursor)
    BY <2>4, <1>2, <1>3, <1>11, Zenon
  <2> QED BY <2>2, <2>3, <2>5
<1>15. Current' = C /\ Sending'
  <2>1. Current' = C BY <1>2, <1>8 DEF Current
  <2>2. conns'[C].state = conns[C].state BY <1>7, <1>8 DEF old
  <2> QED BY <2>1, <2>2, <1>0, <1>1 DEF Sending
<1>16. IF cursor[2] = FrameEnd(cursor[1])
       THEN cursor' = <<cursor[1] + 1, 1>> /\ sent' = Append(sent, cursor[1])
       ELSE cursor' = <<cursor[1], cursor[2] + 1>> /\ sent' = sent
  BY DEF Send
<1>17. SameStates BY <1>7, <1>8 DEF SameStates, old
<1>18. SendsTo(C)
  BY <1>0, <1>1, <1>2, <1>3, <1>4, <1>6, <1>9, <1>10, <1>12, <1>13, <1>14, <1>15, <1>16,
     <1>17 DEF SendsTo
<1> QED BY <1>2, <1>18

LEMMA SendDelivers ==
  ASSUME Inv, SentInOrder, Reads, Delivers, NEW C \in 1 .. Len(conns), SendsTo(C)
  PROVE  Delivers'
<1> DEFINE n == cursor[1]
           k == cursor[2]
           s == unread[C]
           m == Len(sent)
<1>1. /\ C = Current /\ C = Len(conns) /\ C \in Unread /\ Sending /\ Sending' /\ Current' = C
      /\ Unread' = Unread /\ unread'[C] = Append(s, cursor)
      /\ \A c \in Unread : c # C => unread'[c] = unread[c]
      /\ \A c \in Unread : State(c)' = State(c)
      /\ handled' = handled /\ mirror_data_sock' = mirror_data_sock
      /\ cursor \in Unit /\ k <= FrameEnd(n)
  BY DEF SendsTo
<1>2. IF k = FrameEnd(n) THEN cursor' = <<n + 1, 1>> /\ sent' = Append(sent, n)
      ELSE cursor' = <<n, k + 1>> /\ sent' = sent
  BY DEF SendsTo
<1>3. n \in Nat /\ n \in Frame /\ k \in Nat /\ FrameEnd(n) \in Nat /\ cursor = <<n, k>>
  BY <1>1, UnitTyped
<1>4. sent \in Seq(Frame) /\ m \in Nat BY DEF Inv, SenderOK
<1>5. IsStream(s) /\ s \in Seq(Unit) /\ Len(s) \in Nat
  BY <1>1, StreamTyped DEF Delivers, Streams, IsStream
<1>6. IF s = <<>> THEN k = 1 ELSE Follows(s[Len(s)], cursor)
  BY <1>1 DEF Delivers, Continues
<1>7. \A c \in Unread : c \in Nat /\ c <= C BY <1>1, UnreadConns DEF Inv
<1> HIDE DEF n, k, s, m
<1>8. Units(unread'[C]) = Units(s) \cup {cursor} BY <1>1, <1>5, UnitsAppend
(* The cursor moves on, and sent grows by a frame that is complete.        *)
<1>9. /\ cursor'[1] \in Nat /\ cursor'[2] \in Nat /\ n <= cursor'[1]
      /\ n < cursor'[1] \/ (n = cursor'[1] /\ k < cursor'[2])
      /\ Follows(cursor, cursor')
  BY <1>2, <1>3 DEF Follows
<1>10. /\ \A i \in 1 .. m : sent'[i] = sent[i]
       /\ Len(sent') \in Nat /\ m <= Len(sent')
       /\ 1 .. Len(sent') \subseteq (1 .. m) \cup {m + 1}
  BY <1>2, <1>4 DEF m
<1>11. k = FrameEnd(n) => Len(sent') = m + 1 /\ sent'[m + 1] = n
  BY <1>2, <1>3, <1>4 DEF m
<1>12. k # FrameEnd(n) => Len(sent') = m BY <1>2 DEF m
<1>13. /\ Len(handled) \in Nat /\ Len(handled) <= m
       /\ \A i \in 1 .. Len(handled) : i \in 1 .. m /\ sent'[i] = sent[i]
  BY <1>4, <1>10 DEF Delivers, NotYet, m
<1>14. ASSUME NEW c \in Unread, NEW u \in Units(unread'[c])
       PROVE  \/ u \in Units(unread[c])
              \/ c = C /\ u = cursor
  BY <1>1, <1>8 DEF s
<1>15. \A c \in Unread : \A u \in Units(unread[c]) :
         /\ u[1] \in Nat /\ u[2] \in Nat /\ FrameEnd(u[1]) \in Nat
         /\ u[1] < n \/ (u[1] = n /\ u[2] < k)
         /\ u[2] = FrameEnd(u[1]) => \E i \in 1 .. m : sent[i] = u[1]
  BY UnreadTyped DEF Delivers, Known, n, k, m
<1>16. \A c \in Unread \ {C} : \A u \in Units(unread[c]) : u[1] < n
  BY <1>1 DEF Delivers, Apart, n
<1>17. ASSUME NEW b \in Unread, NEW f, Carries(b, f)
       PROVE  LastUnit(f) \in Units(unread'[b]) \/ State(b) = "reset"
  <2>1. Units(unread[b]) \subseteq Units(unread'[b]) BY <1>1, <1>8 DEF s
  <2> QED BY <2>1, <1>17 DEF Carries
<1>18. Streams'
  <2>1. IsStream(Append(s, cursor)) BY <1>1, <1>5, <1>6, StreamExtends DEF n, k
  <2> QED BY <2>1, <1>1 DEF Delivers, Streams
<1>19. Known'
  <2> SUFFICES ASSUME NEW c \in Unread, NEW u \in Units(unread'[c])
               PROVE  /\ u[1] < cursor'[1] \/ (u[1] = cursor'[1] /\ u[2] < cursor'[2])
                      /\ u[2] = FrameEnd(u[1]) => \E i \in 1 .. Len(sent') : sent'[i] = u[1]
    BY <1>1 DEF Known
  <2>1. CASE u \in Units(unread[c])
    <3>1. u[1] < cursor'[1] \/ (u[1] = cursor'[1] /\ u[2] < cursor'[2])
      BY <2>1, <1>9, <1>15, <1>3
    <3>2. ASSUME u[2] = FrameEnd(u[1]) PROVE \E i \in 1 .. Len(sent') : sent'[i] = u[1]
      <4>1. PICK i \in 1 .. m : sent[i] = u[1] BY <2>1, <3>2, <1>15
      <4>2. i \in 1 .. Len(sent') /\ sent'[i] = u[1] BY <4>1, <1>4, <1>10
      <4> QED BY <4>2
    <3> QED BY <3>1, <3>2
  <2>2. CASE u = cursor
    <3>1. u[1] = n /\ u[2] = k BY <2>2 DEF n, k
    <3>2. k = FrameEnd(n) => m + 1 \in 1 .. Len(sent') /\ sent'[m + 1] = n BY <1>4, <1>11
    <3> QED BY <3>1, <3>2, <1>9
  <2> QED BY <2>1, <2>2, <1>14
<1>20. Apart'
  <2>1. ASSUME NEW b \in Unread, NEW c \in Unread, b < c,
               NEW u \in Units(unread'[b]), NEW v \in Units(unread'[c])
        PROVE  u[1] < v[1]
    <3>1. b # C BY <2>1, <1>7
    <3>2. u \in Units(unread[b]) BY <2>1, <3>1, <1>14
    <3>3. CASE v \in Units(unread[c]) BY <2>1, <3>2, <3>3 DEF Delivers, Apart
    <3>4. CASE v = cursor BY <3>1, <3>2, <3>4, <1>16 DEF n
    <3> QED BY <3>3, <3>4, <1>14
  <2>2. ASSUME NEW c \in Unread \ {C}, NEW u \in Units(unread'[c])
        PROVE  u[1] < cursor'[1]
    <3>1. u \in Units(unread[c]) BY <2>2, <1>14
    <3>2. u[1] < n /\ u[1] \in Nat BY <3>1, <1>15, <1>16
    <3> QED BY <3>2, <1>3, <1>9
  <2> QED BY <2>1, <2>2, <1>1 DEF Apart
<1>21. NotYet'
  <2> SUFFICES ASSUME NEW c \in Unread, NEW u \in Units(unread'[c]),
                      NEW i \in 1 .. Len(handled)
               PROVE  sent'[i] < u[1]
    <3>1. Len(handled) <= Len(sent') BY <1>10, <1>13, <1>4
    <3>2. handled \in Seq({Contents(f) : f \in Frame}) BY DEF Delivers, NotYet
    <3> QED BY <3>1, <3>2, <1>1, <1>13 DEF NotYet
  <2>1. i \in 1 .. m /\ sent'[i] = sent[i] BY <1>13
  <2>2. CASE u \in Units(unread[c]) BY <2>1, <2>2 DEF Delivers, NotYet
  <2>3. CASE u = cursor BY <2>1, <2>3 DEF SentInOrder, m
  <2> QED BY <2>2, <2>3, <1>14
<1>22. Continues'
  <2>1. /\ Append(s, cursor) # <<>> /\ Len(Append(s, cursor)) = Len(s) + 1
        /\ Append(s, cursor)[Len(s) + 1] = cursor
    BY <1>1, <1>5
  <2> QED BY <2>1, <1>1, <1>9 DEF Continues
<1>23. /\ \A i \in Unhandled : i \in 1 .. m /\ sent[i] \in Frame /\ sent'[i] = sent[i]
       /\ Unhandled' \subseteq Unhandled \cup {m + 1}
       /\ m + 1 \in Unhandled' => k = FrameEnd(n) /\ sent'[m + 1] = n
  <2>1. \A i \in Unhandled : i \in 1 .. m BY <1>4, <1>13 DEF Unhandled, m
  <2>2. \A i \in Unhandled' : i \in Unhandled \/ i = m + 1
    <3>1. handled' = handled /\ m = Len(sent) BY <1>1 DEF m
    <3> QED BY <3>1, <1>10, <1>13, <1>4 DEF Unhandled
  <2>3. m + 1 \in Unhandled' => k = FrameEnd(n)
    BY <1>1, <1>4, <1>12, <1>13 DEF Unhandled
  <2>4. \A i \in Unhandled : sent[i] \in Frame /\ sent'[i] = sent[i]
    BY <2>1, <1>4, <1>10 DEF m
  <2> QED BY <2>1, <2>2, <2>3, <2>4, <1>11
<1>24. InTurn'
  <2> SUFFICES ASSUME NEW i \in Unhandled', NEW c \in Unread,
                      unread'[c] # <<>> \/ State(c) = "open"
               PROVE  \/ unread'[c] # <<>> /\ unread'[c][1][1] <= sent'[i]
                      \/ \E b \in Unread :
                           /\ b < c
                           /\ LastUnit(sent'[i]) \in Units(unread'[b]) \/ State(b) = "reset"
    BY <1>1 DEF InTurn, Carries
  <2>1. unread[c] # <<>> => unread'[c] # <<>> /\ unread'[c][1] = unread[c][1]
    <3>1. s # <<>> => Append(s, cursor) # <<>> /\ Append(s, cursor)[1] = s[1]
      BY <1>1, <1>5
    <3> QED BY <3>1, <1>1 DEF s
  <2>2. unread[c] # <<>> => unread[c][1] \in Units(unread[c])
    <3>1. IsStream(unread[c]) BY DEF Delivers, Streams
    <3>2. unread[c] # <<>> => 1 \in 1 .. Len(unread[c]) BY <3>1 DEF IsStream
    <3> QED BY <3>2 DEF Units
  <2>3. c = C \/ unread[c] # <<>>
    BY <1>1, UnreadConns DEF Reads, Inv
  <2>4. CASE i \in Unhandled
    <3>1. sent'[i] = sent[i] BY <2>4, <1>23
    <3>2. unread[c] # <<>> \/ State(c) = "open"
      <4>1. State(C) = "open" BY <1>1 DEF Sending, State
      <4> QED BY <4>1, <2>3
    <3>3. \/ unread[c] # <<>> /\ unread[c][1][1] <= sent[i]
          \/ \E b \in Unread : b < c /\ Carries(b, sent[i])
      BY <2>4, <3>2 DEF Delivers, InTurn
    <3>4. CASE unread[c] # <<>> /\ unread[c][1][1] <= sent[i]
      BY <3>1, <3>4, <2>1
    <3>5. ASSUME NEW b \in Unread, b < c, Carries(b, sent[i])
          PROVE  LastUnit(sent'[i]) \in Units(unread'[b]) \/ State(b) = "reset"
      BY <3>1, <3>5, <1>17
    <3> QED BY <3>3, <3>4, <3>5
  <2>5. CASE i \notin Unhandled
    <3>1. i = m + 1 /\ sent'[i] = n BY <2>5, <1>23
    <3>2. CASE unread[c] # <<>>
      <4>1. unread[c][1][1] \in Nat /\ unread[c][1][1] <= n
        BY <3>2, <2>2, <1>3, <1>15
      <4> QED BY <4>1, <3>1, <3>2, <2>1
    <3>3. CASE unread[c] = <<>>
      <4>1. c = C /\ s = <<>> BY <3>3, <2>3 DEF s
      <4>2. Append(s, cursor) # <<>> /\ Append(s, cursor)[1] = cursor BY <4>1, <1>1
      <4> QED BY <4>1, <4>2, <3>1, <1>1, <1>3 DEF n
    <3> QED BY <3>2, <3>3
  <2> QED BY <2>4, <2>5
<1>25. NoneLost'
  <2> SUFFICES ASSUME mirror_data_sock = "open", NEW i \in Unhandled'
               PROVE  \E b \in Unread :
                        LastUnit(sent'[i]) \in Units(unread'[b]) \/ State(b) = "reset"
    BY <1>1 DEF NoneLost, Carries
  <2>1. CASE i \in Unhandled
    <3>1. sent'[i] = sent[i] BY <2>1, <1>23
    <3>2. PICK b \in Unread : Carries(b, sent[i]) BY <2>1 DEF Delivers, NoneLost
    <3> QED BY <3>1, <3>2, <1>17
  <2>2. CASE i \notin Unhandled
    <3>1. i = m + 1 /\ sent'[i] = n /\ k = FrameEnd(n) BY <2>2, <1>23
    <3>2. LastUnit(sent'[i]) = cursor BY <3>1, <1>3 DEF LastUnit
    <3> QED BY <3>2, <1>1, <1>8
  <2> QED BY <2>1, <2>2
<1> QED BY <1>18, <1>19, <1>20, <1>21, <1>22, <1>24, <1>25 DEF Delivers

-----------------------------------------------------------------------------
(* The frame that the thread has read is the next one that was sent.       *)

LEMMA ReadWhole ==
  ASSUME Inv, Reads, Delivers, HandleFrame
  PROVE  /\ stream_fd = accepted /\ stream_fd \in Unread
         /\ Read \in Seq(Unit) /\ Read # <<>> /\ Len(Read) = FrameEnd(Read[1][1])
         /\ conns[stream_fd].bytes \in Seq(Unit)
         /\ unread[stream_fd] = Read \o conns[stream_fd].bytes
         /\ packet \in Seq(Unit) /\ payload \in Seq(Unit) /\ Read = packet \o payload
         /\ Len(packet) = HeaderLen /\ Len(payload) = Size(Read[1][1])
         /\ Read[1][1] \in Frame
<1>1. /\ thread = "payload" /\ payload # NULL /\ stream_fd # 0
      /\ Len(payload) >= PayloadSize
  BY DEF HandleFrame, Step, Inv, InFrame
<1>2. packet \in Seq(Unit) /\ payload \in Seq(Unit) /\ Len(packet) = HeaderLen
  BY <1>1 DEF Inv, BufferOK, InFrame
<1>3. Read = packet \o payload BY <1>1 DEF Read
<1>4. HeaderLen \in Nat /\ HeaderLen > 0 BY MirrorAssumption
<1>5. /\ Read \in Seq(Unit) /\ Len(Read) = HeaderLen + Len(payload) /\ Len(payload) \in Nat
      /\ Read[1] = packet[1] /\ Head(packet) = packet[1] /\ packet[1] \in Unit
  <2>1. 1 \in 1 .. Len(packet) /\ packet # <<>> /\ Len(payload) \in Nat BY <1>2, <1>4
  <2>2. packet[1] \in Unit /\ Head(packet) = packet[1] BY <2>1, <1>2
  <2>3. Read \in Seq(Unit) /\ Len(Read) = Len(packet) + Len(payload)
    BY <1>2, <1>3, ConcatAt
  <2>4. Read[1] = packet[1] BY <2>1, <1>2, <1>3
  <2> QED BY <2>1, <2>2, <2>3, <2>4, <1>2
<1>6. Read[1][1] \in Frame BY <1>5 DEF Unit
<1>7. PayloadSize = Size(Read[1][1]) /\ PayloadSize \in Nat
  BY <1>2, <1>5, PayloadTyped DEF PayloadSize, Inv
<1>8. Len(payload) = Size(Read[1][1]) BY <1>1, <1>5, <1>7 DEF Reads
<1>9. Len(Read) = FrameEnd(Read[1][1]) BY <1>5, <1>8 DEF FrameEnd
<1>10. Read # <<>> BY <1>4, <1>5
<1>11. /\ stream_fd = accepted /\ stream_fd \in 1 .. Len(conns)
       /\ stream_fd \in Unread /\ conns[stream_fd].bytes \in Seq(Unit)
  <2>1. stream_fd = accepted /\ stream_fd \in 1 .. Len(conns)
    BY <1>1 DEF Reads, Inv, ConnsOK
  <2> QED BY <2>1, BytesTyped DEF Unread, Inv
<1>12. unread[stream_fd] = Read \o conns[stream_fd].bytes BY <1>11 DEF unread, Pending
<1> QED BY <1>2, <1>3, <1>5, <1>6, <1>8, <1>9, <1>10, <1>11, <1>12

LEMMA FrameDue ==
  ASSUME Inv, SentInOrder, Reads, Delivers, HandleFrame
  PROVE  \E n \in Frame :
           /\ n = Read[1][1] /\ Len(handled) < Len(sent) /\ sent[Len(handled) + 1] = n
           /\ packet = Header(n) /\ payload = Payload(n)
           /\ LastUnit(n) \in Units(unread[stream_fd])
<1>1. PICK n : n = Read[1][1] OBVIOUS
<1>2. PICK f : f = stream_fd OBVIOUS
<1>3. PICK h : h = Len(handled) + 1 OBVIOUS
<1> DEFINE t == conns[f].bytes
<1>4. /\ f = accepted /\ f \in Unread /\ t \in Seq(Unit) /\ unread[f] = Read \o t
      /\ Read \in Seq(Unit) /\ Read # <<>> /\ Len(Read) = FrameEnd(n) /\ n \in Frame
      /\ packet \in Seq(Unit) /\ payload \in Seq(Unit) /\ Read = packet \o payload
      /\ Len(packet) = HeaderLen /\ Len(payload) = Size(n)
  BY <1>1, <1>2, ReadWhole
<1> HIDE DEF t
<1>5. IsStream(Read \o t) BY <1>4 DEF Delivers, Streams
<1>6. \A j \in 1 .. Len(Read) : Read[j] = <<n, j>>
  BY <1>1, <1>4, <1>5, StreamGoesOn
<1>7. FrameEnd(n) \in 1 .. Len(Read) /\ n \in Nat /\ HeaderLen \in Nat /\ Size(n) \in Nat
  BY <1>4, FramesTyped, MirrorAssumption DEF FrameEnd, Frame
<1>8. LastUnit(n) \in Units(unread[f])
  <2>1. Read[FrameEnd(n)] = LastUnit(n) BY <1>6, <1>7 DEF LastUnit
  <2>2. LastUnit(n) \in Units(Read) BY <2>1, <1>7 DEF Units
  <2> QED BY <2>2, <1>4, <1>5, StreamBegins
<1>9. packet = Header(n)
  <2>1. Header(n) = [j \in 1 .. HeaderLen |-> <<n, j>>] BY DEF Header
  <2>2. packet = [j \in 1 .. HeaderLen |-> packet[j]] BY <1>4
  <2>3. \A j \in 1 .. HeaderLen : packet[j] = <<n, j>>
    <3> TAKE j \in 1 .. HeaderLen
    <3>1. j \in 1 .. Len(Read) /\ Read[j] = packet[j] BY <1>4, <1>7, ConcatAt
    <3> QED BY <3>1, <1>6
  <2> QED BY <2>1, <2>2, <2>3
<1>10. payload = Payload(n)
  <2>1. Payload(n) = [j \in 1 .. Size(n) |-> <<n, HeaderLen + j>>] BY DEF Payload
  <2>2. payload = [j \in 1 .. Size(n) |-> payload[j]] BY <1>4
  <2>3. \A j \in 1 .. Size(n) : payload[j] = <<n, HeaderLen + j>>
    <3> TAKE j \in 1 .. Size(n)
    <3>1. /\ HeaderLen + j \in 1 .. HeaderLen + Size(n) /\ ~(HeaderLen + j <= HeaderLen)
          /\ (HeaderLen + j) - HeaderLen = j
      BY <1>7
    <3>2. Len(Read) = HeaderLen + Size(n) BY <1>4 DEF FrameEnd
    <3>3. Read[HeaderLen + j] = payload[(HeaderLen + j) - HeaderLen]
      BY <3>1, <1>4, ConcatAt, SMTT(40)
    <3>4. Read[HeaderLen + j] = <<n, HeaderLen + j>> BY <3>1, <3>2, <1>6
    <3> QED BY <3>1, <3>3, <3>4
  <2> QED BY <2>1, <2>2, <2>3
<1>11. PICK i \in 1 .. Len(sent) : sent[i] = n
  <2>1. LastUnit(n)[2] = FrameEnd(LastUnit(n)[1]) /\ LastUnit(n)[1] = n BY DEF LastUnit
  <2> QED BY <2>1, <1>4, <1>8 DEF Delivers, Known
<1>12. /\ sent \in Seq(Frame) /\ Len(sent) \in Nat /\ Len(handled) \in Nat
       /\ \A j \in 1 .. Len(sent) : sent[j] \in Nat
  <2>1. sent \in Seq(Frame) /\ Len(handled) \in Nat
    BY DEF Inv, SenderOK, Delivers, NotYet
  <2>2. \A j \in 1 .. Len(sent) : sent[j] \in Frame BY <2>1
  <2> QED BY <2>1, <2>2 DEF Frame
<1>13. ~(i <= Len(handled))
  <2> SUFFICES ASSUME i <= Len(handled) PROVE FALSE OBVIOUS
  <2>1. i \in 1 .. Len(handled) BY <1>12
  <2>2. sent[i] < LastUnit(n)[1] BY <2>1, <1>4, <1>8 DEF Delivers, NotYet
  <2> QED BY <2>2, <1>7, <1>11 DEF LastUnit
<1>14. h \in 1 .. Len(sent) /\ h \in Unhandled /\ h <= i
  BY <1>3, <1>12, <1>13 DEF Unhandled
<1>15. n <= sent[h]
  <2>1. unread[f] # <<>> /\ unread[f][1] = Read[1] BY <1>4
  <2>2. \A b \in Unread : ~(b < f)
    <3>1. accepted \in Nat BY DEF Inv, ConnsOK
    <3> QED BY <3>1, <1>2, <1>4, UnreadConns DEF Unread, Inv
  <2> QED BY <2>1, <2>2, <1>1, <1>4, <1>14 DEF Delivers, InTurn
<1>16. h = i
  <2> SUFFICES ASSUME h < i PROVE FALSE BY <1>3, <1>12, <1>14
  <2>1. sent[h] < sent[i] BY <1>14 DEF SentInOrder
  <2> QED BY <2>1, <1>7, <1>11, <1>12, <1>14, <1>15
<1>17. Len(handled) < Len(sent) BY <1>3, <1>12, <1>14
<1> QED BY <1>1, <1>2, <1>3, <1>4, <1>8, <1>9, <1>10, <1>11, <1>16, <1>17

LEMMA HandleDelivers ==
  ASSUME Inv, SentInOrder, Reads, Delivers, HandleFrame
  PROVE  Delivers'
<1>1. PICK n \in Frame :
        /\ n = Read[1][1] /\ Len(handled) < Len(sent) /\ sent[Len(handled) + 1] = n
        /\ packet = Header(n) /\ payload = Payload(n)
        /\ LastUnit(n) \in Units(unread[stream_fd])
  BY FrameDue
<1>2. PICK f : f = stream_fd OBVIOUS
<1>3. PICK h : h = Len(handled) + 1 OBVIOUS
<1>4. PICK t : t = conns[f].bytes OBVIOUS
<1>5. /\ f = accepted /\ f \in Unread /\ t \in Seq(Unit) /\ unread[f] = Read \o t
      /\ Read \in Seq(Unit) /\ Read # <<>> /\ Len(Read) = FrameEnd(n)
  BY <1>1, <1>2, <1>4, ReadWhole
<1>6. /\ packet' = <<>> /\ payload' = NULL
      /\ handled' = Append(handled, [type |-> PayloadType, header |-> packet,
                                     payload |-> payload])
      /\ UNCHANGED <<stream_fd, conns, cursor, sent, accepted, mirror_data_sock>>
  BY DEF HandleFrame, network, control
<1>7. IsStream(Read \o t) BY <1>5 DEF Delivers, Streams
<1>8. /\ \A j \in 1 .. Len(Read) : Read[j] = <<n, j>>
      /\ IsStream(t) /\ Units(t) \subseteq Units(unread[f])
      /\ t # <<>> => t[1] = <<n + 1, 1>>
      /\ \A u \in Units(t) : u[1] > n
  BY <1>1, <1>5, <1>7, StreamGoesOn
<1>9. FrameEnd(n) \in 1 .. Len(Read) /\ n \in Nat /\ HeaderLen \in Nat
  BY <1>5, FramesTyped, MirrorAssumption DEF FrameEnd, Frame
<1>10. Unread' = Unread BY <1>6 DEF Unread
<1>11. unread'[f] = t
  <2>1. Read' = <<>> BY <1>6 DEF Read
  <2>2. <<>> \o t = t BY <1>5, Concat
  <2>3. unread'[f] = Read' \o t BY <1>2, <1>4, <1>5, <1>6, <1>10 DEF unread, Pending
  <2> QED BY <2>1, <2>2, <2>3
<1>12. \A c \in Unread : c # f => unread'[c] = unread[c]
  BY <1>2, <1>6, <1>10 DEF unread, Pending
<1>13. \A c \in Unread : c # f => f < c
  <2>1. accepted \in Nat /\ \A c \in Unread : c \in Nat BY UnreadConns DEF Inv, ConnsOK
  <2> QED BY <2>1, <1>2, <1>5 DEF Unread
<1>14. \A c \in Unread : Units(unread'[c]) \subseteq Units(unread[c]) /\ State(c)' = State(c)
  BY <1>6, <1>8, <1>11, <1>12 DEF State
<1>15. /\ handled \in Seq({Contents(m) : m \in Frame}) /\ Len(handled) \in Nat
       /\ sent \in Seq(Frame) /\ Len(sent) \in Nat /\ h \in 1 .. Len(sent) /\ sent[h] = n
       /\ \A j \in 1 .. Len(sent) : sent[j] \in Frame /\ sent[j] \in Nat
  <2>1. handled \in Seq({Contents(m) : m \in Frame}) /\ sent \in Seq(Frame)
    BY DEF Inv, SenderOK, Delivers, NotYet
  <2>2. \A j \in 1 .. Len(sent) : sent[j] \in Frame BY <2>1
  <2>3. Len(handled) \in Nat /\ Len(sent) \in Nat BY <2>1
  <2> QED BY <2>1, <2>2, <2>3, <1>1, <1>3 DEF Frame
<1>16. handled' \in Seq({Contents(m) : m \in Frame}) /\ Len(handled') = h
  <2>1. PayloadType = Frames[n].type
    <3>1. packet[HeaderLen] = <<n, HeaderLen>> BY <1>1, <1>9, MirrorAssumption, SMTT(40) DEF Header
    <3> QED BY <3>1 DEF PayloadType
  <2>2. [type |-> PayloadType, header |-> packet, payload |-> payload] = Contents(n)
    BY <2>1, <1>1 DEF Contents
  <2>3. handled' = Append(handled, Contents(n)) BY <2>2, <1>6
  <2>4. Contents(n) \in {Contents(m) : m \in Frame} OBVIOUS
  <2> QED BY <2>3, <2>4, <1>3, <1>15
<1>17. /\ Unhandled' \subseteq Unhandled
       /\ \A i \in Unhandled' : i \in 1 .. Len(sent) /\ sent[i] > n
  <2>1. Unhandled' = h + 1 .. Len(sent) BY <1>6, <1>16 DEF Unhandled
  <2>2. \A i \in Unhandled' : i \in 1 .. Len(sent) /\ h < i BY <2>1, <1>15
  <2>3. \A i \in Unhandled' : sent[i] > n BY <2>2, <1>15 DEF SentInOrder
  <2>4. Unhandled' \subseteq Unhandled BY <2>1, <1>3, <1>15 DEF Unhandled
  <2> QED BY <2>2, <2>3, <2>4
<1>18. ASSUME NEW b \in Unread, NEW m \in Frame, m # n, Carries(b, m)
       PROVE  LastUnit(m) \in Units(unread'[b]) \/ State(b) = "reset"
  <2>1. CASE State(b) = "reset" BY <2>1
  <2>2. CASE LastUnit(m) \in Units(unread[b]) /\ b # f BY <2>2, <1>12
  <2>3. CASE LastUnit(m) \in Units(unread[b]) /\ b = f
    <3>1. LastUnit(m) \in Units(Read) \cup Units(t) BY <2>3, <1>5, UnitsConcat
    <3>2. LastUnit(m) \notin Units(Read)
      <4> SUFFICES ASSUME NEW j \in 1 .. Len(Read), Read[j] = LastUnit(m) PROVE FALSE
        BY DEF Units
      <4>1. <<n, j>> = <<m, FrameEnd(m)>> BY <1>8 DEF LastUnit
      <4> QED BY <4>1, <1>18
    <3> QED BY <3>1, <3>2, <2>3, <1>11
  <2> QED BY <2>1, <2>2, <2>3, <1>18 DEF Carries
<1>19. Streams' BY <1>8, <1>10, <1>11, <1>12 DEF Delivers, Streams
<1>20. Known' BY <1>6, <1>10, <1>14 DEF Delivers, Known
<1>21. Current' = Current /\ Sending' = Sending BY <1>6 DEF Current, Sending
<1>22. Apart' BY <1>6, <1>10, <1>14, <1>21 DEF Delivers, Apart
<1>23. NotYet'
  <2>1. ASSUME NEW c \in Unread, NEW u \in Units(unread'[c]), NEW i \in 1 .. h
        PROVE  sent[i] < u[1]
    <3>1. u \in Units(unread[c]) BY <1>14
    <3>2. CASE i \in 1 .. Len(handled) BY <3>1, <3>2 DEF Delivers, NotYet
    <3>3. CASE i = h
      <4>1. CASE c = f BY <4>1, <3>3, <1>8, <1>9, <1>11, <1>15
      <4>2. CASE c # f
        <5>1. LastUnit(n)[1] < u[1] BY <4>2, <3>1, <1>1, <1>2, <1>5, <1>13 DEF Delivers, Apart
        <5> QED BY <5>1, <3>3, <1>15 DEF LastUnit
      <4> QED BY <4>1, <4>2
    <3> QED BY <3>2, <3>3, <1>3, <1>15
  <2> QED BY <2>1, <1>6, <1>10, <1>15, <1>16 DEF NotYet
<1>24. /\ Sending /\ Current = f => f \in Unread /\ Follows(unread[f][Len(unread[f])], cursor)
       /\ Sending /\ Current = f /\ t = <<>> => cursor = <<n + 1, 1>>
  <2>1. unread[f] # <<>> BY <1>5
  <2>2. Sending /\ Current = f => Follows(unread[f][Len(unread[f])], cursor)
    BY <2>1 DEF Delivers, Continues
  <2>3. t = <<>> => unread[f][Len(unread[f])] = <<n, FrameEnd(n)>>
    <3>1. t = <<>> => unread[f] = Read BY <1>5, Concat
    <3> QED BY <3>1, <1>5, <1>8, <1>9
  <2> QED BY <2>2, <2>3, <1>5 DEF Follows
<1>25. Continues'
  <2> SUFFICES ASSUME Sending
               PROVE  IF unread'[Current] = <<>> THEN cursor[2] = 1
                      ELSE Follows(unread'[Current][Len(unread'[Current])], cursor)
    BY <1>6, <1>21 DEF Continues
  <2>1. CASE Current = f /\ t = <<>> BY <2>1, <1>11, <1>24
  <2>2. CASE Current = f /\ t # <<>>
    <3>1. (Read \o t)[Len(Read \o t)] = t[Len(t)] BY <2>2, <1>5
    <3> QED BY <3>1, <2>2, <1>5, <1>11, <1>24
  <2>3. CASE Current # f
    <3>1. Current \in Unread
      <4>1. Current \in 1 .. Len(conns) /\ State(Current) = "open"
        BY DEF Sending, Current, State, Inv, ConnsOK
      <4> QED BY <4>1 DEF Reads
    <3> QED BY <2>3, <3>1, <1>12 DEF Delivers, Continues
  <2> QED BY <2>1, <2>2, <2>3
<1>26. InTurn'
  <2> SUFFICES ASSUME NEW i \in Unhandled', NEW c \in Unread,
                      unread'[c] # <<>> \/ State(c) = "open"
               PROVE  \/ unread'[c] # <<>> /\ unread'[c][1][1] <= sent[i]
                      \/ \E b \in Unread :
                           /\ b < c
                           /\ LastUnit(sent[i]) \in Units(unread'[b]) \/ State(b) = "reset"
    BY <1>6, <1>10, <1>14 DEF InTurn, Carries
  <2>1. i \in Unhandled /\ sent[i] > n /\ sent[i] \in Nat /\ sent[i] \in Frame /\ sent[i] # n
    BY <1>9, <1>15, <1>17
  <2>2. CASE c = f /\ t # <<>>
    <3>1. unread'[c][1][1] = n + 1 BY <2>2, <1>8, <1>11
    <3> QED BY <3>1, <2>1, <2>2, <1>9, <1>11
  <2>3. CASE c = f /\ t = <<>>
    <3>1. State(f) = "open" BY <2>3, <1>11
    <3>2. Sending /\ Current = f
      <4>1. f = Len(conns) /\ f \in 1 .. Len(conns)
        BY <3>1, <1>5, UnreadConns DEF Reads, Inv
      <4> QED BY <3>1, <4>1 DEF Sending, Current, State
    <3>3. cursor[1] = n + 1 BY <3>2, <2>3, <1>24
    <3>4. sent[i] < cursor[1] BY <1>17 DEF SentInOrder
    <3> QED BY <3>3, <3>4, <2>1, <1>9
  <2>4. CASE c # f
    <3>1. \/ unread[c] # <<>> /\ unread[c][1][1] <= sent[i]
          \/ \E b \in Unread : b < c /\ Carries(b, sent[i])
      BY <2>1, <2>4, <1>12 DEF Delivers, InTurn
    <3>2. ASSUME NEW b \in Unread, b < c, Carries(b, sent[i])
          PROVE  LastUnit(sent[i]) \in Units(unread'[b]) \/ State(b) = "reset"
      BY <3>2, <2>1, <1>18
    <3> QED BY <3>1, <3>2, <2>4, <1>12
  <2> QED BY <2>2, <2>3, <2>4
<1>27. NoneLost'
  <2> SUFFICES ASSUME mirror_data_sock = "open", NEW i \in Unhandled'
               PROVE  \E b \in Unread :
                        LastUnit(sent[i]) \in Units(unread'[b]) \/ State(b) = "reset"
    BY <1>6, <1>10, <1>14 DEF NoneLost, Carries
  <2>1. i \in Unhandled /\ sent[i] \in Frame /\ sent[i] # n BY <1>9, <1>15, <1>17
  <2>2. PICK b \in Unread : Carries(b, sent[i]) BY <2>1 DEF Delivers, NoneLost
  <2> QED BY <2>1, <2>2, <1>18
<1> QED BY <1>19, <1>20, <1>22, <1>23, <1>25, <1>26, <1>27 DEF Delivers

-----------------------------------------------------------------------------
(* A session begins with nothing before it.                                *)

LEMMA NothingDelivers ==
  ASSUME conns = <<>>, sent = <<>>, handled = <<>>
  PROVE  Delivers
<1>1. Unread = {} BY DEF Unread
<1>2. Unhandled = {} BY DEF Unhandled
<1>3. ~Sending BY DEF Sending, Current
<1>4. NotYet BY <1>1 DEF NotYet
<1>5. Streams /\ Known BY <1>1 DEF Streams, Known
<1>6. Apart BY <1>1, <1>3 DEF Apart
<1>7. Continues BY <1>3 DEF Continues
<1>8. InTurn /\ NoneLost BY <1>2 DEF InTurn, NoneLost
<1> QED BY <1>4, <1>5, <1>6, <1>7, <1>8 DEF Delivers

LEMMA StartDelivers ==
  ASSUME Inv, StartMirror, Live => Delivers, Live'
  PROVE  Delivers'
<1>1. CASE /\ UNCHANGED <<thread, stream, conns, accepted, cursor, sent, handled>>
           /\ UNCHANGED mirror_data_sock
  <2>1. Live BY <1>1 DEF Live
  <2>2. SameView BY <1>1, SameStateViews
  <2> QED BY <2>1, <2>2, SameViewDelivers DEF Inv
<1>2. CASE conns' = <<>> /\ sent' = <<>> /\ handled' = <<>>
  <2>1. (conns = <<>> /\ sent = <<>> /\ handled = <<>> => Delivers)'
    BY NothingDelivers, PTL
  <2> QED BY <1>2, <2>1
<1> QED BY <1>1, <1>2 DEF StartMirror

LEMMA SentInOrderStep ==
  ASSUME Inv, Inv', SentInOrder, [Next]_vars
  PROVE  SentInOrder'
<1>1. CASE UNCHANGED <<sent, cursor>> BY <1>1 DEF SentInOrder
<1>2. CASE sent' = <<>>
  <2>1. Len(sent') = 0 BY <1>2
  <2> QED BY <2>1 DEF SentInOrder
<1>3. sent \in Seq(Frame) /\ Len(sent) \in Nat /\ cursor[1] \in Nat /\ cursor[2] \in Nat
  BY DEF Inv, SenderOK
<1>4. \A i \in 1 .. Len(sent) : sent[i] \in Nat
  <2>1. \A i \in 1 .. Len(sent) : sent[i] \in Frame BY <1>3
  <2> QED BY <2>1 DEF Frame
<1>5. CASE sent' = sent /\ cursor'[1] \in Nat /\ cursor[1] <= cursor'[1]
  BY <1>3, <1>4, <1>5 DEF SentInOrder
<1>6. CASE Connect
  <2>1. cursor'[1] \in {cursor[1], cursor[1] + 1} /\ sent' = sent
    BY <1>6 DEF Connect, NextFrame
  <2> QED BY <2>1, <1>3, <1>5
<1>7. CASE Send
  <2>1. CASE sent' = sent /\ cursor' = <<cursor[1], cursor[2] + 1>>
    BY <2>1, <1>3, <1>5
  <2>2. CASE sent' = Append(sent, cursor[1]) /\ cursor' = <<cursor[1] + 1, 1>>
    <3> DEFINE n == cursor[1]
               m == Len(sent)
    <3>1. /\ Len(sent') = m + 1 /\ sent'[m + 1] = n /\ cursor'[1] = n + 1
          /\ \A i \in 1 .. m : sent'[i] = sent[i] /\ sent[i] < n /\ sent[i] \in Nat
          /\ \A i, j \in 1 .. m : i < j => sent[i] < sent[j]
          /\ n \in Nat /\ m \in Nat
      BY <2>2, <1>3, <1>4 DEF SentInOrder
    <3> HIDE DEF n, m
    <3>2. \A i \in 1 .. m + 1 : i \in 1 .. m \/ i = m + 1 BY <3>1
    <3>3. \A i \in 1 .. Len(sent') : sent'[i] < cursor'[1] BY <3>1, <3>2
    <3>4. \A i, j \in 1 .. Len(sent') : i < j => sent'[i] < sent'[j]
      <4> SUFFICES ASSUME NEW i \in 1 .. m + 1, NEW j \in 1 .. m + 1, i < j
                   PROVE  sent'[i] < sent'[j]
        BY <3>1
      <4>1. i \in 1 .. m BY <3>1
      <4>2. CASE j \in 1 .. m BY <4>1, <4>2, <3>1
      <4>3. CASE j = m + 1 BY <4>1, <4>3, <3>1
      <4> QED BY <4>2, <4>3, <3>2
    <3> QED BY <3>3, <3>4 DEF SentInOrder
  <2> QED BY <1>7, <2>1, <2>2 DEF Send
<1>8. CASE Disconnect BY <1>1, <1>8 DEF Disconnect
<1>9. CASE Thread
  BY <1>1, <1>9 DEF Thread, CheckRunning, Select, Accept, ReceiveHeader, ReceivePayload,
     HandleFrame, Exit, network
<1>10. CASE StartMirror BY <1>1, <1>2, <1>10 DEF StartMirror
<1>11. CASE CloseSocket \/ StopReturns \/ DestroyStopped \/ \E by \in {"stop", "destroy"} : Stop(by)
  BY <1>1, <1>11 DEF CloseSocket, StopReturns, DestroyStopped, Stop, network
<1>12. CASE UNCHANGED vars BY <1>1, <1>12 DEF vars, network
<1> QED BY <1>6, <1>7, <1>8, <1>9, <1>10, <1>11, <1>12 DEF Next, Httpd, Network

-----------------------------------------------------------------------------
(* Which connection is read, and which one the sender is at.               *)

OpenIsLast == \A c \in 1 .. Len(conns) : State(c) = "open" => c = Len(conns) /\ c \in Unread

LEMMA SameOpen ==
  ASSUME Reads, SameStates, Unread' = Unread
  PROVE  OpenIsLast'
BY DEF Reads, OpenIsLast, SameStates, State

LEMMA SameReads ==
  ASSUME Reads, SameStates, UNCHANGED stream, UNCHANGED accepted,
         thread' = "accept" => thread = "accept" \/ stream_fd = 0
  PROVE  Reads'
<1>1. Unread' = Unread /\ UNCHANGED <<stream_fd, packet, payload>>
  BY DEF SameStates, Unread, stream
<1>2. OpenIsLast' BY <1>1, SameOpen
<1>3. PayloadSize' = PayloadSize BY <1>1 DEF PayloadSize
<1> QED BY <1>1, <1>2, <1>3 DEF Reads, OpenIsLast

LEMMA CloseSocketReads ==
  ASSUME Inv, Reads, CloseSocket
  PROVE  Reads'
<1>1. UNCHANGED <<stream, accepted, thread>> BY DEF CloseSocket
<1>2. CASE conns' = conns BY <1>1, <1>2, SameReads DEF SameStates
<1>3. CASE conns' = SubSeq(conns, 1, accepted)
  <2>1. conns \in Seq(Conn) /\ accepted \in 0 .. Len(conns) /\ Len(conns) \in Nat
    BY DEF Inv, ConnsOK
  <2>2. Len(conns') = accepted /\ \A c \in 1 .. accepted : conns'[c] = conns[c]
    BY <1>3, <2>1
  <2>3. OpenIsLast'
    <3> SUFFICES ASSUME NEW c \in 1 .. accepted, State(c) = "open"
                 PROVE  c = accepted /\ c \in Unread'
      BY <2>2 DEF OpenIsLast, State
    <3>1. c \in 1 .. Len(conns) /\ c = Len(conns) /\ c \in Unread BY <2>1 DEF Reads
    <3>2. c = accepted BY <3>1, <2>1
    <3>3. c \in Unread' BY <3>1, <3>2, <2>2, <1>1 DEF Unread, stream
    <3> QED BY <3>2, <3>3
  <2>4. PayloadSize' = PayloadSize BY <1>1 DEF PayloadSize, stream
  <2> QED BY <2>3, <2>4, <1>1 DEF Reads, OpenIsLast, stream
<1> QED BY <1>2, <1>3 DEF CloseSocket

(* recv that takes nothing leaves everything but what it reads from.       *)
LEMMA TakesNothing ==
  ASSUME Inv
  PROVE  /\ ReceiveHeader /\ UNCHANGED packet =>
              /\ UNCHANGED <<payload, conns>>
              /\ stream_fd' = stream_fd \/ (stream_fd' = 0 /\ State(stream_fd) = "fin")
         /\ ReceivePayload /\ UNCHANGED payload => UNCHANGED <<stream, conns>>
<1>1. ASSUME ReceiveHeader, UNCHANGED packet
      PROVE  /\ UNCHANGED <<payload, conns>>
             /\ stream_fd' = stream_fd \/ (stream_fd' = 0 /\ State(stream_fd) = "fin")
  <2> DEFINE wanted == HeaderLen - Len(packet)
             n == Available(wanted)
  <2>1. thread = "header" /\ stream_fd # 0 BY <1>1 DEF ReceiveHeader, Inv, InFrame
  <2>2. packet \in Seq(Unit) /\ wanted \in Nat BY MirrorAssumption DEF Inv, BufferOK
  <2>3. n = 0 \/ (n > 0 /\ packet' = packet \o Taken(n)) BY <1>1 DEF ReceiveHeader
  <2>4. CASE n = 0 BY <1>1, <2>4 DEF ReceiveHeader, State
  <2>5. CASE n > 0 /\ packet' = packet \o Taken(n)
    <3> HIDE DEF wanted
    <3>1. Taken(n) \in Seq(Unit) /\ Len(Taken(n)) = n /\ n \in 1 .. wanted
      BY <2>1, <2>2, <2>5, Received
    <3> HIDE DEF n
    <3>2. Len(packet') = Len(packet) + n BY <2>2, <2>5, <3>1, ConcatAt
    <3> QED BY <1>1, <2>2, <3>1, <3>2
  <2> QED BY <2>3, <2>4, <2>5
<1>2. ASSUME ReceivePayload, UNCHANGED payload
      PROVE  UNCHANGED <<stream, conns>>
  <2> DEFINE wanted == PayloadSize - Len(payload)
             n == Available(wanted)
  <2>1. thread = "payload" /\ stream_fd # 0 /\ payload # NULL
    BY <1>2 DEF ReceivePayload, Inv, InFrame
  <2>2. payload \in Seq(Unit) /\ PayloadSize \in Nat
    BY <2>1, PayloadTyped DEF Inv, BufferOK, InFrame
  <2>3. wanted \in Nat BY <2>2, <1>2 DEF ReceivePayload
  <2>4. n = 0 \/ (n > 0 /\ payload' = payload \o Taken(n)) BY <1>2 DEF ReceivePayload
  <2>5. CASE n = 0 BY <1>2, <2>5 DEF ReceivePayload, stream
  <2>6. CASE n > 0 /\ payload' = payload \o Taken(n)
    <3> HIDE DEF wanted
    <3>1. Taken(n) \in Seq(Unit) /\ Len(Taken(n)) = n /\ n \in 1 .. wanted
      BY <2>1, <2>3, <2>6, Received
    <3> HIDE DEF n
    <3>2. Len(payload') = Len(payload) + n BY <2>2, <2>6, <3>1, ConcatAt
    <3> QED BY <1>2, <2>2, <3>1, <3>2
  <2> QED BY <2>4, <2>5, <2>6
<1> QED BY <1>1, <1>2

LEMMA ReceiveReads ==
  ASSUME Inv, Inv', Reads, ReceiveHeader \/ ReceivePayload, Live'
  PROVE  Reads'
<1>1. thread' # "accept"
  BY DEF ReceiveHeader, ReceivePayload, AfterHeaderEnd, AfterPayloadEnd
<1>2. UNCHANGED accepted BY DEF ReceiveHeader, ReceivePayload
<1>3. CASE UNCHANGED <<stream, conns>> BY <1>1, <1>2, <1>3, SameReads DEF SameStates
<1>4. CASE ReceivePayload
  <2>1. CASE payload' = payload
    <3>1. UNCHANGED <<stream, conns>> BY <1>4, <2>1, TakesNothing
    <3> QED BY <3>1, <1>3
  <2>2. CASE payload' # payload
    <3>1. SameView /\ Len(payload') <= PayloadSize /\ UNCHANGED <<packet, stream_fd>>
      BY <1>4, <2>2, ReceivePayloadView
    <3>2. OpenIsLast' BY <3>1, SameOpen DEF SameView
    <3>3. PayloadSize' = PayloadSize BY <3>1 DEF PayloadSize
    <3> QED BY <1>1, <1>2, <3>1, <3>2, <3>3 DEF Reads, OpenIsLast
  <2> QED BY <2>1, <2>2
<1>5. CASE ReceiveHeader
  <2>1. payload = NULL /\ stream_fd # 0 BY <1>5 DEF ReceiveHeader, Inv, InFrame
  <2>2. payload' # NULL => Len(payload') <= PayloadSize'
    <3>1. (BufferOK /\ Len(packet) = HeaderLen => PayloadSize \in Nat)'
      BY PayloadTyped, PTL
    <3>2. payload' # NULL => payload' = <<>> /\ Len(packet') = HeaderLen
      BY <1>5, <2>1 DEF ReceiveHeader
    <3> QED BY <3>1, <3>2 DEF Inv
  <2>3. CASE UNCHANGED packet /\ ~UNCHANGED <<stream, conns>>
    <3>1. UNCHANGED conns /\ stream_fd' = 0 /\ State(stream_fd) = "fin"
      BY <1>5, <2>3, TakesNothing DEF stream
    <3>2. OpenIsLast'
      <4>1. ASSUME NEW c \in 1 .. Len(conns), State(c) = "open"
            PROVE  c = Len(conns) /\ c \in Unread'
        BY <4>1, <3>1, <1>2 DEF Reads, Unread
      <4> QED BY <4>1, <3>1 DEF OpenIsLast, State
    <3> QED BY <1>1, <2>2, <3>1, <3>2 DEF Reads, OpenIsLast
  <2>4. CASE ~UNCHANGED packet
    <3>1. SameView BY <1>5, <2>4, ReceiveHeaderView
    <3>2. OpenIsLast' BY <3>1, SameOpen DEF SameView
    <3>3. stream_fd' = stream_fd BY <1>5, <2>4 DEF ReceiveHeader
    <3> QED BY <1>1, <1>2, <2>2, <3>2, <3>3 DEF Reads, OpenIsLast
  <2> QED BY <1>3, <2>3, <2>4
<1> QED BY <1>4, <1>5

LEMMA SenderReads ==
  ASSUME Inv, Reads, Network
  PROVE  Reads'
<1>1. UNCHANGED <<stream, accepted, thread>> BY DEF Network
<1>2. /\ conns \in Seq(Conn) /\ Len(conns) \in Nat
      /\ accepted \in 0 .. Len(conns) /\ stream_fd \in Nat
  BY DEF Inv, ConnsOK
<1>3. PayloadSize' = PayloadSize /\ UNCHANGED <<stream_fd, payload>>
  BY <1>1 DEF PayloadSize, stream
<1>4. ASSUME OpenIsLast' PROVE Reads' BY <1>1, <1>3, <1>4 DEF Reads, OpenIsLast
<1>5. CASE Connect
  <2>1. PICK new : new = Len(conns) + 1 OBVIOUS
  <2>2. Len(conns') = new /\ \A c \in 1 .. Len(conns) : conns'[c] = conns[c]
    BY <1>2, <1>5, <2>1 DEF Connect
  <2>3. ASSUME NEW c \in 1 .. Len(conns) PROVE State(c) # "open"
    <3>1. State(c) = "open" => c = Len(conns) BY DEF Reads
    <3>2. ~Sending BY <1>5 DEF Connect
    <3> QED BY <3>1, <3>2, <1>2 DEF Sending, Current, State
  <2>4. new > accepted /\ new \in 1 .. new /\ \A c \in 1 .. new : c \in 1 .. Len(conns) \/ c = new
    BY <1>2, <2>1
  <2>5. OpenIsLast' BY <1>1, <2>2, <2>3, <2>4 DEF OpenIsLast, State, Unread
  <2> QED BY <2>5, <1>4
<1>6. CASE Send
  <2>1. SameStates BY <1>6, SendView DEF SendsTo
  <2> QED BY <2>1, <1>1, SameReads
<1>7. CASE Disconnect
  <2>1. PICK C : C = Current OBVIOUS
  <2>2. C \in 1 .. Len(conns) /\ C = Len(conns)
    BY <1>2, <1>7, <2>1 DEF Disconnect, Sending, Current
  <2>3. PICK state \in {"fin", "reset"} :
          conns' = [conns EXCEPT ![C] =
                      IF state = "reset" THEN Over(state)
                      ELSE [conns[C] EXCEPT !.state = "fin"]]
    BY <1>7, <2>1 DEF Disconnect
  <2>4. conns[C] \in Conn BY <2>2, BytesTyped DEF Inv
  <2>5. Over("reset").state # "open" /\ [conns[C] EXCEPT !.state = "fin"].state = "fin"
    BY <2>4 DEF Over, Conn
  <2>6. /\ Len(conns') = Len(conns) /\ conns'[C].state # "open"
        /\ \A c \in 1 .. Len(conns) : c # C => conns'[c] = conns[c]
    BY <1>2, <2>2, <2>3, <2>5
  <2>7. ASSUME NEW c \in 1 .. Len(conns), conns'[c].state = "open" PROVE FALSE
    <3>1. c # C BY <2>6, <2>7
    <3>2. State(c) = "open" BY <2>6, <2>7, <3>1 DEF State
    <3> QED BY <3>1, <3>2, <2>2 DEF Reads
  <2>8. OpenIsLast' BY <2>6, <2>7 DEF OpenIsLast, State
  <2> QED BY <2>8, <1>4
<1> QED BY <1>5, <1>6, <1>7 DEF Network

LEMMA ReadsStep ==
  ASSUME Inv, Inv', Live => Reads, [Next]_vars, Live'
  PROVE  Reads'
<1> USE DEF Live
<1>1. CASE StartMirror
  <2>1. CASE UNCHANGED <<thread, stream, conns, accepted>>
    BY <2>1, SameReads DEF SameStates
  <2>2. CASE /\ thread' = "check" /\ stream_fd' = 0 /\ payload' = NULL
             /\ conns' = <<>> /\ accepted' = 0
    BY <2>2 DEF Reads
  <2> QED BY <1>1, <2>1, <2>2 DEF StartMirror
<1>2. CASE StopReturns \/ DestroyStopped \/ \E by \in {"stop", "destroy"} : Stop(by)
  <2>1. UNCHANGED <<thread, stream, conns, accepted>>
    BY <1>2 DEF StopReturns, DestroyStopped, Stop, network
  <2> QED BY <2>1, SameReads DEF SameStates
<1>3. CASE CloseSocket
  <2>1. Live BY <1>3 DEF CloseSocket
  <2> QED BY <1>3, <2>1, CloseSocketReads
<1>4. CASE CheckRunning
  <2>1. Live /\ thread' # "accept" /\ UNCHANGED <<stream, conns, accepted>>
    BY <1>4 DEF CheckRunning, Step, network
  <2> QED BY <2>1, SameReads DEF SameStates
<1>5. CASE Select
  <2>1. Live /\ UNCHANGED <<stream, conns, accepted>> BY <1>5 DEF Select, Step, network
  <2>2. thread' = "accept" => stream_fd = 0 BY <1>5 DEF Select, Step
  <2> QED BY <2>1, <2>2, SameReads DEF SameStates
<1>6. CASE Accept
  <2>1. thread' = "check" /\ Live BY <1>6 DEF Accept, Step
  <2>2. SameView BY <1>6, <2>1, AcceptView
  <2>3. OpenIsLast' BY <2>1, <2>2, SameOpen DEF SameView
  <2>4. stream_fd' = accepted' /\ payload' = NULL
    BY <1>6, <2>1 DEF Accept, Step, Inv, InFrame
  <2> QED BY <2>1, <2>3, <2>4 DEF Reads, OpenIsLast
<1>7. CASE ReceiveHeader \/ ReceivePayload
  <2>1. Live BY <1>7 DEF ReceiveHeader, ReceivePayload
  <2> QED BY <1>7, <2>1, ReceiveReads
<1>8. CASE HandleFrame
  <2>1. /\ Live /\ thread' = "check" /\ payload' = NULL
        /\ UNCHANGED <<stream_fd, conns, accepted>>
    BY <1>8 DEF HandleFrame, Step, network
  <2>2. SameStates /\ Unread' = Unread BY <2>1 DEF SameStates, Unread
  <2>3. OpenIsLast' BY <2>1, <2>2, SameOpen
  <2> QED BY <2>1, <2>3 DEF Reads, OpenIsLast
<1>9. CASE Exit BY <1>9 DEF Exit, Step
<1>10. CASE Network
  <2>1. Live BY <1>10 DEF Network
  <2> QED BY <1>10, <2>1, SenderReads
<1>11. CASE UNCHANGED vars
  <2>1. UNCHANGED <<thread, stream, conns, accepted>> BY <1>11 DEF vars, network
  <2> QED BY <2>1, SameReads DEF SameStates
<1> QED
  BY <1>1, <1>2, <1>3, <1>4, <1>5, <1>6, <1>7, <1>8, <1>9, <1>10, <1>11
     DEF Next, Thread, Httpd

-----------------------------------------------------------------------------
(* Every step keeps to it, while the thread is alive.                      *)

LEMMA DeliversStep ==
  ASSUME Inv, Inv', DeliveryInv, [Next]_vars, Live'
  PROVE  Delivers'
<1> DEFINE Still == /\ UNCHANGED <<stream, conns, accepted, cursor, sent, handled>>
                    /\ mirror_data_sock' = "open" => mirror_data_sock = "open"
<1>1. CASE Live /\ Still
  <2>1. SameView BY <1>1, SameStateViews
  <2> QED BY <1>1, <2>1, SameViewDelivers DEF Inv, DeliveryInv
<1>2. CASE StartMirror BY <1>2, StartDelivers DEF DeliveryInv
<1>3. CASE StopReturns \/ DestroyStopped \/ \E by \in {"stop", "destroy"} : Stop(by)
  <2>1. UNCHANGED thread /\ Still BY <1>3 DEF StopReturns, DestroyStopped, Stop, network
  <2> QED BY <2>1, <1>1 DEF Live
<1>4. CASE CloseSocket
  <2>1. Live BY <1>4 DEF CloseSocket, Live
  <2> QED BY <1>4, <2>1, CloseSocketDelivers DEF DeliveryInv
<1>5. CASE CheckRunning \/ Select
  <2>1. Live /\ Still BY <1>5 DEF CheckRunning, Select, Step, network, control, Live
  <2> QED BY <2>1, <1>1
<1>6. CASE Accept
  <2>1. thread' = "check" /\ Live BY <1>6 DEF Accept, Step, Live
  <2>2. SameView BY <1>6, <2>1, AcceptView DEF DeliveryInv
  <2> QED BY <2>1, <2>2, SameViewDelivers DEF Inv, DeliveryInv
<1>7. CASE ReceiveHeader
  <2>1. Live BY <1>7 DEF ReceiveHeader, Live
  <2>2. CASE UNCHANGED <<stream_fd, packet>>
    <3>1. Still BY <1>7, <2>2, TakesNothing DEF ReceiveHeader, stream, control
    <3> QED BY <2>1, <3>1, <1>1
  <2>3. CASE stream_fd' # stream_fd BY <1>7, <2>1, <2>3, HeaderEnds DEF DeliveryInv
  <2>4. CASE ~UNCHANGED packet
    <3>1. SameView BY <1>7, <2>4, ReceiveHeaderView
    <3> QED BY <2>1, <3>1, SameViewDelivers DEF Inv, DeliveryInv
  <2> QED BY <2>2, <2>3, <2>4
<1>8. CASE ReceivePayload
  <2>1. Live BY <1>8 DEF ReceivePayload, Live
  <2>2. CASE UNCHANGED payload
    <3>1. Still BY <1>8, <2>2, TakesNothing DEF ReceivePayload, control
    <3> QED BY <2>1, <3>1, <1>1
  <2>3. CASE ~UNCHANGED payload
    <3>1. SameView BY <1>8, <2>3, ReceivePayloadView
    <3> QED BY <2>1, <3>1, SameViewDelivers DEF Inv, DeliveryInv
  <2> QED BY <2>2, <2>3
<1>9. CASE HandleFrame
  <2>1. Live BY <1>9 DEF HandleFrame, Step, Live
  <2> QED BY <1>9, <2>1, HandleDelivers DEF DeliveryInv
<1>10. CASE Exit BY <1>10 DEF Exit, Step, Live
<1>11. CASE Network
  <2>1. Live BY <1>11 DEF Network, Live
  <2>2. CASE Connect BY <1>11, <2>1, <2>2, ConnectDelivers DEF DeliveryInv
  <2>3. CASE Send
    <3>1. PICK C \in 1 .. Len(conns) : SendsTo(C)
      BY <1>11, <2>1, <2>3, SendView DEF DeliveryInv
    <3> QED BY <2>1, <3>1, SendDelivers DEF DeliveryInv
  <2>4. CASE Disconnect BY <1>11, <2>1, <2>4, DisconnectDelivers DEF DeliveryInv
  <2> QED BY <1>11, <2>2, <2>3, <2>4 DEF Network
<1>12. CASE UNCHANGED vars
  <2>1. UNCHANGED thread /\ Still BY <1>12 DEF vars, network, control
  <2> QED BY <2>1, <1>1 DEF Live
<1> QED
  BY <1>2, <1>3, <1>4, <1>5, <1>6, <1>7, <1>8, <1>9, <1>10, <1>11, <1>12
     DEF Next, Thread, Httpd

LEMMA DeliveryInit == Init => DeliveryInv
BY DEF Init, DeliveryInv, SentInOrder, Live

LEMMA DeliveryStep ==
  ASSUME Inv, Inv', DeliveryInv, [Next]_vars
  PROVE  DeliveryInv'
<1>1. SentInOrder' BY SentInOrderStep DEF DeliveryInv
<1>2. Live' => Reads' BY ReadsStep DEF DeliveryInv
<1>3. Live' => Delivers' BY DeliversStep
<1> QED BY <1>1, <1>2, <1>3 DEF DeliveryInv

-----------------------------------------------------------------------------
(* What the session hands on is what the sender has sent.                  *)

SentContents == [i \in 1 .. Len(sent) |-> Contents(sent[i])]

LEMMA SendsFrame ==
  ASSUME Inv, Send
  PROVE  \/ UNCHANGED sent
         \/ \E n \in Frame : SentContents' = Append(SentContents, Contents(n))
<1>1. CASE sent' = Append(sent, cursor[1])
  <2> DEFINE n == cursor[1]
             m == Len(sent)
  <2>1. n \in Frame /\ sent \in Seq(Frame) /\ m \in Nat BY <1>1 DEF Send, Inv, SenderOK
  <2>2. sent' = Append(sent, n) BY <1>1
  <2> HIDE DEF n
  <2>3. /\ Len(sent') = m + 1 /\ sent'[m + 1] = n
        /\ \A i \in 1 .. m : sent'[i] = sent[i]
    BY <2>1, <2>2
  <2> HIDE DEF m
  <2>4. SentContents' = [i \in 1 .. m + 1 |-> Contents(sent'[i])]
    BY <2>3 DEF SentContents
  <2>5. SentContents \in Seq({Contents(f) : f \in Frame}) /\ Len(SentContents) = m
    <3>1. \A i \in 1 .. m : sent[i] \in Frame BY <2>1 DEF m
    <3>2. SentContents = [i \in 1 .. m |-> Contents(sent[i])] BY DEF SentContents, m
    <3>3. SentContents \in [1 .. m -> {Contents(f) : f \in Frame}] BY <3>1, <3>2
    <3> QED BY <2>1, <3>2, <3>3
  <2> DEFINE longer == Append(SentContents, Contents(n))
  <2>6. /\ longer \in Seq({Contents(f) : f \in Frame}) /\ Len(longer) = m + 1
        /\ longer[m + 1] = Contents(n)
        /\ \A i \in 1 .. m : longer[i] = SentContents[i]
    <3>1. Contents(n) \in {Contents(f) : f \in Frame} BY <2>1
    <3> QED BY <3>1, <2>1, <2>5
  <2> HIDE DEF longer
  <2>7. \A i \in 1 .. m + 1 : Contents(sent'[i]) = longer[i]
    <3> TAKE i \in 1 .. m + 1
    <3>1. CASE i \in 1 .. m BY <3>1, <2>3, <2>6 DEF SentContents, m
    <3>2. CASE i \notin 1 .. m
      <4>1. i = m + 1 BY <3>2, <2>1
      <4> QED BY <4>1, <2>3, <2>6
    <3> QED BY <3>1, <3>2
  <2>8. SentContents' = Append(SentContents, Contents(n))
    <3>1. longer = [i \in 1 .. m + 1 |-> longer[i]] BY <2>6
    <3> QED BY <3>1, <2>4, <2>7 DEF longer
  <2> QED BY <2>1, <2>8
<1> QED BY <1>1 DEF Send

LEMMA HandlesFrame ==
  ASSUME Inv, DeliveryInv, HandleFrame
  PROVE  /\ Len(handled) < Len(SentContents)
         /\ handled' = Append(handled, SentContents[Len(handled) + 1])
<1>1. Live BY DEF HandleFrame, Step, Live
<1>2. PICK n \in Frame :
        /\ n = Read[1][1] /\ Len(handled) < Len(sent) /\ sent[Len(handled) + 1] = n
        /\ packet = Header(n) /\ payload = Payload(n)
        /\ LastUnit(n) \in Units(unread[stream_fd])
  BY <1>1, FrameDue DEF DeliveryInv
<1>3. Len(handled) \in Nat /\ Len(sent) \in Nat
  <2>1. NotYet /\ sent \in Seq(Frame) BY <1>1 DEF DeliveryInv, Delivers, Inv, SenderOK
  <2> QED BY <2>1 DEF NotYet
<1>4. Len(SentContents) = Len(sent) BY <1>3 DEF SentContents
<1>5. SentContents[Len(handled) + 1] = Contents(n) BY <1>2, <1>3 DEF SentContents
<1>6. PayloadType = Frames[n].type
  <2>1. packet[HeaderLen] = <<n, HeaderLen>> BY <1>2, MirrorAssumption DEF Header
  <2> QED BY <2>1 DEF PayloadType
<1>7. [type |-> PayloadType, header |-> packet, payload |-> payload] = Contents(n)
  BY <1>2, <1>6 DEF Contents
<1>8. handled' = Append(handled, Contents(n)) BY <1>7 DEF HandleFrame
<1> QED BY <1>2, <1>4, <1>5, <1>8

LEMMA DeliverySteps ==
  ASSUME Inv, DeliveryInv, [Next]_vars
  PROVE  [Delivery!Next]_(Delivery!vars)
<1>1. Delivery!vars = <<SentContents, handled>> BY DEF Delivery!vars, SentContents
<1>2. CASE UNCHANGED <<sent, handled>>
  BY <1>2 DEF Delivery!vars
<1>3. CASE StartMirror
  <2>1. CASE sent' = <<>> /\ handled' = <<>>
    <3>1. Len(sent') = 0 BY <2>1
    <3>2. [i \in 1 .. Len(sent') |-> Contents(sent'[i])] = <<>> BY <3>1
    <3>3. Delivery!NewSession BY <2>1, <3>2 DEF Delivery!NewSession
    <3> QED BY <3>3 DEF Delivery!Next
  <2> QED BY <1>2, <1>3, <2>1 DEF StartMirror
<1>4. CASE HandleFrame
  <2>1. sent' = sent BY <1>4 DEF HandleFrame, network
  <2>2. Delivery!Handle BY <1>4, <2>1, HandlesFrame DEF Delivery!Handle, SentContents
  <2> QED BY <2>2 DEF Delivery!Next
<1>5. CASE Network
  <2>1. handled' = handled BY <1>5 DEF Network
  <2>2. CASE Connect \/ Disconnect BY <2>1, <2>2, <1>2 DEF Connect, Disconnect
  <2>3. CASE Send
    <3>1. CASE UNCHANGED sent BY <2>1, <3>1, <1>2
    <3>2. ASSUME NEW n \in Frame, SentContents' = Append(SentContents, Contents(n))
          PROVE  Delivery!Next
      <4>1. Delivery!Send(Contents(n)) BY <2>1, <3>2 DEF Delivery!Send, SentContents
      <4> QED BY <4>1 DEF Delivery!Next
    <3> QED BY <2>3, <3>1, <3>2, SendsFrame
  <2> QED BY <1>5, <2>2, <2>3 DEF Network
<1>6. CASE \/ CloseSocket \/ StopReturns \/ DestroyStopped
           \/ \E by \in {"stop", "destroy"} : Stop(by)
  BY <1>2, <1>6 DEF CloseSocket, StopReturns, DestroyStopped, Stop, network
<1>7. CASE CheckRunning \/ Select \/ Accept \/ ReceiveHeader \/ ReceivePayload \/ Exit
  BY <1>2, <1>7 DEF CheckRunning, Select, Accept, ReceiveHeader, ReceivePayload, Exit,
     network
<1>8. CASE UNCHANGED vars BY <1>2, <1>8 DEF vars, network
<1> QED BY <1>3, <1>4, <1>5, <1>6, <1>7, <1>8 DEF Next, Thread, Httpd

LEMMA DeliveryBegins == Init => Delivery!Init
<1> SUFFICES ASSUME Init PROVE Delivery!Init OBVIOUS
<1>1. sent = <<>> /\ handled = <<>> BY DEF Init
<1>2. Len(sent) = 0 BY <1>1
<1>3. [i \in 1 .. Len(sent) |-> Contents(sent[i])] = <<>> BY <1>2
<1> QED BY <1>1, <1>3 DEF Delivery!Init

(* The session delivers what VideoDelivery promises: the frames that were  *)
(* sent completely are handled whole, each once, in order and without a    *)
(* gap, in whatever pieces TCP brings them, wherever a connection ends,    *)
(* and whatever fails.                                                     *)
THEOREM MirrorFramesInOrder == Spec => FramesInOrder
<1>1. Inv /\ [Next]_vars => Inv'
  BY FlagsStep, ControlStep, BufferStep, ConnsStep, WaitingStep, SenderStep
  DEF Inv
<1>2. Inv /\ Inv' /\ DeliveryInv /\ [Next]_vars => DeliveryInv' BY DeliveryStep
<1>3. Inv /\ DeliveryInv /\ [Next]_vars => [Delivery!Next]_(Delivery!vars)
  BY DeliverySteps
<1> QED BY <1>1, <1>2, <1>3, InvInit, DeliveryInit, DeliveryBegins, PTL
        DEF Spec, FramesInOrder, Delivery!Spec

-----------------------------------------------------------------------------
(* The cipher: as long as no payload is shorter than what is left of a     *)
(* block, every byte of every payload is decrypted with the position of    *)
(* the key stream it was encrypted with.                                   *)

CipherInv == CipherTypeOK /\ Synchronised

LEMMA CipherInvInit == CipherInit => CipherInv /\ DecryptsStream
BY DEF CipherInit, CipherInv, CipherTypeOK, Synchronised, DecryptsStream, AES_128_BLOCK_SIZE

(* Whole blocks and a rest.                                                *)
LEMMA Division ==
  ASSUME NEW n \in Nat
  PROVE  /\ BlocksOf(n) \in Nat
         /\ RestOf(n) \in 0 .. AES_128_BLOCK_SIZE - 1
         /\ BlocksOf(n) * AES_128_BLOCK_SIZE + RestOf(n) = n
BY DEF BlocksOf, RestOf, AES_128_BLOCK_SIZE

(* A payload that is not short keeps both sides at the same position, and  *)
(* every byte of it is right.                                              *)
LEMMA DecryptStep ==
  ASSUME CipherInv, NEW inputLen \in Length, Decrypt(inputLen), ~ShortPayloads
  PROVE  CipherInv' /\ DecryptsStream'
<1> DEFINE n == inputLen - nextDecryptCount
           encryptlen == BlocksOf(n) * AES_128_BLOCK_SIZE
           restlen == RestOf(n)
<1>0. /\ og \in Nat /\ consumed \in Nat /\ position \in Nat /\ streams \in Nat
      /\ nextDecryptCount \in 0 .. AES_128_BLOCK_SIZE - 1
      /\ consumed = position + nextDecryptCount
      /\ nextDecryptCount > 0 => og + AES_128_BLOCK_SIZE = consumed
  BY DEF CipherInv, CipherTypeOK, Synchronised
<1>1. inputLen \in Nat /\ n \in Nat
  <2>1. inputLen \in Nat BY CipherAssumption
  <2>2. ~(inputLen < nextDecryptCount) BY DEF Decrypt
  <2> QED BY <1>0, <2>1, <2>2
<1>2. /\ encryptlen \in Nat
      /\ restlen \in 0 .. AES_128_BLOCK_SIZE - 1
      /\ encryptlen + restlen = inputLen - nextDecryptCount
  BY <1>1, Division DEF AES_128_BLOCK_SIZE
<1>3. /\ nextDecryptCount' = KeptOf(restlen)
      /\ og' = IF restlen > 0 THEN consumed + encryptlen ELSE og
      /\ consumed' = consumed + encryptlen + (IF restlen > 0 THEN AES_128_BLOCK_SIZE ELSE 0)
      /\ position' = position + inputLen
      /\ start' = position /\ input' = inputLen /\ streams' = streams
  BY DEF Decrypt
<1>4. output' = [i \in 0 .. inputLen - 1 |->
                   IF restlen > 0 /\ i >= inputLen - restlen
                   THEN consumed + encryptlen + i - (inputLen - restlen)
                   ELSE IF i >= nextDecryptCount THEN Whole(i) ELSE Left(i)]
  BY DEF Decrypt
<1> HIDE DEF n, encryptlen, restlen
<1>5. ASSUME NEW i \in 0 .. inputLen - 1
      PROVE  output'[i] = position + i
  BY <1>0, <1>1, <1>2, <1>4 DEF Whole, Left, AES_128_BLOCK_SIZE
<1>6. DecryptsStream'
  BY <1>3, <1>5 DEF DecryptsStream
<1>7. output' \in [0 .. input' - 1 -> Int]
  <2>1. output' = [i \in 0 .. inputLen - 1 |-> output'[i]]
    BY <1>4
  <2>2. \A i \in 0 .. inputLen - 1 : output'[i] \in Int
    BY <1>1, <1>5 DEF CipherInv, CipherTypeOK
  <2> QED
    BY <1>3, <2>1, <2>2
<1>8. CipherTypeOK'
  BY <1>0, <1>1, <1>2, <1>3, <1>7 DEF CipherTypeOK, KeptOf, AES_128_BLOCK_SIZE
<1>9. Synchronised'
  BY <1>0, <1>1, <1>2, <1>3 DEF Synchronised, KeptOf, AES_128_BLOCK_SIZE
<1> QED
  BY <1>6, <1>8, <1>9 DEF CipherInv

LEMMA CipherInvStep ==
  ASSUME ~ShortPayloads, CipherInv, DecryptsStream, [CipherNext]_cipherVars
  PROVE  CipherInv' /\ DecryptsStream'
<1>1. CASE InitAes
  BY <1>1 DEF InitAes, CipherInv, CipherTypeOK, Synchronised, DecryptsStream, AES_128_BLOCK_SIZE
<1>2. ASSUME NEW inputLen \in Length, Decrypt(inputLen)
      PROVE  CipherInv' /\ DecryptsStream'
  BY <1>2, DecryptStep
<1>3. CASE UNCHANGED cipherVars
  BY <1>3 DEF cipherVars, CipherInv, CipherTypeOK, Synchronised, DecryptsStream
<1> QED
  BY <1>1, <1>2, <1>3 DEF CipherNext

(* If no payload is shorter than what is left of a block, every byte is    *)
(* decrypted with the position of the key stream it was encrypted with.    *)
THEOREM DecryptsWholeStream ==
  ASSUME ~ShortPayloads PROVE CipherSpec => []DecryptsStream
<1>1. CipherInv /\ DecryptsStream /\ [CipherNext]_cipherVars => (CipherInv /\ DecryptsStream)'
  BY CipherInvStep
<1> QED
  BY CipherInvInit, <1>1, PTL DEF CipherSpec

(* And what the receiver's cipher has produced beyond the sender's         *)
(* position is what og keeps.                                              *)
THEOREM StaysSynchronised ==
  ASSUME ~ShortPayloads PROVE CipherSpec => []Synchronised
<1>1. CipherInv /\ DecryptsStream /\ [CipherNext]_cipherVars => (CipherInv /\ DecryptsStream)'
  BY CipherInvStep
<1> QED
  BY CipherInvInit, <1>1, PTL DEF CipherSpec, CipherInv

-----------------------------------------------------------------------------
(* The keys: the sender holds what pair-verify and fp-setup last agreed    *)
(* on, and a session what its SETUP copied.                                *)

BothHold ==
  /\ sender.secret # None => sender.secret = pairing.secret
  /\ sender.keymsg # None => keymsglen = 164 /\ keymsg = sender.keymsg

SessionHolds(n) ==
  LET s == session[n]
  IN /\ s.sent # None => s.sent = SessionKeys(n)
     /\ s.streaming # None => /\ s.streaming.keys = s.sent
                              /\ s.cipher = StreamKey(n, s.streaming.id)

KeysInv == KeysTypeOK /\ BothHold /\ (\A n \in Setups : SessionHolds(n)) /\ AnswersGenuine

LEMMA KeysInvInit == KeysInit => KeysInv
<1> SUFFICES ASSUME KeysInit PROVE KeysInv OBVIOUS
<1> USE PairingAssumption DEF KeysInit
<1>1. KeysTypeOK
  <2>1. NoSession \in Session BY DEF Session, NoSession
  <2>2. session \in [Setups -> Session] BY <2>1
  <2>3. 0 \in 0 .. MaxSetups /\ 0 \in 0 .. MaxKeys /\ 0 \in 0 .. 0
    BY PairingAssumption
  <2>4. pairing \in [status : {"INITIAL", "SETUP", "HANDSHAKE", "FINISHED"},
                    ours : Key \cup {None}, theirs : Key \cup {None},
                    secret : Secret \cup {None}]
    OBVIOUS
  <2>5. /\ sender \in [secret : Secret \cup {None}, keymsg : Key \cup {None}]
        /\ answer \in [to : Key \cup {None}, key : Key \cup {None, Garbage},
                       signature : [of : Secret, by : Secret] \cup {None, Garbage}]
    OBVIOUS
  <2>6. disconnect \in BOOLEAN BY Zenon
  <2>7. /\ keymsg \in Key \cup {None} /\ keymsglen \in {0, 164}
        /\ keymsglen = 164 => keymsg \in Key
        /\ setups \in 0 .. MaxSetups /\ raop_rtp_mirror \in 0 .. setups
        /\ made \in 0 .. MaxKeys
    BY <2>3
  <2> HIDE DEF KeysInit
  <2> QED BY <2>2, <2>4, <2>5, <2>6, <2>7, Zenon DEF KeysTypeOK
<1>2. BothHold /\ AnswersGenuine BY DEF BothHold, AnswersGenuine
<1>3. \A n \in Setups : SessionHolds(n) BY DEF SessionHolds, NoSession
<1> QED BY <1>1, <1>2, <1>3 DEF KeysInv

(* Pairing and FairPlay leave the sessions alone.                          *)
LEMMA SessionsStay ==
  ASSUME KeysInv, UNCHANGED mirrors
  PROVE  \A n \in Setups : SessionHolds(n)'
BY DEF KeysInv, SessionHolds, SessionKeys, StreamKey, mirrors

LEMMA PairSetupKeys == KeysInv /\ PairSetup => KeysInv'
<1> SUFFICES ASSUME KeysInv, PairSetup PROVE KeysInv' OBVIOUS
<1>1. KeysTypeOK' BY DEF KeysInv, KeysTypeOK, PairSetup, fairplay, mirrors
<1>2. BothHold' BY DEF KeysInv, KeysTypeOK, BothHold, PairSetup, fairplay
<1>3. AnswersGenuine'
  BY DEF KeysInv, AnswersGenuine, Genuine, Signed, PairSetup
<1> QED BY <1>1, <1>2, <1>3, SessionsStay DEF KeysInv, PairSetup

LEMMA PairVerifyKeyKeys == KeysInv /\ PairVerifyKey => KeysInv'
<1> SUFFICES ASSUME KeysInv, PairVerifyKey PROVE KeysInv' OBVIOUS
<1>1. PICK k \in 1 .. MaxKeys :
        /\ Fresh(k)
        /\ pairing' = Handshake(k, k)
        /\ answer' = [to |-> k, key |-> PublicKey(pairing'), signature |-> Signature(pairing')]
  BY DEF PairVerifyKey
<1>2. pairing' = [status |-> "HANDSHAKE", ours |-> k, theirs |-> k, secret |-> <<k, k>>]
  BY <1>1 DEF Handshake, PairVerifyKey, CheckHandshakeStatus
<1>3. answer' = [to |-> k, key |-> k, signature |-> [of |-> <<k, k>>, by |-> <<k, k>>]]
  BY <1>1, <1>2 DEF PublicKey, Signature
<1>4. Genuine(answer') BY <1>3 DEF Genuine, Signed
<1>5. sender' = [sender EXCEPT !.secret = <<k, k>>] /\ disconnect' = disconnect
  BY <1>3, <1>4 DEF PairVerifyKey
<1>6. KeysTypeOK'
  <2>1. made' \in 0 .. MaxKeys BY <1>1, PairingAssumption DEF Fresh
  <2>2. k \in Key /\ <<k, k>> \in Secret BY DEF Key, Secret
  <2> QED BY <1>2, <1>3, <1>5, <2>1, <2>2
         DEF KeysInv, KeysTypeOK, PairVerifyKey, fairplay, mirrors
<1>7. BothHold'
  BY <1>2, <1>5 DEF KeysInv, KeysTypeOK, BothHold, PairVerifyKey, fairplay
<1>8. AnswersGenuine' BY <1>4 DEF AnswersGenuine, Genuine
<1> QED BY <1>6, <1>7, <1>8, SessionsStay DEF KeysInv, PairVerifyKey

LEMMA PairVerifySignatureKeys == KeysInv /\ PairVerifySignature => KeysInv'
<1> SUFFICES ASSUME KeysInv, PairVerifySignature PROVE KeysInv' OBVIOUS
<1>0. /\ \/ pairing' = [pairing EXCEPT !.status = "FINISHED"] /\ disconnect' = disconnect
         \/ disconnect' = TRUE /\ pairing' = pairing
      /\ UNCHANGED <<fairplay, mirrors, made, sender, answer>>
  BY DEF PairVerifySignature
<1>1. KeysTypeOK'
  <2>1. disconnect' \in BOOLEAN BY <1>0, Zenon DEF KeysInv, KeysTypeOK
  <2>2. pairing' \in [status : {"INITIAL", "SETUP", "HANDSHAKE", "FINISHED"},
                     ours : Key \cup {None}, theirs : Key \cup {None},
                     secret : Secret \cup {None}]
    BY <1>0 DEF KeysInv, KeysTypeOK
  <2> QED BY <1>0, <2>1, <2>2 DEF KeysInv, KeysTypeOK, fairplay, mirrors
<1>2. BothHold' BY <1>0 DEF KeysInv, KeysTypeOK, BothHold, fairplay
<1>3. AnswersGenuine'
  BY DEF KeysInv, AnswersGenuine, Genuine, Signed, PairVerifySignature
<1> QED BY <1>1, <1>2, <1>3, SessionsStay DEF KeysInv, PairVerifySignature

LEMMA FairplayKeys == KeysInv /\ (FairplaySetup \/ FairplayHandshake) => KeysInv'
<1> SUFFICES ASSUME KeysInv, FairplaySetup \/ FairplayHandshake PROVE KeysInv' OBVIOUS
<1>1. UNCHANGED <<mirrors, pairing, disconnect, answer>>
  BY DEF FairplaySetup, FairplayHandshake
<1>2. AnswersGenuine' BY <1>1 DEF KeysInv, AnswersGenuine, Genuine, Signed
<1>3. CASE FairplaySetup
  <2>1. KeysTypeOK' BY <1>3, <1>1 DEF KeysInv, KeysTypeOK, FairplaySetup, mirrors
  <2>2. BothHold' BY <1>3, <1>1 DEF KeysInv, KeysTypeOK, BothHold, FairplaySetup
  <2> QED BY <1>1, <1>2, <2>1, <2>2, SessionsStay DEF KeysInv
<1>4. CASE FairplayHandshake
  <2>1. PICK k \in 1 .. MaxKeys, supported \in BOOLEAN :
          /\ Fresh(k) /\ Kept(k, supported)
          /\ IF supported THEN sender' = [sender EXCEPT !.keymsg = k] ELSE UNCHANGED sender
    BY <1>4 DEF FairplayHandshake
  <2>2. made' \in 0 .. MaxKeys BY <2>1, PairingAssumption DEF Fresh
  <2>3. KeysTypeOK'
    BY <1>1, <2>1, <2>2 DEF KeysInv, KeysTypeOK, Kept, Key, mirrors, fairplay
  <2>4. BothHold'
    BY <1>1, <2>1 DEF KeysInv, KeysTypeOK, BothHold, Kept, fairplay
  <2> QED BY <1>1, <1>2, <2>3, <2>4, SessionsStay DEF KeysInv
<1> QED BY <1>3, <1>4

(* A SETUP copies what the sender has hidden its key with.                 *)
LEMMA SetupKeysKeys == KeysInv /\ SetupKeys => KeysInv'
<1> SUFFICES ASSUME KeysInv, SetupKeys PROVE KeysInv' OBVIOUS
<1> DEFINE n == setups + 1
           sent2 == IF Ready THEN <<<<sender.keymsg, n>>, sender.secret>> ELSE None
           fresh == [NoSession EXCEPT !.aeskey = Decrypted(n),
                       !.ecdh_secret = pairing.secret, !.sent = sent2]
<1>1. /\ setups' = n /\ raop_rtp_mirror' = n
      /\ session' = [session EXCEPT ![n] = fresh]
      /\ UNCHANGED <<pairing, fairplay, disconnect, made, sender, answer>>
  BY DEF SetupKeys
<1>2. n \in Setups BY PairingAssumption DEF SetupKeys, KeysInv, KeysTypeOK, Setups
<1>3. fresh = [aeskey |-> Decrypted(n), ecdh_secret |-> pairing.secret, cipher |-> None,
               sent |-> sent2, streaming |-> None]
  <2>1. fresh = [NoSession EXCEPT !.aeskey = Decrypted(n),
                   !.ecdh_secret = pairing.secret, !.sent = sent2]
    OBVIOUS
  <2> HIDE DEF fresh, sent2, n
  <2> QED BY <2>1 DEF NoSession
<1>4. Decrypted(n) \in AesKey \cup {Garbage}
  BY <1>2 DEF Decrypted, KeysInv, KeysTypeOK, AesKey
<1>5. sent2 \in (AesKey \X Secret) \cup {None}
  BY <1>2 DEF Ready, KeysInv, KeysTypeOK, AesKey
<1>6. sent2 # None => sent2 = <<Decrypted(n), pairing.secret>>
  BY DEF Ready, Decrypted, KeysInv, BothHold
<1> HIDE DEF n, sent2, fresh
<1>7. fresh \in Session
  <2>1. pairing.secret \in Secret \cup {None} BY DEF KeysInv, KeysTypeOK
  <2> QED BY <1>3, <1>4, <1>5, <2>1 DEF Session
<1>8. KeysTypeOK'
  <2>1. setups' \in 0 .. MaxSetups /\ raop_rtp_mirror' \in 0 .. setups'
    BY <1>1, <1>2, PairingAssumption DEF Setups
  <2>2. session' \in [Setups -> Session]
    BY <1>1, <1>7 DEF KeysInv, KeysTypeOK
  <2> QED BY <1>1, <2>1, <2>2 DEF KeysInv, KeysTypeOK, fairplay
<1>9. BothHold' BY <1>1 DEF KeysInv, BothHold, fairplay
<1>10. ASSUME NEW i \in Setups PROVE SessionHolds(i)'
  <2>1. session'[i] = IF i = n THEN fresh ELSE session[i]
    BY <1>1 DEF KeysInv, KeysTypeOK
  <2>2. CASE i = n
    BY <1>3, <1>6, <2>1, <2>2 DEF SessionHolds, SessionKeys
  <2>3. CASE i # n
    BY <2>1, <2>3 DEF KeysInv, SessionHolds, SessionKeys, StreamKey
  <2> QED BY <2>2, <2>3
<1>11. AnswersGenuine' BY <1>1 DEF KeysInv, AnswersGenuine, Genuine, Signed
<1> QED BY <1>8, <1>9, <1>10, <1>11 DEF KeysInv

LEMMA SetupStreamKeys == KeysInv /\ SetupStream => KeysInv'
<1> SUFFICES ASSUME KeysInv, SetupStream PROVE KeysInv' OBVIOUS
<1> DEFINE n == raop_rtp_mirror
<1>1. UNCHANGED <<pairing, fairplay, raop_rtp_mirror, setups, made, sender, answer>>
  BY DEF SetupStream
<1>2. BothHold' /\ AnswersGenuine'
  BY <1>1 DEF KeysInv, BothHold, AnswersGenuine, Genuine, Signed, fairplay
<1>3. CASE n = 0
  <2>1. disconnect' = TRUE /\ UNCHANGED session BY <1>3 DEF SetupStream
  <2>2. KeysTypeOK' BY <1>1, <2>1 DEF KeysInv, KeysTypeOK, fairplay
  <2>3. \A i \in Setups : SessionHolds(i)'
    BY <2>1 DEF KeysInv, SessionHolds, SessionKeys, StreamKey
  <2> QED BY <1>2, <2>2, <2>3 DEF KeysInv
<1>4. CASE n # 0
  <2>1. PICK id \in StreamId :
          session' = [session EXCEPT ![n].cipher = StreamKey(n, id),
                                     ![n].streaming = [keys |-> session[n].sent, id |-> id]]
    BY <1>4 DEF SetupStream
  <2>2. disconnect' = disconnect BY <1>4 DEF SetupStream
  <2>3. n \in Setups
    BY <1>4, PairingAssumption DEF KeysInv, KeysTypeOK, Setups
  <2> DEFINE s == session[n]
             streaming2 == [keys |-> s.sent, id |-> id]
             new == [s EXCEPT !.cipher = StreamKey(n, id), !.streaming = streaming2]
  <2>4. session \in [Setups -> Session] BY DEF KeysInv, KeysTypeOK
  <2>5. session' = [session EXCEPT ![n] = new]
    BY <2>1, <2>3, <2>4
  <2>6. s \in Session BY <2>3, <2>4
  <2>7. new = [aeskey |-> s.aeskey, ecdh_secret |-> s.ecdh_secret, sent |-> s.sent,
               cipher |-> StreamKey(n, id), streaming |-> streaming2]
    <3>1. new = [s EXCEPT !.cipher = StreamKey(n, id), !.streaming = streaming2]
      OBVIOUS
    <3> HIDE DEF new, streaming2, s
    <3> QED BY <2>6, <3>1 DEF Session
  <2>8. new \in Session BY <2>6, <2>7 DEF Session, StreamKey, SessionKeys
  <2> HIDE DEF new
  <2>9. KeysTypeOK'
    <3>1. session' \in [Setups -> Session] BY <2>4, <2>5, <2>8
    <3> QED BY <1>1, <2>2, <3>1 DEF KeysInv, KeysTypeOK, fairplay
  <2>10. ASSUME NEW i \in Setups PROVE SessionHolds(i)'
    <3>1. session'[i] = IF i = n THEN new ELSE session[i] BY <2>4, <2>5
    <3>2. SessionHolds(i) BY DEF KeysInv
    <3>3. CASE i = n
      BY <2>7, <3>1, <3>2, <3>3 DEF SessionHolds, SessionKeys, StreamKey
    <3>4. CASE i # n
      BY <3>1, <3>2, <3>4 DEF SessionHolds, SessionKeys, StreamKey
    <3> QED BY <3>3, <3>4
  <2> QED BY <1>2, <2>9, <2>10 DEF KeysInv
<1> QED BY <1>3, <1>4

LEMMA TeardownKeys == KeysInv /\ Teardown => KeysInv'
<1> SUFFICES ASSUME KeysInv, Teardown PROVE KeysInv' OBVIOUS
<1>1. /\ session' = [session EXCEPT ![raop_rtp_mirror] = NoSession]
      /\ raop_rtp_mirror' = 0
      /\ UNCHANGED <<pairing, fairplay, setups, disconnect, made, sender, answer>>
  BY DEF Teardown
<1>2. NoSession \in Session BY DEF NoSession, Session
<1>3. KeysTypeOK'
  <2>1. session' \in [Setups -> Session] BY <1>1, <1>2 DEF KeysInv, KeysTypeOK
  <2>2. raop_rtp_mirror' \in 0 .. setups'
    BY <1>1, PairingAssumption DEF KeysInv, KeysTypeOK
  <2> QED BY <1>1, <2>1, <2>2 DEF KeysInv, KeysTypeOK, fairplay
<1>4. BothHold' /\ AnswersGenuine'
  BY <1>1 DEF KeysInv, BothHold, AnswersGenuine, Genuine, Signed, fairplay
<1>5. ASSUME NEW i \in Setups PROVE SessionHolds(i)'
  <2>1. session'[i] = NoSession \/ session'[i] = session[i]
    BY <1>1 DEF KeysInv, KeysTypeOK
  <2> QED BY <2>1 DEF KeysInv, SessionHolds, SessionKeys, StreamKey, NoSession
<1> QED BY <1>3, <1>4, <1>5 DEF KeysInv

LEMMA KeysInvStep == KeysInv /\ [KeysNext]_keysVars => KeysInv'
<1>1. KeysInv /\ UNCHANGED keysVars => KeysInv'
  BY SessionsStay
     DEF KeysInv, KeysTypeOK, BothHold, AnswersGenuine, Genuine, Signed,
         keysVars, fairplay, mirrors
<1> QED BY <1>1, PairSetupKeys, PairVerifyKeyKeys, PairVerifySignatureKeys,
           FairplayKeys, SetupKeysKeys, SetupStreamKeys, TeardownKeys DEF KeysNext

(* The types of the keys, wherever they are kept.                          *)
THEOREM KeysTypeCorrect == KeysSpec => []KeysTypeOK
<1>1. KeysInv => KeysTypeOK BY DEF KeysInv
<1> QED BY KeysInvInit, KeysInvStep, <1>1, PTL DEF KeysSpec

(* The first message of pair-verify is never answered with garbage.        *)
THEOREM VerifyAnswers == KeysSpec => []AnswersGenuine
<1>1. KeysInv => AnswersGenuine BY DEF KeysInv
<1> QED BY KeysInvInit, KeysInvStep, <1>1, PTL DEF KeysSpec

(* The receiver derives a stream's key from what the sender encrypts it    *)
(* with, however often either exchange was repeated or broken off.         *)
THEOREM SameStreamKeys == KeysSpec => []StreamKeysAgree
<1>1. KeysInv => StreamKeysAgree
  <2> SUFFICES ASSUME KeysInv, NEW n \in Setups, session[n].streaming # None,
                      session[n].sent # None
               PROVE  session[n].cipher = session[n].streaming
    BY DEF StreamKeysAgree
  <2> DEFINE s == session[n]
  <2>1. s.streaming.keys = SessionKeys(n) /\ s.cipher = StreamKey(n, s.streaming.id)
    BY DEF KeysInv, SessionHolds
  <2>2. s.streaming \in [keys : (AesKey \X Secret) \cup {None}, id : StreamId]
    BY DEF KeysInv, KeysTypeOK, Session
  <2>3. s.streaming = [keys |-> s.streaming.keys, id |-> s.streaming.id] BY <2>2
  <2> QED BY <2>1, <2>3 DEF StreamKey
<1> QED BY KeysInvInit, KeysInvStep, <1>1, PTL DEF KeysSpec
=============================================================================
