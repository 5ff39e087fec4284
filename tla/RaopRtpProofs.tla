--------------------------- MODULE RaopRtpProofs ----------------------------
(***************************************************************************)
(* Safety of the audio session of RaopRtp, for every ring length, sequence *)
(* number, stream, network and number of commands, starts and failures.    *)
(***************************************************************************)
EXTENDS RaopRtp, RaopBufferLemmas

-----------------------------------------------------------------------------
LEMMA SeqOfType == \A pos \in Nat : SeqOf(pos) \in SeqNum
<1> SUFFICES ASSUME NEW pos \in Nat PROVE (FirstSeq + pos) % M \in SeqNum
  BY DEF SeqOf
<1>1. FirstSeq \in Int BY BufferAssumption, RtpAssumption DEF SeqNum
<1> QED BY <1>1, BufferAssumption DEF SeqNum

LEMMA PositionsAreNat == \A pos \in Payload : pos \in Nat
BY RtpAssumption

LEMMA DeliveredType ==
  ASSUME NEW b \in Buffer, NEW noResend
  PROVE  Delivered(b, noResend) \in Payload \cup {NoData}
<1>1. FirstEntry(b) \in Entry BY SlotOfType DEF FirstEntry, Buffer
<1> QED BY <1>1 DEF Delivered, Entry

LEMMA ResendRangeType ==
  ASSUME NEW b \in Buffer PROVE ResendRange(b) \subseteq SeqNum
<1> SUFFICES ASSUME NEW n \in 0 .. ResendCount(b) - 1
             PROVE  (b.first + n) % M \in SeqNum
  BY DEF ResendRange
<1> QED BY BufferAssumption DEF Buffer, SeqNum

LEMMA ReceivedType ==
  ASSUME NEW b \in Buffer, WindowOf(b), NEW pos \in Payload
  PROVE  LET n == Enqueued(b, KindOf(pos), SeqOf(pos), pos)
         IN n \in Buffer /\ WindowOf(n)
<1>1. KindOf(pos) \in PacketKind BY DEF KindOf, PacketKind
<1>2. SeqOf(pos) \in SeqNum BY SeqOfType, PositionsAreNat
<1> QED BY <1>1, <1>2, EnqueuedOK

LEMMA MailTypes ==
  /\ CommandNo \subseteq Nat /\ 0 \in CommandNo
  /\ NoMail \in Mail
  /\ \A m \in Mail : m.flush \in Int
<1>1. MaxCommands \in Nat BY RtpAssumption
<1>2. {NO_FLUSH, -1} \cup SeqNum \subseteq Int
  BY BufferAssumption DEF NO_FLUSH, SeqNum
<1> QED BY <1>1, <1>2 DEF CommandNo, NoMail, Mail

-----------------------------------------------------------------------------
(* The type invariant and the window are proved together: the window needs *)
(* the buffer's type, and the type of what is played needs the buffer's.   *)

Typed == TypeOK /\ Window

LEMMA InitTyped == Init => Typed
<1> SUFFICES ASSUME Init PROVE Typed OBVIOUS
<1>1. sent = 0 /\ 0 .. sent - 1 = {} BY DEF Init
<1>2. 0 \in CommandNo /\ applied \in [volume : CommandNo, text : [Texts -> CommandNo]]
  BY MailTypes DEF Init
<1> QED BY <1>1, <1>2, EmptyOK, MailTypes DEF Init, Typed, TypeOK, Window

LEMMA HttpdTyped == Typed /\ Httpd => Typed'
<1> SUFFICES ASSUME Typed, Httpd PROVE Typed' OBVIOUS
<1> USE DEF Typed
<1>1. CASE StartAudio
  <2>1. /\ {running', joined'} \subseteq BOOLEAN
        /\ thread' \in {"events", thread} /\ sockets' \in {"open", sockets}
        /\ control_known' = control_known
        /\ high' \in {high, -1}
        /\ starts' = starts + 1 /\ errors' \in {errors, errors + 1}
    BY <1>1 DEF StartAudio, TypeOK, control
  <2>2. UNCHANGED <<buf, mail, taken, call, freed, sent, dsock, csock, requests,
                    applied, last, commands>>
    BY <1>1 DEF StartAudio, netVars
  <2>3. control_rport' \in Nat
    BY <1>1, RtpAssumption DEF StartAudio, TypeOK, control
  <2> QED BY <2>1, <2>2, <2>3 DEF TypeOK, Window
<1>2. ASSUME Command PROVE commands + 1 \in CommandNo
  BY <1>2, RtpAssumption DEF Command, CommandNo, TypeOK
<1>3. ASSUME Command, mail' \in Mail PROVE Typed'
  BY <1>3 DEF Command, TypeOK, Window, control, netVars, history
<1>4. CASE SetVolume
  <2>1. mail' \in Mail BY <1>2, <1>4 DEF SetVolume, TypeOK, Mail
  <2> QED BY <1>3, <1>4, <2>1 DEF SetVolume
<1>5. ASSUME NEW k \in Texts, SetText(k) PROVE Typed'
  <2>1. mail' \in Mail BY <1>2, <1>5 DEF SetText, TypeOK, Mail
  <2> QED BY <1>3, <1>5, <2>1 DEF SetText
<1>6. ASSUME NEW next_seq \in {-1, SeqOf(sent)}, FlushAudio(next_seq) PROVE Typed'
  <2>1. next_seq \in {NO_FLUSH, -1} \cup SeqNum BY SeqOfType DEF TypeOK
  <2>2. mail' \in Mail BY <1>6, <2>1 DEF FlushAudio, TypeOK, Mail
  <2> QED BY <1>3, <1>6, <2>2 DEF FlushAudio
<1>7. ASSUME NEW by \in {"stop", "destroy"}, Stop(by) PROVE Typed'
  BY <1>7 DEF Stop, TypeOK, Window, control, netVars, history
<1>8. CASE StopReturns
  <2>1. buf' \in Buffer /\ WindowOf(buf')
    BY <1>8, FlushedOK DEF StopReturns, TypeOK, Window
  <2> QED BY <1>8, <2>1 DEF StopReturns, TypeOK, Window, control
<1>9. CASE DestroyStopped
  BY <1>9 DEF DestroyStopped, TypeOK, Window, control, netVars, history
<1> QED BY <1>1, <1>4, <1>5, <1>6, <1>7, <1>8, <1>9 DEF Httpd

LEMMA ThreadTyped == Typed /\ Thread => Typed'
<1> SUFFICES ASSUME Typed, Thread PROVE Typed' OBVIOUS
<1> USE DEF Typed
<1>0. buf \in Buffer /\ WindowOf(buf) BY DEF TypeOK, Window
<1>1. CASE TakeMail
  BY <1>1, MailTypes DEF TakeMail, TypeOK, Window, control, netVars, history, httpdVars
<1>2. CASE ApplyMail
  <2>1. buf' \in Buffer /\ WindowOf(buf')
    BY <1>0, <1>2, FlushedOK, MailTypes DEF ApplyMail, TypeOK
  <2>2. applied' \in [volume : CommandNo, text : [Texts -> CommandNo]]
    BY <1>2 DEF ApplyMail, TypeOK, Mail
  <2> QED BY <1>2, <2>1, <2>2, MailTypes
          DEF ApplyMail, TypeOK, Window, control, netVars, httpdVars
<1>3. CASE Select
  BY <1>3 DEF Select, TypeOK, Window, control, netVars, history, httpdVars
<1>4. CASE ReceiveControl
  <2>1. PICK pos \in csock :
          /\ csock' \in Left(csock, pos)
          /\ buf' = IF pos = Sync THEN buf
                    ELSE Enqueued(buf, KindOf(pos), SeqOf(pos), pos)
    BY <1>4 DEF ReceiveControl
  <2>2. buf' \in Buffer /\ WindowOf(buf')
    <3>1. CASE pos = Sync BY <1>0, <2>1, <3>1
    <3>2. CASE pos # Sync
      <4>1. pos \in Payload BY <3>2 DEF TypeOK
      <4> QED BY <1>0, <2>1, <3>2, <4>1, ReceivedType
    <3> QED BY <3>1, <3>2
  <2>3. csock' \subseteq Payload \cup {Sync} BY <2>1 DEF Left, TypeOK
  <2> QED BY <1>4, <2>2, <2>3
          DEF ReceiveControl, TypeOK, Window, control, history, httpdVars
<1>5. CASE ReceiveData
  <2>1. PICK pos \in dsock :
          /\ dsock' \in Left(dsock, pos)
          /\ buf' = Enqueued(buf, KindOf(pos), SeqOf(pos), pos)
    BY <1>5 DEF ReceiveData
  <2>2. pos \in Payload BY DEF TypeOK
  <2>3. buf' \in Buffer /\ WindowOf(buf') BY <1>0, <2>1, <2>2, ReceivedType
  <2>4. dsock' \subseteq Payload BY <2>1 DEF Left, TypeOK
  <2> QED BY <1>5, <2>3, <2>4
          DEF ReceiveData, TypeOK, Window, control, history, httpdVars
<1>6. CASE Render
  <2>1. buf' \in Buffer /\ WindowOf(buf')
    BY <1>0, <1>6, DequeuedOK DEF Render
  <2>2. Delivered(buf, no_resend) \in Payload \cup {NoData}
    BY <1>0, DeliveredType
  <2>3. {last', high'} \subseteq Payload \cup {-1}
    BY <1>6, <2>2 DEF Render, TypeOK
  <2>4. thread' \in {"events", "resend", "render"} BY <1>6 DEF Render
  <2> QED BY <1>6, <2>1, <2>3, <2>4
          DEF Render, TypeOK, Window, control, netVars, httpdVars
<1>7. CASE HandleResends
  <2>1. requests' \subseteq SeqNum
    BY <1>0, <1>7, ResendRangeType DEF HandleResends, TypeOK
  <2> QED BY <1>7, <2>1 DEF HandleResends, TypeOK, Window, control, history, httpdVars
<1>8. CASE Exit
  BY <1>8 DEF Exit, TypeOK, Window, control, netVars, history, httpdVars
<1> QED BY <1>1, <1>2, <1>3, <1>4, <1>5, <1>6, <1>7, <1>8 DEF Thread

LEMMA NetworkTyped == Typed /\ Network => Typed'
<1> SUFFICES ASSUME Typed, Network PROVE Typed' OBVIOUS
<1> USE DEF Typed
<1>1. /\ sent' \in Nat /\ 0 .. sent' - 1 \subseteq Payload
      /\ dsock' \subseteq Payload /\ csock' \subseteq Payload \cup {Sync}
      /\ requests' \subseteq SeqNum
  <2>1. CASE Send BY <2>1, RtpAssumption DEF Send, TypeOK
  <2>2. CASE SendSync BY <2>2 DEF SendSync, TypeOK
  <2>3. CASE Lose BY <2>3 DEF Lose, TypeOK
  <2>4. CASE \E s \in requests : Resend(s)
    <3>1. PICK s \in requests : Resend(s) BY <2>4
    <3>2. {pos \in 0 .. sent - 1 : SeqOf(pos) = s /\ sent - pos < MaxDelay}
            \subseteq Payload
      BY DEF TypeOK
    <3> QED BY <3>1, <3>2 DEF Resend, TypeOK
  <2> QED BY <2>1, <2>2, <2>3, <2>4 DEF Network
<1> QED BY <1>1 DEF Network, TypeOK, Window, control, history, httpdVars

LEMMA NextTyped == Typed /\ [Next]_vars => Typed'
<1>1. Typed /\ UNCHANGED vars => Typed'
  BY DEF Typed, TypeOK, Window, control, vars, netVars, history
<1> QED BY <1>1, HttpdTyped, ThreadTyped, NetworkTyped DEF Next

(* Types of the session's state.                                           *)
THEOREM RtpTypeCorrect == Spec => []TypeOK
<1>1. Typed => TypeOK BY DEF Typed
<1> QED BY InitTyped, NextTyped, <1>1, PTL DEF Spec

(* Neither the callbacks' flushes nor the network's order makes the buffer *)
(* of the audio thread overflow or mix packets up.                         *)
THEOREM RtpWindow == Spec => []Window
<1>1. Typed => Window BY DEF Typed
<1> QED BY InitTyped, NextTyped, <1>1, PTL DEF Spec

-----------------------------------------------------------------------------
(* The life of the thread.                                                 *)

LEMMA InitSockets == Init => ThreadHasSockets
BY DEF Init, ThreadHasSockets, ThreadAlive

LEMMA NextSockets == ThreadHasSockets /\ [Next]_vars => ThreadHasSockets'
<1> SUFFICES ASSUME ThreadHasSockets, [Next]_vars PROVE ThreadHasSockets'
  OBVIOUS
<1> USE DEF ThreadHasSockets, ThreadAlive
<1>1. CASE Httpd
  <2>1. CASE StartAudio BY <2>1 DEF StartAudio
  <2>2. CASE StopReturns BY <2>2 DEF StopReturns
  <2>3. ASSUME UNCHANGED <<joined, thread, sockets>> PROVE ThreadHasSockets'
    BY <2>3
  <2> QED BY <1>1, <2>1, <2>2, <2>3
          DEF Httpd, SetVolume, SetText, FlushAudio, Command, Stop, DestroyStopped
<1>2. CASE Thread
  <2>1. UNCHANGED <<joined, sockets>> /\ ThreadAlive
    BY <1>2 DEF Thread, TakeMail, ApplyMail, Select, ReceiveControl, ReceiveData,
                Render, HandleResends, Exit
  <2> QED BY <2>1
<1>3. CASE Network BY <1>3 DEF Network
<1>4. CASE UNCHANGED vars BY <1>4 DEF vars
<1> QED BY <1>1, <1>2, <1>3, <1>4 DEF Next

(* The audio thread never uses a socket that raop_rtp_stop has closed, nor *)
(* runs on after it was joined, even when select fails.                    *)
THEOREM RtpSockets == Spec => []ThreadHasSockets
<1> QED BY InitSockets, NextSockets, PTL DEF Spec

(* While no select fails, only raop_rtp_stop ends the thread: then the     *)
(* httpd thread waits for it, and cannot free the session.                 *)
OnlyStopEnds ==
  /\ ThreadAlive /\ running = FALSE => call # "idle"
  /\ thread \in {"exit", "tail"} => running = FALSE
  /\ ThreadAlive \/ call # "idle" => freed = FALSE

LEMMA InitOnlyStop == Init => OnlyStopEnds
BY DEF Init, OnlyStopEnds, ThreadAlive

LEMMA NextOnlyStop ==
  ASSUME MaxErrors = 0, Typed, ThreadHasSockets, OnlyStopEnds, [Next]_vars
  PROVE  OnlyStopEnds'
<1>1. running \in BOOLEAN /\ freed \in BOOLEAN /\ ~(errors < MaxErrors)
  BY DEF Typed, TypeOK
<1>2. ThreadAlive => joined = FALSE BY DEF ThreadHasSockets, Typed, TypeOK
<1> USE DEF OnlyStopEnds, ThreadAlive
<1>3. CASE StartAudio BY <1>1, <1>2, <1>3 DEF StartAudio, HttpdReady
<1>4. CASE Command BY <1>4 DEF Command
<1>5. ASSUME NEW by \in {"stop", "destroy"}, Stop(by) PROVE OnlyStopEnds'
  BY <1>1, <1>5 DEF Stop, HttpdReady
<1>6. CASE StopReturns BY <1>6 DEF StopReturns
<1>7. CASE DestroyStopped
  BY <1>1, <1>2, <1>7 DEF DestroyStopped, HttpdReady
<1>8. CASE TakeMail BY <1>1, <1>8 DEF TakeMail, httpdVars
<1>9. CASE Exit BY <1>9 DEF Exit, httpdVars
<1>10. CASE \/ ApplyMail \/ Select \/ ReceiveControl \/ ReceiveData \/ Render
            \/ HandleResends
  <2>1. UNCHANGED <<running, call, freed>> /\ ThreadAlive
    BY <1>10 DEF ApplyMail, Select, ReceiveControl, ReceiveData, Render,
                 HandleResends, httpdVars
  <2>2. thread' \notin {"exit", "tail"}
    BY <1>1, <1>10 DEF ApplyMail, Select, ReceiveControl, ReceiveData, Render,
                       HandleResends
  <2> QED BY <2>1, <2>2
<1>11. CASE Network \/ UNCHANGED vars
  BY <1>11 DEF Network, vars, httpdVars
<1> QED
  BY <1>3, <1>4, <1>5, <1>6, <1>7, <1>8, <1>9, <1>10, <1>11
  DEF Next, Httpd, Thread, SetVolume, SetText, FlushAudio

(* raop_rtp_destroy frees the session only after its thread has ended, as  *)
(* long as the thread was ended by raop_rtp_stop and not by an error.      *)
THEOREM RtpNoUseAfterFree ==
  ASSUME MaxErrors = 0 PROVE Spec => []NoUseAfterFree
<1> DEFINE Inv == Typed /\ ThreadHasSockets /\ OnlyStopEnds
<1>1. Init => Inv BY InitTyped, InitSockets, InitOnlyStop
<1>2. Inv /\ [Next]_vars => Inv'
  BY NextTyped, NextSockets, NextOnlyStop
<1>3. Inv => NoUseAfterFree BY DEF OnlyStopEnds, NoUseAfterFree
<1> HIDE DEF Inv
<1> QED BY <1>1, <1>2, <1>3, PTL DEF Spec

-----------------------------------------------------------------------------
(* The session keeps to the life cycle that a connection relies on.        *)

LEMMA InitLife == Init => Life!Init
BY DEF Init, Life!Init, LifeThread

LEMMA HttpdLife ==
  ASSUME Httpd
  PROVE  Life!Next \/ UNCHANGED <<running, joined, LifeThread, call, freed>>
<1>1. CASE StartAudio
  <2>1. CASE UNCHANGED <<running, joined, thread>>
    BY <1>1, <2>1 DEF StartAudio, LifeThread
  <2>2. CASE ~UNCHANGED <<running, joined, thread>>
    <3>1. Life!Start
      BY <1>1, <2>2 DEF StartAudio, HttpdReady, LifeThread, Life!Start, Life!Ready
    <3> QED BY <3>1 DEF Life!Next
  <2> QED BY <2>1, <2>2
<1>2. CASE Command BY <1>2 DEF Command, LifeThread
<1>3. ASSUME NEW by \in {"stop", "destroy"}, Stop(by) PROVE Life!Stop
  BY <1>3 DEF Stop, HttpdReady, LifeThread, Life!Stop, Life!Ready
<1>4. CASE StopReturns
  <2>1. Life!StopReturns BY <1>4 DEF StopReturns, LifeThread, Life!StopReturns
  <2> QED BY <2>1 DEF Life!Next
<1>5. CASE DestroyStopped
  <2>1. Life!DestroyStopped
    BY <1>5 DEF DestroyStopped, HttpdReady, LifeThread, Life!DestroyStopped,
                Life!Ready
  <2> QED BY <2>1 DEF Life!Next
<1> QED BY <1>1, <1>2, <1>3, <1>4, <1>5
        DEF Httpd, SetVolume, SetText, FlushAudio, Life!Next

LEMMA ThreadLife ==
  ASSUME Thread
  PROVE  Life!Next \/ UNCHANGED <<running, joined, LifeThread, call, freed>>
<1>1. CASE Exit
  <2>1. Life!ThreadEnds BY <1>1 DEF Exit, httpdVars, LifeThread, Life!ThreadEnds
  <2> QED BY <2>1 DEF Life!Next
<1>2. CASE \/ TakeMail \/ ApplyMail \/ Select \/ ReceiveControl \/ ReceiveData
           \/ Render \/ HandleResends
  <2>1. UNCHANGED <<running, joined, call, freed>>
    BY <1>2 DEF TakeMail, ApplyMail, Select, ReceiveControl, ReceiveData, Render,
                HandleResends, httpdVars
  <2>2. {thread, thread'} \cap {"none", "tail", "done"} = {}
    BY <1>2 DEF TakeMail, ApplyMail, Select, ReceiveControl, ReceiveData, Render,
                HandleResends
  <2> QED BY <2>1, <2>2 DEF LifeThread
<1> QED BY <1>1, <1>2 DEF Thread

(* Whatever the audio thread and the network do, start, stop, destroy and  *)
(* the thread's own end happen in the order of SessionLife.                *)
THEOREM RtpIsSession == Spec => IsSession
<1>1. [Next]_vars => [Life!Next]_(Life!vars)
  <2>1. CASE Network \/ UNCHANGED vars
    BY <2>1 DEF Network, vars, httpdVars, LifeThread, Life!vars
  <2> QED BY <2>1, HttpdLife, ThreadLife DEF Next, Life!vars
<1> QED BY <1>1, InitLife, PTL DEF Spec, IsSession, Life!Spec

-----------------------------------------------------------------------------
(* Numbers and positions.  Numbers go round after M packets; the distance  *)
(* of two numbers is that of their positions as long as this is below M.   *)

LEMMA ModShift ==
  ASSUME NEW x \in Int, NEW k \in Int
  PROVE  (x + M * k) % M = x % M
<1> M \in Nat \ {0} BY BufferAssumption
<1> DEFINE q == x \div M
           r == x % M
<1>1. x = M * q + r /\ q \in Int /\ r \in 0 .. M - 1 OBVIOUS
<1>2. \A j \in Int, m \in 0 .. M - 1 : (M * j + m) % M = m OBVIOUS
<1> HIDE DEF q, r
<1>3. x + M * k = M * (q + k) + r /\ q + k \in Int BY <1>1
<1>4. (x + M * k) % M = r BY <1>1, <1>2, <1>3
<1> QED BY <1>4 DEF r

LEMMA ModOf ==
  ASSUME NEW x \in Int
  PROVE  \E k \in Int : x % M = x + M * k
<1> M \in Nat \ {0} BY BufferAssumption
<1> DEFINE q == x \div M
           r == x % M
<1>1. x = M * q + r /\ q \in Int /\ r \in 0 .. M - 1 OBVIOUS
<1> HIDE DEF q, r
<1>2. r = x + M * (-q) /\ -q \in Int BY <1>1
<1> QED BY <1>2 DEF r

LEMMA SeqOfInt ==
  ASSUME NEW p \in Int
  PROVE  SeqOf(p) \in SeqNum /\ SeqOf(p) \in Int /\ FirstSeq + p \in Int
<1>1. FirstSeq \in Int BY BufferAssumption, RtpAssumption DEF SeqNum
<1> QED BY <1>1, BufferAssumption DEF SeqNum, SeqOf

LEMMA SeqRounds ==
  ASSUME NEW p \in Int
  PROVE  \E k \in Int : SeqOf(p) = (FirstSeq + p) + M * k
<1>1. FirstSeq + p \in Int BY SeqOfInt
<1>2. \A x \in Int : \E k \in Int : x % M = x + M * k BY ModOf
<1>3. \E k \in Int : (FirstSeq + p) % M = (FirstSeq + p) + M * k BY <1>1, <1>2, Zenon
<1> QED BY <1>3 DEF SeqOf

LEMMA SeqDistance ==
  ASSUME NEW p \in Int, NEW f \in Int, NEW d \in Int
  PROVE  (SeqOf(p) - SeqOf(f) - d) % M = (p - f - d) % M
<1> M \in Nat \ {0} BY BufferAssumption
<1>1. FirstSeq \in Int BY BufferAssumption, RtpAssumption DEF SeqNum
<1>2. PICK k \in Int : SeqOf(p) = (FirstSeq + p) + M * k
  BY SeqRounds
<1>3. PICK j \in Int : SeqOf(f) = (FirstSeq + f) + M * j
  BY SeqRounds
<1>4. SeqOf(p) - SeqOf(f) - d = (p - f - d) + M * (k - j) BY <1>1, <1>2, <1>3
<1>5. p - f - d \in Int /\ k - j \in Int OBVIOUS
<1> QED BY <1>4, <1>5, ModShift

LEMMA SeqOfNext ==
  ASSUME NEW p \in Int
  PROVE  SeqOf(p + 1) = (SeqOf(p) + 1) % M /\ SeqOf(p - 1) = (SeqOf(p) - 1) % M
<1> M \in Nat \ {0} BY BufferAssumption
<1>1. FirstSeq \in Int BY BufferAssumption, RtpAssumption DEF SeqNum
<1>2. PICK k \in Int : SeqOf(p) = (FirstSeq + p) + M * k
  BY SeqRounds
<1>3. /\ SeqOf(p) + 1 = (FirstSeq + (p + 1)) + M * k
      /\ SeqOf(p) - 1 = (FirstSeq + (p - 1)) + M * k
      /\ FirstSeq + (p + 1) \in Int /\ FirstSeq + (p - 1) \in Int
  BY <1>1, <1>2
<1>4. (SeqOf(p) + 1) % M = (FirstSeq + (p + 1)) % M BY <1>3, ModShift
<1>5. (SeqOf(p) - 1) % M = (FirstSeq + (p - 1)) % M BY <1>3, ModShift
<1> QED BY <1>4, <1>5 DEF SeqOf

(* What the comparisons of raop_buffer_enqueue say of a packet's position. *)
LEMMA Compared ==
  ASSUME NEW p \in Int, NEW f \in Int, p - f >= -(M \div 2), p - f < M
  PROVE  /\ (SeqOf(p) - SeqOf(f)) % M = IF p >= f THEN p - f ELSE p - f + M
         /\ SeqCmp(SeqOf(p), SeqOf(f)) < 0 <=> p < f \/ p - f >= M \div 2
         /\ p >= f /\ p - f < M \div 2
              => (SeqCmp(SeqOf(p), SeqOf(f) + L) >= 0 <=> p - f >= L)
<1> USE BufferAssumption, HalfOfM
<1>1. SeqOf(p) \in Int /\ SeqOf(f) \in Int BY SeqOfInt
<1>2. (SeqOf(p) - SeqOf(f)) % M = (p - f) % M
  <2>1. SeqOf(p) - SeqOf(f) - 0 = SeqOf(p) - SeqOf(f) /\ p - f - 0 = p - f BY <1>1
  <2> QED BY <2>1, SeqDistance
<1>3. (SeqOf(p) - (SeqOf(f) + L)) % M = (p - f - L) % M
  <2>1. SeqOf(p) - SeqOf(f) - L = SeqOf(p) - (SeqOf(f) + L) /\ L \in Int BY <1>1
  <2> QED BY <2>1, SeqDistance
<1>4. (p - f) % M = IF p >= f THEN p - f ELSE p - f + M
  <2>1. p - f \in Int OBVIOUS
  <2>2. p >= f => (p - f) % M = p - f BY <2>1, ModNear
  <2>3. p < f => (p - f) % M = p - f + M BY <2>1, ModNear
  <2> QED BY <2>2, <2>3
<1>5. SeqCmp(SeqOf(p), SeqOf(f)) < 0 <=> p < f \/ p - f >= M \div 2
  BY <1>2, <1>4 DEF SeqCmp
<1>6. ASSUME p >= f, p - f < M \div 2
      PROVE  SeqCmp(SeqOf(p), SeqOf(f) + L) >= 0 <=> p - f >= L
  <2>1. p - f - L \in Int OBVIOUS
  <2>2. p - f >= L => (p - f - L) % M = p - f - L BY <1>6, <2>1, ModNear
  <2>3. p - f < L => (p - f - L) % M = p - f - L + M BY <1>6, <2>1, ModNear
  <2> QED BY <1>3, <1>6, <2>2, <2>3 DEF SeqCmp
<1> QED BY <1>2, <1>4, <1>5, <1>6

-----------------------------------------------------------------------------
(* Where in the stream the buffer is: the position of its first number,    *)
(* from which its entries hold the packets that their numbers say.         *)

Span(b) == (b.last + 1 - b.first) % M

Placed(b, f, played, upto) ==
  /\ f \in Nat /\ b.first = SeqOf(f) /\ played < f /\ f + Span(b) <= upto
  /\ \A i \in Slot : b.entries[i].filled =>
       b.entries[i].data = f + Ahead(b, b.entries[i].seqnum)

(* The buffer has taken no packet since it was flushed to a number: there  *)
(* are as many places for it as rounds.                                    *)
Untouched(b, played, upto) ==
  /\ \A i \in Slot : ~b.entries[i].filled
  /\ Span(b) = 0 /\ played = -1
  /\ \E p \in Nat : p <= upto /\ b.first = SeqOf(p)

InPlace(b, played, upto, far) ==
  IF b.is_empty
  THEN played = -1
  ELSE \/ Untouched(b, played, upto)
       \/ \E f \in Nat : Placed(b, f, played, upto) /\ upto - f <= far

LEMMA FlushedUntouched ==
  ASSUME NEW b \in Buffer, NEW s \in SeqNum
  PROVE  /\ Flushed(b, s).first = s /\ Flushed(b, s).is_empty = b.is_empty
         /\ \A i \in Slot : ~Flushed(b, s).entries[i].filled
         /\ Span(Flushed(b, s)) = 0
<1> DEFINE n == Flushed(b, s)
<1>1. n.first = s /\ n.last = (s - 1) % M /\ n.is_empty = b.is_empty
  BY DEF Flushed, Buffer
<1>2. \A i \in Slot : ~n.entries[i].filled BY DEF Flushed, Buffer, Entry
<1>3. (((s - 1) % M) + 1 - s) % M = 0 BY BufferAssumption, ModNear DEF SeqNum
<1> HIDE DEF n
<1>4. Span(n) = 0 BY <1>1, <1>3 DEF Span
<1> QED BY <1>1, <1>2, <1>4 DEF n

LEMMA FlushedPlaced ==
  ASSUME NEW b \in Buffer, NEW f \in Nat, NEW upto \in Nat, f <= upto,
         NEW played \in Int, played < f
  PROVE  /\ Placed(Flushed(b, SeqOf(f)), f, played, upto)
         /\ Flushed(b, SeqOf(f)).is_empty = b.is_empty
         /\ Flushed(b, SeqOf(f)) \in Buffer /\ WindowOf(Flushed(b, SeqOf(f)))
<1> DEFINE s == SeqOf(f)
           n == Flushed(b, s)
<1>1. s \in SeqNum /\ s \in Int BY SeqOfInt
<1>2. /\ n.first = s /\ n.is_empty = b.is_empty /\ Span(n) = 0
      /\ \A i \in Slot : ~n.entries[i].filled
  BY <1>1, FlushedUntouched
<1>3. n \in Buffer /\ WindowOf(n) BY <1>1, FlushedOK
<1> HIDE DEF n
<1>4. f + Span(n) <= upto BY <1>2
<1>5. Placed(n, f, played, upto) BY <1>2, <1>4 DEF Placed
<1> QED BY <1>2, <1>3, <1>5 DEF n

(* An untouched buffer stands at the latest position that has its number.  *)
LEMMA UntouchedPlaced ==
  ASSUME NEW b \in Buffer, NEW upto \in Nat, NEW played, Untouched(b, played, upto)
  PROVE  \E f \in Nat : Placed(b, f, played, upto) /\ upto - f <= M
<1> M \in Nat \ {0} BY BufferAssumption
<1>1. PICK p \in Nat : p <= upto /\ b.first = SeqOf(p) BY DEF Untouched
<1> DEFINE d == upto - p
           r == d % M
           f == upto - r
<1>2. d \in Nat /\ d \in Int BY <1>1
<1>3. r \in 0 .. M - 1 /\ r <= d BY <1>2
<1>4. PICK k \in Int : r = d + M * k BY <1>2, ModOf
<1> HIDE DEF r
<1>5. f \in Nat /\ upto - f <= M /\ f <= upto BY <1>1, <1>3
<1>6. SeqOf(f) = SeqOf(p)
  <2>1. FirstSeq \in Int BY RtpAssumption DEF SeqNum
  <2>2. FirstSeq + f = (FirstSeq + p) + M * (-k) BY <1>4, <2>1
  <2>3. FirstSeq + p \in Int /\ -k \in Int BY <2>1
  <2> QED BY <2>2, <2>3, ModShift DEF SeqOf
<1>7. Placed(b, f, played, upto)
  <2>1. f + Span(b) <= upto /\ played < f BY <1>5 DEF Untouched
  <2> HIDE DEF f
  <2> QED BY <1>1, <1>5, <1>6, <2>1 DEF Placed, Untouched
<1> QED BY <1>5, <1>7

LEMMA PlaceOf ==
  ASSUME NEW b \in Buffer, NEW upto \in Nat, NEW played, NEW far \in Int,
         ~b.is_empty, InPlace(b, played, upto, far), far <= M \/ upto <= M
  PROVE  \E f \in Nat : Placed(b, f, played, upto) /\ upto - f <= M
<1>1. CASE Untouched(b, played, upto) BY <1>1, UntouchedPlaced
<1>2. CASE ~Untouched(b, played, upto)
  <2>1. PICK f \in Nat : Placed(b, f, played, upto) /\ upto - f <= far
    BY <1>2 DEF InPlace
  <2>2. upto - f <= M BY <2>1, BufferAssumption
  <2> QED BY <2>1, <2>2
<1> QED BY <1>1, <1>2

LEMMA StorePlaced ==
  ASSUME NEW b \in Buffer, WindowOf(b), ~b.is_empty, NEW f \in Nat, NEW upto \in Nat,
         NEW played, Placed(b, f, played, upto),
         NEW pos \in Payload, f <= pos, pos - f < L, pos < upto
  PROVE  Placed(Store(b, SeqOf(pos), pos), f, played, upto)
<1> USE BufferAssumption, HalfOfM
<1>0. pos \in Nat BY PositionsAreNat
<1> DEFINE s == SeqOf(pos)
           n == Store(b, s, pos)
           k == pos - f
           new == [filled |-> TRUE, seqnum |-> s, data |-> pos, freed |-> FALSE]
           c == Span(b)
<1>1. s \in SeqNum /\ s \in Int /\ SlotOf(s) \in Slot BY <1>0, SeqOfInt, SlotOfType
<1>2. b.first = SeqOf(f) /\ b.first \in SeqNum /\ b.first \in Int BY SeqOfInt DEF Placed
<1>3. Ahead(b, s) = k /\ k \in 0 .. L - 1
  <2>1. pos - f >= -(M \div 2) /\ pos - f < M BY <1>0
  <2>2. (s - SeqOf(f)) % M = pos - f BY <1>0, <2>1, Compared
  <2> QED BY <1>0, <1>2, <2>2 DEF Ahead
<1>4. c \in 0 .. L BY DEF WindowOf, SpanFits, Buffer, SeqNum, Span
<1>5. SeqCmp(s, b.last) > 0 <=> k >= c
  <2>1. Ahead(b, s) < L BY <1>3
  <2>2. SeqCmp(s, b.last) > 0 <=> Ahead(b, s) >= (b.last + 1 - b.first) % M
    BY <1>1, <2>1, LastMoves DEF WindowOf
  <2> QED BY <2>2, <1>3 DEF Span
<1>6. /\ n.first = b.first /\ n.last = IF k >= c THEN s ELSE b.last
      /\ n.entries = [b.entries EXCEPT ![SlotOf(s)] = new]
  BY <1>5 DEF Store
<1>7. /\ n.entries[SlotOf(s)] = new
      /\ \A i \in Slot : i # SlotOf(s) => n.entries[i] = b.entries[i]
  BY <1>1, <1>6 DEF Buffer
<1>8. (s + 1 - b.first) % M = k + 1
  <2>1. s - b.first \in Int /\ s + 1 - b.first = (s - b.first) + 1 BY <1>1, <1>2
  <2>2. (s - b.first) % M = k BY <1>3 DEF Ahead
  <2>3. k # M - 1 BY <1>3
  <2> HIDE DEF k
  <2>4. (s - b.first + 1) % M = k + 1 BY <2>1, <2>2, <2>3, ModSucc
  <2> QED BY <2>1, <2>4
<1>9. Span(n) = IF k >= c THEN k + 1 ELSE c BY <1>6, <1>8 DEF Span
<1>10. f + c <= upto BY DEF Placed
<1>11. \A t : Ahead(n, t) = Ahead(b, t) BY <1>6 DEF Ahead
<1> HIDE DEF n, s, c
<1>12. f + Span(n) <= upto BY <1>0, <1>4, <1>9, <1>10
<1> HIDE DEF k
<1>13. ASSUME NEW i \in Slot, n.entries[i].filled
       PROVE  n.entries[i].data = f + Ahead(n, n.entries[i].seqnum)
  <2>1. CASE i = SlotOf(s)
    <3>1. n.entries[i].data = pos /\ n.entries[i].seqnum = s BY <2>1, <1>7
    <3>2. Ahead(n, s) = k BY <1>3, <1>11
    <3>3. pos = f + k BY <1>0 DEF k
    <3> QED BY <3>1, <3>2, <3>3
  <2>2. CASE i # SlotOf(s) BY <2>2, <1>7, <1>11, <1>13 DEF Placed
  <2> QED BY <2>1, <2>2
<1>14. Placed(n, f, played, upto) BY <1>2, <1>6, <1>12, <1>13 DEF Placed
<1> QED BY <1>14 DEF n, s

LEMMA StoreBegins ==
  ASSUME NEW b \in Buffer, WindowOf(b), b.is_empty, NEW upto \in Nat, NEW played \in Int,
         NEW pos \in Payload, played < pos, pos < upto
  PROVE  Placed(Store(b, SeqOf(pos), pos), pos, played, upto)
<1> USE BufferAssumption
<1>0. pos \in Nat BY PositionsAreNat
<1> DEFINE s == SeqOf(pos)
           n == Store(b, s, pos)
           new == [filled |-> TRUE, seqnum |-> s, data |-> pos, freed |-> FALSE]
<1>1. s \in SeqNum /\ s \in Int /\ SlotOf(s) \in Slot BY <1>0, SeqOfInt, SlotOfType
<1>2. /\ n.first = s /\ n.last = s
      /\ n.entries = [b.entries EXCEPT ![SlotOf(s)] = new]
  BY DEF Store
<1>3. /\ n.entries[SlotOf(s)] = new
      /\ \A i \in Slot : i # SlotOf(s) => n.entries[i] = b.entries[i]
  BY <1>1, <1>2 DEF Buffer
<1>4. \A i \in Slot : ~b.entries[i].filled BY DEF WindowOf, EntryFits
<1>5. (s + 1 - s) % M = 1 /\ (s - s) % M = 0 BY <1>1, ModNear
<1>6. Span(n) = 1 /\ Ahead(n, s) = 0 BY <1>2, <1>5 DEF Span, Ahead
<1> HIDE DEF n, s
<1>7. \A i \in Slot : n.entries[i].filled =>
         n.entries[i].data = pos + Ahead(n, n.entries[i].seqnum)
  <2> SUFFICES ASSUME NEW i \in Slot, n.entries[i].filled
               PROVE  n.entries[i].data = pos + Ahead(n, n.entries[i].seqnum)
    OBVIOUS
  <2>1. i = SlotOf(s) BY <1>3, <1>4
  <2>2. n.entries[i].data = pos /\ n.entries[i].seqnum = s BY <2>1, <1>3
  <2> QED BY <2>2, <1>0, <1>6
<1>8. Placed(n, pos, played, upto) BY <1>0, <1>2, <1>6, <1>7 DEF Placed, s
<1> QED BY <1>8 DEF n, s

(* A packet that is not too old is put where it belongs, if the buffer is  *)
(* not behind by more than a round.                                        *)
LEMMA EnqueuedInPlace ==
  ASSUME NEW b \in Buffer, WindowOf(b), NEW kind, NEW upto \in Nat, NEW played \in Int,
         NEW far \in Int, InPlace(b, played, upto, far), far <= M \/ upto <= M,
         NEW near \in Int, near <= M \div 2,
         NEW pos \in Payload, pos < upto, upto - pos <= near
  PROVE  \/ Enqueued(b, kind, SeqOf(pos), pos) = b
         \/ InPlace(Enqueued(b, kind, SeqOf(pos), pos), played, upto, near + L)
<1> USE BufferAssumption, HalfOfM
<1>0. pos \in Nat BY PositionsAreNat
<1> DEFINE s == SeqOf(pos)
           e == Enqueued(b, kind, s, pos)
<1>1. s \in SeqNum /\ s \in Int BY <1>0, SeqOfInt
<1>2. ASSUME NEW r, NEW f \in Nat, e = Store(r, s, pos), f <= pos, pos - f < L,
             Placed(Store(r, s, pos), f, played, upto)
      PROVE  InPlace(e, played, upto, near + L)
  <2>1. upto - f <= near + L BY <1>0, <1>2
  <2>2. ~e.is_empty BY <1>2 DEF Store
  <2> HIDE DEF e, s
  <2> QED BY <1>2, <2>1, <2>2 DEF InPlace
<1>3. pos - pos < L BY <1>0
<1>4. CASE kind # "audio" \/ TooLate(b, s) BY <1>4 DEF Enqueued
<1>5. CASE b.is_empty /\ kind = "audio"
  <2> DEFINE r == MakeRoom(b, s)
  <2>1. r \in Buffer /\ WindowOf(r) /\ r.is_empty
    <3>1. CASE Overruns(b, s)
      <4>1. Flushed(b, s).is_empty BY <1>5, <1>1 DEF Flushed, Buffer
      <4> QED BY <3>1, <4>1, <1>1, FlushedOK DEF MakeRoom
    <3>2. CASE ~Overruns(b, s) BY <3>2, <1>5 DEF MakeRoom
    <3> QED BY <3>1, <3>2
  <2>2. e = IF Duplicate(r, s) THEN r ELSE Store(r, s, pos)
    BY <1>5 DEF Enqueued, TooLate
  <2> HIDE DEF r, e
  <2>3. ~Duplicate(r, s)
    <3>1. SlotOf(s) \in Slot BY <1>1, SlotOfType
    <3> QED BY <2>1, <3>1 DEF WindowOf, EntryFits, Duplicate
  <2>4. played = -1 BY <1>5 DEF InPlace
  <2>5. Placed(Store(r, s, pos), pos, played, upto)
    <3>1. played < pos BY <2>4, <1>0
    <3> QED BY <2>1, <3>1, StoreBegins
  <2> QED BY <1>0, <1>2, <1>3, <2>2, <2>3, <2>5 DEF e
<1>6. CASE ~b.is_empty /\ kind = "audio" /\ ~TooLate(b, s)
  <2>1. PICK f \in Nat : Placed(b, f, played, upto) /\ upto - f <= M
    BY <1>6, PlaceOf
  <2>2. /\ b.first = SeqOf(f) /\ f <= upto /\ played < f
    <3>1. Span(b) \in Nat /\ f + Span(b) <= upto
      BY <2>1 DEF Placed, Span, Buffer, SeqNum
    <3> QED BY <2>1, <3>1 DEF Placed
  <2>3. pos - f >= -(M \div 2) /\ pos - f < M BY <1>0, <2>1, <2>2
  <2>4. f <= pos /\ pos - f < M \div 2
    BY <1>0, <1>6, <2>2, <2>3, Compared DEF TooLate
  <2>5. Overruns(b, s) <=> pos - f >= L
    BY <1>0, <2>2, <2>3, <2>4, Compared DEF Overruns
  <2>6. CASE Overruns(b, s)
    <3> DEFINE r == Flushed(b, s)
    <3>1. MakeRoom(b, s) = r BY <2>6 DEF MakeRoom
    <3>2. ~Duplicate(r, s) BY <1>1, FlushedTakes
    <3>3. e = Store(r, s, pos) BY <1>6, <3>1, <3>2 DEF Enqueued
    <3>4. played < pos BY <1>0, <2>2, <2>4
    <3>5. /\ Placed(r, pos, played, upto) /\ r.is_empty = FALSE
          /\ r \in Buffer /\ WindowOf(r)
      BY <1>0, <1>6, <3>4, FlushedPlaced
    <3> HIDE DEF r, e
    <3>6. Placed(Store(r, s, pos), pos, played, upto)
      BY <1>0, <1>3, <3>5, StorePlaced
    <3> QED BY <1>0, <1>2, <1>3, <3>3, <3>6 DEF e
  <2>7. CASE ~Overruns(b, s)
    <3>1. MakeRoom(b, s) = b BY <2>7 DEF MakeRoom
    <3>2. e = IF Duplicate(b, s) THEN b ELSE Store(b, s, pos)
      BY <1>6, <3>1 DEF Enqueued
    <3>3. pos - f < L BY <1>0, <2>5, <2>7
    <3>4. Placed(Store(b, s, pos), f, played, upto)
      BY <1>6, <2>1, <2>4, <3>3, StorePlaced
    <3> HIDE DEF e
    <3> QED BY <1>2, <2>4, <3>2, <3>3, <3>4 DEF e
  <2> QED BY <2>6, <2>7
<1> QED BY <1>4, <1>5, <1>6 DEF TooLate

(* The entry at the first number holds the packet of this number.          *)
LEMMA FirstIsFirst ==
  ASSUME NEW b \in Buffer, WindowOf(b), FirstEntry(b).filled
  PROVE  FirstEntry(b).seqnum = b.first /\ FirstEntry(b).data # NoData
<1> DEFINE i == SlotOf(b.first)
           t == b.entries[i].seqnum
<1>1. b.first \in SeqNum /\ i \in Slot BY SlotOfType DEF Buffer
<1>2. t \in SeqNum BY <1>1 DEF Buffer, Entry
<1>3. SlotOf(t) = SlotOf(b.first) /\ Ahead(b, t) < Span(b) /\ Span(b) <= L
  BY <1>1 DEF FirstEntry, WindowOf, EntryFits, SpanFits, Span
<1>4. (t - b.first) % M < L
  <2>1. (t - b.first) % M \in Int /\ Span(b) \in Int
    BY <1>1, <1>2, BufferAssumption DEF SeqNum, Buffer, Span
  <2> QED BY <1>3, <2>1, BufferAssumption DEF Ahead
<1>5. b.first = t BY <1>1, <1>2, <1>3, <1>4, SlotInjective
<1>6. b.entries[i].data # NoData BY <1>1 DEF FirstEntry, WindowOf, EntryFits
<1> QED BY <1>5, <1>6 DEF FirstEntry

(* What is dequeued is the packet at the buffer's place.                   *)
LEMMA DequeuedInPlace ==
  ASSUME NEW b \in Buffer, WindowOf(b), NEW noResend, NEW upto \in Nat,
         NEW played \in Int, NEW far \in Int, InPlace(b, played, upto, far)
  PROVE  LET p == Delivered(b, noResend)
         IN /\ p = NoData => InPlace(Dequeued(b, noResend), played, upto, far)
            /\ p # NoData => /\ p \in Nat /\ played < p /\ p < upto
                             /\ InPlace(Dequeued(b, noResend), p, upto, far)
<1> USE BufferAssumption
<1>1. CASE Stalled(b, noResend) BY <1>1 DEF Dequeued, Delivered
<1>2. CASE ~Stalled(b, noResend)
  <2> DEFINE n == Dequeued(b, noResend)
             i == SlotOf(b.first)
             h == IF FirstEntry(b).filled
                  THEN [FirstEntry(b) EXCEPT !.filled = FALSE, !.data = NoData,
                                             !.freed = FALSE]
                  ELSE b.entries[i]
             c == Span(b)
  <2>1. ~b.is_empty /\ c \in 1 .. L BY <1>2, SpanNotZero DEF Span
  <2>2. PICK f \in Nat : Placed(b, f, played, upto) /\ upto - f <= far
    BY <2>1 DEF InPlace, Untouched
  <2>3. i \in Slot /\ b.first \in SeqNum /\ b.last \in SeqNum BY SlotOfType DEF Buffer
  <2>4. /\ n.is_empty = b.is_empty /\ n.first = (b.first + 1) % M /\ n.last = b.last
        /\ n.entries = [b.entries EXCEPT ![i] = h]
    BY <1>2 DEF Dequeued, FirstEntry, NextSeqNum, Buffer
  <2>5. ~h.filled
    <3>1. b.entries[i] \in Entry BY <2>3 DEF Buffer
    <3> QED BY <3>1 DEF FirstEntry, Entry
  <2>6. /\ ~n.entries[i].filled
        /\ \A j \in Slot : j # i => n.entries[j] = b.entries[j]
    BY <2>3, <2>4, <2>5 DEF Buffer
  <2>7. b.first = SeqOf(f) /\ played < f /\ f + c <= upto BY <2>2 DEF Placed
  <2>8. FirstEntry(b).filled => FirstEntry(b).data = f
    <3>1. FirstEntry(b).filled => FirstEntry(b).seqnum = b.first BY FirstIsFirst
    <3>2. Ahead(b, b.first) = 0
      <4>1. b.first - b.first = 0 /\ 0 % M = 0 BY <2>3, ModNear DEF SeqNum
      <4> QED BY <4>1 DEF Ahead
    <3> QED BY <2>2, <2>3, <3>1, <3>2 DEF Placed, FirstEntry
  <2> HIDE DEF n, h
  <2>9. n.first = SeqOf(f + 1) BY <2>4, <2>7, SeqOfNext
  <2>10. Span(n) = c - 1
    <3> DEFINE x == b.last + 1
    <3>1. x \in Int /\ (x - b.first) % M > 0 BY <2>1, <2>3 DEF SeqNum, Span
    <3>2. c = (x - b.first) % M /\ Span(n) = (x - n.first) % M
      <4>1. b.last \in Int /\ b.first \in Int /\ n.first \in Int /\ n.last = b.last
        BY <2>3, <2>4 DEF SeqNum
      <4> HIDE DEF i
      <4>2. b.last + 1 - b.first = x - b.first /\ n.last + 1 - n.first = x - n.first
        BY <4>1
      <4> QED BY <4>2, Zenon DEF Span
    <3> HIDE DEF x, c
    <3>3. (x - ((b.first + 1) % M)) % M = ((x - b.first) % M) - 1
      BY <2>3, <3>1, FirstMoves
    <3> QED BY <2>4, <3>2, <3>3
  <2>11. ASSUME NEW j \in Slot, n.entries[j].filled
         PROVE  n.entries[j].data = (f + 1) + Ahead(n, n.entries[j].seqnum)
    <3> DEFINE t == b.entries[j].seqnum
    <3>1. j # i /\ n.entries[j] = b.entries[j] BY <2>6, <2>11
    <3>2. t \in SeqNum /\ t \in Int BY DEF Buffer, Entry, SeqNum
    <3>3. SlotOf(t) = j BY <2>11, <3>1 DEF WindowOf, EntryFits
    <3>4. (t - b.first) % M > 0
      <4> SUFFICES ASSUME (t - b.first) % M = 0 PROVE FALSE BY <2>3, <3>2 DEF SeqNum
      <4>1. t = b.first BY <2>3, <3>2, ModNear DEF SeqNum
      <4> QED BY <4>1, <3>1, <3>3
    <3>5. Ahead(n, t) = Ahead(b, t) - 1
      <4>1. (t - ((b.first + 1) % M)) % M = ((t - b.first) % M) - 1
        BY <2>3, <3>2, <3>4, FirstMoves
      <4> QED BY <4>1, <2>4 DEF Ahead
    <3>6. b.entries[j].data = f + Ahead(b, t) BY <2>2, <2>11, <3>1 DEF Placed
    <3>7. Ahead(b, t) \in Int BY <2>3, <3>2 DEF Ahead, SeqNum
    <3> HIDE DEF t
    <3> QED BY <3>1, <3>5, <3>6, <3>7 DEF t
  <2>12. ASSUME NEW q, q < f + 1 PROVE InPlace(n, q, upto, far)
    <3>1. (f + 1) + Span(n) <= upto BY <2>1, <2>7, <2>10
    <3>2. f + 1 \in Nat /\ upto - (f + 1) <= far BY <2>2
    <3>3. Placed(n, f + 1, q, upto)
      BY <2>9, <2>11, <2>12, <3>1, <3>2 DEF Placed
    <3> QED BY <2>1, <2>4, <3>2, <3>3 DEF InPlace
  <2>13. CASE FirstEntry(b).filled
    <3>1. Delivered(b, noResend) = f /\ f # NoData
      BY <1>2, <2>8, <2>13, FirstIsFirst DEF Delivered
    <3>2. f < upto BY <2>1, <2>7
    <3>3. InPlace(n, f, upto, far) BY <2>12
    <3> QED BY <2>7, <3>1, <3>2, <3>3 DEF n
  <2>14. CASE ~FirstEntry(b).filled
    <3>1. Delivered(b, noResend) = NoData BY <2>14 DEF Delivered
    <3>2. played < f + 1 BY <2>7
    <3>3. InPlace(n, played, upto, far) BY <2>12, <3>2
    <3> QED BY <3>1, <3>3 DEF n
  <2> QED BY <2>13, <2>14
<1> QED BY <1>1, <1>2

(* A flush to a number that the sender has sent, or to none.               *)
Announced(n, upto) == n \in SeqNum => \E p \in Nat : p <= upto /\ n = SeqOf(p)

LEMMA FlushedInPlace ==
  ASSUME NEW b \in Buffer, NEW n, NEW upto \in Nat, NEW far, Announced(n, upto)
  PROVE  InPlace(Flushed(b, n), -1, upto, far)
<1>1. CASE n \notin SeqNum
  <2>1. Flushed(b, n).is_empty BY <1>1 DEF Flushed, Buffer
  <2> QED BY <2>1 DEF InPlace
<1>2. CASE n \in SeqNum
  <2> DEFINE r == Flushed(b, n)
  <2>1. /\ r.first = n /\ Span(r) = 0
        /\ \A i \in Slot : ~r.entries[i].filled
    BY <1>2, FlushedUntouched
  <2> HIDE DEF r
  <2>2. Untouched(r, -1, upto) BY <1>2, <2>1 DEF Announced, Untouched
  <2> QED BY <2>2 DEF InPlace, r
<1> QED BY <1>1, <1>2

LEMMA MoreSent ==
  ASSUME NEW b \in Buffer, NEW played, NEW upto \in Nat, NEW far \in Int,
         NEW more \in Nat, upto <= more, InPlace(b, played, upto, far)
  PROVE  InPlace(b, played, more, far + (more - upto))
<1>1. CASE b.is_empty BY <1>1 DEF InPlace
<1>2. CASE ~b.is_empty /\ Untouched(b, played, upto)
  <2>1. \A p \in Nat : p <= upto => p <= more OBVIOUS
  <2>2. Untouched(b, played, more) BY <1>2, <2>1 DEF Untouched
  <2> QED BY <1>2, <2>2 DEF InPlace
<1>3. CASE ~b.is_empty /\ ~Untouched(b, played, upto)
  <2>1. PICK f \in Nat : Placed(b, f, played, upto) /\ upto - f <= far
    BY <1>3 DEF InPlace
  <2>2. Span(b) \in Int BY BufferAssumption DEF Span, Buffer, SeqNum
  <2>3. Placed(b, f, played, more) BY <2>1, <2>2 DEF Placed
  <2>4. more - f <= far + (more - upto) BY <2>1
  <2> QED BY <1>3, <2>3, <2>4 DEF InPlace
<1> QED BY <1>1, <1>2, <1>3

(* A wider bound on how far the buffer is behind.                          *)
LEMMA Farther ==
  ASSUME NEW b, NEW played, NEW upto \in Nat, NEW far \in Int, NEW farther \in Int,
         far <= farther, InPlace(b, played, upto, far)
  PROVE  InPlace(b, played, upto, farther)
<1>1. \A f \in Nat : upto - f <= far => upto - f <= farther OBVIOUS
<1> QED BY <1>1 DEF InPlace

-----------------------------------------------------------------------------
(* The order in which packets are played.                                  *)

(* A packet on its way was sent, and not long ago. *)
OnTime == \A pos \in dsock \cup (csock \ {Sync}) : pos < sent /\ sent - pos <= MaxDelay

(* What can arrive is not too old, and a flush goes to a number that was   *)
(* sent.                                                                   *)
Placing ==
  /\ OnTime
  /\ Announced(mail.flush, sent)
  /\ Announced(taken.flush, sent)

(* The buffer has taken the packet that was received. *)
Takes == (ReceiveControl \/ ReceiveData) /\ buf' # buf

LEMMA NoNumber == NO_FLUSH \notin SeqNum /\ -1 \notin SeqNum
BY BufferAssumption DEF NO_FLUSH, SeqNum

LEMMA InitPlacing == Init => Placing /\ \A far : InPlace(buf, last, sent, far)
<1> SUFFICES ASSUME Init PROVE Placing /\ \A far : InPlace(buf, last, sent, far)
  OBVIOUS
<1>1. \A far : InPlace(buf, last, sent, far) BY DEF Init, InPlace, EmptyBuffer
<1>2. OnTime BY DEF Init, OnTime
<1>3. mail.flush = NO_FLUSH /\ taken.flush = NO_FLUSH BY DEF Init, NoMail
<1> QED BY <1>1, <1>2, <1>3, NoNumber DEF Placing, Announced

(* What arrives goes to its place. *)
LEMMA ReceivedInPlace ==
  ASSUME Typed, Placing, NEW far \in Int, InPlace(buf, last, sent, far),
         far <= M \/ sent <= M, Takes
  PROVE  InPlace(buf', last', sent', MaxDelay + L)
<1>1. PICK pos \in dsock \cup (csock \ {Sync}) :
        buf' = Enqueued(buf, KindOf(pos), SeqOf(pos), pos)
  <2>1. CASE ReceiveControl
    <3>1. PICK pos \in csock :
            buf' = IF pos = Sync THEN buf
                   ELSE Enqueued(buf, KindOf(pos), SeqOf(pos), pos)
      BY <2>1 DEF ReceiveControl
    <3>2. pos # Sync BY <3>1 DEF Takes
    <3> QED BY <3>1, <3>2
  <2>2. CASE ReceiveData BY <2>2 DEF ReceiveData
  <2> QED BY <2>1, <2>2 DEF Takes
<1>2. pos \in Payload BY DEF Typed, TypeOK
<1>3. sent \in Nat /\ last \in Int /\ buf \in Buffer /\ WindowOf(buf)
  BY PositionsAreNat DEF Typed, TypeOK, Window
<1>4. pos < sent /\ sent - pos <= MaxDelay BY DEF Placing, OnTime
<1>5. MaxDelay \in Int /\ MaxDelay <= M \div 2 BY RtpAssumption, HalfOfM
<1>6. UNCHANGED <<last, sent>> BY DEF Takes, ReceiveControl, ReceiveData, history
<1>7. buf' # buf BY DEF Takes
<1> HIDE DEF Typed, Placing, Takes
<1> QED BY <1>1, <1>2, <1>3, <1>4, <1>5, <1>6, <1>7, EnqueuedInPlace

LEMMA ThreadPlacing ==
  ASSUME Typed, Placing, NEW far \in Int, InPlace(buf, last, sent, far), Thread
  PROVE  /\ Placing' /\ [Delivery!Next]_<<sent, last>> /\ UNCHANGED sent
         /\ Takes \/ InPlace(buf', last', sent, far)
<1>0. buf \in Buffer /\ WindowOf(buf) /\ sent \in Nat /\ last \in Int
  BY PositionsAreNat DEF Typed, TypeOK, Window
<1> USE DEF Placing
<1>1. CASE TakeMail
  <2>1. UNCHANGED <<buf, sent, dsock, csock, last>>
    BY <1>1 DEF TakeMail, netVars, history
  <2>2. mail'.flush \in {mail.flush, NO_FLUSH} /\ taken'.flush \in {taken.flush, mail.flush}
    BY <1>1 DEF TakeMail, NoMail
  <2>3. Announced(mail'.flush, sent) /\ Announced(taken'.flush, sent)
    BY <2>2, NoNumber DEF Announced
  <2> QED BY <2>1, <2>3 DEF OnTime
<1>2. CASE ApplyMail
  <2>1. UNCHANGED <<mail, sent, dsock, csock>> /\ taken' = NoMail
    BY <1>2 DEF ApplyMail, netVars
  <2>2. Announced(taken'.flush, sent) BY <2>1, NoNumber DEF NoMail, Announced
  <2>3. InPlace(buf', last', sent, far) /\ last' \in {last, -1}
    <3>1. InPlace(Flushed(buf, taken.flush), -1, sent, far) BY <1>0, FlushedInPlace
    <3>2. CASE taken.volume # 0 BY <1>2, <3>1, <3>2 DEF ApplyMail
    <3>3. CASE ~(taken.volume # 0) BY <1>2, <3>3 DEF ApplyMail
    <3> QED BY <3>2, <3>3
  <2>4. Placing' BY <2>1, <2>2 DEF OnTime
  <2>5. Delivery!Forget \/ UNCHANGED <<sent, last>> BY <2>1, <2>3 DEF Delivery!Forget
  <2> QED BY <2>1, <2>3, <2>4, <2>5 DEF Delivery!Next
<1>3. CASE Select \/ HandleResends \/ Exit
  <2>1. UNCHANGED <<buf, mail, taken, sent, dsock, csock, last>>
    BY <1>3 DEF Select, HandleResends, Exit, netVars, history
  <2> QED BY <2>1 DEF OnTime
<1>4. CASE ReceiveControl
  <2>1. csock' \subseteq csock BY <1>4 DEF ReceiveControl, Left
  <2>2. UNCHANGED <<mail, taken, sent, dsock, last>> BY <1>4 DEF ReceiveControl, history
  <2>3. Takes \/ buf' = buf BY <1>4 DEF Takes
  <2> QED BY <2>1, <2>2, <2>3 DEF OnTime
<1>5. CASE ReceiveData
  <2>1. dsock' \subseteq dsock BY <1>5 DEF ReceiveData, Left
  <2>2. UNCHANGED <<mail, taken, sent, csock, last>> BY <1>5 DEF ReceiveData, history
  <2>3. Takes \/ buf' = buf BY <1>5 DEF Takes
  <2> QED BY <2>1, <2>2, <2>3 DEF OnTime
<1>6. CASE Render
  <2> DEFINE p == Delivered(buf, no_resend)
             n == Dequeued(buf, no_resend)
  <2>1. /\ p = NoData => InPlace(n, last, sent, far)
        /\ p # NoData => /\ p \in Nat /\ last < p /\ p < sent
                         /\ InPlace(n, p, sent, far)
    BY <1>0, DequeuedInPlace
  <2>2. p \in Payload \cup {NoData} BY <1>0, DeliveredType
  <2>3. /\ buf' = n /\ UNCHANGED <<mail, taken, sent, dsock, csock>>
        /\ last' = IF p = NoData THEN last ELSE p
    BY <1>6 DEF Render, netVars
  <2> HIDE DEF p, n
  <2>4. InPlace(buf', last', sent, far) BY <2>1, <2>3
  <2>5. Placing' BY <2>3 DEF OnTime
  <2>6. p # NoData => Delivery!Play(p) BY <2>1, <2>3 DEF Delivery!Play
  <2> QED BY <2>2, <2>3, <2>4, <2>5, <2>6 DEF Delivery!Next
<1> QED BY <1>1, <1>2, <1>3, <1>4, <1>5, <1>6 DEF Thread

LEMMA HttpdPlacing ==
  ASSUME Typed, Placing, NEW far \in Int, InPlace(buf, last, sent, far), Httpd
  PROVE  /\ Placing' /\ [Delivery!Next]_<<sent, last>> /\ UNCHANGED sent
         /\ InPlace(buf', last', sent, far)
<1> DEFINE Goal == /\ Placing' /\ [Delivery!Next]_<<sent, last>> /\ UNCHANGED sent
                   /\ InPlace(buf', last', sent, far)
<1>0. buf \in Buffer /\ sent \in Nat BY DEF Typed, TypeOK
<1> USE DEF Placing
<1>1. ASSUME UNCHANGED <<buf, taken, sent, dsock, csock, last>>,
             Announced(mail'.flush, sent)
      PROVE  Goal
  BY <1>1 DEF OnTime
<1>2. CASE StartAudio
  BY <1>1, <1>2 DEF StartAudio, netVars
<1>3. CASE SetVolume
  <2>1. mail'.flush = mail.flush BY <1>3 DEF SetVolume
  <2> QED BY <1>1, <1>3, <2>1 DEF SetVolume, Command, netVars, history
<1>4. ASSUME NEW k \in Texts, SetText(k) PROVE Goal
  <2>1. mail'.flush = mail.flush BY <1>4 DEF SetText
  <2> QED BY <1>1, <1>4, <2>1 DEF SetText, Command, netVars, history
<1>5. ASSUME NEW next_seq \in {-1, SeqOf(sent)}, FlushAudio(next_seq)
      PROVE  Goal
  <2>1. mail'.flush = next_seq
    <3>1. mail \in Mail BY DEF Typed, TypeOK
    <3> QED BY <1>5, <3>1 DEF FlushAudio, Mail
  <2>2. Announced(next_seq, sent)
    <3>1. sent <= sent BY <1>0
    <3> QED BY <1>0, <3>1, NoNumber DEF Announced
  <2> QED BY <1>1, <1>5, <2>1, <2>2 DEF FlushAudio, Command, netVars, history
<1>6. ASSUME NEW by \in {"stop", "destroy"}, Stop(by)
      PROVE  Goal
  BY <1>1, <1>6 DEF Stop, netVars, history
<1>7. CASE StopReturns
  <2>1. UNCHANGED <<mail, taken, sent>> /\ last' = -1 /\ dsock' = {} /\ csock' = {}
        /\ buf' = Flushed(buf, -1)
    BY <1>7 DEF StopReturns
  <2>2. Announced(-1, sent) BY NoNumber DEF Announced
  <2>3. InPlace(Flushed(buf, -1), -1, sent, far) BY <1>0, <2>2, FlushedInPlace
  <2>4. Placing' BY <2>1, <2>3 DEF OnTime
  <2>5. Delivery!Forget BY <2>1 DEF Delivery!Forget
  <2> QED BY <2>1, <2>3, <2>4, <2>5 DEF Delivery!Next
<1>8. CASE DestroyStopped
  BY <1>1, <1>8 DEF DestroyStopped, netVars, history
<1> QED BY <1>2, <1>3, <1>4, <1>5, <1>6, <1>7, <1>8 DEF Httpd

LEMMA NetworkPlacing ==
  ASSUME Typed, Placing, NEW far \in Int, InPlace(buf, last, sent, far), Network
  PROVE  /\ Placing' /\ [Delivery!Next]_<<sent, last>>
         /\ InPlace(buf', last', sent', far + (sent' - sent))
<1> DEFINE Goal == /\ Placing' /\ [Delivery!Next]_<<sent, last>>
                   /\ InPlace(buf', last', sent', far + (sent' - sent))
<1>0. /\ buf \in Buffer /\ sent \in Nat /\ MaxDelay \in Nat \ {0}
      /\ \A pos \in dsock \cup (csock \ {Sync}) : pos \in Nat
  <2>1. \A pos \in dsock \cup (csock \ {Sync}) : pos \in Payload BY DEF Typed, TypeOK
  <2> QED BY <2>1, PositionsAreNat, RtpAssumption, HalfOfM DEF Typed, TypeOK
<1> USE DEF Placing
<1>1. UNCHANGED <<buf, mail, taken, last>> BY DEF Network, history
<1>2. ASSUME sent' = sent, OnTime' PROVE Goal
  <2>1. far + (sent' - sent) = far BY <1>0, <1>2
  <2> QED BY <1>1, <1>2, <2>1
<1>3. CASE Send
  <2>1. sent \in Payload /\ sent' = sent + 1 /\ dsock' = dsock \cup {sent} /\ csock' = csock
    BY <1>3 DEF Send
  <2>2. OnTime'
    <3>0. OnTime' <=> \A pos \in dsock' \cup (csock' \ {Sync}) :
                        pos < sent' /\ sent' - pos <= MaxDelay
      BY DEF OnTime
    <3> SUFFICES ASSUME NEW pos \in dsock \cup {sent} \cup (csock \ {Sync})
                 PROVE  pos < sent + 1 /\ (sent + 1) - pos <= MaxDelay
      BY <2>1, <3>0, Zenon
    <3>1. CASE pos = sent
      <4>1. (sent + 1) - sent = 1 /\ sent < sent + 1 BY <1>0
      <4> QED BY <1>0, <3>1, <4>1
    <3>2. CASE pos # sent
      <4>1. pos \in dsock \cup (csock \ {Sync}) BY <3>2
      <4>2. pos < sent /\ pos \in Nat BY <1>0, <4>1 DEF OnTime
      <4>3. sent - pos < MaxDelay
        <5>1. CASE pos \in dsock
          <6>1. pos # Sync BY <4>2 DEF Sync
          <6> QED BY <1>3, <5>1, <6>1 DEF Send, Fresh
        <5>2. CASE pos \in csock \ {Sync} BY <1>3, <5>2 DEF Send, Fresh
        <5> QED BY <4>1, <5>1, <5>2
      <4> QED BY <1>0, <4>2, <4>3
    <3> QED BY <3>1, <3>2
  <2>3. InPlace(buf', last', sent', far + (sent' - sent))
    <3>1. sent <= sent' /\ sent' \in Nat BY <1>0, <2>1
    <3>2. InPlace(buf, last, sent', far + (sent' - sent)) BY <1>0, <3>1, MoreSent
    <3> QED BY <1>1, <3>2
  <2>4. ASSUME NEW n, Announced(n, sent) PROVE Announced(n, sent + 1)
    <3>1. \A p \in Nat : p <= sent => p <= sent + 1 BY <1>0
    <3> QED BY <2>4, <3>1 DEF Announced
  <2>5. Placing' BY <1>1, <2>1, <2>2, <2>4
  <2>6. Delivery!Send BY <1>1, <2>1 DEF Delivery!Send
  <2> QED BY <2>3, <2>5, <2>6 DEF Delivery!Next
<1>4. CASE SendSync
  BY <1>2, <1>4 DEF SendSync, OnTime
<1>5. CASE Lose
  <2>1. sent' = sent /\ dsock' \subseteq dsock /\ csock' \subseteq csock
    BY <1>5 DEF Lose
  <2> QED BY <1>2, <2>1 DEF OnTime
<1>6. ASSUME NEW s \in requests, Resend(s) PROVE Goal
  <2>1. sent' = sent /\ dsock' = dsock
        /\ csock' = csock \cup {pos \in 0 .. sent - 1 : SeqOf(pos) = s /\ sent - pos < MaxDelay}
    BY <1>6 DEF Resend
  <2>2. \A pos \in 0 .. sent - 1 : sent - pos < MaxDelay =>
          pos < sent /\ sent - pos <= MaxDelay
    BY <1>0
  <2>3. OnTime' BY <2>1, <2>2 DEF OnTime
  <2> QED BY <1>2, <2>1, <2>3
<1> QED BY <1>3, <1>4, <1>5, <1>6 DEF Network

LEMMA NextPlacing ==
  ASSUME Typed, Placing, NEW far \in Int, InPlace(buf, last, sent, far),
         far <= M \/ sent <= M, [Next]_vars
  PROVE  /\ Placing' /\ [Delivery!Next]_<<sent, last>>
         /\ InPlace(buf', last', sent', IF Takes THEN MaxDelay + L
                                                ELSE far + (sent' - sent))
<1>1. sent \in Int /\ far + (sent - sent) = far BY DEF Typed, TypeOK
<1>2. ASSUME Takes PROVE InPlace(buf', last', sent', MaxDelay + L)
  BY <1>2, ReceivedInPlace
<1>3. CASE UNCHANGED vars
  <2>1. UNCHANGED <<buf, last, sent, mail, taken, dsock, csock>>
    BY <1>3 DEF vars, netVars, history
  <2>2. ~Takes BY <2>1 DEF Takes
  <2> QED BY <1>1, <2>1, <2>2 DEF Placing, OnTime
<1>4. CASE Thread
  <2>1. UNCHANGED sent /\ (Takes \/ InPlace(buf', last', sent, far))
    BY <1>4, ThreadPlacing
  <2>2. Placing' /\ [Delivery!Next]_<<sent, last>> BY <1>4, ThreadPlacing
  <2> QED BY <1>1, <1>2, <2>1, <2>2
<1>5. CASE Httpd
  <2>1. UNCHANGED sent /\ InPlace(buf', last', sent, far) BY <1>5, HttpdPlacing
  <2>2. Placing' /\ [Delivery!Next]_<<sent, last>> BY <1>5, HttpdPlacing
  <2> QED BY <1>1, <1>2, <2>1, <2>2
<1>6. CASE Network
  <2>1. InPlace(buf', last', sent', far + (sent' - sent)) BY <1>6, NetworkPlacing
  <2>2. Placing' /\ [Delivery!Next]_<<sent, last>> BY <1>6, NetworkPlacing
  <2> QED BY <1>2, <2>1, <2>2
<1> QED BY <1>3, <1>4, <1>5, <1>6 DEF Next

(* How many packets were sent since the buffer last took one.  A buffer    *)
(* whose head is a hole stands still, and the hole's number comes round    *)
(* again: it keeps up if it takes a packet before that, or if there is no  *)
(* second round.                                                           *)
VARIABLE gap

GapStep   == gap' = IF Takes THEN 0 ELSE gap + (sent' - sent)
CountsGap == gap = 0 /\ [][GapStep]_<<vars, gap>>
KeepsUp   == MaxDelay + L + gap <= M \/ sent <= M

LEMMA KeptUp ==
  ASSUME KeepsUp, gap \in Int, InPlace(buf, last, sent, MaxDelay + L + gap)
  PROVE  \E far \in Int : (far <= M \/ sent <= M) /\ InPlace(buf, last, sent, far)
<1>1. MaxDelay + L + gap \in Int BY BufferAssumption, RtpAssumption, HalfOfM
<1> QED BY <1>1 DEF KeepsUp

LEMMA GapInPlace ==
  ASSUME Typed, Typed', Placing, gap \in Int, KeepsUp, [Next]_vars,
         [GapStep]_<<vars, gap>>, InPlace(buf, last, sent, MaxDelay + L + gap)
  PROVE  gap' \in Int /\ InPlace(buf', last', sent', MaxDelay + L + gap')
<1>1. /\ sent \in Int /\ sent' \in Int /\ MaxDelay \in Int /\ L \in Int /\ M \in Int
      /\ MaxDelay + L + gap \in Int
  BY BufferAssumption, RtpAssumption, HalfOfM DEF Typed, TypeOK
<1>2. CASE UNCHANGED <<vars, gap>>
  <2>1. UNCHANGED <<buf, last, sent, gap>> BY <1>2 DEF vars, netVars, history
  <2> QED BY <2>1
<1>3. CASE GapStep
  <2> DEFINE far == MaxDelay + L + gap
  <2>1. MaxDelay + L + gap' = IF Takes THEN MaxDelay + L ELSE far + (sent' - sent)
    <3>1. CASE Takes BY <1>1, <1>3, <3>1 DEF GapStep
    <3>2. CASE ~Takes BY <1>1, <1>3, <3>2 DEF GapStep
    <3> QED BY <3>1, <3>2
  <2>2. gap' \in Int BY <1>1, <1>3 DEF GapStep
  <2>3. far \in Int /\ (far <= M \/ sent <= M) /\ InPlace(buf, last, sent, far)
    BY <1>1 DEF KeepsUp
  <2> HIDE DEF far
  <2>4. InPlace(buf', last', sent', IF Takes THEN MaxDelay + L
                                             ELSE far + (sent' - sent))
    BY <2>3, NextPlacing
  <2> QED BY <2>1, <2>2, <2>4
<1> QED BY <1>2, <1>3

(* Packets are played in the order in which they were sent and each once,  *)
(* however they are lost, repeated, reordered, resent and flushed, in a    *)
(* stream of any length with which the buffer keeps up.                    *)
THEOREM RtpPlaysInOrder == Spec /\ CountsGap /\ []KeepsUp => InOrder
<1> DEFINE Inv == /\ Typed /\ Placing /\ gap \in Int
                  /\ InPlace(buf, last, sent, MaxDelay + L + gap)
<1>1. Init /\ gap = 0 => Inv /\ Delivery!Init
  BY InitTyped, InitPlacing DEF Init, Delivery!Init
<1>2. Inv /\ KeepsUp /\ [Next]_vars /\ [GapStep]_<<vars, gap>>
        => Inv' /\ [Delivery!Next]_(Delivery!vars)
  <2> SUFFICES ASSUME Inv, KeepsUp, [Next]_vars, [GapStep]_<<vars, gap>>
               PROVE  Inv' /\ [Delivery!Next]_<<sent, last>>
    BY DEF Delivery!vars
  <2>1. Typed' BY NextTyped
  <2>2. gap' \in Int /\ InPlace(buf', last', sent', MaxDelay + L + gap')
    BY <2>1, GapInPlace
  <2>3. Placing' /\ [Delivery!Next]_<<sent, last>>
    BY KeptUp, NextPlacing
  <2> QED BY <2>1, <2>2, <2>3
<1> HIDE DEF Inv
<1> QED BY <1>1, <1>2, PTL DEF Spec, CountsGap, InOrder, Delivery!Spec

-----------------------------------------------------------------------------
(* What is asked for.                                                      *)

(* The session has played, since the last flush, one of the last M \div 2  *)
(* packets that were sent, or nothing yet, or there is no second round.    *)
PlaysOn == last = -1 \/ sent - last <= M \div 2 \/ sent <= M

(* A number in the hole at the buffer's head is the number of a position   *)
(* behind everything that was played.                                      *)
LEMMA HoleNotPlayed ==
  ASSUME TypeOK, Window, PlaysOn, NEW far \in Int, far <= M \/ sent <= M,
         InPlace(buf, last, sent, far), NEW n \in 0 .. AheadOfFirst(buf) - 1,
         NEW pos \in 0 .. last, last - pos < M \div 2
  PROVE  SeqOf(pos) # (buf.first + n) % M
<1> USE BufferAssumption, HalfOfM
<1>0. /\ buf \in Buffer /\ WindowOf(buf) /\ sent \in Nat
      /\ last \in Int /\ pos \in Nat /\ pos <= last
  BY PositionsAreNat DEF TypeOK, Window
<1>1. ~buf.is_empty BY <1>0 DEF InPlace
<1>2. PICK f \in Nat : Placed(buf, f, last, sent) BY <1>0, <1>1, PlaceOf
<1>3. AheadOfFirst(buf) \in Nat /\ AheadOfFirst(buf) < L BY <1>0, <1>1, HoleInWindow
<1>4. n \in Nat /\ AheadOfFirst(buf) > n BY <1>3
<1>5. AheadOfFirst(buf) = Ahead(buf, buf.last)
  BY <1>4 DEF AheadOfFirst, Ahead
<1>6. Span(buf) = AheadOfFirst(buf) + 1
  <2>1. Ahead(buf, buf.last) # M - 1 BY <1>3, <1>5
  <2> QED BY <1>0, <1>5, <2>1, SpanOfLast DEF Span
<1>7. f + n < sent /\ last < f /\ buf.first = SeqOf(f)
  <2>1. f + Span(buf) <= sent /\ last < f /\ buf.first = SeqOf(f) BY <1>2 DEF Placed
  <2> HIDE DEF Placed
  <2> QED BY <1>0, <1>3, <1>4, <1>6, <2>1
<1>8. (buf.first + n) % M = SeqOf(f + n)
  <2>0. f \in Int OBVIOUS
  <2>1. PICK k \in Int : SeqOf(f) = (FirstSeq + f) + M * k BY <2>0, SeqRounds
  <2>2. FirstSeq \in Int BY RtpAssumption DEF SeqNum
  <2>3. buf.first + n = (FirstSeq + (f + n)) + M * k /\ FirstSeq + (f + n) \in Int
    BY <1>4, <1>7, <2>1, <2>2
  <2> QED BY <2>3, ModShift DEF SeqOf
<1>9. (SeqOf(f + n) - SeqOf(pos)) % M = (f + n) - pos
  <2>1. sent - last <= M \div 2 \/ sent <= M BY <1>0 DEF PlaysOn
  <2>3. (f + n) - pos >= -(M \div 2) /\ (f + n) - pos < M /\ f + n >= pos
    BY <1>0, <1>4, <1>7, <2>1
  <2>2. f + n \in Int /\ pos \in Int BY <1>0, <1>4
  <2> QED BY <2>2, <2>3, Compared
<1>10. ASSUME SeqOf(pos) = SeqOf(f + n) PROVE FALSE
  <2>1. SeqOf(pos) \in Int BY <1>0, SeqOfInt
  <2>2. (SeqOf(f + n) - SeqOf(pos)) % M = 0 BY <1>10, <2>1
  <2>3. (f + n) - pos > 0 BY <1>0, <1>4, <1>7
  <2> QED BY <1>9, <2>2, <2>3
<1> QED BY <1>8, <1>10

(* The hole at the head is asked for from its first number on. *)
LEMMA HoleFromFirst ==
  ASSUME NEW b \in Buffer, WindowOf(b), SeqCmp(b.first, b.last) < 0,
         ~FirstEntry(b).filled
  PROVE  b.first \in ResendRange(b)
<1> USE BufferAssumption, HalfOfM
<1>1. b.first \in SeqNum /\ b.last \in SeqNum /\ (b.first + 0) % M = b.first
  BY ModNear DEF Buffer, SeqNum
<1>2. AheadOfFirst(b) # 0
  <2>1. AheadOfFirst(b) = (b.last - b.first) % M BY DEF AheadOfFirst
  <2>2. (b.first - b.last) % M # 0 BY DEF SeqCmp
  <2>3. ASSUME (b.last - b.first) % M = 0 PROVE FALSE
    <3> DEFINE x == b.last - b.first
    <3>1. x \in Int /\ x > -M /\ x < M BY <1>1 DEF SeqNum
    <3>2. x = 0
      <4> HIDE DEF x
      <4>1. x >= 0 => x % M = x BY <3>1, ModNear
      <4>2. x < 0 => x % M = x + M BY <3>1, ModNear
      <4>3. x % M = 0 BY <2>3 DEF x
      <4> QED BY <3>1, <4>1, <4>2, <4>3
    <3>3. b.last = b.first BY <1>1, <3>2 DEF SeqNum
    <3>4. (b.first - b.first) % M = 0 BY <1>1 DEF SeqNum
    <3> QED BY <2>2, <3>3, <3>4
  <2> QED BY <2>1, <2>3
<1>3. /\ ResendCount(b) \in 0 .. AheadOfFirst(b)
      /\ \/ ResendCount(b) = AheadOfFirst(b)
         \/ b.entries[SlotOf((b.first + ResendCount(b)) % M)].filled
  BY ResendCountIs
<1>4. ResendCount(b) # 0 BY <1>1, <1>2, <1>3 DEF FirstEntry
<1>5. 0 \in 0 .. ResendCount(b) - 1
  <2>1. AheadOfFirst(b) \in Nat BY HoleInWindow
  <2> QED BY <1>3, <1>4, <2>1
<1> QED BY <1>1, <1>5 DEF ResendRange

(* A request never names a packet that was played or that the buffer       *)
(* holds, and the head of the buffer is always asked for if it is missing, *)
(* in a stream of any length that is played.                               *)
THEOREM RtpAsksForHoles ==
  Spec /\ CountsGap /\ []KeepsUp /\ []PlaysOn => AsksForHoles
<1> DEFINE Inv == /\ Typed /\ Placing /\ ThreadHasSockets /\ gap \in Int
                  /\ InPlace(buf, last, sent, MaxDelay + L + gap)
           Asks ==
             /\ requests \subseteq requests' =>
                  \A s \in requests' \ requests :
                    /\ ~buf.entries[SlotOf(s)].filled
                    /\ \A pos \in 0 .. last : last - pos < M \div 2 => SeqOf(pos) # s
             /\ thread = "resend" /\ thread' = "events" /\ control_known =>
                  \/ ~SeqCmp(buf.first, buf.last) < 0
                  \/ FirstEntry(buf).filled
                  \/ buf.first \in requests'
<1>1. Init /\ gap = 0 => Inv BY InitTyped, InitPlacing, InitSockets
<1>2. Inv /\ KeepsUp /\ [Next]_vars /\ [GapStep]_<<vars, gap>> => Inv'
  <2> SUFFICES ASSUME Inv, KeepsUp, [Next]_vars, [GapStep]_<<vars, gap>> PROVE Inv'
    OBVIOUS
  <2>1. Typed' /\ ThreadHasSockets' BY NextTyped, NextSockets
  <2>2. gap' \in Int /\ InPlace(buf', last', sent', MaxDelay + L + gap')
    BY <2>1, GapInPlace
  <2>3. Placing' BY KeptUp, NextPlacing
  <2> QED BY <2>1, <2>2, <2>3
<1>3. Inv /\ KeepsUp /\ PlaysOn /\ [Next]_vars => [Asks]_vars
  <2> SUFFICES ASSUME Inv, KeepsUp, PlaysOn, Next PROVE Asks OBVIOUS
  <2>0. buf \in Buffer /\ WindowOf(buf) BY DEF Typed, TypeOK, Window
  <2>1. CASE HandleResends
    <3>1. requests' \subseteq requests \cup ResendRange(buf)
      BY <2>1 DEF HandleResends
    <3>2. ASSUME NEW s \in ResendRange(buf)
          PROVE  /\ ~buf.entries[SlotOf(s)].filled
                 /\ \A pos \in 0 .. last : last - pos < M \div 2 => SeqOf(pos) # s
      <4>1. PICK n \in 0 .. ResendCount(buf) - 1 : s = (buf.first + n) % M
        BY DEF ResendRange
      <4>2. ResendCount(buf) \in 0 .. AheadOfFirst(buf) /\ AheadOfFirst(buf) \in Nat
        BY <2>0, ResendCountIs, HoleInWindow
      <4>3. n \in 0 .. AheadOfFirst(buf) - 1 BY <4>2
      <4>4. ~buf.entries[SlotOf(s)].filled BY <2>0, <4>1, ResendCountIs
      <4>5. PICK far \in Int : (far <= M \/ sent <= M) /\ InPlace(buf, last, sent, far)
        BY KeptUp
      <4>6. TypeOK /\ Window BY DEF Typed
      <4> QED BY <4>1, <4>3, <4>4, <4>5, <4>6, HoleNotPlayed
    <3>3. control_known /\ SeqCmp(buf.first, buf.last) < 0 /\ ~FirstEntry(buf).filled
            => buf.first \in requests'
      BY <2>0, <2>1, HoleFromFirst DEF HandleResends
    <3> QED BY <3>1, <3>2, <3>3
  <2>2. CASE ~HandleResends
    <3>1. requests' \subseteq requests
      BY <2>2 DEF Next, Thread, TakeMail, ApplyMail, Select, ReceiveControl,
        ReceiveData, Render, Exit, Httpd, StartAudio, SetVolume, SetText, FlushAudio,
        Command, Stop, StopReturns, DestroyStopped, Network, Send, SendSync, Lose,
        Resend, netVars
    <3>2. ~(thread = "resend" /\ thread' = "events")
      <4>1. CASE StartAudio
        BY <4>1 DEF StartAudio, ThreadHasSockets, ThreadAlive
      <4>2. CASE Next /\ ~StartAudio
        BY <2>2, <4>2 DEF Next, Thread, TakeMail, ApplyMail, Select, ReceiveControl,
          ReceiveData, Render, Exit, Httpd, SetVolume, SetText, FlushAudio,
          Command, Stop, StopReturns, DestroyStopped, Network, httpdVars
      <4> QED BY <4>1, <4>2
    <3> QED BY <3>1, <3>2
  <2> QED BY <2>1, <2>2
<1> HIDE DEF Inv
<1> QED BY <1>1, <1>2, <1>3, PTL DEF Spec, CountsGap, AsksForHoles
=============================================================================
