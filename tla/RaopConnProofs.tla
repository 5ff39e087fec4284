--------------------------- MODULE RaopConnProofs ---------------------------
(***************************************************************************)
(* Proofs about RaopConn, for every number of SETUPs and failures: what a  *)
(* handler finds behind the connection's pointers is live, and each clock  *)
(* and session keeps to the life cycle of SessionLife.                     *)
(***************************************************************************)
EXTENDS RaopConn, TLAPS

Types ==
  /\ session \in [Kind -> [SetupNo -> Session]]
  /\ ptr \in [Kind -> 0 .. setups] /\ setups \in 0 .. MaxSetups
  /\ phase \in {"open", "closing", "gone"}
  /\ {disconnect, joining} \subseteq BOOLEAN
  /\ todo \in Seq(Call)
  /\ errors \in Nat

(* What no SETUP has created yet is untouched. *)
Fresh == \A k \in Kind, n \in SetupNo : n > setups => session[k][n] = NoThread

(* What is left of a TEARDOWN after each of its calls *)
StopAudio == <<Do("stop", "rtp")>>
Left1     == <<Do("forget", "rtp"), Do("destroy", "mirror"), Do("forget", "mirror")>>
Left2     == <<Do("destroy", "mirror"), Do("forget", "mirror")>>
Left3     == <<Do("forget", "mirror")>>

(* While the connection is open: between two handlers a pointer is set to  *)
(* a live session, and to both sessions or none; within a TEARDOWN, so far *)
(* as they are not ended.                                                  *)
Set(k)   == ptr[k] # 0
Alive(k) == Set(k) /\ Live(Current(k))
Open ==
  phase = "open" =>
    /\ Set("ntp") => Alive("ntp")
    /\ \/ todo = <<>> /\ ~Set("rtp") /\ ~Set("mirror")
       \/ todo \in {<<>>, StopAudio, EndBoth} /\ Alive("rtp") /\ Alive("mirror")
       \/ todo = Left1 /\ Set("rtp") /\ Alive("mirror")
       \/ todo = Left2 /\ ~Set("rtp") /\ Alive("mirror")
       \/ todo = Left3 /\ ~Set("rtp") /\ Set("mirror")

(* Within conn_destroy: what is left to be destroyed is alive, and named   *)
(* once.                                                                   *)
Closing ==
  phase # "open" =>
    \A i \in 1 .. Len(todo) :
      /\ todo[i].op = "destroy" /\ Alive(todo[i].kind)
      /\ \A j \in 1 .. Len(todo) : todo[j].kind = todo[i].kind => j = i

Joins == joining => todo # <<>> /\ Head(todo).op # "forget"

Inv == Types /\ Fresh /\ Open /\ Closing /\ Joins

-----------------------------------------------------------------------------
LEMMA EmptyCalls == <<>> \in Seq(Call)
OBVIOUS

LEMMA PointersTyped ==
  ASSUME Types, NEW k \in Kind, ptr[k] # 0 PROVE ptr[k] \in SetupNo
<1>1. ptr[k] \in 0 .. setups /\ setups \in 0 .. MaxSetups BY DEF Types
<1> QED BY <1>1, ConnAssumption DEF SetupNo

LEMMA CallsTyped ==
  ASSUME Types, NEW i \in 1 .. Len(todo)
  PROVE  /\ todo[i] \in Call /\ todo[i].kind \in Kind
         /\ todo[i].op \in {"stop", "destroy", "forget"}
<1>1. todo[i] \in Call BY DEF Types
<1> QED BY <1>1 DEF Call

LEMMA Teardowns ==
  /\ {StopAudio, EndBoth, Left1, Left2, Left3} \subseteq Seq(Call) \ {<<>>}
  /\ Head(StopAudio) = Do("stop", "rtp") /\ Tail(StopAudio) = <<>>
  /\ Head(EndBoth) = Do("destroy", "rtp") /\ Tail(EndBoth) = Left1
  /\ Head(Left1) = Do("forget", "rtp") /\ Tail(Left1) = Left2
  /\ Head(Left2) = Do("destroy", "mirror") /\ Tail(Left2) = Left3
  /\ Head(Left3) = Do("forget", "mirror") /\ Tail(Left3) = <<>>
<1>1. {Do(op, k) : op \in {"stop", "destroy", "forget"}, k \in Kind} \subseteq Call
  BY DEF Do, Call
<1> QED BY <1>1 DEF StopAudio, EndBoth, Left1, Left2, Left3, Kind

LEMMA InitInv == Init => Inv
<1> SUFFICES ASSUME Init PROVE Inv OBVIOUS
<1>1. todo = <<>> /\ Len(todo) = 0 BY DEF Init
<1>2. NoThread \in Session BY DEF NoThread, Session
<1>3. session \in [Kind -> [SetupNo -> Session]]
  <2>1. [n \in SetupNo |-> NoThread] \in [SetupNo -> Session] BY <1>2
  <2> QED BY <2>1 DEF Init
<1>7. Types
  <2>1. ptr \in [Kind -> 0 .. setups] /\ setups \in 0 .. MaxSetups
    BY ConnAssumption DEF Init
  <2> QED BY <1>1, <1>3, <2>1, EmptyCalls DEF Init, Types
<1>4. Fresh BY DEF Init, Fresh
<1>5. Open BY DEF Init, Open, Set, Kind
<1>6. Closing /\ Joins BY DEF Init, Closing, Joins
<1> QED BY <1>7, <1>4, <1>5, <1>6 DEF Inv

(* A step that changes no pointer and no call, and frees nothing.          *)
LEMMA SameLive ==
  ASSUME Inv, UNCHANGED <<ptr, setups, phase, todo>>,
         session' \in [Kind -> [SetupNo -> Session]],
         {disconnect', joining'} \subseteq BOOLEAN, errors' \in Nat, Joins',
         \A k \in Kind, n \in SetupNo :
           /\ Live(session[k][n]) => Live(session'[k][n])
           /\ n > setups => session'[k][n] = session[k][n]
  PROVE  Inv'
<1>1. \A k \in Kind : ptr[k] # 0 => ptr[k] \in SetupNo
  BY PointersTyped DEF Inv
<1>2. Types' BY DEF Inv, Types
<1>3. Fresh' BY DEF Inv, Fresh
<1>4. \A k \in Kind : (Set(k)' <=> Set(k)) /\ (Alive(k) => Alive(k)')
  BY <1>1 DEF Current, Set, Alive
<1>5. Open'
  <2> HIDE DEF Alive, Set
  <2> QED BY <1>4 DEF Inv, Open, Kind
<1>6. Closing'
  <2>1. \A i \in 1 .. Len(todo) : todo[i].kind \in Kind
    BY CallsTyped DEF Inv
  <2> QED BY <1>4, <2>1 DEF Inv, Closing
<1> QED BY <1>2, <1>3, <1>5, <1>6 DEF Inv

LEMMA ThreadStepInv ==
  ASSUME Inv, NEW k \in Kind, NEW n \in SetupNo, ThreadStep(k, n)
  PROVE  Inv'
<1>1. /\ session \in [Kind -> [SetupNo -> Session]] /\ errors \in Nat
      /\ {disconnect, joining} \subseteq BOOLEAN
  BY DEF Inv, Types
<1>2. \E s \in Session :
        /\ session' = [session EXCEPT ![k] = [session[k] EXCEPT ![n] = s]]
        /\ Live(session[k][n]) => Live(s)
  <2>1. session[k][n] \in Session /\ session[k] \in [SetupNo -> Session]
    BY <1>1
  <2>2. ASSUME NEW from, NEW to \in {"loop", "busy", "clear", "tail", "done"},
               Step(k, n, from, to)
        PROVE  \E s \in Session :
                 /\ session' = [session EXCEPT ![k] = [session[k] EXCEPT ![n] = s]]
                 /\ Live(session[k][n]) => Live(s)
    <3> DEFINE s == [session[k][n] EXCEPT !.thread = to]
    <3>1. s \in Session /\ (Live(session[k][n]) => Live(s))
      BY <2>1 DEF Session, Live
    <3>2. session' = [session EXCEPT ![k] = [session[k] EXCEPT ![n] = s]]
      BY <1>1, <2>1, <2>2 DEF Step
    <3> QED BY <3>1, <3>2
  <2>3. CASE session' = [session EXCEPT ![k][n].thread = "tail",
                                        ![k][n].running = FALSE]
    <3> DEFINE s == [session[k][n] EXCEPT !.thread = "tail", !.running = FALSE]
    <3>1. s \in Session /\ (Live(session[k][n]) => Live(s))
      BY <2>1 DEF Session, Live
    <3>2. session' = [session EXCEPT ![k] = [session[k] EXCEPT ![n] = s]]
      BY <1>1, <2>1, <2>3
    <3> QED BY <3>1, <3>2
  <2> QED BY <2>2, <2>3 DEF ThreadStep, CheckRunning
<1>3. n <= setups
  <2>1. session[k][n].thread # "none"
    BY DEF ThreadStep, CheckRunning, Step
  <2>2. n > setups => session[k][n].thread = "none"
    BY DEF Inv, Fresh, NoThread
  <2>3. n \in Int /\ setups \in Int BY ConnAssumption DEF SetupNo, Inv, Types
  <2> QED BY <2>1, <2>2, <2>3
<1>4. session' \in [Kind -> [SetupNo -> Session]]
  BY <1>1, <1>2
<1>5. ASSUME NEW l \in Kind, NEW m \in SetupNo
      PROVE  /\ Live(session[l][m]) => Live(session'[l][m])
             /\ m > setups => session'[l][m] = session[l][m]
  <2>1. CASE l = k /\ m = n
    <3>1. ~(m > setups)
      BY <1>3, <2>1, ConnAssumption DEF SetupNo, Inv, Types
    <3> QED BY <1>1, <1>2, <2>1, <3>1
  <2>2. CASE ~(l = k /\ m = n)
    <3>1. session'[l][m] = session[l][m] BY <1>1, <1>2, <2>2
    <3> QED BY <3>1
  <2> QED BY <2>1, <2>2
<1>6. /\ UNCHANGED <<ptr, setups, phase, todo, disconnect, joining>>
      /\ errors' \in Nat
  BY <1>1 DEF ThreadStep, handler, Failure
<1>7. Joins' BY <1>6 DEF Inv, Joins
<1> QED BY <1>1, <1>4, <1>5, <1>6, <1>7, SameLive

-----------------------------------------------------------------------------
(* Handlers.                                                               *)

(* A session that changes behind its pointer: no other one does.           *)
LEMMA Updated ==
  ASSUME Types, NEW k \in Kind, ptr[k] # 0, NEW s \in Session, Update(k, s)
  PROVE  /\ session' \in [Kind -> [SetupNo -> Session]]
         /\ ptr[k] \in SetupNo /\ session'[k][ptr[k]] = s
         /\ \A l \in Kind, m \in SetupNo :
              /\ ~(l = k /\ m = ptr[k]) => session'[l][m] = session[l][m]
              /\ m > setups => session'[l][m] = session[l][m]
<1> DEFINE n == ptr[k]
<1>1. n \in SetupNo BY PointersTyped
<1>2. ~(n > setups) /\ n \in Int /\ setups \in Int
  BY <1>1, ConnAssumption DEF SetupNo, Types
<1>3. session' = [session EXCEPT ![k][n] = s] BY DEF Update
<1> HIDE DEF n
<1>4. /\ session' \in [Kind -> [SetupNo -> Session]]
      /\ session'[k][n] = s
      /\ \A l \in Kind, m \in SetupNo :
           ~(l = k /\ m = n) => session'[l][m] = session[l][m]
  BY <1>1, <1>3 DEF Types
<1>5. \A m \in SetupNo : m > setups => m # n
  BY <1>2
<1> QED BY <1>1, <1>4, <1>5 DEF n

LEMMA StartedSession ==
  ASSUME NEW s \in Session
  PROVE  /\ Started(s) \in Session /\ Created(s) \in Session
         /\ Live(s) => Live(Started(s))
BY DEF Started, Created, Session, Live

LEMMA SetupStreamInv ==
  ASSUME Inv, NEW k \in Streams, SetupStream(k) PROVE Inv'
<1>1. /\ UNCHANGED <<ptr, setups, phase, todo, joining>> /\ errors' \in Nat
      /\ {disconnect', joining'} \subseteq BOOLEAN /\ Joins'
  <2>1. UNCHANGED <<ptr, setups, phase, todo, joining>>
    BY DEF SetupStream
  <2>2. errors' \in Nat
    <3>1. errors \in Nat /\ errors' \in {errors, errors + 1}
      BY DEF SetupStream, Failure, Inv, Types
    <3> QED BY <3>1
  <2>3. {disconnect', joining'} \subseteq BOOLEAN
    <3>1. disconnect' = TRUE \/ disconnect' = disconnect BY DEF SetupStream
    <3> QED BY <2>1, <3>1 DEF Inv, Types
  <2>4. Joins' BY <2>1 DEF Inv, Joins
  <2> QED BY <2>1, <2>2, <2>3, <2>4
<1>2. CASE session' = session BY <1>1, <1>2, SameLive DEF Inv, Types
<1>3. CASE session' # session
  <2>1. k \in Kind /\ ptr[k] # 0 /\ Update(k, Started(Current(k)))
    BY <1>3 DEF SetupStream, Streams
  <2>2. Current(k) \in Session
    BY <2>1, PointersTyped DEF Inv, Types, Current
  <2> DEFINE s == Started(Current(k))
  <2>3. s \in Session /\ (Live(Current(k)) => Live(s))
    BY <2>2, StartedSession
  <2>4. Types /\ Update(k, s) BY <2>1 DEF Inv
  <2> HIDE DEF s
  <2>5. /\ session' \in [Kind -> [SetupNo -> Session]]
        /\ ptr[k] \in SetupNo /\ session'[k][ptr[k]] = s
        /\ \A l \in Kind, m \in SetupNo :
             /\ ~(l = k /\ m = ptr[k]) => session'[l][m] = session[l][m]
             /\ m > setups => session'[l][m] = session[l][m]
    BY <2>1, <2>3, <2>4, Updated
  <2>6. \A l \in Kind, m \in SetupNo : Live(session[l][m]) => Live(session'[l][m])
    BY <2>3, <2>5 DEF Current
  <2> QED BY <1>1, <2>5, <2>6, SameLive
<1> QED BY <1>2, <1>3

LEMMA SetupInv == ASSUME Inv, Setup PROVE Inv'
<1>1. /\ todo = <<>> /\ todo' = <<>> /\ phase = "open" /\ phase' = "open"
      /\ setups < MaxSetups /\ setups' = setups + 1
      /\ UNCHANGED <<disconnect, joining>>
      /\ ptr' = [k \in Kind |-> setups']
  BY DEF Setup, Handling, Idle
<1>2. setups \in Nat /\ setups' \in SetupNo /\ setups' \in 0 .. MaxSetups
  BY <1>1, ConnAssumption DEF Inv, Types, SetupNo
<1>3. ASSUME NEW k \in Kind
      PROVE  session[k][setups'] = NoThread
  BY <1>1, <1>2 DEF Inv, Fresh
<1>4. ASSUME NEW k \in Kind
      PROVE  \E s \in Session :
               /\ Live(s)
               /\ session'[k] = [session[k] EXCEPT ![setups'] = s]
  <2>1. /\ Created(NoThread) \in Session /\ Live(Created(NoThread))
        /\ Started(Created(NoThread)) \in Session
        /\ Live(Started(Created(NoThread)))
    BY DEF Created, Started, NoThread, Session, Live
  <2>2. PICK start \in BOOLEAN :
          session' = [l \in Kind |-> [session[l] EXCEPT ![setups'] =
                       IF l = "ntp" /\ start THEN Started(Created(@)) ELSE Created(@)]]
    BY DEF Setup
  <2>3. session'[k] = [session[k] EXCEPT ![setups'] =
          IF k = "ntp" /\ start THEN Started(Created(NoThread)) ELSE Created(NoThread)]
    BY <2>2, <1>3
  <2> QED BY <2>1, <2>3
<1>5. session' \in [Kind -> [SetupNo -> Session]]
  <2>1. \A k \in Kind : session'[k] \in [SetupNo -> Session]
    BY <1>4, ZenonT(40) DEF Inv, Types
  <2>2. DOMAIN session' = Kind /\ session' = [k \in Kind |-> session'[k]]
    BY DEF Setup
  <2> QED BY <2>1, <2>2
<1>6. ASSUME NEW k \in Kind, NEW n \in SetupNo
      PROVE  /\ n = setups' => Live(session'[k][n])
             /\ n # setups' => session'[k][n] = session[k][n]
  <2>1. session[k] \in [SetupNo -> Session] BY DEF Inv, Types
  <2> QED BY <1>2, <1>4, <2>1
<1>7. Types'
  <2>1. errors' \in Nat BY DEF Setup, Failure, Inv, Types
  <2>2. ptr' \in [Kind -> 0 .. setups'] BY <1>1, <1>2
  <2> QED BY <1>1, <1>2, <1>5, <2>1, <2>2, EmptyCalls DEF Inv, Types
<1>8. Fresh'
  <2> SUFFICES ASSUME NEW k \in Kind, NEW n \in SetupNo, n > setups'
               PROVE  session'[k][n] = NoThread
    BY DEF Fresh
  <2>1. n \in Int /\ n > setups /\ n # setups'
    BY <1>1, <1>2, ConnAssumption DEF SetupNo
  <2> QED BY <1>6, <2>1 DEF Inv, Fresh
<1>9. Closing' BY <1>1 DEF Closing
<1>10. Open'
  <2>1. \A k \in Kind : Alive(k)'
    BY <1>1, <1>2, <1>6, ConnAssumption DEF Alive, Set, Current, SetupNo
  <2> QED BY <1>1, <2>1 DEF Open, Kind
<1>11. Joins' BY <1>1 DEF Inv, Joins
<1> QED BY <1>7, <1>8, <1>9, <1>10, <1>11 DEF Inv

(* A step that changes only which calls are left, and the phase.           *)
LEMMA OnlyCalls ==
  ASSUME Inv, UNCHANGED <<session, ptr, setups, disconnect, joining, errors>>,
         todo' \in Seq(Call), phase' \in {"open", "closing", "gone"},
         Open', Closing', todo = <<>>
  PROVE  Inv'
<1>1. joining = FALSE
  BY DEF Inv, Joins, Types
<1> QED BY <1>1 DEF Inv, Types, Fresh, Joins

LEMMA SetupUnknownInv == ASSUME Inv, SetupUnknown PROVE Inv'
<1>1. /\ UNCHANGED <<session, ptr, setups, phase, todo, joining, errors>>
      /\ disconnect' = TRUE
  BY DEF SetupUnknown
<1>2. /\ session' \in [Kind -> [SetupNo -> Session]] /\ errors' \in Nat
      /\ {disconnect', joining'} \subseteq BOOLEAN
  BY <1>1 DEF Inv, Types
<1>3. Joins' BY <1>1 DEF Inv, Joins
<1> QED BY <1>1, <1>2, <1>3, SameLive

LEMMA TeardownInv == ASSUME Inv, Teardown PROVE Inv'
<1>1. /\ todo = <<>> /\ phase = "open" /\ phase' = "open"
      /\ UNCHANGED <<session, ptr, setups, disconnect, joining, errors>>
  BY DEF Teardown, TeardownSteps, Handling, Idle, handler
<1>2. \/ todo' = StopAudio /\ Set("rtp")
      \/ todo' = EndBoth /\ Set("mirror")
      \/ todo' = <<>>
  BY DEF Teardown, TeardownSteps, AudioRuns, Set, StopAudio
<1>3. \A k \in Kind : Alive(k)' <=> Alive(k)
  BY <1>1 DEF Alive, Set, Current
<1>4. /\ \/ ~Set("rtp") /\ ~Set("mirror")
         \/ Alive("rtp") /\ Alive("mirror")
      /\ Set("ntp") => Alive("ntp")
  <2> HIDE DEF Set, Alive
  <2> QED BY <1>1, Teardowns DEF Inv, Open
<1>5. \A k \in Kind : Set(k)' <=> Set(k)
  BY <1>1 DEF Set
<1>6. Alive("rtp") => Set("rtp")
  BY DEF Alive
<1>7. Open'
  <2> HIDE DEF Set, Alive
  <2> QED BY <1>1, <1>2, <1>3, <1>4, <1>5, <1>6 DEF Open, Kind
<1>8. Closing' BY <1>1 DEF Closing
<1>9. todo' \in Seq(Call) BY <1>2, Teardowns, EmptyCalls
<1> QED BY <1>1, <1>7, <1>8, <1>9, OnlyCalls

LEMMA DestroyIs ==
  ASSUME NEW k \in Kind
  PROVE  /\ Destroy(k) \in Seq(Call) /\ Len(Destroy(k)) \in {0, 1}
         /\ Len(Destroy(k)) = 1 => /\ Set(k)
                                   /\ Destroy(k)[1] \in Call
                                   /\ Destroy(k)[1].op = "destroy"
                                   /\ Destroy(k)[1].kind = k
<1>1. CASE ~Set(k)
  <2>1. Destroy(k) = <<>> BY <1>1 DEF Destroy, Set
  <2> QED BY <2>1, EmptyCalls
<1>2. CASE Set(k)
  <2> DEFINE c == Do("destroy", k)
  <2>1. c \in Call /\ c.op = "destroy" /\ c.kind = k BY DEF Do, Call
  <2>2. Destroy(k) = <<c>> BY <1>2 DEF Destroy, Set
  <2> HIDE DEF c
  <2> QED BY <1>2, <2>1, <2>2
<1> QED BY <1>1, <1>2

LEMMA OwnedIs ==
  /\ Owned \in Seq(Call)
  /\ \A i \in 1 .. Len(Owned) :
       /\ Owned[i].op = "destroy" /\ Set(Owned[i].kind)
       /\ \A j \in 1 .. Len(Owned) : Owned[j].kind = Owned[i].kind => j = i
<1> DEFINE a == Destroy("ntp")
           b == Destroy("rtp")
           c == Destroy("mirror")
<1>1. /\ a \in Seq(Call) /\ b \in Seq(Call) /\ c \in Seq(Call)
      /\ Len(a) \in {0, 1} /\ Len(b) \in {0, 1} /\ Len(c) \in {0, 1}
  BY DestroyIs DEF Kind
<1>2. /\ Len(a) = 1 => Set("ntp") /\ a[1].op = "destroy" /\ a[1].kind = "ntp"
      /\ Len(b) = 1 => Set("rtp") /\ b[1].op = "destroy" /\ b[1].kind = "rtp"
      /\ Len(c) = 1 => Set("mirror") /\ c[1].op = "destroy" /\ c[1].kind = "mirror"
  BY DestroyIs DEF Kind
<1>3. Owned = a \o b \o c BY DEF Owned
<1> HIDE DEF a, b, c
<1> DEFINE d == a \o b
<1>4. /\ d \in Seq(Call) /\ Len(d) = Len(a) + Len(b)
      /\ \A i \in 1 .. Len(d) : d[i] = IF i <= Len(a) THEN a[i] ELSE b[i - Len(a)]
  BY <1>1
<1>5. Owned = d \o c BY <1>3
<1> HIDE DEF d
<1>6. /\ Owned \in Seq(Call) /\ Len(Owned) = Len(d) + Len(c)
      /\ \A i \in 1 .. Len(Owned) :
           Owned[i] = IF i <= Len(d) THEN d[i] ELSE c[i - Len(d)]
  <2>1. c \in Seq(Call) /\ d \in Seq(Call) BY <1>1, <1>4
  <2> QED BY <1>5, <2>1
<1>7. ASSUME NEW i \in 1 .. Len(Owned)
      PROVE  /\ Owned[i].op = "destroy" /\ Set(Owned[i].kind)
             /\ \/ i <= Len(a) /\ Owned[i].kind = "ntp"
                \/ i = Len(a) + 1 /\ Len(b) = 1 /\ Owned[i].kind = "rtp"
                \/ i = Len(a) + Len(b) + 1 /\ Owned[i].kind = "mirror"
  <2>1. CASE i <= Len(a)
    <3>1. i = 1 /\ Len(a) = 1 /\ Owned[i] = a[1] BY <1>1, <1>4, <1>6, <2>1, SMTT(40)
    <3> QED BY <1>2, <2>1, <3>1
  <2>2. CASE i > Len(a) /\ i <= Len(d)
    <3>1. i = Len(a) + 1 /\ Len(b) = 1 /\ Owned[i] = b[1]
      BY <1>1, <1>4, <1>6, <2>2, SMTT(40)
    <3> QED BY <1>2, <3>1
  <2>3. CASE i > Len(d)
    <3>1. i = Len(a) + Len(b) + 1 /\ Len(c) = 1 /\ Owned[i] = c[1]
      BY <1>1, <1>4, <1>6, <2>3, SMTT(40)
    <3> QED BY <1>2, <3>1
  <2> QED BY <1>1, <1>4, <2>1, <2>2, <2>3
<1>8. \A i, j \in 1 .. Len(Owned) : Owned[j].kind = Owned[i].kind => j = i
  <2> SUFFICES ASSUME NEW i \in 1 .. Len(Owned), NEW j \in 1 .. Len(Owned),
                      Owned[j].kind = Owned[i].kind
               PROVE  j = i
    OBVIOUS
  <2>1. CASE i <= Len(a)
    <3>1. i = 1 /\ Len(a) = 1
      <4>1. Len(Owned) \in Nat BY <1>6
      <4> QED BY <1>1, <2>1, <4>1
    <3>2. Owned[i].kind = "ntp" BY <1>1, <1>2, <1>4, <1>6, <2>1, <3>1
    <3>3. j <= Len(a) BY <1>7, <3>2
    <3> QED BY <3>1, <3>3
  <2>2. CASE i = Len(a) + 1 /\ Owned[i].kind = "rtp" BY <1>1, <1>7, <2>2
  <2>3. CASE i = Len(a) + Len(b) + 1 /\ Owned[i].kind = "mirror"
    BY <1>1, <1>7, <2>3
  <2> QED BY <1>7, <2>1, <2>2, <2>3
<1> QED BY <1>6, <1>7, <1>8

LEMMA CloseInv == ASSUME Inv, Close PROVE Inv'
<1>1. /\ todo = <<>> /\ phase = "open" /\ phase' = "closing" /\ todo' = Owned
      /\ UNCHANGED <<session, ptr, setups, disconnect, joining, errors>>
  BY DEF Close, Idle
<1>2. \A k \in Kind : Set(k) => Alive(k)
  <2>1. \/ Alive("rtp") /\ Alive("mirror")
        \/ ~Set("rtp") /\ ~Set("mirror")
    BY <1>1, Teardowns DEF Inv, Open
  <2> QED BY <1>1, <2>1 DEF Inv, Open, Kind
<1>3. \A k \in Kind : Alive(k)' <=> Alive(k)
  BY <1>1 DEF Alive, Set, Current
<1>4. \A i \in 1 .. Len(Owned) : Owned[i].kind \in Kind
  <2>1. \A i \in 1 .. Len(Owned) : Owned[i] \in Call BY OwnedIs
  <2> QED BY <2>1 DEF Call
<1>5. Closing' BY <1>1, <1>2, <1>3, <1>4, OwnedIs DEF Closing
<1>6. Open' BY <1>1 DEF Open
<1> QED BY <1>1, <1>5, <1>6, OwnedIs, OnlyCalls

LEMMA GoneInv == ASSUME Inv, Gone PROVE Inv'
<1>1. /\ todo = <<>> /\ todo' = <<>> /\ phase' = "gone"
      /\ UNCHANGED <<session, ptr, setups, disconnect, joining, errors>>
  BY DEF Gone
<1>2. Closing' BY <1>1 DEF Closing
<1>3. Open' BY <1>1 DEF Open
<1> QED BY <1>1, <1>2, <1>3, EmptyCalls, OnlyCalls

-----------------------------------------------------------------------------
(* The calls of a handler.                                                 *)

(* The session that a stop or a destroy is called on is alive.             *)
LEMMA ReadyCall ==
  ASSUME Inv, Calling({"stop", "destroy"})
  PROVE  /\ Called.kind \in Kind /\ Set(Called.kind) /\ Alive(Called.kind)
         /\ Current(Called.kind) \in Session
         /\ Called.op \in {"stop", "destroy"}
<1>1. /\ todo # <<>> /\ todo \in Seq(Call) /\ Called = todo[1]
      /\ Len(todo) \in Nat /\ 1 \in 1 .. Len(todo)
      /\ Called.op \in {"stop", "destroy"}
  BY DEF Calling, Called, Inv, Types
<1>2. Called.kind \in Kind /\ Alive(Called.kind)
  <2>1. CASE phase = "open"
    <3>1. Called.kind \in {"rtp", "mirror"} /\ Alive(Called.kind)
      <4> HIDE DEF Alive, Set
      <4>1. \/ todo = StopAudio /\ Alive("rtp")
            \/ todo = EndBoth /\ Alive("rtp")
            \/ todo = Left1
            \/ todo = Left2 /\ Alive("mirror")
            \/ todo = Left3
        BY <1>1, <2>1 DEF Inv, Open
      <4>2. /\ Do("stop", "rtp").kind = "rtp" /\ Do("destroy", "rtp").kind = "rtp"
            /\ Do("destroy", "mirror").kind = "mirror"
            /\ Do("forget", "rtp").op = "forget" /\ Do("forget", "mirror").op = "forget"
        BY DEF Do
      <4> QED BY <1>1, <4>1, <4>2, Teardowns DEF Called
    <3> QED BY <3>1 DEF Kind
  <2>2. CASE phase # "open"
    <3>1. Alive(todo[1].kind) BY <1>1, <2>2 DEF Inv, Closing
    <3>2. todo[1].kind \in Kind BY <1>1, CallsTyped DEF Inv
    <3> QED BY <1>1, <3>1, <3>2
  <2> QED BY <2>1, <2>2
<1>3. Set(Called.kind) BY <1>2 DEF Alive
<1>4. Current(Called.kind) \in Session
  <2>1. ptr[Called.kind] \in SetupNo
    BY <1>2, <1>3, PointersTyped DEF Inv, Set
  <2> QED BY <1>2, <2>1 DEF Inv, Types, Current
<1> QED BY <1>1, <1>2, <1>3, <1>4

LEMMA StopInv == ASSUME Inv, Stop PROVE Inv'
<1>1. /\ UNCHANGED <<ptr, setups, phase, disconnect, todo, errors>>
      /\ joining' = TRUE
      /\ Calling({"stop", "destroy"})
  BY DEF Stop, handler
<1> DEFINE k == Called.kind
           s == [CalledOn EXCEPT !.running = FALSE]
<1>2. /\ k \in Kind /\ ptr[k] # 0 /\ Current(k) \in Session
      /\ Called.op \in {"stop", "destroy"}
  BY <1>1, ReadyCall DEF Set
<1>3. s \in Session /\ (Live(Current(k)) => Live(s))
  BY <1>2 DEF CalledOn, Session, Live
<1>4. Types /\ Update(k, s) BY DEF Stop, Inv
<1> HIDE DEF k, s
<1>5. /\ session' \in [Kind -> [SetupNo -> Session]]
      /\ ptr[k] \in SetupNo /\ session'[k][ptr[k]] = s
      /\ \A l \in Kind, m \in SetupNo :
           /\ ~(l = k /\ m = ptr[k]) => session'[l][m] = session[l][m]
           /\ m > setups => session'[l][m] = session[l][m]
  BY <1>2, <1>3, <1>4, Updated
<1>6. \A l \in Kind, m \in SetupNo : Live(session[l][m]) => Live(session'[l][m])
  BY <1>3, <1>5 DEF Current
<1>7. /\ {disconnect', joining'} \subseteq BOOLEAN /\ errors' \in Nat
      /\ Joins'
  BY <1>1, <1>2 DEF Inv, Types, Joins, Calling, Called
<1> QED BY <1>1, <1>5, <1>6, <1>7, SameLive

(* The first call has returned: it has freed its session, or left it       *)
(* alive.                                                                  *)
LEMMA Returned ==
  ASSUME Inv, Calling({"stop", "destroy"}), NEW s \in Session,
         Called.op = "stop" => Live(s),
         Update(Called.kind, s), todo' = Tail(todo), joining' = FALSE,
         UNCHANGED <<ptr, setups, phase, disconnect, errors>>
  PROVE  Inv'
<1> PICK k \in Kind : k = Called.kind
  BY ReadyCall
<1>1. /\ k \in Kind /\ ptr[k] # 0 /\ Types /\ Update(k, s)
      /\ Called.op \in {"stop", "destroy"}
  BY ReadyCall DEF Inv, Set
<1>2. /\ todo # <<>> /\ todo \in Seq(Call) /\ Called = todo[1]
      /\ Len(todo) \in Nat
  BY DEF Calling, Called, Inv, Types
<1>3. /\ todo' \in Seq(Call) /\ Len(todo') = Len(todo) - 1
      /\ \A i \in 1 .. Len(todo') :
           /\ i + 1 \in 1 .. Len(todo)
           /\ todo'[i] = todo[i + 1]
  BY <1>2
<1>4. /\ session' \in [Kind -> [SetupNo -> Session]]
      /\ ptr[k] \in SetupNo /\ session'[k][ptr[k]] = s
      /\ \A l \in Kind, m \in SetupNo :
           /\ ~(l = k /\ m = ptr[k]) => session'[l][m] = session[l][m]
           /\ m > setups => session'[l][m] = session[l][m]
  BY <1>1, Updated
<1>5. Types' BY <1>3, <1>4 DEF Inv, Types
<1>6. Fresh' BY <1>4 DEF Inv, Fresh
<1>7. Joins' BY DEF Joins
<1>8. /\ \A l \in Kind : /\ Set(l)' <=> Set(l)
                         /\ l # k => (Alive(l) => Alive(l)')
      /\ Called.op = "stop" => Alive(k)'
      /\ Set(k)
  <2>1. ASSUME NEW l \in Kind PROVE Set(l)' <=> Set(l)
    BY DEF Set
  <2>2. ASSUME NEW l \in Kind, l # k, Alive(l) PROVE Alive(l)'
    <3>1. ptr[l] \in SetupNo
      BY <1>1, <2>2, PointersTyped DEF Alive, Set
    <3> QED BY <1>4, <2>1, <2>2, <3>1 DEF Alive, Set, Current
  <2>3. ASSUME Called.op = "stop" PROVE Alive(k)'
    BY <1>1, <1>4, <2>3 DEF Alive, Set, Current
  <2> QED BY <1>1, <2>1, <2>2, <2>3 DEF Set
<1>9. Open'
  <2> SUFFICES ASSUME phase = "open"
               PROVE  /\ Set("ntp")' => Alive("ntp")'
                      /\ \/ todo' = <<>> /\ Alive("rtp")' /\ Alive("mirror")'
                         \/ todo' = Left1 /\ Set("rtp")' /\ Alive("mirror")'
                         \/ todo' = Left3 /\ ~Set("rtp")' /\ Set("mirror")'
    BY DEF Open
  <2>1. /\ Do("stop", "rtp").kind = "rtp" /\ Do("destroy", "rtp").kind = "rtp"
        /\ Do("destroy", "mirror").kind = "mirror"
        /\ Do("stop", "rtp").op = "stop"
        /\ Do("forget", "rtp").op = "forget" /\ Do("forget", "mirror").op = "forget"
    BY DEF Do
  <2> HIDE DEF Set, Alive
  <2>2. /\ Set("ntp") => Alive("ntp")
        /\ \/ todo = StopAudio /\ Alive("rtp") /\ Alive("mirror")
           \/ todo = EndBoth /\ Alive("rtp") /\ Alive("mirror")
           \/ todo = Left2 /\ ~Set("rtp") /\ Alive("mirror")
    BY <1>1, <1>2, <2>1, Teardowns DEF Inv, Open, Called
  <2>3. /\ k \in {"rtp", "mirror"}
        /\ todo = StopAudio => k = "rtp" /\ Called.op = "stop" /\ todo' = <<>>
        /\ todo = EndBoth => k = "rtp" /\ todo' = Left1
        /\ todo = Left2 => k = "mirror" /\ todo' = Left3
    BY <2>1, <2>2, Teardowns DEF Called
  <2> QED BY <1>8, <2>2, <2>3 DEF Kind
<1>10. Closing'
  <2> SUFFICES ASSUME phase # "open", NEW i \in 1 .. Len(todo')
               PROVE  /\ todo'[i].op = "destroy" /\ Alive(todo[i].kind)'
                      /\ \A j \in 1 .. Len(todo') :
                           todo'[j].kind = todo'[i].kind => j = i
    BY DEF Closing
  <2>1. /\ todo'[i] = todo[i + 1] /\ i + 1 \in 1 .. Len(todo)
        /\ 1 \in 1 .. Len(todo) /\ i + 1 # 1
    BY <1>2, <1>3
  <2>2. /\ todo[i + 1].op = "destroy" /\ Alive(todo[i + 1].kind)
        /\ \A j \in 1 .. Len(todo) : todo[j].kind = todo[i + 1].kind => j = i + 1
    BY <2>1 DEF Inv, Closing
  <2>3. todo[i + 1].kind \in Kind /\ todo[i + 1].kind # k
    BY <1>1, <1>2, <2>1, <2>2, CallsTyped
  <2>4. ASSUME NEW j \in 1 .. Len(todo'), todo'[j].kind = todo'[i].kind
        PROVE  j = i
    <3>1. j + 1 = i + 1 BY <1>3, <2>1, <2>2, <2>4
    <3> QED BY <3>1
  <2>5. Alive(todo[i].kind)'
    <3> PICK l \in Kind : l = todo[i + 1].kind BY <2>3
    <3>1. Alive(l)' BY <1>8, <2>2, <2>3
    <3>2. todo'[i].kind = l BY <2>1
    <3> QED BY <3>1, <3>2 DEF Alive, Set, Current
  <2> QED BY <2>1, <2>2, <2>4, <2>5
<1> QED BY <1>5, <1>6, <1>7, <1>9, <1>10 DEF Inv

LEMMA JoinedCall == ASSUME Inv, StopReturns PROVE Calling({"stop", "destroy"})
<1>1. joining /\ todo # <<>> /\ Head(todo).op # "forget"
  BY DEF StopReturns, Inv, Joins
<1>2. Head(todo) = todo[1] /\ 1 \in 1 .. Len(todo)
  BY <1>1 DEF Inv, Types
<1>3. Head(todo).op \in {"stop", "destroy", "forget"}
  BY <1>2, CallsTyped DEF Inv
<1> QED BY <1>1, <1>3 DEF Calling, Called

LEMMA StopReturnsInv == ASSUME Inv, StopReturns PROVE Inv'
<1>1. Calling({"stop", "destroy"}) BY JoinedCall
<1> DEFINE s == [CalledOn EXCEPT !.joined = TRUE, !.freed = (Called.op = "destroy")]
<1>2. s \in Session /\ (Called.op = "stop" => Live(s))
  BY <1>1, ReadyCall DEF CalledOn, Session, Live, Alive
<1>3. /\ Update(Called.kind, s) /\ todo' = Tail(todo) /\ joining' = FALSE
      /\ UNCHANGED <<ptr, setups, phase, disconnect, errors>>
  BY DEF StopReturns, handler
<1> HIDE DEF s
<1> QED BY <1>1, <1>2, <1>3, Returned

LEMMA StoppedAlreadyInv == ASSUME Inv, StoppedAlready PROVE Inv'
<1>1. Calling({"stop", "destroy"}) BY DEF StoppedAlready
<1> DEFINE s == [CalledOn EXCEPT !.freed = (Called.op = "destroy")]
<1>2. s \in Session /\ (Called.op = "stop" => Live(s))
  BY <1>1, ReadyCall DEF CalledOn, Session, Live, Alive
<1>3. /\ Update(Called.kind, s) /\ todo' = Tail(todo)
      /\ UNCHANGED <<ptr, setups, phase, disconnect, errors>>
  BY DEF StoppedAlready, handler
<1>4. joining' = FALSE
  BY DEF StoppedAlready, Inv, Types
<1> HIDE DEF s
<1> QED BY <1>1, <1>2, <1>3, <1>4, Returned

LEMMA ForgetInv == ASSUME Inv, Forget PROVE Inv'
<1>1. /\ UNCHANGED <<session, setups, phase, disconnect, joining, errors>>
      /\ todo # <<>> /\ Head(todo).op = "forget" /\ todo' = Tail(todo)
      /\ ptr' = [ptr EXCEPT ![Head(todo).kind] = 0]
  BY DEF Forget, Calling, Called, handler
<1>2. phase = "open"
  <2>1. 1 \in 1 .. Len(todo) /\ Head(todo) = todo[1]
    BY <1>1 DEF Inv, Types
  <2> QED BY <1>1, <2>1 DEF Inv, Closing
<1>3. /\ Do("forget", "rtp").kind = "rtp" /\ Do("forget", "mirror").kind = "mirror"
      /\ Do("stop", "rtp").op = "stop" /\ Do("destroy", "rtp").op = "destroy"
      /\ Do("destroy", "mirror").op = "destroy"
  BY DEF Do
<1>4. /\ Set("ntp") => Alive("ntp")
      /\ \/ todo = Left1 /\ Set("rtp") /\ Alive("mirror")
         \/ todo = Left3 /\ ~Set("rtp") /\ Set("mirror")
  <2> HIDE DEF Set, Alive
  <2> QED BY <1>1, <1>2, <1>3, Teardowns DEF Inv, Open
<1>5. \A k \in Kind : k # Head(todo).kind =>
        (Set(k)' <=> Set(k)) /\ (Alive(k)' <=> Alive(k))
  BY <1>1 DEF Inv, Types, Set, Alive, Current
<1>6. ASSUME NEW k \in Kind, k = Head(todo).kind PROVE ~Set(k)'
  BY <1>1, <1>6 DEF Inv, Types, Set
<1>7. /\ todo = Left1 => Head(todo).kind = "rtp" /\ todo' = Left2
      /\ todo = Left3 => Head(todo).kind = "mirror" /\ todo' = <<>>
  BY <1>1, <1>3, Teardowns
<1>8. Open'
  <2> SUFFICES /\ Set("ntp")' => Alive("ntp")'
               /\ \/ todo' = <<>> /\ ~Set("rtp")' /\ ~Set("mirror")'
                  \/ todo' = Left2 /\ ~Set("rtp")' /\ Alive("mirror")'
    BY DEF Open
  <2> HIDE DEF Set, Alive
  <2> QED BY <1>4, <1>5, <1>6, <1>7 DEF Kind
<1>9. Types'
  <2>1. setups \in Nat /\ 0 \in 0 .. setups BY DEF Inv, Types
  <2>2. ptr' \in [Kind -> 0 .. setups] BY <1>1, <2>1 DEF Inv, Types
  <2>3. todo' \in Seq(Call) BY <1>1 DEF Inv, Types
  <2> QED BY <1>1, <2>2, <2>3 DEF Inv, Types
<1>10. joining = FALSE BY <1>1 DEF Inv, Joins, Types
<1>11. Joins' BY <1>1, <1>10 DEF Joins
<1>12. Closing' BY <1>1, <1>2 DEF Closing
<1>13. Fresh' BY <1>1 DEF Inv, Fresh
<1> QED BY <1>8, <1>9, <1>11, <1>12, <1>13 DEF Inv

-----------------------------------------------------------------------------
LEMMA StepInv == Inv /\ [Next]_vars => Inv'
<1> SUFFICES ASSUME Inv, [Next]_vars PROVE Inv'
  OBVIOUS
<1>1. CASE UNCHANGED vars
  BY <1>1 DEF vars, handler, Inv, Types, Fresh, Open, Closing, Joins,
              Set, Alive, Current
<1>2. CASE Httpd
  BY <1>2, SetupInv, SetupUnknownInv, TeardownInv, CloseInv, GoneInv,
     SetupStreamInv DEF Httpd
<1>3. CASE Calls
  BY <1>3, StopInv, StopReturnsInv, StoppedAlreadyInv, ForgetInv DEF Calls
<1>4. CASE \E k \in Kind, n \in SetupNo : ThreadStep(k, n)
  BY <1>4, ThreadStepInv
<1> QED BY <1>1, <1>2, <1>3, <1>4 DEF Next

LEMMA Invariant == Spec => []Inv
BY InitInv, StepInv, PTL DEF Spec

LEMMA InvPointers == Inv => PointersLive
<1> SUFFICES ASSUME Inv PROVE PointersLive
  OBVIOUS
<1>1. ASSUME Idle, NEW k \in Kind, ptr[k] # 0 PROVE Live(Current(k))
  <2>1. \/ Alive("rtp") /\ Alive("mirror")
        \/ ~Set("rtp") /\ ~Set("mirror")
    BY <1>1, Teardowns DEF Inv, Open, Idle
  <2> QED BY <1>1, <2>1 DEF Inv, Open, Kind, Idle, Alive, Set
<1>2. ASSUME phase = "closing", NEW i \in DOMAIN todo
      PROVE  Live(Current(todo[i].kind))
  <2>1. i \in 1 .. Len(todo) BY DEF Inv, Types
  <2> QED BY <1>2, <2>1 DEF Inv, Closing, Alive
<1> QED BY <1>1, <1>2 DEF PointersLive

(* However many SETUPs and TEARDOWNs a sender mixes and whenever threads   *)
(* end by themselves, a handler finds only live sessions behind the        *)
(* pointers of raop.c's connection, and conn_destroy destroys each of them *)
(* once.                                                                   *)
THEOREM ConnPointersLive == Spec => []PointersLive
BY Invariant, InvPointers, PTL

-----------------------------------------------------------------------------
(* Each clock and each session keeps to the life cycle.                    *)

Abides(k, n) == [Life(k, n)!Next]_(Life(k, n)!vars)

(* Nothing is joined between two handlers and while one clears a pointer.  *)
LEMMA NotJoining ==
  ASSUME Inv, joining = FALSE, NEW k \in Kind, NEW n \in SetupNo
  PROVE  LifeCall(k, n) = "idle"
BY DEF LifeCall

(* What a session looks like to the httpd thread does not change.          *)
LEMMA AbidesUnchanged ==
  ASSUME NEW k \in Kind, NEW n \in SetupNo,
         session'[k][n].running = session[k][n].running,
         session'[k][n].joined = session[k][n].joined,
         session'[k][n].freed = session[k][n].freed,
         LifeThread(session'[k][n]) = LifeThread(session[k][n]),
         LifeCall(k, n)' = LifeCall(k, n)
  PROVE  Abides(k, n)
BY DEF Abides, Life!vars, LifeThread, LifeCall

LEMMA AbidesStart ==
  ASSUME NEW k \in Kind, NEW n \in SetupNo,
         ~session[k][n].freed, Startable(session[k][n]),
         session'[k][n] = [session[k][n] EXCEPT !.running = TRUE,
                             !.joined = FALSE, !.thread = "loop"],
         session[k][n] \in Session,
         LifeCall(k, n) = "idle", LifeCall(k, n)' = "idle"
  PROVE  Abides(k, n)
BY DEF Abides, Life!Next, Life!Start, Life!Ready, LifeThread, Session, Startable

(* A handler's step that leaves the sessions alone                         *)
LEMMA AbidesHandler ==
  ASSUME Inv, joining = FALSE, joining' = FALSE,
         NEW k \in Kind, NEW n \in SetupNo, session'[k][n] = session[k][n]
  PROVE  Abides(k, n)
BY AbidesUnchanged DEF LifeCall

LEMMA AbidesSetup ==
  ASSUME Inv, Setup, NEW k \in Kind, NEW n \in SetupNo PROVE Abides(k, n)
<1>1. /\ todo = <<>> /\ setups' = setups + 1 /\ UNCHANGED joining
      /\ setups < MaxSetups
  BY DEF Setup, Handling, Idle
<1>2. joining = FALSE /\ joining' = FALSE
  BY <1>1 DEF Inv, Joins, Types
<1>3. setups' \in SetupNo /\ setups' > setups
  BY <1>1, ConnAssumption DEF Inv, Types, SetupNo
<1>4. PICK start \in BOOLEAN :
        session' = [l \in Kind |-> [session[l] EXCEPT ![setups'] =
                     IF l = "ntp" /\ start THEN Started(Created(@)) ELSE Created(@)]]
  BY DEF Setup
<1>5. session[k] \in [SetupNo -> Session] BY DEF Inv, Types
<1>6. CASE n # setups'
  <2>1. session'[k][n] = session[k][n] BY <1>3, <1>4, <1>5, <1>6
  <2> QED BY <1>2, <2>1, AbidesHandler
<1>7. CASE n = setups'
  <2>1. session[k][n] = NoThread BY <1>3, <1>7 DEF Inv, Fresh
  <2>2. session'[k][n] = IF k = "ntp" /\ start THEN Started(Created(NoThread))
                                               ELSE Created(NoThread)
    BY <1>3, <1>4, <1>5, <1>7, <2>1
  <2>3. LifeCall(k, n) = "idle" /\ LifeCall(k, n)' = "idle"
    BY <1>2 DEF LifeCall
  <2>4. CASE session'[k][n] = Created(NoThread)
    BY <2>1, <2>3, <2>4, AbidesUnchanged DEF Created, NoThread, LifeThread
  <2>5. CASE session'[k][n] = Started(Created(NoThread))
    BY <2>1, <2>3, <2>5
       DEF Abides, Life!Next, Life!Start, Life!Ready, LifeThread, NoThread,
           Created, Started
  <2> QED BY <2>2, <2>4, <2>5
<1> QED BY <1>6, <1>7

LEMMA AbidesSetupStream ==
  ASSUME Inv, NEW l \in Streams, SetupStream(l), NEW k \in Kind, NEW n \in SetupNo
  PROVE  Abides(k, n)
<1>1. todo = <<>> /\ phase = "open" /\ UNCHANGED joining
  BY DEF SetupStream, Idle
<1>2. joining = FALSE /\ joining' = FALSE
  BY <1>1 DEF Inv, Joins, Types
<1>3. CASE session' = session BY <1>2, <1>3, AbidesHandler
<1>4. CASE session' # session
  <2>1. /\ l \in Kind /\ Set(l) /\ Startable(Current(l))
        /\ Update(l, Started(Current(l)))
    BY <1>4 DEF SetupStream, Streams, Set
  <2>2. Alive(l)
    <3> HIDE DEF Set, Alive
    <3>1. l \in {"rtp", "mirror"} BY DEF Streams, Kind
    <3>2. \/ Alive("rtp") /\ Alive("mirror")
          \/ ~Set("rtp") /\ ~Set("mirror")
      BY <1>1, Teardowns DEF Inv, Open
    <3> QED BY <2>1, <3>1, <3>2
  <2>3. Current(l) \in Session
    BY <2>1, PointersTyped DEF Inv, Types, Current, Set
  <2>4. Started(Current(l)) \in Session BY <2>3, StartedSession
  <2> DEFINE s == Started(Current(l))
  <2>5. Types /\ Update(l, s) /\ s \in Session /\ ptr[l] # 0
    BY <2>1, <2>4 DEF Inv, Set
  <2> HIDE DEF s
  <2>6. /\ session'[l][ptr[l]] = s
        /\ ~(k = l /\ n = ptr[l]) => session'[k][n] = session[k][n]
    BY <2>1, <2>5, Updated
  <2>7. CASE ~(k = l /\ n = ptr[l]) BY <1>2, <2>6, <2>7, AbidesHandler
  <2>8. CASE k = l /\ n = ptr[l]
    <3>1. LifeCall(k, n) = "idle" /\ LifeCall(k, n)' = "idle"
      BY <1>2 DEF LifeCall
    <3> QED BY <2>1, <2>2, <2>3, <2>6, <2>8, <3>1, AbidesStart
            DEF s, Started, Current, Alive, Live
  <2> QED BY <2>7, <2>8
<1> QED BY <1>3, <1>4

LEMMA AbidesThread ==
  ASSUME Inv, NEW l \in Kind, NEW m \in SetupNo, ThreadStep(l, m),
         NEW k \in Kind, NEW n \in SetupNo
  PROVE  Abides(k, n)
<1>1. session \in [Kind -> [SetupNo -> Session]] BY DEF Inv, Types
<1>2. UNCHANGED <<ptr, todo, joining>> BY DEF ThreadStep
<1>3. LifeCall(k, n)' = LifeCall(k, n) BY <1>2 DEF LifeCall, Called
<1>4. CASE ~(k = l /\ n = m)
  <2>1. session'[k][n] = session[k][n]
    BY <1>1, <1>4 DEF ThreadStep, CheckRunning, Step
  <2> QED BY <1>3, <2>1, AbidesUnchanged
<1>5. CASE k = l /\ n = m
  <2> DEFINE s == session[k][n]
             Moves(from, to) == s.thread = from /\ session'[k][n] = [s EXCEPT !.thread = to]
  <2>1. s \in Session BY <1>1
  <2>2. \/ Moves("loop", "busy") \/ Moves("loop", "clear")
        \/ Moves("busy", "loop") \/ Moves("busy", "clear")
        \/ Moves("tail", "done")
        \/ /\ s.thread = "clear"
           /\ session'[k][n] = [s EXCEPT !.thread = "tail", !.running = FALSE]
    <3>1. ASSUME NEW from, NEW to, Step(l, m, from, to) PROVE Moves(from, to)
      BY <1>1, <1>5, <3>1 DEF Step
    <3>2. CASE /\ s.thread = "clear"
               /\ session' = [session EXCEPT ![k][n].thread = "tail",
                                             ![k][n].running = FALSE]
      <4>1. session'[k][n] = [s EXCEPT !.thread = "tail", !.running = FALSE]
        BY <1>1, <2>1, <3>2
      <4> QED BY <3>2, <4>1
    <3> HIDE DEF Moves
    <3> QED BY <1>5, <3>1, <3>2 DEF ThreadStep, CheckRunning
  <2>3. CASE \/ Moves("loop", "busy") \/ Moves("loop", "clear")
             \/ Moves("busy", "loop") \/ Moves("busy", "clear")
    BY <1>3, <2>1, <2>3, AbidesUnchanged DEF LifeThread, Session
  <2>4. CASE Moves("tail", "done")
    BY <1>3, <2>1, <2>4
       DEF Abides, Life!Next, Life!ThreadEnds, LifeThread, Session
  <2>5. CASE /\ s.thread = "clear"
             /\ session'[k][n] = [s EXCEPT !.thread = "tail", !.running = FALSE]
    BY <1>3, <2>1, <2>5
       DEF Abides, Life!Next, Life!ThreadEnds, LifeThread, Session
  <2> QED BY <2>2, <2>3, <2>4, <2>5
<1> QED BY <1>4, <1>5

(* The calls: only the session of the first one changes.                   *)
LEMMA AbidesOther ==
  ASSUME Inv, Calling({"stop", "destroy"}), NEW s \in Session,
         Update(Called.kind, s), NEW k \in Kind, NEW n \in SetupNo,
         ~(k = Called.kind /\ n = ptr[Called.kind]),
         UNCHANGED ptr, joining' = FALSE \/ UNCHANGED todo
  PROVE  Abides(k, n)
<1>1. Types /\ Called.kind \in Kind /\ ptr[Called.kind] # 0
  BY ReadyCall DEF Inv, Set
<1>2. session'[k][n] = session[k][n]
  <2> PICK l \in Kind : l = Called.kind BY <1>1
  <2>1. ~(k = l /\ n = ptr[l]) => session'[k][n] = session[k][n]
    BY <1>1, Updated
  <2> QED BY <2>1
<1>3. LifeCall(k, n) = "idle" /\ LifeCall(k, n)' = "idle"
  BY DEF LifeCall, Called
<1> QED BY <1>2, <1>3, AbidesUnchanged

LEMMA AbidesStop ==
  ASSUME Inv, Stop, NEW k \in Kind, NEW n \in SetupNo PROVE Abides(k, n)
<1> DEFINE s == [CalledOn EXCEPT !.running = FALSE]
<1>1. /\ UNCHANGED <<ptr, todo>> /\ ~joining /\ joining' = TRUE
      /\ Calling({"stop", "destroy"}) /\ Update(Called.kind, s)
      /\ CalledOn.running /\ ~CalledOn.joined
  BY DEF Stop
<1>2. /\ Called.kind \in Kind /\ ptr[Called.kind] # 0 /\ CalledOn \in Session
      /\ Alive(Called.kind) /\ Called.op \in {"stop", "destroy"} /\ Types
  BY <1>1, ReadyCall DEF Set, CalledOn, Inv
<1>3. s \in Session BY <1>2 DEF Session
<1>4. CASE ~(k = Called.kind /\ n = ptr[Called.kind])
  <2> HIDE DEF s
  <2> QED BY <1>1, <1>3, <1>4, AbidesOther
<1>5. CASE k = Called.kind /\ n = ptr[Called.kind]
  <2>1. session[k][n] = CalledOn BY <1>5 DEF CalledOn, Current
  <2>2. session'[k][n] = s
    <3> HIDE DEF s
    <3> QED BY <1>1, <1>2, <1>3, <1>5, Updated
  <2>3. LifeCall(k, n) = "idle" /\ LifeCall(k, n)' = Called.op
    BY <1>1, <1>5 DEF LifeCall, Called
  <2>4. ~CalledOn.freed BY <1>2 DEF Alive, Live, CalledOn
  <2> QED BY <1>1, <1>2, <2>1, <2>2, <2>3, <2>4
          DEF Abides, Life!Next, Life!Stop, Life!Ready, LifeThread, Session
<1> QED BY <1>4, <1>5

LEMMA AbidesStopReturns ==
  ASSUME Inv, StopReturns, NEW k \in Kind, NEW n \in SetupNo PROVE Abides(k, n)
<1> DEFINE s == [CalledOn EXCEPT !.joined = TRUE, !.freed = (Called.op = "destroy")]
<1>1. /\ UNCHANGED ptr /\ joining /\ joining' = FALSE
      /\ Update(Called.kind, s) /\ CalledOn.thread = "done"
  BY DEF StopReturns
<1>2. Calling({"stop", "destroy"}) BY JoinedCall
<1>3. /\ Called.kind \in Kind /\ ptr[Called.kind] # 0 /\ CalledOn \in Session
      /\ Called.op \in {"stop", "destroy"} /\ Types
  BY <1>2, ReadyCall DEF Set, CalledOn, Inv
<1>4. s \in Session BY <1>3 DEF Session
<1>5. CASE ~(k = Called.kind /\ n = ptr[Called.kind])
  <2> HIDE DEF s
  <2> QED BY <1>1, <1>2, <1>4, <1>5, AbidesOther
<1>6. CASE k = Called.kind /\ n = ptr[Called.kind]
  <2>1. session[k][n] = CalledOn BY <1>6 DEF CalledOn, Current
  <2>2. session'[k][n] = s
    <3> HIDE DEF s
    <3> QED BY <1>1, <1>3, <1>4, <1>6, Updated
  <2>3. LifeCall(k, n) = Called.op /\ LifeCall(k, n)' = "idle"
    BY <1>1, <1>6 DEF LifeCall
  <2> QED BY <1>1, <1>3, <2>1, <2>2, <2>3
          DEF Abides, Life!Next, Life!StopReturns, LifeThread, Session
<1> QED BY <1>5, <1>6

LEMMA AbidesStoppedAlready ==
  ASSUME Inv, StoppedAlready, NEW k \in Kind, NEW n \in SetupNo PROVE Abides(k, n)
<1> DEFINE s == [CalledOn EXCEPT !.freed = (Called.op = "destroy")]
<1>1. /\ UNCHANGED <<ptr, joining>> /\ joining = FALSE
      /\ Calling({"stop", "destroy"}) /\ Update(Called.kind, s)
      /\ ~CalledOn.running \/ CalledOn.joined
  BY DEF StoppedAlready, Inv, Types
<1>2. /\ Called.kind \in Kind /\ ptr[Called.kind] # 0 /\ CalledOn \in Session
      /\ Alive(Called.kind) /\ Called.op \in {"stop", "destroy"} /\ Types
  BY <1>1, ReadyCall DEF Set, CalledOn, Inv
<1>3. s \in Session BY <1>2 DEF Session
<1>4. CASE ~(k = Called.kind /\ n = ptr[Called.kind])
  <2> HIDE DEF s
  <2> QED BY <1>1, <1>3, <1>4, AbidesOther
<1>5. CASE k = Called.kind /\ n = ptr[Called.kind]
  <2>1. session[k][n] = CalledOn BY <1>5 DEF CalledOn, Current
  <2>2. session'[k][n] = s
    <3> HIDE DEF s
    <3> QED BY <1>1, <1>2, <1>3, <1>5, Updated
  <2>3. LifeCall(k, n) = "idle" /\ LifeCall(k, n)' = "idle"
    BY <1>1 DEF LifeCall
  <2>4. ~CalledOn.freed BY <1>2 DEF Alive, Live, CalledOn
  <2>5. CASE Called.op = "destroy"
    BY <1>1, <1>2, <2>1, <2>2, <2>3, <2>4, <2>5
       DEF Abides, Life!Next, Life!DestroyStopped, Life!Ready, LifeThread, Session
  <2>6. CASE Called.op # "destroy"
    <3>1. s.freed = CalledOn.freed BY <1>2, <2>4, <2>6 DEF Session
    <3> QED BY <1>2, <2>1, <2>2, <2>3, <3>1, AbidesUnchanged DEF LifeThread, Session
  <2> QED BY <2>5, <2>6
<1> QED BY <1>4, <1>5

-----------------------------------------------------------------------------
LEMMA AllAbide ==
  ASSUME Inv, [Next]_vars, NEW k \in Kind, NEW n \in SetupNo PROVE Abides(k, n)
<1>1. CASE UNCHANGED vars
  BY <1>1, AbidesUnchanged DEF vars, LifeCall, Called
<1>2. CASE Httpd
  <2>1. CASE SetupUnknown \/ Teardown \/ Close \/ Gone
    <3>1. todo = <<>> /\ UNCHANGED <<session, joining>>
      BY <2>1 DEF SetupUnknown, Teardown, TeardownSteps, Handling, Close, Gone, Idle
    <3>2. joining = FALSE BY <3>1 DEF Inv, Joins, Types
    <3> QED BY <3>1, <3>2, AbidesHandler
  <2> QED BY <1>2, <2>1, AbidesSetup, AbidesSetupStream DEF Httpd
<1>3. CASE Calls
  <2>1. CASE Forget
    <3>1. UNCHANGED <<session, joining>> /\ todo # <<>> /\ Head(todo).op = "forget"
      BY <2>1 DEF Forget, Calling, Called
    <3>2. joining = FALSE BY <3>1 DEF Inv, Joins, Types
    <3> QED BY <3>1, <3>2, AbidesHandler
  <2> QED BY <1>3, <2>1, AbidesStop, AbidesStopReturns, AbidesStoppedAlready DEF Calls
<1>4. CASE \E l \in Kind, m \in SetupNo : ThreadStep(l, m)
  BY <1>4, AbidesThread
<1> QED BY <1>1, <1>2, <1>3, <1>4 DEF Next

(* A connection uses each clock and each session as its life cycle allows: *)
(* it never starts one whose thread was not joined, nor calls or frees one *)
(* that is freed already (raop.c, raop_handlers.h and the start and stop   *)
(* functions).                                                             *)
THEOREM ConnIsSession == Spec => EachIsSession
<1>1. Init => \A k \in Kind, n \in SetupNo : Life(k, n)!Init
  BY DEF Init, Life!Init, NoThread, LifeThread, LifeCall
<1>2. Inv /\ [Next]_vars =>
        [\A k \in Kind, n \in SetupNo : [Life(k, n)!Next]_(Life(k, n)!vars)]_vars
  BY AllAbide DEF Abides
<1> QED BY <1>1, <1>2, Invariant, PTL DEF Spec, EachIsSession

LEMMA InvTyped == Inv => TypeOK
<1> SUFFICES ASSUME Inv PROVE TypeOK
  OBVIOUS
<1>1. joining => todo # <<>> BY DEF Inv, Joins
<1>2. ASSUME NEW i \in DOMAIN todo PROVE ptr[todo[i].kind] # 0
  <2>1. i \in 1 .. Len(todo) BY DEF Inv, Types
  <2>2. CASE phase # "open" BY <2>1, <2>2 DEF Inv, Closing, Alive, Set
  <2>3. CASE phase = "open"
    <3>1. \/ todo \in {StopAudio, EndBoth, Left1} /\ Set("rtp") /\ Set("mirror")
          \/ todo \in {Left2, Left3} /\ Set("mirror")
      <4>1. todo # <<>> BY <2>1
      <4> HIDE DEF Set
      <4> QED BY <2>3, <4>1 DEF Inv, Open, Alive
    <3>2. /\ todo \in {StopAudio, EndBoth, Left1} => todo[i].kind \in {"rtp", "mirror"}
          /\ todo \in {Left2, Left3} => todo[i].kind = "mirror"
      BY <2>1 DEF StopAudio, EndBoth, Left1, Left2, Left3, Do
    <3> QED BY <3>1, <3>2 DEF Set
  <2> QED BY <2>2, <2>3
<1> QED BY <1>1, <1>2 DEF Inv, Types, TypeOK

(* Every variable of the connection has its type, and a handler calls a    *)
(* session only through a pointer that is set.                             *)
THEOREM ConnTypeCorrect == Spec => []TypeOK
BY Invariant, InvTyped, PTL

-----------------------------------------------------------------------------
(* While the connection is open no clock is freed. *)
Clocks ==
  phase = "open" =>
    \A n \in SetupNo : n <= setups => Live(session["ntp"][n])

LEMMA ClocksUpdated ==
  ASSUME Inv, Clocks, Calling({"stop", "destroy"}), NEW s \in Session,
         Update(Called.kind, s), UNCHANGED <<phase, setups>>
  PROVE  Clocks'
<1> SUFFICES ASSUME phase = "open", NEW n \in SetupNo, n <= setups
             PROVE  Live(session'["ntp"][n])
  BY DEF Clocks
<1>1. Called.kind \in {"rtp", "mirror"}
  <2>1. todo # <<>> /\ Called.op # "forget" BY DEF Calling
  <2>2. todo \in {StopAudio, EndBoth, Left1, Left2, Left3}
    BY <2>1 DEF Inv, Open
  <2> QED BY <2>2, Teardowns DEF Called, Do
<1>2. Types /\ ptr[Called.kind] # 0 BY ReadyCall DEF Inv, Set
<1> PICK k \in {"rtp", "mirror"} : k = Called.kind BY <1>1
<1>3. Update(k, s) /\ ptr[k] # 0 /\ k \in Kind /\ "ntp" \in Kind
  BY <1>2 DEF Kind
<1>4. session'["ntp"][n] = session["ntp"][n]
  BY <1>2, <1>3, Updated
<1> QED BY <1>4 DEF Clocks

LEMMA ClocksStep == Inv /\ Clocks /\ [Next]_vars => Clocks'
<1> SUFFICES ASSUME Inv, Clocks, [Next]_vars PROVE Clocks'
  OBVIOUS
<1> USE DEF Clocks
<1>1. CASE UNCHANGED <<session, setups, phase>>
  BY <1>1
<1>2. ASSUME Setup PROVE Clocks'
  <2>1. setups' = setups + 1 /\ setups \in Nat /\ setups' \in SetupNo
    BY <1>2, ConnAssumption DEF Setup, Inv, Types, SetupNo
  <2>2. phase = "open" BY <1>2 DEF Setup, Handling, Idle
  <2> SUFFICES ASSUME NEW n \in SetupNo, n <= setups'
               PROVE  Live(session'["ntp"][n])
    OBVIOUS
  <2>3. PICK start \in BOOLEAN :
          session' = [l \in Kind |-> [session[l] EXCEPT ![setups'] =
                       IF l = "ntp" /\ start THEN Started(Created(@)) ELSE Created(@)]]
    BY <1>2 DEF Setup
  <2>4. "ntp" \in Kind /\ session["ntp"] \in [SetupNo -> Session]
    BY DEF Kind, Inv, Types
  <2>5. session'["ntp"] = [session["ntp"] EXCEPT ![setups'] =
          IF start THEN Started(Created(@)) ELSE Created(@)]
    BY <2>3, <2>4
  <2>6. CASE n = setups'
    <3>1. session["ntp"][n] = NoThread
      BY <2>1, <2>4, <2>6 DEF Inv, Fresh
    <3>2. session'["ntp"][n] \in {Created(NoThread), Started(Created(NoThread))}
      BY <2>4, <2>5, <2>6, <3>1
    <3> QED BY <3>2 DEF Created, Started, NoThread, Live
  <2>7. CASE n # setups'
    <3>1. n <= setups BY <2>1, <2>7, ConnAssumption DEF SetupNo
    <3>2. session'["ntp"][n] = session["ntp"][n] BY <2>4, <2>5, <2>7
    <3> QED BY <2>2, <3>1, <3>2
  <2> QED BY <2>6, <2>7
<1>3. ASSUME NEW k \in Streams, SetupStream(k) PROVE Clocks'
  <2>1. UNCHANGED <<setups, phase>> BY <1>3 DEF SetupStream
  <2>2. CASE ~UNCHANGED session
    <3>1. k \in Kind /\ k # "ntp" /\ "ntp" \in Kind /\ ptr[k] # 0
      BY <1>3, <2>2 DEF SetupStream, Streams, Kind
    <3>2. Update(k, Started(Current(k))) BY <1>3, <2>2 DEF SetupStream
    <3>3. session'["ntp"] = session["ntp"]
      BY <3>1, <3>2 DEF Update, Inv, Types
    <3> QED BY <2>1, <3>3
  <2> QED BY <1>1, <2>1, <2>2
<1>4. ASSUME NEW k \in Kind, NEW n \in SetupNo, ThreadStep(k, n) PROVE Clocks'
  <2>1. UNCHANGED <<setups, phase>> BY <1>4 DEF ThreadStep, handler
  <2>2. session \in [Kind -> [SetupNo -> Session]] /\ "ntp" \in Kind
    BY DEF Inv, Types, Kind
  <2>3. ASSUME NEW m \in SetupNo
        PROVE  /\ session'["ntp"][m].exists = session["ntp"][m].exists
               /\ session'["ntp"][m].freed = session["ntp"][m].freed
    <3>1. ASSUME NEW from, NEW to, Step(k, n, from, to)
          PROVE  /\ session'["ntp"][m].exists = session["ntp"][m].exists
                 /\ session'["ntp"][m].freed = session["ntp"][m].freed
      BY <2>2, <3>1 DEF Step, Session
    <3>2. CASE session' = [session EXCEPT ![k][n].thread = "tail",
                                          ![k][n].running = FALSE]
      BY <2>2, <3>2 DEF Session
    <3> QED BY <1>4, <3>1, <3>2 DEF ThreadStep, CheckRunning
  <2> QED BY <2>1, <2>3 DEF Live
<1>5. ASSUME Stop PROVE Clocks'
  <2> DEFINE s == [CalledOn EXCEPT !.running = FALSE]
  <2>1. Calling({"stop", "destroy"}) /\ Update(Called.kind, s) /\ UNCHANGED <<phase, setups>>
    BY <1>5 DEF Stop, handler
  <2>2. s \in Session BY <2>1, ReadyCall DEF CalledOn, Session
  <2> HIDE DEF s, Clocks
  <2> QED BY <2>1, <2>2, ClocksUpdated
<1>6. ASSUME StopReturns PROVE Clocks'
  <2> DEFINE s == [CalledOn EXCEPT !.joined = TRUE, !.freed = (Called.op = "destroy")]
  <2>1. Calling({"stop", "destroy"}) BY <1>6, JoinedCall
  <2>2. Update(Called.kind, s) /\ UNCHANGED <<phase, setups>>
    BY <1>6 DEF StopReturns, handler
  <2>3. s \in Session BY <2>1, ReadyCall DEF CalledOn, Session
  <2> HIDE DEF s, Clocks
  <2> QED BY <2>1, <2>2, <2>3, ClocksUpdated
<1>7. ASSUME StoppedAlready PROVE Clocks'
  <2> DEFINE s == [CalledOn EXCEPT !.freed = (Called.op = "destroy")]
  <2>1. Calling({"stop", "destroy"}) /\ Update(Called.kind, s) /\ UNCHANGED <<phase, setups>>
    BY <1>7 DEF StoppedAlready, handler
  <2>2. s \in Session BY <2>1, ReadyCall DEF CalledOn, Session
  <2> HIDE DEF s, Clocks
  <2> QED BY <2>1, <2>2, ClocksUpdated
<1>8. CASE SetupUnknown \/ Teardown \/ Forget
  BY <1>1, <1>8 DEF SetupUnknown, Teardown, TeardownSteps, Forget, handler
<1>9. CASE Close \/ Gone
  BY <1>9 DEF Close, Gone
<1>10. CASE UNCHANGED vars BY <1>1, <1>10 DEF vars, handler
<1> HIDE DEF Clocks
<1> QED BY <1>2, <1>3, <1>4, <1>5, <1>6, <1>7, <1>8, <1>9, <1>10
       DEF Next, Httpd, Calls

LEMMA ClocksUsed == Inv /\ Clocks => ClockInUse
<1> SUFFICES ASSUME Inv, Clocks, phase = "open", NEW k \in Streams, NEW n \in SetupNo,
                    session[k][n].thread = "busy"
             PROVE  Live(session["ntp"][n])
  BY DEF ClockInUse
<1>1. k \in Kind BY DEF Streams
<1>2. ~(n > setups) BY <1>1 DEF Inv, Fresh, NoThread
<1>3. n \in Int /\ setups \in Int BY ConnAssumption DEF SetupNo, Inv, Types
<1> QED BY <1>2, <1>3 DEF Clocks

(* As long as the connection is open, the thread of every session finds    *)
(* the clock it was given, that of a session an earlier SETUP created as   *)
(* well: TEARDOWN ends the sessions and leaves the clock alone.            *)
THEOREM ConnClockInUse == Spec => []ClockInUse
<1>1. Init => Clocks
  BY ConnAssumption DEF Init, Clocks, SetupNo
<1> QED BY <1>1, Invariant, ClocksStep, ClocksUsed, PTL DEF Spec

-----------------------------------------------------------------------------
(* What the connection frees.  From the life cycle alone: a session is     *)
(* freed once and for good, nobody calls it then, and its thread is past   *)
(* its loop, since one in the loop has running set or a stop waiting.      *)
Past(s) == LifeThread(s) # "loop"
Settled(k, n) ==
  /\ session[k][n].freed => LifeCall(k, n) = "idle" /\ Past(session[k][n])
  /\ ~Past(session[k][n]) =>
       /\ ~session[k][n].joined
       /\ session[k][n].running \/ LifeCall(k, n) # "idle"

LEMMA SettledStep ==
  ASSUME NEW k \in Kind, NEW n \in SetupNo,
         session[k][n] \in Session, session'[k][n] \in Session,
         Abides(k, n), Settled(k, n)
  PROVE  Settled(k, n)' /\ (session[k][n].freed => session'[k][n].freed)
<1> USE DEF Settled, Past, Session
<1>1. CASE UNCHANGED Life(k, n)!vars
  BY <1>1 DEF Life!vars
<1>2. CASE Life(k, n)!Start BY <1>2 DEF Life!Start, Life!Ready
<1>3. CASE Life(k, n)!Stop BY <1>3 DEF Life!Stop, Life!Ready
<1>4. CASE Life(k, n)!StopReturns BY <1>4 DEF Life!StopReturns
<1>5. CASE Life(k, n)!DestroyStopped BY <1>5 DEF Life!DestroyStopped, Life!Ready
<1>6. CASE Life(k, n)!ThreadEnds BY <1>6 DEF Life!ThreadEnds
<1> HIDE DEF Settled, Past, Session
<1> QED BY <1>1, <1>2, <1>3, <1>4, <1>5, <1>6 DEF Abides, Life!Next

(* Of what the last SETUP has created, the connection has forgotten only   *)
(* what is freed; in conn_destroy the rest is still to be destroyed.       *)
Freed(k) == session[k][setups].freed
Accounted ==
  /\ phase = "gone" => todo = <<>>
  /\ setups # 0 =>
       /\ \A k \in Kind : ptr[k] = setups \/ (ptr[k] = 0 /\ Freed(k))
       /\ phase = "open" => /\ todo = Left1 => Freed("rtp")
                            /\ todo = Left3 => Freed("mirror")
       /\ phase # "open" =>
            \A k \in Kind : Freed(k) \/ \E i \in 1 .. Len(todo) : todo[i].kind = k

(* Every session stays freed.                                              *)
StaysFreed == \A k \in Kind : setups # 0 /\ Freed(k) => session'[k][setups].freed

LEMMA LastSetupNo == Inv /\ setups # 0 => setups \in SetupNo
BY ConnAssumption DEF Inv, Types, SetupNo

LEMMA AccountedSame ==
  ASSUME Inv, Accounted, StaysFreed, UNCHANGED <<ptr, setups, phase, todo>>
  PROVE  Accounted'
<1>1. \A k \in Kind : setups # 0 /\ Freed(k) => Freed(k)'
  BY DEF StaysFreed, Freed
<1> HIDE DEF Freed
<1> QED BY <1>1 DEF Accounted, Kind

LEMMA AccountedSetup == ASSUME Inv, Setup PROVE Accounted'
<1>1. /\ phase' = "open" /\ todo' = <<>> /\ ptr' = [k \in Kind |-> setups']
  BY DEF Setup, Handling, Idle
<1> QED BY <1>1, Teardowns DEF Accounted

LEMMA AccountedTeardown ==
  ASSUME Inv, Accounted, Teardown PROVE Accounted'
<1>1. /\ phase = "open" /\ UNCHANGED <<session, ptr, setups, phase>>
      /\ todo' \in {StopAudio, EndBoth, <<>>}
  BY DEF Teardown, TeardownSteps, Handling, Idle, handler, StopAudio
<1>2. \A k \in Kind : Freed(k)' <=> Freed(k) BY <1>1 DEF Freed
<1>3. todo' # Left1 /\ todo' # Left3
  <2>1. /\ Do("stop", "rtp").op = "stop" /\ Do("destroy", "rtp").op = "destroy"
        /\ Do("forget", "rtp").op = "forget" /\ Do("forget", "mirror").op = "forget"
    BY DEF Do
  <2> QED BY <1>1, <2>1, Teardowns
<1> HIDE DEF Freed
<1> QED BY <1>1, <1>2, <1>3 DEF Accounted

LEMMA DestroySet ==
  ASSUME NEW k \in Kind, Set(k)
  PROVE  /\ Destroy(k) \in Seq(Call) /\ Len(Destroy(k)) = 1
         /\ Destroy(k)[1].kind = k
<1>1. Destroy(k) = <<Do("destroy", k)>> BY DEF Destroy, Set
<1>2. Do("destroy", k) \in Call /\ Do("destroy", k).kind = k BY DEF Do, Call
<1> QED BY <1>1, <1>2

LEMMA CallsJoined ==
  ASSUME NEW s \in Seq(Call), NEW t \in Seq(Call)
  PROVE  /\ s \o t \in Seq(Call)
         /\ \A i \in 1 .. Len(s) : i \in 1 .. Len(s \o t) /\ (s \o t)[i] = s[i]
         /\ \A i \in 1 .. Len(t) : /\ Len(s) + i \in 1 .. Len(s \o t)
                                   /\ (s \o t)[Len(s) + i] = t[i]
OBVIOUS

LEMMA OwnedHas ==
  ASSUME NEW k \in Kind, Set(k)
  PROVE  \E i \in 1 .. Len(Owned) : Owned[i].kind = k
<1> DEFINE a == Destroy("ntp")
           b == Destroy("rtp")
           c == Destroy("mirror")
           Has(s) == \E i \in 1 .. Len(s) : s[i].kind = k
<1>1. /\ a \in Seq(Call) /\ b \in Seq(Call) /\ c \in Seq(Call)
      /\ a \o b \in Seq(Call)
  BY DestroyIs, CallsJoined DEF Kind
<1>2. Owned = (a \o b) \o c BY DEF Owned
<1>3. Has(Destroy(k))
  <2>1. 1 \in 1 .. Len(Destroy(k)) BY DestroySet
  <2> QED BY <2>1, DestroySet
<1>4. ASSUME NEW s \in Seq(Call), NEW t \in Seq(Call), Has(s) \/ Has(t)
      PROVE  Has(s \o t)
  <2>1. CASE Has(s)
    <3>1. PICK i \in 1 .. Len(s) : s[i].kind = k BY <2>1
    <3>2. i \in 1 .. Len(s \o t) /\ (s \o t)[i] = s[i] BY CallsJoined
    <3> QED BY <3>1, <3>2
  <2>2. CASE Has(t)
    <3>1. PICK i \in 1 .. Len(t) : t[i].kind = k BY <2>2
    <3>2. Len(s) + i \in 1 .. Len(s \o t) /\ (s \o t)[Len(s) + i] = t[i]
      BY CallsJoined
    <3> QED BY <3>1, <3>2
  <2> QED BY <1>4, <2>1, <2>2
<1>5. Has(a) \/ Has(b) \/ Has(c) BY <1>3 DEF Kind
<1>6. Has(Owned)
  <2> HIDE DEF a, b, c, Has
  <2>1. Has(a) \/ Has(b) => Has(a \o b) BY <1>1, <1>4
  <2> QED BY <1>1, <1>2, <1>4, <1>5, <2>1
<1> QED BY <1>6

LEMMA AccountedClose == ASSUME Inv, Accounted, Close PROVE Accounted'
<1>1. /\ phase = "open" /\ phase' = "closing" /\ todo' = Owned
      /\ UNCHANGED <<session, ptr, setups>>
  BY DEF Close, Idle
<1>2. \A k \in Kind : Freed(k)' <=> Freed(k) BY <1>1 DEF Freed
<1>3. ASSUME setups # 0, NEW k \in Kind
      PROVE  Freed(k) \/ \E i \in 1 .. Len(Owned) : Owned[i].kind = k
  BY <1>3, OwnedHas DEF Accounted, Set
<1> HIDE DEF Freed
<1> QED BY <1>1, <1>2, <1>3 DEF Accounted

LEMMA AccountedGone == ASSUME Inv, Accounted, Gone PROVE Accounted'
<1>1. /\ phase = "closing" /\ phase' = "gone" /\ todo = <<>>
      /\ UNCHANGED <<session, ptr, setups, todo>>
  BY DEF Gone
<1>2. \A k \in Kind : Freed(k)' <=> Freed(k) BY <1>1 DEF Freed
<1> HIDE DEF Freed
<1> QED BY <1>1, <1>2 DEF Accounted

LEMMA AccountedReturned ==
  ASSUME Inv, Accounted, StaysFreed, Calling({"stop", "destroy"}),
         NEW s \in Session, Called.op = "destroy" => s.freed,
         Update(Called.kind, s), todo' = Tail(todo),
         UNCHANGED <<ptr, setups, phase>>
  PROVE  Accounted'
<1> PICK k \in Kind : k = Called.kind BY ReadyCall
<1>1. /\ todo # <<>> /\ Len(todo) \in Nat /\ Called = todo[1]
      /\ Len(todo') = Len(todo) - 1
      /\ \A i \in 1 .. Len(todo') : todo'[i] = todo[i + 1]
  BY DEF Calling, Called, Inv, Types
<1>2. setups # 0 => \A l \in Kind : Freed(l) => Freed(l)'
  BY DEF StaysFreed, Freed
<1>3. setups # 0 /\ Called.op = "destroy" => Freed(k)'
  <2> SUFFICES ASSUME setups # 0, Called.op = "destroy" PROVE Freed(k)'
    OBVIOUS
  <2>1. Types /\ ptr[k] # 0 /\ Update(k, s) BY ReadyCall DEF Inv, Set
  <2>2. ptr[k] = setups BY <2>1 DEF Accounted
  <2>3. session'[k][ptr[k]] = s BY <2>1, Updated
  <2> QED BY <2>2, <2>3 DEF Freed
<1>4. phase = "gone" => todo' = <<>>
  BY <1>1 DEF Accounted
<1>5. ASSUME setups # 0, phase = "open"
      PROVE  (todo' = Left1 => Freed("rtp")') /\ (todo' = Left3 => Freed("mirror")')
  <2>1. /\ Do("destroy", "rtp").kind = "rtp" /\ Do("destroy", "rtp").op = "destroy"
        /\ Do("destroy", "mirror").kind = "mirror"
        /\ Do("destroy", "mirror").op = "destroy"
        /\ Do("forget", "rtp").op = "forget" /\ Do("forget", "mirror").op = "forget"
        /\ Do("forget", "rtp").kind = "rtp" /\ Do("forget", "mirror").kind = "mirror"
    BY DEF Do
  <2>2. todo \in {StopAudio, EndBoth, Left2}
    <3> HIDE DEF Set, Alive
    <3>1. Called.op # "forget" BY DEF Calling
    <3>2. todo \in {StopAudio, EndBoth, Left1, Left2, Left3}
      BY <1>1, <1>5 DEF Inv, Open
    <3> QED BY <2>1, <3>1, <3>2, Teardowns DEF Called
  <2>3. Left1 # <<>> /\ Left3 # <<>> /\ Left1 # Left3
    BY <2>1, Teardowns
  <2>4. CASE todo = StopAudio BY <2>3, <2>4, Teardowns
  <2>5. CASE todo = EndBoth
    <3>1. todo' = Left1 /\ k = "rtp" /\ Called.op = "destroy"
      BY <2>1, <2>5, Teardowns DEF Called
    <3> QED BY <1>3, <1>5, <2>3, <3>1
  <2>6. CASE todo = Left2
    <3>1. todo' = Left3 /\ k = "mirror" /\ Called.op = "destroy"
      BY <2>1, <2>6, Teardowns DEF Called
    <3> QED BY <1>3, <1>5, <2>3, <3>1
  <2> QED BY <2>2, <2>4, <2>5, <2>6
<1>6. ASSUME setups # 0, phase # "open", NEW l \in Kind
      PROVE  Freed(l)' \/ \E i \in 1 .. Len(todo') : todo'[i].kind = l
  <2>1. CASE Freed(l) BY <1>2, <1>6, <2>1
  <2>2. CASE ~Freed(l)
    <3>1. PICK i \in 1 .. Len(todo) : todo[i].kind = l
      BY <1>6, <2>2 DEF Accounted
    <3>2. CASE i = 1
      <4>1. l = k /\ Called.op = "destroy"
        BY <1>1, <1>6, <3>1, <3>2 DEF Inv, Closing
      <4> QED BY <1>3, <1>6, <4>1
    <3>3. CASE i # 1
      <4>1. i - 1 \in 1 .. Len(todo') /\ todo'[i - 1] = todo[i]
        BY <1>1, <3>3
      <4> QED BY <3>1, <4>1
    <3> QED BY <3>2, <3>3
  <2> QED BY <2>1, <2>2
<1> HIDE DEF Freed
<1> QED BY <1>2, <1>4, <1>5, <1>6 DEF Accounted

LEMMA AccountedForget ==
  ASSUME Inv, Accounted, Forget PROVE Accounted'
<1>1. /\ UNCHANGED <<session, setups, phase>>
      /\ todo # <<>> /\ Head(todo).op = "forget" /\ todo' = Tail(todo)
      /\ ptr' = [ptr EXCEPT ![Head(todo).kind] = 0]
  BY DEF Forget, Calling, Called, handler
<1>2. phase = "open"
  <2>1. 1 \in 1 .. Len(todo) /\ Head(todo) = todo[1]
    BY <1>1 DEF Inv, Types
  <2> QED BY <1>1, <2>1 DEF Inv, Closing
<1>3. /\ Do("forget", "rtp").kind = "rtp" /\ Do("forget", "mirror").kind = "mirror"
      /\ Do("stop", "rtp").op = "stop" /\ Do("destroy", "rtp").op = "destroy"
      /\ Do("destroy", "mirror").op = "destroy"
      /\ Do("forget", "rtp").op = "forget" /\ Do("forget", "mirror").op = "forget"
  BY DEF Do
<1>4. todo \in {Left1, Left3}
  <2> HIDE DEF Set, Alive
  <2> QED BY <1>1, <1>2, <1>3, Teardowns DEF Inv, Open
<1>5. /\ todo = Left1 => Head(todo).kind = "rtp" /\ todo' = Left2
      /\ todo = Left3 => Head(todo).kind = "mirror" /\ todo' = <<>>
  BY <1>1, <1>3, Teardowns
<1>6. todo' # Left1 /\ todo' # Left3
  BY <1>3, <1>4, <1>5, Teardowns
<1>7. \A k \in Kind : Freed(k)' <=> Freed(k) BY <1>1 DEF Freed
<1>8. ASSUME setups # 0, NEW k \in Kind
      PROVE  ptr'[k] = setups \/ (ptr'[k] = 0 /\ Freed(k))
  <2>1. k = Head(todo).kind => Freed(k)
    BY <1>2, <1>4, <1>5, <1>8 DEF Accounted
  <2>2. /\ k = Head(todo).kind => ptr'[k] = 0
        /\ k # Head(todo).kind => ptr'[k] = ptr[k]
    BY <1>1 DEF Inv, Types
  <2> QED BY <1>8, <2>1, <2>2 DEF Accounted
<1> HIDE DEF Freed
<1> QED BY <1>1, <1>2, <1>6, <1>7, <1>8 DEF Accounted

LEMMA AccountedStep ==
  ASSUME Inv, Accounted, StaysFreed, [Next]_vars PROVE Accounted'
<1>1. CASE UNCHANGED <<ptr, setups, phase, todo>> BY <1>1, AccountedSame
<1>2. CASE Httpd
  <2>1. CASE SetupUnknown \/ \E k \in Streams : SetupStream(k)
    BY <1>1, <2>1 DEF SetupUnknown, SetupStream
  <2> QED BY <1>2, <2>1, AccountedSetup, AccountedTeardown, AccountedClose,
             AccountedGone DEF Httpd
<1>3. CASE Stop BY <1>1, <1>3 DEF Stop, handler
<1>4. CASE StopReturns
  <2> DEFINE s == [CalledOn EXCEPT !.joined = TRUE, !.freed = (Called.op = "destroy")]
  <2>1. Calling({"stop", "destroy"}) BY <1>4, JoinedCall
  <2>2. Update(Called.kind, s) /\ todo' = Tail(todo) /\ UNCHANGED <<ptr, setups, phase>>
    BY <1>4 DEF StopReturns, handler
  <2>3. s \in Session /\ (Called.op = "destroy" => s.freed)
    BY <2>1, ReadyCall DEF CalledOn, Session
  <2> HIDE DEF s
  <2> QED BY <2>1, <2>2, <2>3, AccountedReturned
<1>5. CASE StoppedAlready
  <2> DEFINE s == [CalledOn EXCEPT !.freed = (Called.op = "destroy")]
  <2>1. /\ Calling({"stop", "destroy"}) /\ Update(Called.kind, s)
        /\ todo' = Tail(todo) /\ UNCHANGED <<ptr, setups, phase>>
    BY <1>5 DEF StoppedAlready, handler
  <2>2. s \in Session /\ (Called.op = "destroy" => s.freed)
    BY <2>1, ReadyCall DEF CalledOn, Session
  <2> HIDE DEF s
  <2> QED BY <2>1, <2>2, AccountedReturned
<1>6. CASE \E k \in Kind, n \in SetupNo : ThreadStep(k, n)
  BY <1>1, <1>6 DEF ThreadStep, handler
<1>7. CASE UNCHANGED vars BY <1>1, <1>7 DEF vars, handler
<1> QED BY <1>2, <1>3, <1>4, <1>5, <1>6, <1>7, AccountedForget DEF Next, Calls

AllSettled == \A k \in Kind, n \in SetupNo : Settled(k, n)

LEMMA SettledAccountedStep ==
  Inv /\ Inv' /\ AllSettled /\ Accounted /\ [Next]_vars => AllSettled' /\ Accounted'
<1> SUFFICES ASSUME Inv, Inv', AllSettled, Accounted, [Next]_vars
             PROVE  AllSettled' /\ Accounted'
  OBVIOUS
<1>1. ASSUME NEW k \in Kind, NEW n \in SetupNo
      PROVE  Settled(k, n)' /\ (session[k][n].freed => session'[k][n].freed)
  <2>1. session[k][n] \in Session /\ session'[k][n] \in Session
    BY DEF Inv, Types
  <2>2. Abides(k, n) BY AllAbide
  <2> QED BY <2>1, <2>2, SettledStep DEF AllSettled
<1>2. StaysFreed BY <1>1, LastSetupNo DEF StaysFreed, Freed
<1> QED BY <1>1, <1>2, AccountedStep DEF AllSettled

(* However SETUP and TEARDOWN are mixed, whatever fails and whichever      *)
(* threads end by themselves, a connection that is gone has freed the      *)
(* clock and the sessions of its last SETUP (raop.c's conn_destroy and     *)
(* TEARDOWN), and their threads are past their loops.                      *)
THEOREM ConnLastSetupFreed == Spec => []LastSetupFreed
<1>1. Init => AllSettled /\ Accounted
  BY DEF Init, AllSettled, Settled, Accounted, Past, LifeThread, LifeCall, NoThread
<1>2. Inv /\ AllSettled /\ Accounted => LastSetupFreed
  <2> SUFFICES ASSUME Inv, AllSettled, Accounted, phase = "gone",
                      NEW k \in Kind, NEW n \in SetupNo, n = setups
               PROVE  /\ session[k][n].freed
                      /\ session[k][n].thread \in {"none", "tail", "done"}
    BY DEF LastSetupFreed
  <2>1. setups # 0 /\ Len(todo) = 0
    BY ConnAssumption DEF SetupNo, Accounted
  <2>2. session[k][n].freed BY <2>1 DEF Accounted, Freed
  <2>3. session[k][n] \in Session BY DEF Inv, Types
  <2> QED BY <2>2, <2>3 DEF AllSettled, Settled, Past, LifeThread, Session
<1> QED BY <1>1, <1>2, SettledAccountedStep, Invariant, PTL DEF Spec

=============================================================================
