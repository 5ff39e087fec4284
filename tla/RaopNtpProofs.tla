---------------------------- MODULE RaopNtpProofs --------------------------
(***************************************************************************)
(* Proofs about RaopNtp, for every number of samples, every offset between *)
(* the clocks and every network: the offset in use is that of the sample   *)
(* with the shortest delay of the last N, and its error is at most half    *)
(* that delay.                                                             *)
(*                                                                         *)
(* The argument: a sample is Good (its error is bounded by its delay)      *)
(* because an answer holds times in their order (Messages); the ring holds *)
(* the logged samples, the newest at data_index and the others behind it   *)
(* (Logged); what the ring holds besides has the delay of no sample.       *)
(***************************************************************************)
EXTENDS RaopNtp, TLAPS

(* The place j steps behind i in the ring                                  *)
Behind(i, j) == IF j <= i THEN i - j ELSE i - j + N

Good(s) == /\ s \in Sample
           /\ 0 <= s.delay /\ s.delay < MaxDelay
           /\ 2 * (s.offset - Theta) \in -(s.delay + 1) .. s.delay + 1

Messages ==
  /\ now \in 0 .. MaxTime
  /\ requests \subseteq 0 .. now
  /\ \A r \in responses : /\ r.t0 \in Int /\ r.t1 \in Int /\ r.t2 \in Int
                          /\ 0 <= r.t0 /\ r.t0 <= r.t1 - Theta
                          /\ r.t1 <= r.t2 /\ r.t2 <= now + Theta

Ring == data \in [Index -> Sample] /\ data_index \in Index

Logged ==
  /\ log \in Seq(Sample) /\ Len(log) <= N
  /\ \A k \in 1 .. Len(log) : /\ Good(log[k])
                              /\ data[Behind(data_index, Len(log) - k)] = log[k]
  /\ \A j \in Index : j >= Len(log) => data[Behind(data_index, j)] = NoSample

InUse ==
  /\ sync_offset \in Int
  /\ log # <<>> => \E k \in 1 .. Len(log) :
                     /\ sync_offset = log[k].offset
                     /\ \A l \in 1 .. Len(log) : log[k].delay <= log[l].delay

Inv == Messages /\ Ring /\ Logged /\ InUse

-----------------------------------------------------------------------------
(* The ring.                                                               *)

LEMMA NextIndexIs ==
  ASSUME NEW i \in Index
  PROVE  NextIndex(i) = IF i + 1 = N THEN 0 ELSE i + 1
<1> USE NtpAssumption DEF Index, NextIndex
<1>1. CASE i + 1 = N
  <2>1. N % N = 0 OBVIOUS
  <2> QED BY <1>1, <2>1
<1>2. CASE i + 1 # N
  <2>1. i + 1 \in 0 .. N - 1 BY <1>2
  <2>2. (i + 1) % N = i + 1 BY <2>1
  <2> QED BY <1>2, <2>2
<1> QED BY <1>1, <1>2

(* Going on by one place puts every place one further behind.              *)
LEMMA BehindNext ==
  ASSUME NEW i \in Index, NEW j \in Index
  PROVE  /\ Behind(i, j) \in Index
         /\ Behind(NextIndex(i), 0) = NextIndex(i)
         /\ j > 0 => /\ Behind(NextIndex(i), j) = Behind(i, j - 1)
                     /\ Behind(NextIndex(i), j) # NextIndex(i)
<1> NextIndex(i) = IF i + 1 = N THEN 0 ELSE i + 1 BY NextIndexIs
<1> QED BY NtpAssumption DEF Behind, Index

(* Every place is some way behind every other.                             *)
LEMMA BehindAll ==
  ASSUME NEW i \in Index, NEW p \in Index
  PROVE  \E j \in Index : p = Behind(i, j)
<1> DEFINE j == IF p <= i THEN i - p ELSE i - p + N
<1>1. j \in Index /\ p = Behind(i, j) BY NtpAssumption DEF Behind, Index
<1> QED BY <1>1

-----------------------------------------------------------------------------
(* A sample is off by at most half its delay.                              *)
LEMMA SampleGood ==
  ASSUME Messages, NEW r \in responses
  PROVE  Good([offset |-> Offset(r, now), delay |-> Delay(r, now)])
<1> DEFINE x == (r.t1 - r.t0) + (r.t2 - now)
           d == Delay(r, now)
<1>1. /\ r.t0 \in Int /\ r.t1 \in Int /\ r.t2 \in Int
      /\ 0 <= r.t0 /\ r.t0 <= r.t1 - Theta
      /\ r.t1 <= r.t2 /\ r.t2 <= now + Theta
      /\ now \in 0 .. MaxTime /\ MaxTime \in Nat /\ MaxDelay \in Nat
      /\ MaxTime < MaxDelay /\ Theta \in Int
  BY NtpAssumption DEF Messages
<1>2. x \in Int /\ d \in Int /\ 0 <= d /\ d < MaxDelay
  BY <1>1 DEF Delay
<1>3. -d <= x - 2 * Theta /\ x - 2 * Theta <= d
  BY <1>1 DEF Delay
<1>4. Half(x) \in Int /\ x - 1 <= 2 * Half(x) /\ 2 * Half(x) <= x + 1
  <2> HIDE DEF x
  <2> QED BY <1>2 DEF Half
<1>5. Offset(r, now) = Half(x)
  BY DEF Offset
<1> HIDE DEF x, d
<1>6. 2 * (Half(x) - Theta) \in -(d + 1) .. d + 1
  BY <1>1, <1>2, <1>3, <1>4
<1> QED BY <1>1, <1>2, <1>4, <1>5, <1>6 DEF Good, Sample, d

-----------------------------------------------------------------------------
LEMMA InitInv == Init => Inv
<1> SUFFICES ASSUME Init PROVE Inv OBVIOUS
<1>1. Ring
  BY NtpAssumption DEF Init, Ring, Sample, NoSample, Index
<1>2. Logged
  BY NtpAssumption, BehindNext DEF Init, Logged, Ring, Index
<1>3. Messages /\ InUse
  BY NtpAssumption DEF Init, Messages, InUse
<1> QED BY <1>1, <1>2, <1>3 DEF Inv

(* The answer that is read is put in place of the oldest sample.           *)
LEMMA SampleStep ==
  ASSUME Inv, NEW s, Good(s),
         log' = LastN(Append(log, s)),
         data_index' = NextIndex(data_index),
         data' = [data EXCEPT ![data_index'] = s]
  PROVE  Ring' /\ Logged' /\ log' # <<>>
<1> DEFINE n == Len(log)
<1>1. /\ data \in [Index -> Sample] /\ data_index \in Index /\ s \in Sample
      /\ log \in Seq(Sample) /\ n \in 0 .. N /\ N \in Nat /\ N > 0
  BY NtpAssumption DEF Inv, Ring, Logged, Good
<1>2. data_index' \in Index
  BY <1>1, NextIndexIs, NtpAssumption DEF Index
<1>3. Ring'
  BY <1>1, <1>2 DEF Ring
<1>4. \A j \in Index : data'[Behind(data_index', j)] =
                         IF j = 0 THEN s ELSE data[Behind(data_index, j - 1)]
  <2> SUFFICES ASSUME NEW j \in Index
               PROVE  data'[Behind(data_index', j)] =
                        IF j = 0 THEN s ELSE data[Behind(data_index, j - 1)]
    OBVIOUS
  <2>1. CASE j = 0
    BY <1>1, <1>2, <2>1, BehindNext
  <2>2. CASE j # 0
    <3>1. j > 0 BY <2>2 DEF Index
    <3>2. /\ Behind(data_index', j) = Behind(data_index, j - 1)
          /\ Behind(data_index', j) # data_index'
      BY <1>1, <3>1, BehindNext
    <3>3. Behind(data_index', j) \in Index
      BY <1>2, BehindNext
    <3> QED BY <1>1, <1>2, <2>2, <3>2, <3>3
  <2> QED BY <2>1, <2>2
<1>5. /\ log' \in Seq(Sample)
      /\ Len(log') = IF n = N THEN N ELSE n + 1
      /\ \A k \in 1 .. Len(log') : log'[k] = IF k = Len(log') THEN s
                                             ELSE log[k + n + 1 - Len(log')]
  <2>1. /\ Append(log, s) \in Seq(Sample) /\ Len(Append(log, s)) = n + 1
        /\ \A k \in 1 .. n + 1 : Append(log, s)[k] = IF k = n + 1 THEN s ELSE log[k]
    BY <1>1
  <2>2. CASE n = N
    <3>1. log' = Tail(Append(log, s)) BY <1>1, <2>1, <2>2 DEF LastN
    <3>2. /\ log' \in Seq(Sample) /\ Len(log') = n
          /\ \A k \in 1 .. n : log'[k] = Append(log, s)[k + 1]
      BY <1>1, <2>1, <3>1
    <3> HIDE DEF n
    <3> QED BY <1>1, <2>1, <2>2, <3>2
  <2>3. CASE n # N
    <3>1. log' = Append(log, s) BY <1>1, <2>1, <2>3 DEF LastN
    <3> HIDE DEF n
    <3> QED BY <1>1, <2>1, <2>3, <3>1
  <2> QED BY <2>2, <2>3
<1>6. ASSUME NEW k \in 1 .. Len(log')
      PROVE  /\ Good(log'[k])
             /\ data'[Behind(data_index', Len(log') - k)] = log'[k]
  <2>1. Len(log') - k \in Index
    BY <1>1, <1>5 DEF Index
  <2>2. CASE k = Len(log')
    BY <1>4, <1>5, <2>1, <2>2
  <2>3. CASE k # Len(log')
    <3> DEFINE l == k + n + 1 - Len(log')
    <3>1. /\ l \in 1 .. n /\ log'[k] = log[l]
          /\ Len(log') - k - 1 = n - l /\ Len(log') - k # 0
      <4> DEFINE m == Len(log')
      <4>1. /\ k \in 1 .. m /\ k # m /\ m = IF n = N THEN N ELSE n + 1
            /\ log'[k] = log[k + n + 1 - m]
        BY <1>5, <2>3
      <4> HIDE DEF m, n
      <4> QED BY <1>1, <4>1 DEF m
    <3>2. Good(log[l]) /\ data[Behind(data_index, n - l)] = log[l]
      BY <3>1 DEF Inv, Logged
    <3> HIDE DEF l
    <3> QED BY <1>4, <2>1, <3>1, <3>2
  <2> QED BY <2>2, <2>3
<1>7. ASSUME NEW j \in Index, j >= Len(log')
      PROVE  data'[Behind(data_index', j)] = NoSample
  <2>1. j # 0 /\ j - 1 \in Index /\ j - 1 >= n
    BY <1>1, <1>5, <1>7 DEF Index
  <2>2. data[Behind(data_index, j - 1)] = NoSample
    BY <2>1 DEF Inv, Logged
  <2> QED BY <1>4, <2>1, <2>2
<1>8. Len(log') <= N /\ log' # <<>>
  <2> HIDE DEF n
  <2>1. Len(log') \in 1 .. N BY <1>1, <1>5
  <2> QED BY <2>1
<1> QED BY <1>3, <1>5, <1>6, <1>7, <1>8 DEF Logged

(* The best entry of the ring is one that was logged.                      *)
BestIsLogged ==
  \A i \in Best(data) : \E k \in 1 .. Len(log) :
    /\ data[i] = log[k]
    /\ \A l \in 1 .. Len(log) : log[k].delay <= log[l].delay

LEMMA BestLogged == Ring /\ Logged /\ log # <<>> => BestIsLogged
<1> SUFFICES ASSUME Ring, Logged, log # <<>>, NEW i \in Best(data)
             PROVE  \E k \in 1 .. Len(log) :
                      /\ data[i] = log[k]
                      /\ \A l \in 1 .. Len(log) : log[k].delay <= log[l].delay
  BY DEF BestIsLogged
<1> DEFINE n == Len(log)
<1>1. /\ data_index \in Index /\ n \in 1 .. N /\ N \in Nat
      /\ i \in Index /\ \A j \in Index : data[i].delay <= data[j].delay
  BY NtpAssumption DEF Ring, Logged, Best
<1>2. PICK j \in Index : i = Behind(data_index, j)
  BY <1>1, BehindAll
<1>3. \A l \in 1 .. n : /\ n - l \in Index
                        /\ Behind(data_index, n - l) \in Index
                        /\ data[Behind(data_index, n - l)] = log[l] /\ Good(log[l])
  <2> SUFFICES ASSUME NEW l \in 1 .. n
               PROVE  /\ n - l \in Index
                      /\ Behind(data_index, n - l) \in Index
                      /\ data[Behind(data_index, n - l)] = log[l] /\ Good(log[l])
    OBVIOUS
  <2>1. n - l \in Index
    <3> HIDE DEF n
    <3> QED BY <1>1 DEF Index
  <2>2. Behind(data_index, n - l) \in Index
    <3> HIDE DEF n
    <3> QED BY <1>1, <2>1, BehindNext
  <2> QED BY <2>1, <2>2 DEF Logged
<1>4. \A l \in 1 .. n : data[i].delay <= log[l].delay
  BY <1>1, <1>3
<1>5. j < n
  <2> SUFFICES ASSUME j >= n PROVE FALSE BY <1>1 DEF Index
  <2>1. data[i].delay = MaxDelay
    BY <1>2 DEF Logged, NoSample
  <2>2. MaxDelay <= log[1].delay
    BY <1>1, <1>4, <2>1
  <2>3. log[1].delay \in Int /\ log[1].delay < MaxDelay
    BY <1>1, <1>3 DEF Good, Sample
  <2> QED BY <2>2, <2>3, NtpAssumption
<1>6. n - j \in 1 .. n /\ n - (n - j) = j
  BY <1>1, <1>5 DEF Index
<1>7. data[i] = log[n - j]
  BY <1>2, <1>3, <1>6
<1> QED BY <1>4, <1>6, <1>7

LEMMA StepInv == Inv /\ [Next]_vars => Inv'
<1> SUFFICES ASSUME Inv, [Next]_vars PROVE Inv' OBVIOUS
<1>1. CASE UNCHANGED <<clock, network>>
  BY <1>1 DEF Inv, Messages, Ring, Logged, InUse, clock, network
<1>2. CASE FlushSocket
  <2>1. responses' \subseteq responses /\ UNCHANGED <<clock, now, requests>>
    BY <1>2 DEF FlushSocket
  <2> QED BY <2>1 DEF Inv, Messages, Ring, Logged, InUse, clock
<1>3. CASE SendRequest
  <2>1. requests' \subseteq requests \cup {now} /\ UNCHANGED <<clock, now, responses>>
    BY <1>3 DEF SendRequest
  <2>2. now \in 0 .. now
    BY DEF Inv, Messages
  <2> QED BY <2>1, <2>2 DEF Inv, Messages, Ring, Logged, InUse, clock
<1>4. CASE Tick
  <2>1. now < MaxTime /\ now' = now + 1 /\ UNCHANGED <<clock, requests, responses>>
    BY <1>4 DEF Tick
  <2>2. Messages'
    BY <2>1, NtpAssumption DEF Inv, Messages
  <2> QED BY <2>1, <2>2 DEF Inv, Ring, Logged, InUse, clock
<1>5. CASE Answer
  <2>1. UNCHANGED <<clock, now, requests>>
    BY <1>5 DEF Answer
  <2>2. PICK t0 \in requests : \E t1 \in t0 .. now :
          responses' = responses \cup {[t0 |-> t0, t1 |-> t1 + Theta, t2 |-> now + Theta]}
    BY <1>5 DEF Answer
  <2>3. PICK t1 \in t0 .. now :
          responses' = responses \cup {[t0 |-> t0, t1 |-> t1 + Theta, t2 |-> now + Theta]}
    BY <2>2
  <2>4. t0 \in Int /\ 0 <= t0 /\ t1 \in Int /\ t0 <= t1 /\ t1 <= now
    BY <2>2, <2>3 DEF Inv, Messages
  <2>5. Messages'
    BY <2>1, <2>3, <2>4, NtpAssumption DEF Inv, Messages
  <2> QED BY <2>1, <2>5 DEF Inv, Ring, Logged, InUse, clock
<1>6. CASE ReceiveResponse
  <2>1. CASE UNCHANGED <<clock, responses>>
    BY <1>6, <2>1 DEF ReceiveResponse, Inv, Messages, Ring, Logged, InUse, clock
  <2>2. CASE ~UNCHANGED <<clock, responses>>
    <3>1. PICK r \in responses :
            LET s == [offset |-> Offset(r, now), delay |-> Delay(r, now)]
            IN /\ responses' \in {responses, responses \ {r}}
               /\ log' = LastN(Append(log, s))
               /\ data_index' = NextIndex(data_index)
               /\ data' = [data EXCEPT ![data_index'] = s]
      BY <1>6, <2>2 DEF ReceiveResponse
    <3>2. PICK i \in Best(data') : sync_offset' = data'[i].offset
      BY <1>6, <2>2 DEF ReceiveResponse
    <3> DEFINE s == [offset |-> Offset(r, now), delay |-> Delay(r, now)]
    <3>3. Good(s)
      BY SampleGood DEF Inv
    <3>4. Ring' /\ Logged' /\ log' # <<>>
      <4> HIDE DEF s
      <4> QED BY <3>1, <3>3, SampleStep DEF s
    <3>5. BestIsLogged'
      <4>1. (Ring /\ Logged /\ log # <<>> => BestIsLogged)'
        BY BestLogged, PTL
      <4> QED BY <3>4, <4>1
    <3>6. InUse'
      <4>1. PICK k \in 1 .. Len(log') :
              /\ data'[i] = log'[k]
              /\ \A l \in 1 .. Len(log') : log'[k].delay <= log'[l].delay
        BY <3>2, <3>5 DEF BestIsLogged
      <4>2. log'[k].offset \in Int
        BY <3>4, <4>1 DEF Logged, Good, Sample
      <4> QED BY <3>2, <4>1, <4>2 DEF InUse
    <3>7. UNCHANGED <<now, requests>> /\ responses' \subseteq responses
      BY <1>6, <3>1 DEF ReceiveResponse
    <3>8. Messages'
      BY <3>7 DEF Inv, Messages
    <3> QED BY <3>4, <3>6, <3>8 DEF Inv
  <2> QED BY <2>1, <2>2
<1>7. CASE CheckRunning \/ Wait \/ Exit \/ HttpdReturns \/ StartLock \/ StopLock
  BY <1>1, <1>7 DEF CheckRunning, Wait, Exit, HttpdReturns, StartLock, StopLock, Start,
     StopUnlock, Signal, CloseSocket, Join, Free, network
<1>8. CASE UNCHANGED vars
  BY <1>1, <1>8 DEF vars
<1> QED
  BY <1>2, <1>3, <1>4, <1>5, <1>6, <1>7, <1>8 DEF Next, Thread

LEMMA InvImplies == Inv => BestOfLastN /\ ClockError
<1> SUFFICES ASSUME Inv, log # <<>>
             PROVE  BestOfLastN /\ ClockError
  BY DEF BestOfLastN, ClockError
<1>1. PICK k \in 1 .. Len(log) :
        /\ sync_offset = log[k].offset
        /\ \A l \in 1 .. Len(log) : log[k].delay <= log[l].delay
  BY DEF Inv, InUse
<1>2. BestOfLastN
  BY <1>1 DEF BestOfLastN, Recent
<1>3. \A l \in 1 .. Len(log) : Good(log[l])
  BY DEF Inv, Logged
<1>4. ASSUME NEW l \in 1 .. Len(log)
      PROVE  LET s == log[l]
             IN /\ 2 * (convert_local_time(now) - (now + Theta)) \in -(s.delay + 1) .. s.delay + 1
                /\ 2 * (convert_remote_time(now + Theta) - now) \in -(s.delay + 1) .. s.delay + 1
  <2> DEFINE e == sync_offset - Theta
             a == log[k].delay
             b == log[l].delay
  <2>1. /\ a \in Int /\ b \in Int /\ a <= b /\ e \in Int
        /\ sync_offset \in Int /\ Theta \in Int /\ now \in Int
        /\ 2 * e \in -(a + 1) .. a + 1
    <3>1. Good(log[k]) /\ Good(log[l]) /\ sync_offset = log[k].offset /\ a <= b
      BY <1>1, <1>3
    <3>2. a \in Int /\ b \in Int /\ sync_offset \in Int
      BY <3>1 DEF Good, Sample
    <3>3. now \in Int /\ Theta \in Int
      BY NtpAssumption DEF Inv, Messages
    <3>4. 2 * (sync_offset - Theta) \in -(a + 1) .. a + 1
      BY <3>1 DEF Good
    <3> QED BY <3>1, <3>2, <3>3, <3>4
  <2>2. 2 * e \in -(b + 1) .. b + 1
    <3> HIDE DEF e, a, b
    <3> QED BY <2>1
  <2>3. /\ convert_local_time(now) - (now + Theta) = e
        /\ convert_remote_time(now + Theta) - now = -e
    BY <2>1 DEF convert_local_time, convert_remote_time
  <2>4. 2 * (-e) \in -(b + 1) .. b + 1
    <3> HIDE DEF e, a, b
    <3> QED BY <2>1, <2>2
  <2> HIDE DEF e
  <2> QED BY <2>2, <2>3, <2>4
<1>5. ClockError
  BY <1>4 DEF ClockError, Recent
<1> QED BY <1>2, <1>5

(* The offset in use is that of a sample with the shortest delay among the *)
(* last N.                                                                 *)
THEOREM OffsetIsBest == Spec => []BestOfLastN
<1>1. Spec => []Inv
  BY InitInv, StepInv, PTL DEF Spec
<1> QED BY <1>1, InvImplies, PTL

(* Times are converted with an error of at most half the shortest delay    *)
(* among the last N samples.                                               *)
THEOREM ClockErrorBounded == Spec => []ClockError
<1>1. Spec => []Inv
  BY InitInv, StepInv, PTL DEF Spec
<1> QED BY <1>1, InvImplies, PTL

-----------------------------------------------------------------------------
(* The life of the thread.  It runs until raop_ntp_stop clears running, and *)
(* nobody else does; what each thread holds of the mutex is told by where   *)
(* it is.                                                                   *)
Ending == {"exit", "exit_locked", "tail", "done"}

Stage ==
  \/ /\ call \in {"idle", "start", "stop"} /\ freed = FALSE
     /\ \/ thread = "none" /\ running = FALSE /\ joined = TRUE
        \/ /\ thread \notin Ending \cup {"none"} /\ call # "start"
           /\ running = TRUE /\ joined = FALSE
  \/ /\ call \in {"signal", "close", "join"} /\ thread # "none"
     /\ running = FALSE /\ freed = FALSE
  \/ /\ call = "free" /\ thread \in {"none", "done"}
     /\ running = FALSE /\ freed = FALSE
  \/ /\ call = "idle" /\ thread \in {"none", "done"}
     /\ running = FALSE /\ freed = TRUE

Holders ==
  /\ run_mutex = "httpd" <=> call \in {"start", "stop"}
  /\ run_mutex = "ntp" <=> thread \in {"locked", "exit_locked"}
  /\ run_mutex \in {"none", "httpd", "ntp"}

LEMMA InitStage == Init => Stage /\ Holders
BY DEF Init, Stage, Holders

LEMMA HttpdStage ==
  ASSUME Stage, HttpdReturns \/ StartLock \/ StopLock PROVE Stage'
<1> USE DEF Stage, Ending, Call
<1>1. CASE StartLock BY <1>1 DEF StartLock
<1>2. CASE Start BY <1>2 DEF Start
<1>3. CASE StopLock BY <1>3 DEF StopLock
<1>4. CASE StopUnlock BY <1>4 DEF StopUnlock
<1>5. CASE Signal BY <1>5 DEF Signal
<1>6. CASE CloseSocket BY <1>6 DEF CloseSocket
<1>7. CASE Join BY <1>7 DEF Join
<1>8. CASE Free BY <1>8 DEF Free
<1> QED BY <1>1, <1>2, <1>3, <1>4, <1>5, <1>6, <1>7, <1>8 DEF HttpdReturns

LEMMA ThreadStage == ASSUME Stage, Thread PROVE Stage'
<1> USE DEF Stage, Ending, Step
<1>1. CASE CheckRunning BY <1>1 DEF CheckRunning
<1>2. CASE Exit BY <1>2 DEF Exit
<1>3. CASE FlushSocket \/ SendRequest \/ ReceiveResponse \/ Wait
  <2>1. UNCHANGED <<running, joined, call, freed>>
    BY <1>3 DEF FlushSocket, SendRequest, ReceiveResponse, Wait, control
  <2>2. {thread, thread'} \cap (Ending \cup {"none"}) = {}
    BY <1>3 DEF FlushSocket, SendRequest, ReceiveResponse, Wait
  <2> QED BY <2>1, <2>2
<1> QED BY <1>1, <1>2, <1>3 DEF Thread

LEMMA HoldersStep == ASSUME Stage, Holders, [Next]_vars PROVE Holders'
<1> USE DEF Holders, Step, Call, Lock, Unlock
<1>1. CASE Start \/ StopUnlock \/ StartLock \/ StopLock
  BY <1>1 DEF Stage, Start, StopUnlock, StartLock, StopLock
<1>2. CASE Signal BY <1>2 DEF Signal
<1>3. CASE CloseSocket \/ Join \/ Free BY <1>3 DEF CloseSocket, Join, Free
<1>4. CASE CheckRunning BY <1>4 DEF CheckRunning
<1>5. CASE Exit BY <1>5 DEF Exit
<1>6. CASE FlushSocket \/ SendRequest \/ ReceiveResponse \/ Wait
  BY <1>6 DEF FlushSocket, SendRequest, ReceiveResponse, Wait, control
<1>7. CASE Tick \/ Answer \/ UNCHANGED vars
  BY <1>7 DEF Tick, Answer, vars, control
<1> QED BY <1>1, <1>2, <1>3, <1>4, <1>5, <1>6, <1>7 DEF Next, Thread, HttpdReturns

LEMMA StageStep == Stage /\ [Next]_vars => Stage'
<1>1. CASE Tick \/ Answer \/ UNCHANGED vars
  BY <1>1 DEF Tick, Answer, vars, control, Stage
<1> QED BY <1>1, HttpdStage, ThreadStage DEF Next

(* raop_ntp_destroy frees the clock only when its thread has ended and the *)
(* mutex is free, although its signal may be lost.                         *)
THEOREM NtpNoUseAfterFree == Spec => []NoUseAfterFree
<1>1. Stage /\ Holders => NoUseAfterFree
  BY DEF Stage, Holders, NoUseAfterFree, ThreadAlive
<1> QED BY <1>1, InitStage, StageStep, HoldersStep, PTL DEF Spec

(* The clock keeps to the life cycle that a connection relies on.          *)
LEMMA HttpdLife ==
  ASSUME Stage, HttpdReturns \/ StartLock \/ StopLock
  PROVE  Life!Next \/ UNCHANGED <<running, joined, LifeThread, LifeCall, freed>>
<1> USE DEF Call, LifeThread, LifeCall, Life!Ready
<1>1. CASE StartLock \/ StopLock \/ CloseSocket
  BY <1>1 DEF StartLock, StopLock, CloseSocket
<1>2. CASE Start
  <2>1. Life!Start \/ UNCHANGED <<running, joined, LifeThread, LifeCall, freed>>
    BY <1>2 DEF Start, Stage, Life!Start
  <2> QED BY <2>1 DEF Life!Next
<1>3. CASE StopUnlock
  <2>1. Life!Stop \/ UNCHANGED <<running, joined, LifeThread, LifeCall, freed>>
    BY <1>3 DEF StopUnlock, Stage, Life!Stop
  <2> QED BY <2>1 DEF Life!Next
<1>4. CASE Signal BY <1>4 DEF Signal
<1>5. CASE Join
  <2>1. Life!StopReturns BY <1>5 DEF Join, Stage, Life!StopReturns
  <2> QED BY <2>1 DEF Life!Next
<1>6. CASE Free
  <2>1. Life!DestroyStopped BY <1>6 DEF Free, Stage, Life!DestroyStopped
  <2> QED BY <2>1 DEF Life!Next
<1> QED BY <1>1, <1>2, <1>3, <1>4, <1>5, <1>6 DEF HttpdReturns

LEMMA ThreadLife ==
  ASSUME Thread
  PROVE  Life!Next \/ UNCHANGED <<running, joined, LifeThread, LifeCall, freed>>
<1> USE DEF Step, LifeThread, LifeCall
<1>1. CASE Exit
  <2>1. Life!ThreadEnds \/ UNCHANGED <<running, joined, LifeThread, LifeCall, freed>>
    BY <1>1 DEF Exit, Life!ThreadEnds
  <2> QED BY <2>1 DEF Life!Next
<1>2. CASE CheckRunning \/ FlushSocket \/ SendRequest \/ ReceiveResponse \/ Wait
  <2>1. UNCHANGED <<running, joined, call, freed>>
    BY <1>2 DEF CheckRunning, FlushSocket, SendRequest, ReceiveResponse, Wait,
                control
  <2>2. {thread, thread'} \cap {"none", "tail", "done"} = {}
    BY <1>2 DEF CheckRunning, FlushSocket, SendRequest, ReceiveResponse, Wait
  <2> QED BY <2>1, <2>2
<1> QED BY <1>1, <1>2 DEF Thread

(* Whatever the thread and the network do, start, destroy and the thread's *)
(* end happen in the order of SessionLife.                                 *)
THEOREM NtpIsSession == Spec => IsSession
<1>1. Init => Life!Init BY DEF Init, Life!Init, LifeThread, LifeCall
<1>2. Stage /\ [Next]_vars
        => [Life!Next]_(Life!vars)
  <2>1. CASE Tick \/ Answer \/ UNCHANGED vars
    BY <2>1 DEF Tick, Answer, vars, control, LifeThread, LifeCall, Life!vars
  <2> QED BY <2>1, HttpdLife, ThreadLife DEF Next, Life!vars
<1> QED BY <1>1, <1>2, InitStage, StageStep, PTL DEF Spec, IsSession, Life!Spec
=============================================================================
