------------------------------ MODULE RaopNtp ------------------------------
(***************************************************************************)
(* src/lib/lib/raop_ntp.c: the clock.  A thread asks the sender for its    *)
(* time every three seconds, keeps the last N answers and takes the offset *)
(* between the two clocks from the one with the shortest delay.  The httpd *)
(* thread starts it, and stops it when it destroys the connection.         *)
(*                                                                         *)
(* now is the local clock, now + Theta the sender's.  The network may      *)
(* lose, delay, reorder and repeat requests and answers.                   *)
(***************************************************************************)
EXTENDS Integers, Sequences, FiniteSets

CONSTANTS
  N,            \* RAOP_NTP_DATA_COUNT
  MaxDelay,     \* RAOP_NTP_MAX_DISP, the delay of a sample that is none
  Theta,        \* the offset between the clocks
  MaxTime,      \* bounds the time,
  MaxRequests,  \* the requests,
  MaxFlight,    \* the answers under way,
  MaxErrors,    \* the failures of system calls,
  MaxStops      \* and the ends of the connection (0 or 1)

ASSUME NtpAssumption ==
  /\ N \in Nat \ {0}
  /\ Theta \in Int
  /\ {MaxTime, MaxRequests, MaxFlight, MaxErrors, MaxStops} \subseteq Nat
  /\ MaxDelay \in Nat /\ MaxTime < MaxDelay

VARIABLES
  data, data_index,       \* the last samples
  sync_offset,
  running, joined,
  run_mutex,  \* who holds it: "none", "httpd" or "ntp"
  tsock,      \* "open", "closed", or "none" for -1
  thread,     \* where the ntp thread is; "none" before it is created
  call,       \* where the httpd thread is in start or destroy, else "idle"
  freed,      \* raop_ntp_destroy has freed the clock
  now,        \* the local clock
  requests,   \* the times of requests that were sent
  responses,  \* answers under way: [t0, t1, t2]
  log,        \* history: the last N samples, in the order they were taken
  asked, errors   \* counters of the bounded actions

clock   == <<data, data_index, sync_offset, log>>
control == <<running, joined, run_mutex, tsock, call, freed>>
network == <<now, requests, responses>>
vars == <<clock, control, thread, network, asked, errors>>

Index  == 0 .. N - 1
NoSample == [offset |-> 0, delay |-> MaxDelay]

ThreadAlive == thread \notin {"none", "done"}

Init ==
  /\ data = [i \in Index |-> NoSample] /\ data_index = 0
  /\ sync_offset = 0 /\ log = <<>>
  /\ running = FALSE /\ joined = TRUE /\ run_mutex = "none"
  /\ tsock = "none" /\ thread = "none" /\ call = "idle" /\ freed = FALSE
  /\ now = 0 /\ requests = {} /\ responses = {}
  /\ asked = 0 /\ errors = 0

Failure == errors < MaxErrors /\ errors' = errors + 1

-----------------------------------------------------------------------------
(* The httpd thread.  SETUP calls raop_ntp_start once, right after         *)
(* raop_ntp_init; the end of the connection calls raop_ntp_destroy.        *)

Call(from, to) == call = from /\ call' = to

Lock(who)   == run_mutex = "none" /\ run_mutex' = who
Unlock(who) == run_mutex = who /\ run_mutex' = "none"

(* raop_ntp_start: the socket and the thread, under the mutex              *)
StartLock ==
  /\ Call("idle", "start") /\ Lock("httpd")
  /\ thread = "none" /\ ~freed
  /\ UNCHANGED <<clock, running, joined, tsock, freed, thread, network, asked, errors>>

Start ==
  /\ Call("start", "idle") /\ Unlock("httpd")
  /\ \/ Failure /\ UNCHANGED <<running, joined, tsock, thread>>
     \/ /\ running' = TRUE /\ joined' = FALSE /\ tsock' = "open" /\ thread' = "check"
        /\ UNCHANGED errors
  /\ UNCHANGED <<clock, freed, network, asked>>

(* raop_ntp_destroy: raop_ntp_stop, which returns at once if the thread is *)
(* not running, and then free                                              *)
StopLock ==
  /\ Call("idle", "stop") /\ Lock("httpd")
  /\ ~freed /\ MaxStops > 0
  /\ UNCHANGED <<clock, running, joined, tsock, freed, thread, network, asked, errors>>

StopUnlock ==
  /\ Unlock("httpd")
  /\ Call("stop", IF running /\ ~joined THEN "signal" ELSE "free")
  /\ running' = FALSE
  /\ UNCHANGED <<clock, joined, tsock, freed, thread, network, asked, errors>>

(* COND_SIGNAL wakes the thread if it waits, and is lost if it does not.   *)
Signal ==
  /\ Call("signal", "close")
  /\ thread' = IF thread = "waiting" THEN "check" ELSE thread
  /\ UNCHANGED <<clock, running, joined, run_mutex, tsock, freed, network, asked, errors>>

CloseSocket ==
  /\ \/ call = "close" /\ tsock = "open" /\ tsock' = "closed" /\ UNCHANGED call
     \/ Call("close", "join") /\ tsock = "closed" /\ tsock' = "none"
  /\ UNCHANGED <<clock, running, joined, run_mutex, freed, thread, network, asked, errors>>

(* THREAD_JOIN; a mistake: stop goes on without it.                        *)
StopWithoutJoin ==
  /\ Call("join", "free")
  /\ run_mutex = "none" /\ joined' = TRUE
  /\ UNCHANGED <<clock, running, run_mutex, tsock, freed, thread, network, asked, errors>>
Join ==
  /\ Call("join", "free")
  /\ thread = "done"
  /\ run_mutex = "none" /\ joined' = TRUE
  /\ UNCHANGED <<clock, running, run_mutex, tsock, freed, thread, network, asked, errors>>

Free ==
  /\ Call("free", "idle")
  /\ freed' = TRUE
  /\ UNCHANGED <<clock, running, joined, run_mutex, tsock, thread, network, asked, errors>>

-----------------------------------------------------------------------------
(* The ntp thread: raop_ntp_thread.                                        *)

Step(from, to) == thread = from /\ thread' = to

(* The test of running under the mutex; a mistake: no test.                *)
CheckNothing ==
  /\ \/ Step("check", "locked") /\ Lock("ntp")
     \/ Step("locked", "flush") /\ Unlock("ntp")
  /\ UNCHANGED <<clock, running, joined, tsock, call, freed, network, asked, errors>>
CheckRunning ==
  /\ \/ Step("check", "locked") /\ Lock("ntp")
     \/ Step("locked", IF running THEN "flush" ELSE "exit") /\ Unlock("ntp")
  /\ UNCHANGED <<clock, running, joined, tsock, call, freed, network, asked, errors>>

(* raop_ntp_flush_socket: what has arrived by now is dropped.              *)
FlushSocket ==
  /\ Step("flush", "send")
  /\ \E arrived \in SUBSET responses :
       /\ tsock # "open" => arrived = {}
       /\ responses' = responses \ arrived
  /\ UNCHANGED <<clock, control, now, requests, asked, errors>>

(* sendto fails when stop has closed the socket.                           *)
SendRequest ==
  /\ \/ Step("send", "wait") /\ tsock # "open" /\ UNCHANGED <<requests, asked, errors>>
     \/ Step("send", "wait") /\ Failure /\ UNCHANGED <<requests, asked>>
     \/ /\ Step("send", "receive") /\ tsock = "open"
        /\ asked < MaxRequests /\ asked' = asked + 1
        /\ requests' = requests \cup {now}
        /\ UNCHANGED errors
  /\ UNCHANGED <<clock, control, now, responses>>

(* C's division by two, which rounds to zero                               *)
Half(x) == IF x >= 0 THEN x \div 2 ELSE -((-x) \div 2)

(* Mistakes in the offset, in the ring and in the choice of the sample.    *)
OffsetSwapped(r, t3) == Half((r.t1 - r.t0) + (t3 - r.t2))
SameIndex(i)   == i
LastSample(d)   == {i \in Index : \A j \in Index : d[j].delay <= d[i].delay}

(* The offset and the delay of an answer that is read at t3                *)
Offset(r, t3) == Half((r.t1 - r.t0) + (r.t2 - t3))
Delay(r, t3)  == (t3 - r.t0) - (r.t2 - r.t1)
NextIndex(i)  == (i + 1) % N
Best(d)       == {i \in Index : \A j \in Index : d[i].delay <= d[j].delay}

LastN(s) == IF Len(s) > N THEN Tail(s) ELSE s

(* recvfrom: an answer, the timeout of 300 ms, or an error when stop has   *)
(* closed the socket.  An answer is sorted in by its delay; qsort leaves   *)
(* open which of several samples with the same delay comes first.  (The    *)
(* code looks neither at its length nor at its type: answers are whole.)   *)
ReceiveResponse ==
  /\ Step("receive", "wait")
  /\ \/ UNCHANGED <<clock, responses>>
     \/ /\ tsock = "open"
        /\ \E r \in responses :
             LET sample == [offset |-> Offset(r, now), delay |-> Delay(r, now)]
             IN /\ responses' \in {responses, responses \ {r}}
                /\ log' = LastN(Append(log, sample))
                /\ data_index' = NextIndex(data_index)
                /\ data' = [data EXCEPT ![data_index'] = sample]
        /\ \E i \in Best(data') : sync_offset' = data'[i].offset
  /\ UNCHANGED <<control, now, requests, asked, errors>>

(* pthread_cond_timedwait returns after three seconds at the latest.       *)
Wait ==
  /\ Step("wait", "waiting") \/ Step("waiting", "check")
  /\ UNCHANGED <<clock, control, network, asked, errors>>

Exit ==
  /\ \/ Step("exit", "exit_locked") /\ Lock("ntp") /\ UNCHANGED running
     \/ Step("exit_locked", "tail") /\ Unlock("ntp") /\ running' = FALSE
     \/ Step("tail", "done") /\ UNCHANGED <<run_mutex, running>>
  /\ UNCHANGED <<clock, joined, tsock, call, freed, network, asked, errors>>

-----------------------------------------------------------------------------
(* Time, the network and the sender.                                       *)

Tick ==
  /\ now < MaxTime
  /\ now' = now + 1
  /\ UNCHANGED <<clock, control, thread, requests, responses, asked, errors>>

(* A request of time t0 reaches the sender at t1, and the answer leaves    *)
(* now.  A request that is never answered is lost.                         *)
Answer ==
  /\ \E t0 \in requests : \E t1 \in t0 .. now :
       responses' = responses \cup {[t0 |-> t0, t1 |-> t1 + Theta, t2 |-> now + Theta]}
  /\ Cardinality(responses') <= MaxFlight
  /\ UNCHANGED <<clock, control, thread, now, requests, asked, errors>>

-----------------------------------------------------------------------------
Thread ==
  \/ CheckRunning \/ FlushSocket \/ SendRequest \/ ReceiveResponse \/ Wait \/ Exit

HttpdReturns ==
  \/ Start \/ StopUnlock \/ Signal \/ CloseSocket \/ Join \/ Free

Next == Thread \/ HttpdReturns \/ StartLock \/ StopLock \/ Tick \/ Answer

Spec == Init /\ [][Next]_vars

(* Both threads keep running: recvfrom and the wait have timeouts.  The    *)
(* httpd thread gets the mutex in the end, because the ntp thread sleeps   *)
(* between its turns.                                                      *)
Fairness == WF_vars(Thread) /\ SF_vars(HttpdReturns)
FairSpec == Spec /\ Fairness

-----------------------------------------------------------------------------
(* raop_ntp_convert_local_time and raop_ntp_convert_remote_time            *)
convert_local_time(local)   == local + sync_offset
convert_remote_time(remote) == remote - sync_offset

(* Every variable has the type its declaration in the code gives it.       *)
Sample == [offset : Int, delay : Int]
TypeOK ==
  /\ data \in [Index -> Sample] /\ data_index \in Index
  /\ sync_offset \in Int /\ log \in Seq(Sample)
  /\ {running, joined, freed} \subseteq BOOLEAN
  /\ run_mutex \in {"none", "httpd", "ntp"}
  /\ tsock \in {"open", "closed", "none"}
  /\ thread \in {"none", "check", "locked", "flush", "send", "receive", "wait",
                 "waiting", "exit", "exit_locked", "tail", "done"}
  /\ call \in {"idle", "start", "stop", "signal", "close", "join", "free"}
  /\ now \in Nat /\ requests \subseteq 0 .. now
  /\ \A r \in responses : /\ r.t0 \in 0 .. r.t1 - Theta
                           /\ r.t2 \in r.t1 .. now + Theta
  /\ {asked, errors} \subseteq Nat

(* The samples that count: the last N that were taken                      *)
Recent == {log[k] : k \in 1 .. Len(log)}

(* The offset in use is that of a sample with the shortest delay among the *)
(* last N, however the ring has been filled.                               *)
BestOfLastN ==
  log # <<>> =>
    \E s \in Recent : sync_offset = s.offset /\ \A q \in Recent : s.delay <= q.delay

(* A local time is converted to the sender's with an error of at most half *)
(* the shortest delay among the last N samples, and back again, whatever   *)
(* the network does: late, repeated and overtaken answers only add delay.  *)
ClockError ==
  log # <<>> =>
    \A s \in Recent :
      /\ 2 * (convert_local_time(now) - (now + Theta)) \in -(s.delay + 1) .. s.delay + 1
      /\ 2 * (convert_remote_time(now + Theta) - now) \in -(s.delay + 1) .. s.delay + 1

(* The clock is freed only when its thread has ended, and the mutex is not *)
(* held then.                                                              *)
NoUseAfterFree == freed => ~ThreadAlive /\ run_mutex = "none"

(* The clock keeps to the life cycle that a connection relies on: destroy  *)
(* is a stop, and then a free of a clock that is stopped.                  *)
LifeThread == IF thread \in {"none", "tail", "done"} THEN thread ELSE "loop"
LifeCall   == IF call \in {"signal", "close", "join"} THEN "stop" ELSE "idle"
Life == INSTANCE SessionLife WITH thread <- LifeThread, call <- LifeCall
IsSession == Life!Spec

(* raop_ntp_destroy returns, also when its signal was lost or the sender   *)
(* does not answer.                                                        *)
StopTerminates == call # "idle" ~> call = "idle"
=============================================================================
