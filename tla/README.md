# Verification of the AirPlay receiver

The repository is an AirPlay receiver for Android: a C library
(`src/lib/lib`) that speaks RTSP, RTP and NTP with the sender, a C++ layer that
publishes it over mDNS and hands frames on (`src/lib/*.cpp`), and a Java player.
This directory holds TLA+ models of its concurrent and stateful core, the TLC
runs that check them and TLAPS proofs about them.

## Inventory

| Part | State | Operations | Talks to |
|---|---|---|---|
| Jitter buffer, `raop_buffer.c` | ring of 32 entries, `first_seqnum`, `last_seqnum`, `is_empty` | enqueue, dequeue, handle_resends, flush | called by the audio thread only |
| Audio session, `raop_rtp.c` | buffer, mailbox (volume, flush, metadata, cover, progress), `running`, `joined`, two UDP sockets, clock offset | start_audio, set_*, flush, stop, destroy; a thread | httpd thread through `run_mutex`; sender over UDP; renderer callbacks |
| Mirror session, `raop_rtp_mirror.c` | listening and stream socket, a half-read packet, `running`, `joined` | start_mirror, stop, destroy; a thread | sender over TCP; `mirror_buffer.c`; video callback |
| Mirror cipher, `mirror_buffer.c` | AES-CTR context, leftover keystream | init_aes, decrypt | called by the mirror thread |
| Clock, `raop_ntp.c` | 8 samples, `sync_params`, `running`, `joined`, condition variable | start, stop, conversions; a thread | sender over UDP; both sessions read the clock |
| RTSP connection, `raop.c`, `raop_handlers.h` | pointers to the clock and the sessions, pairing, FairPlay | one handler per request, conn_destroy | httpd callbacks |
| Pairing, `pairing.c` | status, keys | handshake, signature, finish | handlers |
| FairPlay, `fairplay_playfair.c` | key message | setup, handshake, decrypt | handlers |
| HTTP server, `httpd.c` | connection table, `running`, `joined` | start, stop, destroy; a thread with one select loop | callbacks conn_init, conn_request, conn_destroy of `raop.c` |
| HTTP messages, `http_request.c`, `http_response.c` | url, headers, data | callbacks of the parser `llhttp`, build | httpd |
| mDNS, `MDNSClient.cpp`, `HHMDNSDriver.cpp`, `dnssd.c` | one context per browse: references, thread, `running`; the published services | start and stop a browse, callbacks; publish | the system's responder and its thread; the user interface |
| Start-up, `airplay.cpp` | globals raop, dnssd | HHAirPlayStart, HHAirPlayStop | all of the above |
| Java player | packet queues, codec, timestamp state | start, stop, addPacker, doSomeWork | nobody: `AVPlayer.start()` (`RaopServer.java:116`) and the JNI callbacks for data (`jni_raop_server.cpp:45-75`) are commented out |

What is hard about it: four threads (the httpd thread, and one each for audio,
video and the clock) that share sessions through two flags, `running` and
`joined`; one thread that serves all senders, and must not wait for any of them;
requests that arrive in pieces; packets that arrive late, twice, out of order or not at all, with
numbers that wrap; a TCP stream that arrives in pieces and breaks off anywhere;
a cipher that must stay at the same place as the sender's; sessions that are
started, fail and are stopped in every order; three threads without a lock in
the mDNS client. What makes each part correct is
stated by its properties below, and `PROJECT.json` lists the hazards line by
line.

## Modules

| Module | Models | How it corresponds to the code |
|---|---|---|
| `RaopBuffer` | `raop_buffer.c` | The buffer is a record (`is_empty`, `first`, `last`, `entries`); each function of the file is an operator from buffer to buffer, in the steps of the C function (`TooLate`, `Overruns`, `Duplicate`, `Store`). An entry's pointer is a live block, none, or one that was freed. |
| `RaopBufferCalls` | the same | A specification that calls these operators in every order with every number. |
| `RaopRtp` | `raop_rtp.c` | `thread` is the program counter of `raop_rtp_thread_udp`, `call` that of the httpd thread inside `raop_rtp_stop` or `raop_rtp_destroy`. `TakeMail` is the part of `raop_rtp_process_events` under the mutex, `ApplyMail` the part after it. The sender and UDP are actions of the environment. |
| `AudioDelivery` | - | What the audio path promises; `RaopRtp` implements it (`InOrder`). |
| `RaopRtpMirror` | `raop_rtp_mirror.c` | `thread` is the program counter of `raop_rtp_mirror_thread`, one value for each place where another thread or the network can come in between. Bytes are units `<<n, k>>` of frame `n`; `recv` takes what has arrived. |
| `VideoDelivery` | - | What the mirror session promises; `RaopRtpMirror` implements it (`FramesInOrder`). |
| `MirrorBuffer` | `mirror_buffer.c` | A byte is decrypted right if it meets the position of the key stream it was encrypted with, so the model keeps positions: those `aes_ctx` has produced, those kept in `og`, and those used for the last payload. |
| `RaopNtp` | `raop_ntp.c` | The ring of samples, the offset, the mutex, the condition variable and the program counters of the ntp thread and of `raop_ntp_start`, `raop_ntp_stop` and `raop_ntp_destroy`. |
| `SessionLife` | - | What the audio session, the mirror session, the clock and the server have in common: one thread, started, stopped, joined and freed by another through `running` and `joined`. `RaopRtp`, `RaopRtpMirror`, `RaopNtp` and `Httpd` implement it (`IsSession`). |
| `RaopConn` | `raop.c`, SETUP in `raop_handlers.h` | The pointers of one connection and the clocks and sessions its SETUPs have created. A handler runs in the httpd thread: SETUP is one step for each thing it creates or starts, TEARDOWN and `conn_destroy` leave in `todo` the calls they have still to make, and `joining` says that the first of them is in `THREAD_JOIN`. A thread is reduced to the life cycle of `SessionLife` (`EachIsSession`) and to the places where it may read the clock. |
| `HttpRequest` | `http_request.c` | A request is a record, and each callback of the parser an operator on it. `AddData` applies them to the pieces that one `recv` has brought. |
| `Httpd` | `httpd.c`, `raop_start` and `raop_stop` | `thread` is the place in `httpd_thread`: the select, the accept, the loop over the table (`serve`, with `at` and `rfds` its local variables), the callback `conn_request` (`handle`), and the end. A slot of the table is an `http_connection_t`; `sock` is what the kernel has under a descriptor, so that descriptors are used again as `accept` does it. `life` records what `conn_init` and `conn_destroy` were called on. Senders connect, send their requests a piece at a time, close and reset. |
| `Pairing` | `pairing.c`, `fairplay_playfair.c`, their handlers, the keys in SETUP | Ideal cryptography: a secret is the pair of keys it comes from. Each request is one action, as the httpd thread handles it. The sender waits for answers but begins, repeats and breaks off exchanges as it likes. |
| `MDNSClient` | `MDNSClient.cpp` | The context of a browse, the place of the user interface's thread inside a start or stop (`ui`), of the browse thread (`thread`) and of the responder's thread (`callback`). What the responder has given out and not taken back is in `browsing` and `resolving`. |
| `MC...` | - | Values of the constants for TLC. |
| `...Lemmas`, `...Proofs` | - | The theorems about the module of that name; `MirrorProofs` has those about `RaopRtpMirror`, `MirrorBuffer` and `Pairing`. |

Operators under a comment that says "mistake" are not part of any
specification: they are forms of a definition that a plausible bug would give
it. Each property is paired in `PROJECT.json` with one that breaks it.

## Runs

| Run | Configuration | Question |
|---|---|---|
| `buffer` | `MCRaopBufferCalls.cfg` | Does the ring stay one window, does dequeue return the right packet, is no block lost, and does a resend request name only what is missing, under every sequence of calls? |
| `rtp_packets` | `RaopRtp_packets.cfg` | With loss, repetition and reordering, a volume change or a FLUSH, stop and destroy, without resends (as the handlers start it) and with them: is what is played a subsequence of the stream, and does a request ask for the hole at the head of the buffer and for nothing else? |
| `rtp_session` | `RaopRtp_session.cfg` | Two sessions, a failing `select` or `socket`, two commands: do the thread's sockets outlive it, does stop return, does the last command of each kind reach the callbacks, and does the session keep to `SessionLife`? |
| `rtp_stream` | `RaopRtp_stream.cfg` | Over a network that loses and reorders nothing, is every packet played across the wrap of the numbers and a volume change? |
| `rtp_flush` | `RaopRtp_flush.cfg` | Violated: a FLUSH does not empty the buffer. |
| `mirror_sessions` | `RaopRtpMirror_sessions.cfg` | Two sessions, two connections each, every cut of the stream, connections that end or break anywhere, a failing system call: is what is handled a prefix of what was sent, is every frame handled that nothing cuts off, is the socket open as long as the session runs, does the thread of a freed session do nothing but write its last line, does stop return, and does the session keep to `SessionLife`? |
| `cipher_stream` | `MirrorBuffer_stream.cfg` | Payloads of 0 to 33 bytes, none shorter than the rest of a block before it, and two keys: is every byte decrypted at its position? |
| `ntp` | `RaopNtp_clock.cfg` | Delayed, repeated, overtaken and lost answers, destroy at any moment: is the offset the best of the last samples, is its error bounded, does destroy return, and does the clock keep to `SessionLife`? |
| `conn` | `RaopConn_life.cfg` | SETUP, TEARDOWN and the end of a connection in every order, with threads that end by themselves and starts that fail: does a handler find live sessions behind the pointers, is each session used as `SessionLife` allows, does the clock outlive its readers while the connection is open, and does a connection that ends free what its last SETUP created? |
| `httpd` | `Httpd_serve.cfg` | Three senders, a table of two, requests cut anywhere, closed and reset connections, failing calls, stop and destroy at any moment: do table, count, descriptors and connections agree, does the thread never wait for one sender, do requests arrive as they were sent, is each answered, does a full table lose nobody, and does the server keep to `SessionLife`? |
| `pairing` | `Pairing_keys.cfg` | Pairing, fp-setup, SETUP and TEARDOWN in every order, repeated and broken off: does pair-verify ever answer with garbage, and does the receiver derive each stream's key from what the sender has? |
| `mdns` | `MDNSClient_browse.cfg` | A browse that is started, fails, is stopped at any moment and started again while services come and go: can a start always be made safely, is each reference held or freed once, and does a stop return? |

No run repeats the type invariants: they are proved. (`HttpRequest` has no
variables.)

### Bounds

* Ring and numbers: `L = 4`, `M = 12` in `buffer`, `L = 3`, `M = 12` in `rtp_packets`,
  `L = 2`, `M = 6` in the other runs of `RaopRtp`. As in the code `L` divides `M` and
  is less than half of it; streams start just before the wrap and are longer than
  the ring. A hole at the head counts the packet behind it, and a hole as long as
  the ring is skipped before the thread looks for resends (`raop_buffer.c:272`): with
  `L = 2` nothing is ever asked for. With `L = 3` one packet is asked for at a time,
  holes are filled by resent packets as well as skipped, and a late packet comes
  while its slot awaits a later one; TLC finds each of these. Requests of several numbers
  occur in `buffer`, and `RtpAsksForHoles` covers them in a session.
* `MaxDelay` keeps a packet from arriving half the numbers after it was sent.
  In the code that is more than four minutes of audio; beyond it a number means
  another packet, and no receiver could tell.
* `MaxCommands`, `MaxStarts`, `MaxErrors`, `MaxConns` count what would be
  unbounded. Two commands are needed to overwrite one in the mailbox and for a
  FLUSH to meet a volume change; two sessions and two connections to meet what
  the first has left behind.
* A header has two units, its first and its last, and a payload up to two: every
  cut inside a header, between the two and inside a payload occurs.
* Payload lengths 0 to 33 give every remainder of a block of 16 with no, one and
  two whole blocks; 80 bytes chain several of them. A payload that is shorter than
  what is left of the last block is left out (`ShortPayloads`).
* Two SETUPs (`MaxSetups`) are the least that make a connection forget sessions;
  with one failure (`MaxErrors`) a thread ends by itself or a start fails.
* `httpd`: three senders on a table of two are the least that fill it and leave one
  waiting. One sends two requests, the first with the name of a header in two
  parts, the second with a body and an answer that disconnects; one sends a
  request that gets no answer; one only connects. A `recv` takes two pieces, so
  every cut between pieces occurs and both more and less than a `recv` can wait.
  One start (`MaxStarts`): a thread that has ended leaves an empty table behind
  (`TableOK`), which is what the first start begins with, and the theorems hold
  for every number of starts.
* `pairing`: four keys and messages and two SETUPs: an exchange before, between and
  after them can be repeated. Two values of `streamConnectionID` tell streams
  apart.
* `mdns`: two services, three starts and three resolves: one is found again while
  its resolve is on, after a failure and after a stop.
* The ring of the clock has two samples in the run, so that three requests wrap
  it; the theorems hold for every size.

### Fairness

* `WF(Thread)` for each thread: `select`, `recv`, `recvfrom` and the timed wait
  all return by their timeouts, so a thread always goes on.
* `WF(StopReturns)`, `WF(CloseSocket)`: the httpd thread goes on once the thread
  it joins has ended. No request is assumed to arrive.
* `SF(HttpdReturns)` in `RaopNtp`: the httpd thread waits for `run_mutex`, which
  the ntp thread holds again and again, but for a few instructions in three
  seconds.
* `Httpd`: the server's thread (`select` has a timeout, and the thread never blocks
  in `recv`, which is `NeverBlocks`) and the return from `THREAD_JOIN`. Senders may
  be silent for ever. `EveryRequestAnswered` speaks of requests that have arrived
  completely, `WaitingAccepted` assumes that there is room again and again.
* `MDNSClient`: the steps of a stop, of the browse thread, and of a start that has
  cleaned up. The responder may be silent; nobody has to press a button.
* `RaopConn`: the threads of all sessions, the calls of a handler once their
  threads have ended, and `Close` after a handler has asked for the
  disconnection, since httpd looks at that flag when the handler has returned
  (`httpd.c:327`). No request is assumed to arrive. The `send` of a response
  (`httpd.c:319`) blocks for as long as the sender does not read; that it returns
  is assumed here.
* `rtp_stream` adds that the sender goes on sending and that `select` reports a
  socket that has data (strong, since the model lets the timeout come first).

## Proofs

All theorems hold for every value of the constants that satisfies the named
assumptions (`BufferAssumption`, `RtpAssumption`, `MirrorAssumption`,
`CipherAssumption`, `NtpAssumption`, `ConnAssumption`, `HttpdAssumption`,
`PairingAssumption`, `MDNSAssumption`); what a theorem assumes beyond them is
said here and in its statement. `RequestsAssumption` says what a request is: each
header has a name and a value, and each of these has at least one part. A value may
be empty: `llhttp` calls `on_header_value` for it too, with length 0, which is the
part that is the empty text.

* **The ring** (`RaopBufferLemmas`, `RaopBufferProofs`). `WindowOf` says that the
  numbers between `first` and `last` are at most `L`, that a filled entry lies
  among them, in the slot of its number, with a live block, and that an empty
  entry owns no block. It is inductive on its own: enqueue either rejects a
  number, or makes room by a flush to that number, or finds it inside of the
  window of `L` numbers from `first`; there `SlotInjective` gives it a slot that
  no other number of the window has. `TypeCorrect`, `WindowInvariant`,
  `BlocksAccounted` (one more or one less live slot for each block that is
  allocated or handed over) and `DequeueInOrder` follow. `ResendsMissing` adds that
  the last number is less than `L` ahead of the first, so that a request has a
  count below `L`, and that it ends before the first filled entry; that there is a
  first one (`LeastOf`) comes from the well-foundedness of strict subsets.
* **The audio session** (`RaopRtpProofs`). The same lemmas, applied to each action
  of the thread, give `RtpTypeCorrect` and `RtpWindow`. `RtpSockets` is inductive
  as it stands. `RtpNoUseAfterFree` needs `MaxErrors = 0`: the strengthening
  `OnlyStopEnds` says that a thread that ends has the httpd thread waiting for
  it. Without the assumption the statement is false, see below.
* **The order of playing** (`RtpPlaysInOrder`, `RtpAsksForHoles`, in the same
  module). That `RaopRtp` implements `AudioDelivery` needs the place of the buffer
  in the stream, which no variable has: `InPlace` says that there is a position `f`
  behind everything that was played, whose number is `first`, such that the
  entries hold the packets that lie as far behind `f` as their numbers lie behind
  `first`, and that all numbers up to `last` were sent, and it bounds by `far` how
  many packets were sent from `f` on. A buffer that was flushed to a number and has
  taken no packet since (`Untouched`) has no such bound and needs none: it stands at
  the latest position with its number. The lemmas up to `DequeuedInPlace` show that
  each function of `raop_buffer.c` keeps this; `Compared` is what they rest on: a
  comparison of 16-bit numbers is one of positions as long as these are close.
  `Placing` adds that packets arrive before `MaxDelay` more are sent, and that a
  flush in the mailbox goes to a number that was sent. The theorems speak of streams
  of any length, with rounds of numbers without end. In these they need a
  hypothesis: `InOrder` is false without one (see below). The history
  variable `gap` counts the packets that were sent since the buffer took one
  (`CountsGap`, which restricts no step of the session), and `KeepsUp` says that
  `MaxDelay + L + gap` is at most `M`, that is, that the buffer does not go without
  a packet for about a round; in a stream of at most `M` packets it always holds.
  `RtpAsksForHoles` needs `PlaysOn` as well: numbers that were played are told from
  those of the hole only if the last packet played is not half a round behind.
  TLC has checked the invariant and both properties on a stream of 14 packets with
  `L = 3` and `M = 12` from which states that violate the hypotheses were cut off,
  and finds `InOrder` violated on the same stream when they are not.
* **The mirror session** (`MirrorProofs`). `Lifecycle` (running implies
  that nobody is in stop, the socket is open, and there is one thread) gives
  `MirrorListens` and `MirrorOneThread` without any types. `MirrorTypeCorrect`
  needs `InFrame` (where the thread is tells whether header and payload are
  complete) and `Waiting` (accept finds the connection that select saw).
  `MirrorFreedThreadOnlyLogs` adds `Freeing`: a thread that has not cleared `running`
  finds it set or has a stop waiting for it, so that no destroy passes it by. A thread
  that has cleared it by itself is passed by: it may use the freed session for its last
  line in the log, and for nothing else. When stop has joined the thread,
  `OneThread` says that there is none.
* **The frames** (`MirrorFramesInOrder`, in the same module). `RaopRtpMirror`
  implements `VideoDelivery`. The invariant speaks of what the thread still has
  before it on each connection (`unread`: the part of a frame it has read and the
  bytes behind it). While the session listens this is a piece of the sender's
  stream without a gap (`Streams`, `Known`, `Continues`), no frame is on two
  connections (`Apart`), what was handled comes before all of it (`NotYet`), and
  a frame that was sent and not handled is in it, behind nothing that was sent
  later (`InTurn`, `NoneLost`), unless a reset has lost it, at which the thread
  ends. Then a frame the thread completes is the next one that was sent
  completely.
* **The cipher** (`MirrorProofs`). `Synchronised` relates the positions the
  receiver's cipher has produced to the sender's position; it is inductive, and
  `DecryptsWholeStream` follows from it one payload later. Both assume
  `~ShortPayloads`.
* **The keys** (`MirrorProofs`). `BothHold`: what the sender took from a completed
  pair-verify or fp-setup is what `pairing_session_t` and `fairplay_t` hold, also
  after a message that was refused. `SessionHolds`: what the sender sent with a
  SETUP is what the session copied, and a stream that began keeps its cipher.
  `VerifyAnswers` and `SameStreamKeys` follow.
* **The clock** (`RaopNtpProofs`). `Logged` says that the ring, read backwards from
  `data_index`, is the list of the last samples, and that each of them has an
  error of at most half its delay, which is where the bounds on the four times
  of an exchange go in. `OffsetIsBest` and `ClockErrorBounded` follow. Its life
  cycle (`NtpNoUseAfterFree`) rests on where each of the two threads is: the httpd
  thread is past the join only when the ntp thread is past its loop.
* **The server** (`HttpdProofs`). `Inv` has six parts. `TableTyped` and `WireTyped`
  say what the records hold. `TableAgrees` is `TableOK` without its last conjunct,
  and says that no connection has two slots; `OnePlace` says that a connection is not in the table and in the backlog, nor
  twice in the backlog. `AtWork` is what the thread relies on where it is: a
  connection to accept and room for it, a slot in use. `AheadIncoming` is what `NeverBlocks`
  needs: a connection that select has reported and the loop has not come to is
  still the same connection, and still has something to report. It holds because
  only `accept` reuses a descriptor, `accept` uses one that was not in the set,
  and closing a connection takes it off the loop's way. That a lowest slot
  exists (`LowestOf`) comes from the well-foundedness of strict subsets, and that
  `accept` finds a place (`PlaceFor`) from the pigeonhole principle.
* **A request as it was sent** (`HttpdProofs`, `HttpdRequestAsSent`). `InPieces`
  says of each slot how far its request has come: of the stream of pieces that the
  sender sends, the first k are in the slot's request, the next up to m wait in the
  socket, and the sender has the rest or has left; in `conn_request` k is the whole
  stream. Or `recv` failed, and the request is the garbage behind the buffer. It is
  inductive because what the callbacks make of a part and then of the next is what
  they make of both (`AddDataConcat`), and because a request is complete at the end
  of its stream and not before (`NotBeforeTheEnd`). `StreamGives` then says what
  the callbacks make of a whole stream: names and values land alternately, each
  in the place after the last, however many parts they have. These lemmas are
  inductions over sequences. The library's induction theorem takes an operator as
  its parameter and cannot be cited here, so `SeqInduction` states it for a set of
  sequences and is proved from `LowestOf`; `AddData` and `HeaderPieces` are recursive
  functions, whose existence is proved the same way (`StepwiseFunction`).
* **Life cycles** (`RtpIsSession`, `MirrorIsSession`, `NtpIsSession`, `HttpdIsSession`). Each session
  maps to `SessionLife` by its flags, its thread and the call that waits for it,
  and each of its steps to a step of `SessionLife` or to none. No mapping needs a
  bound or `MaxErrors = 0`: that a thread which ended by itself is never joined is
  part of `SessionLife`.
* **The connection** (`RaopConnProofs`). `Inv` says which calls may be left in
  `todo` and what the pointers are then: while the connection is open, both
  sessions are set and live or neither is, but for the four places inside a
  TEARDOWN; in `conn_destroy`, what is left to destroy is live and named once.
  `ConnPointersLive` and `ConnTypeCorrect` follow from it. `ConnIsSession` shows
  step by step that every session lives as `SessionLife` says: SETUP starts only
  what passes `Startable`, and what a call stops or frees is live by `Inv`.
  `ConnClockInUse` adds `Clocks`: no clock is freed while the connection is open.
  `ConnLastSetupFreed` adds two: `Settled`, from the life cycle alone, says that a
  freed session stays freed with its thread past the loop; `Accounted` says that what
  the connection no longer points to of its last SETUP is freed, and that in
  `conn_destroy` the rest is still in `todo`.
* **The mDNS client** (`MDNSClientProofs`). `Flags` ties the context's flags to where
  the user interface and the browse thread are, and gives `MDNSStartIsSafe` in
  spite of every overlap. `Refs` says where each reference is that the responder
  has given out, and that it is in one place only; it holds until a stop
  overlaps with a browse that begins or with a callback (`overtaken`), and gives
  `MDNSRefsAccounted`.

Only model-checked: the liveness properties (`LastCommandApplied`,
`EveryPacketPlayed`, `EveryFrameHandled`, `ConnectionEnds`, `EveryRequestAnswered`,
`WaitingAccepted`, `StopReturns` and `StopTerminates`), because no prover here
handles fairness. Every other property of a passing run is stated by a theorem.

## What the code does that it does not say

One disagreement is kept as a run.

* `rtp_flush`: `raop_rtp_process_events` (`raop_rtp.c:319-330`) flushes the jitter
  buffer on a volume change and not on a FLUSH, which only reaches the renderer.

Others were met on the way. The models behave in the same way, and the
properties above are stated so that they say what holds in spite of it.

* `raop_buffer.c:320-323`: `raop_buffer_flush` frees blocks and keeps the pointers.
  `raop_rtp_stop` flushes last; the flush of the next start, or destroy, frees the
  blocks again unless a packet has taken the entry in between.
* `raop_rtp.c:484`: `no_resend` is annotated `// false`, but the control port that
  `raop_handlers.h:303` passes is always 0, so resends are off and a lost packet
  is skipped without a request.
* `raop_buffer.c:216`: after a volume change the next packet is accepted whatever
  its number, even one that was played already.
* `raop_buffer.c:216`: numbers of 16 bits do not tell rounds. If nothing fills the
  hole at the head of the buffer while a whole round of numbers passes (packets
  are lost, or are "no data" markers, which are not stored), a packet of the next
  round takes its place and is played before older ones; and after half a round
  without a packet to store the next one counts as too late, and so do all that
  follow it in the other half. Both were met with TLC: a stream of 15 packets with
  `L = 3`, `M = 12`, ten of them in a row markers, and one with `L = 2`, `M = 6` and
  three in a row. The run of `InOrder` and `AsksForHoles` therefore takes a stream
  shorter than `M` (2^16 in the code, about ten minutes of audio), the theorems one
  with which the buffer keeps up, and `EveryPacketPlayed` speaks of streams with fewer than `M \div 2`
  markers in a row.
* `raop_buffer.c:279-289`: a hole that is skipped ends the render loop
  (`raop_rtp.c:496`), and the packets behind it wait for the next data packet.
* `raop_rtp.c:519-521`, `raop_rtp_mirror.c:443-448`: a thread that ends by itself
  clears `running` and is never joined. Stop returns early from then on, every
  start is refused without a word, and destroy frees the session while the
  thread may still be writing to the log.
* `raop_rtp_mirror.c:499-502`: stop sets the listening socket to -1 while the
  thread may be about to pass it to `FD_SET`.
* `raop_rtp_mirror.c:261-264`: a connection that the sender closed is never closed
  on this side.
* `mirror_buffer.c:121-132`: after a payload shorter than what is left of the last
  block the receiver has lost its place in the key stream.
* `raop.c:235-237`: `conn_destroy` destroys the clock first and the sessions, whose
  threads may be reading it, after that. `ClockInUse` therefore speaks of open
  connections only.
* `raop_handlers.h:376-380`: a second SETUP with keys overwrites the pointers. What
  the first one created is never stopped nor freed; its threads run on, with a
  clock of their own. `LastSetupFreed` therefore speaks of the last SETUP.
* `raop_rtp.c:560`: start does not clear the mailbox. A command that came after the
  thread's last look is applied in the next session.
* `raop_rtp_mirror.c:382-390`: the size of the picture parameter set is computed with
  `& 2040` on the high byte and `& 255` on the sum, so a set of 256 bytes or more is
  cut to what remains of its size.
* `raop_handlers.h:412`: a SETUP of type 110 gives the cipher a new key also when
  the mirror thread runs and start is refused: the thread then decrypts the rest of
  its stream with the new key from its beginning, and the two threads use one
  cipher without a lock.
* `raop_handlers.h:365-369`: the result of `fairplay_decrypt` is not looked at. After an
  fp-setup that was only begun, a SETUP derives the stream's key from memory that
  nobody wrote. `StreamKeysAgree` speaks of senders that have completed both.
* `pairing.c:127-135`: `pairing_session_check_handshake_status` lets a request through
  only in the status SETUP, and the first message of pair-verify leaves it. The
  second is therefore always refused, with an answer that is empty and says 200,
  and the status FINISHED is never reached; nothing else tests it.
* `raop_ntp.c:423-426`: `tsock` is changed outside of `run_mutex`, although
  `raop_ntp.c:75` lists it among the members that are only edited under it.
* `httpd.c:292`: when `recv` fails, its -1 goes to the parser as a length. The model
  lets the parser find an error, the end of a request or neither (`BrokenOff`).
* `httpd.c:364-372`: a server thread that ends by itself clears `running` ("Ensure running
  reflects the actual state"), but `httpd_is_running` also looks at `joined`, which
  stays 0: the server is reported as running, a start returns 0 and does nothing,
  stop returns at once, and destroy frees the server while the thread may still be
  writing to the log. `SessionLife` allows it, as for the sessions.
* `raop.c:150`: a request without CSeq gets no answer, and its
  connection stays.
* `airplay.cpp:333`: `start_server` does not look at the result of `raop_start`; a server
  that could not bind is published with port 0. `stop_server` (`airplay.cpp:351`) ends
  the server before it takes the publication back.
* `MDNSClient.cpp:240-270`: a stop that comes before the browse thread has stored its
  reference (`MDNSClient.cpp:221`) leaves the browse on for good, with a callback whose
  context is gone. A callback that runs during a stop frees references that stop frees too, or
  reads the map that stop erases from: stop does not take `m_contextMutex`.
  `RefsAccounted` leaves these overlaps out; `StartIsSafe` and `StopReturns` hold in
  spite of them.
* `HHMDNSDriver.cpp:74`: `HHUnRegisterService` stops the browse for `_hhclient._tcp`,
  while what `HHRegisterService` started is the one for `_airplay._tcp`.

## Not modelled

* The rewriting of NAL lengths and of codec data in the mirror thread
  (`raop_rtp_mirror.c:317-423`), and the RTP timestamps of the audio packets: they are
  computations on one packet, without state.
* Malformed datagrams and a `recvfrom` that fails after `select`. The audio thread drops
  data packets of less than 12 bytes (`raop_rtp.c:483`) without rendering, but reads
  the bytes of a control packet whatever its length, and a resent one that is too
  short fails the assertions of `raop_buffer_enqueue`. The clock's thread looks neither at
  the length nor at the type of an answer (`raop_ntp.c:299`). The senders of the models
  send whole packets.
* The conversion between NTP and microseconds truncates up to one microsecond; the
  clock's model counts in one unit, so `ClockError` is exact up to that.
* Steps of the system clock, and the dispersion of the samples, which nothing
  reads.
* In the connection, the handlers that only read, or only post a command to the
  audio session (`RaopRtp` has the commands). An allocation that fails.
* In the server: what a sender does before its connection is accepted is modelled as if
  it did so right after; the backlog of 5 is longer than the model's senders are
  many; a `send` blocks for as long as the sender does not read, which is left to
  the assumption that a sender takes its answer; a sender does not send a request
  before it has the answer to the one before (httpd would append the second to the
  first if one `recv` brought both).
* `http_response.c` formats text into a buffer.
* In the mDNS client: publishing services (`RegisterService` is called only in
  comments, `HHMDNSDriver.cpp:46-51`), the texts handed on to the user interface, and
  the references of address queries, which their own callback frees. The name that a
  resolve's answer carries is taken to lead back to its entry in the table:
  `ExtractInstanceName` (`MDNSClient.cpp:503`) decodes only `\DDD`, and for a name with an
  escaped dot or backslash `RemoveResolveRef` finds nothing. The reference then stays in the
  table until the service is found again or the browse stops; it is still held once.
* `airplay.cpp` and `dnssd.c`: start-up is sequential, and a sender learns the port
  from the publication, which is its last step. `dnssd.c` fills TXT records.
* The Java player and its clock: nothing calls them with data, see the inventory.
* `playfair`, `llhttp`, the mDNS responder, plist and OpenSSL are third-party code,
  and make up most of the repository's lines. The renderers and the JNI layer hand
  data on and keep no state. `logger.c`, `netutils.c`, `byteutils.c`, `utils.c` and
  `crypto.c` are helpers; what matters of them is in the modules that call them.

## Plan

The components with state of their own are modelled: the buffer, the sessions, the
cipher, the clock, the connection that composes them, the server, pairing and the
mDNS client. What is left:

1. `RaopConn` with a reconnecting sender: two connections that `Httpd` serves one
   after the other, sharing the sender's ports.
2. Pipelined requests in `Httpd`, if the code comes to handle them.
