-------------------------- MODULE RaopBufferLemmas --------------------------
(***************************************************************************)
(* Lemmas about the operators of RaopBuffer, for every ring length L       *)
(* and every number M of sequence numbers with L | M, 2 | M and M > 2 * L. *)
(*                                                                         *)
(* The arithmetic is modulo M.  ModNear turns x % M into a case split for  *)
(* the numbers that occur (sums and differences of a few sequence          *)
(* numbers), after which everything is linear; SlotInjective is the one    *)
(* place where L | M matters.                                              *)
(***************************************************************************)
EXTENDS RaopBuffer, FiniteSetTheorems, WellFoundedInduction, TLAPS

-----------------------------------------------------------------------------
(* Arithmetic.                                                             *)

(* x % M for an x at most two rounds below and one round above the range.  *)
LEMMA ModNear ==
  ASSUME NEW x \in Int
  PROVE  /\ x >= 0 /\ x < M => x % M = x
         /\ x >= M /\ x < 2 * M => x % M = x - M
         /\ x >= -M /\ x < 0 => x % M = x + M
         /\ x >= -(2 * M) /\ x < -M => x % M = x + 2 * M
<1> M \in Nat \ {0} BY BufferAssumption
<1>1. x >= 0 /\ x < M => x % M = x OBVIOUS
<1>2. x >= M /\ x < 2 * M => x % M = x - M OBVIOUS
<1>3. x >= -M /\ x < 0 => x % M = x + M OBVIOUS
<1>4. x >= -(2 * M) /\ x < -M => x % M = x + 2 * M OBVIOUS
<1> QED BY <1>1, <1>2, <1>3, <1>4

(* Two numbers less than L apart (modulo M) in the same slot are equal.    *)
LEMMA SlotInjective ==
  ASSUME NEW s \in SeqNum, NEW t \in SeqNum,
         SlotOf(s) = SlotOf(t), (t - s) % M < L
  PROVE  s = t
<1> USE BufferAssumption DEF SeqNum, SlotOf
<1> DEFINE q == M \div L
           a == s \div L
           b == t \div L
<1>1. s = L * a + (s % L) /\ a \in Int OBVIOUS
<1>2. t = L * b + (t % L) /\ b \in Int OBVIOUS
<1>3. M = L * q /\ q \in Int OBVIOUS
<1>4. \A k \in Int : ~(0 < L * k /\ L * k < L) OBVIOUS
<1>5. CASE t >= s
  <2>1. t - s < L BY <1>5, ModNear
  <2>2. PICK k \in Int : t - s = L * k
    <3>1. t - s = L * (b - a) /\ b - a \in Int BY <1>1, <1>2
    <3> QED BY <3>1
  <2>3. ~(0 < t - s /\ t - s < L) BY <2>2, <1>4
  <2> QED BY <2>1, <2>3, <1>5
<1>6. CASE t < s
  <2>1. t - s + M < L /\ t - s + M > 0 BY <1>6, ModNear
  <2>2. PICK k \in Int : t - s + M = L * k
    <3>1. t - s + M = L * (b - a + q) /\ b - a + q \in Int
      BY <1>1, <1>2, <1>3
    <3> QED BY <3>1
  <2>3. ~(0 < t - s + M /\ t - s + M < L) BY <2>2, <1>4
  <2> QED BY <2>1, <2>3
<1> QED BY <1>5, <1>6

(* Distances from a third number determine the distance of two numbers.    *)
LEMMA ModDiff ==
  ASSUME NEW f \in SeqNum, NEW s \in SeqNum, NEW t \in SeqNum
  PROVE  LET u == (s - f) % M
             v == (t - f) % M
         IN (s - t) % M = IF u >= v THEN u - v ELSE u - v + M
<1> USE BufferAssumption DEF SeqNum
<1> DEFINE u == (s - f) % M
           v == (t - f) % M
<1>1. u = IF s >= f THEN s - f ELSE s - f + M BY ModNear
<1>2. v = IF t >= f THEN t - f ELSE t - f + M BY ModNear
<1>3. (s - t) % M = IF s >= t THEN s - t ELSE s - t + M BY ModNear
<1> QED BY <1>1, <1>2, <1>3

LEMMA ModRound ==
  ASSUME NEW x \in Int
  PROVE  (x + M) % M = x % M
<1> M \in Nat \ {0} BY BufferAssumption
<1> DEFINE q == x \div M
           r == x % M
<1>1. x = M * q + r /\ q \in Int /\ r \in 0 .. M - 1 OBVIOUS
<1>2. \A k \in Int, m \in 0 .. M - 1 : (M * k + m) % M = m OBVIOUS
<1> HIDE DEF q, r
<1>3. x + M = M * (q + 1) + r /\ q + 1 \in Int BY <1>1
<1>4. (x + M) % M = r BY <1>1, <1>2, <1>3
<1> QED BY <1>4 DEF r

LEMMA ModSucc ==
  ASSUME NEW x \in Int
  PROVE  (x + 1) % M = IF (x % M) = M - 1 THEN 0 ELSE (x % M) + 1
<1> M \in Nat \ {0} BY BufferAssumption
<1> DEFINE q == x \div M
           r == x % M
<1>1. x = M * q + r /\ q \in Int /\ r \in 0 .. M - 1 OBVIOUS
<1>2. \A k \in Int, m \in 0 .. M - 1 : (M * k + m) % M = m OBVIOUS
<1> HIDE DEF q, r
<1>3. CASE r = M - 1
  <2>1. x + 1 = M * (q + 1) + 0 BY <1>1, <1>3
  <2>2. (x + 1) % M = 0 BY <2>1, <1>1, <1>2
  <2> QED BY <2>2, <1>3 DEF r
<1>4. CASE r # M - 1
  <2>1. x + 1 = M * q + (r + 1) /\ r + 1 \in 0 .. M - 1 BY <1>1, <1>4
  <2>2. (x + 1) % M = r + 1 BY <2>1, <1>1, <1>2
  <2> QED BY <2>2, <1>4 DEF r
<1> QED BY <1>3, <1>4

(* One step of first shortens every distance from it by one. *)
LEMMA FirstMoves ==
  ASSUME NEW s \in SeqNum, NEW x \in Int, (x - s) % M > 0
  PROVE  (x - ((s + 1) % M)) % M = ((x - s) % M) - 1
<1> USE BufferAssumption
<1> DEFINE k == x - s - 1
           t == (s + 1) % M
<1>0. s \in Int /\ s >= 0 /\ s < M BY DEF SeqNum
<1>1. k \in Int /\ x - s = k + 1 BY <1>0
<1>2. (k + 1) % M = IF (k % M) = M - 1 THEN 0 ELSE (k % M) + 1
  BY <1>1, ModSucc
<1>3. k % M = ((x - s) % M) - 1
  <2>1. k % M \in Int BY <1>1
  <2> QED BY <1>1, <1>2, <2>1
<1>4. (x - t) % M = k % M
  <2>1. CASE s = M - 1
    <3>1. t = 0 BY <2>1, ModNear
    <3>2. x - t = k + M BY <2>1, <3>1
    <3>3. (k + M) % M = k % M BY <1>1, ModRound
    <3> QED BY <3>2, <3>3
  <2>2. CASE s # M - 1
    <3>1. t = s + 1 BY <1>0, <2>2, ModNear
    <3> QED BY <1>0, <3>1
  <2> QED BY <2>1, <2>2
<1> QED BY <1>3, <1>4

LEMMA SlotOfType == \A s \in SeqNum : SlotOf(s) \in Slot
  BY BufferAssumption DEF SeqNum, SlotOf, Slot

LEMMA HalfOfM == M \div 2 \in Nat /\ M = 2 * (M \div 2) /\ M \div 2 > L
  BY BufferAssumption

LEMMA PayloadNotNoData == \A p \in Payload : p # NoData
  BY BufferAssumption

-----------------------------------------------------------------------------
(* Every operation maps a well-typed window to a well-typed window.        *)

LEMMA FlushedOK ==
  ASSUME NEW b \in Buffer, NEW n \in Int
  PROVE  Flushed(b, n) \in Buffer /\ WindowOf(Flushed(b, n))
<1> DEFINE f == Flushed(b, n)
<1> USE BufferAssumption
<1>1. f \in Buffer
  <2> DEFINE swept ==
        [i \in Slot |-> [b.entries[i] EXCEPT !.filled = FALSE,
                                             !.freed = b.entries[i].data # NoData]]
  <2>1. (n - 1) % M \in SeqNum BY DEF SeqNum
  <2>2. swept \in [Slot -> Entry]
    <3> SUFFICES ASSUME NEW i \in Slot
                 PROVE  [b.entries[i] EXCEPT !.filled = FALSE,
                          !.freed = b.entries[i].data # NoData] \in Entry
      OBVIOUS
    <3>1. b.entries[i] \in Entry BY DEF Buffer
    <3>2. (b.entries[i].data # NoData) \in BOOLEAN OBVIOUS
    <3> QED BY <3>1, <3>2 DEF Entry
  <2> HIDE DEF swept
  <2>3. n \in SeqNum => f = [b EXCEPT !.entries = swept, !.first = n,
                                      !.last = (n - 1) % M]
    BY DEF Flushed, swept
  <2>4. n \notin SeqNum => f = [b EXCEPT !.entries = swept, !.is_empty = TRUE]
    BY DEF Flushed, swept
  <2> HIDE DEF f
  <2> QED BY <2>1, <2>2, <2>3, <2>4 DEF Buffer
<1>2. \A i \in Slot : ~f.entries[i].filled
  BY DEF Flushed, Buffer, Entry
<1>3. \A i \in Slot : EntryFits(f, i) BY <1>2 DEF EntryFits
<1>4. \A i \in Slot : UnfilledOwnsNothing(f, i)
  BY DEF Flushed, Buffer, Entry, UnfilledOwnsNothing
<1>5. SpanFits(f)
  <2>1. CASE n \in SeqNum
    <3>1. f.first = n /\ f.last = (n - 1) % M BY <2>1 DEF Flushed, Buffer
    <3>2. (((n - 1) % M) + 1 - n) % M = 0 BY <2>1, ModNear DEF SeqNum
    <3> QED BY <3>1, <3>2 DEF SpanFits
  <2>2. CASE n \notin SeqNum
    BY <2>2 DEF Flushed, Buffer, SpanFits
  <2> QED BY <2>1, <2>2
<1> QED BY <1>1, <1>3, <1>4, <1>5 DEF WindowOf

(* A number that is neither too late nor an overrun is in the window that  *)
(* starts at first.                                                        *)
LEMMA RoomInWindow ==
  ASSUME NEW b \in Buffer, NEW s \in SeqNum,
         ~b.is_empty, ~TooLate(b, s), ~Overruns(b, s)
  PROVE  Ahead(b, s) \in 0 .. L - 1
<1> DEFINE x == s - b.first
           y == s - (b.first + L)
<1> USE BufferAssumption, HalfOfM
<1>1. b.first \in SeqNum /\ x \in Int /\ y \in Int /\ y = x - L
  BY DEF Buffer, SeqNum
<1>2. x % M < M \div 2
  <2>1. SeqCmp(s, b.first) >= 0 BY <1>1 DEF TooLate, SeqCmp, SeqNum
  <2> QED BY <2>1, <1>1 DEF SeqCmp
<1>3. y % M >= M \div 2
  BY <1>1 DEF Overruns, SeqCmp
<1>4. x > -M /\ x < M /\ y >= -(2 * M) /\ y < M
  BY <1>1 DEF SeqNum
<1>5. x % M \in 0 .. M - 1 BY <1>1
<1>6. x % M < L
  <2> SUFFICES ASSUME x % M >= L PROVE FALSE BY <1>1, <1>5
  <2>1. CASE x >= 0
    <3>1. x % M = x BY <1>1, <1>4, <2>1, ModNear
    <3>2. y >= 0 /\ y < M BY <3>1, <1>1, <1>4
    <3>3. y % M = y BY <3>2, <1>1, ModNear
    <3> QED BY <3>1, <3>3, <1>1, <1>2, <1>3
  <2>2. CASE x < 0
    <3>1. x % M = x + M BY <1>1, <1>4, <2>2, ModNear
    <3>2. y >= -M /\ y < 0 BY <3>1, <1>1, <1>4, <2>2
    <3>3. y % M = y + M BY <3>2, <1>1, ModNear
    <3> QED BY <3>1, <3>3, <1>1, <1>2, <1>3
  <2> QED BY <2>1, <2>2, <1>1
<1> QED BY <1>1, <1>5, <1>6 DEF Ahead

(* The span of a buffer, and how far its last number is ahead of first.    *)
LEMMA SpanOfLast ==
  ASSUME NEW b \in Buffer
  PROVE  (b.last + 1 - b.first) % M =
           IF Ahead(b, b.last) = M - 1 THEN 0 ELSE Ahead(b, b.last) + 1
<1>1. b.last - b.first \in Int BY BufferAssumption DEF Buffer, SeqNum
<1>2. b.last + 1 - b.first = (b.last - b.first) + 1
  BY BufferAssumption DEF Buffer, SeqNum
<1> QED BY <1>1, <1>2, ModSucc DEF Ahead

(* What the update of last_seqnum in raop_buffer_enqueue compares.         *)
LEMMA LastMoves ==
  ASSUME NEW b \in Buffer, SpanFits(b), ~b.is_empty,
         NEW s \in SeqNum, Ahead(b, s) < L
  PROVE  SeqCmp(s, b.last) > 0 <=> Ahead(b, s) >= (b.last + 1 - b.first) % M
<1> DEFINE d == Ahead(b, s)
           w == Ahead(b, b.last)
           c == (b.last + 1 - b.first) % M
<1> USE BufferAssumption, HalfOfM
<1>1. d \in 0 .. L - 1 /\ w \in 0 .. M - 1 BY DEF Ahead, Buffer, SeqNum
<1>2. c = IF w = M - 1 THEN 0 ELSE w + 1 BY SpanOfLast
<1>3. c <= L BY DEF SpanFits
<1>4. (s - b.last) % M = IF d >= w THEN d - w ELSE d - w + M
  BY ModDiff DEF Ahead, Buffer
<1> HIDE DEF d, w, c
<1>5. SeqCmp(s, b.last) > 0 <=> d >= c
  BY <1>1, <1>2, <1>3, <1>4 DEF SeqCmp
<1> QED BY <1>5 DEF d, c

LEMMA SlotFree ==
  ASSUME NEW b \in Buffer, WindowOf(b), NEW s \in SeqNum,
         ~TooLate(b, s), ~Overruns(b, s), ~Duplicate(b, s)
  PROVE  ~b.entries[SlotOf(s)].filled
<1> SUFFICES ASSUME b.entries[SlotOf(s)].filled PROVE FALSE OBVIOUS
<1> DEFINE t == b.entries[SlotOf(s)].seqnum
<1>1. SlotOf(s) \in Slot BY SlotOfType
<1>2. ~b.is_empty /\ SlotOf(t) = SlotOf(s)
      /\ Ahead(b, t) < (b.last + 1 - b.first) % M
  BY <1>1 DEF WindowOf, EntryFits
<1>3. t \in SeqNum BY <1>1 DEF Buffer, Entry
<1>4. Ahead(b, s) \in 0 .. L - 1 BY <1>2, RoomInWindow
<1>5. Ahead(b, t) \in 0 .. L - 1
  BY <1>2, <1>3, BufferAssumption DEF WindowOf, SpanFits, Ahead, Buffer, SeqNum
<1>6. (t - s) % M < L \/ (s - t) % M < L
  BY <1>3, <1>4, <1>5, ModDiff, BufferAssumption DEF Ahead, Buffer
<1>7. s = t BY <1>2, <1>3, <1>6, SlotInjective
<1> QED BY <1>7 DEF Duplicate

LEMMA StoreOK ==
  ASSUME NEW b \in Buffer, WindowOf(b), NEW s \in SeqNum, NEW p \in Payload,
         ~TooLate(b, s), ~Overruns(b, s), ~Duplicate(b, s)
  PROVE  Store(b, s, p) \in Buffer /\ WindowOf(Store(b, s, p))
<1> DEFINE n == Store(b, s, p)
           new == [filled |-> TRUE, seqnum |-> s, data |-> p, freed |-> FALSE]
           c == (b.last + 1 - b.first) % M
           d == Ahead(b, s)
<1>1. SlotOf(s) \in Slot /\ new \in Entry BY SlotOfType DEF Entry
<1>2. /\ n.is_empty = FALSE
      /\ n.first = IF b.is_empty THEN s ELSE b.first
      /\ n.last = IF b.is_empty \/ SeqCmp(s, b.last) > 0 THEN s ELSE b.last
      /\ n.entries = [b.entries EXCEPT ![SlotOf(s)] = new]
      /\ n = [is_empty |-> n.is_empty, first |-> n.first, last |-> n.last,
              entries |-> n.entries]
  BY DEF Store
<1> HIDE DEF n, new
<1>3. n \in Buffer BY <1>1, <1>2 DEF Buffer
<1>4. /\ n.entries[SlotOf(s)] = new
      /\ \A i \in Slot : i # SlotOf(s) => n.entries[i] = b.entries[i]
  BY <1>1, <1>2 DEF Buffer
<1>5. \A i \in Slot : UnfilledOwnsNothing(n, i)
  BY <1>4 DEF WindowOf, UnfilledOwnsNothing, new
<1>6. CASE b.is_empty
  <2>1. n.first = s /\ n.last = s BY <1>2, <1>6
  <2>2. (s + 1 - s) % M = 1 /\ (s - s) % M = 0
    BY BufferAssumption, ModNear DEF SeqNum
  <2>3. SpanFits(n) BY <2>1, <2>2, BufferAssumption DEF SpanFits
  <2>4. \A i \in Slot : i # SlotOf(s) => ~n.entries[i].filled
    BY <1>4, <1>6 DEF WindowOf, EntryFits
  <2>5. EntryFits(n, SlotOf(s))
    BY <1>2, <1>4, <2>1, <2>2, PayloadNotNoData DEF EntryFits, Ahead, new
  <2>6. \A i \in Slot : EntryFits(n, i) BY <2>4, <2>5 DEF EntryFits
  <2> QED BY <1>3, <1>5, <2>3, <2>6 DEF WindowOf, n
<1>7. CASE ~b.is_empty
  <2>1. d \in 0 .. L - 1 BY <1>7, RoomInWindow
  <2>2. c \in 0 .. L
    BY <1>7, BufferAssumption DEF WindowOf, SpanFits, Buffer, SeqNum
  <2>3. SeqCmp(s, b.last) > 0 <=> d >= c
    <3>1. d < L BY <2>1, BufferAssumption
    <3> QED BY <1>7, <3>1, LastMoves DEF WindowOf
  <2>4. n.first = b.first /\ n.last = IF d >= c THEN s ELSE b.last
    BY <1>2, <1>7, <2>3
  <2>5. (s + 1 - b.first) % M = d + 1
    <3>1. s - b.first \in Int /\ s + 1 - b.first = (s - b.first) + 1
      BY BufferAssumption DEF Buffer, SeqNum
    <3>2. (s - b.first) % M = d BY DEF Ahead
    <3>3. d # M - 1 BY <2>1, BufferAssumption
    <3> HIDE DEF d
    <3>4. (s - b.first + 1) % M = d + 1 BY <3>1, <3>2, <3>3, ModSucc
    <3> QED BY <3>1, <3>4
  <2>6. (n.last + 1 - n.first) % M = IF d >= c THEN d + 1 ELSE c
    BY <2>4, <2>5
  <2>7. SpanFits(n) BY <2>1, <2>2, <2>6, BufferAssumption DEF SpanFits
  <2>8. EntryFits(n, SlotOf(s))
    <3>1. Ahead(n, s) = d BY <2>4 DEF Ahead
    <3> QED BY <1>2, <1>4, <2>1, <2>2, <2>6, <3>1, PayloadNotNoData,
               BufferAssumption
            DEF EntryFits, new
  <2>9. ASSUME NEW i \in Slot, i # SlotOf(s) PROVE EntryFits(n, i)
    <3> DEFINE t == b.entries[i].seqnum
    <3> SUFFICES ASSUME b.entries[i].filled
                 PROVE  Ahead(n, t) < (n.last + 1 - n.first) % M
      BY <1>2, <1>4, <2>9 DEF EntryFits, WindowOf
    <3>1. Ahead(n, t) = Ahead(b, t) BY <2>4 DEF Ahead
    <3>2. Ahead(b, t) < c BY <2>9 DEF WindowOf, EntryFits
    <3>3. Ahead(b, t) \in Int
      BY BufferAssumption DEF Ahead, Buffer, Entry, SeqNum
    <3> QED BY <2>1, <2>2, <2>6, <3>1, <3>2, <3>3, BufferAssumption
  <2>10. \A i \in Slot : EntryFits(n, i) BY <2>8, <2>9
  <2> QED BY <1>3, <1>5, <2>7, <2>10 DEF WindowOf, n
<1> QED BY <1>6, <1>7

LEMMA EmptyOK == EmptyBuffer \in Buffer /\ WindowOf(EmptyBuffer)
<1>1. 0 \in SeqNum BY BufferAssumption DEF SeqNum
<1>2. EmptyBuffer \in Buffer BY <1>1 DEF EmptyBuffer, Buffer, Entry
<1>3. WindowOf(EmptyBuffer)
  BY DEF EmptyBuffer, WindowOf, SpanFits, EntryFits, UnfilledOwnsNothing
<1> QED BY <1>2, <1>3

(* The number that follows an overrun's flush is in the new window.        *)
LEMMA FlushedTakes ==
  ASSUME NEW b \in Buffer, NEW s \in SeqNum
  PROVE  LET f == Flushed(b, s)
         IN ~TooLate(f, s) /\ ~Overruns(f, s) /\ ~Duplicate(f, s)
<1> DEFINE f == Flushed(b, s)
<1> USE BufferAssumption, HalfOfM
<1>1. f.first = s BY DEF Flushed, Buffer
<1>2. ~f.entries[SlotOf(s)].filled
  <2>1. SlotOf(s) \in Slot BY SlotOfType
  <2> QED BY <2>1 DEF Flushed, Buffer, Entry
<1> HIDE DEF f
<1>3. ~TooLate(f, s)
  <2>1. (s - s) % M = 0 BY ModNear DEF SeqNum
  <2> QED BY <1>1, <2>1 DEF TooLate, SeqCmp
<1>4. ~Overruns(f, s)
  <2>1. s - (s + L) = -L /\ (-L) % M = M - L BY ModNear DEF SeqNum
  <2> QED BY <1>1, <2>1 DEF Overruns, SeqCmp
<1> QED BY <1>2, <1>3, <1>4 DEF Duplicate, f

(* After MakeRoom, a number that is not too late is in the window.         *)
LEMMA MakeRoomOK ==
  ASSUME NEW b \in Buffer, WindowOf(b), NEW s \in SeqNum, ~TooLate(b, s)
  PROVE  LET r == MakeRoom(b, s)
         IN r \in Buffer /\ WindowOf(r) /\ ~TooLate(r, s) /\ ~Overruns(r, s)
<1>1. s \in Int BY BufferAssumption DEF SeqNum
<1>2. CASE Overruns(b, s)
  BY <1>1, <1>2, FlushedOK, FlushedTakes DEF MakeRoom
<1>3. CASE ~Overruns(b, s)
  BY <1>3 DEF MakeRoom
<1> QED BY <1>2, <1>3

LEMMA EnqueuedOK ==
  ASSUME NEW b \in Buffer, WindowOf(b), NEW kind, NEW s \in SeqNum,
         NEW p \in Payload
  PROVE  Enqueued(b, kind, s, p) \in Buffer /\ WindowOf(Enqueued(b, kind, s, p))
<1>1. CASE kind # "audio" \/ TooLate(b, s)
  BY <1>1 DEF Enqueued
<1>2. CASE ~(kind # "audio" \/ TooLate(b, s))
  <2> DEFINE r == MakeRoom(b, s)
  <2>1. r \in Buffer /\ WindowOf(r) /\ ~TooLate(r, s) /\ ~Overruns(r, s)
    BY <1>2, MakeRoomOK
  <2>2. Enqueued(b, kind, s, p) = IF Duplicate(r, s) THEN r ELSE Store(r, s, p)
    BY <1>2 DEF Enqueued
  <2> HIDE DEF r
  <2> QED BY <2>1, <2>2, StoreOK
<1> QED BY <1>1, <1>2

(* A buffer that is not stalled has a first number within its span.        *)
LEMMA SpanNotZero ==
  ASSUME NEW b \in Buffer, WindowOf(b), NEW noResend, ~Stalled(b, noResend)
  PROVE  ~b.is_empty /\ (b.last + 1 - b.first) % M \in 1 .. L
<1> DEFINE w == Ahead(b, b.last)
           c == (b.last + 1 - b.first) % M
<1> USE BufferAssumption, HalfOfM
<1>1. ~b.is_empty /\ SeqCmp(b.last, b.first) + 1 > 0
  <2>1. SeqCmp(b.last, b.first) \in Int BY DEF SeqCmp, Buffer, SeqNum
  <2> QED BY <2>1 DEF Stalled, Count
<1>2. w \in 0 .. M - 1 BY DEF Ahead, Buffer, SeqNum
<1>3. c = IF w = M - 1 THEN 0 ELSE w + 1 BY SpanOfLast
<1>4. c <= L BY <1>1 DEF WindowOf, SpanFits
<1>5. SeqCmp(b.last, b.first) = IF w < M \div 2 THEN w ELSE w - M
  BY DEF SeqCmp, Ahead
<1> HIDE DEF w, c
<1>6. c \in 1 .. L BY <1>1, <1>2, <1>3, <1>4, <1>5
<1> QED BY <1>1, <1>6 DEF c

LEMMA DequeuedOK ==
  ASSUME NEW b \in Buffer, WindowOf(b), NEW noResend
  PROVE  Dequeued(b, noResend) \in Buffer /\ WindowOf(Dequeued(b, noResend))
<1>1. CASE Stalled(b, noResend) BY <1>1 DEF Dequeued
<1>2. CASE ~Stalled(b, noResend)
  <2> DEFINE n == Dequeued(b, noResend)
             f == SlotOf(b.first)
             h == IF FirstEntry(b).filled
                  THEN [FirstEntry(b) EXCEPT !.filled = FALSE, !.data = NoData,
                                             !.freed = FALSE]
                  ELSE b.entries[f]
             c == (b.last + 1 - b.first) % M
  <2>1. ~b.is_empty /\ c \in 1 .. L BY <1>2, SpanNotZero
  <2>2. f \in Slot /\ b.first \in SeqNum BY SlotOfType DEF Buffer
  <2>3. /\ n.is_empty = b.is_empty
        /\ n.first = (b.first + 1) % M
        /\ n.last = b.last
        /\ n.entries = [b.entries EXCEPT ![f] = h]
        /\ n = [b EXCEPT !.first = (b.first + 1) % M,
                         !.entries = [b.entries EXCEPT ![f] = h]]
    BY <1>2 DEF Dequeued, FirstEntry, NextSeqNum, Buffer
  <2>4. h \in Entry /\ ~h.filled
        /\ (h.data = NoData \/ h.freed)
    <3>1. b.entries[f] \in Entry BY <2>2 DEF Buffer
    <3>2. UnfilledOwnsNothing(b, f) BY <2>2 DEF WindowOf
    <3> QED BY <3>1, <3>2 DEF FirstEntry, Entry, UnfilledOwnsNothing
  <2>5. (b.first + 1) % M \in SeqNum
    BY <2>2, BufferAssumption DEF SeqNum
  <2>6. n \in Buffer
    <3> DEFINE e == [b.entries EXCEPT ![f] = h]
    <3>1. e \in [Slot -> Entry] BY <2>2, <2>4 DEF Buffer
    <3>2. n = [b EXCEPT !.first = (b.first + 1) % M, !.entries = e] BY <2>3
    <3> HIDE DEF e, n
    <3> QED BY <2>5, <3>1, <3>2 DEF Buffer
  <2>7. /\ n.entries[f] = h
        /\ \A i \in Slot : i # f => n.entries[i] = b.entries[i]
    BY <2>2, <2>3 DEF Buffer
  <2> HIDE DEF n, h
  <2>8. ASSUME NEW x \in Int, (x - b.first) % M > 0
        PROVE  (x - n.first) % M = ((x - b.first) % M) - 1
    BY <2>2, <2>3, <2>8, FirstMoves
  <2>9. (n.last + 1 - n.first) % M = c - 1
    <3> DEFINE x == b.last + 1
    <3>1. x \in Int /\ (x - b.first) % M > 0
      BY <2>1, BufferAssumption DEF Buffer, SeqNum
    <3> HIDE DEF x
    <3>2. (x - n.first) % M = ((x - b.first) % M) - 1 BY <2>8, <3>1
    <3>3. /\ n.last + 1 - n.first = x - n.first
          /\ b.last + 1 - b.first = x - b.first
      BY <2>3, <2>5, BufferAssumption DEF x, Buffer, SeqNum
    <3> QED BY <3>2, <3>3
  <2>10. SpanFits(n) BY <2>1, <2>9, BufferAssumption DEF SpanFits
  <2>11. \A i \in Slot : UnfilledOwnsNothing(n, i)
    BY <2>4, <2>7 DEF WindowOf, UnfilledOwnsNothing
  <2>12. ASSUME NEW i \in Slot, n.entries[i].filled PROVE EntryFits(n, i)
    <3> DEFINE t == b.entries[i].seqnum
    <3>1. i # f /\ n.entries[i] = b.entries[i] BY <2>4, <2>7, <2>12
    <3>2. EntryFits(b, i) BY DEF WindowOf
    <3>3. Ahead(b, t) < c /\ SlotOf(t) = i BY <2>12, <3>1, <3>2 DEF EntryFits
    <3>4. t \in SeqNum BY DEF Buffer, Entry
    <3>5. Ahead(b, t) \in Nat
      BY <2>2, <3>4, BufferAssumption DEF Ahead, SeqNum
    <3>6. Ahead(b, t) # 0
      <4> SUFFICES ASSUME Ahead(b, t) = 0 PROVE FALSE OBVIOUS
      <4>1. t = b.first
        BY <2>2, <3>4, ModNear, BufferAssumption, SMTT(40) DEF Ahead, SeqNum
      <4> QED BY <4>1, <3>1, <3>3
    <3>7. Ahead(n, t) = Ahead(b, t) - 1
      <4>1. t \in Int BY <3>4, BufferAssumption DEF SeqNum
      <4> QED BY <2>8, <3>5, <3>6, <4>1 DEF Ahead
    <3> QED BY <2>1, <2>3, <2>9, <3>1, <3>2, <3>3, <3>5, <3>7 DEF EntryFits
  <2>13. \A i \in Slot : EntryFits(n, i) BY <2>12 DEF EntryFits
  <2> QED BY <2>6, <2>10, <2>11, <2>13 DEF WindowOf, n
<1> QED BY <1>1, <1>2

-----------------------------------------------------------------------------
(* The blocks that the entries own.                                        *)

LEMMA LiveSlotsFinite ==
  ASSUME NEW b
  PROVE  IsFiniteSet(LiveSlots(b)) /\ Cardinality(LiveSlots(b)) \in Nat
<1>1. IsFiniteSet(Slot) BY FS_Interval, BufferAssumption DEF Slot
<1>2. LiveSlots(b) \in SUBSET Slot BY DEF LiveSlots
<1> QED BY <1>1, <1>2, FS_Subset, FS_CardinalityType

LEMMA FlushedOwnsNothing ==
  ASSUME NEW b \in Buffer, NEW n
  PROVE  LiveSlots(Flushed(b, n)) = {}
BY DEF LiveSlots, Flushed, Buffer, Entry

(* raop_buffer_enqueue stores the block in an entry that owns none. *)
LEMMA StoreOwnsOneMore ==
  ASSUME NEW b \in Buffer, WindowOf(b), NEW s \in SeqNum, NEW p \in Payload,
         ~TooLate(b, s), ~Overruns(b, s), ~Duplicate(b, s)
  PROVE  Cardinality(LiveSlots(Store(b, s, p))) = Cardinality(LiveSlots(b)) + 1
<1> DEFINE n == Store(b, s, p)
           i == SlotOf(s)
           new == [filled |-> TRUE, seqnum |-> s, data |-> p, freed |-> FALSE]
<1>1. i \in Slot BY SlotOfType
<1>2. i \notin LiveSlots(b)
  BY <1>1, SlotFree DEF WindowOf, UnfilledOwnsNothing, LiveSlots
<1>3. n.entries = [b.entries EXCEPT ![i] = new] BY DEF Store
<1>4. n.entries[i] = new /\ \A j \in Slot : j # i => n.entries[j] = b.entries[j]
  BY <1>1, <1>3 DEF Buffer
<1>5. new.data # NoData /\ ~new.freed BY PayloadNotNoData
<1> HIDE DEF n, i, new
<1>6. LiveSlots(n) = LiveSlots(b) \cup {i}
  BY <1>1, <1>4, <1>5 DEF LiveSlots
<1>7. Cardinality(LiveSlots(n)) = Cardinality(LiveSlots(b)) + 1
  BY <1>2, <1>6, LiveSlotsFinite, FS_AddElement
<1> QED BY <1>7 DEF n

(* raop_buffer_dequeue gives up the block it returns, and no other. *)
LEMMA DequeuedOwnsOneLess ==
  ASSUME NEW b \in Buffer, WindowOf(b), NEW noResend
  PROVE  Cardinality(LiveSlots(Dequeued(b, noResend))) =
           IF Delivered(b, noResend) = NoData THEN Cardinality(LiveSlots(b))
                                              ELSE Cardinality(LiveSlots(b)) - 1
<1> DEFINE n == Dequeued(b, noResend)
           f == SlotOf(b.first)
<1>1. f \in Slot BY SlotOfType DEF Buffer
<1>2. CASE Stalled(b, noResend)
  BY <1>2 DEF Dequeued, Delivered
<1>3. CASE ~Stalled(b, noResend) /\ ~FirstEntry(b).filled
  <2>1. n.entries = b.entries
    BY <1>1, <1>3 DEF Dequeued, FirstEntry, Buffer
  <2>2. LiveSlots(n) = LiveSlots(b) BY <2>1 DEF LiveSlots
  <2>3. Delivered(b, noResend) = NoData BY <1>3 DEF Delivered
  <2> QED BY <2>2, <2>3
<1>4. CASE ~Stalled(b, noResend) /\ FirstEntry(b).filled
  <2> DEFINE h == [FirstEntry(b) EXCEPT !.filled = FALSE, !.data = NoData,
                                        !.freed = FALSE]
  <2>1. n.entries = [b.entries EXCEPT ![f] = h]
    BY <1>4 DEF Dequeued, FirstEntry, Buffer
  <2>2. n.entries[f] = h /\ \A j \in Slot : j # f => n.entries[j] = b.entries[j]
    BY <1>1, <2>1 DEF Buffer
  <2>3. b.entries[f] \in Entry BY <1>1 DEF Buffer
  <2>4. h.data = NoData BY <2>3 DEF FirstEntry, Entry
  <2>5. f \in LiveSlots(b) /\ Delivered(b, noResend) # NoData
    BY <1>1, <1>4 DEF WindowOf, EntryFits, LiveSlots, FirstEntry, Delivered
  <2> HIDE DEF n, h, f
  <2>6. LiveSlots(n) = LiveSlots(b) \ {f} BY <1>1, <2>2, <2>4 DEF LiveSlots
  <2>7. Cardinality(LiveSlots(n)) = Cardinality(LiveSlots(b)) - 1
    BY <2>5, <2>6, LiveSlotsFinite, FS_RemoveElement
  <2> QED BY <2>5, <2>7 DEF n
<1> QED BY <1>2, <1>3, <1>4

-----------------------------------------------------------------------------
(* The resend request.                                                     *)

LEMMA LeastOf ==
  ASSUME NEW n \in Nat, NEW S \in SUBSET (0 .. n), S # {}
  PROVE  \E x \in S : \A y \in S : x <= y
<1> DEFINE upTo(x) == {y \in S : y <= x}
           T == {upTo(x) : x \in S}
           R == StrictSubsetOrdering(0 .. n)
<1>1. T \subseteq FiniteSubsetsOf(0 .. n)
  <2>1. ASSUME NEW x \in S PROVE upTo(x) \in SUBSET (0 .. n) OBVIOUS
  <2>2. IsFiniteSet(0 .. n) BY FS_Interval
  <2>3. FiniteSubsetsOf(0 .. n) = SUBSET (0 .. n)
    BY <2>2, FS_FiniteSubsetsOfFinite
  <2> QED BY <2>1, <2>3
<1>5. T # {} OBVIOUS
<1>2. \E t \in T : \A u \in T : ~(<<u, t>> \in R)
  <2>1. IsWellFoundedOn(R, FiniteSubsetsOf(0 .. n))
    BY FS_StrictSubsetOrderingWellFounded
  <2> HIDE DEF T, R
  <2> QED BY <1>1, <1>5, <2>1, WFMin
<1>3. PICK x \in S : \A u \in T : ~(<<u, upTo(x)>> \in R)
  BY <1>2
<1>4. ASSUME NEW y \in S, ~(x <= y) PROVE FALSE
  <2>0. S \subseteq Int OBVIOUS
  <2>1. \A z \in S : z <= y => z <= x BY <1>4, <2>0
  <2>2. upTo(y) \subseteq upTo(x) /\ x \in upTo(x) /\ x \notin upTo(y)
    <3>1. x <= x /\ ~(x <= y) BY <1>4, <2>0
    <3> QED BY <2>1, <3>1
  <2>3. upTo(y) \in SUBSET (0 .. n) /\ upTo(x) \in SUBSET (0 .. n) OBVIOUS
  <2>4. <<upTo(y), upTo(x)>> \in R
    <3> HIDE DEF upTo
    <3> QED BY <2>2, <2>3 DEF StrictSubsetOrdering
  <2> QED BY <1>3, <2>4
<1> QED BY <1>4

(* The last number is less than L ahead of the first.                      *)
LEMMA HoleInWindow ==
  ASSUME NEW b \in Buffer, WindowOf(b)
  PROVE  AheadOfFirst(b) \in Nat /\ (~b.is_empty => AheadOfFirst(b) < L)
<1> DEFINE w == Ahead(b, b.last)
<1> USE BufferAssumption, HalfOfM
<1>1. w \in 0 .. M - 1 BY DEF Ahead, Buffer, SeqNum
<1>2. AheadOfFirst(b) \in {0, w} BY DEF AheadOfFirst, Ahead
<1>3. ASSUME ~b.is_empty, SeqCmp(b.first, b.last) < 0 PROVE w < L
  <2>1. w # M - 1
    <3>1. b.first \in SeqNum /\ b.last \in SeqNum BY DEF Buffer
    <3>2. w = M - 1 => (b.first - b.last) % M = 1
      BY <3>1, ModNear DEF Ahead, SeqNum
    <3> QED BY <1>3, <3>2 DEF SeqCmp
  <2>2. (b.last + 1 - b.first) % M <= L BY <1>3 DEF WindowOf, SpanFits
  <2> HIDE DEF w
  <2> QED BY <1>1, <2>1, <2>2, SpanOfLast DEF w
<1> HIDE DEF w
<1> QED BY <1>1, <1>2, <1>3 DEF AheadOfFirst

(* The request ends at the first entry that is filled.                     *)
LEMMA ResendCountIs ==
  ASSUME NEW b \in Buffer, WindowOf(b)
  PROVE  /\ ResendCount(b) \in 0 .. AheadOfFirst(b)
         /\ \A n \in 0 .. ResendCount(b) - 1 :
              ~b.entries[SlotOf((b.first + n) % M)].filled
         /\ \/ ResendCount(b) = AheadOfFirst(b)
            \/ b.entries[SlotOf((b.first + ResendCount(b)) % M)].filled
<1> DEFINE a == AheadOfFirst(b)
           arrived == {n \in 0 .. a :
                         n = a \/ b.entries[SlotOf((b.first + n) % M)].filled}
<1>1. a \in Nat BY HoleInWindow
<1>2. arrived \in SUBSET (0 .. a) /\ arrived # {}
  <2>1. a \in arrived BY <1>1
  <2> QED BY <2>1
<1>3. \E x \in arrived : \A y \in arrived : x <= y
  <2> HIDE DEF a, arrived
  <2> QED BY <1>1, <1>2, LeastOf
<1>4. ResendCount(b) \in arrived /\ \A y \in arrived : ResendCount(b) <= y
  <2>1. ResendCount(b) = CHOOSE x \in arrived : \A y \in arrived : x <= y
    BY DEF ResendCount
  <2> HIDE DEF arrived
  <2> QED BY <1>3, <2>1
<1>5. ASSUME NEW n \in 0 .. ResendCount(b) - 1
      PROVE  ~b.entries[SlotOf((b.first + n) % M)].filled
  <2>1. ResendCount(b) \in 0 .. a /\ ~(ResendCount(b) <= n)
    BY <1>1, <1>4
  <2>2. n \in 0 .. a BY <1>1, <2>1
  <2>3. n \notin arrived BY <1>4, <2>1
  <2> QED BY <2>2, <2>3
<1> QED BY <1>4, <1>5
=============================================================================
