-------------------------- MODULE RaopBufferProofs --------------------------
(***************************************************************************)
(* The invariants of RaopBufferCalls, proved from what RaopBufferLemmas    *)
(* says of each function.  The inductive invariant is their conjunction:   *)
(* a payload block is accounted for only because an enqueued number finds  *)
(* a slot of its own, and that is what Window says.                        *)
(***************************************************************************)
EXTENDS RaopBufferCalls, RaopBufferLemmas

-----------------------------------------------------------------------------
(* The invariants of the specification.                                    *)

IInv == TypeOK /\ Window /\ NoBlockLost

LEMMA InitIInv == Init => IInv
<1> SUFFICES ASSUME Init PROVE IInv OBVIOUS
<1>1. LiveSlots(EmptyBuffer) = {} BY DEF LiveSlots, EmptyBuffer
<1> QED BY <1>1, EmptyOK, FS_EmptySet
        DEF Init, IInv, TypeOK, Window, NoBlockLost

LEMMA NextIInv == IInv /\ [Next]_vars => IInv'
<1> SUFFICES ASSUME IInv, [Next]_vars PROVE IInv' OBVIOUS
<1> USE DEF IInv
<1>0. buf \in Buffer /\ WindowOf(buf) BY DEF TypeOK, Window
<1>1. ASSUME NEW kind \in PacketKind, NEW s \in SeqNum, NEW p \in Payload,
             Enqueue(kind, s, p)
      PROVE  IInv'
  <2>1. buf' \in Buffer /\ WindowOf(buf')
    BY <1>0, <1>1, EnqueuedOK DEF Enqueue
  <2>2. NoBlockLost' /\ live' \in Int
    <3>1. CASE kind # "audio" \/ TooLate(buf, s)
      BY <1>1, <3>1 DEF Enqueue, Enqueued, NoBlockLost, TypeOK
    <3>2. CASE ~(kind # "audio" \/ TooLate(buf, s))
      <4> DEFINE r == MakeRoom(buf, s)
                 kept == live - (IF Overruns(buf, s)
                                 THEN Cardinality(LiveSlots(buf)) ELSE 0)
      <4>1. r \in Buffer /\ WindowOf(r) /\ ~TooLate(r, s) /\ ~Overruns(r, s)
        BY <1>0, <3>2, MakeRoomOK
      <4>2. kept = Cardinality(LiveSlots(r))
        <5>1. CASE Overruns(buf, s)
          <6>1. LiveSlots(r) = {}
            BY <1>0, <5>1, FlushedOwnsNothing DEF MakeRoom
          <6> QED BY <5>1, <6>1, FS_EmptySet, LiveSlotsFinite DEF NoBlockLost
        <5>2. CASE ~Overruns(buf, s)
          BY <5>2, LiveSlotsFinite DEF MakeRoom, NoBlockLost
        <5> QED BY <5>1, <5>2
      <4>3. /\ buf' = IF Duplicate(r, s) THEN r ELSE Store(r, s, p)
            /\ live' = kept + (IF Duplicate(r, s) THEN 0 ELSE 1)
        BY <1>1, <3>2 DEF Enqueue, Enqueued
      <4>4. Cardinality(LiveSlots(r)) \in Nat BY LiveSlotsFinite
      <4> HIDE DEF r, kept
      <4>5. CASE Duplicate(r, s) BY <4>2, <4>3, <4>4, <4>5 DEF NoBlockLost
      <4>6. CASE ~Duplicate(r, s)
        BY <4>1, <4>2, <4>3, <4>4, <4>6, StoreOwnsOneMore DEF NoBlockLost
      <4> QED BY <4>5, <4>6
    <3> QED BY <3>1, <3>2
  <2> QED BY <1>1, <2>1, <2>2 DEF Enqueue, TypeOK, Window
<1>2. ASSUME NEW noResend \in BOOLEAN, Dequeue(noResend) PROVE IInv'
  <2>1. buf' \in Buffer /\ WindowOf(buf')
    BY <1>0, <1>2, DequeuedOK DEF Dequeue
  <2>2. NoBlockLost' /\ live' \in Int
    BY <1>0, <1>2, DequeuedOwnsOneLess, LiveSlotsFinite DEF Dequeue, NoBlockLost
  <2> QED BY <1>2, <2>1, <2>2 DEF Dequeue, TypeOK, Window
<1>3. CASE HandleResends
  <2>1. ResendRange(buf) \subseteq SeqNum
    <3> SUFFICES ASSUME NEW n \in 0 .. ResendCount(buf) - 1
                 PROVE  (buf.first + n) % M \in SeqNum
      BY DEF ResendRange
    <3> QED BY <1>0, BufferAssumption DEF Buffer, SeqNum
  <2> QED BY <1>3, <2>1 DEF HandleResends, TypeOK, Window, NoBlockLost
<1>4. ASSUME NEW nextSeq \in SeqNum \cup {-1}, Flush(nextSeq) PROVE IInv'
  <2>1. nextSeq \in Int BY BufferAssumption DEF SeqNum
  <2>2. buf' \in Buffer /\ WindowOf(buf')
    BY <1>0, <1>4, <2>1, FlushedOK DEF Flush
  <2>3. NoBlockLost' /\ live' \in Int
    <3>1. LiveSlots(buf') = {} BY <1>0, <1>4, FlushedOwnsNothing DEF Flush
    <3> QED BY <1>4, <3>1, FS_EmptySet, LiveSlotsFinite DEF Flush, NoBlockLost
  <2> QED BY <1>4, <2>2, <2>3 DEF Flush, TypeOK, Window
<1>5. CASE UNCHANGED vars
  BY <1>5 DEF vars, TypeOK, Window, NoBlockLost
<1> QED BY <1>1, <1>2, <1>3, <1>4, <1>5 DEF Next

(* Types: the buffer stays a record of the declared types, and a resend    *)
(* request names sequence numbers.                                         *)
THEOREM TypeCorrect == Spec => []TypeOK
<1>1. IInv => TypeOK BY DEF IInv
<1> QED BY InitIInv, NextIInv, <1>1, PTL DEF Spec

(* raop_buffer_enqueue, dequeue and flush keep the entries in a window of  *)
(* at most L numbers that starts at first_seqnum, for every packet order.  *)
THEOREM WindowInvariant == Spec => []Window
<1>1. IInv => Window BY DEF IInv
<1> QED BY InitIInv, NextIInv, <1>1, PTL DEF Spec

(* No payload block is overwritten before it is freed or handed over.      *)
THEOREM BlocksAccounted == Spec => []NoBlockLost
<1>1. IInv => NoBlockLost BY DEF IInv
<1> QED BY InitIInv, NextIInv, <1>1, PTL DEF Spec

(* raop_buffer_dequeue returns the packet of first_seqnum or nothing.      *)
THEOREM DequeueInOrder == Spec => []DeliversFirst
<1>1. IInv => DeliversFirst
  <2> SUFFICES ASSUME IInv, NEW noResend \in BOOLEAN,
                      Delivered(buf, noResend) # NoData
               PROVE  /\ FirstEntry(buf).seqnum = buf.first
                      /\ ~FirstEntry(buf).freed
    BY DEF DeliversFirst
  <2> DEFINE f == SlotOf(buf.first)
             e == buf.entries[f]
  <2>1. buf \in Buffer /\ WindowOf(buf) BY DEF IInv, TypeOK, Window
  <2>2. f \in Slot /\ buf.first \in SeqNum BY <2>1, SlotOfType DEF Buffer
  <2>3. ~Stalled(buf, noResend) /\ e.filled BY DEF Delivered, FirstEntry
  <2>4. EntryFits(buf, f) BY <2>1, <2>2 DEF WindowOf
  <2>5. /\ ~e.freed
        /\ SlotOf(e.seqnum) = f
        /\ Ahead(buf, e.seqnum) < (buf.last + 1 - buf.first) % M
    BY <2>3, <2>4 DEF EntryFits
  <2>6. (buf.last + 1 - buf.first) % M \in 1 .. L BY <2>1, <2>3, SpanNotZero
  <2>7. e.seqnum \in SeqNum BY <2>1, <2>2 DEF Buffer, Entry
  <2>8. Ahead(buf, e.seqnum) < L
    BY <2>2, <2>5, <2>6, <2>7, BufferAssumption DEF Ahead, SeqNum
  <2>9. e.seqnum = buf.first
    BY <2>2, <2>5, <2>7, <2>8, SlotInjective DEF Ahead
  <2> QED BY <2>5, <2>9 DEF FirstEntry
<1> QED BY InitIInv, NextIInv, <1>1, PTL DEF Spec

-----------------------------------------------------------------------------
(* The resend request.                                                     *)

LEMMA ResendRangeIs ==
  ASSUME NEW b \in Buffer, WindowOf(b)
  PROVE  /\ \A s \in ResendRange(b) : ~b.entries[SlotOf(s)].filled
         /\ ~b.is_empty => Cardinality(ResendRange(b)) < L
<1> DEFINE c == ResendCount(b)
           f == [n \in 0 .. c - 1 |-> (b.first + n) % M]
<1>1. \A s \in ResendRange(b) : ~b.entries[SlotOf(s)].filled
  BY ResendCountIs DEF ResendRange
<1>2. c \in Nat /\ (~b.is_empty => c < L)
  BY HoleInWindow, ResendCountIs, BufferAssumption
<1>3. f \in Surjection(0 .. c - 1, ResendRange(b))
  BY DEF Surjection, ResendRange
<1>4. IsFiniteSet(0 .. c - 1) /\ Cardinality(0 .. c - 1) = c
  <2> HIDE DEF c
  <2> QED BY <1>2, FS_Interval
<1>5. Cardinality(ResendRange(b)) <= c /\ Cardinality(ResendRange(b)) \in Nat
  <2> HIDE DEF f, c
  <2> QED BY <1>3, <1>4, FS_Surjection, FS_CardinalityType
<1> QED BY <1>1, <1>2, <1>5, BufferAssumption

(* raop_buffer_handle_resends asks only for numbers whose entries are      *)
(* empty, and for fewer than the ring has, whatever happened before and    *)
(* wherever the numbers wrap.                                              *)
Asked == asked = {} \/ asked = ResendRange(buf)

THEOREM ResendsMissing == Spec => []ResendsOnlyMissing
<1>1. Init => Asked BY DEF Init, Asked
<1>2. Asked /\ [Next]_vars => Asked'
  BY DEF Asked, Next, vars, Enqueue, Dequeue, HandleResends, Flush
<1>3. IInv /\ Asked => ResendsOnlyMissing
  <2> SUFFICES ASSUME IInv, Asked PROVE ResendsOnlyMissing OBVIOUS
  <2>1. buf \in Buffer /\ WindowOf(buf) BY DEF IInv, TypeOK, Window
  <2>2. CASE asked = {}
    BY <2>2, FS_EmptySet, BufferAssumption DEF ResendsOnlyMissing
  <2>3. CASE asked = ResendRange(buf)
    BY <2>1, <2>3, ResendRangeIs DEF ResendsOnlyMissing
  <2> QED BY <2>2, <2>3 DEF Asked
<1> QED BY InitIInv, NextIInv, <1>1, <1>2, <1>3, PTL DEF Spec
=============================================================================
