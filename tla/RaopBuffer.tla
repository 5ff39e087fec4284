----------------------------- MODULE RaopBuffer -----------------------------
(***************************************************************************)
(* src/lib/lib/raop_buffer.c: the ring in which the audio thread puts RTP  *)
(* packets back in order before it plays them.                             *)
(*                                                                         *)
(* The functions of the file as operators on a buffer record, and the      *)
(* predicate WindowOf that every one of them preserves.  RaopBufferCalls   *)
(* calls them in every order; RaopRtp calls them the way the audio thread  *)
(* does.                                                                   *)
(***************************************************************************)
EXTENDS Integers

CONSTANTS
  L,        \* RAOP_BUFFER_LENGTH, 32 in the code
  M,        \* sequence numbers are unsigned shorts: 2^16 of them
  Payload,  \* what a packet carries: decrypted audio and its timestamp
  NoData    \* payload_data == NULL

ASSUME BufferAssumption ==
  /\ L \in Nat \ {0}
  /\ M \in Nat
  /\ M > 2 * L
  /\ M % 2 = 0
  /\ M % L = 0
  /\ NoData \notin Payload

SeqNum == 0 .. M - 1
Slot   == 0 .. L - 1

(* An entry's payload_data points to a live block, to no block (NoData) or *)
(* to a block that flush has freed (freed).                                *)
Entry  == [filled : BOOLEAN, seqnum : SeqNum,
           data : Payload \cup {NoData}, freed : BOOLEAN]
Buffer == [is_empty : BOOLEAN, first : SeqNum, last : SeqNum,
           entries : [Slot -> Entry]]

SlotOf(s) == s % L
FirstEntry(b) == b.entries[SlotOf(b.first)]

(* The difference of two unsigned shorts, read as a signed short.          *)
SeqCmp(s1, s2) ==
  LET d == (s1 - s2) % M IN IF d < M \div 2 THEN d ELSE d - M

-----------------------------------------------------------------------------
(* raop_buffer_init *)
EmptyBuffer ==
  [is_empty |-> TRUE, first |-> 0, last |-> 0,
   entries |-> [i \in Slot |-> [filled |-> FALSE, seqnum |-> 0,
                                data |-> NoData, freed |-> FALSE]]]

(* Plausible mistakes in the functions below, which the properties catch.  *)
LateOrFirst(b, s)      == ~b.is_empty /\ SeqCmp(s, b.first) <= 0
OverrunsOneLate(b, s)  == SeqCmp(s, b.first + L) > 0
NeverDuplicate(b, s)   == FALSE
NeverTooLate(b, s)     == FALSE

(* raop_buffer_flush: frees every block but keeps the pointers to them.    *)
(* NextSeq outside of SeqNum empties the buffer; inside of it, it becomes  *)
(* the first sequence number and leaves is_empty as it was.                *)
Flushed(b, nextSeq) ==
  LET swept == [i \in Slot |->
                 [b.entries[i] EXCEPT !.filled = FALSE,
                                      !.freed = b.entries[i].data # NoData]]
  IN IF nextSeq \in SeqNum
     THEN [b EXCEPT !.entries = swept, !.first = nextSeq,
                    !.last = (nextSeq - 1) % M]
     ELSE [b EXCEPT !.entries = swept, !.is_empty = TRUE]

(* The steps of raop_buffer_enqueue, in its order. *)
TooLate(b, s)  == ~b.is_empty /\ SeqCmp(s, b.first) < 0
Overruns(b, s) == SeqCmp(s, b.first + L) >= 0
MakeRoom(b, s) == IF Overruns(b, s) THEN Flushed(b, s) ELSE b
Duplicate(b, s) == /\ b.entries[SlotOf(s)].filled
                   /\ b.entries[SlotOf(s)].seqnum = s
Store(b, s, p) ==
  [is_empty |-> FALSE,
   first    |-> IF b.is_empty THEN s ELSE b.first,
   last     |-> IF b.is_empty \/ SeqCmp(s, b.last) > 0 THEN s ELSE b.last,
   entries  |-> [b.entries EXCEPT ![SlotOf(s)] =
                  [filled |-> TRUE, seqnum |-> s, data |-> p, freed |-> FALSE]]]

(* A packet of raop_buffer_enqueue is "short" (or too long: returns -1),   *)
(* the "no_data" marker of 16 bytes (returns 0) or audio.                  *)
PacketKind == {"short", "no_data", "audio"}

Enqueued(b, kind, s, p) ==
  IF kind # "audio" \/ TooLate(b, s) THEN b
  ELSE LET r == MakeRoom(b, s)
       IN IF Duplicate(r, s) THEN r ELSE Store(r, s, p)

(* raop_buffer_dequeue                                                     *)
NextSeqNum(s) == (s + 1) % M
Count(b) == SeqCmp(b.last, b.first) + 1
Stalled(b, noResend) ==
  \/ b.is_empty
  \/ Count(b) <= 0
  \/ ~noResend /\ ~FirstEntry(b).filled /\ Count(b) < L

Dequeued(b, noResend) ==
  IF Stalled(b, noResend) THEN b
  ELSE LET h == [FirstEntry(b) EXCEPT !.filled = FALSE, !.data = NoData,
                                !.freed = FALSE]
       IN [b EXCEPT !.first = NextSeqNum(@),
                    !.entries[SlotOf(b.first)] =
                      IF FirstEntry(b).filled THEN h ELSE @]

Delivered(b, noResend) ==
  IF Stalled(b, noResend) \/ ~FirstEntry(b).filled THEN NoData ELSE FirstEntry(b).data

(* raop_buffer_handle_resends: the sequence numbers of the hole at first.  *)
AheadOfFirst(b) == IF SeqCmp(b.first, b.last) < 0
                   THEN (b.last - b.first) % M ELSE 0
ResendCount(b) ==
  LET arrived == {n \in 0 .. AheadOfFirst(b) :
                    \/ n = AheadOfFirst(b)
                    \/ b.entries[SlotOf((b.first + n) % M)].filled}
  IN CHOOSE n \in arrived : \A m \in arrived : n <= m

(* A mistake: it asks for the packet that ends the hole as well.           *)
ThroughArrived(b) ==
  {(b.first + n) % M : n \in {k \in 0 .. ResendCount(b) : ResendCount(b) > 0}}

ResendRange(b) == {(b.first + n) % M : n \in 0 .. ResendCount(b) - 1}

-----------------------------------------------------------------------------
(* The blocks that entries own.                                            *)
LiveSlots(b) == {i \in Slot : b.entries[i].data # NoData /\ ~b.entries[i].freed}

(* How far s is ahead of the first sequence number. *)
Ahead(b, s) == (s - b.first) % M

(* The entries between first and last never outnumber the slots, in spite  *)
(* of sequence numbers that wrap, jumps and flushes to any number.         *)
SpanFits(b) == ~b.is_empty => (b.last + 1 - b.first) % M <= L

(* A filled entry is in the slot of its sequence number, that number lies  *)
(* between first and last, and its block is live.                          *)
EntryFits(b, i) ==
  LET e == b.entries[i]
  IN e.filled => /\ ~b.is_empty
                 /\ SlotOf(e.seqnum) = i
                 /\ Ahead(b, e.seqnum) < (b.last + 1 - b.first) % M
                 /\ e.data # NoData
                 /\ ~e.freed

(* No block is referenced by an entry that is not filled: an entry is      *)
(* emptied either by dequeue, which clears the pointer, or by flush.       *)
UnfilledOwnsNothing(b, i) ==
  ~b.entries[i].filled => b.entries[i].data = NoData \/ b.entries[i].freed

WindowOf(b) ==
  /\ SpanFits(b)
  /\ \A i \in Slot : EntryFits(b, i) /\ UnfilledOwnsNothing(b, i)
=============================================================================
