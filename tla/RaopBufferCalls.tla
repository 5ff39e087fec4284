-------------------------- MODULE RaopBufferCalls ---------------------------
(***************************************************************************)
(* The functions of src/lib/lib/raop_buffer.c called in every order, with  *)
(* every sequence number: the jitter buffer on its own, without assuming   *)
(* anything of its caller or of the network.                               *)
(***************************************************************************)
EXTENDS RaopBuffer, FiniteSets

VARIABLES
  buf,    \* the buffer
  asked,  \* the sequence numbers this call asked to be resent
  live    \* blocks malloc'ed, not freed and not handed to the caller

vars == <<buf, asked, live>>

Init ==
  /\ buf = EmptyBuffer
  /\ asked = {}
  /\ live = 0

Enqueue(kind, s, p) ==
  /\ buf' = Enqueued(buf, kind, s, p)
  /\ live' = IF kind # "audio" \/ TooLate(buf, s) THEN live
             ELSE live - (IF Overruns(buf, s) THEN Cardinality(LiveSlots(buf)) ELSE 0)
                       + (IF Duplicate(MakeRoom(buf, s), s) THEN 0 ELSE 1)
  /\ asked' = {}

Dequeue(noResend) ==
  /\ buf' = Dequeued(buf, noResend)
  /\ live' = IF Delivered(buf, noResend) = NoData THEN live ELSE live - 1
  /\ asked' = {}

HandleResends ==
  /\ asked' = ResendRange(buf)
  /\ UNCHANGED <<buf, live>>

Flush(nextSeq) ==
  /\ buf' = Flushed(buf, nextSeq)
  /\ live' = live - Cardinality(LiveSlots(buf))
  /\ asked' = {}

Next ==
  \/ \E kind \in PacketKind, s \in SeqNum, p \in Payload : Enqueue(kind, s, p)
  \/ \E noResend \in BOOLEAN : Dequeue(noResend)
  \/ HandleResends
  \/ \E nextSeq \in SeqNum \cup {-1} : Flush(nextSeq)

Spec == Init /\ [][Next]_vars

-----------------------------------------------------------------------------
(* Every variable has the type its declaration in the code gives it.       *)
TypeOK ==
  /\ buf \in Buffer
  /\ asked \subseteq SeqNum
  /\ live \in Int

(* The ring holds exactly a window of at most L consecutive sequence       *)
(* numbers that starts at first, whatever packets arrived and whatever was *)
(* flushed (raop_buffer_enqueue's "always space in the buffer").           *)
Window == WindowOf(buf)

(* raop_buffer_dequeue returns the packet of first_seqnum or nothing: a    *)
(* packet is never taken for another one that uses the same slot.          *)
DeliversFirst ==
  \A noResend \in BOOLEAN :
    Delivered(buf, noResend) # NoData =>
      /\ FirstEntry(buf).seqnum = buf.first
      /\ ~FirstEntry(buf).freed

(* Every block raop_buffer_enqueue mallocs is owned by an entry until it   *)
(* is freed by a flush or handed over by a dequeue: none is overwritten.   *)
NoBlockLost == live = Cardinality(LiveSlots(buf))

(* raop_buffer_handle_resends asks for packets that did not arrive, and    *)
(* for fewer than the ring has slots.                                      *)
ResendsOnlyMissing ==
  /\ \A s \in asked : ~buf.entries[SlotOf(s)].filled
  /\ ~buf.is_empty => Cardinality(asked) < L
=============================================================================
