-------------------------- MODULE MDNSClientProofs --------------------------
(***************************************************************************)
(* Proofs about MDNSClient, for every number of services, starts, resolves *)
(* and failures: the browse thread is always joined before the next start, *)
(* and without an overlap no reference of the responder is lost.           *)
(***************************************************************************)
EXTENDS MDNSClient, TLAPS

(* The context exists from a start to the end of its cleaning up.          *)
Flags ==
  /\ context.exists <=> context.joinable
  /\ ~context.exists => /\ context = NoContext
                        /\ ui \in {"idle", "start"} /\ thread \in {"none", "done"}
  /\ context.exists => ui # "start" /\ thread # "none"
  /\ ui = "idle" => ~restart
  /\ ui = "idle" /\ context.exists => context.running
  /\ thread = "done" /\ context.running => context.cleanBrowseRef
  /\ thread \in {"browse", "store", "loop"} => starts \in Starts

(* The references to resolves that the responder has given out, and where  *)
(* in a stop or a cleaning up they, and that of the browse, have been      *)
(* freed.                                                                  *)
Given == {r \in Resolves : resolving[r] # NULL}
ResolvesFreed == ui = "join" \/ (ui = "service" /\ ~restart)
ServiceFreed  == ui = "join" \/ (ui = "resolves" /\ restart)

BrowseHeld ==
  /\ browsing = ({context.serviceRef} \ {NULL}) \cup ThreadHolds
  /\ thread \in {"browse", "store"} => context.serviceRef = NULL /\ ~ServiceFreed
  /\ ServiceFreed => context.serviceRef = NULL

ResolvesHeld ==
  /\ IF ResolvesFreed THEN Given = {} /\ callback = NoCall
     ELSE Given = Held \cup CallHolds
  /\ ~context.exists => callback = NoCall

(* No reference is in two places, and none is one of a resolve to come.    *)
HeldOnce ==
  /\ \A i, j \in Instance :
       i # j /\ context.resolveRefs[i] = context.resolveRefs[j] => context.resolveRefs[i] = NULL
  /\ CallHolds \cap Held = {}
  /\ \A r \in Held \cup CallHolds : r <= resolves

Refs == ~twice /\ BrowseHeld /\ ResolvesHeld /\ HeldOnce

Inv == TypeOK /\ Flags /\ (~overtaken => Refs)

-----------------------------------------------------------------------------
(* Types.                                                                  *)

FieldsOK ==
  /\ context \in Context
  /\ ui \in {"idle", "resolves", "service", "join", "start"}
  /\ thread \in {"none", "browse", "store", "loop", "done"}
  /\ starts \in 0 .. MaxStarts /\ resolves \in 0 .. MaxResolves
  /\ errors \in 0 .. MaxErrors
  /\ browsing \subseteq Starts
BoolsOK == restart \in BOOLEAN /\ overtaken \in BOOLEAN /\ twice \in BOOLEAN
CallsOK ==
  /\ resolving \in [Resolves -> Instance \cup {NULL}]
  /\ callback \in {NoCall} \cup [op : {"add"}, ref : Resolves, instance : Instance]
                          \cup [op : {"remove"}, instance : Instance]

LEMMA TypeParts == TypeOK <=> FieldsOK /\ BoolsOK /\ CallsOK
BY Zenon DEF TypeOK, FieldsOK, BoolsOK, CallsOK

LEMMA EmptyContext == NoContext \in Context /\ NoContext.resolveRefs = NoRefs
BY DEF NoContext, NoRefs, Context

LEMMA Bounds ==
  /\ MaxStarts \in Nat /\ MaxResolves \in Nat /\ MaxErrors \in Nat
  /\ NULL \notin Instance /\ NULL \notin Nat
BY MDNSAssumption

LEMMA BoolsStep == BoolsOK /\ [Next]_vars => BoolsOK'
<1> SUFFICES ASSUME BoolsOK, [Next]_vars PROVE BoolsOK' OBVIOUS
<1>1. restart' = restart \/ restart' \in BOOLEAN
  BY DEF Next, vars, responder, Stopping, BrowseThread, Responder, StartBrowse,
         StartAfterFailure, StopBrowse, FreeResolves, FreeService, Join, Browse,
         BrowseFails, StoreRef, LeaveLoop, ChangeTable, ContextNotFound, Found, Resolved
<1>2. overtaken' = overtaken \/ overtaken' \in BOOLEAN
  BY DEF Next, vars, responder, Stopping, BrowseThread, Responder, StartBrowse,
         StartAfterFailure, StopBrowse, FreeResolves, FreeService, Join, Browse,
         BrowseFails, StoreRef, LeaveLoop, ChangeTable, ContextNotFound, Found,
         Resolved, Overlaps
<1>3. twice' = twice \/ twice' \in BOOLEAN
  BY DEF Next, vars, responder, Stopping, BrowseThread, Responder, StartBrowse,
         StartAfterFailure, StopBrowse, FreeResolves, FreeService, Join, Browse,
         BrowseFails, StoreRef, LeaveLoop, ChangeTable, ContextNotFound, Found, Resolved
<1> QED BY <1>1, <1>2, <1>3, Zenon DEF BoolsOK

LEMMA FieldsStep == FieldsOK /\ CallsOK /\ Flags /\ [Next]_vars => FieldsOK'
<1> SUFFICES ASSUME FieldsOK, CallsOK, Flags, [Next]_vars PROVE FieldsOK' OBVIOUS
<1> USE DEF FieldsOK, Context
<1>1. CASE StartBrowse
  <2>1. starts' \in 0 .. MaxStarts BY <1>1, Bounds DEF StartBrowse
  <2>2. context' \in Context BY <1>1 DEF StartBrowse
  <2> QED BY <1>1, <2>1, <2>2 DEF StartBrowse, responder
<1>2. CASE StartAfterFailure BY <1>2 DEF StartAfterFailure, responder
<1>3. CASE StopBrowse BY <1>3 DEF StopBrowse, responder
<1>4. CASE FreeResolves BY <1>4 DEF FreeResolves
<1>5. CASE FreeService BY <1>5 DEF FreeService
<1>6. CASE Join BY <1>6, EmptyContext DEF Join, responder
<1>7. CASE Browse BY <1>7 DEF Browse, Flags
<1>8. CASE BrowseFails
  <2>1. errors' \in 0 .. MaxErrors BY <1>8, Bounds DEF BrowseFails
  <2>2. context' \in Context BY <1>8 DEF BrowseFails
  <2> QED BY <1>8, <2>1, <2>2 DEF BrowseFails, responder
<1>9. CASE StoreRef BY <1>9, Bounds DEF StoreRef, responder, Flags
<1>10. CASE LeaveLoop BY <1>10 DEF LeaveLoop, responder
<1>11. CASE ChangeTable BY <1>11 DEF ChangeTable, CallsOK, NoCall
<1>12. CASE ContextNotFound BY <1>12 DEF ContextNotFound, responder
<1>13. ASSUME NEW n \in Starts, NEW i \in Instance, Found(n, i) PROVE FieldsOK'
  <2>1. resolves' \in 0 .. MaxResolves BY <1>13, Bounds DEF Found
  <2> QED BY <1>13, <2>1 DEF Found
<1>14. ASSUME NEW r \in Resolves, Resolved(r) PROVE FieldsOK'
  BY <1>14 DEF Resolved, responder
<1>15. CASE UNCHANGED vars BY <1>15 DEF vars, responder
<1> QED BY <1>1, <1>2, <1>3, <1>4, <1>5, <1>6, <1>7, <1>8, <1>9, <1>10, <1>11,
           <1>12, <1>13, <1>14, <1>15 DEF Next, Stopping, BrowseThread, Responder

LEMMA CallsStep == FieldsOK /\ CallsOK /\ [Next]_vars => CallsOK'
<1> SUFFICES ASSUME FieldsOK, CallsOK, [Next]_vars PROVE CallsOK' OBVIOUS
<1> USE MDNSAssumption DEF FieldsOK, CallsOK, NoCall
<1>1. CASE StartBrowse \/ StartAfterFailure \/ StopBrowse \/ FreeService \/ Join
  BY <1>1 DEF StartBrowse, StartAfterFailure, StopBrowse, FreeService, Join, responder
<1>2. CASE BrowseThread
  BY <1>2 DEF BrowseThread, Browse, BrowseFails, StoreRef, LeaveLoop, responder
<1>3. CASE FreeResolves BY <1>3 DEF FreeResolves
<1>4. CASE ChangeTable BY <1>4 DEF ChangeTable
<1>5. CASE ContextNotFound BY <1>5 DEF ContextNotFound, responder
<1>6. ASSUME NEW n \in Starts, NEW i \in Instance, Found(n, i) PROVE CallsOK'
  BY <1>6 DEF Found, Resolves
<1>7. ASSUME NEW r \in Resolves, Resolved(r) PROVE CallsOK'
  BY <1>7 DEF Resolved, responder
<1>8. CASE UNCHANGED vars BY <1>8 DEF vars, responder
<1> QED BY <1>1, <1>2, <1>3, <1>4, <1>5, <1>6, <1>7, <1>8 DEF Next, Stopping, Responder

LEMMA FlagsStep == TypeOK /\ Flags /\ [Next]_vars => Flags'
<1> SUFFICES ASSUME TypeOK, Flags, [Next]_vars PROVE Flags' OBVIOUS
<1> USE MDNSAssumption DEF Flags, TypeOK, Context
<1>1. CASE StartBrowse BY <1>1 DEF StartBrowse, responder, Starts
<1>2. CASE StartAfterFailure BY <1>2 DEF StartAfterFailure, responder, NoContext
<1>3. CASE StopBrowse BY <1>3 DEF StopBrowse, responder
<1>4. CASE FreeResolves BY <1>4 DEF FreeResolves
<1>5. CASE FreeService BY <1>5 DEF FreeService
<1>6. CASE Join BY <1>6 DEF Join, responder, NoContext
<1>7. CASE Browse BY <1>7 DEF Browse
<1>8. CASE BrowseFails BY <1>8 DEF BrowseFails, responder
<1>9. CASE StoreRef BY <1>9 DEF StoreRef, responder
<1>10. CASE LeaveLoop BY <1>10 DEF LeaveLoop, responder, NotRunning
<1>11. CASE ChangeTable BY <1>11 DEF ChangeTable
<1>12. CASE ContextNotFound BY <1>12 DEF ContextNotFound, responder
<1>13. ASSUME NEW n \in Starts, NEW i \in Instance, Found(n, i) PROVE Flags'
  BY <1>13 DEF Found
<1>14. ASSUME NEW r \in Resolves, Resolved(r) PROVE Flags'
  BY <1>14 DEF Resolved, responder
<1>15. CASE UNCHANGED vars BY <1>15 DEF vars, responder
<1> QED BY <1>1, <1>2, <1>3, <1>4, <1>5, <1>6, <1>7, <1>8, <1>9, <1>10, <1>11,
           <1>12, <1>13, <1>14, <1>15 DEF Next, Stopping, BrowseThread, Responder

LEMMA TypeStep == TypeOK /\ Flags /\ [Next]_vars => TypeOK'
<1> SUFFICES ASSUME TypeOK, Flags, [Next]_vars PROVE TypeOK' OBVIOUS
<1>1. FieldsOK /\ BoolsOK /\ CallsOK BY TypeParts
<1>2. FieldsOK' /\ BoolsOK' /\ CallsOK' BY <1>1, FieldsStep, BoolsStep, CallsStep
<1> QED BY <1>2, Zenon DEF TypeOK, FieldsOK, BoolsOK, CallsOK

-----------------------------------------------------------------------------
(* References.                                                             *)

(* The history of an overlap stays, and what frees a reference makes one.  *)
LEMMA NotOvertaken ==
  ASSUME [Next]_vars, ~overtaken'
  PROVE  /\ ~overtaken
         /\ FreeResolves \/ FreeService =>
              callback = NoCall /\ thread \notin {"browse", "store"}
         /\ (\E n \in Starts, i \in Instance : Found(n, i)) => ui = "idle"
         /\ (\E r \in Resolves : Resolved(r)) => ui = "idle"
<1>1. ~overtaken
  BY DEF Next, vars, responder, Stopping, BrowseThread, Responder, StartBrowse,
         StartAfterFailure, StopBrowse, FreeResolves, FreeService, Join, Browse,
         BrowseFails, StoreRef, LeaveLoop, ChangeTable, ContextNotFound, Found,
         Resolved, Overlaps
<1>2. FreeResolves \/ FreeService => callback = NoCall /\ thread \notin {"browse", "store"}
  BY DEF FreeResolves, FreeService, Overlaps
<1> QED BY <1>1, <1>2 DEF Found, Resolved

(* Without a context there is nothing that the responder has given out.    *)
LEMMA NothingHeld ==
  ASSUME Flags, BrowseHeld, ResolvesHeld, ~context.exists
  PROVE  /\ context.serviceRef = NULL /\ browsing = {}
         /\ Held = {} /\ CallHolds = {} /\ Given = {} /\ callback = NoCall
<1>1. context = NoContext /\ thread \in {"none", "done"} /\ ui \in {"idle", "start"}
  BY DEF Flags
<1>2. context.serviceRef = NULL /\ \A i \in Instance : context.resolveRefs[i] = NULL
  BY <1>1 DEF NoContext, NoRefs
<1>3. Held = {} BY <1>2 DEF Held
<1>4. callback = NoCall BY DEF ResolvesHeld
<1>5. CallHolds = {} BY <1>4 DEF CallHolds, NoCall
<1>6. Given = {} BY <1>1, <1>3, <1>5 DEF ResolvesHeld, ResolvesFreed
<1>7. browsing = {} BY <1>1, <1>2 DEF BrowseHeld, ThreadHolds
<1> QED BY <1>2, <1>3, <1>4, <1>5, <1>6, <1>7

(* The references to resolves are those of the table and of the call.      *)
SameTable ==
  /\ context'.resolveRefs = context.resolveRefs
  /\ resolving' = resolving /\ resolves' = resolves
  /\ callback' = callback /\ twice' = twice

LEMMA SameTableHolds ==
  ASSUME SameTable
  PROVE  /\ Held' = Held /\ CallHolds' = CallHolds /\ Given' = Given
         /\ HeldOnce => HeldOnce'
<1>1. Held' = Held /\ CallHolds' = CallHolds /\ Given' = Given
  BY DEF SameTable, Held, CallHolds, Given
<1> QED BY <1>1, Zenon DEF HeldOnce, SameTable

(* What the user interface and the browse thread do leaves the table alone,*)
(* but for the freeing of its references.                                  *)
LEMMA StartRefs ==
  ASSUME TypeOK, Flags, Refs, StartBrowse \/ StartAfterFailure \/ StopBrowse
  PROVE  Refs'
<1>1. SameTable BY DEF StartBrowse, StartAfterFailure, StopBrowse, responder, SameTable,
     TypeOK, Context
<1>2. ~twice' /\ HeldOnce' /\ Held' = Held /\ CallHolds' = CallHolds /\ Given' = Given
  BY <1>1, SameTableHolds DEF Refs, SameTable
<1>3. CASE StartBrowse
  <2>1. ~context.exists BY <1>3 DEF StartBrowse, Startable, Flags
  <2>2. /\ context.serviceRef = NULL /\ browsing = {}
        /\ Held = {} /\ CallHolds = {} /\ Given = {} /\ callback = NoCall
    BY <2>1, NothingHeld DEF Refs
  <2>3. /\ context'.serviceRef = NULL /\ browsing' = {} /\ callback' = NoCall
        /\ thread' = "browse" /\ ui' = "idle"
    BY <2>2, <1>3 DEF StartBrowse, responder
  <2>4. BrowseHeld' BY <2>3 DEF BrowseHeld, ThreadHolds, ServiceFreed
  <2>5. ResolvesHeld' BY <2>2, <2>3, <1>2 DEF ResolvesHeld, ResolvesFreed
  <2> QED BY <2>4, <2>5, <1>2, Zenon DEF Refs
<1>4. CASE StartAfterFailure
  <2>1. /\ context'.serviceRef = context.serviceRef /\ context'.exists = context.exists
        /\ browsing' = browsing /\ thread' = thread /\ callback' = callback
        /\ starts' = starts /\ ui = "idle" /\ ui' = "service" /\ restart'
    BY <1>4 DEF StartAfterFailure, responder, TypeOK, Context
  <2>2. BrowseHeld' BY <2>1 DEF Refs, BrowseHeld, ThreadHolds, ServiceFreed
  <2>3. ResolvesHeld' BY <2>1, <1>2 DEF Refs, ResolvesHeld, ResolvesFreed
  <2> QED BY <2>2, <2>3, <1>2, Zenon DEF Refs
<1>5. CASE StopBrowse
  <2>1. /\ context'.serviceRef = context.serviceRef /\ context'.exists = context.exists
        /\ browsing' = browsing /\ thread' = thread /\ callback' = callback
        /\ starts' = starts /\ ui = "idle" /\ ui' = "resolves" /\ ~restart'
    BY <1>5 DEF StopBrowse, responder, Flags, TypeOK, Context
  <2>2. BrowseHeld' BY <2>1 DEF Refs, BrowseHeld, ThreadHolds, ServiceFreed
  <2>3. ResolvesHeld' BY <2>1, <1>2 DEF Refs, ResolvesHeld, ResolvesFreed
  <2> QED BY <2>2, <2>3, <1>2, Zenon DEF Refs
<1> QED BY <1>3, <1>4, <1>5

LEMMA FreeResolvesRefs ==
  ASSUME TypeOK, Flags, Refs, FreeResolves, callback = NoCall
  PROVE  Refs'
<1>1. CallHolds = {} /\ CallHolds' = {} BY DEF FreeResolves, CallHolds, NoCall
<1>2. Given = Held BY <1>1 DEF Refs, ResolvesHeld, ResolvesFreed, FreeResolves
<1>3. Held' = Held BY DEF FreeResolves, Held
<1>4. \A r \in Held : r \in Resolves /\ resolving[r] # NULL BY <1>2 DEF Given
<1>5. ~twice' BY <1>4 DEF FreeResolves, Refs
<1>6. Given' = {}
  <2> SUFFICES ASSUME NEW r \in Resolves, resolving'[r] # NULL PROVE FALSE BY DEF Given
  <2>1. r \notin Held /\ resolving[r] # NULL BY DEF FreeResolves
  <2> QED BY <2>1, <1>2 DEF Given
<1>7. ResolvesHeld'
  BY <1>6 DEF ResolvesHeld, ResolvesFreed, FreeResolves
<1>8. BrowseHeld'
  BY DEF Refs, BrowseHeld, ThreadHolds, ServiceFreed, FreeResolves
<1>9. HeldOnce' BY <1>1, <1>3 DEF Refs, HeldOnce, FreeResolves
<1> QED BY <1>5, <1>7, <1>8, <1>9, Zenon DEF Refs

LEMMA FreeServiceRefs ==
  ASSUME TypeOK, Flags, Refs, FreeService, callback = NoCall,
         thread \notin {"browse", "store"}
  PROVE  Refs'
<1>1. SameTable BY DEF FreeService, SameTable, TypeOK, Context
<1>2. ~twice' /\ HeldOnce' /\ Held' = Held /\ CallHolds' = CallHolds /\ Given' = Given
  BY <1>1, SameTableHolds DEF Refs, SameTable
<1>3. browsing = {context.serviceRef} \ {NULL}
  BY DEF Refs, BrowseHeld, ThreadHolds
<1>4. /\ browsing' = {} /\ context'.serviceRef = NULL /\ context'.exists = context.exists
      /\ thread' \notin {"browse", "store"} /\ callback' = NoCall
      /\ ui = "service" /\ restart' = restart
      /\ ui' = IF restart THEN "resolves" ELSE "join"
  BY <1>3 DEF FreeService, TypeOK, Context
<1>5. BrowseHeld' BY <1>4 DEF BrowseHeld, ThreadHolds
<1>6. ResolvesHeld' BY <1>2, <1>4 DEF Refs, ResolvesHeld, ResolvesFreed
<1> QED BY <1>2, <1>5, <1>6, Zenon DEF Refs

LEMMA JoinRefs ==
  ASSUME TypeOK, Flags, Refs, Join
  PROVE  Refs'
<1>1. Given = {} /\ callback = NoCall /\ context.serviceRef = NULL
  BY DEF Join, Refs, ResolvesHeld, ResolvesFreed, BrowseHeld, ServiceFreed
<1>2. Given' = {} /\ callback' = NoCall /\ CallHolds' = {}
  BY <1>1 DEF Join, responder, Given, CallHolds, NoCall
<1>3. browsing' = {} BY <1>1 DEF Join, responder, Refs, BrowseHeld, ThreadHolds
<1>4. context'.serviceRef = NULL /\ \A i \in Instance : context'.resolveRefs[i] = NULL
  BY DEF Join, NoContext, NoRefs
<1>5. Held' = {} BY <1>4 DEF Held
<1>6. thread' = "done" /\ ui' \in {"start", "idle"} /\ ~twice' BY DEF Join, Refs
<1>7. BrowseHeld' BY <1>3, <1>4, <1>6 DEF BrowseHeld, ThreadHolds, ServiceFreed
<1>8. ResolvesHeld' BY <1>2, <1>5, <1>6 DEF ResolvesHeld, ResolvesFreed
<1>9. HeldOnce' BY <1>2, <1>4, <1>5 DEF HeldOnce
<1> QED BY <1>6, <1>7, <1>8, <1>9, Zenon DEF Refs

LEMMA BrowseThreadRefs ==
  ASSUME TypeOK, Flags, Refs, BrowseThread
  PROVE  Refs'
<1>1. SameTable
  BY DEF BrowseThread, Browse, BrowseFails, StoreRef, LeaveLoop, responder, SameTable,
     TypeOK, Context
<1>2. ~twice' /\ HeldOnce' /\ Held' = Held /\ CallHolds' = CallHolds /\ Given' = Given
  BY <1>1, SameTableHolds DEF Refs, SameTable
<1>3. /\ ui' = ui /\ restart' = restart /\ callback' = callback /\ starts' = starts
      /\ context'.exists = context.exists
  BY DEF BrowseThread, Browse, BrowseFails, StoreRef, LeaveLoop, responder, TypeOK,
         Context
<1>4. ResolvesHeld' BY <1>2, <1>3 DEF Refs, ResolvesHeld, ResolvesFreed
<1>5. BrowseHeld'
  <2>1. CASE Browse
    BY <2>1 DEF Browse, Refs, BrowseHeld, ThreadHolds, ServiceFreed
  <2>2. CASE BrowseFails
    <3>1. context'.serviceRef = NULL /\ browsing' = {} /\ thread' = "done"
      BY <2>2 DEF BrowseFails, responder, Refs, BrowseHeld, ThreadHolds
    <3> QED BY <3>1 DEF BrowseHeld, ThreadHolds
  <2>3. CASE StoreRef
    <3>1. /\ browsing' = {starts} /\ context'.serviceRef = starts /\ thread' = "loop"
          /\ ~ServiceFreed
      BY <2>3 DEF StoreRef, responder, Refs, BrowseHeld, ThreadHolds, TypeOK, Context
    <3>2. starts # NULL BY <2>3, Bounds DEF StoreRef, Flags, Starts
    <3> QED BY <3>1, <3>2, <1>3 DEF BrowseHeld, ThreadHolds, ServiceFreed
  <2>4. CASE LeaveLoop
    <3>1. /\ browsing' = browsing /\ context' = context /\ thread' = "done"
          /\ thread = "loop"
      BY <2>4 DEF LeaveLoop, responder
    <3> QED BY <3>1, <1>3 DEF Refs, BrowseHeld, ThreadHolds, ServiceFreed
  <2> QED BY <2>1, <2>2, <2>3, <2>4 DEF BrowseThread
<1> QED BY <1>2, <1>4, <1>5, Zenon DEF Refs

(* The responder's thread: a reference goes from the call into the table,  *)
(* and the one that it replaces there is freed.                            *)
LEMMA FoundRefs ==
  ASSUME TypeOK, Flags, Refs, NEW n \in Starts, NEW i \in Instance, Found(n, i),
         ui = "idle"
  PROVE  Refs'
<1> DEFINE new == resolves + 1
<1>1. new \in Resolves /\ resolves \in Nat
  BY Bounds DEF Found, Resolves, TypeOK
<1>2. context.exists BY NothingHeld DEF Found, Refs
<1>3. /\ CallHolds = {} /\ CallHolds' = {new}
      /\ Held' = Held /\ resolves' = new /\ callback' # NoCall
  BY DEF Found, CallHolds, NoCall, Held
<1>4. resolving' = [resolving EXCEPT ![new] = i] BY DEF Found
<1>5. i # NULL BY Bounds
<1>6. resolving \in [Resolves -> Instance \cup {NULL}] BY DEF TypeOK
<1> HIDE DEF new
<1>7. Given' = Given \cup {new} BY <1>1, <1>4, <1>5, <1>6 DEF Given
<1>8. Given = Held BY <1>3 DEF Refs, ResolvesHeld, ResolvesFreed
<1>9. ResolvesHeld'
  BY <1>2, <1>3, <1>7, <1>8 DEF ResolvesHeld, ResolvesFreed, Found
<1>10. BrowseHeld' BY DEF Found, Refs, BrowseHeld, ThreadHolds, ServiceFreed
<1>11. \A r \in Held : r \in Resolves /\ r <= resolves
  BY <1>8 DEF Refs, HeldOnce, Given
<1>12. new = resolves + 1 BY DEF new
<1>13. new \notin Held /\ \A r \in Held \cup {new} : r <= new
  BY <1>1, <1>11, <1>12 DEF Resolves
<1>14. HeldOnce' BY <1>3, <1>13 DEF HeldOnce, Found, Refs
<1>15. ~twice' BY DEF Found, Refs
<1> QED BY <1>9, <1>10, <1>14, <1>15, Zenon DEF Refs

LEMMA ResolvedRefs ==
  ASSUME TypeOK, Flags, Refs, NEW r \in Resolves, Resolved(r), ui = "idle"
  PROVE  Refs'
<1>1. context.exists BY NothingHeld DEF Resolved, Refs, Given
<1>2. CallHolds = {} /\ CallHolds' = {} BY DEF Resolved, CallHolds, NoCall
<1>3. Held' = Held /\ Given' = Given BY DEF Resolved, responder, Held, Given
<1>4. ResolvesHeld'
  BY <1>1, <1>2, <1>3 DEF Resolved, Refs, ResolvesHeld, ResolvesFreed
<1>5. BrowseHeld'
  BY DEF Resolved, responder, Refs, BrowseHeld, ThreadHolds, ServiceFreed
<1>6. HeldOnce' BY <1>2, <1>3 DEF Resolved, responder, Refs, HeldOnce
<1> QED BY <1>4, <1>5, <1>6, Zenon DEF Resolved, Refs

LEMMA ChangeTableRefs ==
  ASSUME TypeOK, Flags, Refs, ChangeTable
  PROVE  Refs'
<1> DEFINE i   == callback.instance
           old == context.resolveRefs[i]
           new == IF callback.op = "add" THEN callback.ref ELSE NULL
           tab == context.resolveRefs
<1>1. i \in Instance /\ new \in Resolves \cup {NULL} /\ tab \in [Instance -> Resolves \cup {NULL}]
  BY DEF ChangeTable, TypeOK, Context
<1>2. context'.resolveRefs = [tab EXCEPT ![i] = new]
  BY DEF ChangeTable, Replaceable, TypeOK, Context
<1>3. resolving' = [r \in Resolves |-> IF r = old THEN NULL ELSE resolving[r]]
  BY DEF ChangeTable, Replaceable
<1>4. Given = Held \cup CallHolds BY DEF ChangeTable, Refs, ResolvesHeld
<1>5. CallHolds = {new} \ {NULL}
  BY Bounds DEF CallHolds, ChangeTable, TypeOK, Resolves
<1>6. CallHolds' = {} BY DEF ChangeTable, CallHolds, NoCall
<1>7. tab[i] = old BY DEF old
<1>8. \A j, k \in Instance : j # k /\ tab[j] = tab[k] => tab[j] = NULL
  BY DEF Refs, HeldOnce
<1>9. Held = {tab[j] : j \in Instance} \ {NULL} BY DEF Held
<1>10. NULL \notin Resolves BY Bounds DEF Resolves
<1>11. CallHolds \cap Held = {} /\ \A r \in Held \cup CallHolds : r <= resolves
  BY DEF Refs, HeldOnce
<1>12. twice' = (twice \/ (old # NULL /\ resolving[old] = NULL))
  BY DEF ChangeTable, Replaceable
<1> HIDE DEF i, old, new, tab
<1>13. old \in Held \/ old = NULL BY <1>1, <1>7, <1>9
<1>14. Held' = (Held \ {old}) \cup CallHolds
  <2> DEFINE after == context'.resolveRefs
  <2>1. Held' = {after[j] : j \in Instance} \ {NULL} BY DEF Held
  <2>2. \A j \in Instance : after[j] = IF j = i THEN new ELSE tab[j]
    BY <1>1, <1>2
  <2> HIDE DEF after
  <2>3. ASSUME NEW r \in Held' PROVE r \in (Held \ {old}) \cup CallHolds
    <3>1. PICK j \in Instance : r = after[j] BY <2>1, <2>3
    <3>2. r # NULL BY <2>1, <2>3
    <3>3. CASE j = i BY <3>1, <3>2, <3>3, <2>2, <1>5
    <3>4. CASE j # i
      <4>1. r = tab[j] BY <3>1, <3>4, <2>2
      <4>2. r # old BY <4>1, <3>2, <3>4, <1>1, <1>7, <1>8
      <4> QED BY <4>1, <4>2, <3>2, <1>9
    <3> QED BY <3>3, <3>4
  <2>4. ASSUME NEW r \in Held, r # old PROVE r \in Held'
    <3>1. PICK j \in Instance : r = tab[j] BY <2>4, <1>9
    <3>2. j # i /\ r # NULL BY <3>1, <2>4, <1>7, <1>9
    <3> QED BY <3>1, <3>2, <2>1, <2>2
  <2>5. ASSUME NEW r \in CallHolds PROVE r \in Held'
    BY <2>5, <2>1, <2>2, <1>1, <1>5
  <2> QED BY <2>3, <2>4, <2>5
<1>15. Given' = Given \ {old}
  BY <1>3, <1>10 DEF Given, TypeOK
<1>16. Given' = Held' \cup CallHolds'
  BY <1>4, <1>6, <1>11, <1>13, <1>14, <1>15, <1>5
<1>17. ~twice'
  BY <1>4, <1>12, <1>13 DEF Refs, Given
<1>18. HeldOnce'
  <2>1. resolves' = resolves BY DEF ChangeTable
  <2>2. \A r \in Held' \cup CallHolds' : r <= resolves' BY <2>1, <1>6, <1>11, <1>14
  <2> DEFINE after == context'.resolveRefs
  <2>3. \A j \in Instance : after[j] = IF j = i THEN new ELSE tab[j]
    BY <1>1, <1>2
  <2> HIDE DEF after
  <2>4. ASSUME NEW j \in Instance, NEW k \in Instance, j # k, after[j] = after[k],
               after[j] # NULL
        PROVE  FALSE
    <3>1. CASE j # i /\ k # i BY <3>1, <2>3, <2>4, <1>8
    <3>2. CASE j = i BY <3>2, <2>3, <2>4, <1>5, <1>9, <1>11
    <3>3. CASE k = i BY <3>3, <2>3, <2>4, <1>5, <1>9, <1>11
    <3> QED BY <3>1, <3>2, <3>3
  <2> QED BY <2>2, <2>4, <1>6 DEF HeldOnce, after
<1>19. ResolvesHeld' BY <1>16 DEF ChangeTable, Refs, ResolvesHeld, ResolvesFreed
<1>20. BrowseHeld'
  <2>1. context'.serviceRef = context.serviceRef BY DEF ChangeTable, TypeOK, Context
  <2> QED BY <2>1 DEF ChangeTable, Refs, BrowseHeld, ThreadHolds, ServiceFreed
<1> QED BY <1>17, <1>18, <1>19, <1>20, Zenon DEF Refs

LEMMA RefsStep ==
  ASSUME TypeOK, Flags, ~overtaken => Refs, [Next]_vars
  PROVE  (~overtaken => Refs)'
<1> SUFFICES ASSUME ~overtaken' PROVE Refs' OBVIOUS
<1>1. /\ Refs
      /\ FreeResolves \/ FreeService =>
           callback = NoCall /\ thread \notin {"browse", "store"}
      /\ (\E n \in Starts, i \in Instance : Found(n, i)) => ui = "idle"
      /\ (\E r \in Resolves : Resolved(r)) => ui = "idle"
  BY NotOvertaken
<1>2. CASE StartBrowse \/ StartAfterFailure \/ StopBrowse BY <1>1, <1>2, StartRefs
<1>3. CASE FreeResolves BY <1>1, <1>3, FreeResolvesRefs
<1>4. CASE FreeService BY <1>1, <1>4, FreeServiceRefs
<1>5. CASE Join BY <1>1, <1>5, JoinRefs
<1>6. CASE BrowseThread BY <1>1, <1>6, BrowseThreadRefs
<1>7. CASE ChangeTable BY <1>1, <1>7, ChangeTableRefs
<1>8. CASE ContextNotFound BY <1>1, <1>8 DEF ContextNotFound, Refs, ResolvesHeld
<1>9. ASSUME NEW n \in Starts, NEW i \in Instance, Found(n, i) PROVE Refs'
  BY <1>1, <1>9, FoundRefs
<1>10. ASSUME NEW r \in Resolves, Resolved(r) PROVE Refs'
  BY <1>1, <1>10, ResolvedRefs
<1>11. CASE UNCHANGED vars
  BY <1>1, <1>11 DEF vars, responder, Refs, BrowseHeld, ResolvesHeld, HeldOnce,
     ThreadHolds, CallHolds, Held, Given, ServiceFreed, ResolvesFreed
<1> QED BY <1>2, <1>3, <1>4, <1>5, <1>6, <1>7, <1>8, <1>9, <1>10, <1>11
        DEF Next, Stopping, Responder

-----------------------------------------------------------------------------
(* What holds of every start, stop, failure and call.                      *)
LEMMA InitInv == Init => Inv
<1> SUFFICES ASSUME Init PROVE Inv OBVIOUS
<1>1. FieldsOK BY Bounds, EmptyContext DEF Init, FieldsOK
<1>2. BoolsOK BY Zenon DEF Init, BoolsOK
<1>3. CallsOK BY DEF Init, CallsOK
<1>4. TypeOK BY <1>1, <1>2, <1>3, TypeParts
<1>5. Flags BY DEF Init, Flags, NoContext
<1>6. context.serviceRef = NULL /\ \A i \in Instance : context.resolveRefs[i] = NULL
  BY DEF Init, NoContext, NoRefs
<1>7. Held = {} /\ CallHolds = {} /\ Given = {}
  BY <1>6 DEF Init, Held, CallHolds, Given, NoCall
<1>8. BrowseHeld BY <1>6 DEF Init, BrowseHeld, ThreadHolds, ServiceFreed
<1>9. ResolvesHeld BY <1>7 DEF Init, ResolvesHeld, ResolvesFreed
<1>10. HeldOnce BY <1>6, <1>7 DEF HeldOnce
<1>11. Refs BY <1>8, <1>9, <1>10 DEF Init, Refs
<1> QED BY <1>4, <1>5, <1>11, Zenon DEF Inv

(* The invariant of the browse: Flags always, and Refs without an overlap. *)
THEOREM MDNSInvariant == Spec => []Inv
<1>1. Init => Inv BY InitInv
<1>2. Inv /\ [Next]_vars => Inv' BY TypeStep, FlagsStep, RefsStep, Zenon DEF Inv
<1> QED BY <1>1, <1>2, PTL DEF Spec

(* Every variable keeps its type.                                          *)
THEOREM MDNSTypeCorrect == Spec => []TypeOK
<1>1. Inv => TypeOK BY Zenon DEF Inv
<1> QED BY <1>1, MDNSInvariant, PTL

(* A start never assigns a thread that was not joined, and a browse that   *)
(* has failed leaves word that there is something to clean up.             *)
THEOREM MDNSStartIsSafe == Spec => []StartIsSafe
<1>1. TypeOK /\ Flags => StartIsSafe
  BY DEF TypeOK, Flags, StartIsSafe, Startable, Context
<1>2. Inv => StartIsSafe BY <1>1, Zenon DEF Inv
<1> QED BY <1>2, MDNSInvariant, PTL

(* Without an overlap the responder's references are those of the context, *)
(* the thread and the call, and none is freed twice.                       *)
THEOREM MDNSRefsAccounted == Spec => []RefsAccounted
<1>1. Refs => ~twice /\ (ui = "idle" =>
         /\ browsing = ({context.serviceRef} \ {NULL}) \cup ThreadHolds
         /\ {r \in Resolves : resolving[r] # NULL} = Held \cup CallHolds)
  BY DEF Refs, BrowseHeld, ResolvesHeld, ResolvesFreed, Given
<1>2. Inv => RefsAccounted BY <1>1, Zenon DEF Inv, RefsAccounted
<1> QED BY <1>2, MDNSInvariant, PTL
=============================================================================
