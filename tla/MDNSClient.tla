----------------------------- MODULE MDNSClient -----------------------------
(***************************************************************************)
(* src/lib/MDNSClient.cpp: browsing for "_airplay._tcp", the only regtype  *)
(* that the application browses for.  Three threads share the context of   *)
(* the browse: the user interface starts and stops it, a browse thread of  *)
(* its own asks the responder and waits for the end, and the responder's   *)
(* thread calls back for the services it has found.                        *)
(*                                                                         *)
(* The responder is a library.  Of it the model keeps which references it  *)
(* has given out and not taken back: that of a browse is named by the      *)
(* number of its start, that of a resolve by a number of its own.          *)
(***************************************************************************)
EXTENDS Integers, FiniteSets

CONSTANTS
  Instance,     \* names of services
  NULL,
  MaxStarts,    \* bounds the starts,
  MaxResolves,  \* the services found,
  MaxErrors     \* and the browses that fail

ASSUME MDNSAssumption ==
  /\ {MaxStarts, MaxResolves, MaxErrors} \subseteq Nat
  /\ NULL \notin Instance \cup Nat

Starts   == 1 .. MaxStarts
Resolves == 1 .. MaxResolves

VARIABLES
  context,    \* m_browseContexts[regtype]
  ui,         \* where the user interface's thread is
  restart,    \* it cleans up within a start
  thread,     \* where the browse thread is
  starts,
  browsing,   \* the responder's references: starts whose browse is on,
  resolving,  \* and resolves that are on, with the service's name
  resolves,
  callback,   \* what the responder's thread is about to do
  errors,
  overtaken,  \* history: a stop has overlapped a callback, or the browse
  twice       \* history: a reference was deallocated twice

responder == <<browsing, resolving, resolves>>
vars == <<context, ui, restart, thread, starts, responder, callback, errors,
          overtaken, twice>>

NoRefs    == [i \in Instance |-> NULL]
NoContext == [exists |-> FALSE, running |-> FALSE, joinable |-> FALSE,
              serviceRef |-> NULL, resolveRefs |-> NoRefs, cleanBrowseRef |-> FALSE]
NoCall    == [op |-> "none"]

Init ==
  /\ context = NoContext /\ ui = "idle" /\ restart = FALSE
  /\ thread = "none" /\ starts = 0
  /\ browsing = {} /\ resolving = [r \in Resolves |-> NULL] /\ resolves = 0
  /\ callback = NoCall /\ errors = 0
  /\ overtaken = FALSE /\ twice = FALSE

-----------------------------------------------------------------------------
(* The user interface: StartBrowseService.                                 *)

(* A start is refused while running; else std::thread is assigned, which   *)
(* must not be joinable.                                                   *)
Startable == ui = "idle" /\ ~context.cleanBrowseRef /\ ~context.running
StartBrowse ==
  /\ Startable \/ ui = "start"
  /\ starts < MaxStarts /\ starts' = starts + 1
  /\ context' = [context EXCEPT !.exists = TRUE, !.running = TRUE, !.joinable = TRUE]
  /\ thread' = "browse" /\ ui' = "idle" /\ restart' = FALSE
  /\ UNCHANGED <<responder, callback, errors, overtaken, twice>>

(* A browse that has failed is cleaned up first: CleanupBrowseContext.     *)
StartAfterFailure ==
  /\ ui = "idle" /\ context.cleanBrowseRef /\ starts < MaxStarts
  /\ ui' = "service" /\ restart' = TRUE
  /\ context' = [context EXCEPT !.running = FALSE]
  /\ UNCHANGED <<thread, starts, responder, callback, errors, overtaken, twice>>

-----------------------------------------------------------------------------
(* StopBrowseService, and the rest of CleanupBrowseContext, which frees    *)
(* the two kinds of references in the other order.  Nothing is locked.     *)

StopBrowse ==
  /\ ui = "idle" /\ context.exists
  /\ ui' = "resolves"
  /\ context' = [context EXCEPT !.running = FALSE]
  /\ UNCHANGED <<restart, thread, starts, responder, callback, errors, overtaken, twice>>

Overlaps == overtaken \/ callback # NoCall \/ thread \in {"browse", "store"}

(* The references stay in the table.                                       *)
Held == {context.resolveRefs[i] : i \in Instance} \ {NULL}
FreeResolves ==
  /\ ui = "resolves"
  /\ resolving' = [r \in Resolves |-> IF r \in Held THEN NULL ELSE resolving[r]]
  /\ twice' = (twice \/ \E r \in Held : resolving[r] = NULL)
  /\ overtaken' = Overlaps
  /\ ui' = IF restart THEN "join" ELSE "service"
  /\ UNCHANGED <<context, restart, thread, starts, browsing, resolves, callback, errors>>

FreeService ==
  /\ ui = "service"
  /\ browsing' = browsing \ {context.serviceRef}
  /\ context' = [context EXCEPT !.serviceRef = NULL]
  /\ overtaken' = Overlaps
  /\ ui' = IF restart THEN "resolves" ELSE "join"
  /\ UNCHANGED <<restart, thread, starts, resolving, resolves, callback, errors, twice>>

(* The thread is joined, and the context erased.                           *)
Join ==
  /\ ui = "join" /\ thread = "done"
  /\ context' = NoContext
  /\ ui' = IF restart THEN "start" ELSE "idle"
  /\ UNCHANGED <<restart, thread, starts, responder, callback, errors, overtaken, twice>>

-----------------------------------------------------------------------------
(* The browse thread: DNSServiceBrowse, and a loop that sleeps while the   *)
(* browse is running.                                                      *)

BrowseStops ==   \* a mistake: running is cleared, and nothing cleaned up
  /\ thread = "browse" /\ errors < MaxErrors
  /\ errors' = errors + 1
  /\ context' = [context EXCEPT !.running = FALSE]
  /\ thread' = "done"
  /\ UNCHANGED <<ui, restart, starts, responder, callback, overtaken, twice>>
BrowseFails ==
  /\ thread = "browse" /\ errors < MaxErrors
  /\ errors' = errors + 1
  /\ context' = [context EXCEPT !.cleanBrowseRef = TRUE]
  /\ thread' = "done"
  /\ UNCHANGED <<ui, restart, starts, responder, callback, overtaken, twice>>

Browse ==
  /\ thread = "browse"
  /\ browsing' = browsing \cup {starts}
  /\ thread' = "store"
  /\ UNCHANGED <<context, ui, restart, starts, resolving, resolves, callback, errors,
                 overtaken, twice>>

StoreRef ==
  /\ thread = "store"
  /\ context' = [context EXCEPT !.serviceRef = starts]
  /\ thread' = "loop"
  /\ UNCHANGED <<ui, restart, starts, responder, callback, errors, overtaken, twice>>

(* The end of the loop; a mistake: it ends with the reference.             *)
NotBrowsing == context.serviceRef \in browsing /\ ~context.running
NotRunning  == ~context.running
LeaveLoop ==
  /\ thread = "loop" /\ NotRunning
  /\ thread' = "done"
  /\ UNCHANGED <<context, ui, restart, starts, responder, callback, errors, overtaken, twice>>

-----------------------------------------------------------------------------
(* The responder's thread.                                                 *)

(* BrowseCallback: a service was added or removed, and is to be resolved.  *)
Found(n, i) ==
  /\ callback = NoCall /\ n \in browsing /\ resolves < MaxResolves
  /\ resolves' = resolves + 1
  /\ resolving' = [resolving EXCEPT ![resolves'] = i]
  /\ callback' = [op |-> "add", ref |-> resolves', instance |-> i]
  /\ overtaken' = (overtaken \/ ui # "idle")
  /\ UNCHANGED <<context, ui, restart, thread, starts, browsing, errors, twice>>

(* ResolveCallback: the resolve is over.  (What it asks for next has a     *)
(* context and a reference that AddrInfoCallback frees.)                   *)
Resolved(r) ==
  /\ callback = NoCall /\ resolving[r] # NULL
  /\ callback' = [op |-> "remove", instance |-> resolving[r]]
  /\ overtaken' = (overtaken \/ ui # "idle")
  /\ UNCHANGED <<context, ui, restart, thread, starts, responder, errors, twice>>

(* Both end in a change of the table, under a lock: the reference that is  *)
(* there for the service is freed, and the new one, if any, put there.     *)
(* The name leads back to the service: names with an escaped dot, which    *)
(* ExtractInstanceName does not decode, are left out.                      *)
(* (A mistake: only a reference that is removed is freed.)                 *)
Removable(i)   == IF callback.op = "remove" THEN context.resolveRefs[i] ELSE NULL
Replaceable(i) == context.resolveRefs[i]
ChangeTable ==
  /\ callback # NoCall /\ context.exists
  /\ LET i   == callback.instance
         old == Replaceable(i)
     IN /\ context' = [context EXCEPT !.resolveRefs[i] =
                         IF callback.op = "add" THEN callback.ref ELSE NULL]
        /\ resolving' = [r \in Resolves |-> IF r = old THEN NULL ELSE resolving[r]]
        /\ twice' = (twice \/ (old # NULL /\ resolving[old] = NULL))
  /\ callback' = NoCall
  /\ UNCHANGED <<ui, restart, thread, starts, browsing, resolves, errors, overtaken>>

ContextNotFound ==
  /\ callback # NoCall /\ ~context.exists
  /\ callback' = NoCall
  /\ UNCHANGED <<context, ui, restart, thread, starts, responder, errors, overtaken, twice>>

-----------------------------------------------------------------------------
Stopping     == FreeResolves \/ FreeService \/ Join
BrowseThread == Browse \/ BrowseFails \/ StoreRef \/ LeaveLoop
Responder ==
  \/ ChangeTable \/ ContextNotFound
  \/ \E n \in Starts, i \in Instance : Found(n, i)
  \/ \E r \in Resolves : Resolved(r)

Next ==
  \/ StartBrowse \/ StartAfterFailure \/ StopBrowse \/ Stopping
  \/ BrowseThread \/ Responder

Spec == Init /\ [][Next]_vars

(* The threads of the application run; the responder may be silent, and    *)
(* nobody has to press a button.                                           *)
Fairness == WF_vars(Stopping) /\ WF_vars(StartBrowse /\ ui = "start") /\ WF_vars(BrowseThread)
FairSpec == Spec /\ Fairness

-----------------------------------------------------------------------------
(* Every variable has the type its declaration in the code gives it.       *)
Context ==
  [exists : BOOLEAN, running : BOOLEAN, joinable : BOOLEAN,
   serviceRef : Starts \cup {NULL}, resolveRefs : [Instance -> Resolves \cup {NULL}],
   cleanBrowseRef : BOOLEAN]
TypeOK ==
  /\ context \in Context
  /\ ui \in {"idle", "resolves", "service", "join", "start"}
  /\ thread \in {"none", "browse", "store", "loop", "done"}
  /\ {restart, overtaken, twice} \subseteq BOOLEAN
  /\ starts \in 0 .. MaxStarts /\ resolves \in 0 .. MaxResolves
  /\ errors \in 0 .. MaxErrors
  /\ browsing \subseteq Starts
  /\ resolving \in [Resolves -> Instance \cup {NULL}]
  /\ callback \in {NoCall} \cup [op : {"add"}, ref : Resolves, instance : Instance]
                          \cup [op : {"remove"}, instance : Instance]

(* Between two buttons the flags tell the truth: a start never assigns a   *)
(* thread that was not joined, which would end the program, and a thread   *)
(* that has failed by itself has left word that there is something to      *)
(* clean up, so that the next start is not refused for ever.               *)
StartIsSafe ==
  /\ Startable \/ ui = "start" => ~context.joinable
  /\ ui = "idle" /\ context.running /\ thread = "done" => context.cleanBrowseRef

(* As long as no stop overlaps a callback or overtakes the browse itself,  *)
(* every reference the responder has given out is held by the context or   *)
(* by the thread that is about to put it there, and none is freed twice:   *)
(* over services that come and go, failures, stops and starts.             *)
ThreadHolds == IF thread = "store" THEN {starts} ELSE {}
CallHolds   == IF callback.op = "add" THEN {callback.ref} ELSE {}
RefsAccounted ==
  ~overtaken =>
    /\ ~twice
    /\ ui = "idle" =>
         /\ browsing = ({context.serviceRef} \ {NULL}) \cup ThreadHolds
         /\ {r \in Resolves : resolving[r] # NULL} = Held \cup CallHolds

(* A stop, or the cleaning up before a start, comes to its end, whenever   *)
(* it arrives.                                                             *)
StopReturns == ui # "idle" ~> ui = "idle"
=============================================================================
