-------------------------- MODULE NavigationEngine --------------------------
(* The navigation engine: client, event receiver and worker over the shared   *)
(* state, with any executor that the NavigationExecutor trait admits, and the *)
(* properties the three owe each other.                                       *)
EXTENDS EngineClient, EngineReceiver, EngineWorker

CONSTANTS
  FrameSizes,    \* sizes of the frames an executor may return
  NodeCharges    \* node charges of the documents an executor may load

ASSUME ExecutorAssumption == FrameSizes \subseteq Nat \ {0} /\ NodeCharges \subseteq Nat \ {0}

vars == <<shared, worker, handle>>

(* What NavigationExecutor::execute may return; a failure may also say that   *)
(* the renderer is unusable.                                                  *)
NavigationOutcomes ==
  {Outcome("Document", bytes, charge, TRUE, FALSE) : bytes \in FrameSizes, charge \in NodeCharges}
  \union {Outcome(kind, bytes, 0, TRUE, FALSE) : kind \in {"Frame", "Unproved"}, bytes \in FrameSizes}
  \union {Outcome(kind, 0, 0, TRUE, unusable) : kind \in {"Cancelled", "Failed"}, unusable \in BOOLEAN}

(* ExecutorDocumentRerender and ExecutorDocumentMutation.                     *)
RerenderOutcomes ==
  {Outcome("Rendered", bytes, 0, valid, FALSE) : bytes \in FrameSizes, valid \in BOOLEAN}
  \union {Outcome("Rejected", 0, 0, valid, unusable) : valid \in BOOLEAN, unusable \in BOOLEAN}
  \union {Outcome("Invalidated", 0, 0, FALSE, FALSE)}

MutationOutcomes ==
  RerenderOutcomes
  \union {Outcome("Committed", 0, 0, valid, unusable) : valid \in BOOLEAN, unusable \in BOOLEAN}

(* spawn_with_executor_mode and the start of worker_main: spawn returns the   *)
(* pair once the factory has made the executor on the worker thread.          *)
Spawn ==
  /\ pc = "Start"
  /\ handle' = "Owned"
  /\ Resume
  /\ UNCHANGED shared

SpawnFails ==
  /\ pc = "Start"
  /\ handle' = "Failed"
  /\ \E reason \in {"Requested", "ExecutorPanicked"} : FinishWorker(reason, "NotStarted")

WorkerNext ==
  \/ DequeueStop \/ DequeueClosure \/ DequeueCommand
  \/ PublishContextClosed
  \/ BeginNavigation \/ BeginDocument
  \/ \E o \in NavigationOutcomes : FinishNavigation(o)
  \/ \E o \in MutationOutcomes : work.kind = "Mutate" /\ FinishDocument(o)
  \/ \E o \in RerenderOutcomes : work.kind = "Rerender" /\ FinishDocument(o)
  \/ ExecutorPanics
  \/ FindStopping
  \/ FinalizeExecutor

WorkerStep == WorkerNext /\ UNCHANGED handle
ClientStep == ClientNext /\ UNCHANGED worker
ReceiverStep == handle \notin {"Spawning", "Failed"} /\ ReceiverNext /\ UNCHANGED <<worker, handle>>

(* The engine and its receiver are gone, or never were.                       *)
Finished == handle = "Failed" \/ (handle = "Joined" /\ ~ receiver_open)
Rest == Finished /\ UNCHANGED vars

EngineInit == Init /\ WorkerInit /\ ClientInit
Next == Spawn \/ SpawnFails \/ WorkerStep \/ ClientStep \/ ReceiverStep \/ Rest

Safety == EngineInit /\ [][Next]_vars

(* The worker thread is scheduled, an executor call returns, and a join that  *)
(* can return does. Nothing is assumed of the client or of the receiver.      *)
Spec == Safety /\ WF_vars(WorkerStep) /\ WF_vars(Join /\ UNCHANGED worker)
               /\ WF_vars(Spawn \/ SpawnFails)
-----------------------------------------------------------------------------
(********************************* types ***********************************)

Reasons == {"Requested", "EventReceiverDropped", "EventQueueSaturated", "IdentityExhausted",
            "ExecutorPanicked", "RendererUnavailable", "ExecutorContractViolation"}

EventKinds == {"NavigationStarted", "NavigationCommitted", "FrameReady", "NavigationCancelled",
               "NavigationFailed", "DocumentMutationRendered",
               "DocumentMutationCommittedWithoutFrame", "DocumentMutationRejected",
               "DocumentRerendered", "DocumentRerenderRejected", "ContextClosed",
               "ShutdownComplete"}

LifecycleType ==
  [phase : {"Running", "Stopping", "Stopped"}, reason : Reasons \union {"None"},
   executor : {"None", "NotStarted", "Returned", "Panicked"}]

AnyNavigation == NavigationId \union {NoNavigation}
AnyToken == TokenId \union {NoToken}
FrameType == [lease : Nat, navigation : AnyNavigation, bytes : Nat]
DocumentType == [navigation : AnyNavigation, live : Nat, frame : Nat, charge : Nat]
ContextType ==
  [latest_generation : Generation, active : AnyToken, frame : FrameType, document : DocumentType]
WorkType ==
  [kind : {"Navigate", "Mutate", "Rerender", "Close"}, token : AnyToken, version : Nat,
   nodes : Nat, units : Nat, payload : Nat]
EventType ==
  [sequence : Nat, kind : EventKinds, token : AnyToken, lease : Nat, result : Nat]

IsContexts(ctxs) ==
  /\ ctxs = [c \in DOMAIN ctxs |-> ctxs[c]]
  /\ DOMAIN ctxs \subseteq ContextId
  /\ \A c \in DOMAIN ctxs : ctxs[c] \in ContextType

StylesOK ==
  /\ DOMAIN current_style_documents \subseteq ContextId
  /\ \A c \in DOMAIN current_style_documents : current_style_documents[c] \in AnyNavigation
                                               /\ current_style_documents[c].context = c
  /\ live_style_documents \subseteq AnyNavigation
(* What a stop request changes.                                               *)
StopOK == lifecycle \in LifecycleType /\ StylesOK /\ cancelled \subseteq AnyToken
QueuesOK ==
  /\ commands \in Seq(WorkType)
  /\ context_closures \in Seq(NavigationId)
  /\ closing_contexts \subseteq ContextId
StreamOK ==
  /\ events \in Seq(EventType)
  /\ terminal_event \in EventType \union {NoEvent}
  /\ next_event_sequence \in 1 .. MaxSequence
ContextsOK == IsContexts(contexts) /\ latest_new_context \in 0 .. MaxContextId
StoresOK ==
  /\ navigation_commits \subseteq NavigationId
  /\ DOMAIN mutation_results \subseteq Nat
  /\ \A l \in DOMAIN mutation_results :
       mutation_results[l] \in [navigation : AnyNavigation, units : Nat]
CountersOK ==
  /\ next_frame_lease \in 1 .. MaxLease
  /\ next_mutation_result_lease \in 1 .. MaxLease
  /\ next_document_operation_sequence \in 1 .. MaxOperation
WorkerOK ==
  /\ pc \in {"Start", "Dequeue", "Closing", "Begin", "Executing", "Finalize", "Exited"}
  /\ work \in WorkType
  /\ reservation \in [sequence : Nat, frame : Nat, result : Nat]
  /\ stop_reason \in Reasons \union {"None"}
HandlesOK ==
  /\ handle \in {"Spawning", "Owned", "Joining", "Joined", "Failed"}
  /\ receiver_open \in BOOLEAN

(* Every field of SharedState and of the worker's loop has the type the code  *)
(* declares for it, and no identity counter passes its u64::MAX. (The six     *)
(* resource counters are the subject of RetainedExact and PendingExact.)      *)
TypeOK ==
  /\ StopOK /\ QueuesOK /\ StreamOK /\ ContextsOK
  /\ StoresOK /\ CountersOK /\ WorkerOK /\ HandlesOK

(******************************* accounting ********************************)

InFlight == IF pc \in {"Begin", "Executing"} THEN {work} ELSE {}

(* While the worker loops, the three pending counters are exactly what the    *)
(* queued mutations and the one in execution reserved: closing a context,     *)
(* superseding or cancelling a mutation at any point neither leaks nor        *)
(* releases twice (release_pending_mutation_reservations).                    *)
PendingExact ==
  receiver_open /\ pc \notin {"Finalize", "Exited"} =>
    LET queued == Reservations(DOMAIN commands)
        executing == IF InFlight = {} THEN NoReservation ELSE Reservation(work)
    IN /\ pending.document_nodes = queued.document_nodes + executing.document_nodes
       /\ pending.result_nodes = queued.result_nodes + executing.result_nodes
       /\ pending.payload_bytes = queued.payload_bytes + executing.payload_bytes

(* The retained counters are exactly the sums over what is stored.            *)
RetainedExact ==
  /\ retained.frame_bytes = MapThenSumSet(FrameBytes, DOMAIN contexts)
  /\ retained.document_nodes = MapThenSumSet(NodeCharge, DOMAIN contexts)
  /\ retained.result_nodes = ResultUnits(DOMAIN mutation_results)

(* No interleaving pushes a store past its EngineLimits bound, reservations   *)
(* of admitted mutations included.                                            *)
WithinLimits ==
  /\ Len(commands) <= CommandCapacity
  /\ Len(events) <= EventCapacity
  /\ Cardinality(DOMAIN contexts) + Cardinality(closing_contexts) <= MaxContexts
  /\ retained.frame_bytes <= MaxRetainedFrameBytes
  /\ retained.document_nodes + pending.document_nodes <= MaxDocumentNodes
  /\ retained.result_nodes + pending.result_nodes <= MaxResultNodes
  /\ pending.payload_bytes <= MaxPayloadBytes

(****************************** publication ********************************)

DocumentExecutes == pc = "Executing" /\ work.kind # "Navigate" /\ IsRunning

(* The event slot and the identities that reserve_document_publication only   *)
(* read when a document operation began are still free when the executor      *)
(* returns, whatever the client and the receiver did meanwhile.               *)
IdentitiesStand == DocumentExecutes => ReservedIdentitiesHold

(* So is the room it checked: the mutation's nodes and result units, and the  *)
(* bytes of a frame of the largest size.                                      *)
BudgetsStand ==
  DocumentExecutes => /\ ReservedBudgetsHold
                      /\ DocumentWorkIsCurrent(work) => FrameFits(MaxFrameBytes)

(* Every stored commit record still has its FrameReady in the queue, so the   *)
(* records never outnumber the queue slots and the engine never stops itself  *)
(* for a full commit store (publish_success, receive_event_locked).           *)
CommitsAwaitTheirFrame ==
  \A n \in navigation_commits :
    \E i \in DOMAIN events : events[i].kind = "FrameReady" /\ events[i].token.navigation = n

(* The frame and the document a context retains are of one navigation, no     *)
(* newer than the context's latest, and a frame is never newer than the DOM.  *)
PageIsOneNavigation ==
  \A c \in DOMAIN contexts :
    LET frame == contexts[c].frame
        document == contexts[c].document
    IN /\ frame # NoFrame => /\ frame.navigation.context = c
                             /\ frame.navigation.generation <= contexts[c].latest_generation
       /\ document # NoDocument =>
            /\ frame # NoFrame => frame.navigation = document.navigation
            /\ document.frame <= document.live
            /\ document.navigation.generation <= contexts[c].latest_generation

(* While the engine runs, exactly the retained documents are in the map of    *)
(* current commitments, each under its own navigation; once a stop is         *)
(* requested the map is empty.                                                *)
CommitmentsFollowDocuments ==
  /\ ~ IsRunning => DOMAIN current_style_documents = {}
  /\ IsRunning =>
       /\ DOMAIN current_style_documents =
            {c \in DOMAIN contexts : contexts[c].document # NoDocument}
       /\ \A c \in DOMAIN current_style_documents :
            current_style_documents[c] = contexts[c].document.navigation

(* The retained documents that no mutation has changed yet.                   *)
FirstVersions == {c \in DOMAIN current_style_documents : contexts[c].document.live = 0}

(* The style authority of a document of the general web ends when it must,    *)
(* although two owners can end it, the page and the map of commitments. None  *)
(* is live that is not published for a retained document, none outlives the   *)
(* first committed mutation, a replacement, an invalidation, a close or a     *)
(* stop request; and until the worker has left its loop it does not end       *)
(* sooner: a rejected batch or a refused replacement leaves it live. (Not     *)
(* modelled: StaticPipelineExecutor lets go of the page and ledger of a tab   *)
(* that it displaces over a load whose frame failed before the map hears.)    *)
StyleFollowsDocument ==
  /\ CommitmentsFollowDocuments
  /\ live_style_documents \subseteq StylesOf(FirstVersions)
  /\ pc # "Finalize" => live_style_documents = StylesOf(FirstVersions)

(* An operation that makes its context busy is queued or in execution while   *)
(* the worker loops, so ContextBusy always has somebody who will clear it.    *)
BusyContextsHaveWork ==
  pc \notin {"Finalize", "Exited"} =>
    \A token \in Actives(contexts) :
      token \in {w.token : w \in Range(commands) \union InFlight}

(* A queued or executing operation that lost its context or was superseded    *)
(* has its cancellation token set.                                            *)
LostWorkIsCancelled ==
  \A w \in Range(commands) \union InFlight :
    w.token \notin cancelled => /\ w.token.navigation.context \in DOMAIN contexts
                               /\ contexts[w.token.navigation.context].active = w.token

(* No event of a context follows its ContextClosed in the queue, although its *)
(* work may still be executing when the close is admitted (close_context).    *)
ClosedContextIsSilent ==
  \A i, j \in DOMAIN events :
    i < j /\ events[i].kind = "ContextClosed" =>
      events[j].token.navigation.context # events[i].token.navigation.context

(* A frame or mutation-result lease is announced by at most one event, and    *)
(* what is stored under it was made by the operation that event names.        *)
LeasesNameOneProduct ==
  /\ \A i, j \in DOMAIN events :
       i # j => /\ events[i].lease # 0 => events[i].lease # events[j].lease
                /\ events[i].result # 0 => events[i].result # events[j].result
  /\ \A i \in DOMAIN events :
       /\ \A c \in DOMAIN contexts :
            contexts[c].frame.lease = events[i].lease /\ events[i].lease # 0 =>
              contexts[c].frame.navigation = events[i].token.navigation
       /\ events[i].result \in DOMAIN mutation_results =>
            mutation_results[events[i].result].navigation = events[i].token.navigation
  /\ \A c \in DOMAIN contexts : contexts[c].frame.lease < next_frame_lease
  /\ \A l \in DOMAIN mutation_results : l < next_mutation_result_lease

NavigationEvents == {"NavigationStarted", "NavigationCommitted", "FrameReady",
                     "NavigationCancelled", "NavigationFailed"}

(* The worker never returns to a superseded navigation: the navigation events *)
(* queued for one context are of generations that never decrease, although    *)
(* admission, cancellation and execution of the two overlap.                  *)
GenerationsNeverGoBack ==
  \A i, j \in DOMAIN events :
    LET earlier == events[i].token.navigation
        later == events[j].token.navigation
    IN /\ i < j
       /\ {events[i].kind, events[j].kind} \subseteq NavigationEvents
       /\ earlier.context = later.context
       => earlier.generation <= later.generation

(* The queued events, and the terminal one behind them, carry consecutive     *)
(* sequence numbers that end just below the counter.                          *)
EventsAreConsecutive ==
  LET behind == IF terminal_event = NoEvent THEN 0 ELSE 1
  IN /\ \A i \in DOMAIN events :
          events[i].sequence = next_event_sequence - behind - Len(events) + i - 1
     /\ terminal_event # NoEvent => terminal_event.sequence = next_event_sequence - 1
-----------------------------------------------------------------------------
(********************************* progress ********************************)

(* A requested stop completes: the worker notices it at its next locked       *)
(* section, whatever it was doing, finish_worker runs, and shutdown() returns *)
(* from joining it.                                                           *)
ShutdownCompletes ==
  /\ lifecycle.phase = "Stopping" ~> lifecycle.phase = "Stopped"
  /\ handle = "Joining" ~> handle = "Joined"

(* An operation that makes its context busy does not do so forever, even if   *)
(* nobody drains the events: it ends, is superseded, or the engine stops.     *)
BusyEnds == \A token \in TokenId : token \in Actives(contexts) ~> token \notin Actives(contexts)
=============================================================================
