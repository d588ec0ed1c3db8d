---------------------------- MODULE EngineWorker ----------------------------
(* The one worker thread of the navigation engine (worker_main, worker_loop). *)
(* The mutex is released between dequeuing a work and beginning it, and for   *)
(* the whole of an executor call, so every other actor may run there. The     *)
(* executor call and the locked section that follows it are one action: the   *)
(* executor does not touch the shared state. What the executor returns is     *)
(* the parameter of that action.                                              *)
EXTENDS EngineShared

VARIABLES
  pc,            \* where the worker is
  work,          \* the dequeued work
  reservation,   \* DocumentPublicationReservation of the work in execution
  stop_reason    \* why worker_loop returned

worker == <<pc, work, reservation, stop_reason>>

NoReserved == [sequence |-> 0, frame |-> 0, result |-> 0]

(* The outcomes of an executor call. "Document": a frame with its document;   *)
(* "Frame": a frame without one; "Unproved": a frame that names a document    *)
(* the executor gave no node charge for. For document operations: "Rendered", *)
(* "Committed" (without a frame), "Rejected", "Invalidated"; valid is what    *)
(* validate_committed_mutation and the version comparisons decide.            *)
Outcome(kind, bytes, charge, valid, unusable) ==
  [kind |-> kind, bytes |-> bytes, charge |-> charge, valid |-> valid, unusable |-> unusable]

(***************************** control transfer ****************************)

NoWork == CloseWork(NoNavigation)

(* The iteration of worker_loop ends: the work and its reservation are dropped. *)
Resume ==
  /\ pc' = "Dequeue"
  /\ work' = NoWork /\ reservation' = NoReserved
  /\ UNCHANGED stop_reason

(* worker_loop returns; finalize_executor and finish_worker follow.           *)
Leave(reason) ==
  /\ pc' = "Finalize"
  /\ stop_reason' = reason
  /\ work' = NoWork /\ reservation' = NoReserved

(* The work was found stopped at its next locked section: nothing else runs.  *)
LeaveStopping ==
  /\ lifecycle.phase = "Stopping"
  /\ Leave(lifecycle.reason)
  /\ UNCHANGED shared

(* A panic of the executor unwinds to worker_main without touching the shared *)
(* state. A page that the call had set aside is dropped, its ledger with it.  *)
ExecutorPanics ==
  /\ pc \in {"Closing", "Executing"}
  /\ Leave("ExecutorPanicked")
  /\ \/ UNCHANGED live_style_documents
     \/ live_style_documents' = live_style_documents \ StylesOf({work.token.navigation.context})
  /\ UNCHANGED <<lifecycle, receiver_open, queues, stream, contexts, latest_new_context,
                 navigation_commits, current_style_documents, mutation_results, counters,
                 leases, next_document_operation_sequence, cancelled>>

(******************************* dequeue_work ******************************)

(* A mutant: the worker goes back to waiting for commands.                    *)
DequeueStop_Waits ==
  pc = "Dequeue" /\ lifecycle.phase = "Stopping" /\ UNCHANGED <<shared, worker>>
DequeueStop == pc = "Dequeue" /\ LeaveStopping

DequeueClosure ==
  /\ pc = "Dequeue" /\ IsRunning
  /\ context_closures # <<>>
  /\ pc' = "Closing"
  /\ work' = CloseWork(Head(context_closures))
  /\ context_closures' = Tail(context_closures)
  /\ UNCHANGED <<lifecycle, receiver_open, commands, closing_contexts, stream, contexts,
                 latest_new_context, navigation_commits, styles,
                 mutation_results, counters, leases, next_document_operation_sequence,
                 cancelled, reservation, stop_reason>>

DequeueCommand ==
  /\ pc = "Dequeue" /\ IsRunning
  /\ context_closures = <<>>
  /\ commands # <<>>
  /\ pc' = "Begin"
  /\ work' = Head(commands)
  /\ commands' = Tail(commands)
  /\ UNCHANGED <<lifecycle, receiver_open, context_closures, closing_contexts, stream, contexts,
                 latest_new_context, navigation_commits, styles,
                 mutation_results, counters, leases, next_document_operation_sequence,
                 cancelled, reservation, stop_reason>>

(************************** publish_context_closed *************************)

(* The executor has closed the page. A saturated queue stops the engine; an   *)
(* exhausted sequence returns without a stop request.                         *)
PublishContextClosed ==
  LET c == work.token.navigation.context
  IN /\ pc = "Closing" /\ IsRunning
     /\ closing_contexts' = closing_contexts \ {c}
     /\ \/ /\ c \in closing_contexts /\ CanPush(1)
           /\ Push("ContextClosed", work.token, 0, 0)
           /\ Resume
           /\ UNCHANGED <<lifecycle, styles, cancelled>>
        \/ /\ c \in closing_contexts /\ Len(events) >= EventCapacity
           /\ RequestStop(contexts, "EventQueueSaturated")
           /\ Leave("EventQueueSaturated")
           /\ UNCHANGED stream
        \/ /\ c \in closing_contexts => Len(events) < EventCapacity /\ ~ CanPush(1)
           /\ Leave(IF c \in closing_contexts
                    THEN "IdentityExhausted" ELSE "ExecutorContractViolation")
           /\ UNCHANGED <<lifecycle, stream, styles, cancelled>>
     /\ UNCHANGED <<receiver_open, commands, context_closures, contexts, latest_new_context,
                    navigation_commits, mutation_results, counters, leases,
                    next_document_operation_sequence>>

(****************************** begin_navigation ***************************)

nav == work.token.navigation

ShouldExecute == IsCurrent(nav) /\ work.token \notin cancelled

BeginNavigation ==
  /\ pc = "Begin" /\ work.kind = "Navigate" /\ IsRunning
  /\ \/ /\ CanPush(1) /\ ShouldExecute
        /\ Push("NavigationStarted", work.token, 0, 0)
        /\ pc' = "Executing"
        /\ UNCHANGED <<lifecycle, styles, cancelled, contexts,
                       work, reservation, stop_reason>>
     \/ /\ CanPush(1) /\ ~ ShouldExecute
        /\ Push("NavigationCancelled", work.token, 0, 0)
        /\ contexts' = ClearCancellation(contexts, work.token)
        /\ Resume
        /\ UNCHANGED <<lifecycle, styles, cancelled>>
     \/ /\ ~ CanPush(1)
        /\ RequestStop(contexts, PushFault(1))
        /\ Leave(PushFault(1))
        /\ UNCHANGED <<stream, contexts>>
  /\ UNCHANGED <<receiver_open, queues, latest_new_context, navigation_commits,
                 mutation_results, counters, leases, next_document_operation_sequence>>

(***************************** finish_navigation ***************************)

(* The navigation ends without a page. `kept` is the contexts the code leaves *)
(* when the event cannot be queued: a cancelled navigation has its slot       *)
(* cleared either way, a failed one only once its event is in the queue.      *)
EndNavigation(kind, unusable, kept) ==
  LET cleared == ClearCancellation(contexts, work.token)
  IN /\ \/ /\ CanPush(1)
           /\ Push(kind, work.token, 0, 0)
           /\ contexts' = cleared
           /\ Resume
           /\ IF unusable THEN RequestStop(cleared, "RendererUnavailable")
                          ELSE UNCHANGED <<lifecycle, styles, cancelled>>
        \/ /\ ~ CanPush(1)
           /\ contexts' = kept
           /\ RequestStop(kept, PushFault(1))
           /\ Leave(PushFault(1))
           /\ UNCHANGED stream
     /\ UNCHANGED <<receiver_open, queues, latest_new_context, navigation_commits,
                    mutation_results, counters, leases, next_document_operation_sequence>>

(* retained_after_replacement.                                                *)
FrameFits(bytes) ==
  /\ bytes <= MaxFrameBytes
  /\ retained.frame_bytes - FrameBytes(nav.context) + bytes <= MaxRetainedFrameBytes

NodesFit_IgnoresPending(charge) ==
  retained.document_nodes - NodeCharge(nav.context) + charge <= MaxDocumentNodes

NodesFit(charge) ==
  retained.document_nodes - NodeCharge(nav.context) + charge + pending.document_nodes
    <= MaxDocumentNodes

(* The checks of publish_success, in the order in which it makes them.        *)
PublicationVerdict(o) ==
  CASE ~ FrameFits(o.bytes)                            -> "NavigationFailed"
    [] Len(events) + 2 > EventCapacity                 -> "EventQueueSaturated"
    [] o.kind = "Unproved"                             -> "ExecutorContractViolation"
    [] ~ NodesFit(o.charge)                            -> "NavigationFailed"
    [] next_frame_lease >= MaxLease                    -> "IdentityExhausted"
    [] \/ nav \in navigation_commits
       \/ Cardinality(navigation_commits) >= EventCapacity -> "ExecutorContractViolation"
    [] ~ CanPush(2)                                    -> "IdentityExhausted"
    [] OTHER                                           -> "Publish"

ReplacementDocument_KeepsOld(o) ==
  IF o.kind = "Document"
  THEN [navigation |-> nav, live |-> 0, frame |-> 0, charge |-> o.charge]
  ELSE contexts[nav.context].document

ReplacementDocument(o) ==
  IF o.kind = "Document"
  THEN [navigation |-> nav, live |-> 0, frame |-> 0, charge |-> o.charge]
  ELSE NoDocument

NextFrameLease_Reused(rendered) == next_frame_lease
NextFrameLease(rendered) == IF rendered THEN next_frame_lease + 1 ELSE next_frame_lease

(* The new document's ledger is published, once the old one is retired.       *)
ReplaceStyle ==
  /\ current_style_documents' = Put(current_style_documents, nav.context, nav)
  /\ live_style_documents' = (live_style_documents \ StylesOf({nav.context})) \union {nav}

(* publish_success: document, frame, style authority and commit record are    *)
(* replaced and the two events queued in one locked section.                  *)
PublishSuccess(o) ==
  LET c == nav.context
      document == ReplacementDocument(o)
      stored == [lease |-> next_frame_lease, navigation |-> nav, bytes |-> o.bytes]
  IN /\ IF o.kind = "Document" THEN ReplaceStyle ELSE RetireStyle(c)
     /\ mutation_results' = WithoutResultsOf(c)
     /\ contexts' = [ClearCancellation(contexts, work.token)
                       EXCEPT ![c].frame = stored, ![c].document = document]
     /\ retained' = [frame_bytes    |-> retained.frame_bytes - FrameBytes(c) + o.bytes,
                     document_nodes |-> retained.document_nodes - NodeCharge(c) + document.charge,
                     result_nodes   |-> retained.result_nodes - ResultUnits(ResultsOf(c))]
     /\ next_frame_lease' = NextFrameLease(TRUE)
     /\ navigation_commits' = navigation_commits \union {nav}
     /\ events' = events \o
          <<Event(next_event_sequence, "NavigationCommitted", work.token, 0, 0),
            Event(next_event_sequence + 1, "FrameReady", work.token, next_frame_lease, 0)>>
     /\ next_event_sequence' = next_event_sequence + 2
     /\ Resume
     /\ UNCHANGED <<lifecycle, receiver_open, queues, terminal_event, latest_new_context,
                    pending, next_mutation_result_lease, next_document_operation_sequence,
                    cancelled>>

StopWith(reason) ==
  /\ RequestStop(contexts, reason)
  /\ Leave(reason)
  /\ UNCHANGED <<receiver_open, queues, stream, contexts, latest_new_context, navigation_commits,
                 mutation_results, counters, leases, next_document_operation_sequence>>

Delivered(o) == o.kind \in {"Document", "Frame", "Unproved"}

NavigationVerdict_IgnoresStaleness(o) ==
  CASE o.kind = "Cancelled" -> "NavigationCancelled"
    [] ~ Delivered(o)       -> "NavigationFailed"
    [] OTHER                -> PublicationVerdict(o)

(* What finish_navigation decides for an executor result, its cancellation    *)
(* and currency checks first.                                                 *)
NavigationVerdict(o) ==
  CASE ~ ShouldExecute \/ o.kind = "Cancelled" -> "NavigationCancelled"
    [] ~ Delivered(o)                          -> "NavigationFailed"
    [] OTHER                                   -> PublicationVerdict(o)

FinishNavigation(o) ==
  /\ pc = "Executing" /\ work.kind = "Navigate" /\ IsRunning
  /\ LET verdict == NavigationVerdict(o)
     IN \/ /\ verdict = "NavigationCancelled"
           /\ EndNavigation(verdict, o.unusable,
                            IF ShouldExecute THEN contexts
                                             ELSE ClearCancellation(contexts, work.token))
        \/ /\ verdict = "NavigationFailed"
           /\ EndNavigation(verdict, o.unusable, contexts)
        \/ /\ verdict = "Publish"
           /\ PublishSuccess(o)
        \/ /\ verdict \in {"EventQueueSaturated", "IdentityExhausted",
                           "ExecutorContractViolation"}
           /\ StopWith(verdict)

(******************** begin_document_mutation and _rerender ****************)

ReservationFault_NoSlot ==
  IF \/ next_event_sequence >= MaxSequence
     \/ next_frame_lease >= MaxLease
     \/ work.kind = "Mutate" /\ next_mutation_result_lease >= MaxLease
  THEN "IdentityExhausted" ELSE "None"

ReservationFault_NoSequence ==
  CASE Len(events) >= EventCapacity          -> "EventQueueSaturated"
    [] \/ next_frame_lease >= MaxLease
       \/ work.kind = "Mutate" /\ next_mutation_result_lease >= MaxLease
                                             -> "IdentityExhausted"
    [] OTHER                                 -> "None"

(* reserve_document_publication: one event slot and one identity of each kind *)
(* the publication will need. Nothing is set aside: the reservation records   *)
(* the counters as they are and relies on nobody else advancing them.         *)
ReservationFault ==
  CASE Len(events) >= EventCapacity          -> "EventQueueSaturated"
    [] \/ next_event_sequence >= MaxSequence
       \/ next_frame_lease >= MaxLease
       \/ work.kind = "Mutate" /\ next_mutation_result_lease >= MaxLease
                                             -> "IdentityExhausted"
    [] OTHER                                 -> "None"

BudgetsHold_NoFrameRoom ==
  work.kind = "Mutate" => retained.document_nodes + pending.document_nodes <= MaxDocumentNodes

(* document_node_budget_is_valid (mutations) and reservation_can_replace_frame. *)
BudgetsHold ==
  /\ work.kind = "Mutate" =>
       retained.document_nodes + pending.document_nodes <= MaxDocumentNodes
  /\ retained.frame_bytes - FrameBytes(nav.context) + MaxFrameBytes <= MaxRetainedFrameBytes

DropStaleDocumentWork_Leaks ==
  /\ ~ DocumentWorkIsCurrent(work)
  /\ contexts' = ClearCancellation(contexts, work.token)
  /\ Resume
  /\ UNCHANGED <<pending, stream>>

(* Superseded, closed or changed while it was queued: dropped without an event. *)
DropStaleDocumentWork ==
  /\ ~ DocumentWorkIsCurrent(work)
  /\ pending' = Release(Reservation(work))
  /\ contexts' = ClearCancellation(contexts, work.token)
  /\ Resume
  /\ UNCHANGED stream

RejectDocumentWork_Unanswered ==
  /\ DocumentWorkIsCurrent(work) /\ ReservationFault = "None"
  /\ work.token \in cancelled \/ ~ BudgetsHold
  /\ pending' = Release(Reservation(work))
  /\ Resume
  /\ UNCHANGED <<contexts, stream>>

RejectDocumentWork ==
  /\ DocumentWorkIsCurrent(work) /\ ReservationFault = "None"
  /\ work.token \in cancelled \/ ~ BudgetsHold
  /\ pending' = Release(Reservation(work))
  /\ contexts' = ClearCancellation(contexts, work.token)
  /\ Push(IF work.kind = "Mutate" THEN "DocumentMutationRejected" ELSE "DocumentRerenderRejected",
          work.token, 0, 0)
  /\ Resume

(* The fault is returned by `?`: the worker leaves its loop while the         *)
(* lifecycle is still Running, and the reservation is not released.           *)
LeaveUnreserved ==
  /\ DocumentWorkIsCurrent(work) /\ ReservationFault # "None"
  /\ Leave(ReservationFault)
  /\ UNCHANGED <<pending, contexts, stream>>

ReserveAndExecute ==
  /\ DocumentWorkIsCurrent(work) /\ ReservationFault = "None"
  /\ work.token \notin cancelled /\ BudgetsHold
  /\ reservation' = [sequence |-> next_event_sequence, frame |-> next_frame_lease,
                     result |-> IF work.kind = "Mutate" THEN next_mutation_result_lease ELSE 0]
  /\ pc' = "Executing"
  /\ UNCHANGED <<work, stop_reason, pending, contexts, stream>>

BeginDocument ==
  /\ pc = "Begin" /\ work.kind \in {"Mutate", "Rerender"} /\ IsRunning
  /\ DropStaleDocumentWork \/ RejectDocumentWork \/ LeaveUnreserved \/ ReserveAndExecute
  /\ UNCHANGED <<lifecycle, receiver_open, queues, latest_new_context, navigation_commits,
                 styles, mutation_results, retained, leases,
                 next_document_operation_sequence, cancelled>>

(******************* finish_document_mutation and _rerender ****************)

(* invalidate_shared_document: the style authority always goes; the page's    *)
(* frame, document and results only if the page is still this navigation's.   *)
OwnsPage == nav.context \in DOMAIN contexts /\ contexts[nav.context].document.navigation = nav

Invalidated(ctxs) ==
  IF OwnsPage THEN [ctxs EXCEPT ![nav.context].frame = NoFrame,
                                ![nav.context].document = NoDocument]
              ELSE ctxs

InvalidateAccounts ==
  LET c == nav.context
  IN IF OwnsPage
     THEN /\ retained' = [frame_bytes    |-> retained.frame_bytes - FrameBytes(c),
                          document_nodes |-> retained.document_nodes - NodeCharge(c),
                          result_nodes   |-> retained.result_nodes - ResultUnits(ResultsOf(c))]
          /\ mutation_results' = WithoutResultsOf(c)
     ELSE UNCHANGED <<retained, mutation_results>>

(* The result of an operation that lost its document while it ran. If the     *)
(* executor changed its page the page is thrown away on both sides.           *)
FinishStaleDocument(o) ==
  LET cleared == ClearCancellation(contexts, work.token)
      after == IF o.kind = "Rejected" THEN cleared ELSE Invalidated(cleared)
  IN /\ ~ DocumentWorkIsCurrent(work)
     /\ pending' = Release(Reservation(work))
     /\ contexts' = after
     /\ IF o.kind = "Rejected" THEN UNCHANGED <<retained, mutation_results>>
                               ELSE InvalidateAccounts
     /\ IF o.unusable
        THEN RequestStop(after, "RendererUnavailable") /\ Leave("RendererUnavailable")
        ELSE /\ IF o.kind = "Rejected" THEN UNCHANGED styles ELSE RetireStyle(nav.context)
             /\ Resume
             /\ UNCHANGED <<lifecycle, cancelled>>
     /\ UNCHANGED <<stream, leases>>

(* What the worker re-checks before it publishes: the reserved identities are *)
(* still the next ones and the budgets still have room.                       *)
ReservedIdentitiesHold ==
  /\ Len(events) < EventCapacity
  /\ next_event_sequence = reservation.sequence
  /\ next_frame_lease = reservation.frame
  /\ work.kind = "Mutate" => next_mutation_result_lease = reservation.result

ReservedBudgetsHold ==
  work.kind = "Mutate" =>
    /\ retained.result_nodes + pending.result_nodes <= MaxResultNodes
    /\ retained.document_nodes + pending.document_nodes <= MaxDocumentNodes

Publishable(o) ==
  /\ o.kind # "Invalidated" /\ o.valid
  /\ ReservedIdentitiesHold
  /\ o.kind # "Rejected" => ReservedBudgetsHold
  /\ o.kind = "Rendered" => FrameFits(o.bytes)

(* invalidate_executor_and_shared_document, after the reservation is released. *)
FinishContractViolation(o) ==
  /\ DocumentWorkIsCurrent(work) /\ ~ Publishable(o)
  /\ pending' = Release(Reservation(work))
  /\ contexts' = Invalidated(contexts)
  /\ InvalidateAccounts
  /\ RequestStop(contexts, "ExecutorContractViolation")
  /\ Leave("ExecutorContractViolation")
  /\ UNCHANGED <<stream, leases>>

DocumentEventKind(o) ==
  CASE work.kind = "Mutate" /\ o.kind = "Rendered"  -> "DocumentMutationRendered"
    [] work.kind = "Mutate" /\ o.kind = "Committed" -> "DocumentMutationCommittedWithoutFrame"
    [] work.kind = "Mutate" /\ o.kind = "Rejected"  -> "DocumentMutationRejected"
    [] o.kind = "Rendered"                          -> "DocumentRerendered"
    [] OTHER                                        -> "DocumentRerenderRejected"

StyleAfterCommit_Kept(committed) == UNCHANGED styles

(* retire_if_succeeded: the executor applied the batch and retired the ledger  *)
(* of the document it changed. The map keeps the entry.                       *)
StyleAfterCommit(committed) ==
  /\ live_style_documents' = IF committed THEN live_style_documents \ {nav}
                                          ELSE live_style_documents
  /\ UNCHANGED current_style_documents

(* publish_reserved_frame, commit_mutation_result and push_reserved_event.    *)
PublishDocument(o) ==
  LET c == nav.context
      rendered == o.kind = "Rendered"
      committed == work.kind = "Mutate" /\ o.kind \in {"Rendered", "Committed"}
      old == contexts[c].document
      live == IF committed THEN old.live + 1 ELSE old.live
      frame == IF rendered THEN [lease |-> reservation.frame, navigation |-> nav,
                                 bytes |-> o.bytes]
                           ELSE contexts[c].frame
      document == [navigation |-> nav, live |-> live,
                   frame |-> IF rendered THEN live ELSE old.frame,
                   charge |-> IF committed THEN old.charge + work.nodes ELSE old.charge]
      after == [ClearCancellation(contexts, work.token)
                  EXCEPT ![c].frame = frame, ![c].document = document]
  IN /\ DocumentWorkIsCurrent(work) /\ Publishable(o)
     /\ contexts' = after
     /\ pending' = Release(Reservation(work))
     /\ retained' =
          [frame_bytes    |-> retained.frame_bytes - FrameBytes(c) + frame.bytes,
           document_nodes |-> retained.document_nodes + document.charge - old.charge,
           result_nodes   |-> retained.result_nodes + (IF committed THEN work.units ELSE 0)]
     /\ mutation_results' =
          IF committed
          THEN Put(mutation_results, reservation.result, [navigation |-> nav, units |-> work.units])
          ELSE mutation_results
     /\ next_frame_lease' = NextFrameLease(rendered)
     /\ next_mutation_result_lease' = IF committed THEN next_mutation_result_lease + 1
                                                   ELSE next_mutation_result_lease
     /\ Push(DocumentEventKind(o), work.token, IF rendered THEN reservation.frame ELSE 0,
             IF committed THEN reservation.result ELSE 0)
     /\ IF o.unusable
        THEN RequestStop(after, "RendererUnavailable")
        ELSE StyleAfterCommit(committed) /\ UNCHANGED <<lifecycle, cancelled>>
     /\ Resume

FinishDocument(o) ==
  /\ pc = "Executing" /\ work.kind \in {"Mutate", "Rerender"} /\ IsRunning
  /\ FinishStaleDocument(o) \/ FinishContractViolation(o) \/ PublishDocument(o)
  /\ UNCHANGED <<receiver_open, queues, latest_new_context, navigation_commits,
                 next_document_operation_sequence>>

(* begin_*, finish_* and publish_context_closed all test for Stopping first.  *)
FindStopping == pc \in {"Closing", "Begin", "Executing"} /\ LeaveStopping

(******************************* finish_worker *****************************)

(* finalize_executor ran without the lock; `executor` is how its shutdown     *)
(* ended (Returned: cleanly or with an error) and `reason` the final reason.  *)
FinishWorker(reason, executor) ==
  /\ pc' = "Exited"
  /\ lifecycle' = Stopped(reason, executor)
  /\ cancelled' = cancelled \union Actives(contexts)
  /\ RetireEveryStyle
  /\ commands' = <<>> /\ context_closures' = <<>> /\ closing_contexts' = {}
  /\ pending' = NoReservation
  /\ IF receiver_open
     THEN /\ contexts' = [c \in DOMAIN contexts |-> [contexts[c] EXCEPT !.active = NoToken]]
          /\ UNCHANGED retained
          /\ IF next_event_sequence < MaxSequence
             THEN /\ terminal_event' = Event(next_event_sequence, "ShutdownComplete", NoToken, 0, 0)
                  /\ next_event_sequence' = next_event_sequence + 1
             ELSE UNCHANGED <<terminal_event, next_event_sequence>>
     ELSE /\ contexts' = [c \in DOMAIN contexts |->
                            [contexts[c] EXCEPT !.active = NoToken, !.frame = NoFrame]]
          /\ retained' = [retained EXCEPT !.frame_bytes = 0]
          /\ UNCHANGED <<terminal_event, next_event_sequence>>
  /\ UNCHANGED <<receiver_open, events, latest_new_context, navigation_commits,
                 mutation_results, leases, next_document_operation_sequence,
                 work, reservation, stop_reason>>

(* A panic while the executor is dropped replaces the stop reason.            *)
FinalizeExecutor ==
  /\ pc = "Finalize"
  /\ \/ \E executor \in {"Returned", "Panicked"} : FinishWorker(stop_reason, executor)
     \/ FinishWorker("ExecutorPanicked", "Panicked")

WorkerInit ==
  /\ pc = "Start"
  /\ work = NoWork
  /\ reservation = NoReserved
  /\ stop_reason = "None"
=============================================================================
