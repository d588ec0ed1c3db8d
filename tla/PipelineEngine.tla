--------------------------- MODULE PipelineEngine ---------------------------
(* The navigation engine with the executor it ships with, composed of the     *)
(* worker and StaticPipelineExecutor (navigation.rs). The executor keeps its  *)
(* own map of live pages, keyed by context alone, and its own node count; the *)
(* worker keeps the shared record of the same pages. The page pipeline itself *)
(* (fetch, parse, style, layout, render) is abstracted to how it ends.        *)
EXTENDS NavigationEngine

CONSTANT FrameFaults   \* where EngineFrame::from_headless/_presentation may fail, by behaviour

ASSUME FramesAssumption == FrameFaults \subseteq SUBSET {"Load", "Operation"}

VARIABLES
  documents,                 \* context -> the page; its navigation is a ghost field
  retained_document_nodes,   \* the executor's own count
  live_document,             \* whether a page was left in StaticPageEngine between calls
  frame_faults               \* the calls of this behaviour whose frame may fail, or
                             \* (document operations) be larger than max_frame_bytes

pages == <<documents, retained_document_nodes>>
executor == <<pages, live_document, frame_faults>>

Without(c) == Restrict(documents, DOMAIN documents \ {c})
ChargeOf(c) == IF c \in DOMAIN documents THEN documents[c].charge ELSE 0

(* invalidate_document and close_context.                                     *)
Discard(c) ==
  /\ documents' = Without(c)
  /\ retained_document_nodes' =
       IF retained_document_nodes >= ChargeOf(c) THEN retained_document_nodes - ChargeOf(c) ELSE 0

(******************************** execute **********************************)

Failed(unusable) == Outcome("Failed", 0, 0, TRUE, unusable)

(* A load that succeeded is still refused if its page does not fit.           *)
Loaded(bytes, charge) ==
  IF retained_document_nodes - ChargeOf(nav.context) + charge <= MaxDocumentNodes
  THEN Outcome("Document", bytes, charge, TRUE, FALSE)
  ELSE Failed(FALSE)

(* acknowledge_navigation_publication: the replacement is kept only if the    *)
(* worker published it, and the previous page is restored otherwise.          *)
Acknowledge(o) ==
  IF o.kind = "Document" /\ NavigationVerdict(o) = "Publish"
  THEN /\ documents' = Put(documents, nav.context, ReplacementDocument(o))
       /\ retained_document_nodes' = retained_document_nodes - ChargeOf(nav.context) + o.charge
  ELSE UNCHANGED pages

(* The load ends with a page or without one.                                  *)
LoadNavigation ==
  LET ends == {Loaded(bytes, charge) : bytes \in FrameSizes, charge \in NodeCharges}
              \union {Outcome("Cancelled", 0, 0, TRUE, unusable) : unusable \in BOOLEAN}
              \union {Failed(unusable) : unusable \in BOOLEAN}
  IN /\ ~ live_document
     /\ \E o \in ends : FinishNavigation(o) /\ Acknowledge(o)
     /\ UNCHANGED live_document

(* load_navigation: the document was installed in the engine, its frame could *)
(* not be made, and nothing takes the document out again.                     *)
LoadWithoutFrame ==
  /\ ~ live_document /\ "Load" \in frame_faults
  /\ FinishNavigation(Failed(FALSE))
  /\ live_document' = TRUE
  /\ UNCHANGED pages

(* A document found in the engine fails the navigation; it is dropped then,    *)
(* unless the request was refused before the engine was looked at.            *)
LoadOverDocument ==
  /\ live_document
  /\ FinishNavigation(Failed(FALSE))
  /\ live_document' \in BOOLEAN
  /\ UNCHANGED pages

ExecuteNavigation ==
  (LoadNavigation \/ LoadWithoutFrame \/ LoadOverDocument) /\ UNCHANGED frame_faults

(********************** mutate_document, rerender_document *****************)

(* What the executor reports of its page is what the worker recorded of it.   *)
Agrees ==
  /\ nav.context \in DOMAIN documents
  /\ nav.context \in DOMAIN contexts
  /\ LET page == documents[nav.context]
     IN /\ page.live = work.version
        /\ page.frame = contexts[nav.context].document.frame

(* The page after the batch was applied; with a frame, it was also rendered.  *)
Revised(rendered) ==
  LET page == documents[nav.context]
      live == IF work.kind = "Mutate" THEN page.live + 1 ELSE page.live
  IN [page EXCEPT !.live = live, !.frame = IF rendered THEN live ELSE @,
                  !.charge = IF work.kind = "Mutate" THEN @ + work.nodes ELSE @]

KeepsPage_Always(o) == TRUE

(* The worker then discards the page if the operation was superseded or its   *)
(* report is not accepted; discarding one that is already gone does nothing.  *)
KeepsPage(o) ==
  IF DocumentWorkIsCurrent(work) THEN Publishable(o) ELSE o.kind = "Rejected"

Activates == nav.context \in DOMAIN documents /\ ~ live_document

(* The document that was activated, if there was one, is put back as it was.  *)
RejectOperation(unusable) ==
  LET o == Outcome("Rejected", 0, 0, Agrees, unusable)
  IN /\ nav.context \in DOMAIN documents => ~ live_document
     /\ FinishDocument(o)
     /\ IF KeepsPage(o) THEN UNCHANGED pages ELSE Discard(nav.context)
     /\ UNCHANGED live_document

(* A document was found in the engine: the operation is rejected without      *)
(* versions, and its page, now in the engine instead, is not put back.        *)
DisplaceOperation ==
  /\ nav.context \in DOMAIN documents /\ live_document
  /\ FinishDocument(Outcome("Rejected", 0, 0, FALSE, FALSE))
  /\ documents' = Without(nav.context)
  /\ UNCHANGED <<retained_document_nodes, live_document>>

(* retain_committed_document, or the rerendered page put back; then the       *)
(* worker's verdict.                                                          *)
CommitOperation(kind, bytes, unusable) ==
  LET rendered == kind = "Rendered"
      page == Revised(rendered)
      o == Outcome(kind, bytes, 0, Agrees, unusable)
      nodes == retained_document_nodes + page.charge - ChargeOf(nav.context)
  IN /\ Activates
     /\ documents[nav.context].live = work.version
     /\ nodes <= MaxDocumentNodes
     /\ FinishDocument(o)
     /\ IF KeepsPage(o)
        THEN /\ documents' = Put(documents, nav.context, page)
             /\ retained_document_nodes' = nodes
        ELSE /\ documents' = Without(nav.context)
             /\ retained_document_nodes' = nodes - page.charge
     /\ UNCHANGED live_document

(* The page is lost inside the executor. A mutation gives up its page without *)
(* giving back its charge; a rerender goes through invalidate_document.       *)
LoseOperation ==
  /\ Activates
  /\ documents[nav.context].live = work.version
  /\ \/ "Operation" \in frame_faults
     \/ work.kind = "Mutate" /\ retained_document_nodes + work.nodes > MaxDocumentNodes
  /\ FinishDocument(Outcome("Invalidated", 0, 0, FALSE, FALSE))
  /\ IF work.kind = "Mutate"
     THEN documents' = Without(nav.context) /\ UNCHANGED retained_document_nodes
     ELSE Discard(nav.context)
  /\ UNCHANGED live_document

(* The call's result is never looked at: the executor panicked, or the worker *)
(* finds the engine stopping. The page is as it was, set aside (activated, or *)
(* awaiting an acknowledgement that never comes), or revised.                 *)
Abandoned ==
  \/ UNCHANGED pages
  \/ /\ pc = "Executing" /\ nav.context \in DOMAIN documents
     /\ documents' = Without(nav.context)
     /\ UNCHANGED retained_document_nodes
  \/ /\ pc = "Executing" /\ work.kind # "Navigate" /\ nav.context \in DOMAIN documents
     /\ documents[nav.context].live = work.version
     /\ retained_document_nodes + work.nodes <= MaxDocumentNodes
     /\ \E rendered \in BOOLEAN : documents' = Put(documents, nav.context, Revised(rendered))
     /\ retained_document_nodes' = retained_document_nodes + work.nodes
  \/ pc = "Closing" /\ Discard(nav.context)

OperationSizes ==
  {bytes \in FrameSizes : bytes <= MaxFrameBytes \/ "Operation" \in frame_faults}

ExecuteDocument ==
  /\ \/ \E unusable \in BOOLEAN : RejectOperation(unusable)
     \/ \E bytes \in OperationSizes : CommitOperation("Rendered", bytes, FALSE)
     \/ \E unusable \in BOOLEAN :
          work.kind = "Mutate" /\ CommitOperation("Committed", 0, unusable)
     \/ LoseOperation
     \/ DisplaceOperation
  /\ UNCHANGED frame_faults

(******************************* the worker ********************************)

PipelineWorker ==
  \/ /\ DequeueStop \/ DequeueClosure \/ DequeueCommand \/ BeginNavigation \/ BeginDocument
     /\ UNCHANGED executor
  \/ PublishContextClosed /\ Discard(nav.context) /\ UNCHANGED <<live_document, frame_faults>>
  \/ ExecuteNavigation
  \/ ExecuteDocument
  \/ (FindStopping \/ ExecutorPanics) /\ Abandoned /\ UNCHANGED <<live_document, frame_faults>>
  \/ /\ FinalizeExecutor
     /\ documents' = EmptyMap /\ retained_document_nodes' = 0 /\ live_document' = FALSE
     /\ UNCHANGED frame_faults

PipelineInit ==
  /\ EngineInit
  /\ documents = EmptyMap /\ retained_document_nodes = 0 /\ live_document = FALSE
  /\ frame_faults \in FrameFaults
PipelineNext ==
  \/ PipelineWorker /\ UNCHANGED handle
  \/ (Spawn \/ SpawnFails \/ ClientStep \/ ReceiverStep \/ Rest) /\ UNCHANGED executor

PipelineSpec == PipelineInit /\ [][PipelineNext]_<<vars, executor>>
-----------------------------------------------------------------------------

(* While the engine runs, every page the executor has for a context is the    *)
(* retained document of the shared state, with the same navigation, versions  *)
(* and charge, and every other page belongs to a closing context: no command  *)
(* reaches a page other than the one it was admitted for. Every retained      *)
(* document has its page, unless a load lost its frame (DisplaceOperation).   *)
PagesAgree ==
  IsRunning /\ pc \notin {"Finalize", "Exited"} =>
    /\ \A c \in DOMAIN contexts :
         IF c \in DOMAIN documents THEN documents[c] = contexts[c].document
         ELSE contexts[c].document = NoDocument \/ "Load" \in frame_faults
    /\ DOMAIN documents \subseteq DOMAIN contexts \union closing_contexts

(* The executor never counts fewer nodes than its pages hold, so its own      *)
(* limit bounds the pages that exist, closing contexts included.              *)
NodesNeverUndercounted ==
  /\ MapThenSumSet(ChargeOf, DOMAIN documents) <= retained_document_nodes
  /\ retained_document_nodes <= MaxDocumentNodes

(* The executor's pages and its count of their nodes follow the worker's view  *)
(* of them, although both sides are updated in different steps (Loaded,        *)
(* Acknowledge, CloseContext and the mutation outcomes).                       *)
ExecutorMirrorsWorker == PagesAgree /\ NodesNeverUndercounted

(* With this executor, and frames that can always be made, the worker never   *)
(* stops with ExecutorContractViolation.                                      *)
ContractHolds == frame_faults = {} => stop_reason # "ExecutorContractViolation"

(* What ExecutorDocumentMutation::Invalidated asks for: after a mutation that *)
(* lost its page inside the executor the worker stops. finish_document_mutation *)
(* does so only while the operation is current; once it was superseded or its *)
(* context closed, the worker goes on, and the executor's node count keeps    *)
(* the charge of a page that no longer exists.                                *)
InvalidatedMutationStops ==
  [][work.kind = "Mutate" /\ LoseOperation => pc' = "Finalize"]_<<vars, executor>>
=============================================================================
