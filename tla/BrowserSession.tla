--------------------------- MODULE BrowserSession ---------------------------
(* The browser session controller (session.rs) on the navigation engine,      *)
(* through NavigationEnginePort (engine.rs). The controller runs on the       *)
(* shell's thread and the worker on its own: a command of the session is one  *)
(* engine call, and applying an event is a second locked section after the    *)
(* one that received it, so the worker may run between the two.               *)
(*                                                                            *)
(* A tab is named by its top-level context, a navigation or a document of a   *)
(* tab by its generation, 0 for None. No mutation goes through the port, so a *)
(* document keeps its first version. The port's frame and commit bindings are *)
(* made and consumed while one event is applied and hold nothing between two. *)
EXTENDS NavigationEngine

CONSTANTS
  MaxTabs, MaxClosing,     \* SessionLimits: max_total_tabs, max_closing_contexts
  MaxLedger,               \* MAX_NAVIGATION_LEDGER_ENTRIES
  MaxSessionFrameBytes,    \* SessionLimits: max_total_frame_bytes
  Itineraries              \* a bound of the model: context -> navigations, in a few ways

VARIABLES
  tabs,            \* context -> TabState
  closing,         \* closing_contexts: context -> the generation it was closed at
  next_context,
  ledger,          \* navigation_ledger_entries
  frame_bytes,     \* retained_frame_bytes
  last_sequence,   \* last_engine_sequence
  documents,       \* of the port: context -> the generation of its document
  frame_lease,     \* of the port: last_frame_lease
  event,           \* the event that was received and is not yet applied
  session          \* SessionLifecycle: Running, Closed, or why it failed

tabState == <<tabs, closing, next_context, ledger, frame_bytes>>
port == <<documents, frame_lease>>
controller == <<tabState, port, last_sequence, event, session>>
browser == <<vars, controller>>

NoRerender == [operation |-> 0, failed |-> FALSE]
NewTab ==
  [latest |-> 0, phases |-> EmptyMap, live |-> 0, loading |-> 0, document |-> 0,
   frame |-> NoFrame, rerender |-> NoRerender]

Nav(c, g) == [context |-> c, generation |-> g]
Idle == session = "Running" /\ event = NoEvent

(* fail, shutdown and clear_product_state: the tabs go and the port is shut   *)
(* down, in the steps that follow.                                            *)
End(reason) ==
  /\ session' = reason
  /\ tabs' = EmptyMap /\ closing' = EmptyMap
  /\ ledger' = 0 /\ frame_bytes' = 0
  /\ documents' = EmptyMap
  /\ event' = NoEvent
  /\ UNCHANGED <<next_context, frame_lease, last_sequence>>

(********************************* commands ********************************)

(* open_tab: the context is allocated with the tab, before any navigation.    *)
OpenTab ==
  /\ Idle
  /\ Cardinality(DOMAIN tabs) + Cardinality(DOMAIN closing) < MaxTabs
  /\ next_context <= MaxContextId
  /\ tabs' = Put(tabs, next_context, NewTab)
  /\ next_context' = next_context + 1
  /\ UNCHANGED <<vars, closing, ledger, frame_bytes, port, last_sequence, event, session>>

Terminal == {"Ready", "Cancelled", "Failed"}

Prune_Unstarted(t) ==
  [t EXCEPT !.phases =
     Restrict(@, {g \in DOMAIN @ : g = t.live \/ @[g] \in {"Started", "Committed"}})]

(* The phases that survive an admission: the live one and those not finished. *)
Prune(t) ==
  [t EXCEPT !.phases =
     Restrict(@, {g \in DOMAIN @ : g = t.live \/ @[g] \notin Terminal})]

Entries(t) == Cardinality(DOMAIN t.phases)

ProjectedLedger ==
  ledger + 1 - MapThenSumSet(LAMBDA c : Entries(tabs[c]) - Entries(Prune(tabs[c])), DOMAIN tabs)

(* The open tabs make no more navigations than one of the itineraries.        *)
OnItinerary(c) ==
  \E most \in Itineraries :
    /\ tabs[c].latest < most[c]
    /\ \A d \in DOMAIN tabs : tabs[d].latest <= most[d]

Navigable(c) ==
  /\ tabs[c].latest < MaxGeneration /\ OnItinerary(c)
  /\ ProjectedLedger <= MaxLedger

(* The generation navigate() allocates under the engine's lock.               *)
AllocatedGeneration(c) ==
  IF c \in DOMAIN contexts THEN contexts[c].latest_generation + 1 ELSE 1

(* send_navigation, for navigate_new, submit_address, go_history and reload.  *)
SendNavigation(c) ==
  LET g == AllocatedGeneration(c)
      pruned == [t \in DOMAIN tabs |-> Prune(tabs[t])]
  IN /\ Idle /\ c \in DOMAIN tabs /\ Navigable(c)
     /\ Navigate(Nav(c, g)) /\ UNCHANGED worker
     /\ IF g = tabs[c].latest + 1
        THEN /\ tabs' = [pruned EXCEPT ![c].phases = Put(@, g, "Requested"),
                                       ![c].latest = g, ![c].loading = g]
             /\ ledger' = ProjectedLedger
             /\ UNCHANGED <<closing, next_context, frame_bytes, port, last_sequence, event,
                            session>>
        ELSE End("EngineContract")

(* stop: only the navigation the tab still considers active.                  *)
Stop(c) ==
  /\ Idle /\ c \in DOMAIN tabs /\ tabs[c].loading # 0
  /\ Cancel(Token(Nav(c, tabs[c].loading), 0))
  /\ UNCHANGED <<worker, controller>>

Closable(c) == tabs[c].latest # 0 => Cardinality(DOMAIN closing) < MaxClosing

ReleasedBytes(c) == tabs[c].frame.bytes

(* close_tab: a tab that never navigated has no context in the engine. The    *)
(* last tab takes its window and the session with it.                         *)
CloseTab(c) ==
  /\ Idle /\ c \in DOMAIN tabs /\ Closable(c)
  /\ IF tabs[c].latest = 0 THEN UNCHANGED vars
     ELSE CloseContext(Nav(c, tabs[c].latest)) /\ UNCHANGED worker
  /\ IF DOMAIN tabs = {c} THEN End("Closed")
     ELSE /\ tabs' = Restrict(tabs, DOMAIN tabs \ {c})
          /\ closing' = IF tabs[c].latest = 0 THEN closing ELSE Put(closing, c, tabs[c].latest)
          /\ ledger' = ledger - Entries(tabs[c])
          /\ frame_bytes' = frame_bytes - ReleasedBytes(c)
          /\ UNCHANGED <<next_context, port, last_sequence, event, session>>

(* Session and port name the same document for the tab.                       *)
LabelsAgree(c) ==
  /\ tabs[c].document = tabs[c].live
  /\ c \in DOMAIN documents /\ documents[c] = tabs[c].live

(* request_presentation_rerender: session, port and engine must agree on the  *)
(* document of the tab.                                                       *)
RequestRerender(c) ==
  /\ Idle /\ c \in DOMAIN tabs /\ tabs[c].live # 0
  /\ IF LabelsAgree(c)
     THEN /\ RerenderDocument(Nav(c, tabs[c].live)) /\ UNCHANGED worker
          /\ tabs' = [tabs EXCEPT ![c].rerender = NoRerender]
          /\ UNCHANGED <<closing, next_context, ledger, frame_bytes, port, last_sequence, event,
                         session>>
     ELSE End("EngineContract") /\ UNCHANGED vars

(* take_frame: the shell consumes the tab's scene.                            *)
TakeTabFrame(c) ==
  /\ Idle /\ c \in DOMAIN tabs /\ tabs[c].frame # NoFrame
  /\ frame_bytes' = frame_bytes - ReleasedBytes(c)
  /\ tabs' = [tabs EXCEPT ![c].frame = NoFrame]
  /\ UNCHANGED <<vars, closing, next_context, ledger, port, last_sequence, event, session>>

CallsEngine(c) ==
  \/ Navigable(c)
  \/ tabs[c].loading # 0 \/ tabs[c].live # 0
  \/ tabs[c].latest # 0 /\ Closable(c)

(* resolve_engine_result: a command that finds the engine stopping ends the   *)
(* session.                                                                   *)
CommandFindsStopped ==
  /\ Idle /\ ~ IsRunning
  /\ \E c \in DOMAIN tabs : CallsEngine(c)
  /\ End("EngineDisconnected")
  /\ UNCHANGED vars

Shutdown == Idle /\ End("Closed") /\ UNCHANGED vars

(********************************** events *********************************)

(* poll_event: try_recv.                                                      *)
Poll ==
  /\ Idle
  /\ \/ Receive /\ event' = Head(events)
     \/ ReceiveTerminal /\ event' = terminal_event
  /\ UNCHANGED <<worker, handle, tabState, port, last_sequence, session>>

PollClosed ==
  /\ Idle
  /\ events = <<>> /\ terminal_event = NoEvent /\ lifecycle.phase = "Stopped"
  /\ End("EngineDisconnected")
  /\ UNCHANGED vars

subject == event.token.navigation
tab == tabs[subject.context]
Owned == subject.context \in DOMAIN tabs

(* bind_navigation_commit and preflight_frame.                                *)
PortAccepts ==
  /\ event.kind = "NavigationCommitted" => subject \in navigation_commits
  /\ event.lease # 0 => event.lease > frame_lease

(* The phases a navigation event may follow, and the one it leads to.         *)
Follows == [NavigationStarted |-> {"Requested"}, NavigationCommitted |-> {"Started"},
            FrameReady |-> {"Committed"}, NavigationCancelled |-> {"Requested", "Started"},
            NavigationFailed |-> {"Started"}]
Reached == [NavigationStarted |-> "Started", NavigationCommitted |-> "Committed",
            FrameReady |-> "Ready", NavigationCancelled |-> "Cancelled",
            NavigationFailed |-> "Failed"]

PhaseOf(g) == IF g \in DOMAIN tab.phases THEN tab.phases[g] ELSE "None"

(* tab_for_known_navigation, tab_for_live_document_event,                     *)
(* validate_frame_publication_candidate and the document validations.         *)
TabAccepts ==
  CASE event.kind = "FrameReady" ->
         /\ PhaseOf(subject.generation) = "Committed"
         /\ tab.live # 0 => PhaseOf(tab.live) = "Ready" /\ subject.generation > tab.live
    [] event.kind \in NavigationEvents -> PhaseOf(subject.generation) \in Follows[event.kind]
    [] event.kind \in {"DocumentRerendered", "DocumentRerenderRejected"} ->
         /\ tab.live = subject.generation /\ tab.document = subject.generation
         /\ PhaseOf(subject.generation) = "Ready"
    [] OTHER -> FALSE

(* apply_engine_event accepts the event: events of contexts the session has   *)
(* closed are suppressed, and a close is acknowledged once, for its own       *)
(* generation.                                                                *)
SessionAccepts ==
  \/ event.kind = "ShutdownComplete"
  \/ Owned /\ TabAccepts
  \/ /\ ~ Owned /\ subject.context < next_context
     /\ event.kind = "ContextClosed" /\ subject.context \in DOMAIN closing =>
          closing[subject.context] = subject.generation

Fault ==
  CASE ~ PortAccepts                       -> "EngineContract"
    [] event.sequence # last_sequence + 1  -> "EngineEventSequence"
    [] ~ SessionAccepts                    -> "EngineContract"
    [] OTHER                               -> "None"

Applies == event # NoEvent /\ Fault = "None" /\ event.kind # "ShutdownComplete"

(* map_event and record_document, and the end of the event's application.     *)
Applied ==
  /\ frame_lease' = IF event.lease # 0 THEN event.lease ELSE frame_lease
  /\ documents' = CASE event.lease # 0 -> Put(documents, subject.context, subject.generation)
                    [] event.kind = "ContextClosed" ->
                         Restrict(documents, DOMAIN documents \ {subject.context})
                    [] OTHER -> documents
  /\ last_sequence' = event.sequence
  /\ event' = NoEvent
  /\ UNCHANGED <<worker, handle, next_context, session>>

(* The lease is Stale when the worker has replaced or dropped the frame since. *)
FrameStands ==
  subject.context \in DOMAIN contexts /\ contexts[subject.context].frame.lease = event.lease

(* take_navigation_commit, take_checked_frame and discard_stale_frame.        *)
Transfer ==
  CASE event.kind = "NavigationCommitted" -> TakeNavigationCommit(subject)
    [] event.lease # 0 /\ FrameStands     -> TakeFrame(subject.context)
    [] OTHER                              -> UNCHANGED shared

LoadingAfter_NotFailed(kind) ==
  IF kind \in {"FrameReady", "NavigationCancelled"} /\ tab.loading = subject.generation
  THEN 0 ELSE tab.loading

(* The end of a navigation stops the tab's loading if it is the one loading.  *)
LoadingAfter(kind) ==
  IF Reached[kind] \in Terminal /\ tab.loading = subject.generation THEN 0 ELSE tab.loading

(* NavigationStarted, NavigationCommitted, NavigationCancelled and            *)
(* NavigationFailed of an open tab.                                           *)
ApplyNavigation ==
  /\ Applies /\ Owned
  /\ event.kind \in NavigationEvents \ {"FrameReady"}
  /\ Transfer
  /\ tabs' = [tabs EXCEPT ![subject.context].phases[subject.generation] = Reached[event.kind],
                          ![subject.context].loading = LoadingAfter(event.kind)]
  /\ UNCHANGED <<closing, ledger, frame_bytes>>
  /\ Applied

(* preflight_frame_install: what the tab retains of the published frame.      *)
InstalledFrame ==
  LET frame == contexts[subject.context].frame
  IN IF FrameStands /\ frame_bytes - tab.frame.bytes + frame.bytes <= MaxSessionFrameBytes
     THEN frame ELSE NoFrame

Install ==
  frame_bytes' = frame_bytes - tab.frame.bytes + InstalledFrame.bytes

PublishedPhases ==
  Put(Restrict(tab.phases, DOMAIN tab.phases \ {tab.live}), subject.generation, "Ready")

LedgerAfterPublication_Kept == ledger
LedgerAfterPublication == IF tab.live = 0 THEN ledger ELSE ledger - 1

(* apply_frame_event: the replacement publishes and the prior page retires.   *)
ApplyFrame ==
  /\ Applies /\ Owned /\ event.kind = "FrameReady"
  /\ Transfer
  /\ Install
  /\ tabs' = [tabs EXCEPT ![subject.context].phases = PublishedPhases,
                          ![subject.context].live = subject.generation,
                          ![subject.context].document = subject.generation,
                          ![subject.context].loading = LoadingAfter("FrameReady"),
                          ![subject.context].frame = InstalledFrame]
  /\ ledger' = LedgerAfterPublication
  /\ UNCHANGED closing
  /\ Applied

(* apply_document_rerendered_event and DocumentRerenderRejected.              *)
ApplyRerender ==
  LET rejected == event.kind = "DocumentRerenderRejected"
  IN /\ Applies /\ Owned /\ event.kind \in {"DocumentRerendered", "DocumentRerenderRejected"}
     /\ Transfer
     /\ IF rejected THEN UNCHANGED frame_bytes ELSE Install
     /\ tabs' = [tabs EXCEPT
                   ![subject.context].frame = IF rejected THEN @ ELSE InstalledFrame,
                   ![subject.context].rerender =
                      [operation |-> event.token.operation,
                       failed |-> rejected \/ (FrameStands /\ InstalledFrame = NoFrame)]]
     /\ UNCHANGED <<closing, ledger>>
     /\ Applied

(* Events of a closed tab: its leases are drained, its acknowledgement ends   *)
(* the tombstone.                                                             *)
ApplyRetired ==
  /\ Applies /\ ~ Owned
  /\ Transfer
  /\ closing' = IF event.kind = "ContextClosed"
                THEN Restrict(closing, DOMAIN closing \ {subject.context}) ELSE closing
  /\ UNCHANGED <<tabs, ledger, frame_bytes>>
  /\ Applied

(* ShutdownComplete, or an event the port or the session refuses.             *)
ApplyEnd ==
  /\ event # NoEvent /\ ~ Applies
  /\ End(IF Fault = "None" THEN "EngineStopped" ELSE Fault)
  /\ UNCHANGED vars

(****************************** port shutdown ******************************)

(* NavigationEnginePort::shutdown: request, drop the receiver, join.          *)
ShutdownPort ==
  /\ session # "Running"
  /\ \/ RequestShutdown("Joining")
     \/ handle = "Joining" /\ DropReceiver /\ UNCHANGED handle
     \/ ~ receiver_open /\ Join
  /\ UNCHANGED <<worker, controller>>

-----------------------------------------------------------------------------
SessionInit ==
  /\ Init /\ handle = "Owned"
  /\ pc = "Dequeue" /\ work = NoWork /\ reservation = NoReserved /\ stop_reason = "None"
  /\ tabs = [c \in {1} |-> NewTab] /\ closing = EmptyMap /\ next_context = 2
  /\ ledger = 0 /\ frame_bytes = 0 /\ last_sequence = 0
  /\ documents = EmptyMap /\ frame_lease = 0
  /\ event = NoEvent /\ session = "Running"

Command ==
  \/ OpenTab \/ Shutdown \/ CommandFindsStopped
  \/ \E c \in DOMAIN tabs :
       SendNavigation(c) \/ Stop(c) \/ CloseTab(c) \/ RequestRerender(c) \/ TakeTabFrame(c)

Pump ==
  \/ Poll \/ PollClosed
  \/ ApplyNavigation \/ ApplyFrame \/ ApplyRerender \/ ApplyRetired \/ ApplyEnd

(* The executors of the browser always deliver a document with a frame.       *)
SessionWorker ==
  /\ \/ DequeueStop \/ DequeueClosure \/ DequeueCommand
     \/ PublishContextClosed
     \/ BeginNavigation \/ BeginDocument
     \/ \E o \in NavigationOutcomes : o.kind \notin {"Frame", "Unproved"} /\ FinishNavigation(o)
     \/ \E o \in RerenderOutcomes : FinishDocument(o)
     \/ ExecutorPanics
     \/ FindStopping
     \/ FinalizeExecutor
  /\ UNCHANGED <<handle, controller>>

SessionOver == handle = "Joined" /\ UNCHANGED browser

SessionNext == Command \/ Pump \/ ShutdownPort \/ SessionWorker \/ SessionOver

(* The worker is scheduled, and the shell's loop pumps the engine as long as  *)
(* a tab is loading. Nothing is assumed of the user's commands.               *)
SessionSpec ==
  /\ SessionInit /\ [][SessionNext]_browser
  /\ WF_browser(SessionWorker) /\ WF_browser(Pump)
-----------------------------------------------------------------------------
(* Session, port and engine never contradict each other: whatever the user    *)
(* does while the worker runs, no event is out of sequence, names a lease or  *)
(* a commit that is not there, or finds its tab in a phase it cannot follow,  *)
(* and no rerender is asked of a document the port does not hold (fail with   *)
(* SessionFailure::EngineContract or EngineEventSequence).                    *)
ContractKept == session \notin {"EngineContract", "EngineEventSequence"}

(* The aggregate counters are the sums over the tabs through every admission, *)
(* publication, suppression and close, so that no checked_sub underflows, and *)
(* they stay within the session's limits.                                     *)
SessionAccountsExact ==
  /\ ledger = MapThenSumSet(LAMBDA c : Entries(tabs[c]), DOMAIN tabs)
  /\ frame_bytes = MapThenSumSet(LAMBDA c : tabs[c].frame.bytes, DOMAIN tabs)
  /\ ledger <= MaxLedger /\ frame_bytes <= MaxSessionFrameBytes
  /\ Cardinality(DOMAIN tabs) + Cardinality(DOMAIN closing) <= MaxTabs
  /\ Cardinality(DOMAIN closing) <= MaxClosing

(* No tab loads forever: once the user stops asking, whatever is loading is   *)
(* published, fails, is cancelled or goes with its tab, or the session ends,  *)
(* even when the engine stops without an event for it (LoadingAfter, fail).   *)
(* A tab makes finitely many navigations here, so this is said of all at once. *)
LoadingEnds == []<>(\A c \in DOMAIN tabs : tabs[c].loading = 0)

(* "New context identities must increase monotonically" (navigation.rs,       *)
(* navigate): a tab of a running session that has not navigated yet still     *)
(* can, because its context is newer than every one the engine has admitted.  *)
BlankTabsStayNavigable ==
  \A c \in DOMAIN tabs : tabs[c].latest = 0 => c > latest_new_context

(* "Successful replacement publication, rather than admission, atomically     *)
(* retires the prior live page; cancellation/failure leaves its frame,        *)
(* document, and mutation-result capabilities intact": a tab that loads       *)
(* nothing, with every event applied, still has in the engine the document it *)
(* calls live (apply_navigation_cancelled, invalidate_shared_document).       *)
LivePageSurvives ==
  Idle /\ IsRunning /\ pc = "Dequeue" /\ events = <<>> =>
    \A c \in DOMAIN tabs :
      tabs[c].live # 0 /\ tabs[c].loading = 0 =>
        /\ c \in DOMAIN contexts
        /\ contexts[c].document.navigation = Nav(c, tabs[c].live)
=============================================================================
