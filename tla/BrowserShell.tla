---------------------------- MODULE BrowserShell ----------------------------
(* The browser's window handler (wild_buzzard_shell, BrowserHandler) on the   *)
(* session controller: which page the window shows, when it asks the engine   *)
(* to render a page again, and when it polls the engine. Each event of the    *)
(* window is handled to its end on the shell's thread, while the worker runs  *)
(* on; any error of a handler ends the browser.                               *)
(*                                                                            *)
(* A page is the frame it was taken from. The one worker renders and leases   *)
(* in one order, so the lease stands for the scene revision.                  *)
EXTENDS BrowserSession

CONSTANTS
  Sizes,          \* of the surface: "Viewport" is the engine's, "Other" is not, "Zero" has none
  Compositions,   \* whether the compositor accepts a frame, FALSE a retry-safe rejection
  MaxRejections   \* MAX_CONSECUTIVE_PREACCEPT_REJECTIONS

VARIABLES
  active,               \* the window's active tab
  presented,            \* PresentedState: [tab, page, last_page_revision], page NoFrame if blank
  surface,              \* BrowserSurfaceState: [admission, compatible, stale]
  rerender_pending,     \* tab -> [navigation, operation]
  rerender_suppressed,  \* tab -> [navigation]
  redraw,               \* a RedrawRequested is on its way
  rejections,           \* consecutive_preaccept_rejections
  polling,              \* the poll thread wakes the loop
  pumping,              \* pump_engine has processed an event and goes on
  failure               \* why the shell gave up, "None" while it has not

rerenders == <<rerender_pending, rerender_suppressed>>
shell == <<active, presented, surface, rerenders, redraw, rejections, polling, pumping, failure>>
window == <<browser, shell>>

Blank == [tab |-> 0, page |-> NoFrame, last_page_revision |-> 0]
ReadySurface == [admission |-> "Presentable", compatible |-> TRUE, stale |-> FALSE]

Without(map, c) == Restrict(map, DOMAIN map \ {c})
Handles == Idle /\ ~ pumping

(* Stopped and finish: the handler lets go of everything.                     *)
Finish(reason) ==
  /\ active' = 0 /\ presented' = Blank /\ surface' = ReadySurface
  /\ rerender_pending' = EmptyMap /\ rerender_suppressed' = EmptyMap
  /\ redraw' = FALSE /\ rejections' = 0 /\ polling' = FALSE /\ pumping' = FALSE
  /\ failure' = reason

(* handle_event: an error of the handler ends the browser and its session.    *)
Fail(reason) ==
  /\ Finish(reason)
  /\ End(IF reason = "EngineContract" THEN reason ELSE "Closed")
  /\ UNCHANGED vars

(********************************** drawing ********************************)

(* What request_presentation_rerender can answer, in the order of the checks:  *)
(* the labels of session and port, then ensure_document_admission.            *)
RerenderRefusal(c) ==
  LET context == contexts[c]
  IN CASE ~ LabelsAgree(c)                              -> "EngineContract"
       [] ~ ensure_accepting                            -> "ShuttingDown"
       [] Len(commands) >= CommandCapacity              -> "QueueFull"
       [] context.active # NoToken                      -> "ContextBusy"
       [] context.document.navigation # Nav(c, tabs[c].live) -> "NoLiveDocument"
       [] next_document_operation_sequence >= MaxOperation -> "IdentityExhausted"
       [] OTHER                                         -> "None"

(* What prepare_page_update chooses for the active tab.                       *)
Candidate == tabs[active].frame
StaleRevision == Candidate # NoFrame /\ Candidate.lease <= presented.last_page_revision
Installs(s) == Candidate # NoFrame /\ ~ StaleRevision /\ s.compatible

SceneInvalidated_AnyTab(s) == s.stale \/ ~ s.compatible
SceneInvalidated(s) == presented.tab # active \/ s.stale \/ ~ s.compatible

(* select_page_fallback and materialize_page_fallback.                        *)
Clears(s) == ~ Installs(s) /\ presented.page # NoFrame /\ SceneInvalidated(s)
NeedRerender(s) ==
  \/ Clears(s)
  \/ presented.page = NoFrame /\ Candidate = NoFrame /\ tabs[active].live # 0

Page(s) ==
  CASE Installs(s) -> Candidate
    [] Clears(s)   -> NoFrame
    [] OTHER       -> presented.page

IsLabelled(map) == active \in DOMAIN map /\ map[active].navigation = tabs[active].live

(* Where the transaction asks for a rerender: for an obsolete candidate while *)
(* it is prepared, for a page it lacks once it is accepted, for the page it   *)
(* consumed once it is rejected.                                              *)
WantsRerender(s, accepted) ==
  StaleRevision \/ IF accepted THEN NeedRerender(s) ELSE Installs(s)

(* request_rerender_if_possible: not for another viewport, without a page, or *)
(* again for a page that is suppressed or pending. A rejected install has     *)
(* forgotten its pending entry first.                                         *)
Requests(s, suppressed, accepted) ==
  /\ WantsRerender(s, accepted)
  /\ s.compatible /\ tabs[active].live # 0
  /\ ~ IsLabelled(suppressed)
  /\ ~ IsLabelled(rerender_pending) \/ (Installs(s) /\ ~ accepted)

PendingAfter(s, requests, accepted) ==
  LET requested == Put(rerender_pending, active,
                       [navigation |-> tabs[active].live,
                        operation |-> next_document_operation_sequence])
  IN CASE accepted /\ Page(s) # NoFrame -> Without(rerender_pending, active)
       [] requests                      -> requested
       [] OTHER                         -> rerender_pending

SuppressedAfter(s, suppressed, accepted) ==
  LET asks == WantsRerender(s, accepted) /\ s.compatible /\ tabs[active].live # 0
  IN IF (accepted /\ Page(s) # NoFrame) \/ (asks /\ ~ IsLabelled(suppressed))
     THEN Without(suppressed, active) ELSE suppressed

(* Why the transaction ends the browser: too many rejections in a row         *)
(* (record_preaccept_rejection), or the rerender it asks for is refused. Only *)
(* an obsolete candidate asks before the submission.                          *)
DrawFailure(requests, accepted) ==
  LET refusal == IF requests THEN RerenderRefusal(active) ELSE "None"
      exhausted == ~ accepted /\ rejections >= MaxRejections
  IN IF exhausted /\ (~ StaleRevision \/ refusal = "None") THEN "Rejections" ELSE refusal

(* draw, draw_transaction, commit_submitted_frame and                         *)
(* handle_browser_submission_error on a presentable surface.                  *)
Draw(s, suppressed, again) ==
  \E accepted \in Compositions :
    LET requests == Requests(s, suppressed, accepted)
        fault == DrawFailure(requests, accepted)
    IN IF fault # "None" THEN Fail(fault)
       ELSE /\ IF requests THEN RerenderDocument(Nav(active, tabs[active].live)) /\ UNCHANGED worker
               ELSE UNCHANGED vars
            /\ tabs' = [tabs EXCEPT ![active].frame = NoFrame,
                                    ![active].rerender = IF requests THEN NoRerender ELSE @]
            /\ frame_bytes' = frame_bytes - Candidate.bytes
            /\ presented' = IF ~ accepted THEN presented
                            ELSE [tab |-> active, page |-> Page(s),
                                  last_page_revision |->
                                     IF Page(s) = NoFrame THEN presented.last_page_revision
                                     ELSE Page(s).lease]
            /\ surface' = [s EXCEPT !.stale = @ /\ ~ accepted]
            /\ rerender_pending' = PendingAfter(s, requests, accepted)
            /\ rerender_suppressed' = SuppressedAfter(s, suppressed, accepted)
            /\ redraw' = (again \/ (~ accepted /\ ~ Installs(s)))
            /\ rejections' = IF accepted THEN 0 ELSE rejections + 1
            /\ polling' = (polling \/ requests)
            /\ UNCHANGED <<closing, next_context, ledger, port, last_sequence, event, session,
                           active, pumping, failure>>

(******************************* the surface *******************************)

(* record_transition and set_viewport_compatible.                             *)
SurfaceAfter(resumed, size) ==
  LET suspended == surface.admission = "ExplicitlySuspended" /\ ~ resumed
      admission == CASE suspended     -> "ExplicitlySuspended"
                     [] size = "Zero" -> "ZeroSized"
                     [] OTHER         -> "Presentable"
  IN [admission |-> admission, stale |-> TRUE,
      compatible |-> admission = "Presentable" /\ size = "Viewport"]

(* handle_surface_transition: Resized, ScaleFactorChanged or Resumed.         *)
SurfaceTransition(resumed, size) ==
  LET s == SurfaceAfter(resumed, size)
  IN /\ Handles
     /\ resumed => surface.admission = "ExplicitlySuspended"
     /\ IF s.admission = "Presentable" THEN Draw(s, EmptyMap, redraw)
        ELSE /\ surface' = s
             /\ rerender_suppressed' = EmptyMap
             /\ UNCHANGED <<browser, active, presented, rerender_pending, redraw, rejections,
                            polling, pumping, failure>>

(* handle_explicit_suspend.                                                   *)
Suspend ==
  /\ Handles
  /\ surface' = [admission |-> "ExplicitlySuspended", compatible |-> FALSE, stale |-> TRUE]
  /\ UNCHANGED <<browser, active, presented, rerenders, redraw, rejections, polling, pumping,
                 failure>>

(* RedrawRequested. A suspended surface is not asked for; one that has lost   *)
(* its area since the last transition (can_draw_surface) is recorded as such. *)
Redraw ==
  /\ Handles /\ redraw
  /\ \/ surface.admission = "Presentable" /\ Draw(surface, rerender_suppressed, FALSE)
     \/ /\ surface.admission # "Presentable" \/ "Zero" \in Sizes
        /\ surface' = IF surface.admission = "Presentable" THEN SurfaceAfter(FALSE, "Zero")
                      ELSE surface
        /\ redraw' = FALSE
        /\ UNCHANGED <<browser, active, presented, rerenders, rejections, polling, pumping,
                       failure>>

(***************************** user's commands *****************************)

(* handle_input and dispatch_presented_ui_binding: a command redraws, and     *)
(* polls if command_requires_engine_poll.                                     *)
Activate(c) ==
  /\ Handles /\ c \in DOMAIN tabs \ {active}
  /\ active' = c /\ redraw' = TRUE
  /\ UNCHANGED <<browser, presented, surface, rerenders, rejections, polling, pumping, failure>>

UserOpensTab ==
  /\ ~ pumping /\ OpenTab
  /\ active' = next_context /\ redraw' = TRUE
  /\ UNCHANGED <<presented, surface, rerenders, rejections, polling, pumping, failure>>

UserNavigates(c) ==
  /\ ~ pumping /\ SendNavigation(c)
  /\ IF session' # "Running" THEN Finish(session')
     ELSE /\ redraw' = TRUE /\ polling' = TRUE
          /\ UNCHANGED <<active, presented, surface, rerenders, rejections, pumping, failure>>

UserStops(c) ==
  /\ ~ pumping /\ Stop(c)
  /\ redraw' = TRUE
  /\ UNCHANGED <<active, presented, surface, rerenders, rejections, polling, pumping, failure>>

(* The tab right of a closed active one, or the last.                         *)
Successor(c) ==
  LET rest == DOMAIN tabs \ {c}
      right == {t \in rest : t > c}
  IN CASE active # c  -> active
       [] right # {}  -> Min(right)
       [] OTHER       -> Max(rest)

UserClosesTab(c) ==
  /\ ~ pumping /\ CloseTab(c)
  /\ IF session' # "Running" THEN Finish("None")
     ELSE /\ active' = Successor(c)
          /\ rerender_pending' = Without(rerender_pending, c)
          /\ rerender_suppressed' = Without(rerender_suppressed, c)
          /\ redraw' = TRUE /\ polling' = TRUE
          /\ UNCHANGED <<presented, surface, rejections, pumping, failure>>

(* A command that session or engine refuses changes nothing there, and ends   *)
(* the browser.                                                               *)
NavigationRefused(c) ==
  \/ ProjectedLedger > MaxLedger
  \/ c \in closing_contexts \/ Len(commands) >= CommandCapacity
  \/ /\ c \notin DOMAIN contexts
     /\ \/ c <= latest_new_context
        \/ Cardinality(DOMAIN contexts) + Cardinality(closing_contexts) >= MaxContexts

CommandRefused ==
  /\ Handles /\ ensure_accepting
  /\ \/ Cardinality(DOMAIN tabs) + Cardinality(DOMAIN closing) >= MaxTabs
     \/ \E c \in DOMAIN tabs : ~ Closable(c) \/ NavigationRefused(c)
  /\ Fail("Command")

UserExits ==
  /\ ~ pumping
  /\ Shutdown \/ CommandFindsStopped
  /\ Finish(IF session' = "Closed" THEN "None" ELSE session')

(********************************* polling *********************************)

PumpEvent ==
  \/ Poll /\ pumping' = TRUE
  \/ /\ ApplyNavigation \/ ApplyFrame \/ ApplyRerender \/ ApplyRetired
     /\ UNCHANGED pumping

(* pump_engine: events until there is none, max_engine_events_per_pump are    *)
(* applied, or the session fails.                                             *)
PumpStep ==
  \/ /\ PumpEvent
     /\ UNCHANGED <<active, presented, surface, rerenders, redraw, rejections, polling, failure>>
  \/ (PollClosed \/ ApplyEnd) /\ Finish(session')

(* reconcile_rerender_pending, for one entry.                                 *)
Obsolete(c) == c \notin DOMAIN tabs \/ tabs[c].live # rerender_pending[c].navigation
Answered(c) ==
  c \in DOMAIN tabs /\ tabs[c].rerender.operation = rerender_pending[c].operation
Suppresses(c) == tabs[c].rerender.failed \/ tabs[c].frame = NoFrame

Unsettled == {c \in DOMAIN rerender_pending : ~ Obsolete(c) /\ ~ Answered(c)}

Reconciled ==
  LET suppressing == {c \in DOMAIN rerender_pending :
                        ~ Obsolete(c) /\ Answered(c) /\ Suppresses(c)}
      kept == DOMAIN rerender_suppressed \ (DOMAIN rerender_pending \ Unsettled)
  IN [c \in kept \union suppressing |->
        IF c \in suppressing THEN [navigation |-> rerender_pending[c].navigation]
        ELSE rerender_suppressed[c]]

Outstanding_NoClosing ==
  \/ \E c \in DOMAIN tabs : tabs[c].loading # 0
  \/ Unsettled # {}

(* The end of pump_engine: what is still outstanding keeps the poll thread.   *)
Outstanding ==
  \/ \E c \in DOMAIN tabs : tabs[c].loading # 0
  \/ closing # EmptyMap
  \/ Unsettled # {}

(* `more` is more_may_remain: the batch is full, whatever the limit is.       *)
PumpEnds(more) ==
  /\ Idle /\ (pumping \/ polling)
  /\ IF more THEN pumping
     ELSE events = <<>> /\ terminal_event = NoEvent /\ lifecycle.phase # "Stopped"
  /\ rerender_pending' = Restrict(rerender_pending, Unsettled)
  /\ rerender_suppressed' = Reconciled
  /\ polling' = (more \/ Outstanding)
  /\ redraw' = (redraw \/ pumping)
  /\ pumping' = FALSE
  /\ UNCHANGED <<browser, active, presented, surface, rejections, failure>>

-----------------------------------------------------------------------------
(* start_session: the window is ready, its first tab open and unloaded.       *)
ShellInit ==
  /\ SessionInit
  /\ active = 1 /\ presented = Blank /\ surface = ReadySurface
  /\ rerender_pending = EmptyMap /\ rerender_suppressed = EmptyMap
  /\ redraw = TRUE /\ rejections = 0 /\ polling = FALSE /\ pumping = FALSE
  /\ failure = "None"

User ==
  \/ UserOpensTab \/ UserExits \/ CommandRefused
  \/ \E c \in DOMAIN tabs :
       Activate(c) \/ UserNavigates(c) \/ UserStops(c) \/ UserClosesTab(c)

Surface ==
  \/ Suspend
  \/ \E resumed \in BOOLEAN, size \in Sizes : SurfaceTransition(resumed, size)

Background == (SessionWorker \/ ShutdownPort \/ SessionOver) /\ UNCHANGED shell

ShellNext ==
  \/ User \/ Surface \/ Redraw \/ PumpStep
  \/ \E more \in BOOLEAN : PumpEnds(more)
  \/ Background

ShellSpec == ShellInit /\ [][ShellNext]_window
-----------------------------------------------------------------------------
Settled ==
  /\ Handles /\ ~ redraw
  /\ surface.admission = "Presentable" /\ surface.compatible

(* "It never displays one tab's scene under another tab's chrome": a shown    *)
(* scene is the shown tab's. And no page is forgotten: once the window has    *)
(* handled its events, and no rerender is pending, it shows the active tab    *)
(* with the tab's live page, unless a rerender of that page was answered      *)
(* without one (prepare_page_update, reconcile_rerender_pending). A compositor *)
(* that refuses frames can make the shell forget a page: RerendersAreTracked. *)
WindowShowsItsTab ==
  /\ presented.page # NoFrame => presented.page.navigation.context = presented.tab
  /\ Settled /\ ~ IsLabelled(rerender_pending) =>
       /\ presented.tab = active
       /\ \/ presented.page.navigation.generation = tabs[active].live
          \/ IsLabelled(rerender_suppressed)

(* The poll thread is what wakes the shell for the engine's events: it never  *)
(* rests while a tab loads, a closed context is not acknowledged or the shell *)
(* has a rerender on its books (command_requires_engine_poll,                 *)
(* request_rerender_if_possible, the end of pump_engine).                     *)
PollsWhileOutstanding ==
  session = "Running" /\ ~ polling =>
    /\ closing = EmptyMap /\ rerender_pending = EmptyMap
    /\ \A c \in DOMAIN tabs : tabs[c].loading = 0

(* "The shell keeps the old page visible while a same-tab replacement is      *)
(* requested, started, or committed": drawing a tab whose replacement loads   *)
(* does not end the browser (request_rerender_if_possible).                   *)
DrawingSurvivesReplacement == failure # "ContextBusy"

(* "Every admitted presentation rerender is tracked by exact tab, navigation, *)
(* document, and DocumentOperationId", and polled for while it is pending:    *)
(* the shell knows of every rerender that the engine has queued or executes   *)
(* and that nothing has cancelled (request_rerender_if_possible,              *)
(* commit_submitted_frame).                                                   *)
RerendersAreTracked ==
  session = "Running" =>
    \A w \in Range(commands) \union InFlight :
      LET c == w.token.navigation.context
      IN w.kind = "Rerender" /\ w.token \notin cancelled =>
           /\ c \in DOMAIN rerender_pending
           /\ rerender_pending[c].operation = w.token.operation
=============================================================================
