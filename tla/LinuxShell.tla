----------------------------- MODULE LinuxShell -----------------------------
(***************************************************************************)
(* ShellApplication, the winit event handler of the Linux window shell     *)
(* (shell.rs), with its event queue (queue.rs), its lifecycle              *)
(* (lifecycle.rs) and the browser presenter it owns (WindowPresenter).     *)
(*                                                                         *)
(* winit calls back on one thread.  A callback acts on the presenter, puts *)
(* events in the queue and drains it: each event is given to the handler   *)
(* with a control object, and when the handler returns what it asked for   *)
(* is done.  `pc` says where the owner thread is.  The handler is any      *)
(* program: it may make any control call, in any order, in every callback. *)
(* Other threads reach the shell only through WakeGate.                    *)
(***************************************************************************)
EXTENDS WindowPresenter, Sequences

CONSTANT Capacities    \* The configured values of event_capacity.

VARIABLES shell,       \* The fields of ShellApplication, see NewShell.
          presenter,   \* The attached window, or None.
          pc,          \* "Loop", "Drain", "Handling", "Create" or "Exited".
          callback,    \* The event being handled and what the handler has asked for.
          creating,    \* resumed() has a window to create once the queue is drained.
          told,        \* The size and scale the handler was last told, or None.
          farewell     \* What the handler has received since the shell began to stop.

vars == <<shell, presenter, pc, callback, creating, told, farewell>>

\* `redraw` is winit's pending redraw request (requests coalesce there); `owed` is
\* history: a redraw was asked for and the handler has not received one since.
NewShell(capacity) ==
    [capacity |-> capacity, state |-> "Running", reason |-> None, queue |-> <<>>,
     activity |-> "AwaitingFirstResume", presenter_suspended |-> FALSE,
     desired |-> None, requested |-> None, deferred |-> FALSE,
     redraw |-> FALSE, owed |-> FALSE]

Running(s) == s.state = "Running"

-----------------------------------------------------------------------------
\* The queue.  Only the tail may be replaced by an event of the same key.

Event(kind, value) == [kind |-> kind, value |-> value]

Coalescing == {"Resized", "ScaleFactorChanged", "RedrawRequested", "Move"}

Coalesces(queue, event) ==
    queue # <<>> /\ event.kind \in Coalescing /\ queue[Len(queue)].kind = event.kind

Pushed(queue, event) ==
    IF Coalesces(queue, event) THEN [queue EXCEPT ![Len(queue)] = event] ELSE Append(queue, event)

BeginStop_LastReason(s, reason) ==
    [s EXCEPT !.state = "Stopping", !.reason = reason, !.queue = <<>>,
              !.requested = None, !.deferred = FALSE]

BeginStop(s, reason) ==
    IF Running(s)
    THEN [s EXCEPT !.state = "Stopping", !.reason = reason, !.queue = <<>>,
                   !.requested = None, !.deferred = FALSE]
    ELSE s

Enqueue(s, event) ==
    IF ~Running(s) THEN s
    ELSE IF Len(s.queue) = s.capacity /\ ~Coalesces(s.queue, event)
         THEN BeginStop(s, "EventQueueSaturated")
         ELSE [s EXCEPT !.queue = Pushed(@, event)]

RequestRedraw(s) == [s EXCEPT !.redraw = TRUE, !.owed = TRUE]

Failed == "BrowserPresentationFailed"

-----------------------------------------------------------------------------
\* update_size_inner, as the pairs of shell and presenter it may end with.

Pair(s, p) == [shell |-> s, presenter |-> p]

Release_Clears(s) == [s EXCEPT !.requested = None, !.deferred = FALSE]

\* NativeResizeAwait::release, and the redraw that was held back.
Release(s) ==
    LET released == [s EXCEPT !.requested = None, !.deferred = FALSE]
    IN IF s.deferred /\ Running(s) THEN RequestRedraw(released) ELSE released

\* The same size again: it ends a pending request for it if EGL confirms the extent.
SameSize(s, p, size) ==
    IF s.requested = None THEN {Pair(s, p)}
    ELSE {Pair(CASE r.error = "Terminal" -> BeginStop(s, Failed)
                 [] r.error = "Confirmed" /\ s.requested = size -> Release(s)
                 [] OTHER -> s,
               r.presenter) : r \in ConfirmNativeExtent(p, size)}

\* The new descriptor is published, the handler is to be told, and a pending size
\* request is over.  A forced resize to the same size publishes nothing.
Publish(s, p, size) ==
    Pair(IF s.desired.size = size THEN s
         ELSE LET s1 == Enqueue([s EXCEPT !.desired.size = size], Event("Resized", size))
              IN IF Running(s1) THEN Release(s1) ELSE s1, p)

AfterResize_StaysActive(s, p, size) ==
    {Publish([s EXCEPT !.presenter_suspended = (size = 0)], p, size)}

\* NativeSurfaceLifecycle::resized: a resize makes the presenter active, so an
\* explicitly suspended shell suspends it again.
AfterResize(s, p, size) ==
    LET s1 == [s EXCEPT !.presenter_suspended = (size = 0)]
    IN IF s.activity = "ExplicitlySuspended" /\ size # 0
       THEN {IF r.error # None THEN Pair(BeginStop(s1, Failed), r.presenter)
             ELSE Publish([s1 EXCEPT !.presenter_suspended = TRUE], r.presenter, size) :
                r \in Suspend(p)}
       ELSE {Publish(s1, p, size)}

UpdateSize(s, p, size, forced) ==
    IF s.desired.size = size /\ ~forced THEN SameSize(s, p, size)
    ELSE UNION {IF r.error # None THEN {Pair(BeginStop(s, Failed), r.presenter)}
                ELSE AfterResize(s, r.presenter, size) : r \in Resize(p, size)}

-----------------------------------------------------------------------------
\* The end of a callback's own work: the queue is drained next.
ThenDrain(pairs) ==
    /\ \E r \in pairs : shell' = r.shell /\ presenter' = r.presenter
    /\ pc' = "Drain"
    /\ UNCHANGED <<callback, creating, told, farewell>>

InLoop == pc = "Loop" /\ Running(shell)

Init == /\ shell \in {NewShell(capacity) : capacity \in Capacities}
        /\ presenter = None
        /\ pc = "Loop"
        /\ callback = None
        /\ creating = FALSE
        /\ told = None
        /\ farewell = <<>>

\* resumed: repeated calls are suppressed; a suspended presenter with an area resumes.
Resumed ==
    LET active == [shell EXCEPT !.activity = "Active"]
        drawable == shell.desired # None /\ shell.desired.size # 0
    IN /\ InLoop
       /\ shell.activity # "Active"
       /\ IF shell.activity = "ExplicitlySuspended" /\ shell.presenter_suspended /\ drawable
          THEN \E r \in Resume(presenter) :
                 /\ presenter' = r.presenter
                 /\ shell' = IF r.error # None THEN BeginStop(active, Failed)
                             ELSE Enqueue([active EXCEPT !.presenter_suspended = FALSE],
                                          Event("Resumed", None))
          ELSE shell' = Enqueue(active, Event("Resumed", None)) /\ UNCHANGED presenter
       /\ creating' = (presenter = None)
       /\ pc' = "Drain"
       /\ UNCHANGED <<callback, told, farewell>>

\* suspended: a pending size request and the redraw it holds back are dropped; the
\* presenter is suspended unless it already is.
Suspended ==
    LET idle == [shell EXCEPT !.requested = None, !.deferred = FALSE,
                              !.owed = shell.redraw, !.activity = "ExplicitlySuspended"]
    IN /\ InLoop
       /\ shell.activity # "ExplicitlySuspended"
       /\ ThenDrain(IF ~shell.presenter_suspended /\ presenter # None
                    THEN {Pair(IF r.error # None THEN BeginStop(idle, Failed)
                               ELSE Enqueue([idle EXCEPT !.presenter_suspended = TRUE],
                                            Event("Suspended", None)),
                               r.presenter) : r \in Suspend(presenter)}
                    ELSE {Pair(Enqueue(idle, Event("Suspended", None)), presenter)})

\* suspended again: the transition is suppressed after the request is dropped.
SuspendedAgain ==
    /\ InLoop
    /\ shell.activity = "ExplicitlySuspended"
    /\ ThenDrain({Pair([shell EXCEPT !.requested = None, !.deferred = FALSE, !.owed = shell.redraw],
                       presenter)})

\* user_event, with the wake gate acknowledged (WakeGate).
UserEvent == InLoop /\ ThenDrain({Pair(Enqueue(shell, Event("WakeRequested", None)), presenter)})

WindowResized ==
    \E size \in Sizes : InLoop /\ presenter # None /\ ThenDrain(UpdateSize(shell, presenter, size, FALSE))

WindowScaleChanged ==
    \E scale \in Scales :
        /\ InLoop
        /\ presenter # None
        /\ scale # shell.desired.scale
        /\ ThenDrain({Pair(IF r.error # None THEN BeginStop(shell, Failed)
                           ELSE Enqueue([shell EXCEPT !.desired.scale = scale],
                                        Event("ScaleFactorChanged", scale)),
                           r.presenter) : r \in UpdateScale(presenter, scale)})

\* RedrawRequested answers a request, or winit's own wish to repaint; it is held back
\* while a size request is pending.
WindowRedraw ==
    LET s == [shell EXCEPT !.redraw = FALSE, !.owed = TRUE]
    IN /\ InLoop
       /\ presenter # None
       /\ ThenDrain({Pair(IF shell.requested # None THEN [s EXCEPT !.deferred = TRUE]
                          ELSE Enqueue(s, Event("RedrawRequested", None)), presenter)})

WindowClose ==
    InLoop /\ presenter # None /\ ThenDrain({Pair(Enqueue(shell, Event("CloseRequested", None)), presenter)})

WindowDestroyed ==
    InLoop /\ presenter # None /\ ThenDrain({Pair(BeginStop(shell, "WindowDestroyed"), presenter)})

\* Input: one event, or Enter and Move when the cursor comes in; or the normalizer
\* gives up (identities used up, bad geometry, too many touches).
WindowInput ==
    /\ InLoop
    /\ presenter # None
    /\ ThenDrain({Pair(Enqueue(Enqueue(shell, Event("Enter", None)), Event("Move", None)), presenter),
                  Pair(Enqueue(shell, Event("Move", None)), presenter),
                  Pair(BeginStop(shell, "Input"), presenter)})

-----------------------------------------------------------------------------
\* drain: the next event goes to the handler.
Learned(event) ==
    CASE event.kind = "Ready"              -> event.value
      [] event.kind = "Resized"            -> [told EXCEPT !.size = event.value]
      [] event.kind = "ScaleFactorChanged" -> [told EXCEPT !.scale = event.value]
      [] OTHER                             -> told

Deliver ==
    LET event == Head(shell.queue)
    IN /\ pc = "Drain"
       /\ Running(shell)
       /\ shell.queue # <<>>
       /\ callback' = [event |-> event, stop |-> None, cancelled |-> FALSE,
                       size |-> shell.requested,
                       ready |-> IF shell.requested = None THEN "NotRequested" ELSE "Await"]
       /\ told' = Learned(event)
       /\ shell' = [shell EXCEPT !.queue = Tail(@),
                                 !.owed = @ /\ event.kind # "RedrawRequested"]
       /\ pc' = "Handling"
       /\ UNCHANGED <<presenter, creating, farewell>>

\* The queue is drained; resumed() goes on to create the window if there is none.
DrainEnds ==
    /\ pc = "Drain"
    /\ Running(shell) => shell.queue = <<>>
    /\ pc' = IF creating /\ Running(shell) THEN "Create" ELSE "Loop"
    /\ creating' = FALSE
    /\ UNCHANGED <<shell, presenter, callback, told, farewell>>

\* create_window: the window opens with some size and scale, or startup fails.
CreateWindow ==
    /\ pc = "Create"
    /\ \/ \E size \in Sizes, scale \in Scales, backend \in {"Wayland", "X11"} :
            LET desired == [size |-> size, scale |-> scale]
                s == Enqueue([shell EXCEPT !.desired = desired, !.presenter_suspended = (size = 0)],
                             Event("Ready", desired))
            IN /\ presenter' = NewPresenter(size, scale, backend)
               /\ shell' = IF Running(s) THEN RequestRedraw(s) ELSE s
       \/ shell' = BeginStop(shell, "WindowCreationFailed") /\ UNCHANGED presenter
    /\ pc' = "Drain"
    /\ UNCHANGED <<callback, creating, told, farewell>>

-----------------------------------------------------------------------------
\* The handler's control calls.

Handling == pc = "Handling" /\ UNCHANGED <<pc, creating, told, farewell>>

\* latch_browser_presentation_stop: the first terminal error asks for the stop.
Latched(error) ==
    IF error = "Terminal" /\ callback.stop = None THEN [callback EXCEPT !.stop = Failed] ELSE callback

ControlRedraw ==
    Handling /\ presenter # None /\ shell' = RequestRedraw(shell) /\ UNCHANGED <<presenter, callback>>

\* request_inner_size, once at a time: the reservation is made first, then the native
\* window is asked, then EGL is asked for its extent.
ControlInnerSize ==
    \E size \in Sizes :
        /\ Handling
        /\ presenter # None
        /\ callback.ready = "NotRequested"
        /\ \E r \in ConfirmNativeExtent(presenter, size) :
             /\ presenter' = r.presenter
             /\ callback' = [Latched(r.error) EXCEPT
                               !.size = size,
                               !.ready = IF r.error \in {"Confirmed", "ReadyForCheckedResize"}
                                         THEN r.error ELSE "Await"]
        /\ UNCHANGED shell

ControlSubmitFrame ==
    \E update \in Updates, replaced \in BOOLEAN :
        /\ Handling
        /\ presenter # None
        /\ \E r \in SubmitBrowserFrame(presenter, update, replaced) :
             presenter' = r.presenter /\ callback' = Latched(r.error)
        /\ UNCHANGED shell

ControlHitTest ==
    /\ Handling
    /\ presenter # None
    /\ callback' = Latched(HitTest(presenter, Snapshot(presenter)))
    /\ UNCHANGED <<shell, presenter>>

ControlCancelClose ==
    /\ Handling
    /\ callback.event.kind = "CloseRequested"
    /\ callback' = [callback EXCEPT !.cancelled = TRUE]
    /\ UNCHANGED <<shell, presenter>>

ControlExit ==
    /\ Handling
    /\ callback.stop = None
    /\ callback' = [callback EXCEPT !.stop = "Requested"]
    /\ UNCHANGED <<shell, presenter>>

\* The handler returns: a stop it asked for, then an uncancelled close, then its size
\* request, which is kept for a later Resized or done now.
HandlerReturns ==
    /\ pc = "Handling"
    /\ \E r \in IF callback.stop # None THEN {Pair(BeginStop(shell, callback.stop), presenter)}
                ELSE IF callback.event.kind = "CloseRequested" /\ ~callback.cancelled
                     THEN {Pair(BeginStop(shell, "CloseRequested"), presenter)}
                ELSE CASE callback.ready = "NotRequested" -> {Pair(shell, presenter)}
                       [] callback.ready = "Await" ->
                            {Pair([shell EXCEPT !.requested = callback.size], presenter)}
                       [] OTHER -> UpdateSize(shell, presenter, callback.size,
                                              callback.ready = "ReadyForCheckedResize") :
         shell' = r.shell /\ presenter' = r.presenter
    /\ callback' = None
    /\ pc' = "Drain"
    /\ UNCHANGED <<creating, told, farewell>>

Exiting_RetainedIsSilent ==
    /\ pc = "Loop"
    /\ shell' = [BeginStop(shell, "BackendExited") EXCEPT !.state = "Stopped", !.desired = None]
    /\ presenter' = None
    /\ \E released \in BOOLEAN :
         farewell' = IF presenter = None \/ released THEN farewell \o <<"Stopped">> ELSE farewell
    /\ pc' = "Exited"
    /\ UNCHANGED <<callback, creating, told>>

\* exiting: winit leaves its loop, asked by the shell or of itself.  The window is
\* torn down; Destroyed is delivered if its wrappers were released, then Stopped.
Exiting ==
    /\ pc = "Loop"
    /\ shell' = [BeginStop(shell, "BackendExited") EXCEPT !.state = "Stopped", !.desired = None]
    /\ presenter' = None
    /\ \E destroyed \in IF presenter = None THEN {<<>>}
                        ELSE {IF r.released THEN <<"Destroyed">> ELSE <<>> : r \in Shutdown(presenter)} :
         farewell' = farewell \o destroyed \o <<"Stopped">>
    /\ pc' = "Exited"
    /\ UNCHANGED <<callback, creating, told>>

Next == \/ Resumed \/ Suspended \/ SuspendedAgain \/ UserEvent
        \/ WindowResized \/ WindowScaleChanged \/ WindowRedraw \/ WindowClose \/ WindowDestroyed
        \/ WindowInput \/ Deliver \/ DrainEnds \/ CreateWindow
        \/ ControlRedraw \/ ControlInnerSize \/ ControlSubmitFrame \/ ControlHitTest
        \/ ControlCancelClose \/ ControlExit \/ HandlerReturns \/ Exiting

Spec == Init /\ [][Next]_vars

\* The owner thread runs, the handler returns from every callback, and winit leaves
\* its loop after exit().
OwnerStep == Deliver \/ DrainEnds \/ CreateWindow \/ HandlerReturns

LeaveLoop == ~Running(shell) /\ Exiting

FairSpec == Spec /\ WF_vars(OwnerStep) /\ WF_vars(LeaveLoop)

-----------------------------------------------------------------------------
AtRest == pc = "Loop" /\ Running(shell) /\ presenter # None

\* Whenever the shell waits for winit, the three who hold a view of the surface agree.
\* The size and scale the handler was last told (Ready, Resized, ScaleFactorChanged,
\* some of them coalesced in the queue) are the ones of desired_surface and the ones
\* the presenter draws at.  And the presenter, which NativeSurfaceLifecycle follows
\* without asking, is active exactly when winit's surface is active and has an area,
\* and presenter_suspended says which, so suspend and resume are called only where
\* its contract allows them.
SurfaceViewsAgree ==
    AtRest => /\ told = shell.desired
              /\ told = [size |-> presenter.window.size, scale |-> presenter.window.scale]
              /\ presenter.window.state = IF shell.activity = "Active" /\ shell.desired.size # 0
                                          THEN "Active" ELSE "Suspended"
              /\ shell.presenter_suspended <=> presenter.window.state = "Suspended"

\* A redraw that was asked for (request_redraw, or winit's own) and that the handler
\* has not received is still coming: winit holds the request, or the event is queued,
\* or NativeResizeAwait holds it back and will reissue it.  Suspension drops it.
RedrawStillComing ==
    Running(shell) /\ shell.owed =>
        \/ shell.redraw
        \/ shell.deferred /\ shell.requested # None
        \/ \E i \in DOMAIN shell.queue : shell.queue[i].kind = "RedrawRequested"

\* begin_stop, exiting: the first reason to stop is the one reported; from then on no
\* ordinary event reaches the handler; the last events are Destroyed, if a window had
\* been announced with Ready and was released, and then Stopped, once.
StopsOnce ==
    [][~Running(shell) => /\ shell'.reason = shell.reason
                          /\ told' = told
                          /\ callback' = None
                          /\ farewell' # farewell =>
                               /\ farewell = <<>>
                               /\ farewell' \in {<<"Stopped">>, <<"Destroyed", "Stopped">>}
                               /\ Len(farewell') = 2 => told # None]_vars

\* Whatever the handler and winit do after a stop was asked for, Stopped is delivered.
StopIsDelivered == ~Running(shell) ~> farewell # <<>> /\ farewell[Len(farewell)] = "Stopped"
=============================================================================
