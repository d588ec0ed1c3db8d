----------------------------- MODULE FrameWaits -----------------------------
(***************************************************************************)
(* WindowRenderNotifier and WindowStageWaiter (window_notifier.rs) under   *)
(* submit_browser_frame and shutdown (webrender_window.rs): the owner      *)
(* thread waits, with a deadline, for what WebRender's threads announce of *)
(* the frame it submitted.  The headless owner waits in the same way.      *)
(*                                                                         *)
(* WebRender is external: it may build and publish a transaction, drop it, *)
(* keep it for any time, or raise an event nobody asked for.               *)
(***************************************************************************)
EXTENDS Naturals, Sequences

CONSTANT MaxFrames    \* bound of the model: frames submitted to one window

VARIABLES
    pc,          \* where the owner stands, see Blocked and Asleep
    observed,    \* frame_ready_before
    got,         \* the frame whose evidence the wait returned
    count,       \* FrameReadyState: how many frames were ready,
    evidence,    \* and which was the last; 0 for none
    external,    \* unexpected_external_event
    telling,     \* external_event has stored the flag and not yet woken anybody
    slots,       \* checkpoint -> the signal in the channel of the current waiter
    renderer,    \* of WebRender: how far each frame is
    closing, down  \* api.shut_down was called; the backend acknowledged it

vars == <<pc, observed, got, count, evidence, external, telling, slots, renderer, closing, down>>
notifier == <<count, evidence, external, telling, slots, renderer, closing, down>>

frame == Len(renderer)
NoSignals == [Built |-> "None", Rendered |-> "None"]

\* The owner blocks in recv_timeout, or in wait_timeout.
Blocked == [Built |-> "BuiltRecv", Rendered |-> "RenderedRecv"]
Passed == [Built |-> "Ready", Rendered |-> "Present"]
Asleep == [ReadyLooked |-> "ReadySleep", DownLooked |-> "DownSleep"]

Init == /\ pc = "Idle" /\ observed = 0 /\ got = 0
        /\ count = 0 /\ evidence = 0
        /\ external = FALSE /\ telling = FALSE
        /\ slots = NoSignals
        /\ renderer = <<>>
        /\ closing = FALSE /\ down = FALSE

-----------------------------------------------------------------------------
\* submit_browser_frame_inner: the count is read, then the two waiters are registered.
Observe ==
    /\ pc = "Idle" /\ frame < MaxFrames
    /\ observed' = count
    /\ pc' = "Submit"
    /\ UNCHANGED <<got, notifier>>

\* The transaction is sent, or refused before it was accepted; a refused one is
\* dropped, and its waiters with it.
Submit ==
    /\ pc = "Submit"
    /\ slots' = NoSignals
    /\ \/ pc' = "Built" /\ renderer' = Append(renderer, "Building")
       \/ pc' = "Idle" /\ renderer' = Append(renderer, "Dropped")
    /\ UNCHANGED <<observed, got, count, evidence, external, telling, closing, down>>

\* wait_until: the load of the sticky flag before the blocking receive.
LoadFlag(s) ==
    /\ pc = s
    /\ pc' = IF external THEN "Lost" ELSE Blocked[s]
    /\ UNCHANGED <<observed, got, notifier>>

\* wait_until: a signal arrived, and the flag is loaded again.
Receive(s) ==
    /\ pc = Blocked[s] /\ slots[s] # "None"
    /\ pc' = IF slots[s] = "Checkpoint" /\ ~external THEN Passed[s] ELSE "Lost"
    /\ UNCHANGED <<observed, got, notifier>>

\* wait_for_frame_ready_after, with the mutex held: the flag, the count, and then
\* validate_frame_ready of the evidence, or to sleep.
LookReady ==
    /\ pc = "Ready"
    /\ \/ external /\ pc' = "Lost" /\ got' = got
       \/ ~external /\ count = observed /\ pc' = "ReadyLooked" /\ got' = got
       \/ /\ ~external /\ count > observed
          /\ got' = evidence
          /\ pc' = IF count = observed + 1 THEN "Render" ELSE "Lost"
    /\ UNCHANGED <<observed, notifier>>

\* complete_browser_frame draws with the renderer on this thread, or fails to.
Render ==
    /\ pc = "Render"
    /\ \/ pc' = "Rendered" /\ renderer' = [renderer EXCEPT ![frame] = "Drawn"]
       \/ pc' = "Lost" /\ UNCHANGED renderer
    /\ UNCHANGED <<observed, got, count, evidence, external, telling, slots, closing, down>>

\* The buffers are swapped.
Present ==
    /\ pc = "Present"
    /\ pc' = "Idle"
    /\ UNCHANGED <<observed, got, notifier>>

\* The deadline passes: the window is lost (latch_terminal, check_accepted_deadline),
\* unless the sleeper finds on waking that its frame came after all.
Expire ==
    /\ pc \in {"BuiltRecv", "RenderedRecv", "ReadySleep", "Present", "DownSleep"}
    /\ pc' = CASE pc = "DownSleep" -> IF down THEN "Down" ELSE "Retained"
               [] pc = "ReadySleep" /\ count > observed -> "Ready"
               [] OTHER -> "Lost"
    /\ UNCHANGED <<observed, got, notifier>>

\* cleanup: the backend is told to stop.
ShutDown ==
    /\ pc \in {"Idle", "Lost"}
    /\ closing' = TRUE
    /\ pc' = "Down"
    /\ UNCHANGED <<observed, got, count, evidence, external, telling, slots, renderer, down>>

\* wait_for_shutdown_until: without the acknowledgement the renderer and the native
\* window are kept.
LookDown ==
    /\ pc = "Down"
    /\ pc' = IF external THEN "Retained" ELSE IF down THEN "Released" ELSE "DownLooked"
    /\ UNCHANGED <<observed, got, notifier>>

\* wait_timeout: the mutex held since the look is released as the owner falls asleep.
FallAsleep ==
    /\ pc \in DOMAIN Asleep
    /\ pc' = Asleep[pc]
    /\ UNCHANGED <<observed, got, notifier>>

-----------------------------------------------------------------------------
\* StageHandler::notify: only the waiters of the current frame are still there, and
\* a channel holds one signal.
Signalled(f, stages, signal) ==
    [s \in DOMAIN slots |-> IF f = frame /\ s \in stages /\ slots[s] = "None" THEN signal
                            ELSE slots[s]]

Advance(f, from, to) ==
    /\ f \in DOMAIN renderer /\ renderer[f] = from
    /\ renderer' = [renderer EXCEPT ![f] = to]

Build(f) ==
    /\ Advance(f, "Building", "Built")
    /\ slots' = Signalled(f, {"Built"}, "Checkpoint")
    /\ UNCHANGED <<pc, observed, got, count, evidence, external, telling, closing, down>>

DropTransaction(f) ==
    /\ Advance(f, "Building", "Dropped") \/ Advance(f, "Built", "Dropped")
    /\ slots' = Signalled(f, {"Built", "Rendered"}, "Dropped")
    /\ UNCHANGED <<pc, observed, got, count, evidence, external, telling, closing, down>>

\* new_frame_ready: count and evidence with the mutex held, then notify_all.
NewFrameReady(f) ==
    /\ pc # "ReadyLooked"
    /\ Advance(f, "Built", "Published")
    /\ count' = count + 1 /\ evidence' = f
    /\ pc' = IF pc = "ReadySleep" THEN "Ready" ELSE pc
    /\ UNCHANGED <<observed, got, external, telling, slots, closing, down>>

FrameRendered(f) ==
    /\ Advance(f, "Drawn", "Done")
    /\ slots' = Signalled(f, {"Rendered"}, "Checkpoint")
    /\ UNCHANGED <<pc, observed, got, count, evidence, external, telling, closing, down>>

\* external_event: the flag, and afterwards the registered channels and the sleepers.
ExternalEvent ==
    /\ ~external
    /\ external' = TRUE /\ telling' = TRUE
    /\ UNCHANGED <<pc, observed, got, count, evidence, slots, renderer, closing, down>>

ExternalTells ==
    /\ telling
    /\ telling' = FALSE
    /\ slots' = Signalled(frame, {"Built", "Rendered"}, "External")
    /\ pc' = CASE pc = "ReadySleep" -> "Ready" [] pc = "DownSleep" -> "Down" [] OTHER -> pc
    /\ UNCHANGED <<observed, got, count, evidence, external, renderer, closing, down>>

\* shut_down, called by the backend thread.
Acknowledge ==
    /\ closing /\ ~down /\ pc # "DownLooked"
    /\ down' = TRUE
    /\ pc' = IF pc = "DownSleep" THEN "Down" ELSE pc
    /\ UNCHANGED <<observed, got, count, evidence, external, telling, slots, renderer, closing>>

-----------------------------------------------------------------------------
Owner == \/ Submit \/ LookReady \/ Render \/ Present \/ LookDown
         \/ FallAsleep \/ Expire
         \/ \E s \in DOMAIN Blocked : LoadFlag(s) \/ Receive(s)

Next == \/ Observe \/ ShutDown \/ Owner
        \/ \E f \in DOMAIN renderer :
              Build(f) \/ DropTransaction(f) \/ NewFrameReady(f) \/ FrameRendered(f)
        \/ ExternalEvent \/ ExternalTells \/ Acknowledge

\* The owner thread is scheduled and its deadlines pass; nothing is asked of WebRender.
Fairness == WF_vars(Owner)

-----------------------------------------------------------------------------
\* A wait that ends well has seen the owner's own frame, never a late announcement
\* of an earlier one: a count is compared with an older count, so this rests on
\* the window being lost as soon as one of its waits fails.
FrameIsItsOwn ==
    pc \in {"Render", "Rendered", "RenderedRecv", "Present"} => got = frame

\* The owner does not sleep over its frame or over the acknowledgement, and does not
\* block in a stage wait after an external event: "an event after this load observes
\* the registered capacity-one sender".
NoAnnouncementMissed ==
    /\ pc = "ReadySleep" => count = observed
    /\ pc = "DownSleep" => ~down
    /\ \A s \in DOMAIN Blocked :
         pc = Blocked[s] /\ external => telling \/ slots[s] # "None"

\* Every wait of the owner ends, whatever WebRender does.
FrameEnds == []<>(pc \in {"Idle", "Lost", "Released", "Retained"})
=============================================================================
