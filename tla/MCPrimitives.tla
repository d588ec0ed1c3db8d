---------------------------- MODULE MCPrimitives ----------------------------
(***************************************************************************)
(* The concurrency primitives and the owners of identities, which share no *)
(* state, checked in one run: a behaviour picks one of them (`unit`) and   *)
(* runs it; the others stay in their initial states, where none of their   *)
(* fair actions is enabled.                                                *)
(***************************************************************************)
EXTENDS WakeGate, ServiceRegistry

CONSTANTS Consumers, Drivers, Cancellers, Capacity, MaxCalls, MaxEvents, MaxId,
          MaxFrames, MaxMutations

VARIABLES unit,
          cancelled, holder, caller, waiter,
          lifecycle, call, answer, calls, changes,
          queue, events, waiting, received, ended,
          accepting, tasks, next_id, draining, active, completed, taken, panicked, told, drained,
          presenter, observed, got, count, evidence, external, telling, slots, renderer, closing, down,
          bound, status, class, ledger, engine, at, wants, fetched, mutations

C == INSTANCE Cancellation WITH Waiters <- Wakers, pc <- waiter
L == INSTANCE Lifecycle WITH Callers <- Wakers, state <- lifecycle
E == INSTANCE EventQueue WITH state <- queue, told <- ended
T == INSTANCE TaskQueue WITH state <- accepting, running <- active
F == INSTANCE FrameWaits WITH pc <- presenter
S == INSTANCE StyleDocument
     WITH Fetchers <- Drivers, Clients <- Cancellers, Worker <- "Worker", Nobody <- "Nobody"

wVars == vars
cVars == <<cancelled, holder, caller, waiter>>
lVars == <<lifecycle, call, answer, calls, changes>>
eVars == <<queue, events, waiting, received, ended>>
tVars == <<accepting, tasks, next_id, draining, active, completed, taken, panicked, told, drained>>
fVars == <<presenter, observed, got, count, evidence, external, telling, slots, renderer, closing, down>>
sVars == <<bound, status, class, ledger, engine, at, wants, fetched, mutations>>
allVars == <<unit, wVars, cVars, lVars, eVars, tVars, fVars, sVars, registry>>

AnyInit == /\ unit \in {"WakeGate", "Cancellation", "Lifecycle", "EventQueue", "TaskQueue",
                       "FrameWaits", "StyleDocument", "Registry"}
           /\ Init /\ RegistryInit /\ C!Init /\ L!Init /\ E!Init /\ T!Init /\ F!Init /\ S!Init

AnyNext ==
    /\ \/ /\ unit = "WakeGate" /\ Next
          /\ UNCHANGED <<cVars, lVars, eVars, tVars, fVars, sVars, registry>>
       \/ /\ unit = "Cancellation" /\ C!Next
          /\ UNCHANGED <<wVars, lVars, eVars, tVars, fVars, sVars, registry>>
       \/ /\ unit = "Lifecycle" /\ L!Next
          /\ UNCHANGED <<wVars, cVars, eVars, tVars, fVars, sVars, registry>>
       \/ /\ unit = "EventQueue" /\ E!Next
          /\ UNCHANGED <<wVars, cVars, lVars, tVars, fVars, sVars, registry>>
       \/ /\ unit = "TaskQueue" /\ T!Next
          /\ UNCHANGED <<wVars, cVars, lVars, eVars, fVars, sVars, registry>>
       \/ /\ unit = "FrameWaits" /\ F!Next
          /\ UNCHANGED <<wVars, cVars, lVars, eVars, tVars, sVars, registry>>
       \/ /\ unit = "StyleDocument" /\ S!Next
          /\ UNCHANGED <<wVars, cVars, lVars, eVars, tVars, fVars, registry>>
       \/ /\ unit = "Registry" /\ RegistryNext
          /\ UNCHANGED <<wVars, cVars, lVars, eVars, tVars, fVars, sVars>>
    /\ UNCHANGED unit

AnyFairSpec == /\ AnyInit /\ [][AnyNext]_allVars
               /\ Fairness /\ C!Fairness /\ L!Fairness /\ E!Fairness /\ T!Fairness
               /\ F!Fairness /\ S!Fairness

\* Two registries of one contract in two namespaces, one of another contract in the
\* first namespace, a surface allocator there too, and an arena.
MCRegistries == {[kind |-> "fetch", namespace |-> 1], [kind |-> "fetch", namespace |-> 2],
                 [kind |-> "fonts", namespace |-> 1]}
MCAllocators == {[kind |-> "surface", namespace |-> 1]}
MCStandalone == {[kind |-> "local", namespace |-> 1]}

-----------------------------------------------------------------------------
\* What racing callers are told is one consistent story: exactly one caller of
\* CancellationSource::cancel receives `true`, the transitions that Lifecycle
\* reports as changes are one path from Created to the present state, and no
\* answer of start, begin_shutdown or finish_shutdown becomes untrue later.  A
\* window's frame wait returns its own frame, never a late announcement of an
\* earlier one.  A document's style sheets are fetched at most once, by the class
\* its binding allows, and never while it is mutated or after it was retired.
RacersAgree == /\ C!OneCallerWins /\ L!ChangesFormOnePath /\ L!AnswersStand
               /\ F!FrameIsItsOwn
               /\ S!OneFetchPerDocument /\ S!RetiredIsQuiet

\* No wakeup is lost.  CancellationToken::wait: a sleeper still has notify_all ahead
\* of it, and wait returns only when cancelled.  EventQueue::wait_pop: while a
\* consumer sleeps, every event has a woken taker of its own.  WakeGate: work the
\* handler has not found is still announced.  WindowRenderNotifier: the owner never
\* sleeps over its frame or over the backend's shutdown.
NoWakeupLost ==
    /\ C!NoWaiterForgotten /\ C!ReturnsOnlyCancelled
    /\ E!EventsHaveTakers /\ NoWorkForgotten
    /\ F!NoAnnouncementMissed

\* EventQueue and ManualTaskQueue: accepted items leave once and in order, and
\* Closed is answered only after the last one (both implement ClosingQueue).
KeepsPromise == E!KeepsPromise /\ T!KeepsPromise

\* ManualTaskQueue: no task runs twice, identities have no gap and no repetition up
\* to the last one, and a drain lists what really ended, never meets an open queue
\* and leaves nothing behind, whatever other threads dispatch, run or unwind.
DrainsAreExact ==
    T!DrainNeverIdle /\ T!IdentitiesAreFresh /\ T!TasksRunOnce /\ T!DrainLeavesNothing

\* Every wait ends.  CancellationToken::wait returns after cancel; a call of
\* Lifecycle leaves its compare-exchange loop; wait_pop returns with an event or
\* with the shutdown; shutdown_and_drain ends; announced work is found by the
\* handler unless the gate closes; a window's owner gets out of its waits for the
\* renderer whatever the renderer does; a client that retires a document during the
\* fetch of its style sheets leaves the engine.
WaitsEnd == /\ C!EveryWaiterReturns /\ L!CallsReturn
            /\ E!ShutdownReleasesWaiters /\ E!EventsReachWaiters
            /\ T!DrainEnds /\ WorkIsFound
            /\ F!FrameEnds /\ S!EngineUnlocks
=============================================================================
