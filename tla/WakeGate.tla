------------------------------ MODULE WakeGate ------------------------------
(***************************************************************************)
(* wild_buzzard_linux: LinuxWakeHandle::wake and the owner's user_event,   *)
(* coupled by the WakeGate.  A waker thread leaves work where the owner's  *)
(* handler will look for it and calls wake(); the gate lets one wake event *)
(* at a time into winit's queue.                                           *)
(***************************************************************************)
EXTENDS Naturals

CONSTANTS Wakers,   \* threads that hold a LinuxWakeHandle
          MaxWork   \* bound of the model: calls of wake made by one thread

VARIABLES gate,     \* the AtomicU8: "Idle", "Pending", "Closed"
          proxy,    \* WakeEvents in winit's queue
          alive,    \* whether the event loop still exists: send_event succeeds
          running,  \* the owner's ShellLifecycle is Running
          owner,    \* the owner thread: "Loop", or "Handle" between acknowledge and delivery
          pc,       \* per waker: where it stands in wake()
          posted,   \* per waker: work left for the handler
          seen      \* per waker: work the handler has found

vars == <<gate, proxy, alive, running, owner, pc, posted, seen>>

Init == /\ gate = "Idle"
        /\ proxy = 0
        /\ alive = TRUE
        /\ running = TRUE
        /\ owner = "Loop"
        /\ pc = [w \in Wakers |-> "Idle"]
        /\ posted = [w \in Wakers |-> 0]
        /\ seen = [w \in Wakers |-> 0]

-----------------------------------------------------------------------------
\* A thread leaves work and calls wake().
Post(w) ==
    /\ pc[w] = "Idle"
    /\ posted[w] < MaxWork
    /\ posted' = [posted EXCEPT ![w] = @ + 1]
    /\ pc' = [pc EXCEPT ![w] = "Load"]
    /\ UNCHANGED <<gate, proxy, alive, running, owner, seen>>

\* admit: the load; AlreadyPending and Closed return at once.
Load(w) ==
    /\ pc[w] = "Load"
    /\ pc' = [pc EXCEPT ![w] = IF gate = "Idle" THEN "Exchange" ELSE "Idle"]
    /\ UNCHANGED <<gate, proxy, alive, running, owner, posted, seen>>

\* Mutant: the pending mark is stored whatever the gate has become.
Exchange_Store(w) ==
    /\ pc[w] = "Exchange"
    /\ gate' = "Pending"
    /\ pc' = [pc EXCEPT ![w] = "Send"]
    /\ UNCHANGED <<proxy, alive, running, owner, posted, seen>>

\* admit: the compare_exchange, or another round of the loop.
Exchange(w) ==
    /\ pc[w] = "Exchange"
    /\ IF gate = "Idle"
       THEN gate' = "Pending" /\ pc' = [pc EXCEPT ![w] = "Send"]
       ELSE gate' = gate /\ pc' = [pc EXCEPT ![w] = "Load"]
    /\ UNCHANGED <<proxy, alive, running, owner, posted, seen>>

\* wake: the admitted thread sends the event, or closes the gate of a dead loop.
Send(w) ==
    /\ pc[w] = "Send"
    /\ pc' = [pc EXCEPT ![w] = "Idle"]
    /\ IF alive THEN proxy' = proxy + 1 /\ UNCHANGED gate
                ELSE gate' = "Closed" /\ UNCHANGED proxy
    /\ UNCHANGED <<alive, running, owner, posted, seen>>

-----------------------------------------------------------------------------
\* user_event: acknowledge the receipt, then (if the shell runs) enqueue and drain.
UserEvent ==
    /\ owner = "Loop" /\ proxy > 0 /\ alive
    /\ proxy' = proxy - 1
    /\ gate' = IF gate = "Pending" THEN "Idle" ELSE gate
    /\ owner' = IF gate = "Pending" /\ running THEN "Handle" ELSE "Loop"
    /\ UNCHANGED <<alive, running, pc, posted, seen>>

\* drain: the handler is called with WakeRequested and finds the work left so far.
Handle ==
    /\ owner = "Handle"
    /\ seen' = posted
    /\ owner' = "Loop"
    /\ UNCHANGED <<gate, proxy, alive, running, pc, posted>>

\* begin_stop, from a handler's request or a fault: the gate is closed at once.
BeginStop ==
    /\ running
    /\ running' = FALSE
    /\ gate' = "Closed"
    /\ owner' = "Loop"
    /\ UNCHANGED <<proxy, alive, pc, posted, seen>>

\* exiting and the drop of the owner: close again, then the loop is gone.
Exit ==
    /\ owner = "Loop" /\ alive
    /\ running' = FALSE
    /\ gate' = "Closed"
    /\ alive' = FALSE
    /\ UNCHANGED <<proxy, owner, pc, posted, seen>>

-----------------------------------------------------------------------------
Wake(w) == Load(w) \/ Exchange(w) \/ Send(w)

Next == \/ \E w \in Wakers : Post(w) \/ Wake(w)
        \/ UserEvent \/ Handle \/ BeginStop \/ Exit

\* A thread inside wake() keeps running; the loop serves its queue and finishes a callback.
Fairness == /\ \A w \in Wakers : WF_vars(Wake(w))
            /\ WF_vars(UserEvent) /\ WF_vars(Handle)

Spec == Init /\ [][Next]_vars
FairSpec == Spec /\ Fairness

-----------------------------------------------------------------------------
\* Every variable has its type.
TypeOK ==
    /\ gate \in {"Idle", "Pending", "Closed"}
    /\ proxy \in Nat
    /\ alive \in BOOLEAN /\ running \in BOOLEAN
    /\ owner \in {"Loop", "Handle"}
    /\ pc \in [Wakers -> {"Idle", "Load", "Exchange", "Send"}]
    /\ posted \in [Wakers -> Nat] /\ seen \in [Wakers -> Nat]

\* "Queues at most one outstanding wake" (LinuxWakeHandle::wake): a thread about to
\* send is the only one, finds winit's queue empty, and a pending gate has a sender
\* or an event that will take the mark back.
OneWakeOutstanding ==
    /\ proxy <= 1
    /\ \A v, w \in Wakers : pc[v] = "Send" /\ pc[w] = "Send" => v = w
    /\ (\E w \in Wakers : pc[w] = "Send") => proxy = 0
    /\ gate = "Pending" => proxy = 1 \/ \E w \in Wakers : pc[w] = "Send"
    /\ gate = "Idle" => proxy = 0 /\ \A w \in Wakers : pc[w] # "Send"

\* No wake is lost: while the gate is open, work the handler has not found is still
\* being announced by its thread, announced by an event on its way, or about to be
\* found by the callback in progress (acknowledge comes before the handler).
NoWorkForgotten ==
    gate # "Closed" => \A w \in Wakers : seen[w] < posted[w] =>
        \/ pc[w] # "Idle" \/ gate = "Pending" \/ owner = "Handle"

\* "A closed gate never returns to idle": no step of any thread reopens it.
ClosedForGood == [][gate = "Closed" => gate' = "Closed"]_vars

\* Work announced with wake() is found by the handler, unless the gate closes.
WorkIsFound ==
    \A w \in Wakers : \A n \in 1..MaxWork :
        (posted[w] = n) ~> (seen[w] >= n \/ gate = "Closed")
=============================================================================
