----------------------------- MODULE EventQueue -----------------------------
(***************************************************************************)
(* wild_buzzard_runtime: EventQueue<T>.  Producers push, consumers poll or *)
(* block, and anyone may begin the shutdown.  Every operation is one       *)
(* critical section of the queue's mutex, except that wait_pop gives the   *)
(* mutex up while it sleeps on the condition variable.                     *)
(***************************************************************************)
EXTENDS Naturals, Sequences, FiniteSets

CONSTANTS Consumers,  \* threads that call try_pop and wait_pop
          Capacity,   \* the queue's bound
          MaxEvents   \* bound of the model: events pushed in one behaviour

VARIABLES state,      \* QueueState
          events,     \* the VecDeque; an event is its number of acceptance
          waiting,    \* per consumer: "No", "Asleep" on `ready`, "Awake": about to relock
          received,   \* history: the events handed out, in the order of the pops
          told        \* history: some pop answered Closed

vars == <<state, events, waiting, received, told>>

accepted == Len(received) + Len(events)

Init == /\ state = "Open"
        /\ events = <<>>
        /\ waiting = [c \in Consumers |-> "No"]
        /\ received = <<>>
        /\ told = FALSE

Sleepers == {c \in Consumers : waiting[c] = "Asleep"}
Awake == {c \in Consumers : waiting[c] = "Awake"}

\* ready.notify_one(): the platform picks the sleeper.
NotifyOne(w) ==
    IF Sleepers = {} THEN w' = w
    ELSE \E c \in Sleepers : w' = [w EXCEPT ![c] = "Awake"]

\* ready.notify_all().
NotifyAll(w) == w' = [c \in Consumers |-> IF c \in Sleepers THEN "Awake" ELSE w[c]]

\* try_push; the refused pushes (Closed, Full) change nothing.
TryPush ==
    /\ accepted < MaxEvents
    /\ state = "Open"
    /\ Len(events) # Capacity
    /\ events' = Append(events, accepted + 1)
    /\ NotifyOne(waiting)
    /\ UNCHANGED <<state, received, told>>

\* pop_locked: an event; the last one of a draining queue closes it.
PopItem ==
    /\ events # <<>>
    /\ received' = Append(received, Head(events))
    /\ events' = Tail(events)
    /\ state' = IF Len(events) = 1 /\ state = "Draining" THEN "Closed" ELSE state
    /\ UNCHANGED told

\* Mutant: a queue that is no longer open answers Closed at once.
PopClosed_Early ==
    /\ state # "Open"
    /\ state' = "Closed"
    /\ told' = TRUE
    /\ UNCHANGED <<events, received>>

\* pop_locked: nothing queued and not open.
PopClosed ==
    /\ events = <<>>
    /\ state # "Open"
    /\ state' = "Closed"
    /\ told' = TRUE
    /\ UNCHANGED <<events, received>>

\* try_pop; an Empty answer changes nothing.
TryPop(c) ==
    /\ waiting[c] = "No"
    /\ PopItem \/ PopClosed
    /\ UNCHANGED waiting

\* wait_pop: on entry, or back from the condvar with the mutex: pop or sleep.
WaitPop(c) ==
    /\ waiting[c] \in {"No", "Awake"}
    /\ \/ /\ PopItem \/ PopClosed
          /\ waiting' = [waiting EXCEPT ![c] = "No"]
       \/ /\ events = <<>> /\ state = "Open"
          /\ waiting' = [waiting EXCEPT ![c] = "Asleep"]
          /\ UNCHANGED <<state, events, received, told>>

\* The condition variable may wake a thread nobody notified.
WakeSpuriously(c) ==
    /\ waiting[c] = "Asleep"
    /\ waiting' = [waiting EXCEPT ![c] = "Awake"]
    /\ UNCHANGED <<state, events, received, told>>

\* begin_shutdown; a repeated call only notifies again.
BeginShutdown ==
    /\ state' = IF state = "Open"
                THEN IF events = <<>> THEN "Closed" ELSE "Draining" ELSE state
    /\ NotifyAll(waiting)
    /\ UNCHANGED <<events, received, told>>

Next == \/ TryPush
        \/ \E c \in Consumers : TryPop(c) \/ WaitPop(c) \/ WakeSpuriously(c)
        \/ BeginShutdown

\* A consumer that was woken gets the mutex in the end.
Fairness == \A c \in Consumers : WF_vars(waiting[c] = "Awake" /\ WaitPop(c))

Spec == Init /\ [][Next]_vars
FairSpec == Spec /\ Fairness

-----------------------------------------------------------------------------
\* Every variable has its type and the queue never exceeds its capacity.
TypeOK ==
    /\ state \in {"Open", "Draining", "Closed"}
    /\ events \in Seq(Nat) /\ Len(events) <= Capacity
    /\ waiting \in [Consumers -> {"No", "Asleep", "Awake"}]
    /\ received \in Seq(Nat)
    /\ told \in BOOLEAN

\* "existing events remain readable ... and the state becomes Closed when the last
\* event is removed": a queue that stopped accepting is Closed exactly when empty.
ClosedWhenDrained == state # "Open" => (state = "Closed" <=> events = <<>>)

\* No wakeup is lost (try_push uses notify_one): while a consumer sleeps in
\* wait_pop, every queued event has a woken consumer of its own on its way, and
\* nobody sleeps on a queue that is shutting down.
EventsHaveTakers ==
    Sleepers # {} => state = "Open" /\ Len(events) <= Cardinality(Awake)

\* The promise of the queue: every accepted event leaves once, in order, and
\* Closed is answered only after the last one.
Promise == INSTANCE ClosingQueue WITH
    open <- state = "Open", pending <- events, taken <- received, ended <- told
KeepsPromise == Promise!Spec

\* "Waits for one event or a fully drained shutdown" (wait_pop): a thread inside
\* wait_pop returns once the shutdown begins.
ShutdownReleasesWaiters ==
    \A c \in Consumers : (state # "Open" /\ waiting[c] # "No") ~> (waiting[c] = "No")

\* An event pushed while consumers are inside wait_pop is taken, or all of them
\* return with earlier ones (try_push notifies one sleeper per event).
EventsReachWaiters ==
    (events # <<>> /\ Sleepers \cup Awake # {}) ~> (events = <<>> \/ Sleepers \cup Awake = {})
=============================================================================
