----------------------------- MODULE TaskQueue ------------------------------
(***************************************************************************)
(* wild_buzzard_runtime: ManualTaskQueue.  Any thread may dispatch, run    *)
(* one task, begin the shutdown or drain.  A task runs after the mutex was *)
(* released: it may dispatch, several tasks may run at once, and a task    *)
(* that panics unwinds out of run_one and out of a drain around it.        *)
(* A call made from inside a task (run_one, shutdown_and_drain) is covered *)
(* by a second thread that steps while the first one stands still.         *)
(***************************************************************************)
EXTENDS Naturals, Sequences, FiniteSets

CONSTANTS Drivers,    \* threads
          Capacity,   \* the queue's bound
          MaxId       \* the largest task identity: 2^64 - 1 in the code

NoId == 0  \* Option<NonZeroU64>'s None

VARIABLES state,      \* QueueState
          tasks,      \* the VecDeque of task identities
          next_id,    \* Option<NonZeroU64>, None once every identity was issued
          draining,   \* per driver: whether it is inside shutdown_and_drain
          running,    \* per driver: the task it runs, or NoId
          completed,  \* per driver: the list its drain has built
          taken,      \* history: identities in the order they left the queue
          panicked,   \* history: tasks that unwound
          told,       \* history: some run_one answered Closed
          drained     \* history: the lists shutdown_and_drain returned

vars == <<state, tasks, next_id, draining, running, completed, taken, panicked, told, drained>>

Init == /\ state = "Open"
        /\ tasks = <<>>
        /\ next_id = 1
        /\ draining = [d \in Drivers |-> FALSE]
        /\ running = [d \in Drivers |-> NoId]
        /\ completed = [d \in Drivers |-> <<>>]
        /\ taken = <<>>
        /\ panicked = {}
        /\ told = FALSE
        /\ drained = {}

\* NonZeroU64::new(id.wrapping_add(1)): the identity after the last one is zero, None.
NextId(id) == (id + 1) % (MaxId + 1)

\* dispatch, from any thread or from inside a task; the refusals (Closed, Full,
\* IdExhausted) change nothing.
Dispatch ==
    /\ state = "Open"
    /\ Len(tasks) # Capacity
    /\ next_id # NoId
    /\ tasks' = Append(tasks, next_id)
    /\ next_id' = NextId(next_id)
    /\ UNCHANGED <<state, draining, running, completed, taken, panicked, told, drained>>

ShutdownState ==
    IF state = "Open" THEN IF tasks = <<>> THEN "Closed" ELSE "Draining" ELSE state

BeginShutdown ==
    /\ state' = ShutdownState
    /\ UNCHANGED <<tasks, next_id, draining, running, completed, taken, panicked, told, drained>>

\* shutdown_and_drain: the shutdown begins; each run_one of its loop is a step of its own.
ShutdownAndDrain(d) ==
    /\ ~draining[d] /\ running[d] = NoId
    /\ state' = ShutdownState
    /\ draining' = [draining EXCEPT ![d] = TRUE]
    /\ completed' = [completed EXCEPT ![d] = <<>>]
    /\ UNCHANGED <<tasks, next_id, running, taken, panicked, told, drained>>

\* Mutant: the task is read at the front and removed only when it has run.
RunOne_PeekFront(d) ==
    /\ running[d] = NoId
    /\ tasks # <<>>
    /\ running' = [running EXCEPT ![d] = Head(tasks)]
    /\ taken' = Append(taken, Head(tasks))
    /\ UNCHANGED <<state, tasks, next_id, draining, completed, panicked, told, drained>>

\* run_one: the front task leaves the queue under the mutex and runs outside it.
RunOne(d) ==
    /\ running[d] = NoId
    /\ tasks # <<>>
    /\ running' = [running EXCEPT ![d] = Head(tasks)]
    /\ taken' = Append(taken, Head(tasks))
    /\ tasks' = Tail(tasks)
    /\ state' = IF Len(tasks) = 1 /\ state = "Draining" THEN "Closed" ELSE state
    /\ UNCHANGED <<next_id, draining, completed, panicked, told, drained>>

\* run_one: nothing queued and not open; a drain returns its list.
RunOneClosed(d) ==
    /\ running[d] = NoId
    /\ tasks = <<>>
    /\ state # "Open"
    /\ state' = "Closed"
    /\ told' = TRUE
    /\ draining' = [draining EXCEPT ![d] = FALSE]
    /\ drained' = IF draining[d] THEN drained \cup {completed[d]} ELSE drained
    /\ UNCHANGED <<tasks, next_id, running, completed, taken, panicked>>

\* The task returns: run_one answers Ran(id), which a drain records.
TaskReturns(d) ==
    /\ running[d] # NoId
    /\ running' = [running EXCEPT ![d] = NoId]
    /\ completed' = IF draining[d] THEN [completed EXCEPT ![d] = Append(@, running[d])]
                                   ELSE completed
    /\ UNCHANGED <<state, tasks, next_id, draining, taken, panicked, told, drained>>

\* The task panics: the unwinding leaves run_one and the drain; the mutex is free.
TaskPanics(d) ==
    /\ running[d] # NoId
    /\ panicked' = panicked \cup {running[d]}
    /\ running' = [running EXCEPT ![d] = NoId]
    /\ draining' = [draining EXCEPT ![d] = FALSE]
    /\ UNCHANGED <<state, tasks, next_id, completed, taken, told, drained>>

Drive(d) == RunOne(d) \/ RunOneClosed(d) \/ TaskReturns(d)

Next == \/ Dispatch \/ BeginShutdown
        \/ \E d \in Drivers : ShutdownAndDrain(d) \/ Drive(d) \/ TaskPanics(d)

\* A thread inside the drain keeps running, and a task ends: by returning or by a panic.
Fairness == \A d \in Drivers : WF_vars(draining[d] /\ (Drive(d) \/ TaskPanics(d)))

Spec == Init /\ [][Next]_vars
FairSpec == Spec /\ Fairness

-----------------------------------------------------------------------------
SeqSet(s) == {s[i] : i \in 1..Len(s)}
Running == {running[d] : d \in Drivers} \ {NoId}

\* Every variable has its type and the queue never exceeds its capacity.
TypeOK ==
    /\ state \in {"Open", "Draining", "Closed"}
    /\ tasks \in Seq(1..MaxId) /\ Len(tasks) <= Capacity
    /\ next_id \in 0..MaxId
    /\ draining \in [Drivers -> BOOLEAN]
    /\ running \in [Drivers -> 0..MaxId]
    /\ \A d \in Drivers : completed[d] \in Seq(1..MaxId)
    /\ taken \in Seq(1..MaxId) /\ panicked \subseteq 1..MaxId /\ told \in BOOLEAN

\* "a draining task queue cannot become open and idle": the unreachable!() of
\* shutdown_and_drain is not reached, whatever the other threads do.
DrainNeverIdle == \A d \in Drivers : draining[d] => state # "Open"

\* The identities issued run from 1 without a gap or a repetition up to the last
\* one, also when the identity space ends (dispatch, next_id).
IdentitiesAreFresh ==
    /\ \A i \in 1..Len(taken) : taken[i] = i
    /\ \A i \in 1..Len(tasks) : tasks[i] = Len(taken) + i
    /\ next_id = (Len(taken) + Len(tasks) + 1) % (MaxId + 1)

\* Two threads never run the same task, and a drain's list is in order, without
\* repetition, and names only tasks that ended and did not panic.
TasksRunOnce ==
    /\ \A d, e \in Drivers : d # e /\ running[d] # NoId => running[d] # running[e]
    /\ \A s \in drained \cup {completed[d] : d \in Drivers} :
         /\ \A i, j \in 1..Len(s) : i < j => s[i] < s[j]
         /\ SeqSet(s) \subseteq SeqSet(taken) \ (panicked \cup Running)

\* When shutdown_and_drain returns, every task accepted has left the queue, and the
\* queue stays closed: nothing is accepted or left behind afterwards.
DrainLeavesNothing == drained # {} => tasks = <<>> /\ state = "Closed"

\* The promise of the queue: accepted tasks leave once and in order, and Closed is
\* answered only after the last one.
Promise == INSTANCE ClosingQueue WITH
    open <- state = "Open", pending <- tasks, taken <- taken, ended <- told
KeepsPromise == Promise!Spec

\* shutdown_and_drain ends: it returns its list, or a panicking task unwinds it.
DrainEnds == \A d \in Drivers : draining[d] ~> ~draining[d]
=============================================================================
