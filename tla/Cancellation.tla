---------------------------- MODULE Cancellation ----------------------------
(***************************************************************************)
(* wild_buzzard_runtime: CancellationSource and CancellationToken.         *)
(* One flag shared by the threads that call cancel (Cancellers) and the    *)
(* threads that block in CancellationToken::wait (Waiters).  The flag is   *)
(* an atomic, set without the lock; the lock and the condition variable    *)
(* only order the waiters' last look at the flag against the notification. *)
(***************************************************************************)
CONSTANTS Cancellers, Waiters

VARIABLES cancelled,  \* the AtomicBool
          holder,     \* who holds wait_lock: no thread or one
          caller,     \* where each canceller stands
          pc          \* where each waiter stands; "Asleep" is the condvar's wait set

vars == <<cancelled, holder, caller, pc>>

CancellerSteps == {"Call", "Notify", "True", "False"}
WaiterSteps == {"Enter", "Lock", "Test", "Sleep", "Asleep", "Returned"}

Init == /\ cancelled = FALSE
        /\ holder = {}
        /\ caller = [c \in Cancellers |-> "Call"]
        /\ pc = [w \in Waiters |-> "Enter"]

-----------------------------------------------------------------------------
\* cancel(): the compare_exchange decides the caller that answers true.
CompareExchange(c) ==
    /\ caller[c] = "Call"
    /\ caller' = [caller EXCEPT ![c] = IF cancelled THEN "False" ELSE "Notify"]
    /\ cancelled' = TRUE
    /\ UNCHANGED <<holder, pc>>

Woken(w) == IF pc[w] = "Asleep" THEN "Lock" ELSE pc[w]

\* Mutant: the notification is sent without taking wait_lock.
NotifyAll_Unlocked(c) ==
    /\ caller[c] = "Notify"
    /\ caller' = [caller EXCEPT ![c] = "True"]
    /\ pc' = [w \in Waiters |-> Woken(w)]
    /\ UNCHANGED <<cancelled, holder>>

\* cancel(): the winner takes wait_lock, notifies every sleeper and drops the guard.
NotifyAll(c) ==
    /\ caller[c] = "Notify"
    /\ holder = {}
    /\ caller' = [caller EXCEPT ![c] = "True"]
    /\ pc' = [w \in Waiters |-> Woken(w)]
    /\ UNCHANGED <<cancelled, holder>>

-----------------------------------------------------------------------------
\* wait(): the look at the flag before the lock.
Enter(w) ==
    /\ pc[w] = "Enter"
    /\ pc' = [pc EXCEPT ![w] = IF cancelled THEN "Returned" ELSE "Lock"]
    /\ UNCHANGED <<cancelled, holder, caller>>

\* wait(): wait_lock is taken, on entry or on the way out of the condvar.
Acquire(w) ==
    /\ pc[w] = "Lock"
    /\ holder = {}
    /\ holder' = {w}
    /\ pc' = [pc EXCEPT ![w] = "Test"]
    /\ UNCHANGED <<cancelled, caller>>

\* wait(): the loop condition, read while the lock is held.
Test(w) ==
    /\ pc[w] = "Test"
    /\ IF cancelled
       THEN /\ holder' = {}
            /\ pc' = [pc EXCEPT ![w] = "Returned"]
       ELSE /\ holder' = holder
            /\ pc' = [pc EXCEPT ![w] = "Sleep"]
    /\ UNCHANGED <<cancelled, caller>>

\* wait(): Condvar::wait releases the lock and sleeps in one step.
Sleep(w) ==
    /\ pc[w] = "Sleep"
    /\ holder' = {}
    /\ pc' = [pc EXCEPT ![w] = "Asleep"]
    /\ UNCHANGED <<cancelled, caller>>

\* The condition variable may wake a thread nobody notified.
WakeSpuriously(w) ==
    /\ pc[w] = "Asleep"
    /\ pc' = [pc EXCEPT ![w] = "Lock"]
    /\ UNCHANGED <<cancelled, holder, caller>>

-----------------------------------------------------------------------------
Cancel(c) == CompareExchange(c) \/ NotifyAll(c)
Wait(w) == Acquire(w) \/ Test(w) \/ Sleep(w)

Next == \/ \E c \in Cancellers : Cancel(c)
        \/ \E w \in Waiters : Enter(w) \/ Wait(w) \/ WakeSpuriously(w)

\* A caller inside cancel or wait keeps running: WF per thread.  Nothing makes
\* a thread call wait or cancel, and nothing makes a spurious wakeup happen.
Fairness == /\ \A c \in Cancellers : WF_vars(NotifyAll(c))
            /\ \A w \in Waiters : WF_vars(Wait(w))

Spec == Init /\ [][Next]_vars
FairSpec == Spec /\ Fairness

-----------------------------------------------------------------------------
\* Every variable has its type, and the lock is held by a thread that is
\* between its acquisition and its release in CancellationToken::wait.
TypeOK ==
    /\ cancelled \in BOOLEAN
    /\ holder \subseteq Waiters
    /\ caller \in [Cancellers -> CancellerSteps]
    /\ pc \in [Waiters -> WaiterSteps]
    /\ \A w \in Waiters : holder = {w} <=> pc[w] \in {"Test", "Sleep"}

Winners == {c \in Cancellers : caller[c] \in {"Notify", "True"}}

\* "Exactly one racing caller receives `true`" (CancellationSource::cancel):
\* the flag is set exactly when one caller, and no second one, won the exchange.
OneCallerWins ==
    /\ \A c, d \in Winners : c = d
    /\ cancelled <=> Winners # {}

\* No wakeup is lost: while the flag is set, a thread that is about to sleep or
\* sleeps in wait() still has the winning caller's notify_all ahead of it.
NoWaiterForgotten ==
    cancelled => \A w \in Waiters : pc[w] \in {"Sleep", "Asleep"}
                     => \E c \in Cancellers : caller[c] = "Notify"

\* wait() returns only once cancellation was requested, spurious wakeups included.
ReturnsOnlyCancelled == (\E w \in Waiters : pc[w] = "Returned") => cancelled

\* Once cancellation is requested every thread inside wait() returns.
EveryWaiterReturns ==
    \A w \in Waiters : (cancelled /\ pc[w] # "Enter") ~> (pc[w] = "Returned")
=============================================================================
