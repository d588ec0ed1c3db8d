------------------------ MODULE Cancellation_proofs ------------------------
(***************************************************************************)
(* The safety properties of Cancellation for any number of threads.        *)
(***************************************************************************)
EXTENDS Cancellation, TLAPS

\* The inductive invariant: the types, the single winner, and that a thread
\* between its last look at the flag and its wakeup is owed a notification.
IInv == TypeOK /\ OneCallerWins /\ NoWaiterForgotten /\ ReturnsOnlyCancelled

\* The initial state satisfies the invariant: nobody has called cancel or wait.
LEMMA InitOK == Init => IInv
  BY DEF Init, IInv, TypeOK, OneCallerWins, NoWaiterForgotten,
     ReturnsOnlyCancelled, Winners, CancellerSteps, WaiterSteps

\* Every step of cancel and of wait keeps the invariant.
LEMMA StepOK == IInv /\ [Next]_vars => IInv'
<1> USE DEF CancellerSteps, WaiterSteps
<1> SUFFICES ASSUME IInv, [Next]_vars PROVE IInv'
  OBVIOUS
<1>1. ASSUME NEW c \in Cancellers, CompareExchange(c) PROVE IInv'
  <2>1. TypeOK'
    BY <1>1 DEF CompareExchange, IInv, TypeOK
  <2>2. OneCallerWins'
    BY <1>1 DEF CompareExchange, IInv, TypeOK, OneCallerWins, Winners
  <2>3. NoWaiterForgotten'
    BY <1>1 DEF CompareExchange, IInv, TypeOK, NoWaiterForgotten
  <2>4. ReturnsOnlyCancelled'
    BY <1>1 DEF CompareExchange, ReturnsOnlyCancelled
  <2> QED BY <2>1, <2>2, <2>3, <2>4 DEF IInv
<1>2. ASSUME NEW c \in Cancellers, NotifyAll(c) PROVE IInv'
  <2>1. TypeOK'
    BY <1>2 DEF NotifyAll, Woken, IInv, TypeOK
  <2>2. OneCallerWins'
    BY <1>2 DEF NotifyAll, Woken, IInv, TypeOK, OneCallerWins, Winners
  \* The lock is free, so no waiter stands between Test and Sleep; the sleepers leave.
  <2>3. NoWaiterForgotten'
    BY <1>2 DEF NotifyAll, Woken, IInv, TypeOK, NoWaiterForgotten
  <2>4. ReturnsOnlyCancelled'
    BY <1>2 DEF NotifyAll, Woken, IInv, TypeOK, ReturnsOnlyCancelled
  <2> QED BY <2>1, <2>2, <2>3, <2>4 DEF IInv
<1>3. ASSUME NEW w \in Waiters,
             Enter(w) \/ Acquire(w) \/ Test(w) \/ Sleep(w) \/ WakeSpuriously(w)
      PROVE  IInv'
  <2> USE DEF Enter, Acquire, Test, Sleep, WakeSpuriously
  <2>1. TypeOK'
    BY <1>3 DEF IInv, TypeOK
  <2>2. OneCallerWins'
    BY <1>3 DEF IInv, TypeOK, OneCallerWins, Winners
  <2>3. NoWaiterForgotten'
    BY <1>3 DEF IInv, TypeOK, NoWaiterForgotten
  <2>4. ReturnsOnlyCancelled'
    BY <1>3 DEF IInv, TypeOK, ReturnsOnlyCancelled
  <2> QED BY <2>1, <2>2, <2>3, <2>4 DEF IInv
<1>4. CASE UNCHANGED vars
  BY <1>4 DEF vars, IInv, TypeOK, OneCallerWins, NoWaiterForgotten, ReturnsOnlyCancelled, Winners
<1> QED BY <1>1, <1>2, <1>3, <1>4 DEF Next, Cancel, Wait

\* For any number of threads: cancel answers true to exactly one caller
\* (CancellationSource::cancel), whatever the races on the flag.
THEOREM CancelledOnce == Spec => []OneCallerWins
<1>1. IInv => OneCallerWins
  BY DEF IInv
<1> QED BY InitOK, StepOK, <1>1, PTL DEF Spec

\* For any number of threads: no thread in CancellationToken::wait sleeps through
\* the notification of a cancellation, and none returns without one.
THEOREM WakeupsAreKept == Spec => [](NoWaiterForgotten /\ ReturnsOnlyCancelled)
<1>1. IInv => NoWaiterForgotten /\ ReturnsOnlyCancelled
  BY DEF IInv
<1> QED BY InitOK, StepOK, <1>1, PTL DEF Spec
=============================================================================
