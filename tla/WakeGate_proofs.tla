--------------------------- MODULE WakeGate_proofs ---------------------------
(***************************************************************************)
(* The safety of the wake gate for every set of waker threads and any      *)
(* number of wakes.                                                        *)
(***************************************************************************)
EXTENDS WakeGate, TLAPS

\* The inductive invariant: a shell that stopped running has closed the gate, so an
\* acknowledged wake always reaches the handler.
IInv == /\ TypeOK
        /\ OneWakeOutstanding
        /\ NoWorkForgotten
        /\ ~running => gate = "Closed"

\* Nothing is posted, pending or closed when the owner is built.
LEMMA InitOK == Init => IInv
BY DEF Init, IInv, TypeOK, OneWakeOutstanding, NoWorkForgotten

\* Every step of a waker and every callback of the owner keeps the invariant.
LEMMA StepOK == IInv /\ [Next]_vars => IInv'
<1> SUFFICES ASSUME IInv, [Next]_vars PROVE IInv'
    OBVIOUS
<1> USE DEF IInv
<1>1. ASSUME NEW w \in Wakers, Post(w) PROVE IInv'
    <2>1. TypeOK'
        BY <1>1 DEF Post, TypeOK
    <2>2. OneWakeOutstanding' /\ (~running => gate = "Closed")'
        BY <1>1 DEF Post, TypeOK, OneWakeOutstanding
    <2>3. NoWorkForgotten'
        BY <1>1 DEF Post, TypeOK, NoWorkForgotten
    <2> QED BY <2>1, <2>2, <2>3
<1>2. ASSUME NEW w \in Wakers, Load(w) PROVE IInv'
    <2>1. TypeOK'
        BY <1>2 DEF Load, TypeOK
    <2>2. OneWakeOutstanding' /\ (~running => gate = "Closed")'
        BY <1>2 DEF Load, TypeOK, OneWakeOutstanding
    <2>3. NoWorkForgotten'
        BY <1>2 DEF Load, TypeOK, NoWorkForgotten
    <2> QED BY <2>1, <2>2, <2>3
<1>3. ASSUME NEW w \in Wakers, Exchange(w) PROVE IInv'
    <2>1. TypeOK'
        BY <1>3 DEF Exchange, TypeOK
    <2>2. OneWakeOutstanding' /\ (~running => gate = "Closed")'
        BY <1>3 DEF Exchange, TypeOK, OneWakeOutstanding
    <2>3. NoWorkForgotten'
        BY <1>3 DEF Exchange, TypeOK, NoWorkForgotten
    <2> QED BY <2>1, <2>2, <2>3
<1>4. ASSUME NEW w \in Wakers, Send(w) PROVE IInv'
    <2>1. TypeOK'
        BY <1>4 DEF Send, TypeOK
    <2>2. OneWakeOutstanding' /\ (~running => gate = "Closed")'
        BY <1>4 DEF Send, TypeOK, OneWakeOutstanding
    <2>3. NoWorkForgotten'
        BY <1>4 DEF Send, TypeOK, OneWakeOutstanding, NoWorkForgotten
    <2> QED BY <2>1, <2>2, <2>3
<1>5. ASSUME UserEvent PROVE IInv'
    <2>1. TypeOK'
        BY <1>5 DEF UserEvent, TypeOK
    <2>2. OneWakeOutstanding' /\ (~running => gate = "Closed")'
        BY <1>5 DEF UserEvent, TypeOK, OneWakeOutstanding
    <2>3. NoWorkForgotten'
        BY <1>5 DEF UserEvent, TypeOK, NoWorkForgotten
    <2> QED BY <2>1, <2>2, <2>3
<1>6. ASSUME Handle PROVE IInv'
    BY <1>6 DEF Handle, TypeOK, OneWakeOutstanding, NoWorkForgotten
<1>7. ASSUME BeginStop \/ Exit PROVE IInv'
    BY <1>7 DEF BeginStop, Exit, TypeOK, OneWakeOutstanding, NoWorkForgotten
<1>8. ASSUME UNCHANGED vars PROVE IInv'
    BY <1>8 DEF vars, TypeOK, OneWakeOutstanding, NoWorkForgotten
<1> QED BY <1>1, <1>2, <1>3, <1>4, <1>5, <1>6, <1>7, <1>8 DEF Next, Wake

\* wake(): however many threads call it, one wake event at most is outstanding, and
\* a pending gate always has the event or the thread that will take its mark back.
THEOREM OneWake == Spec => []OneWakeOutstanding
<1>1. IInv => OneWakeOutstanding
    BY DEF IInv
<1> QED BY InitOK, StepOK, <1>1, PTL DEF Spec

\* user_event acknowledges before it delivers, so that work posted during the
\* delivery is announced again: no work is left without an announcement.
THEOREM WorkIsAnnounced == Spec => []NoWorkForgotten
<1>1. IInv => NoWorkForgotten
    BY DEF IInv
<1> QED BY InitOK, StepOK, <1>1, PTL DEF Spec

\* Neither admit nor acknowledge, both compare-and-exchange, reopens a closed gate.
THEOREM GateClosesOnce == Spec => ClosedForGood
<1>1. IInv /\ [Next]_vars => [gate = "Closed" => gate' = "Closed"]_vars
    BY DEF Next, Wake, Post, Load, Exchange, Send, UserEvent, Handle, BeginStop, Exit, vars
<1> QED BY InitOK, StepOK, <1>1, PTL DEF Spec, ClosedForGood
=============================================================================
