----------------------------- MODULE Lifecycle ------------------------------
(***************************************************************************)
(* wild_buzzard_runtime: Lifecycle.  start, begin_shutdown and             *)
(* finish_shutdown race on one atomic: each call loads the state, answers  *)
(* at once when there is nothing to change, and otherwise tries to         *)
(* exchange it, looking again when another thread was faster.              *)
(***************************************************************************)
EXTENDS Naturals, Sequences

CONSTANTS Callers,  \* threads
          MaxCalls  \* bound of the model: calls made by one thread

Operations == {"start", "begin_shutdown", "finish_shutdown"}
States == <<"Created", "Running", "Stopping", "Stopped">>
Rank(s) == CHOOSE i \in 1..4 : States[i] = s

\* The states an operation moves on from, and where to.
Sources == [start |-> {"Created"},
            begin_shutdown |-> {"Created", "Running"},
            finish_shutdown |-> {"Stopping"}]
Target == [start |-> "Running", begin_shutdown |-> "Stopping", finish_shutdown |-> "Stopped"]

\* The states in which it answers an error: CannotStart, ShutdownNotStarted.
Errors == [start |-> {"Stopping", "Stopped"},
           begin_shutdown |-> {},
           finish_shutdown |-> {"Created", "Running"}]

VARIABLES state,    \* the AtomicU8
          call,     \* per thread: the operation it is in and the state it loaded
          answer,   \* per thread: its last answer
          calls,    \* per thread: calls made
          changes   \* history: the outcomes with `changed`, in the order of the exchanges

vars == <<state, call, answer, calls, changes>>

Idle == [op |-> "None", seen |-> "Unread"]
NoAnswer == [op |-> "None", ok |-> TRUE, current |-> "Created"]

Init == /\ state = "Created"
        /\ call = [t \in Callers |-> Idle]
        /\ answer = [t \in Callers |-> NoAnswer]
        /\ calls = [t \in Callers |-> 0]
        /\ changes = <<>>

Call(t, op) ==
    /\ call[t] = Idle
    /\ calls[t] < MaxCalls
    /\ calls' = [calls EXCEPT ![t] = @ + 1]
    /\ call' = [call EXCEPT ![t] = [op |-> op, seen |-> "Unread"]]
    /\ UNCHANGED <<state, answer, changes>>

Answer(t, isOk, current) ==
    /\ answer' = [answer EXCEPT ![t] = [op |-> call[t].op, ok |-> isOk, current |-> current]]
    /\ call' = [call EXCEPT ![t] = Idle]

\* The load at the head of the loop: keep the state for the exchange, or answer.
Load(t) ==
    /\ call[t] # Idle
    /\ call[t].seen = "Unread"
    /\ IF state \in Sources[call[t].op]
       THEN call' = [call EXCEPT ![t].seen = state] /\ UNCHANGED answer
       ELSE Answer(t, state \notin Errors[call[t].op], state)
    /\ UNCHANGED <<state, calls, changes>>

\* Mutant: a plain store of the target instead of the exchange.
Exchange_Store(t) ==
    /\ call[t].seen # "Unread"
    /\ state' = Target[call[t].op]
    /\ changes' = Append(changes, <<call[t].seen, state'>>)
    /\ Answer(t, TRUE, state')
    /\ UNCHANGED calls

\* Mutant: the failed exchange is retried without a new load.
Exchange_NoReload(t) ==
    /\ call[t].seen # "Unread"
    /\ state = call[t].seen
    /\ state' = Target[call[t].op]
    /\ changes' = Append(changes, <<call[t].seen, state'>>)
    /\ Answer(t, TRUE, state')
    /\ UNCHANGED calls

\* The compare_exchange: the outcome, or back to the load.
Exchange(t) ==
    /\ call[t].seen # "Unread"
    /\ IF state = call[t].seen
       THEN /\ state' = Target[call[t].op]
            /\ changes' = Append(changes, <<call[t].seen, state'>>)
            /\ Answer(t, TRUE, state')
       ELSE /\ call' = [call EXCEPT ![t].seen = "Unread"]
            /\ UNCHANGED <<state, answer, changes>>
    /\ UNCHANGED calls

Next == \E t \in Callers :
            \/ \E op \in Operations : Call(t, op)
            \/ Load(t)
            \/ Exchange(t)

\* A thread inside a call keeps running.
Fairness == \A t \in Callers : WF_vars(Load(t) \/ Exchange(t))

Spec == Init /\ [][Next]_vars
FairSpec == Spec /\ Fairness

-----------------------------------------------------------------------------
\* Every variable has its type.
TypeOK ==
    /\ state \in {States[i] : i \in 1..4}
    /\ \A t \in Callers :
         /\ call[t].op \in Operations \cup {"None"}
         /\ call[t].seen # "Unread" => call[t].seen \in Sources[call[t].op]
         /\ calls[t] \in 0..MaxCalls

\* The outcomes answered with `changed` are one path from Created to the present
\* state: no transition is reported twice, out of order, or by two callers, and
\* shutdown is irreversible (start, begin_shutdown, finish_shutdown).
ChangesFormOnePath ==
    LET path == <<"Created">> \o [i \in 1..Len(changes) |-> changes[i][2]]
    IN  /\ \A i \in 1..Len(changes) :
             changes[i][1] = path[i] /\ Rank(path[i]) < Rank(path[i + 1])
        /\ state = path[Len(path)]

\* What a thread was answered never becomes untrue: a component reported Running,
\* Stopping or Stopped has reached that state, and a start refused for shutdown
\* stays refused.
AnswersStand ==
    \A t \in Callers :
      /\ Rank(answer[t].current) <= Rank(state)
      /\ answer[t].op = "start" /\ ~answer[t].ok => state \in {"Stopping", "Stopped"}
      /\ answer[t].op = "begin_shutdown" => state \in {"Stopping", "Stopped"}
      /\ answer[t].op = "finish_shutdown" /\ answer[t].ok => state = "Stopped"

\* The retry loops end: every call answers.
CallsReturn == \A t \in Callers : call[t] # Idle ~> call[t] = Idle
=============================================================================
