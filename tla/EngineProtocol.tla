--------------------------- MODULE EngineProtocol ---------------------------
(* The navigation engine with an observer of its accepted commands and        *)
(* published events, shown to implement NavigationProtocol. The observer only *)
(* watches: it restricts no step of the engine.                               *)
EXTENDS NavigationEngine

VARIABLES navigations, operations, pages, ended

observed == <<navigations, operations, pages, ended>>

Operation == 1 .. MaxOperation - 1

Protocol == INSTANCE NavigationProtocol
              WITH Contexts <- ContextId, Generations <- Generation, Operations <- Operation

(* The events that this step publishes.                                       *)
Published == SubSeq(events', Len(events) + 1, Len(events'))
PublishedOf(token) == {Published[i].kind : i \in {j \in DOMAIN Published : Published[j].token = token}}

NavigationStatus(n) ==
  LET kinds == PublishedOf(Token(n, 0))
  IN CASE "FrameReady" \in kinds          -> "Presented"
       [] "NavigationFailed" \in kinds    -> "Failed"
       [] "NavigationCancelled" \in kinds -> "Cancelled"
       [] "NavigationStarted" \in kinds   -> "Started"
       [] navigations[n] = "None" /\ Token(n, 0) \in Actives(contexts') -> "Accepted"
       [] OTHER                           -> navigations[n]

OperationStatus(k) ==
  LET admitted == {t \in Actives(contexts') : t.operation = k}
      token == Token(operations[k].navigation, k)
  IN CASE operations[k].status = "None" /\ admitted # {} ->
            [status |-> "Accepted", navigation |-> (CHOOSE t \in admitted : TRUE).navigation]
       [] operations[k].status = "Accepted" /\ PublishedOf(token) # {} ->
            [operations[k] EXCEPT !.status = "Answered"]
       [] /\ operations[k].status = "Accepted" /\ PublishedOf(token) = {}
          /\ admitted = {} /\ lifecycle'.phase = "Running" ->
            [operations[k] EXCEPT !.status = "Superseded"]
       [] OTHER -> operations[k]

PageStatus(c) ==
  CASE \E n \in NavigationId : n.context = c /\ "ContextClosed" \in PublishedOf(Token(n, 0)) -> "Closed"
    [] pages[c] = "Open" /\ c \in closing_contexts' -> "Closing"
    [] OTHER -> pages[c]

Observe ==
  /\ navigations' = [n \in NavigationId |-> NavigationStatus(n)]
  /\ operations' = [k \in Operation |-> OperationStatus(k)]
  /\ pages' = [c \in ContextId |-> PageStatus(c)]
  /\ ended' = (lifecycle'.phase = "Stopped")

ObservedInit == EngineInit /\ Protocol!Init
ObservedNext == Next /\ Observe

ObservedSafety == ObservedInit /\ [][ObservedNext]_<<vars, observed>>
ObservedSpec ==
  /\ ObservedSafety
  /\ WF_<<vars, observed>>(WorkerStep /\ Observe)
  /\ WF_<<vars, observed>>(Join /\ UNCHANGED worker /\ Observe)
  /\ WF_<<vars, observed>>((Spawn \/ SpawnFails) /\ Observe)

(* The engine implements the protocol: no stale or cancelled navigation is    *)
(* presented, one operation per context, no answer to a superseded operation, *)
(* none lost while the engine runs, and silence after ContextClosed.          *)
ImplementsProtocol == Protocol!Safety

(* The engine implements the protocol with its progress: every accepted       *)
(* navigation and operation is concluded and every close completes, unless    *)
(* the engine ends. Only the scheduling of the worker and of a join is        *)
(* assumed.                                                                   *)
ImplementsProgress == Protocol!Spec
=============================================================================
