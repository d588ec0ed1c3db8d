------------------------- MODULE NavigationProtocol -------------------------
(* What the navigation engine promises the owner of its event stream, with no *)
(* queues, threads, leases or budgets: the life of every navigation, of every *)
(* document operation and of every top-level context, as accepted commands    *)
(* and published events show it. EngineProtocol shows that the engine         *)
(* implements it.                                                             *)
EXTENDS Integers

CONSTANTS Contexts, Generations, Operations   \* three sets of identities, all naturals

VARIABLES
  navigations,   \* the status of every navigation
  operations,    \* the status and the navigation of every document operation
  pages,         \* Open, Closing or Closed, for every context
  ended          \* ShutdownComplete is the last thing that happens

protocol == <<navigations, operations, pages, ended>>

Navigations == [context : Contexts, generation : Generations]
Unborn == [context |-> 0, generation |-> 0]
Pending == {"Accepted", "Started"}

Siblings(n) == {m \in Navigations : m.context = n.context}
IsNewest(n) == \A m \in Siblings(n) : m.generation > n.generation => navigations[m] = "None"

Init ==
  /\ navigations = [n \in Navigations |-> "None"]
  /\ operations = [k \in Operations |-> [status |-> "None", navigation |-> Unborn]]
  /\ pages = [c \in Contexts |-> "Open"]
  /\ ended = FALSE

(* A context that gets a newer navigation, or closes, answers none of the     *)
(* operations it still had.                                                   *)
Superseded(c) ==
  [k \in Operations |->
     IF operations[k].status = "Accepted" /\ operations[k].navigation.context = c
     THEN [operations[k] EXCEPT !.status = "Superseded"]
     ELSE operations[k]]

Accept(n) ==
  /\ ~ ended /\ pages[n.context] = "Open"
  /\ \A m \in Siblings(n) : navigations[m] # "None" => m.generation < n.generation
  /\ navigations' = [navigations EXCEPT ![n] = "Accepted"]
  /\ operations' = Superseded(n.context)
  /\ UNCHANGED <<pages, ended>>

(* One navigation at a time, and only the newest of an open context, starts.  *)
Start(n) ==
  /\ ~ ended /\ pages[n.context] = "Open"
  /\ navigations[n] = "Accepted" /\ IsNewest(n)
  /\ \A m \in Navigations : navigations[m] # "Started"
  /\ navigations' = [navigations EXCEPT ![n] = "Started"]
  /\ UNCHANGED <<operations, pages, ended>>

(* A superseded, closed or cancelled navigation can only be cancelled.        *)
Cancelled(n) ==
  /\ ~ ended /\ pages[n.context] # "Closed"
  /\ navigations[n] \in Pending
  /\ navigations' = [navigations EXCEPT ![n] = "Cancelled"]
  /\ UNCHANGED <<operations, pages, ended>>

(* Presented: NavigationCommitted and FrameReady, indivisibly.                *)
Conclude(n) ==
  /\ ~ ended /\ pages[n.context] = "Open"
  /\ navigations[n] = "Started" /\ IsNewest(n)
  /\ \E status \in {"Presented", "Failed"} :
       navigations' = [navigations EXCEPT ![n] = status]
  /\ UNCHANGED <<operations, pages, ended>>

(* One operation at a time per context, on its last presented navigation.     *)
Operate(k, n) ==
  /\ ~ ended /\ pages[n.context] = "Open"
  /\ operations[k].status = "None"
  /\ \A j \in Operations : j < k => operations[j].status # "None"
  /\ navigations[n] = "Presented"
  /\ \A m \in Siblings(n) :
       m.generation > n.generation => navigations[m] \in {"None", "Cancelled", "Failed"}
  /\ \A j \in Operations :
       operations[j].navigation.context = n.context => operations[j].status # "Accepted"
  /\ operations' = [operations EXCEPT ![k] = [status |-> "Accepted", navigation |-> n]]
  /\ UNCHANGED <<navigations, pages, ended>>

Answer(k) ==
  /\ ~ ended
  /\ operations[k].status = "Accepted"
  /\ operations' = [operations EXCEPT ![k].status = "Answered"]
  /\ UNCHANGED <<navigations, pages, ended>>

Close(c) ==
  /\ ~ ended /\ pages[c] = "Open"
  /\ \E n \in Navigations : n.context = c /\ navigations[n] # "None"
  /\ pages' = [pages EXCEPT ![c] = "Closing"]
  /\ operations' = Superseded(c)
  /\ UNCHANGED <<navigations, ended>>

(* ContextClosed: nothing of the context is running any more.                 *)
Closed(c) ==
  /\ ~ ended /\ pages[c] = "Closing"
  /\ \A n \in Navigations : n.context = c => navigations[n] # "Started"
  /\ pages' = [pages EXCEPT ![c] = "Closed"]
  /\ UNCHANGED <<navigations, operations, ended>>

End ==
  /\ ~ ended
  /\ ended' = TRUE
  /\ UNCHANGED <<navigations, operations, pages>>

Next ==
  \/ \E n \in Navigations : Accept(n) \/ Start(n) \/ Cancelled(n) \/ Conclude(n)
  \/ \E k \in Operations : Answer(k) \/ \E n \in Navigations : Operate(k, n)
  \/ \E c \in Contexts : Close(c) \/ Closed(c)
  \/ End

(* A pending navigation moves on, an accepted operation is answered, and a    *)
(* closing context closes, unless the engine ends first.                      *)
Advance(n) ==
  /\ navigations[n] \in Pending /\ pages[n.context] # "Closed"
  /\ Start(n) \/ Cancelled(n) \/ Conclude(n) \/ End
Settle(k) == operations[k].status = "Accepted" /\ (Answer(k) \/ End)
Finish(c) == pages[c] = "Closing" /\ (Closed(c) \/ End)

Safety == Init /\ [][Next]_protocol
Spec ==
  /\ Safety
  /\ \A n \in Navigations : WF_protocol(Advance(n))
  /\ \A k \in Operations : WF_protocol(Settle(k))
  /\ \A c \in Contexts : WF_protocol(Finish(c))
=============================================================================
