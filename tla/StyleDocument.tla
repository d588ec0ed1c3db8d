--------------------------- MODULE StyleDocument ---------------------------
(***************************************************************************)
(* StyleDocumentLifecycle (navigation.rs): the ledger of one committed     *)
(* document from which the authority to fetch its style sheets is issued,  *)
(* used by the threads that fetch (style_fetch.rs), by the worker that     *)
(* mutates the document (pipeline.rs) and by the clients of the engine     *)
(* that retire it, which they do with the engine's own mutex held.         *)
(*                                                                         *)
(* The ledger's mutex is held throughout a fetch and a mutation; the other *)
(* critical sections are single actions, enabled while nobody holds it.    *)
(***************************************************************************)
EXTENDS Naturals

CONSTANTS Fetchers, Clients, Worker, Nobody,
          MaxMutations    \* bound of the model: mutations the worker attempts

Classes == {"Product", "NonProduct"}

VARIABLES
    bound,         \* the document is bound to its navigation
    status,        \* Available, then Ready, Active, Consumed (issued); or Retired
    class,         \* the class that was issued, "None" before
    ledger,        \* who holds the ledger's mutex
    engine,        \* who holds the engine's mutex (Shared::state)
    at, wants,     \* of each thread: where it stands, and the class it asks for
    fetched,       \* history: the fetches begun on this document
    mutations

vars == <<bound, status, class, ledger, engine, at, wants, fetched, mutations>>

Unlocked == ledger = Nobody

Init == /\ bound = FALSE /\ status = "Available" /\ class = "None"
        /\ ledger = Nobody /\ engine = Nobody
        /\ at = [t \in Fetchers \cup Clients \cup {Worker} |-> "Idle"]
        /\ wants = [f \in Fetchers |-> "None"]
        /\ fetched = 0 /\ mutations = 0

Moves(t, to) == at' = [at EXCEPT ![t] = to]

-----------------------------------------------------------------------------
\* The navigation is looked at in a critical section of its own, before issue.
Validate(f, c) ==
    /\ at[f] = "Idle" /\ Unlocked
    /\ wants' = [wants EXCEPT ![f] = c]
    /\ Moves(f, IF (c = "Product") = bound THEN "Validated" ELSE "Refused")
    /\ UNCHANGED <<bound, status, class, ledger, engine, fetched, mutations>>

\* issue: the class is compared with the binding again.
Issue(f) ==
    /\ at[f] = "Validated" /\ Unlocked
    /\ IF status = "Available" /\ (wants[f] = "Product") = bound
       THEN Moves(f, "Issued") /\ status' = "Ready" /\ class' = wants[f]
       ELSE Moves(f, "Refused") /\ UNCHANGED <<status, class>>
    /\ UNCHANGED <<bound, ledger, engine, wants, fetched, mutations>>

\* StyleFetchOwner::new, through ensure_current.
NewOwner(f) ==
    /\ at[f] = "Issued" /\ Unlocked
    /\ Moves(f, IF status = "Ready" /\ class = wants[f] THEN "Owner" ELSE "Refused")
    /\ UNCHANGED <<bound, status, class, ledger, engine, wants, fetched, mutations>>

\* fetch_plan: begin_transaction keeps the mutex locked in the guard it returns; an
\* owner may be asked again, and is refused.
BeginFetch(f) ==
    /\ at[f] = "Owner" /\ Unlocked
    /\ IF status = "Ready" /\ class = wants[f]
       THEN /\ Moves(f, "Fetching") /\ status' = "Active" /\ ledger' = f
            /\ fetched' = fetched + 1
       ELSE Moves(f, "Refused") /\ UNCHANGED <<status, ledger, fetched>>
    /\ UNCHANGED <<bound, class, engine, wants, mutations>>

\* All responses are there, one failed, the fetch was cancelled or its deadline came.
EndFetch(f) ==
    /\ at[f] = "Fetching"
    /\ Moves(f, "Owner")
    /\ status' = IF status = "Active" THEN "Consumed" ELSE status
    /\ ledger' = Nobody
    /\ UNCHANGED <<bound, class, engine, wants, fetched, mutations>>

-----------------------------------------------------------------------------
\* bind_navigation, by the worker: a document already issued or retired is refused.
Bind ==
    /\ at[Worker] = "Idle" /\ Unlocked
    /\ status = "Available"
    /\ bound' = TRUE
    /\ UNCHANGED <<status, class, ledger, engine, at, wants, fetched, mutations>>

\* retire_if_succeeded around apply_script_mutations.
BeginMutation ==
    /\ at[Worker] = "Idle" /\ Unlocked /\ mutations < MaxMutations
    /\ mutations' = mutations + 1
    /\ IF status = "Retired" THEN UNCHANGED <<at, ledger>>
       ELSE Moves(Worker, "Applying") /\ ledger' = Worker
    /\ UNCHANGED <<bound, status, class, engine, wants, fetched>>

EndMutation ==
    /\ at[Worker] = "Applying"
    /\ \/ status' = "Retired"
       \/ UNCHANGED status     \* the batch was rejected
    /\ Moves(Worker, "Idle")
    /\ ledger' = Nobody
    /\ UNCHANGED <<bound, class, engine, wants, fetched, mutations>>

\* A client enters the engine ...
Enter(c) ==
    /\ at[c] = "Idle" /\ engine = Nobody
    /\ Moves(c, "Inside") /\ engine' = c
    /\ UNCHANGED <<bound, status, class, ledger, wants, fetched, mutations>>

\* ... and retires the document, waiting for the ledger with the engine locked.
Retire(c) ==
    /\ at[c] = "Inside" /\ Unlocked
    /\ status' = "Retired"
    /\ Moves(c, "Done") /\ engine' = Nobody
    /\ UNCHANGED <<bound, class, ledger, wants, fetched, mutations>>

-----------------------------------------------------------------------------
Fetches(f) == \/ \E c \in Classes : Validate(f, c)
              \/ Issue(f) \/ NewOwner(f) \/ BeginFetch(f) \/ EndFetch(f)
Calls(c) == Enter(c) \/ Retire(c)

Next == \/ \E f \in Fetchers : Fetches(f)
        \/ Bind \/ BeginMutation \/ EndMutation
        \/ \E c \in Clients : Calls(c)

\* A fetch has a deadline (MAX_STYLE_FETCH_DURATION), a mutation is a computation,
\* and a mutex that is free goes to a client that waits for it.
Leaves == \/ \E f \in Fetchers : EndFetch(f)
          \/ EndMutation
          \/ \E c \in Clients : Retire(c)
Fairness == WF_vars(Leaves)

-----------------------------------------------------------------------------
\* "one issuance and one transaction": at most one fetch is ever begun on a document,
\* by one thread, and an issued class stays in agreement with the binding, although
\* validation and issue are two critical sections and the worker may bind between.
OneFetchPerDocument ==
    /\ fetched <= 1
    /\ \A f, g \in Fetchers :
         {at[f], at[g]} \subseteq {"Issued", "Owner", "Fetching"} => f = g
    /\ class # "None" => (class = "Product") = bound

\* Once retire has returned to anybody no style sheet is being fetched for the
\* document, and it is never mutated under a running fetch.
RetiredIsQuiet ==
    /\ status = "Retired" => ledger = Nobody
    /\ \A f \in Fetchers : at[f] = "Fetching" => status = "Active" /\ ledger = f

\* A client that retires a document while its style sheets are being fetched waits
\* with the engine locked, and all other clients behind it; the engine is unlocked
\* again, for neither the fetch nor the mutation asks for the engine.
EngineUnlocks == []<>(engine = Nobody)
=============================================================================
