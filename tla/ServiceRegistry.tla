--------------------------- MODULE ServiceRegistry ---------------------------
(***************************************************************************)
(* The owners of arenas and the identities they give out: the service      *)
(* registries (wild_buzzard_services), the surface allocators              *)
(* (wild_buzzard_platform), and an arena used by itself.  An owner is a    *)
(* contract kind and a namespace; identities travel between threads and    *)
(* processes with both, and may be presented to any owner at any time.     *)
(*                                                                         *)
(* Each registry method is one critical section of its RwLock, so one      *)
(* step.  No method runs foreign code under the lock and the lock cannot   *)
(* be poisoned.  `clear` does run foreign code, the drop of every value:   *)
(* it is one step for each value and may be abandoned by a panic.          *)
(***************************************************************************)
EXTENDS Arena, FiniteSets

CONSTANTS Registries,   \* service registries: records of a kind and a namespace
          Allocators,   \* surface allocators: the same, of the kind of surfaces
          Standalone,   \* arenas used directly, with the kind of their handles
          Services,     \* what is registered
          Record,       \* SurfaceRecord, the unit value an allocator stores
          MaxIssued     \* a bound of the model on the identities given out

Seqs == INSTANCE SequencesExt

Owners == Registries \cup Allocators \cup Standalone

\* No two owners share both kind and namespace: kinds are registered without
\* collision (ServiceContractRegistry) and namespaces are assigned by the process.
\* An arena used by itself has no namespace; that its handles are "resolved through
\* the correct arena" is up to its user, who has one arena of each type.
ASSUME OwnersAssumption ==
    /\ None \notin Services \cup {Record}
    /\ \A o, p \in Owners :
         o.kind = p.kind /\ (o.namespace = p.namespace \/ o \in Standalone) => o = p

VARIABLES arenas,     \* owner -> its arena
          issued,     \* every identity given out, with the value it was given out for
          clearing    \* owner -> the handles `clear` has still to remove

registry == <<arenas, issued, clearing>>

RegistryInit ==
    /\ arenas = [o \in Owners |-> New]
    /\ issued = {}
    /\ clearing = [o \in Owners |-> <<>>]

-----------------------------------------------------------------------------
\* The two tests before the arena is asked: the kind when the identity is taken off
\* the wire (try_from_wire), the namespace on every call.  A Handle<T> of an arena
\* has its type and nothing else.
Accepts(o, id) == id.kind = o.kind /\ (o \in Standalone \/ id.namespace = o.namespace)

HandleOf(id) == [slot |-> id.slot, generation |-> id.generation]

\* resolve, is_live and get: the value, or None for every refusal.
Resolve(o, id) == IF Accepts(o, id) THEN Get(arenas[o], HandleOf(id)) ELSE None

\* try_insert by the owner: the identity carries the owner's kind and namespace (of
\* an arena only the kind means anything).
Issue(o, v) ==
    /\ clearing[o] = <<>>
    /\ Cardinality(issued) < MaxIssued
    /\ CanInsert(arenas[o])
    /\ LET h == InsertHandle(arenas[o])
       IN issued' = issued \cup {[kind |-> o.kind, namespace |-> o.namespace, slot |-> h.slot,
                                  generation |-> h.generation, value |-> v]}
    /\ arenas' = [arenas EXCEPT ![o] = TryInsert(@, v)]
    /\ UNCHANGED clearing

Register(o, s) == o \in Registries /\ Issue(o, s)

Allocate(o) == o \in Allocators /\ Issue(o, Record)

Insert(o, s) == o \in Standalone /\ Issue(o, s)

\* remove by the owner: a refused or stale identity changes nothing.
Withdraw(o, id) ==
    /\ clearing[o] = <<>>
    /\ Accepts(o, id)
    /\ arenas' = [arenas EXCEPT ![o] = Remove(@, HandleOf(id))]
    /\ UNCHANGED <<issued, clearing>>

Unregister(o, id) == o \in Registries /\ Withdraw(o, id)

Release(o, id) == o \in Allocators /\ Withdraw(o, id)

RemoveValue(o, id) == o \in Standalone /\ Withdraw(o, id)

(***************************************************************************)
(* clear: the live handles are collected in slot order and removed one by  *)
(* one; the arena is borrowed until the last is gone, or a drop panicked.  *)
(***************************************************************************)
ClearBegins(o) ==
    /\ o \in Standalone
    /\ clearing[o] = <<>>
    /\ clearing' = [clearing EXCEPT ![o] =
                       LET s == Seqs!SetToSortSeq(Live(arenas[o]), <)
                       IN [k \in 1 .. Len(s) |->
                              [slot |-> s[k], generation |-> arenas[o].slots[s[k]].generation]]]
    /\ UNCHANGED <<arenas, issued>>

ClearRemoves(o) ==
    /\ clearing[o] # <<>>
    /\ arenas' = [arenas EXCEPT ![o] = Remove(@, Head(clearing[o]))]
    /\ \/ clearing' = [clearing EXCEPT ![o] = Tail(@)]
       \/ clearing' = [clearing EXCEPT ![o] = <<>>]     \* the drop of the value panics
    /\ UNCHANGED issued

RegistryNext ==
    \/ \E o \in Owners, s \in Services : Register(o, s) \/ Insert(o, s)
    \/ \E o \in Owners : Allocate(o)
    \/ \E o \in Owners, id \in issued : Unregister(o, id) \/ Release(o, id) \/ RemoveValue(o, id)
    \/ \E o \in Owners : ClearBegins(o) \/ ClearRemoves(o)

RegistrySpec == RegistryInit /\ [][RegistryNext]_registry

-----------------------------------------------------------------------------
(***************************************************************************)
(* Properties.                                                             *)
(***************************************************************************)
\* Whatever owner an identity is presented to, and however often its slot has been
\* reused by then, resolve answers with the value that identity was given out for or
\* refuses it; a second identity with the same parts would make this false.
IdentityNamesOneValue ==
    \A id \in issued, o \in Owners : Resolve(o, id) \in {id.value, None}

\* An identity that does not resolve never resolves again: neither reuse of its slot,
\* the last generation, a partial clear nor a wrong owner brings it back.
StaleStaysStale ==
    [][\A id \in issued, o \in Owners : Resolve(o, id) = None => Resolve(o, id)' = None]_registry
=============================================================================
