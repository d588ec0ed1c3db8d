-------------------------------- MODULE Arena --------------------------------
(***************************************************************************)
(* The generational arena of wild_buzzard_handles: slots that are reused   *)
(* under a new generation, a stack of the reusable slots, and the number   *)
(* of live values.  Every operator takes an arena and returns what the     *)
(* method of that name leaves or answers; `get`, `get_mut` and `contains`  *)
(* are one operator.  Generations and slots are u32 in the code; their     *)
(* limits are constants here.                                              *)
(***************************************************************************)
EXTENDS Integers, Sequences

CONSTANTS MaxSlots,       \* MAX_SLOT_COUNT
          MaxGeneration,  \* u32::MAX
          None            \* the value of a slot that holds none

ASSUME LimitsAssumption ==
    /\ MaxSlots \in Nat
    /\ MaxGeneration \in Nat \ {0}

New == [count |-> 0, slots |-> [i \in 0 .. -1 |-> None], free |-> <<>>, len |-> 0]

(***************************************************************************)
(* Insertion: the slot freed last, or a new one while an index is left.    *)
(***************************************************************************)
CanInsert(a) == a.free # <<>> \/ a.count < MaxSlots

\* The handle try_insert returns.
InsertHandle(a) ==
    IF a.free # <<>>
    THEN LET s == a.free[Len(a.free)] IN [slot |-> s, generation |-> a.slots[s].generation]
    ELSE [slot |-> a.count, generation |-> 1]

\* A reused slot keeps the generation its last removal gave it.
TryInsert(a, v) ==
    IF a.free # <<>>
    THEN [count |-> a.count,
          slots |-> [a.slots EXCEPT ![a.free[Len(a.free)]].value = v],
          free  |-> SubSeq(a.free, 1, Len(a.free) - 1),
          len   |-> a.len + 1]
    ELSE [count |-> a.count + 1,
          slots |-> [i \in 0 .. a.count |->
                        IF i = a.count THEN [generation |-> 1, value |-> v, retired |-> FALSE]
                                       ELSE a.slots[i]],
          free  |-> a.free,
          len   |-> a.len + 1]

(***************************************************************************)
(* Lookup and removal.                                                     *)
(***************************************************************************)
Get(a, h) ==
    IF h.slot \in 0 .. a.count - 1 /\ a.slots[h.slot].generation = h.generation
    THEN a.slots[h.slot].value
    ELSE None

Contains(a, h) == Get(a, h) # None

\* A mutant: the removed slot is offered again under the generation it had.
Remove_KeepsGeneration(a, h) ==
    IF ~Contains(a, h) THEN a
    ELSE [a EXCEPT !.slots[h.slot].value = None,
                   !.free = Append(@, h.slot),
                   !.len = @ - 1]

\* A slot at the last generation is retired; any other is offered under the next one.
Remove(a, h) ==
    IF ~Contains(a, h) THEN a
    ELSE LET last == h.generation = MaxGeneration
         IN [count |-> a.count,
             slots |-> [a.slots EXCEPT ![h.slot] =
                           [generation |-> IF last THEN h.generation ELSE h.generation + 1,
                            value |-> None,
                            retired |-> last]],
             free  |-> IF last THEN a.free ELSE Append(a.free, h.slot),
             len   |-> a.len - 1]

\* What `clear` collects first: the slots that hold a value.
Live(a) == {i \in 0 .. a.count - 1 : a.slots[i].value # None}
=============================================================================
