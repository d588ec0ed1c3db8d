------------------------ MODULE ServiceRegistry_proofs ------------------------
(***************************************************************************)
(* What identities promise, for any owners, services and limits: the       *)
(* arena's methods keep its invariant, and a generation is never given out *)
(* twice for a slot.                                                       *)
(***************************************************************************)
EXTENDS ServiceRegistry, FiniteSetTheorems, SequenceTheorems, TLAPS

Values == Services \cup {Record}

Slot == [generation : 1 .. MaxGeneration, value : Values \cup {None}, retired : BOOLEAN]

\* The invariant of one arena: the free stack holds distinct slots that are vacant
\* and not retired, and only a slot at the last generation is retired.
PartsOK(count, slots, free) ==
    /\ count \in Nat
    /\ slots \in [0 .. count - 1 -> Slot]
    /\ free \in Seq(0 .. count - 1)
    /\ \A k \in 1 .. Len(free) : slots[free[k]].value = None /\ ~slots[free[k]].retired
    /\ \A k, l \in 1 .. Len(free) : free[k] = free[l] => k = l
    /\ \A i \in 0 .. count - 1 : slots[i].retired =>
          slots[i].generation = MaxGeneration /\ slots[i].value = None

ArenaOK(a) == PartsOK(a.count, a.slots, a.free)

\* What an arena knows of an identity it gave out for v: the slot exists, has not gone
\* back to an earlier generation, and while it is at this one it holds v or is retired.
Remembers(a, s, g, v) ==
    /\ s \in 0 .. a.count - 1
    /\ g <= a.slots[s].generation
    /\ g = a.slots[s].generation =>
          a.slots[s].value = v \/ (a.slots[s].value = None /\ a.slots[s].retired)

ArenasOK == arenas = [o \in Owners |-> arenas[o]] /\ \A o \in Owners : ArenaOK(arenas[o])

IssuedOK ==
    \A id \in issued :
        /\ id.value \in Values
        /\ id.slot \in Nat
        /\ id.generation \in Nat
        /\ \A o \in Owners : Accepts(o, id) =>
              Remembers(arenas[o], id.slot, id.generation, id.value)

IInv == ArenasOK /\ IssuedOK

-----------------------------------------------------------------------------
(***************************************************************************)
(* The arena's methods.                                                    *)
(***************************************************************************)
\* An empty arena satisfies the invariant.
LEMMA NewOK == ArenaOK(New)
BY LimitsAssumption DEF ArenaOK, PartsOK, New, Slot

\* What giving a value to the slot on top of the free stack does to the parts.
LEMMA ReuseParts ==
    ASSUME NEW count, NEW slots, NEW free, PartsOK(count, slots, free), free # <<>>,
           NEW v \in Values
    PROVE  PartsOK(count, [slots EXCEPT ![free[Len(free)]].value = v], SubSeq(free, 1, Len(free) - 1))
<1> DEFINE n == Len(free)
<1> DEFINE s == free[n]
<1> DEFINE t == [slots EXCEPT ![s].value = v]
<1> DEFINE f == SubSeq(free, 1, n - 1)
<1>1. n \in Nat /\ n > 0 /\ s \in 0 .. count - 1
    BY DEF PartsOK
<1>2. /\ slots[s] \in Slot /\ ~slots[s].retired
      /\ t[s] = [slots[s] EXCEPT !.value = v]
      /\ \A i \in 0 .. count - 1 : i # s => t[i] = slots[i]
    <2>1. slots \in [0 .. count - 1 -> Slot] /\ slots[s] \in Slot
        BY <1>1 DEF PartsOK
    <2>2. ~slots[s].retired
        BY <1>1 DEF PartsOK
    <2> HIDE DEF s
    <2>3. t[s] = [slots[s] EXCEPT !.value = v]
        BY <1>1, <2>1
    <2>4. \A i \in 0 .. count - 1 : i # s => t[i] = slots[i]
        BY <1>1, <2>1
    <2> QED BY <2>1, <2>2, <2>3, <2>4
<1>3. t[s] \in Slot /\ t[s].retired = slots[s].retired
    BY <1>2 DEF Slot
<1>4. t \in [0 .. count - 1 -> Slot]
    <2>1. DOMAIN t = 0 .. count - 1 /\ t = [i \in 0 .. count - 1 |-> t[i]]
        BY Zenon DEF PartsOK
    <2>2. \A i \in 0 .. count - 1 : t[i] \in Slot
        BY <1>2, <1>3 DEF PartsOK
    <2> QED BY Zenon, <2>1, <2>2
<1>5. /\ f \in Seq(0 .. count - 1) /\ Len(f) = n - 1
      /\ \A k \in 1 .. n - 1 : f[k] = free[k]
    <2>1. n - 1 \in Int /\ \A i \in 1 .. n - 1 : free[i] \in 0 .. count - 1
        BY <1>1 DEF PartsOK
    <2>2. /\ f \in Seq(0 .. count - 1)
          /\ Len(f) = IF 1 <= n - 1 THEN (n - 1) - 1 + 1 ELSE 0
          /\ \A i \in 1 .. (n - 1) - 1 + 1 : f[i] = free[1 + i - 1]
        BY <2>1, SubSeqProperties
    <2> HIDE DEF f
    <2>3. Len(f) = n - 1
        <3>0. n \in Nat /\ n > 0
            BY <1>1
        <3> HIDE DEF n
        <3>1. n - 1 = 0 \/ 1 <= n - 1
            BY <3>0
        <3>2. (n - 1) - 1 + 1 = n - 1
            BY <3>0
        <3>3. CASE 1 <= n - 1
            BY <2>2, <3>2, <3>3
        <3>4. CASE n - 1 = 0
            BY <2>2, <3>4
        <3> QED BY <3>1, <3>3, <3>4
    <2>4. ASSUME NEW k \in 1 .. n - 1 PROVE f[k] = free[k]
        <3>1. k \in 1 .. (n - 1) - 1 + 1 /\ 1 + k - 1 = k
            BY <1>1
        <3> QED BY <2>2, <3>1
    <2> QED BY <2>2, <2>3, <2>4
<1>6. \A k \in 1 .. n - 1 : free[k] \in 0 .. count - 1 /\ free[k] # s
    BY <1>1 DEF PartsOK
<1> HIDE DEF t, f
<1>7. \A k \in 1 .. Len(f) : t[f[k]].value = None /\ ~t[f[k]].retired
    <2> SUFFICES ASSUME NEW k \in 1 .. Len(f)
                 PROVE  t[f[k]].value = None /\ ~t[f[k]].retired
        OBVIOUS
    <2>1. k \in 1 .. n - 1 /\ k \in 1 .. n /\ f[k] = free[k]
        BY <1>1, <1>5
    <2>2. slots[free[k]].value = None /\ ~slots[free[k]].retired
        BY <2>1 DEF PartsOK
    <2>3. t[free[k]] = slots[free[k]]
        BY <1>2, <1>6, <2>1
    <2> QED BY <2>1, <2>2, <2>3
<1>8. \A k, l \in 1 .. Len(f) : f[k] = f[l] => k = l
    <2> SUFFICES ASSUME NEW k \in 1 .. Len(f), NEW l \in 1 .. Len(f), f[k] = f[l] PROVE k = l
        OBVIOUS
    <2>1. k \in 1 .. n /\ l \in 1 .. n /\ free[k] = free[l]
        BY <1>1, <1>5
    <2> QED BY <2>1 DEF PartsOK
<1>9. \A i \in 0 .. count - 1 : t[i].retired =>
          t[i].generation = MaxGeneration /\ t[i].value = None
    BY <1>2, <1>3, Zenon DEF PartsOK
<1>10. PartsOK(count, t, f)
    BY <1>4, <1>5, <1>7, <1>8, <1>9 DEF PartsOK
<1> QED BY <1>10 DEF t, f

\* What adding a slot does to the parts.
LEMMA GrowParts ==
    ASSUME NEW count, NEW slots, NEW free, PartsOK(count, slots, free), free = <<>>,
           NEW v \in Values
    PROVE  PartsOK(count + 1,
                   [i \in 0 .. count |->
                       IF i = count THEN [generation |-> 1, value |-> v, retired |-> FALSE]
                                    ELSE slots[i]], free)
<1> DEFINE t == [i \in 0 .. count |->
                   IF i = count THEN [generation |-> 1, value |-> v, retired |-> FALSE]
                                ELSE slots[i]]
<1>1. count \in Nat /\ (count + 1) - 1 = count
    BY DEF PartsOK
<1>2. \A i \in 0 .. count : t[i] \in Slot
    BY <1>1, LimitsAssumption DEF PartsOK, Slot
<1>3. t \in [0 .. (count + 1) - 1 -> Slot]
    BY Zenon, <1>1, <1>2
<1>4. \A i \in 0 .. count : t[i].retired =>
          t[i].generation = MaxGeneration /\ t[i].value = None
    BY <1>1 DEF PartsOK
<1>5. free \in Seq(0 .. (count + 1) - 1) /\ Len(free) = 0
    OBVIOUS
<1> HIDE DEF t
<1>6. PartsOK(count + 1, t, free)
    BY <1>1, <1>3, <1>4, <1>5 DEF PartsOK
<1> QED BY <1>6 DEF t

\* try_insert keeps the arena's invariant, whether it reuses a slot or adds one.
LEMMA InsertOK ==
    ASSUME NEW a, ArenaOK(a), NEW v \in Values
    PROVE  ArenaOK(TryInsert(a, v))
<1>1. CASE a.free # <<>>
    BY <1>1, ReuseParts DEF ArenaOK, TryInsert
<1>2. CASE a.free = <<>>
    BY <1>2, GrowParts DEF ArenaOK, TryInsert
<1> QED BY <1>1, <1>2

\* What emptying a slot that holds a value does to the parts.
LEMMA RemoveParts ==
    ASSUME NEW count, NEW slots, NEW free, PartsOK(count, slots, free),
           NEW s \in 0 .. count - 1, slots[s].value # None, NEW g, g = slots[s].generation,
           NEW last \in BOOLEAN, last <=> (g = MaxGeneration)
    PROVE  PartsOK(count,
                   [slots EXCEPT ![s] = [generation |-> IF last THEN g ELSE g + 1,
                                         value |-> None, retired |-> last]],
                   IF last THEN free ELSE Append(free, s))
<1> DEFINE r == [generation |-> IF last THEN g ELSE g + 1, value |-> None, retired |-> last]
<1> DEFINE t == [slots EXCEPT ![s] = r]
<1> DEFINE f == IF last THEN free ELSE Append(free, s)
<1>1. slots[s] \in Slot /\ g \in 1 .. MaxGeneration
    BY DEF PartsOK, Slot
<1>2. r \in Slot /\ r.value = None /\ (r.retired <=> last) /\ (last => r.generation = MaxGeneration)
    BY <1>1, LimitsAssumption DEF Slot
<1>3. t[s] = r /\ \A i \in 0 .. count - 1 : i # s => t[i] = slots[i]
    BY DEF PartsOK
<1>4. t \in [0 .. count - 1 -> Slot]
    <2> HIDE DEF r
    <2> QED BY <1>2 DEF PartsOK
<1>5. \A k \in 1 .. Len(free) : free[k] \in 0 .. count - 1 /\ free[k] # s
    BY DEF PartsOK
<1>6. /\ f \in Seq(0 .. count - 1)
      /\ Len(f) \in Nat /\ Len(free) \in Nat
      /\ \A k \in 1 .. Len(f) : \/ k \in 1 .. Len(free) /\ f[k] = free[k]
                                \/ ~last /\ k = Len(free) + 1 /\ f[k] = s
    <2>1. CASE last
        BY <2>1 DEF PartsOK
    <2>2. CASE ~last
        BY <2>2 DEF PartsOK
    <2> QED BY <2>1, <2>2
<1> HIDE DEF r, t, f
<1>7. \A k \in 1 .. Len(f) : t[f[k]].value = None /\ ~t[f[k]].retired
    <2> SUFFICES ASSUME NEW k \in 1 .. Len(f) PROVE t[f[k]].value = None /\ ~t[f[k]].retired
        OBVIOUS
    <2>1. CASE k \in 1 .. Len(free) /\ f[k] = free[k]
        BY <2>1, <1>3, <1>5 DEF PartsOK
    <2>2. CASE ~last /\ f[k] = s
        BY <2>2, <1>2, <1>3
    <2> QED BY <2>1, <2>2, <1>6
<1>8. \A k, l \in 1 .. Len(f) : f[k] = f[l] => k = l
    BY <1>5, <1>6, Zenon DEF PartsOK
<1>9. \A i \in 0 .. count - 1 : t[i].retired =>
          t[i].generation = MaxGeneration /\ t[i].value = None
    BY <1>2, <1>3 DEF PartsOK
<1>10. PartsOK(count, t, f)
    BY <1>4, <1>6, <1>7, <1>8, <1>9 DEF PartsOK
<1> QED BY <1>10 DEF t, f, r

\* remove keeps the arena's invariant for any handle, also one the arena never issued.
LEMMA RemoveOK ==
    ASSUME NEW a, ArenaOK(a), NEW h
    PROVE  ArenaOK(Remove(a, h))
<1>1. CASE ~Contains(a, h)
    BY <1>1 DEF Remove
<1>2. CASE Contains(a, h)
    <2>1. /\ h.slot \in 0 .. a.count - 1
          /\ h.generation = a.slots[h.slot].generation
          /\ a.slots[h.slot].value # None
        BY <1>2 DEF Contains, Get
    <2> DEFINE last == h.generation = MaxGeneration
    <2>2. last \in BOOLEAN
        OBVIOUS
    <2>3. PartsOK(a.count,
                  [a.slots EXCEPT ![h.slot] =
                      [generation |-> IF last THEN h.generation ELSE h.generation + 1,
                       value |-> None, retired |-> last]],
                  IF last THEN a.free ELSE Append(a.free, h.slot))
        BY <2>1, <2>2, RemoveParts, Zenon DEF ArenaOK
    <2> QED BY <1>2, <2>3 DEF ArenaOK, Remove
<1> QED BY <1>1, <1>2

-----------------------------------------------------------------------------
(***************************************************************************)
(* What the methods do to the identities given out before.                 *)
(***************************************************************************)
\* The handle try_insert returns names a slot that now holds the value.
LEMMA InsertIssues ==
    ASSUME NEW a, ArenaOK(a), NEW v \in Values
    PROVE  /\ InsertHandle(a).slot \in Nat
           /\ InsertHandle(a).generation \in Nat
           /\ Remembers(TryInsert(a, v), InsertHandle(a).slot, InsertHandle(a).generation, v)
<1>1. CASE a.free # <<>>
    <2> DEFINE s == a.free[Len(a.free)]
    <2>1. a.count \in Nat /\ s \in 0 .. a.count - 1 /\ a.slots[s] \in Slot
        BY <1>1, SMTT(30) DEF ArenaOK, PartsOK
    <2>2. InsertHandle(a) = [slot |-> s, generation |-> a.slots[s].generation]
        BY <1>1 DEF InsertHandle
    <2>3. /\ TryInsert(a, v).count = a.count
          /\ TryInsert(a, v).slots[s] = [a.slots[s] EXCEPT !.value = v]
        BY <1>1, <2>1 DEF TryInsert, ArenaOK, PartsOK
    <2>4. a.slots[s].generation \in Nat
        BY <2>1 DEF Slot
    <2>5. TryInsert(a, v).slots[s].generation = a.slots[s].generation /\ TryInsert(a, v).slots[s].value = v
        BY <2>1, <2>3 DEF Slot
    <2>6. InsertHandle(a).slot = s /\ InsertHandle(a).generation = a.slots[s].generation
        BY <2>2
    <2> HIDE DEF s
    <2>7. s \in Nat /\ s \in 0 .. TryInsert(a, v).count - 1
        BY <2>1, <2>3
    <2>8. Remembers(TryInsert(a, v), s, a.slots[s].generation, v)
        BY <2>4, <2>5, <2>7 DEF Remembers
    <2> QED BY <2>4, <2>6, <2>7, <2>8
<1>2. CASE a.free = <<>>
    <2>1. a.count \in Nat
        BY DEF ArenaOK, PartsOK
    <2>2. InsertHandle(a) = [slot |-> a.count, generation |-> 1]
        BY <1>2 DEF InsertHandle
    <2>3. /\ TryInsert(a, v).count = a.count + 1
          /\ TryInsert(a, v).slots[a.count] = [generation |-> 1, value |-> v, retired |-> FALSE]
        BY <1>2, <2>1 DEF TryInsert
    <2>4. InsertHandle(a).slot = a.count /\ InsertHandle(a).generation = 1
        BY <2>2
    <2>5. /\ TryInsert(a, v).slots[a.count].generation = 1
          /\ TryInsert(a, v).slots[a.count].value = v
        BY <2>3
    <2>6. a.count \in 0 .. TryInsert(a, v).count - 1
        BY <2>1, <2>3
    <2> QED BY <2>1, <2>4, <2>5, <2>6 DEF Remembers
<1> QED BY <1>1, <1>2

\* try_insert touches no slot an identity still names: a reused slot has moved past
\* the generation of each identity given out for it.
LEMMA InsertKeeps ==
    ASSUME NEW a, ArenaOK(a), NEW v \in Values, NEW s, NEW g \in Nat, NEW w \in Values,
           Remembers(a, s, g, w)
    PROVE  /\ Remembers(TryInsert(a, v), s, g, w)
           /\ Get(a, [slot |-> s, generation |-> g]) = None =>
                 Get(TryInsert(a, v), [slot |-> s, generation |-> g]) = None
<1> DEFINE b == TryInsert(a, v)
<1>0. /\ a.count \in Nat /\ s \in 0 .. a.count - 1 /\ a.slots[s] \in Slot
      /\ a.slots[s].generation \in Nat /\ w # None
    BY OwnersAssumption DEF Remembers, ArenaOK, PartsOK, Slot, Values
<1>1. s \in 0 .. b.count - 1
    <2>1. b.count \in {a.count, a.count + 1}
        BY DEF TryInsert
    <2> HIDE DEF b
    <2> QED BY <1>0, <2>1
<1>2. \/ b.slots[s] = a.slots[s]
      \/ b.slots[s].generation = a.slots[s].generation /\ g < a.slots[s].generation
    <2>1. CASE a.free # <<>>
        <3> DEFINE p == a.free[Len(a.free)]
        <3>1. p \in 0 .. a.count - 1 /\ a.slots[p].value = None /\ ~a.slots[p].retired
            BY <2>1, SMTT(30) DEF ArenaOK, PartsOK
        <3>2. b.slots = [a.slots EXCEPT ![p].value = v]
            BY <2>1 DEF TryInsert
        <3> HIDE DEF b, p
        <3>3. CASE s # p
            BY <3>2, <3>3, <1>0 DEF ArenaOK, PartsOK
        <3>4. CASE s = p
            <4>1. b.slots[s] = [a.slots[s] EXCEPT !.value = v]
                BY <3>1, <3>2, <3>4 DEF ArenaOK, PartsOK
            <4>2. b.slots[s].generation = a.slots[s].generation
                BY <4>1, <1>0 DEF Slot
            <4>3. g # a.slots[s].generation /\ g <= a.slots[s].generation
                BY <3>1, <3>4, <1>0 DEF Remembers
            <4> QED BY <4>2, <4>3, <1>0
        <3> QED BY <3>3, <3>4
    <2>2. CASE a.free = <<>>
        BY <2>2, <1>0 DEF TryInsert
    <2> QED BY <2>1, <2>2
<1> HIDE DEF b
<1>3. Remembers(b, s, g, w)
    BY <1>0, <1>1, <1>2 DEF Remembers
<1>4. ASSUME Get(a, [slot |-> s, generation |-> g]) = None
      PROVE  Get(b, [slot |-> s, generation |-> g]) = None
    BY <1>0, <1>1, <1>2, <1>4 DEF Get
<1> QED BY <1>3, <1>4 DEF b

\* remove makes the identity it is given stale and leaves every other as it was.
LEMMA RemoveKeeps ==
    ASSUME NEW a, ArenaOK(a), NEW h, NEW s, NEW g \in Nat, NEW w \in Values,
           Remembers(a, s, g, w)
    PROVE  /\ Remembers(Remove(a, h), s, g, w)
           /\ Get(a, [slot |-> s, generation |-> g]) = None =>
                 Get(Remove(a, h), [slot |-> s, generation |-> g]) = None
<1>1. CASE ~Contains(a, h)
    BY <1>1 DEF Remove
<1>2. CASE Contains(a, h)
    <2> DEFINE b == Remove(a, h)
    <2> DEFINE last == h.generation = MaxGeneration
    <2> DEFINE r == [generation |-> IF last THEN h.generation ELSE h.generation + 1,
                     value |-> None, retired |-> last]
    <2>0. /\ a.count \in Nat /\ s \in 0 .. a.count - 1 /\ a.slots[s] \in Slot
          /\ a.slots[s].generation \in Nat
        BY DEF Remembers, ArenaOK, PartsOK, Slot
    <2>1. h.slot \in 0 .. a.count - 1 /\ h.generation = a.slots[h.slot].generation
        BY <1>2 DEF Contains, Get
    <2>2. b.count = a.count /\ b.slots = [a.slots EXCEPT ![h.slot] = r]
        BY <1>2 DEF Remove
    <2>3. /\ r.value = None
          /\ h.slot = s => \/ r.generation = a.slots[s].generation + 1
                           \/ r.generation = a.slots[s].generation /\ r.retired
        BY Zenon, <2>1
    <2> HIDE DEF b, r
    <2>4. CASE h.slot # s
        <3>1. b.slots[s] = a.slots[s]
            BY <2>0, <2>2, <2>4 DEF ArenaOK, PartsOK
        <3> QED BY <3>1, <2>2 DEF Remembers, Get, b
    <2>5. CASE h.slot = s
        <3>1. b.slots[s] = r
            BY <2>0, <2>2, <2>5 DEF ArenaOK, PartsOK
        <3>2. Remembers(b, s, g, w)
            BY <3>1, <2>0, <2>2, <2>3, <2>5 DEF Remembers
        <3>3. Get(b, [slot |-> s, generation |-> g]) = None
            BY <3>1, <2>3 DEF Get
        <3> QED BY <3>2, <3>3 DEF b
    <2> QED BY <2>4, <2>5
<1> QED BY <1>1, <1>2

-----------------------------------------------------------------------------
(***************************************************************************)
(* The owners.                                                             *)
(***************************************************************************)
\* Nothing has been given out when the owners are built.
LEMMA InitOK == RegistryInit => IInv
BY NewOK DEF RegistryInit, IInv, ArenasOK, IssuedOK

\* Giving out an identity keeps the invariant and revives no stale identity.
LEMMA IssueOK ==
    ASSUME IInv, NEW o \in Owners, NEW v \in Values, Issue(o, v)
    PROVE  /\ IInv'
           /\ \A id \in issued, p \in Owners : Resolve(p, id) = None => Resolve(p, id)' = None
<1> DEFINE a == arenas[o]
<1> DEFINE h == InsertHandle(a)
<1> DEFINE new == [kind |-> o.kind, namespace |-> o.namespace, slot |-> h.slot,
                   generation |-> h.generation, value |-> v]
<1>1. /\ ArenaOK(a) /\ issued' = issued \cup {new}
      /\ arenas' = [arenas EXCEPT ![o] = TryInsert(a, v)]
    BY DEF IInv, ArenasOK, Issue
<1>2. /\ arenas'[o] = TryInsert(a, v)
      /\ \A p \in Owners : p # o => arenas'[p] = arenas[p]
      /\ arenas' = [p \in Owners |-> arenas'[p]]
    BY <1>1 DEF IInv, ArenasOK
<1>3. ArenasOK'
    BY <1>1, <1>2, InsertOK DEF IInv, ArenasOK
<1>4. ASSUME NEW id \in issued, NEW p \in Owners, Accepts(p, id)
      PROVE  /\ Remembers(arenas'[p], id.slot, id.generation, id.value)
             /\ Get(arenas[p], HandleOf(id)) = None => Get(arenas'[p], HandleOf(id)) = None
    <2>1. /\ id.value \in Values /\ id.generation \in Nat
          /\ Remembers(arenas[p], id.slot, id.generation, id.value)
        BY <1>4 DEF IInv, IssuedOK
    <2>2. CASE p # o
        BY <1>2, <2>1, <2>2
    <2>3. CASE p = o
        BY <1>1, <1>2, <2>1, <2>3, InsertKeeps DEF HandleOf
    <2> QED BY <2>2, <2>3
<1>5. ASSUME NEW p \in Owners, Accepts(p, new)
      PROVE  Remembers(arenas'[p], new.slot, new.generation, new.value)
    <2>1. p = o
        BY <1>5, OwnersAssumption DEF Accepts
    <2>2. new.slot = h.slot /\ new.generation = h.generation /\ new.value = v
        OBVIOUS
    <2>3. Remembers(TryInsert(a, v), h.slot, h.generation, v)
        BY <1>1, InsertIssues
    <2> HIDE DEF new
    <2> QED BY <1>2, <2>1, <2>2, <2>3
<1>6. new.value \in Values /\ new.slot \in Nat /\ new.generation \in Nat
    BY <1>1, InsertIssues
<1> HIDE DEF new
<1>7. IssuedOK'
    BY <1>1, <1>4, <1>5, <1>6 DEF IInv, IssuedOK, Accepts
<1>8. ASSUME NEW id \in issued, NEW p \in Owners, Resolve(p, id) = None
      PROVE  Resolve(p, id)' = None
    BY <1>4, <1>8 DEF Resolve, Accepts
<1> QED BY <1>3, <1>7, <1>8 DEF IInv

\* Taking a value out, through any handle, keeps the invariant and revives no stale
\* identity.
LEMMA TakeOK ==
    ASSUME IInv, NEW o \in Owners, NEW h, UNCHANGED issued,
           arenas' = [arenas EXCEPT ![o] = Remove(arenas[o], h)]
    PROVE  /\ IInv'
           /\ \A id \in issued, p \in Owners : Resolve(p, id) = None => Resolve(p, id)' = None
<1>1. ArenaOK(arenas[o])
    BY DEF IInv, ArenasOK
<1>2. /\ arenas'[o] = Remove(arenas[o], h)
      /\ \A p \in Owners : p # o => arenas'[p] = arenas[p]
      /\ arenas' = [p \in Owners |-> arenas'[p]]
    BY DEF IInv, ArenasOK
<1>3. ArenasOK'
    BY <1>1, <1>2, RemoveOK DEF IInv, ArenasOK
<1>4. ASSUME NEW id \in issued, NEW p \in Owners, Accepts(p, id)
      PROVE  /\ Remembers(arenas'[p], id.slot, id.generation, id.value)
             /\ Get(arenas[p], HandleOf(id)) = None => Get(arenas'[p], HandleOf(id)) = None
    <2>1. /\ id.value \in Values /\ id.generation \in Nat
          /\ Remembers(arenas[p], id.slot, id.generation, id.value)
        BY <1>4 DEF IInv, IssuedOK
    <2>2. CASE p # o
        BY <1>2, <2>1, <2>2
    <2>3. CASE p = o
        BY <1>1, <1>2, <2>1, <2>3, RemoveKeeps DEF HandleOf
    <2> QED BY <2>2, <2>3
<1>5. IssuedOK'
    BY <1>4 DEF IInv, IssuedOK, Accepts
<1>6. ASSUME NEW id \in issued, NEW p \in Owners, Resolve(p, id) = None
      PROVE  Resolve(p, id)' = None
    BY <1>4, <1>6 DEF Resolve, Accepts
<1> QED BY <1>3, <1>5, <1>6 DEF IInv

\* Every call of every owner keeps the invariant and revives no stale identity.
LEMMA StepOK ==
    ASSUME IInv, [RegistryNext]_registry
    PROVE  /\ IInv'
           /\ \A id \in issued, p \in Owners : Resolve(p, id) = None => Resolve(p, id)' = None
<1>1. ASSUME NEW o \in Owners, NEW s \in Services, Register(o, s) \/ Insert(o, s)
      PROVE  Issue(o, s) /\ s \in Values
    BY <1>1 DEF Register, Insert, Values
<1>2. ASSUME NEW o \in Owners, Allocate(o)
      PROVE  Issue(o, Record) /\ Record \in Values
    BY <1>2 DEF Allocate, Values
<1>3. ASSUME NEW o \in Owners, NEW id \in issued,
             Unregister(o, id) \/ Release(o, id) \/ RemoveValue(o, id)
      PROVE  UNCHANGED issued /\ arenas' = [arenas EXCEPT ![o] = Remove(arenas[o], HandleOf(id))]
    BY <1>3 DEF Unregister, Release, RemoveValue, Withdraw
<1>4. ASSUME NEW o \in Owners, ClearRemoves(o)
      PROVE  UNCHANGED issued /\ arenas' = [arenas EXCEPT ![o] = Remove(arenas[o], Head(clearing[o]))]
    BY <1>4 DEF ClearRemoves
<1>5. ASSUME UNCHANGED <<arenas, issued>>
      PROVE  /\ IInv'
             /\ \A id \in issued, p \in Owners : Resolve(p, id) = None => Resolve(p, id)' = None
    BY <1>5 DEF IInv, ArenasOK, IssuedOK, Accepts, Resolve
<1>6. ASSUME NEW o \in Owners, ClearBegins(o) PROVE UNCHANGED <<arenas, issued>>
    BY <1>6 DEF ClearBegins
<1>7. CASE RegistryNext
    <2>1. CASE \E o \in Owners, s \in Services : Register(o, s) \/ Insert(o, s)
        BY <2>1, <1>1, IssueOK
    <2>2. CASE \E o \in Owners : Allocate(o)
        BY <2>2, <1>2, IssueOK
    <2>3. CASE \E o \in Owners, id \in issued :
                  Unregister(o, id) \/ Release(o, id) \/ RemoveValue(o, id)
        BY <2>3, <1>3, TakeOK
    <2>4. CASE \E o \in Owners : ClearRemoves(o)
        BY <2>4, <1>4, TakeOK
    <2>5. CASE \E o \in Owners : ClearBegins(o)
        BY <2>5, <1>5, <1>6
    <2> QED BY <1>7, <2>1, <2>2, <2>3, <2>4, <2>5 DEF RegistryNext
<1>8. CASE UNCHANGED registry
    BY <1>8, <1>5 DEF registry
<1> QED BY <1>7, <1>8

\* Whatever owner an identity is presented to, resolve answers with the value the
\* identity was given out for or refuses it.
THEOREM IdentitySafety == RegistrySpec => []IdentityNamesOneValue
<1>1. IInv => IdentityNamesOneValue
    <2> SUFFICES ASSUME IInv, NEW id \in issued, NEW o \in Owners, Accepts(o, id)
                 PROVE  Get(arenas[o], HandleOf(id)) \in {id.value, None}
        BY DEF IdentityNamesOneValue, Resolve
    <2>1. Remembers(arenas[o], id.slot, id.generation, id.value)
        BY DEF IInv, IssuedOK
    <2> QED BY <2>1 DEF Remembers, Get, HandleOf
<1>2. IInv /\ [RegistryNext]_registry => IInv'
    BY StepOK
<1> QED BY <1>1, <1>2, InitOK, PTL DEF RegistrySpec

\* An identity that does not resolve never resolves again.
THEOREM StaleForGood == RegistrySpec => StaleStaysStale
<1>1. IInv /\ [RegistryNext]_registry => IInv'
    BY StepOK
<1>2. IInv /\ [RegistryNext]_registry =>
         [\A id \in issued, o \in Owners : Resolve(o, id) = None => Resolve(o, id)' = None]_registry
    BY StepOK
<1> QED BY <1>1, <1>2, InitOK, PTL DEF RegistrySpec, StaleStaysStale
=============================================================================
