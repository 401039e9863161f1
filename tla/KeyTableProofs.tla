--------------------------- MODULE KeyTableProofs ---------------------------
(***************************************************************************)
(* The symbol table implements the set of its keys, for all keys, hashes    *)
(* and capacities, and never looks for a free slot where there is none.     *)
(***************************************************************************)
EXTENDS KeyTableProperties, FiniteSetTheorems, TLAPS

Slot == {Free} \cup {Entry(k) : k \in Keys}

\* How many slots on from h the slot i is, in a table whose last slot is m.
Dist(h, i, m) == IF i >= h THEN i - h ELSE i - h + m + 1

HomeOf(k, m) == HashOf[k] % (m + 1)

\* Every slot before the n-th after the home of k is taken.
Taken(table, m, k, n) ==
  \A j \in 0 .. m : Dist(HomeOf(k, m), j, m) < n => table[j] # Free

-----------------------------------------------------------------------------
(* The inductive invariant                                                 *)

TableTypeOK ==
  /\ mask \in Nat /\ slots \in [0 .. mask -> Slot] /\ size \in Nat
  /\ pc \in {"none", "lookup", "hit", "miss", "grow", "move", "put", "done"}
  /\ asked \in Keys /\ idx \in 0 .. mask /\ probes \in Nat
  /\ \E n \in Nat : old \in [0 .. n -> Slot]
  /\ from \in Nat

\* From the home of a key to its slot no slot is free.
NoGap(table, m) ==
  \A i \in 0 .. m :
    table[i] # Free => Taken(table, m, table[i].key, Dist(HomeOf(table[i].key, m), i, m))

\* No key is in two slots.
OncePerKey(table) ==
  \A i, j \in DOMAIN table : table[i] # Free /\ table[i] = table[j] => i = j

\* What a lookup has passed over was not its key, and not free.
PassedOver ==
  pc = "lookup" =>
    /\ probes <= mask /\ probes = Dist(HomeOf(asked, mask), idx, mask)
    /\ Taken(slots, mask, asked, probes)
    /\ \A j \in 0 .. mask : Dist(HomeOf(asked, mask), j, mask) < probes => slots[j] # Entry(asked)

\* A key is put only when it is in no slot, and where it will be found.
PutOnMiss ==
  /\ pc \in {"miss", "grow", "move", "put"} => asked \notin Stored
  /\ pc = "put" => Taken(slots, mask, asked, Dist(HomeOf(asked, mask), idx, mask))
  /\ pc \in {"grow", "move", "put"} => size < MaxEntries

\* The old slots that are still to be moved are not in the table yet.
ToBeMoved ==
  /\ Growing => OncePerKey(old)
  /\ Growing => \A i \in DOMAIN old : i >= from /\ old[i] # Free
                   => \A j \in 0 .. mask : slots[j] # old[i]
  /\ pc = "move" => /\ from \in DOMAIN old /\ old[from] # Free
                    /\ Taken(slots, mask, old[from].key, Dist(HomeOf(old[from].key, mask), idx, mask))

Counted == IsFiniteSet(Stored) /\ Cardinality(Stored) = size

TableInv ==
  /\ TableTypeOK /\ NoGap(slots, mask) /\ OncePerKey(slots)
  /\ PassedOver /\ PutOnMiss /\ ToBeMoved /\ Counted

-----------------------------------------------------------------------------
(* Slots                                                                   *)

\* Masking a hash gives a slot of the table.
LEMMA HomeInTable ==
  ASSUME NEW h \in Nat, NEW m \in Nat PROVE h % (m + 1) \in 0 .. m
  OBVIOUS

\* A slot that is taken has the entry of its key.
LEMMA EntryOfKey ==
  ASSUME NEW s \in Slot, s # Free
  PROVE  s.key \in Keys /\ s = Entry(s.key) /\ s.hash = HashOf[s.key]
  BY DEF Slot, Entry, Free

\* A key's entry is not a free slot.
LEMMA EntryTaken ==
  ASSUME NEW k \in Keys
  PROVE  Entry(k) \in Slot /\ Entry(k) # Free /\ Entry(k).key = k
  BY TableAssumption DEF Slot, Entry, Free

\* Going round a table of slots 0 .. m.
LEMMA Around ==
  ASSUME NEW m \in Nat, NEW h \in 0 .. m, NEW i \in 0 .. m,
         NEW next, next = IF i = m THEN 0 ELSE i + 1
  PROVE  /\ Dist(h, i, m) \in 0 .. m /\ Dist(h, h, m) = 0
         /\ \A j \in 0 .. m : Dist(h, j, m) = Dist(h, i, m) => j = i
         /\ next \in 0 .. m
         /\ \/ Dist(h, next, m) = Dist(h, i, m) + 1
            \/ Dist(h, next, m) = 0 /\ Dist(h, i, m) = m
  BY DEF Dist

\* Going round from h, every slot is met once.
LEMMA Distances ==
  ASSUME NEW m \in Nat, NEW h \in 0 .. m
  PROVE  /\ Dist(h, h, m) = 0
         /\ \A i \in 0 .. m : Dist(h, i, m) \in 0 .. m
         /\ \A i, j \in 0 .. m : Dist(h, i, m) = Dist(h, j, m) => i = j
  BY DEF Dist

\* No slot comes before a key's home slot.
LEMMA NoneBeforeHome ==
  ASSUME NEW m \in Nat, NEW table, NEW k, HomeOf(k, m) \in 0 .. m
  PROVE  Taken(table, m, k, Dist(HomeOf(k, m), HomeOf(k, m), m))
  BY Distances DEF Taken

\* The home slot of a key is in the table.
LEMMA HomeOfKey == ASSUME TableTypeOK, NEW k \in Keys PROVE HomeOf(k, mask) \in 0 .. mask
  BY HomeInTable, TableAssumption DEF TableTypeOK, HomeOf

\* A key is stored in the slots exactly if its entry is in one.
LEMMA KeyInSlots ==
  ASSUME TableTypeOK, NEW k \in Keys
  PROVE  k \in OccupiedBy(slots) <=> \E j \in 0 .. mask : slots[j] = Entry(k)
<1>1. \A j \in 0 .. mask : slots[j] \in Slot /\ DOMAIN slots = 0 .. mask
  BY DEF TableTypeOK
<1>2. \A j \in 0 .. mask : slots[j] # Free /\ slots[j].key = k <=> slots[j] = Entry(k)
  BY <1>1, EntryOfKey, EntryTaken
<1>3. ASSUME k \in OccupiedBy(slots) PROVE \E j \in 0 .. mask : slots[j] = Entry(k)
  <2> PICK j \in DOMAIN slots : slots[j] # Free /\ k = slots[j].key
    BY <1>3 DEF OccupiedBy
  <2> QED
    BY <1>2 DEF TableTypeOK
<1>4. ASSUME NEW j \in 0 .. mask, slots[j] = Entry(k) PROVE k \in OccupiedBy(slots)
  <2> slots[j] # Free /\ slots[j].key = k /\ j \in DOMAIN slots
    BY <1>1, <1>2, <1>4 DEF TableTypeOK
  <2> QED
    BY DEF OccupiedBy
<1> QED
  BY <1>3, <1>4

\* A probe that meets a taken slot goes on.
LEMMA StepOn ==
  ASSUME TableTypeOK, NEW k \in Keys, Taken(slots, mask, k, Dist(HomeOf(k, mask), idx, mask)), slots[idx] # Free
  PROVE  /\ Following(idx) \in 0 .. mask
         /\ Taken(slots, mask, k, Dist(HomeOf(k, mask), Following(idx), mask))
<1>1. mask \in Nat /\ idx \in 0 .. mask /\ HomeOf(k, mask) \in 0 .. mask
  BY HomeOfKey DEF TableTypeOK
<1>2. /\ Following(idx) \in 0 .. mask
      /\ \A j \in 0 .. mask : Dist(HomeOf(k, mask), j, mask) = Dist(HomeOf(k, mask), idx, mask) => j = idx
      /\ \/ Dist(HomeOf(k, mask), Following(idx), mask) = Dist(HomeOf(k, mask), idx, mask) + 1
         \/ Dist(HomeOf(k, mask), Following(idx), mask) = 0
  BY <1>1, Around DEF Following
<1>3. \A j \in 0 .. mask : Dist(HomeOf(k, mask), j, mask) \in 0 .. mask
  BY <1>1, Around
<1> QED
  BY <1>1, <1>2, <1>3 DEF Taken

\* An entry put into the first free slot from its home on is found there.
LEMMA Inserted ==
  ASSUME TableTypeOK, NoGap(slots, mask), OncePerKey(slots), NEW k \in Keys, slots[idx] = Free,
         Taken(slots, mask, k, Dist(HomeOf(k, mask), idx, mask)),
         \A j \in 0 .. mask : slots[j] # Entry(k),
         slots' = [slots EXCEPT ![idx] = Entry(k)], mask' = mask
  PROVE  /\ slots' \in [0 .. mask -> Slot]
         /\ NoGap(slots', mask) /\ OncePerKey(slots') /\ OccupiedBy(slots') = OccupiedBy(slots) \cup {k}
         /\ \A j \in 0 .. mask : slots'[j] = slots[j] \/ slots'[j] = Entry(k)
<1>1. /\ slots \in [0 .. mask -> Slot] /\ slots' \in [0 .. mask -> Slot]
      /\ idx \in 0 .. mask /\ slots'[idx] = Entry(k)
      /\ \A j \in 0 .. mask : j # idx => slots'[j] = slots[j]
  BY EntryTaken DEF TableTypeOK
<1>2. Entry(k) # Free /\ Entry(k).key = k
  BY EntryTaken
<1>3. ASSUME NEW q, NEW n, Taken(slots, mask, q, n) PROVE Taken(slots', mask, q, n)
  BY <1>1, <1>2, <1>3 DEF Taken
<1>4. NoGap(slots', mask)
  <2> SUFFICES ASSUME NEW i \in 0 .. mask, slots'[i] # Free
               PROVE  Taken(slots', mask, slots'[i].key, Dist(HomeOf(slots'[i].key, mask), i, mask))
    BY DEF NoGap
  <2>1. CASE i = idx
    BY <2>1, <1>1, <1>2, <1>3
  <2>2. CASE i # idx
    BY <2>2, <1>1, <1>3 DEF NoGap
  <2> QED
    BY <2>1, <2>2
<1>5. OncePerKey(slots')
  BY <1>1, <1>2 DEF OncePerKey
<1>6. OccupiedBy(slots') = OccupiedBy(slots) \cup {k}
  BY <1>1, <1>2 DEF OccupiedBy
<1> QED
  BY <1>1, <1>4, <1>5, <1>6

\* What a lookup has found when it stops is right.
LEMMA LookupRight ==
  ASSUME TableInv, pc = "lookup"
  PROVE  /\ slots[idx] = Free => asked \notin Stored
         /\ slots[idx] = Entry(asked) => asked \in Stored
         /\ slots[idx] # Free /\ slots[idx] # Entry(asked) /\ probes + 1 > mask => asked \notin Stored
<1>1. /\ Stored = OccupiedBy(slots) /\ TableTypeOK /\ NoGap(slots, mask) /\ PassedOver
      /\ asked \in Keys /\ idx \in 0 .. mask /\ mask \in Nat /\ probes \in Nat
      /\ HomeOf(asked, mask) \in 0 .. mask
  BY HomeOfKey DEF TableInv, TableTypeOK, Stored, Growing
<1>2. /\ \A j \in 0 .. mask : Dist(HomeOf(asked, mask), j, mask) \in 0 .. mask
      /\ \A j \in 0 .. mask : Dist(HomeOf(asked, mask), j, mask) = Dist(HomeOf(asked, mask), idx, mask) => j = idx
  BY <1>1, Around
<1>3. ASSUME slots[idx] = Free, NEW j \in 0 .. mask, slots[j] = Entry(asked) PROVE FALSE
  <2>1. Taken(slots, mask, asked, Dist(HomeOf(asked, mask), j, mask))
    BY <1>1, <1>3, EntryTaken DEF NoGap
  <2>2. ~(Dist(HomeOf(asked, mask), idx, mask) < Dist(HomeOf(asked, mask), j, mask))
    BY <2>1, <1>1, <1>3 DEF Taken
  <2>3. ~(Dist(HomeOf(asked, mask), j, mask) < Dist(HomeOf(asked, mask), idx, mask))
    BY <1>1, <1>3 DEF PassedOver
  <2> QED
    BY <2>2, <2>3, <1>1, <1>2, <1>3, EntryTaken
<1>4. ASSUME slots[idx] # Entry(asked), probes + 1 > mask, NEW j \in 0 .. mask, slots[j] = Entry(asked)
      PROVE  FALSE
  BY <1>1, <1>2, <1>4 DEF PassedOver
<1> QED
  BY <1>1, <1>3, <1>4, KeyInSlots

-----------------------------------------------------------------------------
(* The steps                                                               *)

\* A new table satisfies the invariant.
LEMMA TableInit == Init => TableInv
<1> SUFFICES ASSUME Init PROVE TableInv
  OBVIOUS
<1>1. /\ mask \in Nat /\ slots \in [0 .. mask -> Slot] /\ \A i \in 0 .. mask : slots[i] = Free
      /\ 0 \in 0 .. mask /\ old = slots
  BY TableAssumption DEF Init, Allocated, Slot
<1>2. Stored = {}
  BY <1>1 DEF Init, Stored, OccupiedBy, Growing
<1>3. Counted
  BY <1>2, FS_EmptySet DEF Counted, Init
<1>4. TableTypeOK
  BY <1>1 DEF TableTypeOK, Init
<1> QED
  BY <1>1, <1>2, <1>3, <1>4
  DEF TableInv, Init, NoGap, OncePerKey, PassedOver, PutOnMiss, ToBeMoved, Growing

\* A lookup begins at the home slot, having passed none over.
LEMMA LookupKeeps == ASSUME TableInv, Lookup PROVE TableInv' /\ Stored' = Stored
<1>1. /\ TableTypeOK /\ mask \in Nat /\ asked' \in Keys /\ slots' = slots /\ mask' = mask
      /\ idx' = HomeOf(asked', mask)
  BY DEF Lookup, TableInv, TableTypeOK, HomeOf, Home
<1>2. HomeOf(asked', mask) \in 0 .. mask
  BY <1>1, HomeOfKey
<1>3. /\ Dist(HomeOf(asked', mask), idx', mask) = 0
      /\ \A j \in 0 .. mask : Dist(HomeOf(asked', mask), j, mask) \in 0 .. mask
  BY <1>1, <1>2, Distances
<1>4. Stored' = Stored
  BY DEF Lookup, Stored, Growing
<1>5. TableTypeOK'
  BY <1>1, <1>2 DEF Lookup, TableTypeOK
<1>6. PassedOver'
  BY <1>1, <1>3 DEF Lookup, PassedOver, Taken
<1> QED
  BY <1>1, <1>4, <1>5, <1>6 DEF TableInv, Lookup, PutOnMiss, ToBeMoved, Counted, Growing

\* A probe ends on the key or on a free slot, and is right either way.
LEMMA ProbeKeeps ==
  ASSUME TableInv, Probe
  PROVE  TableInv' /\ Stored' = Stored /\ (pc' = "miss" => asked \notin Stored)
         /\ (pc' = "hit" => asked \in Stored)
<1>1. /\ TableTypeOK /\ PassedOver /\ pc = "lookup" /\ slots' = slots /\ mask' = mask /\ asked' = asked
      /\ mask \in Nat /\ idx \in 0 .. mask /\ asked \in Keys /\ probes \in Nat
  BY DEF Probe, TableInv, TableTypeOK
<1>2. Stored' = Stored
  BY DEF Probe, Stored, Growing
<1>3. (pc' = "miss" => asked \notin Stored) /\ (pc' = "hit" => asked \in Stored)
  BY <1>1, LookupRight DEF Probe, Same
<1>4. HomeOf(asked, mask) \in 0 .. mask
  BY <1>1, HomeOfKey
<1>5. CASE pc' = "lookup"
  <2>1. /\ slots[idx] # Free /\ slots[idx] # Entry(asked) /\ idx' = Following(idx)
        /\ probes' = probes + 1 /\ probes' <= mask
    BY <1>1, <1>5 DEF Probe, Same
  <2>2. Following(idx) \in 0 .. mask /\ Taken(slots, mask, asked, Dist(HomeOf(asked, mask), Following(idx), mask))
    BY <1>1, <2>1, StepOn DEF PassedOver
  <2>3. Dist(HomeOf(asked, mask), Following(idx), mask) = probes + 1
    <3> DEFINE home == HomeOf(asked, mask)
    <3>1. \/ Dist(home, Following(idx), mask) = Dist(home, idx, mask) + 1
          \/ Dist(home, Following(idx), mask) = 0 /\ Dist(home, idx, mask) = mask
      BY <1>1, <1>4, Around DEF Following
    <3>2. Dist(home, idx, mask) = probes /\ probes + 1 <= mask
      BY <1>1, <2>1 DEF PassedOver
    <3> QED
      BY <1>1, <3>1, <3>2
  <2>4. \A j \in 0 .. mask : Dist(HomeOf(asked, mask), j, mask) < probes + 1 => slots[j] # Entry(asked)
    <3>1. \A j \in 0 .. mask : /\ Dist(HomeOf(asked, mask), j, mask) \in 0 .. mask
                               /\ Dist(HomeOf(asked, mask), j, mask) = probes => j = idx
      BY <1>1, <1>4, Distances DEF PassedOver
    <3> QED
      BY <1>1, <2>1, <3>1 DEF PassedOver
  <2>5. PassedOver'
    BY <1>1, <2>1, <2>2, <2>3, <2>4 DEF PassedOver
  <2>6. TableTypeOK'
    BY <1>1, <1>5, <2>1, <2>2 DEF TableTypeOK, Probe
  <2> QED
    BY <1>1, <1>2, <1>3, <1>5, <2>5, <2>6 DEF TableInv, Probe, PutOnMiss, ToBeMoved, Counted, Growing
<1>6. CASE pc' # "lookup"
  <2>1. Following(idx) \in 0 .. mask
    BY <1>1 DEF Following
  <2>2. pc' \in {"miss", "hit"}
    BY <1>6 DEF Probe
  <2>3. TableTypeOK'
    BY <1>1, <2>1, <2>2 DEF TableTypeOK, Probe
  <2>4. PassedOver' /\ PutOnMiss' /\ ToBeMoved'
    BY <1>1, <1>2, <1>3, <2>2 DEF PassedOver, PutOnMiss, ToBeMoved, Growing
  <2> QED
    BY <1>1, <1>2, <1>3, <2>3, <2>4 DEF TableInv, Probe, Counted
<1> QED
  BY <1>2, <1>3, <1>5, <1>6

\* A key that is not stored after a miss changes nothing.
LEMMA NotDecodedKeeps == ASSUME TableInv, NotDecoded PROVE TableInv' /\ Stored' = Stored
<1>1. Stored' = Stored /\ TableTypeOK'
  BY DEF TableInv, NotDecoded, Stored, Growing, TableTypeOK
<1> QED
  BY <1>1 DEF TableInv, NotDecoded, NoGap, PassedOver, PutOnMiss, ToBeMoved, Counted, Growing

\* put begins where the table has room, or grows it.
LEMMA PutKeeps == ASSUME TableInv, Put PROVE TableInv' /\ Stored' = Stored
<1>1. /\ TableTypeOK /\ pc = "miss" /\ asked \in Keys /\ asked' = asked /\ size' = size /\ mask \in Nat
      /\ HomeOf(asked, mask) \in 0 .. mask /\ asked \notin Stored
  BY HomeOfKey DEF Put, TableInv, TableTypeOK, PutOnMiss
<1>2. CASE size >= MaxEntries /\ pc' = "done" /\ UNCHANGED <<slots, mask, idx, old, from>>
  <2>1. Stored' = Stored /\ TableTypeOK'
    BY <1>1, <1>2 DEF Put, Stored, Growing, TableTypeOK
  <2> QED
    BY <1>1, <1>2, <2>1 DEF TableInv, NoGap, PassedOver, PutOnMiss, ToBeMoved, Counted, Growing
<1>3. CASE /\ size < MaxEntries
           /\ pc' = "put" /\ idx' = Home(HashOf[asked])
           /\ UNCHANGED <<slots, mask, old, from>>
  <2>1. idx' = HomeOf(asked, mask)
    BY <1>3 DEF HomeOf, Home
  <2>2. Stored' = Stored /\ TableTypeOK'
    BY <1>1, <1>3, <2>1 DEF Put, Stored, Growing, TableTypeOK
  <2>3. Taken(slots, mask, asked, Dist(HomeOf(asked, mask), idx', mask))
    BY <1>1, <2>1, NoneBeforeHome
  <2> QED
    BY <1>1, <1>3, <2>2, <2>3 DEF TableInv, NoGap, PassedOver, PutOnMiss, ToBeMoved, Counted, Growing
<1>4. CASE /\ size < MaxEntries
           /\ pc' = "grow" /\ old' = slots /\ from' = 0
           /\ mask' = 2 * (mask + 1) - 1 /\ slots' = Allocated(2 * (mask + 1))
           /\ UNCHANGED idx
  <2>1. /\ mask' \in Nat /\ mask <= mask' /\ slots' \in [0 .. mask' -> Slot]
        /\ \A i \in 0 .. mask' : slots'[i] = Free
    BY <1>1, <1>4 DEF Allocated, Slot
  <2>2. OccupiedBy(slots') = {}
    BY <2>1 DEF OccupiedBy
  <2>3. DOMAIN slots = 0 .. mask /\ \A j \in DOMAIN slots : j >= 0
    BY <1>1 DEF TableTypeOK
  <2>4. Stored' = Stored
    BY <1>1, <1>4, <2>2, <2>3 DEF Stored, Growing, OccupiedBy
  <2>5. TableTypeOK'
    BY <1>1, <1>4, <2>1 DEF TableTypeOK, Put
  <2>6. NoGap(slots', mask') /\ OncePerKey(slots')
    BY <2>1 DEF NoGap, OncePerKey
  <2>7. PassedOver' /\ PutOnMiss'
    BY <1>1, <1>4, <2>4 DEF PassedOver, PutOnMiss
  <2>8. ToBeMoved'
    BY <1>4, <2>1 DEF ToBeMoved, TableInv
  <2> QED
    BY <1>1, <2>4, <2>5, <2>6, <2>7, <2>8 DEF TableInv, Counted
<1> QED
  BY <1>2, <1>3, <1>4 DEF Put

\* grow begins with all old slots to be moved into free ones.
LEMMA GrowKeeps == ASSUME TableInv, Grow PROVE TableInv' /\ Stored' = Stored
<1>1. /\ TableTypeOK /\ pc = "grow" /\ asked \in Keys /\ UNCHANGED <<slots, mask, size, asked, probes, old>>
      /\ mask \in Nat /\ HomeOf(asked, mask) \in 0 .. mask /\ from \in Nat
  BY HomeOfKey DEF Grow, TableInv, TableTypeOK
<1>2. PICK n \in Nat : old \in [0 .. n -> Slot]
  BY <1>1 DEF TableTypeOK
<1>3. CASE from \notin DOMAIN old /\ pc' = "put" /\ idx' = Home(HashOf[asked]) /\ UNCHANGED from
  <2>1. idx' = HomeOf(asked, mask)
    BY <1>3 DEF HomeOf, Home
  <2>2. \A i \in DOMAIN old : ~(i >= from)
    BY <1>1, <1>2, <1>3
  <2>3. Stored' = Stored
    BY <1>1, <1>3, <2>2 DEF Stored, Growing
  <2>4. Taken(slots, mask, asked, Dist(HomeOf(asked, mask), idx', mask))
    BY <1>1, <2>1, NoneBeforeHome
  <2>5. TableTypeOK'
    BY <1>1, <1>3, <2>1 DEF TableTypeOK
  <2> QED
    BY <1>1, <1>3, <2>3, <2>4, <2>5 DEF TableInv, PassedOver, PutOnMiss, ToBeMoved, Counted, Growing
<1>4. CASE from \in DOMAIN old /\ old[from] = Free /\ from' = from + 1 /\ UNCHANGED <<pc, idx>>
  <2>1. \A i \in DOMAIN old : i >= from /\ old[i] # Free <=> i >= from + 1 /\ old[i] # Free
    BY <1>1, <1>2, <1>4
  <2>2. Stored' = Stored
    BY <1>1, <1>4, <2>1 DEF Stored, Growing
  <2>3. TableTypeOK'
    BY <1>1, <1>4 DEF TableTypeOK
  <2>4. ToBeMoved'
    BY <1>1, <1>4, <2>1 DEF ToBeMoved, TableInv, Growing
  <2> QED
    BY <1>1, <1>4, <2>2, <2>3, <2>4 DEF TableInv, PassedOver, PutOnMiss, Counted
<1>5. CASE /\ from \in DOMAIN old /\ old[from] # Free
           /\ pc' = "move" /\ idx' = Home(old[from].hash) /\ UNCHANGED from
  <2>1. old[from].key \in Keys /\ old[from].hash = HashOf[old[from].key]
    BY <1>2, <1>5, EntryOfKey
  <2>2. idx' = HomeOf(old[from].key, mask) /\ HomeOf(old[from].key, mask) \in 0 .. mask
    BY <1>1, <1>5, <2>1, HomeOfKey DEF HomeOf, Home
  <2>3. Stored' = Stored
    BY <1>1, <1>5 DEF Stored, Growing
  <2>4. Taken(slots, mask, old[from].key, Dist(HomeOf(old[from].key, mask), idx', mask))
    BY <1>1, <2>2, NoneBeforeHome
  <2>5. TableTypeOK'
    BY <1>1, <1>5, <2>2 DEF TableTypeOK
  <2>6. ToBeMoved'
    BY <1>1, <1>5, <2>4 DEF ToBeMoved, TableInv, Growing
  <2> QED
    BY <1>1, <1>5, <2>3, <2>5, <2>6 DEF TableInv, PassedOver, PutOnMiss, Counted
<1> QED
  BY <1>3, <1>4, <1>5 DEF Grow

\* Moving a slot, or going on to the next, loses no key.
LEMMA MoveKeeps == ASSUME TableInv, Move PROVE TableInv' /\ Stored' = Stored
<1>1. /\ TableTypeOK /\ pc = "move" /\ UNCHANGED <<mask, asked, probes, old>>
      /\ mask \in Nat /\ idx \in 0 .. mask /\ from \in Nat /\ asked \in Keys
      /\ from \in DOMAIN old /\ old[from] # Free
      /\ Taken(slots, mask, old[from].key, Dist(HomeOf(old[from].key, mask), idx, mask))
  BY DEF Move, TableInv, TableTypeOK, ToBeMoved
<1>2. PICK n \in Nat : old \in [0 .. n -> Slot]
  BY <1>1 DEF TableTypeOK
<1>3. old[from].key \in Keys /\ old[from] = Entry(old[from].key)
  BY <1>1, <1>2, EntryOfKey
<1>4. CASE Step
  <2>1. /\ Following(idx) \in 0 .. mask
        /\ Taken(slots, mask, old[from].key, Dist(HomeOf(old[from].key, mask), Following(idx), mask))
    BY <1>1, <1>3, <1>4, StepOn DEF Step
  <2>2. Stored' = Stored /\ TableTypeOK'
    BY <1>1, <1>4, <2>1 DEF Step, Stored, Growing, TableTypeOK
  <2>3. ToBeMoved'
    BY <1>1, <1>4, <2>1 DEF ToBeMoved, TableInv, Growing, Step
  <2> QED
    BY <1>1, <1>4, <2>2, <2>3 DEF TableInv, PassedOver, PutOnMiss, Counted, Step
<1>5. CASE /\ slots[idx] = Free /\ slots' = [slots EXCEPT ![idx] = old[from]]
           /\ pc' = "grow" /\ from' = from + 1 /\ UNCHANGED <<idx, size>>
  <2>1. \A j \in 0 .. mask : slots[j] # Entry(old[from].key)
    BY <1>1, <1>3 DEF TableInv, ToBeMoved, Growing
  <2>2. /\ slots' \in [0 .. mask -> Slot]
        /\ NoGap(slots', mask) /\ OncePerKey(slots')
        /\ OccupiedBy(slots') = OccupiedBy(slots) \cup {old[from].key}
        /\ \A j \in 0 .. mask : slots'[j] = slots[j] \/ slots'[j] = old[from]
    BY <1>1, <1>3, <1>5, <2>1, Inserted DEF TableInv
  <2>3. \A i \in DOMAIN old : i >= from <=> i >= from + 1 \/ i = from
    BY <1>1, <1>2
  <2>4. Stored' = Stored
    BY <1>1, <1>5, <2>2, <2>3 DEF Stored, Growing
  <2>5. TableTypeOK'
    BY <1>1, <1>5, <2>2 DEF TableTypeOK
  <2>6. ToBeMoved'
    <3>1. OncePerKey(old)
      BY <1>1 DEF TableInv, ToBeMoved, Growing
    <3>2. \A i \in DOMAIN old : i >= from + 1 /\ old[i] # Free => old[i] # old[from]
      BY <1>1, <1>2, <3>1 DEF OncePerKey
    <3>3. \A i \in DOMAIN old : i >= from /\ old[i] # Free => \A j \in 0 .. mask : slots[j] # old[i]
      BY <1>1 DEF TableInv, ToBeMoved, Growing
    <3>4. \A i \in DOMAIN old : i >= from + 1 /\ old[i] # Free => \A j \in 0 .. mask : slots'[j] # old[i]
      BY <2>2, <2>3, <3>2, <3>3
    <3> QED
      BY <1>1, <1>5, <3>1, <3>4 DEF ToBeMoved, Growing
  <2> QED
    BY <1>1, <1>5, <2>2, <2>4, <2>5, <2>6 DEF TableInv, PassedOver, PutOnMiss, Counted
<1> QED
  BY <1>4, <1>5 DEF Move

\* put goes on, or stores the key and no other.
LEMMA InsertKeeps ==
  ASSUME TableInv, Insert
  PROVE  /\ TableInv'
         /\ \/ pc' = "put" /\ Stored' = Stored
            \/ pc' = "done" /\ Stored' = Stored \cup {asked} /\ Cardinality(Stored) < MaxEntries
<1>1. /\ TableTypeOK /\ pc = "put" /\ UNCHANGED <<mask, asked, probes, old>>
      /\ mask \in Nat /\ idx \in 0 .. mask /\ asked \in Keys /\ size \in Nat
      /\ Taken(slots, mask, asked, Dist(HomeOf(asked, mask), idx, mask))
      /\ asked \notin Stored /\ size < MaxEntries /\ Stored = OccupiedBy(slots)
  BY DEF Insert, TableInv, TableTypeOK, PutOnMiss, Stored, Growing
<1>2. CASE Step
  <2>1. /\ Following(idx) \in 0 .. mask
        /\ Taken(slots, mask, asked, Dist(HomeOf(asked, mask), Following(idx), mask))
    BY <1>1, <1>2, StepOn DEF Step
  <2>2. Stored' = Stored /\ TableTypeOK'
    BY <1>1, <1>2, <2>1 DEF Step, Stored, Growing, TableTypeOK
  <2> QED
    BY <1>1, <1>2, <2>1, <2>2 DEF TableInv, PassedOver, PutOnMiss, ToBeMoved, Counted, Growing, Step
<1>3. CASE /\ slots[idx] = Free /\ slots' = [slots EXCEPT ![idx] = Entry(asked)]
           /\ size' = size + 1 /\ pc' = "done" /\ UNCHANGED <<idx, from>>
  <2>1. \A j \in 0 .. mask : slots[j] # Entry(asked)
    BY <1>1, KeyInSlots
  <2>2. /\ slots' \in [0 .. mask -> Slot]
        /\ NoGap(slots', mask) /\ OncePerKey(slots')
        /\ OccupiedBy(slots') = OccupiedBy(slots) \cup {asked}
    BY <1>1, <1>3, <2>1, Inserted DEF TableInv
  <2>3. Stored' = Stored \cup {asked}
    BY <1>1, <1>3, <2>2 DEF Stored, Growing
  <2>4. Counted' /\ Cardinality(Stored) < MaxEntries
    BY <1>1, <1>3, <2>3, FS_AddElement DEF TableInv, Counted
  <2>5. TableTypeOK'
    BY <1>1, <1>3, <2>2 DEF TableTypeOK
  <2> QED
    BY <1>1, <1>3, <2>2, <2>3, <2>4, <2>5 DEF TableInv, PassedOver, PutOnMiss, ToBeMoved, Growing
<1> QED
  BY <1>2, <1>3 DEF Insert

-----------------------------------------------------------------------------
(* The theorems                                                            *)

\* The invariant of the table holds in every state.
LEMMA TableInvariant == TableSpec => []TableInv
<1>1. TableInv /\ [Next]_vars => TableInv'
  <2> SUFFICES ASSUME TableInv, [Next]_vars PROVE TableInv'
    OBVIOUS
  <2>1. CASE UNCHANGED vars
    BY <2>1 DEF vars, TableInv, TableTypeOK, NoGap, PassedOver, PutOnMiss, ToBeMoved, Counted, Stored, Growing
  <2> QED
    BY <2>1, LookupKeeps, ProbeKeeps, NotDecodedKeeps, PutKeeps, GrowKeeps, MoveKeeps, InsertKeeps
    DEF Next, Running
<1> QED
  BY TableInit, <1>1, PTL DEF TableSpec

\* Every behaviour of the table is one of the set of its keys: a lookup finds a
\* key exactly if it was put, and growing loses and duplicates none.
THEOREM TableImplementsSet == TableSpec => ImplementsSet
<1> DEFINE status == CASE pc = "lookup" -> "asked"
                       [] pc \in {"grow", "move", "put"} -> "miss"
                       [] OTHER -> pc
<1>1. Init => Table!Init
  <2> SUFFICES ASSUME Init PROVE Table!Init
    OBVIOUS
  <2>1. Stored = {}
    BY DEF Init, Stored, Growing, OccupiedBy, Allocated
  <2> QED
    BY <2>1 DEF Init, Table!Init
<1>2. TableInv /\ TableInv' /\ [Next]_vars => [Table!Next]_<<Stored, asked, status>>
  <2> SUFFICES ASSUME TableInv, [Next]_vars PROVE [Table!Next]_<<Stored, asked, status>>
    OBVIOUS
  <2>1. CASE Lookup
    BY <2>1, LookupKeeps DEF Lookup, Table!Next, Table!Ask
  <2>2. CASE Probe
    BY <2>2, ProbeKeeps DEF Probe, Table!Next, Table!Answer
  <2>3. CASE NotDecoded
    BY <2>3, NotDecodedKeeps DEF NotDecoded, Table!Next, Table!Store
  <2>4. CASE Put
    BY <2>4, PutKeeps DEF Put, Table!Next, Table!Store
  <2>5. CASE Grow
    BY <2>5, GrowKeeps DEF Grow
  <2>6. CASE Move
    BY <2>6, MoveKeeps DEF Move, Step
  <2>7. CASE Insert
    <3>1. pc = "put" /\ asked' = asked /\ status = "miss"
      BY <2>7 DEF Insert
    <3>2. CASE pc' = "put" /\ Stored' = Stored
      BY <3>1, <3>2
    <3>3. CASE pc' = "done" /\ Stored' = Stored \cup {asked} /\ Cardinality(Stored) < MaxEntries
      <4>1. Stored' = IF Table!Cardinality(Stored) < MaxEntries THEN Stored \cup {asked} ELSE Stored
        BY <3>3 DEF Cardinality, Table!Cardinality
      <4>2. status' = "done"
        BY <3>3
      <4> QED
        BY <3>1, <4>1, <4>2 DEF Table!Next, Table!Store
    <3> QED
      BY <2>7, <3>2, <3>3, InsertKeeps
  <2>8. CASE UNCHANGED vars
    BY <2>8 DEF vars, Stored, Growing, OccupiedBy
  <2> QED
    BY <2>1, <2>2, <2>3, <2>4, <2>5, <2>6, <2>7, <2>8 DEF Next, Running
<1> QED
  BY <1>1, <1>2, TableInvariant, PTL DEF TableSpec, ImplementsSet, Table!Spec
-----------------------------------------------------------------------------
(* There is always a free slot                                             *)

Capacity == mask + 1

\* No more than three quarters of the table are taken, and fewer before a put.
HasSpare ==
  /\ Capacity >= 4
  /\ size <= Capacity - Capacity \div 4
  /\ pc \in {"grow", "move", "put"} => size < Capacity - Capacity \div 4

\* The capacity is doubled, the number of keys is not.
LEMMA SpareStays == ASSUME TableInv, HasSpare, [Next]_vars PROVE HasSpare'
<1>1. mask \in Nat /\ size \in Nat
  BY DEF TableInv, TableTypeOK
<1>2. CASE Put
  <2>1. CASE ~(mask' = 2 * (mask + 1) - 1)
    BY <1>1, <1>2, <2>1 DEF Put, HasSpare, Capacity, Crowded
  <2>2. CASE mask' = 2 * (mask + 1) - 1
    <3>1. mask' = mask \/ pc' = "grow"
      BY <1>2, <2>2 DEF Put
    <3>2. mask' + 1 = 2 * Capacity /\ size' = size /\ Capacity \in Nat
      BY <1>1, <1>2, <2>2 DEF Put, Capacity
    <3>3. \A c \in Nat : c >= 4 => /\ 2 * c >= 4
                                 /\ c < 2 * c - (2 * c) \div 4
                                 /\ c - c \div 4 <= c
      OBVIOUS
    <3>4. size < 2 * Capacity - (2 * Capacity) \div 4
      BY <1>1, <3>2, <3>3 DEF HasSpare
    <3> QED
      BY <1>1, <3>2, <3>3, <3>4 DEF HasSpare, Capacity
  <2> QED
    BY <2>1, <2>2
<1>3. CASE Insert
  BY <1>1, <1>3 DEF Insert, Step, HasSpare, Capacity
<1>4. CASE Lookup \/ Probe \/ NotDecoded \/ Grow \/ Move \/ UNCHANGED vars
  <2>1. mask' = mask /\ size' = size
    BY <1>4 DEF Lookup, Probe, NotDecoded, Grow, Move, Step, vars
  <2>2. pc' \in {"grow", "move", "put"} => pc \in {"grow", "move", "put"}
    BY <1>4 DEF Lookup, Probe, NotDecoded, Grow, Move, Step, vars
  <2> QED
    BY <2>1, <2>2 DEF HasSpare, Capacity
<1> QED
  BY <1>2, <1>3, <1>4 DEF Next, Running

\* The keys in the slots are fewer than the slots.
LEMMA NotAllTaken ==
  ASSUME TableInv, HasSpare
  PROVE  \E i \in DOMAIN slots : slots[i] = Free
<1> SUFFICES ASSUME \A i \in DOMAIN slots : slots[i] # Free PROVE FALSE
  OBVIOUS
<1>1. /\ mask \in Nat /\ slots \in [0 .. mask -> Slot] /\ size \in Nat
      /\ OncePerKey(slots) /\ IsFiniteSet(Stored) /\ Cardinality(Stored) = size
  BY DEF TableInv, TableTypeOK, Counted
<1> DEFINE keys == [i \in 0 .. mask |-> slots[i].key]
<1>2. \A i \in 0 .. mask : keys[i] \in Stored
  BY <1>1 DEF Stored, OccupiedBy
<1>3. \A i \in 0 .. mask : slots[i] = Entry(keys[i])
  BY <1>1, EntryOfKey
<1>4. \A i, j \in 0 .. mask : keys[i] = keys[j] => i = j
  BY <1>1, <1>3 DEF OncePerKey
<1>5. keys \in Injection(0 .. mask, Stored)
  BY <1>2, <1>4 DEF Injection, IsInjective
<1>6. Cardinality(0 .. mask) <= Cardinality(Stored)
  BY <1>1, <1>5, FS_Injection
<1>7. Cardinality(0 .. mask) = mask + 1
  <2>1. Cardinality(0 .. mask) = IF 0 > mask THEN 0 ELSE mask - 0 + 1
    BY <1>1, FS_Interval
  <2> QED
    BY <1>1, <2>1
<1>8. size < mask + 1
  BY <1>1 DEF HasSpare, Capacity
<1> QED
  BY <1>1, <1>6, <1>7, <1>8

\* A table that begins with at least four slots, as it does (keys.rs:6 begins
\* with 64), has a free one whenever a lookup, a put or a move is looking for
\* it: the table grows before it is full, and growing takes no room away.
THEOREM AFreeSlotIsLeft ==
  ASSUME DefaultCapacity >= 4 PROVE TableSpec => []SlotIsFree
<1>1. Init => HasSpare
  <2> SUFFICES ASSUME Init PROVE HasSpare
    OBVIOUS
  <2>1. mask + 1 = DefaultCapacity /\ size = 0 /\ pc = "none" /\ DefaultCapacity \in Nat
    BY TableAssumption DEF Init
  <2>2. \A c \in Nat : 0 <= c - c \div 4
    OBVIOUS
  <2> QED
    BY <2>1, <2>2 DEF HasSpare, Capacity
<1>2. TableInv /\ HasSpare => SlotIsFree
  BY NotAllTaken DEF SlotIsFree
<1> QED
  BY <1>1, <1>2, TableInvariant, SpareStays, PTL DEF TableSpec
=============================================================================
