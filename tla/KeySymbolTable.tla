--------------------------- MODULE KeySymbolTable ---------------------------
(***************************************************************************)
(* keys.rs: the hash table that interned keys are looked up in and put      *)
(* into, one probe a step.  A lookup that misses is followed by a put of    *)
(* the same key (tokenizer.rs 1041-1047), unless the key cannot be decoded. *)
(*                                                                         *)
(* A slot holds the hash and the bytes of a key; the text stored with them  *)
(* is theirs.  The capacity is a power of two, so that & mask is a modulus. *)
(***************************************************************************)
EXTENDS Integers, FiniteSets

CONSTANTS
  Keys,
  NoKey,            \* what is in an empty slot
  HashOf,           \* the hash of each key
  DefaultCapacity,  \* capacity of a new table
  MaxEntries        \* keys the table holds at most

ASSUME TableAssumption ==
  /\ NoKey \notin Keys
  /\ HashOf \in [Keys -> Nat]
  /\ DefaultCapacity \in Nat \ {0}
  /\ MaxEntries \in Nat

VARIABLES
  slots, mask, size,  \* struct KeySymbolTable
  pc,                 \* what the table is doing
  asked,              \* the key of the call
  idx, probes,        \* local variables of its loops
  old, from           \* local variables of grow: the slots to move, and the next of them

vars == <<slots, mask, size, pc, asked, idx, probes, old, from>>

Free == [hash |-> 0, key |-> NoKey]
Entry(k) == [hash |-> HashOf[k], key |-> k]

Home(hash) == hash % (mask + 1)

\* Mutant: the end of the table is not wrapped round.
FollowingStuck(i) == IF i = mask THEN i ELSE i + 1

Following(i) == IF i = mask THEN 0 ELSE i + 1

Allocated(capacity) == [i \in 0 .. capacity - 1 |-> Free]

Init ==
  /\ mask = DefaultCapacity - 1 /\ slots = Allocated(DefaultCapacity) /\ size = 0
  /\ pc = "none" /\ asked \in Keys
  /\ idx = 0 /\ probes = 0 /\ old = slots /\ from = 0

-----------------------------------------------------------------------------
(* lookup                                                                  *)

Lookup ==
  /\ pc \in {"none", "hit", "done"}
  /\ asked' \in Keys
  /\ pc' = "lookup" /\ idx' = Home(HashOf[asked']) /\ probes' = 0
  /\ UNCHANGED <<slots, mask, size, old, from>>

\* Mutant: equal hashes are taken for equal keys.
SameHash == slots[idx].hash = HashOf[asked]

Same == slots[idx] = Entry(asked)

Probe ==
  /\ pc = "lookup"
  /\ \/ slots[idx] = Free /\ pc' = "miss" /\ UNCHANGED <<idx, probes>>
     \/ slots[idx] # Free /\ Same /\ pc' = "hit" /\ UNCHANGED <<idx, probes>>
     \/ /\ slots[idx] # Free /\ ~Same
        /\ idx' = Following(idx) /\ probes' = probes + 1
        /\ pc' = IF probes' > mask THEN "miss" ELSE "lookup"
  /\ UNCHANGED <<slots, mask, size, asked, old, from>>

-----------------------------------------------------------------------------
(* put and grow                                                            *)

\* The bytes were no text: decode_key returns an error.
NotDecoded ==
  /\ pc = "miss" /\ pc' = "done"
  /\ UNCHANGED <<slots, mask, size, asked, idx, probes, old, from>>

\* Mutant: the table may become full.
CrowdedLate == size > mask + 1

Crowded == size >= mask + 1 - (mask + 1) \div 4

Put ==
  /\ pc = "miss"
  /\ \/ size >= MaxEntries /\ pc' = "done" /\ UNCHANGED <<slots, mask, idx, old, from>>
     \/ /\ size < MaxEntries /\ ~Crowded
        /\ pc' = "put" /\ idx' = Home(HashOf[asked])
        /\ UNCHANGED <<slots, mask, old, from>>
     \/ /\ size < MaxEntries /\ Crowded
        /\ pc' = "grow" /\ old' = slots /\ from' = 0
        /\ mask' = 2 * (mask + 1) - 1 /\ slots' = Allocated(2 * (mask + 1))
        /\ UNCHANGED idx
  /\ UNCHANGED <<size, asked, probes>>

\* The next of the old slots, or the put that made the table grow.
Grow ==
  /\ pc = "grow"
  /\ \/ /\ from \notin DOMAIN old
        /\ pc' = "put" /\ idx' = Home(HashOf[asked]) /\ UNCHANGED from
     \/ /\ from \in DOMAIN old /\ old[from] = Free
        /\ from' = from + 1 /\ UNCHANGED <<pc, idx>>
     \/ /\ from \in DOMAIN old /\ old[from] # Free
        /\ pc' = "move" /\ idx' = Home(old[from].hash) /\ UNCHANGED from
  /\ UNCHANGED <<slots, mask, size, asked, probes, old>>

Step ==
  /\ slots[idx] # Free /\ idx' = Following(idx)
  /\ UNCHANGED <<slots, pc, size, from>>

Move ==
  /\ pc = "move"
  /\ \/ Step
     \/ /\ slots[idx] = Free
        /\ slots' = [slots EXCEPT ![idx] = old[from]]
        /\ pc' = "grow" /\ from' = from + 1 /\ UNCHANGED <<idx, size>>
  /\ UNCHANGED <<mask, asked, probes, old>>

Insert ==
  /\ pc = "put"
  /\ \/ Step
     \/ /\ slots[idx] = Free
        /\ slots' = [slots EXCEPT ![idx] = Entry(asked)]
        /\ size' = size + 1
        /\ pc' = "done" /\ UNCHANGED <<idx, from>>
  /\ UNCHANGED <<mask, asked, probes, old>>

-----------------------------------------------------------------------------
Running == Probe \/ Grow \/ Move \/ Insert
Next == Lookup \/ NotDecoded \/ Put \/ Running

TableSpec == Init /\ [][Next]_vars

\* A call that has begun runs until it returns.
Spec == TableSpec /\ WF_vars(Running)
=============================================================================
