------------------------- MODULE KeyTableProperties -------------------------
(***************************************************************************)
(* The symbol table implements the set of its keys.                         *)
(***************************************************************************)
EXTENDS KeySymbolTable

OccupiedBy(table) == {table[i].key : i \in {j \in DOMAIN table : table[j] # Free}}

Growing == pc \in {"grow", "move"}

\* The keys in the table, those of the old slots that are still to be moved
\* included.
Stored ==
  OccupiedBy(slots)
  \cup IF Growing THEN {old[i].key : i \in {j \in DOMAIN old : j >= from /\ old[j] # Free}} ELSE {}

Table == INSTANCE InternedKeys WITH
  interned <- Stored,
  answer <- CASE pc = "lookup" -> "asked"
              [] pc \in {"grow", "move", "put"} -> "miss"
              [] OTHER -> pc

\* A lookup finds a key exactly if it was put, wherever its probes start, wrap
\* round and pass over other keys, and growing loses none (keys.rs 54-110).
ImplementsSet == Table!Spec

\* There is a free slot whenever one is looked for, so that no probing goes
\* round the table in vain (keys.rs:79).
SlotIsFree == pc \in {"lookup", "put", "move"} => \E i \in DOMAIN slots : slots[i] = Free

\* Every lookup and every put returns (fairness: its loops run).
CallsEnd == pc \in {"lookup", "grow", "move", "put"} ~> pc \in {"hit", "miss", "done"}
=============================================================================
