---------------------------- MODULE InternedKeys ----------------------------
(***************************************************************************)
(* What the tokenizer relies on of the key symbol table: a set of keys that *)
(* only grows, up to MaxEntries, and answers of a lookup that are right.    *)
(***************************************************************************)
EXTENDS Integers, FiniteSets

CONSTANTS Keys, MaxEntries

VARIABLES
  interned,  \* the keys in the table
  asked,     \* the key of the last call
  answer     \* "none", "asked", then "hit" or "miss", and "done" after a put

Init == interned = {} /\ asked \in Keys /\ answer = "none"

Ask ==
  /\ answer \in {"none", "hit", "done"}
  /\ asked' \in Keys
  /\ answer' = "asked"
  /\ UNCHANGED interned

Answer ==
  /\ answer = "asked"
  /\ answer' = IF asked \in interned THEN "hit" ELSE "miss"
  /\ UNCHANGED <<interned, asked>>

\* After a miss the key is stored, unless the table is full or the key turns
\* out to be no text.
Store ==
  /\ answer = "miss"
  /\ answer' = "done"
  /\ \/ interned' = IF Cardinality(interned) < MaxEntries THEN interned \cup {asked} ELSE interned
     \/ UNCHANGED interned
  /\ UNCHANGED asked

Next == Ask \/ Answer \/ Store

Spec == Init /\ [][Next]_<<interned, asked, answer>>
=============================================================================
