----------------------------- MODULE MCKeyTable -----------------------------
EXTENDS KeyTableProperties

\* Two keys with one hash, hashes that meet in small tables and part in larger
\* ones, and homes at the end of the table, from which probing wraps round.
MCHashes == <<3, 3, 7, 15, 0, 12, 11, 4>>
MCKeys == DOMAIN MCHashes
=============================================================================
