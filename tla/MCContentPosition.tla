------------------------------ MODULE MCContentPosition ------------------------------
EXTENDS ParserClaims

MCLiterals == [b \in {} |-> <<>>]
MCLimits == {Unlimited}

\* A string one byte longer than the buffer its content is decoded into.
Scripts == {<<Quote, "1", "1", "1", "1", "1", Quote>>}
ScriptBytes == UNION {{s[i] : i \in DOMAIN s} : s \in Scripts}
Begun == {SubSeq(s, 1, AtMost(n, Len(s))) : s \in Scripts, n \in 1 .. MaxDoc}
MCAlphabet == ScriptBytes
MCWritten == Begun
==============================================================================
