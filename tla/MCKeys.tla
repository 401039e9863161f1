------------------------------ MODULE MCKeys ------------------------------
EXTENDS ParserProperties

MCLiterals == [b \in {} |-> <<>>]
MCLimits == {Unlimited}

\* Keys as they may be written: two of them are the same text.
Keys ==
  {<<"1">>, <<"0", "1">>, <<"C3", "82">>, <<"1", "1", "1">>, <<"E2", "82", "AC">>,
   <<Backslash, "u", "20AC">>, <<Backslash, "n">>, <<"n">>}

Field(key) == <<Quote>> \o key \o <<Quote, ":">>

\* Objects with two keys, side by side or around an object that has both, and
\* with three.
Scripts ==
  {<<"{">> \o Field(a) \o <<"0", ",">> \o Field(b) \o <<"0", "}">> : a \in Keys, b \in Keys}
  \cup {<<"{">> \o Field(a) \o <<"{">> \o Field(b) \o <<"0", ",">> \o Field(a) \o <<"1", "}", ",">>
          \o Field(b) \o <<"0", "}">> : a \in Keys, b \in Keys}
  \cup {<<"{">> \o Field(a) \o <<"0", ",">> \o Field(b) \o <<"0", ",">> \o Field(c) \o <<"0", "}">> :
          a \in Keys, b \in {<<"1">>, <<"n">>}, c \in {<<"1">>, <<"E2", "82", "AC">>}}

ScriptBytes == UNION {{s[i] : i \in DOMAIN s} : s \in Scripts}
Begun == {SubSeq(s, 1, AtMost(n, Len(s))) : s \in Scripts, n \in 1 .. MaxDoc}
MCAlphabet == ScriptBytes
MCWritten == Begun
==============================================================================
