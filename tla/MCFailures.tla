------------------------------ MODULE MCFailures ------------------------------
EXTENDS ParserProperties

MCLiterals == [b \in {"t"} |-> <<"r">>]
MCLimits ==
  {Unlimited, [Unlimited EXCEPT !.max_string_length = 5, !.max_nesting_depth = 1, !.max_token_count = 5]}

\* Documents with every kind of callback and errors of syntax after them;
\* strings and keys of every length around the sizes of the buffer, where an
\* escape past the limit and a control byte leave text in it; and nests opened
\* and closed around one another.  The handler never refuses string content:
\* it would get it again every time the caller goes on.
Scripts ==
  {<<"{", Quote, "1", Quote, ":", "1", ",", Quote, "1", Quote, ":", "t", "r", "}", "SP">>,
   <<"[", "LF", "{", "}", ",", "{", Quote, Backslash, "n", Quote, ":", "[", "]", "}", "]", "]">>,
   <<"[", Quote, "C3", "1", "82", Quote, "t", "SP", "t">>,
   <<"[", Quote, Quote, "SP", ",", Backslash, "n", "LF", "1">>,
   <<"[", Quote, "1", "1", "1", Backslash, "n", Backslash, "n", "1", "1", Quote>>,
   <<"[", Quote, "1", "1", "C3", "82", "E2", "82", "AC", "1", Quote, "]">>,
   <<"[", Quote, "1", "1", "1", "1", "1", "LF", "1">>,
   <<"{", Quote, Quote, ":", "{", "}", ",", "1", "}">>, <<"{", ",", "}">>, <<"[", "]", "]">>}

MCRefusable ==
  {"start_object", "end_object", "start_array", "end_array", "start_string_value", "end_string_value",
   "key", "number_value", "literal", "whitespace"}

ScriptBytes == UNION {{s[i] : i \in DOMAIN s} : s \in Scripts}
Begun == {SubSeq(s, 1, AtMost(n, Len(s))) : s \in Scripts, n \in 1 .. MaxDoc}
MCAlphabet == ScriptBytes
MCWritten == Begun
==============================================================================
