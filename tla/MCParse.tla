------------------------------- MODULE MCParse -------------------------------
EXTENDS ParseProperties

MCLiterals == [b \in {"t"} |-> <<"r">>]
MCLimits ==
  {Unlimited, [Unlimited EXCEPT !.max_nesting_depth = 2, !.max_name_length = 1, !.max_string_length = 2]}

\* Documents with every kind of token and callback, and what is in them.
Members == <<"{", Quote, "1", Quote, ":", "1", ",", Quote, "1", Quote, ":", "t", "r", "}">>
Nests == <<"[", "LF", "{", "}", ",", "{", Quote, Backslash, "n", Quote, ":", "[", "]", "}", "]">>
Chars == <<"[", Quote, "1", "C3", "82", "F0", "9F", "98", "80", Backslash, "n", Quote, "]">>
MemberEvents ==
  <<<<"start_object", <<>>>>, <<"key", <<"1">>>>, <<"number_value", <<"1">>>>,
    <<"key", <<"1">>>>, <<"literal", <<"t">>>>, <<"end_object", <<>>>>>>
NestEvents ==
  <<<<"start_array", <<>>>>, <<"start_object", <<>>>>, <<"end_object", <<>>>>,
    <<"start_object", <<>>>>, <<"key", <<"LF">>>>, <<"start_array", <<>>>>, <<"end_array", <<>>>>,
    <<"end_object", <<>>>>, <<"end_array", <<>>>>>>
CharEvents ==
  <<<<"start_array", <<>>>>, <<"string", <<"1", "C3", "82", "F0", "9F", "98", "80", "LF">>>>,
    <<"end_array", <<>>>>>>
Signed == <<"{", Quote, "1", "1", Quote, "SP", ":", "-", "1", "1", "}">>
SignedEvents ==
  <<<<"start_object", <<>>>>, <<"key", <<"1", "1">>>>, <<"number_value", <<"-", "1", "1">>>>,
    <<"end_object", <<>>>>>>
NumberOf(s) == <<s, <<<<"number_value", s>>>>>>
MCDocuments ==
  {<<Members, MemberEvents>>, <<Append(Members, "SP"), MemberEvents>>, <<Nests, NestEvents>>,
   <<Chars, CharEvents>>, <<Signed, SignedEvents>>, NumberOf(<<"1">>), NumberOf(<<"-", "0">>),
   NumberOf(<<"1", "1">>)}

\* These, some with a byte too many, and malformed ones.
Scripts ==
  {Append(Members, "SP"), Append(Nests, "]"), Append(Chars, "1"), Signed,
   <<"[", Quote, "C3", "1", "82", Quote, "t", "SP", "t", "r", "]">>,
   <<"{", Quote, "C3", "1", Quote, "SP", ":">>,
   <<"{", Quote, "82", "1", Quote, "SP", ":">>,
   <<"{", Quote, "1", "1", "F0", "9F", "98", "80", Quote, ":">>,
   <<"{", Quote, "1", "1", "1", "1", "1", "1", "1", Quote, ":">>,
   <<"{", Quote, Backslash, "1", Quote, ":">>,
   <<"{", Quote, "1", "1", "1", Backslash, "u", "20AC", Quote>>,
   <<"{", Quote, "1", "LF">>, <<"-", "0", "1">>, <<"1", "1", "e", "}">>, <<"t", "1">>,
   <<Quote, "1", "LF">>, <<Quote, Backslash, "1">>, <<Quote, "82", "1">>}

MCRefusable ==
  {"start_object", "end_object", "start_array", "end_array", "start_string_value", "end_string_value",
   "key", "number_value", "literal", "whitespace", "string_value_content"}

ScriptBytes == UNION {{s[i] : i \in DOMAIN s} : s \in Scripts}
Begun == {SubSeq(s, 1, AtMost(n, Len(s))) : s \in Scripts, n \in 1 .. MaxDoc}
MCAlphabet == ScriptBytes
MCWritten == Begun
==============================================================================
