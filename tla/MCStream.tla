------------------------------ MODULE MCStream -------------------------------
EXTENDS ParserProperties

MCLiterals == [b \in {"t", "n"} |-> IF b = "t" THEN <<"r", "u", "e">> ELSE <<"u", "l", "l">>]
MCLimits == {[Unlimited EXCEPT !.max_document_length = n] : n \in {NoLimit, 12}}
U(h) == <<Backslash, "u", h>>

\* Documents with every kind of line end, character width and token in them,
\* a byte order mark, and line ends on both sides of one another; keys that
\* fill the ring exactly or are longer than it, and other tokens that may
\* begin anywhere in it.
Scripts ==
  {<<"EF", "BB", "BF", "CR", "LF", "[", "1", "0", "LF", "CR", ",", "t", "r", "u", "e", "CR", "CR", "LF", "]", "SP">>,
   <<"{", Quote>> \o U("D83D") \o U("DE00") \o <<Quote, "CR", "LF", ":", "SP",
     Quote, "F0", "9F", "98", "80", Backslash, "n", "1">> \o U("20AC") \o <<Quote, "LF", "LF", "}">>,
   <<"[", Quote, "1", "C3", "82", "E2", "82", "AC", "1", "1", Quote, ",", "SP", "-", "1", ".", "0", "LF", "]">>,
   <<"{", Quote, "1", "C3", "82", "1", "1", "1", Quote, ":", "t", "r", "u", "e", "}">>,
   <<"{", Quote, "1", "1", "C3", "82", "1", "1", "1", Quote, ":">>,
   <<"[", Quote, "1">> \o U("20AC") \o <<"C3", "82">> \o U("D83D") \o <<"1", "F0", "9F", "98", "80", Quote,
     ",", "n", "u", "l", "l", "]">>,
   <<"[", Quote, "1">> \o U("D83D") \o U("DE00") \o <<Quote, "]">>,
   <<"[", "1", "0", "1", "0", "1", "0", "SP", "SP", "SP", "SP", "SP", "SP", "]">>,
   <<"EF", "BB", "BF", "n", "u", "1">>,
   <<"EF", "BB", "1">>}

ScriptBytes == UNION {{s[i] : i \in DOMAIN s} : s \in Scripts}
Begun == UNION {{SubSeq(s, 1, n) : n \in 1 .. Len(s)} : s \in Scripts}
MCAlphabet == ScriptBytes
MCWritten == Begun
==============================================================================
