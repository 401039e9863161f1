------------------------------- MODULE MCText --------------------------------
EXTENDS ParserLanguage

MCLiterals == [b \in {} |-> <<>>]
MCLimits == {Unlimited}

\* Every prefix of a set of texts.
Begun(texts) == UNION {{SubSeq(s, 1, n) : n \in 1 .. Len(s)} : s \in texts}

\* Strings of escapes: what can still become one, a quote anywhere, and any
\* byte inside an escape.
EscapeMarks == {Quote, Backslash, "u", "D83D", "DE00", "n"}
Escaping == INSTANCE JsonText WITH
  TextBytes <- EscapeMarks, BodyBytes <- {}, EscapeBytes <- EscapeMarks, MaxText <- 9
NearlyEscapes ==
  LET begun == Escaping!Beginnings
  IN  begun \cup {Append(t, Quote) : t \in begun}
      \cup {Append(t, b) : t \in {s \in begun : s # <<>> /\ s[Len(s)] \in {Backslash, "u"}},
                           b \in EscapeMarks}

\* Strings of up to four bytes, well-formed or not, and longer ones that are
\* not malformed before their last byte.
CharBytes == {"C3", "9F", "82", "F0", "1"}
Utf8 == INSTANCE JsonText WITH
  TextBytes <- CharBytes \cup {Quote}, BodyBytes <- CharBytes, EscapeBytes <- {}, MaxText <- 8
StringsOfBytes ==
  {<<Quote>> \o w \o <<Quote>> : w \in UNION {[1 .. n -> CharBytes] : n \in 0 .. 4}}

\* Objects of one member, with a key of up to three bytes, well-formed or not,
\* or an escaped half of a pair and one byte more.
KeyBytes == {"s", "C3", "82", "u"}
EscapeInKey == {Backslash, "u", "D83D", "DE00", Quote}
KeyTexts == INSTANCE JsonText WITH
  TextBytes <- {Quote} \cup KeyBytes \cup EscapeInKey,
  BodyBytes <- KeyBytes, EscapeBytes <- EscapeInKey, MaxText <- 6
OneMember ==
  {<<<<"{">> \o d[1] \o <<":", "1", "}">>,
     <<<<"start_object", <<>>>>, <<"key", d[2][1][2]>>, <<"number_value", <<"1">>>>, <<"end_object", <<>>>>>>>> :
   d \in KeyTexts!JsonDocuments}
HalfPairs == {<<Backslash, "u", h>> : h \in {"D83D", "DE00"}}
KeysOfBytes ==
  LET bytes == KeyBytes \cup {Backslash, Quote}
  IN  UNION {[1 .. n -> bytes] : n \in 0 .. 3}
      \cup HalfPairs \cup {Append(h, b) : h \in HalfPairs, b \in bytes}
ObjectsOfKeys == {<<"{", Quote>> \o w \o <<Quote, ":", "1", "}">> : w \in KeysOfBytes}

MCAlphabet == EscapeMarks \cup CharBytes \cup {"{", "}", ":"} \cup KeyBytes
AllDocuments == Escaping!JsonDocuments \cup Utf8!JsonDocuments \cup OneMember
MCDocuments == AllDocuments
AllWritten == NearlyEscapes \cup Utf8!NearlyJson \cup Begun(StringsOfBytes) \cup Begun(ObjectsOfKeys)
MCWritten == AllWritten
==============================================================================
