------------------------------ MODULE MCWriter -------------------------------
EXTENDS WriterProperties

MCLiterals == [b \in {"t"} |-> <<"r">>]

Plain2 == <<"C3", "82">>
MCStrings == {<<>>, <<Plain2>>, <<<<"LF">>>>, <<Plain2, Plain2, <<"00">>>>}
MCNumbers == {<<"1">>, <<"1", "1", "1">>}

WriterBytes == {"{", "}", "[", "]", ",", ":", Quote, "1", "t", "r", "C3", "82", Backslash, "n", "u", "0000"}
MCAlphabet == WriterBytes
Compacts == INSTANCE JsonText WITH
  TextBytes <- WriterBytes, BodyBytes <- {"C3", "82"}, EscapeBytes <- {Backslash, "n", "u", "0000"},
  MaxText <- 11
MCDocuments == Compacts!JsonDocuments
==============================================================================
