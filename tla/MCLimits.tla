------------------------------ MODULE MCLimits -------------------------------
EXTENDS ParserLanguage

MCLiterals == [b \in {} |-> <<>>]
MCAlphabet == {"{", "}", "[", "]", ",", ":", "1", Quote, Backslash, "n"}
Short == INSTANCE JsonText WITH
  TextBytes <- MCAlphabet, BodyBytes <- {"1"}, EscapeBytes <- {Backslash, "n"}, MaxText <- MaxDoc

\* One limit at a time, each from 0 on.
MCLimits ==
  {[Unlimited EXCEPT ![name] = n] : name \in LimitNames, n \in 0 .. 1}
  \cup {[Unlimited EXCEPT ![name] = n] :
          name \in {"max_number_length", "max_token_count", "max_string_length", "max_document_length"}, n \in 2 .. 3}
  \cup {[Unlimited EXCEPT !.max_document_length = 7]}

MCDocuments == Short!JsonDocuments
MCWritten == Short!Beginnings
==============================================================================
