------------------------------ MODULE MCGrammar ------------------------------
EXTENDS ParserLanguage

MCLiterals == [b \in {"t"} |-> <<"r">>]
MCLimits == {Unlimited}

ArrayBytes == {"[", "]", ",", "1", "t", "r", "SP"}
Arrays == INSTANCE JsonText WITH
  TextBytes <- ArrayBytes, BodyBytes <- {}, EscapeBytes <- {}, MaxText <- 7

ObjectBytes == {"{", "}", ",", ":", Quote, "1"}
Objects == INSTANCE JsonText WITH
  TextBytes <- ObjectBytes, BodyBytes <- {"1"}, EscapeBytes <- {}, MaxText <- 11

NumberBytes == {"-", "0", "1", ".", "e", "+", "SP"}
Numbers == INSTANCE JsonText WITH
  TextBytes <- NumberBytes, BodyBytes <- {}, EscapeBytes <- {}, MaxText <- 6

\* Documents of up to five bytes that begin like byte order marks, or are
\* anything else.
MarkBytes == {"EF", "BB", "BF", "FE", "FF", "00", "1", "[", "]"}
Marked == INSTANCE JsonText WITH
  TextBytes <- MarkBytes, BodyBytes <- {}, EscapeBytes <- {}, MaxText <- 5

MCAlphabet == ArrayBytes \cup ObjectBytes \cup NumberBytes \cup MarkBytes
AllDocuments == Arrays!JsonDocuments \cup Objects!JsonDocuments \cup Numbers!JsonDocuments \cup Marked!JsonDocuments
MCDocuments == AllDocuments
AllWritten ==
  Arrays!NearlyJson \cup Objects!NearlyJson \cup Numbers!NearlyJson
  \cup UNION {[1 .. n -> MarkBytes] : n \in 1 .. 5}
MCWritten == AllWritten
==============================================================================
