-------------------------- MODULE WriterProperties --------------------------
(***************************************************************************)
(* What an application that keeps to the order of ContentHandler may rely  *)
(* on, however small its ring is and whenever it drains it.                *)
(***************************************************************************)
EXTENDS Writer

CONSTANTS
  WrittenDocuments,  \* the JSON documents there are, as in JsonText, without whitespace
  Longest            \* the length up to which these are all of them

JsonOfCalls == {d \in WrittenDocuments : Len(d[1]) <= Longest}

\* The writer is where the application is in its document: a call that was
\* refused, repeated or given up leaves no trace in it (writer.rs 155-159).
PlaceIsKept ==
  /\ writer.depth = Len(open)
  /\ last \in Caller!ValueEnds => writer.state = "AfterValue"
  /\ last = "key" => writer.state = "AfterKey"
  /\ last \in {"start_object", "start_array"} => writer.state = "Init"
  /\ last = "none" => writer.state = "Init0"

\* The length computed before a token is written is the length of what is
\* written: the ring is never written beyond its room.
NeverBeyondTheRing == used <= RingCapacity

Finished == open = <<>> /\ last \in Caller!ValueEnds

\* What a finished document reads as is exactly the calls that succeeded, in
\* whatever pieces and after however many refusals (writer.rs, all of write_*).
WrittenIsJson ==
  Finished /\ Len(Compact) <= Longest => <<Compact, log>> \in JsonOfCalls

Brackets(n, kinds) == Cardinality({i \in 1 .. n : text[i] \in kinds})

\* With indentation, every line begins with the spaces for the brackets that
\* are open there, a closing bracket stands under its opening one, and there
\* are no line ends without indentation.  (No bracket is used in strings.)
IndentFollowsNesting ==
  \A i \in {j \in DOMAIN text : text[j] = "LF"} :
    LET next == CHOOSE j \in i + 1 .. Len(text) :
                  text[j] # "SP" /\ \A k \in i + 1 .. j - 1 : text[k] = "SP"
        depth == Brackets(next, {"{", "["}) - Brackets(next, {"}", "]"})
        inside == IF text[next] \in {"{", "["} THEN depth - 1 ELSE depth
    IN  writer.indent > 0 /\ next - i - 1 = writer.indent * inside

\* The next character of the content, escaped, is too long for the ring.
NextTooLong(string, n) == used' + EscapedCharLen(string[n + 1]) > RingCapacity

\* Content is taken in whole characters from its beginning, and none is left
\* behind that would still fit.
TakesAllThatFits ==
  [][ want.op = "content" /\ result' = "ok"
      => \E n \in 0 .. Len(want.arg) :
           /\ text' = text \o EscapedText(SubSeq(want.arg, 1, n))
           /\ n < Len(want.arg) => n > 0 /\ NextTooLong(want.arg, n) ]_wvars

\* The length of what a call would write now.
Needed(call) ==
  CASE call.op = "key" -> PrefixLen + (2 + EscapedLen(call.arg) + 1)
    [] call.op = "string" -> PrefixLen + (2 + EscapedLen(call.arg))
    [] call.op = "number" -> PrefixLen + Len(call.arg)
    [] call.op = "literal" -> PrefixLen + Len(call.arg \o Literals[call.arg[1]])
    [] call.op \in {"start_object", "start_array", "start_string"} -> PrefixLen + 1
    [] call.op \in {"end_object", "end_array"} -> NewlineLen(OuterDepth) + 1
    [] call.op = "content" -> EscapedCharLen(call.arg[1])
    [] call.op = "end_string" -> 1

\* InvalidInput means that the call can never succeed as it stands: not even
\* with the whole ring free (writer.rs:163).
InvalidMeansNever ==
  result = "invalid" => want.arg = NotFinite \/ Needed(want) > RingCapacity

\* A call that would block does not for ever, when the application drains the
\* ring and repeats it (writer.rs:161; fairness: it does).
BlockedCallEnds == result = "would_block" ~> result # "would_block"
==============================================================================
