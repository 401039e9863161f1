--------------------------- MODULE ContentHandler ---------------------------
(***************************************************************************)
(* What the parser promises a content handler, written without the parser: *)
(* the order in which the callbacks of handler.rs may come.  It holds of   *)
(* every prefix of the callbacks, so also of a document that is refused    *)
(* later.  Whitespace may be reported anywhere and is left out.            *)
(***************************************************************************)
EXTENDS Integers, Sequences

VARIABLES
  open,   \* the brackets the handler has seen open, innermost last
  last    \* the last callback, "none" before the first

protocolVars == <<open, last>>

ValueEnds == {"literal", "number_value", "end_string_value", "end_object", "end_array"}

In(bracket) == open # <<>> /\ open[Len(open)] = bracket

\* A value may come first, after a key, and anywhere in an array.
ValueMayCome ==
  \/ last \in {"none", "key"}
  \/ In("StartArray") /\ last \in {"start_array"} \cup ValueEnds

Begin == open = <<>> /\ last = "none"

Scalar == ValueMayCome /\ last' \in {"literal", "number_value"} /\ open' = open

StringBegins == ValueMayCome /\ last' = "start_string_value" /\ open' = open

InString == last \in {"start_string_value", "string_value_content"}

StringContent == InString /\ last' = "string_value_content" /\ open' = open

StringEnds == InString /\ last' = "end_string_value" /\ open' = open

KeyMayCome == In("StartObject") /\ last \in {"start_object"} \cup ValueEnds

Key == KeyMayCome /\ last' = "key" /\ open' = open

Opens ==
  /\ ValueMayCome
  /\ \/ last' = "start_object" /\ open' = Append(open, "StartObject")
     \/ last' = "start_array" /\ open' = Append(open, "StartArray")

ArrayMayEnd == In("StartArray") /\ last \in {"start_array"} \cup ValueEnds

Closes ==
  /\ \/ KeyMayCome /\ last' = "end_object"
     \/ ArrayMayEnd /\ last' = "end_array"
  /\ open' = SubSeq(open, 1, Len(open) - 1)

\* The parser is reset and the next document begins.
Restart == Begin'

Callback == Scalar \/ StringBegins \/ StringContent \/ StringEnds \/ Key \/ Opens \/ Closes

ProtocolSpec == Begin /\ [][Callback \/ Restart]_protocolVars
==============================================================================
