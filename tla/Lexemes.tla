------------------------------- MODULE Lexemes -------------------------------
(***************************************************************************)
(* The lexical layer of the tokenizer: what the free functions at the end  *)
(* of tokenizer.rs (scan_plain, decode_char_at, parse_escape, ...), the    *)
(* number stages and check_bom say about the bytes of an input.            *)
(*                                                                         *)
(* A byte is a string naming it.  One symbol stands for a class of bytes   *)
(* the code treats alike: two digits, one byte of each UTF-8 length, and   *)
(* one symbol for the four hex digits of a \u escape (see the README).     *)
(* Offsets count from 0, as in the code; input[i] is Byte(input, i).       *)
(***************************************************************************)
EXTENDS Integers, Sequences, FiniteSets

CONSTANTS
  Alphabet,         \* the bytes documents are made of
  Literals          \* first byte of each literal -> the bytes that follow it

\* Results of a scan that has no length: more data is needed to tell, or the
\* bytes that are there are already wrong.
More == -1
Bad == -2

Quote == "\""
Backslash == "\\"
Digits == {"0", "1"}
Whitespaces == {"SP", "LF", "CR"}
Controls == {"LF", "CR", "00"}

\* The classes of bytes above 0x7F: lead bytes with the length of their
\* character, continuation bytes, and bytes no UTF-8 text contains.
LeadLength == [b \in {"C3", "E2", "EF", "F0"} |->
                 IF b = "C3" THEN 2 ELSE IF b = "F0" THEN 4 ELSE 3]
Leads == {"C3", "E2", "EF", "F0"}
Continuations == {"BB", "BF", "BD", "82", "AC", "9F", "98", "80"}
\* After a lead of four bytes these encode what a shorter character should.
OverlongSeconds == {"82", "80"}
NeverUtf8 == {"FE", "FF"}
Ascii(b) == b \notin Leads \cup Continuations \cup NeverUtf8

\* The four hex digits after \u, by what they encode: a high and a low half
\* of a surrogate pair, a character of the basic plane, a control character.
HexGroups == {"D83D", "DE00", "20AC", "0000"}

\* The characters that follow a backslash and stand for one character.
SimpleEscapes == {Quote, Backslash, "/", "n"}

\* Every symbol a text may be made of.
Symbols ==
  Digits \cup Whitespaces \cup Controls \cup Leads \cup Continuations \cup NeverUtf8
  \cup HexGroups \cup SimpleEscapes
  \cup {"{", "}", "[", "]", ",", ":", "-", "+", ".", "e", "t", "r", "u", "f", "a", "l", "s"}

Byte(input, i) == input[i + 1]
Slice(input, from, to) == SubSeq(input, from + 1, to)

IsMin(n, S) == n \in S /\ \A m \in S : n <= m
AtMost(a, b) == IF a <= b THEN a ELSE b

-----------------------------------------------------------------------------
(* Plain runs and UTF-8 characters                                         *)

\* A byte of plain string content: not a quote, backslash or control byte.
Plain(b) == b \notin {Quote, Backslash} \cup Controls

\* [from, stop) is the longest run of plain bytes before `to'.
PlainRun(input, from, stop, to) ==
  /\ \A i \in from .. stop - 1 : Plain(Byte(input, i))
  /\ stop < to => ~Plain(Byte(input, stop))

\* The length of the character at i, using no byte at or after `end', as far
\* as lead and continuation bytes tell.
SequenceLength(input, i, end) ==
  LET b == Byte(input, i)
      present == {k \in 1 .. LeadLength[b] - 1 : i + k < end}
  IN  IF Ascii(b) THEN 1
      ELSE IF b \notin Leads THEN Bad
      ELSE IF \E k \in present : Byte(input, i + k) \notin Continuations THEN Bad
      ELSE IF i + LeadLength[b] > end THEN More
      ELSE LeadLength[b]

OverlongAt(input, i, end) ==
  Byte(input, i) = "F0" /\ i + 1 < end /\ Byte(input, i + 1) \in OverlongSeconds

\* The length of the character at i, as std::str::from_utf8 has it: an
\* overlong form is malformed as soon as its second byte is there.
CharLength(input, i, end) ==
  IF OverlongAt(input, i, end) THEN Bad ELSE SequenceLength(input, i, end)

\* The same as decode_char_at has it, which looks for an overlong form only
\* once all of its bytes are there.
CharLengthWhole(input, i) ==
  IF SequenceLength(input, i, Len(input)) = More THEN More ELSE CharLength(input, i, Len(input))

\* [from, to) is a sequence of whole UTF-8 characters: every lead byte has
\* its continuation bytes in the slice and every continuation byte its lead.
ValidUtf8(input, from, to) ==
  \A i \in from .. to - 1 :
    \/ Ascii(Byte(input, i))
    \/ CharLength(input, i, to) > 0
    \/ /\ Byte(input, i) \in Continuations
       /\ \E k \in 1 .. 3 :
            /\ i - k >= from
            /\ Byte(input, i - k) \in Leads
            /\ CharLength(input, i - k, to) > k

\* Mutant: a slice is taken whole, a character cut by its end included.
ValidUpToEnd(input, from, stop, to) == stop = to

\* std::str::from_utf8(input[from .. to)) is valid up to `stop'.
ValidUpTo(input, from, stop, to) ==
  IsMin(-stop, {-q : q \in {r \in from .. to : ValidUtf8(input, from, r)}})

\* Mutant: a character outside the basic plane is one unit.
UnitsOfCharacters(text) == Cardinality({i \in DOMAIN text : text[i] \notin Continuations})

\* UTF-16 units of a UTF-8 text: one per character, two for a 4-byte one.
Units(text) ==
  Cardinality({i \in DOMAIN text : text[i] \notin Continuations})
  + Cardinality({i \in DOMAIN text : text[i] = "F0"})

-----------------------------------------------------------------------------
(* Escape sequences                                                        *)

Unescaped(c) == IF c = "n" THEN "LF" ELSE c

\* The length of the single escape at i (parse_escape).
UnitLength(input, i) ==
  LET n == Len(input) - i
  IN  IF n < 2 THEN More
      ELSE IF Byte(input, i + 1) \in SimpleEscapes THEN 2
      ELSE IF Byte(input, i + 1) # "u" THEN Bad
      ELSE IF n < 3 THEN More
      ELSE IF Byte(input, i + 2) \in HexGroups THEN 3 ELSE Bad

\* How many bytes there are from j on; a group of hex digits is four.
BytesFrom(input, j) ==
  Len(input) - j + 3 * Cardinality({i \in j .. Len(input) - 1 : Byte(input, i) \in HexGroups})

LowSurrogateAt(input, j) ==
  Len(input) - j >= 3 /\ SubSeq(input, j + 1, j + 3) = <<Backslash, "u", "DE00">>

\* What follows an escaped high surrogate at j (low_surrogate_follows):
\* an escaped low surrogate, something else, or too few bytes to tell.
LowSurrogateFollows(input, j) ==
  LET n == Len(input) - j
  IN  IF n = 0 THEN "NeedMore"
      ELSE IF Byte(input, j) # Backslash THEN "Not"
      ELSE IF n = 1 THEN "NeedMore"
      ELSE IF Byte(input, j + 1) # "u" THEN "Not"
      ELSE IF BytesFrom(input, j) < 6 THEN "NeedMore"
      ELSE IF LowSurrogateAt(input, j) THEN "Low" ELSE "Not"

HighSurrogateAt(input, i) ==
  UnitLength(input, i) = 3 /\ Byte(input, i + 2) = "D83D"

\* Mutant: half a pair at the end of the input is taken on its own.
EscapeLengthUnpaired(input, i) ==
  IF HighSurrogateAt(input, i) /\ LowSurrogateFollows(input, i + 3) = "Low" THEN 6
  ELSE UnitLength(input, i)

\* The length of the escape at i, a surrogate pair taken together.
EscapeLength(input, i) ==
  IF ~HighSurrogateAt(input, i) THEN UnitLength(input, i)
  ELSE CASE LowSurrogateFollows(input, i + 3) = "NeedMore" -> More
         [] LowSurrogateFollows(input, i + 3) = "Not" -> 3
         [] LowSurrogateFollows(input, i + 3) = "Low" -> 6

\* The UTF-8 text of the escape of length n at i.  Half a pair on its own is
\* delivered as U+FFFD.
EscapeText(input, i, n) ==
  IF n = 2 THEN <<Unescaped(Byte(input, i + 1))>>
  ELSE IF n = 6 THEN <<"F0", "9F", "98", "80">>
  ELSE IF Byte(input, i + 2) = "20AC" THEN <<"E2", "82", "AC">>
  ELSE IF Byte(input, i + 2) = "0000" THEN <<"00">>
  ELSE <<"EF", "BF", "BD">>

-----------------------------------------------------------------------------
(* Keys                                                                    *)

\* The scan for the end of a key skips the byte after each backslash it
\* meets: it never looks at a byte preceded by an odd run of backslashes.
Skipped(input, start, i) ==
  LET run == {j \in start .. i - 1 : \A k \in j .. i - 1 : Byte(input, k) = Backslash}
  IN  Cardinality(run) % 2 = 1

-----------------------------------------------------------------------------
(* Numbers                                                                 *)

NumStages == {"None", "AfterMinus", "Zero", "Integer", "FractionDot",
              "Fraction", "ExponentMark", "ExponentSign", "Exponent"}
CompleteStages == {"Zero", "Integer", "Fraction", "Exponent"}

FirstStage(b) ==
  IF b = "-" THEN "AfterMinus" ELSE IF b = "0" THEN "Zero" ELSE "Integer"

\* Byte b continues a number in `stage', which moves on to `next'.
Continues(stage, b, next) ==
  <<stage, next>> \in
    (CASE b = "0" -> {<<"AfterMinus", "Zero">>}
       [] b \in Digits \ {"0"} -> {<<"AfterMinus", "Integer">>}
       [] b = "." -> {<<"Zero", "FractionDot">>, <<"Integer", "FractionDot">>}
       [] b = "e" -> {"Zero", "Integer", "Fraction"} \X {"ExponentMark"}
       [] b \in {"+", "-"} -> {<<"ExponentMark", "ExponentSign">>}
       [] OTHER -> {})
    \cup
    (IF b \in Digits
       THEN {<<"Integer", "Integer">>, <<"FractionDot", "Fraction">>, <<"Fraction", "Fraction">>}
            \cup {"ExponentMark", "ExponentSign", "Exponent"} \X {"Exponent"}
       ELSE {})

\* Mutant: a zero needs something after it.
EndsButZero(stage, b) ==
  /\ stage \in CompleteStages \ {"Zero"}
  /\ \A next \in NumStages : ~Continues(stage, b, next)

\* Byte b ends a complete number, of which it is no part.  A digit after a
\* leading zero does not: it is an error.
Ends(stage, b) ==
  /\ stage \in CompleteStages
  /\ \A next \in NumStages : ~Continues(stage, b, next)
  /\ ~(stage = "Zero" /\ b \in Digits)

-----------------------------------------------------------------------------
(* The byte order mark                                                     *)

\* How many bytes check_bom skips at the front of a non-empty input.
ByteOrderMark(input) ==
  LET n == Len(input)
      Begins(s) == n >= Len(s) /\ SubSeq(input, 1, Len(s)) = s
  IN  CASE input[1] = "EF" ->
             IF Begins(<<"EF", "BB", "BF">>) THEN 3
             ELSE IF n = 1 \/ (n = 2 /\ input[2] = "BB") THEN More ELSE 0
        [] input[1] = "FE" ->
             IF n < 2 THEN More ELSE IF Begins(<<"FE", "FF">>) THEN Bad ELSE 0
        [] input[1] = "FF" ->
             IF n < 2 \/ (Begins(<<"FF", "FE">>) /\ n < 4) THEN More
             ELSE IF Begins(<<"FF", "FE">>) THEN Bad ELSE 0
        [] input[1] = "00" ->
             IF n < 2 \/ (Begins(<<"00", "00">>) /\ n < 4) THEN More
             ELSE IF Begins(<<"00", "00", "FE", "FF">>) THEN Bad ELSE 0
        [] OTHER -> 0
==============================================================================
