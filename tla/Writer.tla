------------------------------- MODULE Writer -------------------------------
(***************************************************************************)
(* writer.rs: the streaming writer, the caller's bounded ring it writes    *)
(* into, and the application that calls it.  The application keeps to the  *)
(* order of ContentHandler: a parser could feed the writer.  It decides on *)
(* a call, attempts it, and when the ring has no room drains some of it and *)
(* attempts the same call again, or gives it up.                           *)
(*                                                                         *)
(* A character is the sequence of its UTF-8 bytes, and a string a sequence *)
(* of characters.  Bytes are those of Lexemes.                             *)
(***************************************************************************)
EXTENDS Lexemes, SequencesExt

CONSTANTS
  RingCapacity,  \* the capacity of the caller's ring
  Indents,       \* levels of indentation to choose from, 0 for none at all
  Strings,       \* keys, strings and pieces of string content to write
  NumberTexts,   \* formatted numbers to write
  MaxWritten     \* bound: once the text, without layout, is this long, it is only closed

NotFinite == <<"not finite">>

ASSUME WriterAssumption ==
  /\ RingCapacity \in Nat /\ Indents \subseteq Nat /\ Indents # {}
  /\ MaxWritten \in Nat /\ NotFinite \notin NumberTexts

\* The bytes of what an application writes: no hex digits of an escape, and LF
\* stands for every control character that has a short escape.
PlainBytes == Symbols \ (HexGroups \cup {"CR"})

\* A UTF-8 character has one to four bytes.
ASSUME TextAssumption ==
  /\ \A string \in Strings : /\ string \in Seq(Seq(PlainBytes))
                              /\ \A i \in DOMAIN string : Len(string[i]) \in 1 .. 4
  /\ NumberTexts \subseteq Seq(PlainBytes)
  /\ \A b \in DOMAIN Literals : b \in PlainBytes /\ Literals[b] \in Seq(PlainBytes)

VARIABLES
  writer,  \* struct Writer
  used,    \* how many bytes the ring holds
  want,    \* the call the application is making
  result,  \* how its last attempt ended
  open,    \* the application's place in its document: the brackets open,
  last,    \*   and its last call that succeeded
  text,    \* history: the bytes written since the last reset
  log      \* history: the events whose calls succeeded, as in JsonText

wvars == <<writer, used, want, result, open, last, text, log>>

Caller == INSTANCE ContentHandler

NoCall == [op |-> "none", arg |-> <<>>]

NewWriter(indent) == [indent |-> indent, state |-> "Init0", depth |-> 0]

Init ==
  /\ \E indent \in Indents : writer = NewWriter(indent)
  /\ used = 0 /\ want = NoCall /\ result = "none"
  /\ Caller!Begin
  /\ text = <<>> /\ log = <<>>

-----------------------------------------------------------------------------
(* Escaping                                                                *)

EscapedChar(char) ==
  IF \E e \in SimpleEscapes \ {"/"} : char = <<Unescaped(e)>>
    THEN <<Backslash, CHOOSE e \in SimpleEscapes \ {"/"} : char = <<Unescaped(e)>>>>
  ELSE IF char[1] \in Controls THEN <<Backslash, "u", "0000">>
  ELSE char

EscapedText(string) == FlattenSeq([i \in DOMAIN string |-> EscapedChar(string[i])])
Quoted(string) == <<Quote>> \o EscapedText(string) \o <<Quote>>

\* Mutant: every escape is counted as two bytes.
EscapedCharLenTwo(char) == IF Len(char) = 1 /\ ~Plain(char[1]) THEN 2 ELSE Len(char)

\* How long a character is once escaped, by its class.
EscapedCharLen(char) ==
  IF char \in {<<Quote>>, <<Backslash>>, <<"LF">>} THEN 2
  ELSE IF char[1] \in Controls THEN 6
  ELSE Len(char)

Sizes(string) == [i \in DOMAIN string |-> Len(string[i])]
EscapedSizes(string) == [i \in DOMAIN string |-> EscapedCharLen(string[i])]
Total(sizes) ==
  LET sum[n \in 0 .. Len(sizes)] == IF n = 0 THEN 0 ELSE sum[n - 1] + sizes[n]
  IN  sum[Len(sizes)]
EscapedLen(string) == Total(EscapedSizes(string))

-----------------------------------------------------------------------------
(* What goes before a value or key, and how long it is                     *)

Newline(depth) ==
  IF writer.indent = 0 THEN <<>> ELSE <<"LF">> \o [i \in 1 .. writer.indent * depth |-> "SP"]

NewlineLen(depth) == IF writer.indent = 0 THEN 0 ELSE 1 + writer.indent * depth

Prefix ==
  CASE writer.state = "Init0" -> <<>>
    [] writer.state = "Init" -> Newline(writer.depth)
    [] writer.state = "AfterKey" -> IF writer.indent = 0 THEN <<>> ELSE <<"SP">>
    [] writer.state = "AfterValue" -> <<",">> \o Newline(writer.depth)

PrefixLen ==
  CASE writer.state = "Init0" -> 0
    [] writer.state = "Init" -> NewlineLen(writer.depth)
    [] writer.state = "AfterKey" -> IF writer.indent = 0 THEN 0 ELSE 1
    [] writer.state = "AfterValue" -> 1 + NewlineLen(writer.depth)

-----------------------------------------------------------------------------
(* ensure_room, and the two ways a call ends                               *)

\* The ring has room for all of it: `bytes' are appended.
Put(bytes, state, depth) ==
  /\ text' = text \o bytes
  /\ used' = used + BytesFrom(text', Len(text))
  /\ writer' = [writer EXCEPT !.state = state, !.depth = depth]
  /\ want' = NoCall /\ result' = "ok"

\* Nothing is written, and the writer stays as it is.
Refused(why) ==
  /\ result' = why
  /\ UNCHANGED <<writer, used, want, open, last, text, log>>

HasRoom(need) == used + need <= RingCapacity

\* Mutants: a token is never too large, or already when it is as large as the
\* ring.
RefusalBlocks(need) == "would_block"
RefusalEarly(need) == IF need >= RingCapacity THEN "invalid" ELSE "would_block"

Refusal(need) == IF need > RingCapacity THEN "invalid" ELSE "would_block"

\* A call that writes a token of length `need' behind the prefix, all of it or
\* nothing.
Accepted(token, need, state, depth) ==
  HasRoom(PrefixLen + need) /\ Put(Prefix \o token, state, depth)

Rejected(need) == ~HasRoom(PrefixLen + need) /\ Refused(Refusal(PrefixLen + need))

\* What a call that succeeded adds to the document.
Says(event, string) == log' = Append(log, <<event, FlattenSeq(string)>>)

-----------------------------------------------------------------------------
(* The calls                                                               *)

WriteKey ==
  /\ want.op = "key"
  /\ LET need == 2 + EscapedLen(want.arg) + 1
     IN  \/ Accepted(Quoted(want.arg) \o <<":">>, need, "AfterKey", writer.depth)
            /\ Caller!Key /\ Says("key", want.arg)
         \/ Rejected(need)

\* A string in one call is for the application a value like any other.
WriteString ==
  /\ want.op = "string"
  /\ LET need == 2 + EscapedLen(want.arg)
     IN  \/ /\ Accepted(Quoted(want.arg), need, "AfterValue", writer.depth)
            /\ last' = "end_string_value" /\ UNCHANGED open
            /\ Says("string", want.arg)
         \/ Rejected(need)

\* Text JSON cannot represent is refused before anything else.
WriteNumber ==
  /\ want.op = "number"
  /\ \/ want.arg = NotFinite /\ Refused("invalid")
     \/ /\ want.arg # NotFinite
        /\ \/ /\ Accepted(want.arg, Len(want.arg), "AfterValue", writer.depth)
              /\ last' = "number_value" /\ Caller!Scalar
              /\ log' = Append(log, <<"number_value", want.arg>>)
           \/ Rejected(Len(want.arg))

\* write_boolean and write_null: want.arg has the first byte of the literal.
WriteLiteral ==
  /\ want.op = "literal"
  /\ LET token == want.arg \o Literals[want.arg[1]]
     IN  \/ /\ Accepted(token, Len(token), "AfterValue", writer.depth)
            /\ last' = "literal" /\ Caller!Scalar
            /\ log' = Append(log, <<"literal", want.arg>>)
         \/ Rejected(Len(token))

\* Mutant: the writer is inside the nest even when there was no room.
WriteOpenEarly ==
  /\ want.op \in {"start_object", "start_array"}
  /\ \/ /\ Accepted(<<IF want.op = "start_object" THEN "{" ELSE "[">>, 1, "Init", writer.depth + 1)
        /\ last' = want.op /\ Caller!Opens
        /\ Says(want.op, <<>>)
     \/ /\ ~HasRoom(PrefixLen + 1)
        /\ result' = Refusal(PrefixLen + 1)
        /\ writer' = [writer EXCEPT !.depth = @ + 1]
        /\ UNCHANGED <<used, want, open, last, text, log>>

WriteOpen ==
  /\ want.op \in {"start_object", "start_array"}
  /\ \/ /\ Accepted(<<IF want.op = "start_object" THEN "{" ELSE "[">>, 1, "Init", writer.depth + 1)
        /\ last' = want.op /\ Caller!Opens
        /\ Says(want.op, <<>>)
     \/ Rejected(1)

\* Mutant: the bracket is indented like what is inside it.
InnerDepth == writer.depth

\* The depth after a close; closing more than was opened stays at the top.
OuterDepth == IF writer.depth = 0 THEN 0 ELSE writer.depth - 1

\* A closing bracket has no prefix but a line of its own.
WriteClose ==
  /\ want.op \in {"end_object", "end_array"}
  /\ LET need == NewlineLen(OuterDepth) + 1
         bracket == IF want.op = "end_object" THEN "}" ELSE "]"
     IN  \/ /\ HasRoom(need) /\ Put(Newline(OuterDepth) \o <<bracket>>, "AfterValue", OuterDepth)
            /\ last' = want.op /\ Caller!Closes
            /\ Says(want.op, <<>>)
         \/ ~HasRoom(need) /\ Refused(Refusal(need))

\* The state stays what it was: the value is not over yet.
WriteStartString ==
  /\ want.op = "start_string"
  /\ \/ /\ Accepted(<<Quote>>, 1, writer.state, writer.depth)
        /\ Caller!StringBegins /\ Says("string", <<>>)
     \/ Rejected(1)

\* How many characters, given their sizes, are together within the room.
Fitting(sizes, room) ==
  CHOOSE n \in 0 .. Len(sizes) :
    /\ Total(SubSeq(sizes, 1, n)) <= room
    /\ n < Len(sizes) => Total(SubSeq(sizes, 1, n + 1)) > room

\* Mutant: only what fits with room to spare is taken.
TakenButLast(string) ==
  IF used = RingCapacity THEN 0 ELSE Fitting(EscapedSizes(string), RingCapacity - used - 1)

\* How many characters of the content are taken: of those that would fit
\* unescaped, those that fit escaped.
Taken(string) ==
  LET spare == RingCapacity - used
      candidate == SubSeq(string, 1, Fitting(Sizes(string), spare))
  IN  Fitting(EscapedSizes(candidate), spare)

\* As much content as fits is taken, and taking none is a refusal, decided by
\* the length of the longest character.
WriteStringContent ==
  /\ want.op = "content"
  /\ \E taken \in {SubSeq(want.arg, 1, Taken(want.arg))} :
         \/ /\ want.arg = <<>>
            /\ result' = "ok" /\ want' = NoCall
            /\ UNCHANGED <<writer, used, open, last, text, log>>
         \/ /\ taken # <<>>
            /\ Put(EscapedText(taken), writer.state, writer.depth)
            /\ Caller!StringContent
            /\ log' = [log EXCEPT ![Len(log)] = <<@[1], @[2] \o FlattenSeq(taken)>>]
         \/ want.arg # <<>> /\ taken = <<>> /\ Refused(Refusal(6))

\* Mutant: the writer does not learn that the value is over.
WriteEndStringForgotten ==
  /\ want.op = "end_string"
  /\ \/ HasRoom(1) /\ Put(<<Quote>>, writer.state, writer.depth) /\ Caller!StringEnds /\ UNCHANGED log
     \/ ~HasRoom(1) /\ Refused(Refusal(1))

WriteEndString ==
  /\ want.op = "end_string"
  /\ \/ HasRoom(1) /\ Put(<<Quote>>, "AfterValue", writer.depth) /\ Caller!StringEnds /\ UNCHANGED log
     \/ ~HasRoom(1) /\ Refused(Refusal(1))

-----------------------------------------------------------------------------
(* The application                                                         *)

MayCall(op) ==
  CASE op \in {"key", "end_object"} -> Caller!KeyMayCome
    [] op = "end_array" -> Caller!ArrayMayEnd
    [] op \in {"content", "end_string"} -> Caller!InString
    [] OTHER -> Caller!ValueMayCome

\* The text without its layout: a line feed in a string is escaped, and the
\* strings written have no spaces.
Compact == SelectSeq(text, LAMBDA b : b \notin {"LF", "SP"})

Arguments ==
  [key |-> Strings, string |-> Strings, content |-> Strings,
   number |-> NumberTexts \cup {NotFinite}, literal |-> {<<b>> : b \in DOMAIN Literals},
   start_object |-> {<<>>}, start_array |-> {<<>>}, end_object |-> {<<>>}, end_array |-> {<<>>},
   start_string |-> {<<>>}, end_string |-> {<<>>}]

Decide ==
  /\ want = NoCall
  /\ \E op \in DOMAIN Arguments :
       /\ MayCall(op)
       /\ Len(Compact) < MaxWritten \/ op \in {"end_object", "end_array", "end_string"}
       /\ \E arg \in Arguments[op] : want' = [op |-> op, arg |-> arg]
  /\ result' = "none"
  /\ UNCHANGED <<writer, used, open, last, text, log>>

\* A call that failed has changed nothing: any other may take its place.
GiveUp ==
  /\ want # NoCall /\ result \in {"would_block", "invalid"}
  /\ want' = NoCall /\ result' = "none"
  /\ UNCHANGED <<writer, used, open, last, text, log>>

Drain ==
  /\ used' \in 0 .. used - 1
  /\ UNCHANGED <<writer, want, result, open, last, text, log>>

\* The ring is the application's, and stays as it is.
Reset ==
  /\ want = NoCall
  /\ writer' = NewWriter(writer.indent)
  /\ open' = <<>> /\ last' = "none"
  /\ text' = <<>> /\ log' = <<>> /\ result' = "none"
  /\ UNCHANGED <<used, want>>

Attempt ==
  \/ WriteKey \/ WriteString \/ WriteNumber \/ WriteLiteral \/ WriteOpen \/ WriteClose
  \/ WriteStartString \/ WriteStringContent \/ WriteEndString

Next == Attempt \/ Decide \/ GiveUp \/ Drain \/ Reset

\* An application that was told that its call would block drains the ring and
\* repeats the call.
Blocked == result = "would_block"
Fairness == WF_wvars(Blocked /\ Drain) /\ WF_wvars(Blocked /\ Attempt)

Spec == Init /\ [][Next]_wvars /\ Fairness
==============================================================================
