-------------------------- MODULE ParserProperties --------------------------
(***************************************************************************)
(* What a caller and a handler may rely on, whatever the bytes are and     *)
(* however they are cut into calls and spans.  ParserLanguage says what    *)
(* documents are accepted.                                                 *)
(***************************************************************************)
EXTENDS Parser

PCs == {"idle", "loop", "space", "string", "run", "char", "pause", "key", "fed", "finish"}
Errors == {"none", "syntax", "limit", "handler", "duplicate", "small", "closed"}
Bytes == Seq(Symbols)

Tokenizers ==
  [reject_duplicate_keys : BOOLEAN, context_stack : Seq(Contexts), state : States,
   seen_any_token : BOOLEAN, depth_stack : Seq(NestTokens), after_comma : BOOLEAN,
   after_cr : BOOLEAN, attempts : Nat, hits : Nat, intern_disabled : BOOLEAN,
   duplicate_key_stack : Seq(SUBSET Bytes), token_count : Nat, in_string : BOOLEAN,
   string_bytes : Nat, chars : Bytes, chars_cap : Nat, chunk_size : Nat,
   stage : NumStages, number : Bytes, length : Nat]

Calls ==
  [op : {"none", "receive", "close"}, pc : PCs, error : Errors, consumed : Nat,
   wrap : Nat, p : Nat, to : Nat, end : Nat, units : Nat,
   key : {"none", "verbatim", "miss", "hit"}]

Locators == [line : Nat, column : Nat]
Events == [ev : Callbacks, text : Bytes, line : Nat, column : Nat]

Parsers ==
  [checked_bom : BOOLEAN, closed : BOOLEAN, document_length : Nat, unconsumed : Nat,
   underflow : BOOLEAN, live : BOOLEAN, reject_duplicate_keys : BOOLEAN,
   string_chunk_size : Nat]

Verdicts == {"open", "accepted"} \cup (Errors \ {"none"})

\* A call consumes, and looks at, no more than there is in the ring, and
\* decodes ahead of what it has consumed; while it reads a key, the key lies in
\* front of it and its closing quote is there.
CallInRing(c) ==
  /\ c.consumed <= Len(ring) /\ c.wrap <= Len(ring) /\ c.p <= Len(ring) /\ c.to <= Len(ring)
  /\ c.pc = "char" => c.p < c.to
  /\ c.pc \in {"key", "run", "char"} => c.consumed <= c.p
  /\ c.pc = "key" => c.key # "none"
  /\ c.key # "none" => c.pc \in {"key", "run", "char"} /\ c.consumed < c.end /\ c.end < Len(ring)

TokenizerTypeOK ==
  /\ tok \in Tokenizers
  /\ call \in Calls /\ CallInRing(call)
  /\ loc \in Locators
  /\ interned \in SUBSET Bytes
  /\ events \in Seq(Events)

CallerTypeOK ==
  /\ ring \in Seq(Alphabet) /\ doc \in Seq(Alphabet)
  /\ limits \in [LimitNames -> Nat \cup {NoLimit}]
  /\ parser \in Parsers
  /\ verdict \in Verdicts

\* Every variable has its type, and a call stays inside the ring.
TypeOK == TokenizerTypeOK /\ CallerTypeOK

-----------------------------------------------------------------------------
(* Nesting                                                                 *)

Matches(nest, context) == (nest = "StartObject") <=> (context = "Object")

OpenObjects(stack) == {i \in DOMAIN stack : stack[i] = "Object"}

\* The three stacks the brackets move (context_stack, depth_stack and, when
\* duplicates are rejected, one set of keys per open object) stay in step,
\* after an error, a handler's refusal or a change of settings too.
StacksAgree ==
  /\ Len(tok.depth_stack) = Len(tok.context_stack)
  /\ \A i \in DOMAIN tok.depth_stack : Matches(tok.depth_stack[i], tok.context_stack[i])
  /\ Len(tok.duplicate_key_stack) =
       IF tok.reject_duplicate_keys THEN Cardinality(OpenObjects(tok.context_stack)) ELSE 0

\* The grammar state fits the stacks: the tokenizer expects a key, or the
\* colon after one, only when the innermost open value is an object (a close
\* that fails a limit after it has popped the stacks leaves the state behind).
KeysOnlyInObjects ==
  verdict = "open" /\ call.error = "none" /\ tok.state \in {"ExpectKey", "ExpectColon"} =>
    tok.context_stack # <<>> /\ Top(tok.context_stack) = "Object"

EventNumbers(names) == {i \in DOMAIN events : events[i].ev \in names}

\* How deep the handler is after its first n callbacks.
EventDepth(n) ==
  Cardinality({i \in 1 .. n : events[i].ev \in {"start_object", "start_array"}})
  - Cardinality({i \in 1 .. n : events[i].ev \in {"end_object", "end_array"}})

\* The last callback that is not whitespace.
LastToken ==
  LET tokens == DOMAIN events \ EventNumbers({"whitespace"})
  IN  IF tokens = {} THEN "none" ELSE events[CHOOSE i \in tokens : \A j \in tokens : j <= i].ev

Protocol == INSTANCE ContentHandler WITH open <- tok.depth_stack, last <- LastToken

\* The parser implements the protocol of ContentHandler: a handler that
\* refuses nothing gets its callbacks in a legal order, at every moment of
\* every document, whatever its end turns out to be.
HandlerProtocol == Protocol!ProtocolSpec

-----------------------------------------------------------------------------
(* Keys                                                                    *)

\* Callbacks i < j are about the same object.
SameObject(i, j) ==
  /\ EventDepth(i) = EventDepth(j)
  /\ \A k \in i .. j : EventDepth(k) >= EventDepth(i)

\* With duplicates rejected the handler never gets a key twice in one object,
\* whichever way each of the two was spelled (escaped or not), read
\* (interned or decoded) and cut into calls.
NoDuplicateKeyDelivered ==
  tok.reject_duplicate_keys =>
    \A i, j \in EventNumbers({"key"}) :
      i < j /\ SameObject(i, j) => events[i].text # events[j].text

\* A key is refused as a duplicate only if the object it is in has it already.
DuplicatesAreDuplicates ==
  [][ call.error # "duplicate" /\ call'.error = "duplicate"
      => \E i \in EventNumbers({"key"}) : SameObject(i, Len(events)) /\ events[i].text = KeyText ]_vars

\* A key in the symbol table is a whole text that needs no unescaping, and is
\* short: only so may a hit stand in for decoding the raw bytes.
InternedKeysAreText ==
  /\ Cardinality(interned) <= MaxEntries
  /\ \A text \in interned :
       /\ Len(text) <= MaxKeyBytes
       /\ ValidUtf8(text, 0, Len(text))
       /\ \A i \in DOMAIN text : Plain(text[i])

-----------------------------------------------------------------------------
(* String values                                                           *)

LastEvent == events[Len(events)]

\* A piece of a string is never empty, is no longer than the chunk size set
\* when it is delivered, and never begins or ends in the middle of a character.
ContentInWholeCharacters ==
  [][ events' # events /\ events' # <<>> /\ LastEvent'.ev = "string_value_content" =>
        /\ LastEvent'.text # <<>> /\ Len(LastEvent'.text) <= tok.chunk_size
        /\ ValidUtf8(LastEvent'.text, 0, Len(LastEvent'.text)) ]_vars

\* The decoded bytes not yet delivered never outgrow the buffer, and inside a
\* string the buffer is empty between two calls.
BufferHolds ==
  /\ Len(tok.chars) <= tok.chars_cap
  /\ Idle /\ tok.in_string /\ verdict = "open" => tok.chars = <<>>

\* While text is decoded the buffer holds no more than its present size, so
\* what is free in it never comes out below zero, though the size may be
\* changed between any two calls and a failed call may leave text behind.
RoomToDecode ==
  call.pc \in {"string", "run", "char", "pause", "key"} => Len(tok.chars) <= tok.chunk_size

-----------------------------------------------------------------------------
(* The ring between calls                                                  *)

\* The bytes that receive left in the ring, without those written since.
Leftover == Slice(ring, 0, AtMost(parser.unconsumed, Len(ring)))

BeginsMark(s) ==
  \/ \E mark \in {<<"EF", "BB", "BF">>, <<"FE", "FF">>, <<"FF", "FE">>, <<"00", "00">>} :
       Len(s) < Len(mark) /\ s = SubSeq(mark, 1, Len(s))
  \/ Len(s) \in {2, 3} /\ SubSeq(s, 1, 2) \in {<<"FF", "FE">>, <<"00", "00">>}

BeginsLiteral(s) ==
  \E b \in DOMAIN Literals :
    s[1] = b /\ Len(s) <= Len(Literals[b]) /\ Tail(s) = SubSeq(Literals[b], 1, Len(s) - 1)

BeginsKey(s) ==
  s[1] = Quote /\ \A i \in 2 .. Len(s) : s[i] # Quote \/ Skipped(s, 1, i - 1)

\* s is the beginning of one token, or inside a string of one escape or one
\* character, and more bytes could complete it.
BeginsToken(s) ==
  IF ~parser.checked_bom THEN BeginsMark(s)
  ELSE IF tok.in_string
    THEN IF s[1] = Backslash THEN EscapeLength(s, 0) = More ELSE CharLengthWhole(s, 0) = More
  ELSE IF tok.state = "ExpectKey" THEN BeginsKey(s)
  ELSE BeginsLiteral(s)

\* receive leaves in the ring only the beginning of a single token that is
\* not all there: the caller never has to keep more than that.
LeftoverIsOneToken ==
  Idle /\ call = Returned("receive", "none") /\ Leftover # <<>> => BeginsToken(Leftover)

\* A ring is reported as too small only if the one token at its front fills it.
TooSmallOnlyForOneToken ==
  call.error = "small" => Len(ring) = Capacity /\ BeginsToken(ring)

\* max_document_length counts every byte of the document exactly once, though
\* a byte may be presented to receive many times.
BytesCountedOnce ==
  Idle /\ verdict \in {"open", "accepted"} /\ limits.max_document_length # NoLimit
    => parser.document_length + FreshBytes = Len(doc)

-----------------------------------------------------------------------------
(* The locator                                                             *)

\* Line and column after the first n bytes of the document.  A line ends with
\* LF, CR or CR LF; a column is a UTF-16 unit; a byte order mark has no width.
PositionAt(n) ==
  LET first == IF Len(doc) >= 3 /\ SubSeq(doc, 1, 3) = <<"EF", "BB", "BF">> THEN 4 ELSE 1
      breaks == {i \in first .. n : \/ doc[i] = "CR"
                                    \/ doc[i] = "LF" /\ ~(i > first /\ doc[i - 1] = "CR")}
      line == {i \in first .. n : \A j \in i .. n : doc[j] \notin {"CR", "LF"}}
  IN  [line |-> 1 + Cardinality(breaks),
       column |-> 1 + Cardinality({i \in line : doc[i] \notin Continuations})
                    + Cardinality({i \in line : doc[i] = "F0"})]

\* Between calls the locator is at the end of what has been consumed, a
\* number that has not ended left out: no matter where calls and spans cut
\* the text, CR LF counts once and a character counts once, also when a call
\* failed and the caller went on.  (Only a key refused as a duplicate is
\* consumed without the locator moving past it.)
LocatorExact ==
  Idle /\ (tok.reject_duplicate_keys => verdict \in {"open", "accepted"}) =>
    loc = PositionAt(Len(doc) - Len(ring) - IF tok.stage = "None" THEN 0 ELSE tok.length)

\* A callback for a token reads the position where that token ends.
EventsExact ==
  [][ \/ events' = events \/ events' = <<>>
      \/ LET e == events'[Len(events')]
         IN  \/ e.ev \in {"string_value_content", "whitespace"}
             \/ [line |-> e.line, column |-> e.column] =
                  PositionAt(Len(doc) - Len(ring) + call'.consumed) ]_vars

Before(e, f) == e.line < f.line \/ (e.line = f.line /\ e.column < f.column)

\* A token is reported at most once: the positions of the callbacks for tokens
\* advance, also when the handler refuses one and the caller goes on.
TokensAdvance ==
  \A i, j \in DOMAIN events :
    i < j /\ {events[i].ev, events[j].ev} \cap {"string_value_content", "whitespace"} = {}
      => Before(events[i], events[j])
==============================================================================
