------------------------------ MODULE Tokenizer ------------------------------
(***************************************************************************)
(* tokenizer.rs: the streaming tokenizer that scans the caller's ring and  *)
(* calls the content handler.  One call of Tokenizer::receive is a         *)
(* sequence of steps, one per token, per piece of a token between two      *)
(* handler callbacks, or per iteration of an inner loop; call.pc says      *)
(* where the call is.  Parser.tla makes the calls.                         *)
(*                                                                         *)
(* A value the tokenizer keeps of a number in progress (mantissa, shift,   *)
(* big_digits, ...) is the sequence of its bytes so far.                   *)
(***************************************************************************)
EXTENDS Lexemes

CONSTANTS
  MinRoom,          \* MIN_DECODE_ROOM
  MaxKeyBytes,      \* keys.rs MAX_KEY_BYTES: longer keys are not interned
  MaxEntries,       \* keys.rs MAX_ENTRIES: the table takes no more keys
  InternThreshold,  \* KEY_INTERN_DISABLE_THRESHOLD
  NeedsWhitespace,  \* what the handler's needs_whitespace() returns
  Refusable         \* the callbacks that may return an error

\* Option::None for a limit.
NoLimit == -1

VARIABLES
  ring,     \* the bytes in the caller's LoopBuf, oldest first
  tok,      \* the fields of struct Tokenizer
  loc,      \* SharedLocator
  call,     \* the call of receive or close in progress, and its result
  limits,   \* ParserLimits
  interned, \* the keys in the KeySymbolTable
  events    \* every handler callback so far, with the position it read

tokenizerVars == <<ring, tok, loc, call, limits, interned, events>>

States == {"ExpectValue", "ExpectKey", "ExpectColon", "AfterValue"}
Contexts == {"Array", "Object"}
NestTokens == {"StartArray", "StartObject"}

\* The methods of a ContentHandler that the tokenizer calls.
Callbacks ==
  {"start_object", "end_object", "start_array", "end_array", "key", "literal", "number_value",
   "start_string_value", "string_value_content", "end_string_value", "whitespace"}

NewTokenizer(reject, chunk) ==
  [reject_duplicate_keys |-> reject, context_stack |-> <<>>, state |-> "ExpectValue",
   seen_any_token |-> FALSE, depth_stack |-> <<>>, after_comma |-> FALSE,
   after_cr |-> FALSE, attempts |-> 0, hits |-> 0, intern_disabled |-> FALSE,
   duplicate_key_stack |-> <<>>, token_count |-> 0, in_string |-> FALSE,
   string_bytes |-> 0, chars |-> <<>>, chars_cap |-> 0, chunk_size |-> chunk,
   stage |-> "None", number |-> <<>>, length |-> 0]

NewLocator == [line |-> 1, column |-> 1]

\* No call in progress; the last one was `op' and ended with `error'.
Returned(op, error) ==
  [op |-> op, pc |-> "idle", error |-> error, consumed |-> 0, wrap |-> 0,
   p |-> 0, to |-> 0, end |-> 0, units |-> 0, key |-> "none"]

-----------------------------------------------------------------------------
(* Where the call is in its input, and how it goes on                      *)

Total == Len(ring)
At(i) == Byte(ring, i)

\* The ring hands its bytes over as two spans, [0, wrap) and [wrap, Total).
SpanEnd(i) == IF i < call.wrap THEN call.wrap ELSE Total
Contiguous(from, to) == to <= SpanEnd(from)

Right(n) == [loc EXCEPT !.column = @ + n]

Notify(ev, text, at) ==
  events' = Append(events, [ev |-> ev, text |-> text, line |-> at.line, column |-> at.column])

\* n more bytes are consumed and the loop goes on.
Advanced(n) == [call EXCEPT !.consumed = @ + n, !.pc = "loop", !.key = "none"]

\* receive returns Ok: the rest of the input is a token not all there yet.
Stopped == [call EXCEPT !.pc = "fed", !.key = "none"]

\* receive returns Err after consuming n more bytes.
Failed(n, error) ==
  [call EXCEPT !.consumed = @ + n, !.pc = "fed", !.key = "none", !.error = error]

\* The callback `ev' returns an error, with the tokenizer in state t.
HandlerFails(ev, t, n) ==
  /\ ev \in Refusable
  /\ tok' = t
  /\ call' = Failed(n, "handler")

\* The head of the loop with input left: inside a number, or between tokens.
InNumber ==
  call.pc = "loop" /\ ~tok.in_string /\ tok.stage # "None" /\ call.consumed < Total

BetweenTokens ==
  call.pc = "loop" /\ ~tok.in_string /\ tok.stage = "None" /\ call.consumed < Total

CurrentByte == At(call.consumed)
Looking(b) == BetweenTokens /\ CurrentByte = b

\* process_token starts with the CR before it forgotten.
Here == [tok EXCEPT !.after_cr = FALSE]

-----------------------------------------------------------------------------
(* Tokens of one byte                                                      *)

Counted(t) ==
  [t EXCEPT !.seen_any_token = TRUE,
            !.token_count = IF limits.max_token_count = NoLimit THEN @ ELSE @ + 1]

\* Mutant: one token fewer than the limit.
TooManyTokensEarly(t) ==
  limits.max_token_count # NoLimit /\ t.token_count >= limits.max_token_count

TooManyTokens(t) ==
  limits.max_token_count # NoLimit /\ t.token_count > limits.max_token_count

\* A token is complete, n bytes of it just consumed, t the tokenizer with
\* what the token did to it: token_done, and the grammar state unless it fails.
TokenDone(t, n, state, afterComma) ==
  IF TooManyTokens(Counted(t))
    THEN tok' = Counted(t) /\ call' = Failed(n, "limit")
    ELSE /\ tok' = [Counted(t) EXCEPT !.state = state, !.after_comma = afterComma]
         /\ call' = Advanced(n)

Top(stack) == stack[Len(stack)]
Popped(stack) == SubSeq(stack, 1, Len(stack) - 1)
Inside(context) == tok.context_stack # <<>> /\ Top(tok.context_stack) = context

\* Mutant: one nest more than the limit.
TooDeepByOne ==
  /\ limits.max_nesting_depth # NoLimit
  /\ Len(tok.depth_stack) > limits.max_nesting_depth

TooDeep ==
  /\ limits.max_nesting_depth # NoLimit
  /\ Len(tok.depth_stack) >= limits.max_nesting_depth

\* Mutants: a bracket may close after a comma; a nest may be closed in the
\* middle of a member.
MayCloseAfterComma(context, empty) == Inside(context) /\ tok.state \in {empty, "AfterValue"}
MayCloseAnywhere(context, empty) == Inside(context) /\ ~tok.after_comma

MayClose(context, empty) ==
  Inside(context) /\ tok.state \in {empty, "AfterValue"} /\ ~tok.after_comma

\* The grammar allows a token that starts with b here.
Allowed(b) ==
  \/ b = Quote /\ tok.state \in {"ExpectValue", "ExpectKey"}
  \/ b \in {"{", "[", "-"} \cup Digits \cup DOMAIN Literals /\ tok.state = "ExpectValue"
  \/ b = "," /\ tok.state = "AfterValue" /\ tok.context_stack # <<>>
  \/ b = ":" /\ tok.state = "ExpectColon"
  \/ b = "}" /\ MayClose("Object", "ExpectKey")
  \/ b = "]" /\ MayClose("Array", "ExpectValue")

Refuse ==
  /\ BetweenTokens
  /\ CurrentByte \notin Whitespaces
  /\ ~Allowed(CurrentByte)
  /\ tok' = Here
  /\ call' = Failed(0, "syntax")
  /\ UNCHANGED <<loc, events, interned>>

\* Mutant: the two nests are swapped.
CommaSwapped ==
  /\ Looking(",") /\ Allowed(",")
  /\ TokenDone(Here, 1, IF Inside("Array") THEN "ExpectKey" ELSE "ExpectValue", TRUE)
  /\ loc' = Right(1)
  /\ UNCHANGED <<events, interned>>

Comma ==
  /\ Looking(",") /\ Allowed(",")
  /\ TokenDone(Here, 1, IF Inside("Object") THEN "ExpectKey" ELSE "ExpectValue", TRUE)
  /\ loc' = Right(1)
  /\ UNCHANGED <<events, interned>>

Colon ==
  /\ Looking(":") /\ Allowed(":")
  /\ TokenDone(Here, 1, "ExpectValue", FALSE)
  /\ loc' = Right(1)
  /\ UNCHANGED <<events, interned>>

OpenTooDeep ==
  /\ \E b \in {"{", "["} : Looking(b) /\ Allowed(b)
  /\ TooDeep
  /\ tok' = Here
  /\ call' = Failed(0, "limit")
  /\ UNCHANGED <<loc, events, interned>>

ObjectEntered(t) ==
  [t EXCEPT !.context_stack = Append(@, "Object"),
            !.depth_stack = Append(@, "StartObject"),
            !.duplicate_key_stack = IF t.reject_duplicate_keys THEN Append(@, {}) ELSE @]

ArrayEntered(t) ==
  [t EXCEPT !.context_stack = Append(@, "Array"), !.depth_stack = Append(@, "StartArray")]

ObjectLeft(t) ==
  [t EXCEPT !.context_stack = Popped(@),
            !.depth_stack = Popped(@),
            !.duplicate_key_stack =
               IF t.reject_duplicate_keys /\ @ # <<>> THEN Popped(@) ELSE @]

ArrayLeft(t) == [t EXCEPT !.context_stack = Popped(@), !.depth_stack = Popped(@)]

\* A bracket: the callback comes after the byte is consumed and before the
\* stacks change.
Bracket(b, ev, t, state) ==
  /\ Looking(b) /\ Allowed(b)
  /\ loc' = Right(1)
  /\ Notify(ev, <<>>, loc')
  /\ \/ HandlerFails(ev, Here, 1)
     \/ TokenDone(t, 1, state, FALSE)
  /\ UNCHANGED interned

StartObject == ~TooDeep /\ Bracket("{", "start_object", ObjectEntered(Here), "ExpectKey")
StartArray == ~TooDeep /\ Bracket("[", "start_array", ArrayEntered(Here), "ExpectValue")
EndObject == Bracket("}", "end_object", ObjectLeft(Here), "AfterValue")
EndArray == Bracket("]", "end_array", ArrayLeft(Here), "AfterValue")

-----------------------------------------------------------------------------
(* Literals                                                                *)

\* The bytes after the first that are there agree with the literal's.
LiteralAgrees(b) ==
  \A i \in 1 .. Len(Literals[b]) :
    call.consumed + i < Total => At(call.consumed + i) = Literals[b][i]

\* Mutant: the last byte of the literal may be missing.
LiteralPresentBarely(b) == call.consumed + Len(Literals[b]) <= Total

LiteralPresent(b) == call.consumed + Len(Literals[b]) < Total

\* All of the literal is consumed, the token counted and the grammar state
\* set before the callback.
Literal(b) ==
  /\ Looking(b) /\ Allowed(b)
  /\ LiteralAgrees(b) /\ LiteralPresent(b)
  /\ LET n == 1 + Len(Literals[b])
         after == [Counted(Here) EXCEPT !.after_comma = FALSE, !.state = "AfterValue"]
     IN  /\ loc' = Right(n)
         /\ \/ /\ TooManyTokens(after)
               /\ tok' = Counted(Here) /\ call' = Failed(n, "limit")
               /\ UNCHANGED events
            \/ /\ ~TooManyTokens(after)
               /\ Notify("literal", <<b>>, loc')
               /\ \/ HandlerFails("literal", after, n)
                  \/ tok' = after /\ call' = Advanced(n)
  /\ UNCHANGED interned

\* Mutant: a literal is only looked at when enough bytes for it are there.
LiteralIncompleteUnseen(b) ==
  /\ Looking(b) /\ Allowed(b)
  /\ ~LiteralPresent(b)
  /\ tok' = Here
  /\ call' = Stopped
  /\ UNCHANGED <<loc, events, interned>>

LiteralIncomplete(b) ==
  /\ Looking(b) /\ Allowed(b)
  /\ LiteralAgrees(b) /\ ~LiteralPresent(b)
  /\ tok' = Here
  /\ call' = Stopped
  /\ UNCHANGED <<loc, events, interned>>

LiteralWrong(b) ==
  /\ Looking(b) /\ Allowed(b)
  /\ ~LiteralAgrees(b)
  /\ tok' = Here
  /\ call' = Failed(0, "syntax")
  /\ UNCHANGED <<loc, events, interned>>

-----------------------------------------------------------------------------
(* Numbers                                                                 *)

\* The grammar state only changes when the number ends.
NumberStart(b) ==
  /\ Looking(b) /\ Allowed(b)
  /\ TokenDone([Here EXCEPT !.stage = FirstStage(b), !.number = <<b>>, !.length = 1],
               1, tok.state, FALSE)
  /\ UNCHANGED <<loc, events, interned>>

NumberTooLong(length) == limits.max_number_length # NoLimit /\ length > limits.max_number_length

\* n more bytes of the number, which is then in `stage'.
TakeNumber(n, stage) ==
  LET t == [tok EXCEPT !.stage = stage, !.length = @ + n,
                       !.number = @ \o Slice(ring, call.consumed, call.consumed + n)]
  IN  /\ tok' = t
      /\ call' = IF NumberTooLong(t.length) THEN Failed(n, "limit") ELSE Advanced(n)
      /\ UNCHANGED <<loc, events, interned>>

\* take_digit_run: some or all of a run of digits in one span at once.  It
\* may stop at any of them, when the mantissa nears overflow.
NumberRun ==
  /\ InNumber
  /\ tok.stage \in {"Integer", "Fraction"}
  /\ \E n \in 1 .. SpanEnd(call.consumed) - call.consumed :
       /\ \A i \in 0 .. n - 1 : At(call.consumed + i) \in Digits
       /\ TakeNumber(n, tok.stage)

NumberByte ==
  /\ InNumber
  /\ \E next \in NumStages :
       Continues(tok.stage, CurrentByte, next) /\ TakeNumber(1, next)

\* Mutant: a number that the handler refuses is still there afterwards.
EmitNumberAgain(next) ==
  /\ Notify("number_value", tok.number, Right(tok.length))
  /\ \/ HandlerFails("number_value", tok, 0) /\ loc' = loc
     \/ /\ tok' = [tok EXCEPT !.stage = "None", !.state = "AfterValue"]
        /\ loc' = Right(tok.length)
        /\ call' = next

\* emit_number, with the call going on as `next' unless the callback fails.
EmitNumber(next) ==
  LET t == [tok EXCEPT !.stage = "None", !.state = "AfterValue"]
  IN  /\ loc' = Right(tok.length)
      /\ Notify("number_value", tok.number, loc')
      /\ \/ HandlerFails("number_value", t, 0)
         \/ tok' = t /\ call' = next

NumberEnd ==
  /\ InNumber
  /\ Ends(tok.stage, CurrentByte)
  /\ EmitNumber(Advanced(0))
  /\ UNCHANGED interned

NumberWrong ==
  /\ InNumber
  /\ ~Ends(tok.stage, CurrentByte)
  /\ \A next \in NumStages : ~Continues(tok.stage, CurrentByte, next)
  /\ call' = Failed(0, "syntax")
  /\ UNCHANGED <<tok, loc, events, interned>>

-----------------------------------------------------------------------------
(* Whitespace                                                              *)

\* Mutant: a CR is forgotten between two runs of whitespace.
AfterCRInRun(i) == i > call.consumed /\ At(i - 1) = "CR"

\* The byte before i was a CR; the first byte of a run remembers it.
AfterCR(i) == IF i = call.consumed THEN tok.after_cr ELSE At(i - 1) = "CR"

LineBreaks(to) ==
  {i \in call.consumed .. to - 1 : At(i) = "CR" \/ (At(i) = "LF" /\ ~AfterCR(i))}

\* The bytes of the run after its last line end.
SinceBreak(to) ==
  {i \in call.consumed .. to - 1 : \A j \in i .. to - 1 : At(j) = "SP"}

Whitespace ==
  /\ BetweenTokens /\ CurrentByte \in Whitespaces
  /\ \E to \in call.consumed + 1 .. Total :
       /\ \A i \in call.consumed .. to - 1 : At(i) \in Whitespaces
       /\ to < Total => At(to) \notin Whitespaces
       /\ LET n == to - call.consumed
              k == Cardinality(SinceBreak(to))
          IN  loc' = [line |-> loc.line + Cardinality(LineBreaks(to)),
                      column |-> IF k = n THEN loc.column + n ELSE 1 + k]
       /\ tok' = [tok EXCEPT !.after_cr = At(to - 1) = "CR"]
       /\ call' = [call EXCEPT !.consumed = to, !.p = call.consumed, !.to = to,
                               !.pc = IF NeedsWhitespace THEN "space" ELSE "loop"]
  /\ UNCHANGED <<events, interned>>

\* The run just consumed is reported one span at a time.
ReportWhitespace ==
  /\ call.pc = "space"
  /\ LET q == AtMost(SpanEnd(call.p), call.to)
     IN  /\ Notify("whitespace", Slice(ring, call.p, q), loc)
         /\ \/ HandlerFails("whitespace", tok, 0)
            \/ /\ tok' = tok
               /\ call' = [call EXCEPT !.p = q, !.pc = IF q = call.to THEN "loop" ELSE "space"]
  /\ UNCHANGED <<loc, interned>>

-----------------------------------------------------------------------------
(* The character buffer and decode_run, shared by string values and keys   *)

\* Mutant: the buffer is only ever made larger.
EnsureCharsLarger(t) ==
  IF t.chars_cap >= t.chunk_size THEN t ELSE [t EXCEPT !.chars = <<>>, !.chars_cap = t.chunk_size]

EnsureChars(t) ==
  IF t.chars_cap = t.chunk_size THEN t ELSE [t EXCEPT !.chars = <<>>, !.chars_cap = t.chunk_size]

Free == tok.chunk_size - Len(tok.chars)
Pushed(t, text) == [t EXCEPT !.chars = @ \o text]

\* A key is being decoded: there is no handler to take what does not fit.
ReadingKey == call.key # "none"

\* The room a slice of a run needs before it is decoded.
LowWater == IF ReadingKey THEN 1 ELSE MinRoom

\* One slice of the run [p, to): what is in one span and fits the buffer.
\* Its valid prefix is pushed; a character cut by its end is left for PushChar.
DecodeSlice ==
  /\ call.pc = "run" /\ call.p < call.to /\ Free >= LowWater
  /\ LET stop == AtMost(AtMost(call.to, SpanEnd(call.p)), call.p + Free)
     IN  \E q \in call.p .. stop :
           LET text == Slice(ring, call.p, q)
           IN  /\ ValidUpTo(ring, call.p, q, stop)
               /\ tok' = Pushed(tok, text)
               /\ call' = IF q < stop /\ CharLength(ring, q, stop) = Bad
                            THEN Failed(0, "syntax")
                            ELSE [call EXCEPT !.p = q, !.units = @ + Units(text),
                                              !.pc = IF q = stop THEN "run" ELSE "char"]
  /\ UNCHANGED <<loc, events, interned>>

\* Mutant: the rest of a cut character is only looked for in the same span.
CutCharInSpan == CharLength(ring, call.p, SpanEnd(call.p))

\* The character at p, wherever the rest of it lies in the input.
CutChar == CharLengthWhole(ring, call.p)

PushChar ==
  /\ call.pc = "char" /\ CutChar > 0 /\ CutChar <= Free
  /\ LET text == Slice(ring, call.p, call.p + CutChar)
     IN  /\ tok' = Pushed(tok, text)
         /\ call' = [call EXCEPT !.p = @ + CutChar, !.units = @ + Units(text), !.pc = "run"]
  /\ UNCHANGED <<loc, events, interned>>

MalformedChar ==
  /\ call.pc = "char" /\ CutChar = Bad
  /\ call' = Failed(0, "syntax")
  /\ UNCHANGED <<tok, loc, events, interned>>

\* decode_run is done with a string value's run: either all of it, or up to a
\* character whose end has not arrived.
RunDecoded == call.pc = "run" /\ call.p = call.to
RunCutShort == call.pc = "char" /\ CutChar = More

-----------------------------------------------------------------------------
(* String values                                                           *)

StringStart ==
  /\ Looking(Quote) /\ Allowed(Quote) /\ tok.state = "ExpectValue"
  /\ LET empty == [EnsureChars(Here) EXCEPT !.chars = <<>>]
     IN  /\ loc' = Right(1)
         /\ Notify("start_string_value", <<>>, loc')
         /\ \/ HandlerFails("start_string_value", empty, 1)
            \/ TokenDone([empty EXCEPT !.in_string = TRUE, !.string_bytes = 0],
                         1, tok.state, FALSE)
  /\ UNCHANGED interned

ContinueString ==
  /\ call.pc = "loop" /\ tok.in_string /\ call.consumed < Total
  /\ tok' = EnsureChars(tok)
  /\ call' = [call EXCEPT !.pc = "string"]
  /\ UNCHANGED <<loc, events, interned>>

StringTooLong(length) == limits.max_string_length # NoLimit /\ length > limits.max_string_length

\* The next plain run, checked against the limit before any of it is decoded.
StringRun ==
  /\ call.pc = "string"
  /\ \E to \in call.consumed + 1 .. Total :
       /\ PlainRun(ring, call.consumed, to, Total)
       /\ call' = IF StringTooLong(tok.string_bytes + to - call.consumed)
                    THEN Failed(0, "limit")
                    ELSE [call EXCEPT !.pc = "run", !.p = call.consumed, !.to = to, !.units = 0]
  /\ UNCHANGED <<tok, loc, events, interned>>

\* Mutant: a run cut short by the end of the input is tried again at once.
StringRunDoneAgain ==
  /\ ~ReadingKey
  /\ RunDecoded \/ RunCutShort
  /\ tok' = [tok EXCEPT !.string_bytes = @ + call.p - call.consumed]
  /\ loc' = Right(call.units)
  /\ call' = [call EXCEPT !.consumed = call.p, !.pc = "string"]
  /\ UNCHANGED <<events, interned>>

StringRunDone ==
  /\ ~ReadingKey
  /\ RunDecoded \/ RunCutShort
  /\ tok' = [tok EXCEPT !.string_bytes = @ + call.p - call.consumed]
  /\ loc' = Right(call.units)
  /\ call' = [call EXCEPT !.consumed = call.p, !.pc = IF RunDecoded THEN "string" ELSE "pause"]
  /\ UNCHANGED <<events, interned>>

\* The string stops at `consumed', where no plain run begins.
AtStringStop == call.pc = "string" /\ (call.consumed < Total => ~Plain(CurrentByte))
AtEscape == AtStringStop /\ call.consumed < Total /\ CurrentByte = Backslash
AtStringEnd == AtStringStop /\ call.consumed < Total /\ CurrentByte = Quote

Escaped == EscapeText(ring, call.consumed, EscapeLength(ring, call.consumed))

\* Mutant: what has been decoded is not delivered before the call returns.
StringPauseUnflushed ==
  /\ AtStringStop
  /\ call.consumed < Total => AtEscape /\ EscapeLength(ring, call.consumed) = More
  /\ call' = Stopped
  /\ UNCHANGED <<tok, loc, events, interned>>

\* The input ends here, or inside an escape: deliver what there is and wait.
StringPause ==
  /\ AtStringStop
  /\ call.consumed < Total => AtEscape /\ EscapeLength(ring, call.consumed) = More
  /\ call' = [call EXCEPT !.pc = "pause"]
  /\ UNCHANGED <<tok, loc, events, interned>>

\* flush_chars is due: before the call pauses, before the string ends, and
\* when what comes next does not fit the buffer.
FlushDue ==
  \/ call.pc = "pause"
  \/ AtStringEnd
  \/ AtEscape /\ EscapeLength(ring, call.consumed) > 0 /\ Len(Escaped) > Free
  \/ call.pc = "run" /\ ~ReadingKey /\ call.p < call.to /\ Free < LowWater
  \/ call.pc = "char" /\ ~ReadingKey /\ CutChar > Free

FlushChars ==
  /\ FlushDue
  /\ tok.chars # <<>>
  /\ Notify("string_value_content", tok.chars, loc)
  /\ \/ HandlerFails("string_value_content", tok, 0)
     \/ tok' = [tok EXCEPT !.chars = <<>>] /\ call' = call
  /\ UNCHANGED <<loc, interned>>

StringPaused ==
  /\ call.pc = "pause" /\ tok.chars = <<>>
  /\ call' = Stopped
  /\ UNCHANGED <<tok, loc, events, interned>>

StringEnd ==
  /\ AtStringEnd /\ tok.chars = <<>>
  /\ LET t == [tok EXCEPT !.in_string = FALSE, !.state = "AfterValue"]
     IN  /\ loc' = Right(1)
         /\ Notify("end_string_value", <<>>, loc')
         /\ \/ HandlerFails("end_string_value", t, 1)
            \/ tok' = t /\ call' = Advanced(1)
  /\ UNCHANGED interned

\* An escape that is all there is pushed; its length counts against the
\* limit afterwards.
StringEscape ==
  /\ AtEscape
  /\ LET n == EscapeLength(ring, call.consumed)
         t == [Pushed(tok, Escaped) EXCEPT !.string_bytes = @ + n]
     IN  /\ n > 0 /\ Len(Escaped) <= Free
         /\ tok' = t
         /\ loc' = Right(n)
         /\ call' = IF StringTooLong(t.string_bytes) THEN Failed(n, "limit")
                    ELSE [call EXCEPT !.consumed = @ + n]
  /\ UNCHANGED <<events, interned>>

StringWrong ==
  /\ AtStringStop /\ call.consumed < Total
  /\ \/ CurrentByte \in Controls
     \/ AtEscape /\ EscapeLength(ring, call.consumed) = Bad
  /\ call' = Failed(0, "syntax")
  /\ UNCHANGED <<tok, loc, events, interned>>

-----------------------------------------------------------------------------
(* Keys: read whole, or not at all                                         *)

KeyTooLong(length) == limits.max_name_length # NoLimit /\ length > limits.max_name_length

KeyStart == call.consumed + 1
AtKey == Looking(Quote) /\ Allowed(Quote) /\ tok.state = "ExpectKey"

\* Where the scan of the key may stop: at the closing quote, a control byte,
\* or past the limit on its length.
KeyStops ==
  {i \in KeyStart .. Total - 1 :
     /\ ~Skipped(ring, KeyStart, i)
     /\ KeyTooLong(i - KeyStart) \/ At(i) \in {Quote} \cup Controls}

\* The scan of the key stops at i.
KeyScanned(i) == IsMin(i, KeyStops)

KeyIncomplete ==
  /\ AtKey
  /\ KeyStops = {}
  /\ tok' = Here
  /\ call' = Stopped
  /\ UNCHANGED <<loc, events, interned>>

KeyRefused ==
  /\ AtKey
  /\ \E i \in KeyStart .. Total - 1 :
       /\ KeyScanned(i)
       /\ \/ KeyTooLong(i - KeyStart) /\ call' = Failed(0, "limit")
          \/ ~KeyTooLong(i - KeyStart) /\ At(i) # Quote /\ call' = Failed(0, "syntax")
  /\ tok' = Here
  /\ UNCHANGED <<loc, events, interned>>

\* Mutant: an escaped key is looked up and stored too.
InternableEscaped(end) ==
  /\ ~tok.intern_disabled
  /\ end - KeyStart <= MaxKeyBytes
  /\ Contiguous(KeyStart, end)

\* Interning needs the key verbatim, contiguous and short.
Internable(end) ==
  /\ \A i \in KeyStart .. end - 1 : At(i) # Backslash
  /\ ~tok.intern_disabled
  /\ end - KeyStart <= MaxKeyBytes
  /\ Contiguous(KeyStart, end)

\* The key ends at `end': it is looked up if it can be, else decoded.
KeyFound ==
  /\ AtKey
  /\ \E end \in KeyStart .. Total - 1 :
       /\ KeyScanned(end) /\ At(end) = Quote /\ ~KeyTooLong(end - KeyStart)
       /\ LET raw == Slice(ring, KeyStart, end)
              empty == [EnsureChars(Here) EXCEPT !.chars = <<>>]
              key == IF ~Internable(end) THEN "verbatim"
                     ELSE IF raw \in interned THEN "hit" ELSE "miss"
          IN  /\ tok' = [empty EXCEPT !.attempts = IF key = "verbatim" THEN @ ELSE @ + 1,
                                      !.hits = IF key = "hit" THEN @ + 1 ELSE @]
              /\ call' = [call EXCEPT !.pc = "key", !.key = key, !.end = end,
                                      !.p = IF key = "hit" THEN end ELSE KeyStart,
                                      !.units = IF key = "hit" THEN Units(raw) ELSE 0]
  /\ UNCHANGED <<loc, events, interned>>

KeyRun ==
  /\ call.pc = "key"
  /\ \E to \in call.p + 1 .. call.end :
       /\ PlainRun(ring, call.p, to, call.end)
       /\ call' = [call EXCEPT !.pc = "run", !.to = to]
  /\ UNCHANGED <<tok, loc, events, interned>>

KeyRunDone ==
  /\ ReadingKey
  /\ RunDecoded \/ RunCutShort
  /\ call' = IF RunDecoded THEN [call EXCEPT !.pc = "key"] ELSE Failed(0, "syntax")
  /\ UNCHANGED <<tok, loc, events, interned>>

AtKeyEscape == call.pc = "key" /\ call.p < call.end /\ At(call.p) = Backslash

KeyEscape ==
  /\ AtKeyEscape
  /\ LET n == EscapeLength(ring, call.p)
     IN  /\ n > 0 /\ Len(EscapeText(ring, call.p, n)) <= Free
         /\ tok' = Pushed(tok, EscapeText(ring, call.p, n))
         /\ call' = [call EXCEPT !.p = @ + n, !.units = @ + n]
  /\ UNCHANGED <<loc, events, interned>>

KeyEscapeWrong ==
  /\ AtKeyEscape
  /\ EscapeLength(ring, call.p) \in {More, Bad}
  /\ call' = Failed(0, "syntax")
  /\ UNCHANGED <<tok, loc, events, interned>>

\* The key does not fit the character buffer, which for a key is an error.
KeyDoesNotFit ==
  /\ ReadingKey
  /\ \/ call.pc = "run" /\ call.p < call.to /\ Free < LowWater
     \/ call.pc = "char" /\ CutChar > Free
     \/ /\ AtKeyEscape
        /\ EscapeLength(ring, call.p) > 0
        /\ Len(EscapeText(ring, call.p, EscapeLength(ring, call.p))) > Free
  /\ call' = Failed(0, "limit")
  /\ UNCHANGED <<tok, loc, events, interned>>

KeyText == IF call.key = "hit" THEN Slice(ring, KeyStart, call.end) ELSE tok.chars

\* put: a key that was looked up and not found, unless the table is full.
Put(text) == IF Cardinality(interned) < MaxEntries THEN interned \cup {text} ELSE interned

\* Mutants: a key found in the symbol table is not looked for among the keys
\* of the object; a key of an enclosing object counts.
DuplicateUnlessHit(text) ==
  /\ tok.reject_duplicate_keys /\ tok.duplicate_key_stack # <<>>
  /\ call.key # "hit" /\ text \in Top(tok.duplicate_key_stack)
DuplicateAnywhere(text) ==
  /\ tok.reject_duplicate_keys
  /\ \E i \in DOMAIN tok.duplicate_key_stack : text \in tok.duplicate_key_stack[i]

Duplicate(text) ==
  /\ tok.reject_duplicate_keys /\ tok.duplicate_key_stack # <<>>
  /\ text \in Top(tok.duplicate_key_stack)

\* The duplicate set of the innermost object with `text' in it.
Seen(t, text) ==
  IF t.reject_duplicate_keys /\ t.duplicate_key_stack # <<>>
    THEN [t EXCEPT !.duplicate_key_stack = Append(Popped(@), Top(@) \cup {text})]
    ELSE t

\* A table without a single hit after enough keys is not worth looking in.
Disabled(t) ==
  IF call.key = "miss" /\ t.hits = 0 /\ t.attempts >= InternThreshold
    THEN [t EXCEPT !.intern_disabled = TRUE] ELSE t

\* report_key, then what process_token does once the key has been reported.
KeyDone ==
  /\ call.pc = "key" /\ call.p = call.end
  /\ LET n == call.end + 1 - call.consumed
         t == Disabled(Seen(tok, KeyText))
     IN  \/ /\ Duplicate(KeyText)
            /\ tok' = Disabled(tok) /\ call' = Failed(n, "duplicate")
            /\ UNCHANGED <<loc, events>>
         \/ /\ ~Duplicate(KeyText)
            /\ loc' = Right(2 + call.units)
            /\ Notify("key", KeyText, loc')
            /\ \/ HandlerFails("key", t, n)
               \/ TokenDone(t, n, "ExpectColon", FALSE)
  /\ interned' = IF call.key = "miss" THEN Put(KeyText) ELSE interned

-----------------------------------------------------------------------------
LoopEnd ==
  /\ call.pc = "loop" /\ call.consumed = Total
  /\ call' = Stopped
  /\ UNCHANGED <<tok, loc, events, interned>>

StructureStep ==
  Refuse \/ Comma \/ Colon \/ OpenTooDeep \/ StartObject \/ StartArray \/ EndObject \/ EndArray

LiteralStep ==
  \E b \in DOMAIN Literals : Literal(b) \/ LiteralIncomplete(b) \/ LiteralWrong(b)

NumberStep ==
  \/ \E b \in Digits \cup {"-"} : NumberStart(b)
  \/ NumberRun \/ NumberByte \/ NumberEnd \/ NumberWrong

WhitespaceStep == Whitespace \/ ReportWhitespace

DecodeStep == DecodeSlice \/ PushChar \/ MalformedChar \/ FlushChars

StringStep ==
  \/ StringStart \/ ContinueString \/ StringRun \/ StringRunDone \/ StringPause
  \/ StringPaused \/ StringEnd \/ StringEscape \/ StringWrong

KeyStep ==
  \/ KeyIncomplete \/ KeyRefused \/ KeyFound \/ KeyRun \/ KeyRunDone
  \/ KeyEscape \/ KeyEscapeWrong \/ KeyDoesNotFit \/ KeyDone

\* One step of Tokenizer::receive.
TokenizerStep ==
  /\ StructureStep \/ LiteralStep \/ NumberStep \/ WhitespaceStep \/ DecodeStep \/ StringStep \/ KeyStep \/ LoopEnd
  /\ UNCHANGED <<ring, limits>>
==============================================================================
