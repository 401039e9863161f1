---------------------------- MODULE ParserProofs ----------------------------
(***************************************************************************)
(* The parser keeps its type invariant, for every alphabet, capacity,      *)
(* limit and choice of settings, and counts every byte of a document once. *)
(* StackProofs builds on it.                                               *)
(***************************************************************************)
EXTENDS ParserProperties, TLAPS, FiniteSetTheorems, SequenceTheorems

-----------------------------------------------------------------------------
(* Bytes                                                                   *)

\* Part of a sequence has the sequence's type (Slice, and the SubSeq calls).
LEMMA SliceType ==
  ASSUME NEW S, NEW s \in Seq(S), NEW from \in Nat, NEW to \in Nat, to <= Len(s)
  PROVE  Slice(s, from, to) \in Seq(S)
BY DEF Slice

\* The bytes of the ring, and any part of them, are texts.
LEMMA RingText ==
  ASSUME ring \in Seq(Alphabet), NEW from \in Nat, NEW to \in Nat, to <= Len(ring)
  PROVE  Slice(ring, from, to) \in Bytes
<1>1. Slice(ring, from, to) \in Seq(Alphabet)  BY SliceType
<1>2. Alphabet \subseteq Symbols  BY BytesAssumption
<1> QED  BY <1>1, <1>2, SeqMonotonic DEF Bytes

\* Joining two texts makes a text.
LEMMA TextJoined ==
  ASSUME NEW s \in Bytes, NEW t \in Bytes  PROVE s \o t \in Bytes
BY DEF Bytes

\* UTF-16 units are counted in natural numbers.
LEMMA UnitsType ==
  ASSUME NEW text \in Bytes  PROVE Units(text) \in Nat
<1> DEFINE wide == {i \in DOMAIN text : text[i] = "F0"}
           chars == {i \in DOMAIN text : text[i] \notin Continuations}
<1>1. IsFiniteSet(1 .. Len(text)) /\ DOMAIN text = 1 .. Len(text)  BY FS_Interval DEF Bytes
<1>2. IsFiniteSet(wide) /\ IsFiniteSet(chars)  BY <1>1, FS_Subset
<1>3. Cardinality(wide) \in Nat /\ Cardinality(chars) \in Nat  BY <1>2, FS_CardinalityType
<1> QED  BY <1>3 DEF Units

\* What the type invariant says, and what is left of it to show for a step
\* that leaves the ring alone.
LEMMA TypeFacts ==
  ASSUME TypeOK
  PROVE  /\ tok \in Tokenizers /\ call \in Calls /\ CallInRing(call) /\ loc \in Locators
         /\ interned \in SUBSET Bytes /\ events \in Seq(Events)
         /\ ring \in Seq(Alphabet) /\ Len(ring) \in Nat
         /\ <<>> \in Bytes /\ 0 \in Nat /\ 1 \in Nat
BY LenProperties DEF TypeOK, TokenizerTypeOK, CallerTypeOK, Bytes

\* The types of the tokenizer's variables, when its input stays.
LEMMA TypesKept ==
  ASSUME UNCHANGED <<ring, limits>>, tok' \in Tokenizers, call' \in Calls, CallInRing(call'),
         loc' \in Locators, interned' \in SUBSET Bytes, events' \in Seq(Events)
  PROVE  TokenizerTypeOK'
BY DEF TokenizerTypeOK, CallInRing

-----------------------------------------------------------------------------
(* What the pieces of a step do to the types                               *)

\* The fields of the records that are computed with.
LEMMA TokenizerFields ==
  ASSUME NEW t \in Tokenizers
  PROVE  /\ t.token_count \in Nat /\ t.attempts \in Nat /\ t.hits \in Nat
         /\ t.string_bytes \in Nat /\ t.length \in Nat /\ t.chunk_size \in Nat
         /\ t.chars \in Bytes /\ t.number \in Bytes
         /\ t.state \in States /\ t.stage \in NumStages
         /\ t.context_stack \in Seq(Contexts) /\ t.depth_stack \in Seq(NestTokens)
         /\ t.duplicate_key_stack \in Seq(SUBSET Bytes)
         /\ t.reject_duplicate_keys \in BOOLEAN
BY DEF Tokenizers

\* The types of a call's fields.
LEMMA CallFields ==
  ASSUME call \in Calls
  PROVE  /\ call.consumed \in Nat /\ call.wrap \in Nat /\ call.p \in Nat
         /\ call.to \in Nat /\ call.end \in Nat /\ call.units \in Nat
         /\ call.op \in {"none", "receive", "close"} /\ call.error \in Errors
BY DEF Calls

\* Counting a token keeps a tokenizer's type.
LEMMA CountedType ==
  ASSUME NEW t \in Tokenizers  PROVE Counted(t) \in Tokenizers
<1>1. t.token_count + 1 \in Nat  BY TokenizerFields
<1> QED  BY <1>1, Zenon DEF Counted, Tokenizers

\* Forgetting a CR keeps the tokenizer's type.
LEMMA HereType ==
  ASSUME tok \in Tokenizers  PROVE Here \in Tokenizers
BY Zenon DEF Here, Tokenizers

\* A call goes on, or fails, after bytes that are there.
LEMMA CallGoesOn ==
  ASSUME call \in Calls, CallInRing(call), NEW n \in Nat, call.consumed + n <= Len(ring),
         NEW error \in Errors
  PROVE  /\ Advanced(n) \in Calls /\ CallInRing(Advanced(n))
         /\ Failed(n, error) \in Calls /\ CallInRing(Failed(n, error))
<1>1. call.consumed + n \in Nat  BY CallFields
<1>2. Advanced(n) \in Calls /\ Failed(n, error) \in Calls
  BY <1>1, Zenon DEF Calls, PCs, Advanced, Failed
<1>3. ASSUME NEW c \in {Advanced(n), Failed(n, error)}
      PROVE  c.consumed = call.consumed + n /\ c.wrap = call.wrap /\ c.p = call.p /\ c.to = call.to
             /\ c.key = "none" /\ c.pc \in {"loop", "fed"}
  BY <1>3, Zenon DEF Calls, Advanced, Failed
<1> QED  BY <1>2, <1>3 DEF CallInRing

\* A call may stop, or fail, wherever it is.
LEMMA CallStops ==
  ASSUME call \in Calls, CallInRing(call), NEW error \in Errors
  PROVE  /\ Stopped \in Calls /\ CallInRing(Stopped)
         /\ Failed(0, error) \in Calls /\ CallInRing(Failed(0, error))
<1>1. call.consumed + 0 <= Len(ring)  BY CallFields DEF CallInRing
<1>2. Stopped \in Calls /\ Stopped.consumed = call.consumed /\ Stopped.wrap = call.wrap
      /\ Stopped.p = call.p /\ Stopped.to = call.to /\ Stopped.key = "none" /\ Stopped.pc = "fed"
  BY Zenon DEF Calls, PCs, Stopped
<1>3. CallInRing(Stopped)  BY <1>2 DEF CallInRing
<1> QED  BY <1>1, <1>2, <1>3, CallGoesOn

\* A callback extends the history by an event.
LEMMA NotifyType ==
  ASSUME events \in Seq(Events), NEW ev \in Callbacks, NEW text \in Bytes, NEW at \in Locators,
         Notify(ev, text, at)
  PROVE  events' \in Seq(Events)
<1>1. [ev |-> ev, text |-> text, line |-> at.line, column |-> at.column] \in Events
  BY DEF Events, Locators
<1> QED  BY <1>1, AppendProperties DEF Notify

\* The locator moves to the right.
LEMMA RightType ==
  ASSUME loc \in Locators, NEW n \in Nat  PROVE Right(n) \in Locators
<1>1. loc.column + n \in Nat  BY DEF Locators
<1> QED  BY <1>1, Zenon DEF Right, Locators

\* A handler that refuses leaves a tokenizer and a call.
LEMMA HandlerFailsType ==
  ASSUME call \in Calls, CallInRing(call), NEW ev, NEW t \in Tokenizers, NEW n \in Nat,
         call.consumed + n <= Len(ring), HandlerFails(ev, t, n)
  PROVE  tok' \in Tokenizers /\ call' \in Calls /\ CallInRing(call')
<1>1. "handler" \in Errors  BY DEF Errors
<1> QED  BY <1>1, CallGoesOn DEF HandlerFails

\* token_done leaves a tokenizer and a call, whether it fails or not.
LEMMA TokenDoneType ==
  ASSUME call \in Calls, CallInRing(call), NEW t \in Tokenizers, NEW n \in Nat, call.consumed + n <= Len(ring),
         NEW state \in States, NEW afterComma \in BOOLEAN, TokenDone(t, n, state, afterComma)
  PROVE  tok' \in Tokenizers /\ call' \in Calls /\ CallInRing(call')
<1>1. Counted(t) \in Tokenizers  BY CountedType
<1>2. [Counted(t) EXCEPT !.state = state, !.after_comma = afterComma] \in Tokenizers
  BY <1>1, Zenon DEF Tokenizers
<1>3. "limit" \in Errors  BY DEF Errors
<1> QED  BY <1>1, <1>2, <1>3, CallGoesOn DEF TokenDone

-----------------------------------------------------------------------------
(* Tokens of one byte                                                      *)

\* A stack without its top is a stack.
LEMMA PoppedType ==
  ASSUME NEW S, NEW stack \in Seq(S)  PROVE Popped(stack) \in Seq(S)
BY DEF Popped

\* Entering and leaving a nest keeps the tokenizer's type.
LEMMA NestType ==
  ASSUME NEW t \in Tokenizers
  PROVE  /\ ObjectEntered(t) \in Tokenizers /\ ArrayEntered(t) \in Tokenizers
         /\ ObjectLeft(t) \in Tokenizers /\ ArrayLeft(t) \in Tokenizers
<1>1. /\ Append(t.context_stack, "Object") \in Seq(Contexts)
      /\ Append(t.context_stack, "Array") \in Seq(Contexts)
  BY TokenizerFields, AppendProperties DEF Contexts
<1>2. /\ Append(t.depth_stack, "StartObject") \in Seq(NestTokens)
      /\ Append(t.depth_stack, "StartArray") \in Seq(NestTokens)
  BY TokenizerFields, AppendProperties DEF NestTokens
<1>3. Append(t.duplicate_key_stack, {}) \in Seq(SUBSET Bytes)
  BY TokenizerFields, AppendProperties
<1>4. /\ Popped(t.context_stack) \in Seq(Contexts)
      /\ Popped(t.depth_stack) \in Seq(NestTokens)
      /\ Popped(t.duplicate_key_stack) \in Seq(SUBSET Bytes)
  BY TokenizerFields, PoppedType
<1>5. ObjectEntered(t) \in Tokenizers  BY <1>1, <1>2, <1>3, Zenon DEF ObjectEntered, Tokenizers
<1>6. ArrayEntered(t) \in Tokenizers  BY <1>1, <1>2, Zenon DEF ArrayEntered, Tokenizers
<1>7. ObjectLeft(t) \in Tokenizers  BY <1>4, Zenon DEF ObjectLeft, Tokenizers
<1>8. ArrayLeft(t) \in Tokenizers  BY <1>4, Zenon DEF ArrayLeft, Tokenizers
<1> QED  BY <1>5, <1>6, <1>7, <1>8

\* Between tokens, and in a number, there is a byte to consume.
LEMMA ByteThere ==
  ASSUME TypeOK, call.consumed < Total
  PROVE  /\ call.consumed \in Nat /\ call.consumed + 1 <= Len(ring) /\ call.consumed + 0 <= Len(ring)
         /\ Here \in Tokenizers
BY TypeFacts, CallFields, HereType DEF Total

\* A bracket keeps the types, if the nest it enters or leaves does.
LEMMA BracketType ==
  ASSUME TypeOK, UNCHANGED <<ring, limits>>, NEW b, NEW ev \in Callbacks, NEW t \in Tokenizers,
         NEW state \in States, Bracket(b, ev, t, state)
  PROVE  TokenizerTypeOK'
<1>1. call.consumed < Total  BY DEF Bracket, Looking, BetweenTokens
<1>2. loc' \in Locators  BY <1>1, TypeFacts, ByteThere, RightType DEF Bracket
<1>3. events' \in Seq(Events)  BY <1>1, <1>2, TypeFacts, ByteThere, NotifyType DEF Bracket
<1>4. tok' \in Tokenizers /\ call' \in Calls /\ CallInRing(call')
  <2>1. CASE HandlerFails(ev, Here, 1)  BY <1>1, <2>1, TypeFacts, ByteThere, HandlerFailsType
  <2>2. CASE TokenDone(t, 1, state, FALSE)  BY <1>1, <2>2, TypeFacts, ByteThere, TokenDoneType
  <2> QED  BY <2>1, <2>2 DEF Bracket
<1> QED  BY <1>2, <1>3, <1>4, TypeFacts, TypesKept DEF Bracket

\* Tokens of one byte, and the bytes no token may begin with.
LEMMA StructureType ==
  ASSUME TypeOK, UNCHANGED <<ring, limits>>, StructureStep
  PROVE  TokenizerTypeOK'
<1> USE DEF Looking, BetweenTokens
<1>1. ASSUME call.consumed < Total, tok' = Here, NEW error \in {"syntax", "limit"},
             call' = Failed(0, error), UNCHANGED <<loc, events, interned>>
      PROVE  TokenizerTypeOK'
  <2>1. error \in Errors  BY <1>1 DEF Errors
  <2>2. call' \in Calls /\ CallInRing(call')  BY <1>1, <2>1, TypeFacts, ByteThere, CallGoesOn
  <2> QED  BY <1>1, <2>2, TypeFacts, ByteThere, TypesKept
<1>2. ASSUME call.consumed < Total, NEW state \in States, NEW afterComma \in BOOLEAN,
             TokenDone(Here, 1, state, afterComma), loc' = Right(1), UNCHANGED <<events, interned>>
      PROVE  TokenizerTypeOK'
  <2>1. tok' \in Tokenizers /\ call' \in Calls /\ CallInRing(call')
    BY <1>2, TypeFacts, ByteThere, TokenDoneType
  <2>2. loc' \in Locators  BY <1>2, TypeFacts, ByteThere, RightType
  <2> QED  BY <1>2, <2>1, <2>2, TypeFacts, TypesKept
<1>3. CASE Refuse  BY <1>1, <1>3 DEF Refuse
<1>4. CASE OpenTooDeep  BY <1>1, <1>4 DEF OpenTooDeep
<1>5. CASE Comma
  <2>1. (IF Inside("Object") THEN "ExpectKey" ELSE "ExpectValue") \in States  BY DEF States
  <2> QED  BY <1>2, <1>5, <2>1 DEF Comma
<1>6. CASE Colon
  <2>1. "ExpectValue" \in States  BY DEF States
  <2> QED  BY <1>2, <1>6, <2>1 DEF Colon
<1>7. Here \in Tokenizers  BY HereType, TypeFacts, TypesKept
<1>8. CASE StartObject
  <2>1. Bracket("{", "start_object", ObjectEntered(Here), "ExpectKey")  BY <1>8 DEF StartObject
  <2>2. ObjectEntered(Here) \in Tokenizers /\ "ExpectKey" \in States  BY <1>7, NestType DEF States
  <2>3. "start_object" \in Callbacks  BY DEF Callbacks
  <2> QED  BY <2>1, <2>2, <2>3, BracketType
<1>9. CASE StartArray
  <2>1. Bracket("[", "start_array", ArrayEntered(Here), "ExpectValue")  BY <1>9 DEF StartArray
  <2>2. ArrayEntered(Here) \in Tokenizers /\ "ExpectValue" \in States  BY <1>7, NestType DEF States
  <2>3. "start_array" \in Callbacks  BY DEF Callbacks
  <2> QED  BY <2>1, <2>2, <2>3, BracketType
<1>10. CASE EndObject
  <2>1. Bracket("}", "end_object", ObjectLeft(Here), "AfterValue")  BY <1>10 DEF EndObject
  <2>2. ObjectLeft(Here) \in Tokenizers /\ "AfterValue" \in States  BY <1>7, NestType DEF States
  <2>3. "end_object" \in Callbacks  BY DEF Callbacks
  <2> QED  BY <2>1, <2>2, <2>3, BracketType
<1>11. CASE EndArray
  <2>1. Bracket("]", "end_array", ArrayLeft(Here), "AfterValue")  BY <1>11 DEF EndArray
  <2>2. ArrayLeft(Here) \in Tokenizers /\ "AfterValue" \in States  BY <1>7, NestType DEF States
  <2>3. "end_array" \in Callbacks  BY DEF Callbacks
  <2> QED  BY <2>1, <2>2, <2>3, BracketType
<1> QED
  BY <1>3, <1>4, <1>5, <1>6, <1>8, <1>9, <1>10, <1>11 DEF StructureStep
-----------------------------------------------------------------------------
(* Literals                                                                *)

\* A literal, whole, cut short or misspelt, keeps the types.
LEMMA LiteralType ==
  ASSUME TypeOK, UNCHANGED <<ring, limits>>, LiteralStep
  PROVE  TokenizerTypeOK'
<1> PICK b \in DOMAIN Literals : Literal(b) \/ LiteralIncomplete(b) \/ LiteralWrong(b)
  BY DEF LiteralStep
<1>1. call.consumed < Total
  BY DEF Literal, LiteralIncomplete, LiteralWrong, Looking, BetweenTokens
<1>2. CASE Literal(b)
  <2> DEFINE n == 1 + Len(Literals[b])
             after == [Counted(Here) EXCEPT !.after_comma = FALSE, !.state = "AfterValue"]
  <2>1. n \in Nat /\ call.consumed + n <= Len(ring)
    <3>1. Len(Literals[b]) \in Nat  BY BytesAssumption, LenProperties
    <3>2. call.consumed + Len(Literals[b]) < Len(ring)  BY <1>2 DEF Literal, LiteralPresent, Total
    <3>3. call.consumed \in Nat /\ Len(ring) \in Nat
      BY <1>1, TypeFacts, ByteThere, LenProperties, TypeFacts
    <3> QED  BY <3>1, <3>2, <3>3
  <2>2. Counted(Here) \in Tokenizers  BY <1>1, TypeFacts, ByteThere, CountedType
  <2>3. after \in Tokenizers  BY <2>2, Zenon DEF Tokenizers, States
  <2>4. loc' = Right(n)  BY <1>2 DEF Literal
  <2>5. loc' \in Locators  BY <1>1, <2>1, <2>4, TypeFacts, ByteThere, RightType
  <2>6. "limit" \in Errors  BY DEF Errors
  <2> HIDE DEF n, after
  <2>7. CASE tok' = Counted(Here) /\ call' = Failed(n, "limit") /\ UNCHANGED events
    <3>1. call' \in Calls /\ CallInRing(call')  BY <1>1, <2>1, <2>6, <2>7, TypeFacts, ByteThere, CallGoesOn
    <3> QED  BY <1>2, <2>2, <2>5, <2>7, <3>1, TypeFacts, TypesKept DEF Literal
  <2>8. CASE /\ Notify("literal", <<b>>, loc')
             /\ HandlerFails("literal", after, n) \/ (tok' = after /\ call' = Advanced(n))
    <3>1. <<b>> \in Bytes
      <4>1. b \in Symbols  BY BytesAssumption DEF Symbols, SimpleEscapes
      <4> QED  BY <4>1 DEF Bytes
    <3>2. "literal" \in Callbacks  BY DEF Callbacks
    <3>3. events' \in Seq(Events)  BY <1>1, <2>5, <2>8, <3>1, <3>2, TypeFacts, ByteThere, NotifyType
    <3>4. tok' \in Tokenizers /\ call' \in Calls /\ CallInRing(call')
      BY <1>1, <2>1, <2>3, <2>6, <2>8, TypeFacts, ByteThere, HandlerFailsType, CallGoesOn
    <3> QED  BY <1>2, <2>5, <3>3, <3>4, TypeFacts, TypesKept DEF Literal
  <2> QED  BY <1>2, <2>7, <2>8 DEF Literal, n, after
<1>3. ASSUME tok' = Here, call' = Stopped \/ call' = Failed(0, "syntax"), UNCHANGED <<loc, events, interned>>
      PROVE  TokenizerTypeOK'
  <2>1. "syntax" \in Errors  BY DEF Errors
  <2>2. call' \in Calls /\ CallInRing(call')
    BY <1>3, <2>1, CallStops, TypeFacts, TypesKept
  <2> QED  BY <1>1, <1>3, <2>2, TypeFacts, ByteThere, TypesKept
<1> QED  BY <1>2, <1>3 DEF LiteralIncomplete, LiteralWrong

-----------------------------------------------------------------------------
(* Numbers                                                                 *)

\* More bytes of a number keep the types.
LEMMA TakeNumberType ==
  ASSUME TypeOK, UNCHANGED <<ring, limits>>, UNCHANGED interned, NEW n \in Nat,
         call.consumed + n <= Len(ring), NEW stage \in NumStages, TakeNumber(n, stage)
  PROVE  TokenizerTypeOK'
<1> DEFINE text == Slice(ring, call.consumed, call.consumed + n)
<1>1. tok \in Tokenizers /\ call \in Calls /\ call.consumed \in Nat
  BY CallFields, TypeFacts, TypesKept
<1>2. text \in Bytes  BY <1>1, RingText, TypeFacts
<1>3. tok.length + n \in Nat /\ tok.number \o text \in Bytes
  BY <1>1, <1>2, TokenizerFields, TextJoined
<1>4. tok' \in Tokenizers  BY <1>1, <1>3, Zenon DEF TakeNumber, Tokenizers
<1>5. "limit" \in Errors  BY DEF Errors
<1>6. call' \in Calls /\ CallInRing(call')
  BY <1>1, <1>5, TypeFacts, CallGoesOn DEF TakeNumber
<1> QED  BY <1>4, <1>6, TypeFacts, TypesKept DEF TakeNumber

\* Reporting a number keeps the types.
LEMMA EmitNumberType ==
  ASSUME TypeOK, UNCHANGED <<ring, limits>>, UNCHANGED interned,
         NEW next \in Calls, CallInRing(next), EmitNumber(next)
  PROVE  TokenizerTypeOK'
<1> DEFINE t == [tok EXCEPT !.stage = "None", !.state = "AfterValue"]
<1>1. tok \in Tokenizers /\ call \in Calls  BY TypeFacts, TypesKept
<1>2. t \in Tokenizers  BY <1>1, Zenon DEF Tokenizers, NumStages, States
<1>3. tok.length \in Nat /\ tok.number \in Bytes  BY <1>1, TokenizerFields
<1>4. loc' = Right(tok.length) /\ Notify("number_value", tok.number, loc')  BY DEF EmitNumber
<1>5. loc' \in Locators  BY <1>3, <1>4, RightType, TypeFacts, TypesKept
<1>6. "number_value" \in Callbacks  BY DEF Callbacks
<1>7. events' \in Seq(Events)  BY <1>3, <1>4, <1>5, <1>6, NotifyType, TypeFacts, TypesKept
<1>8. HandlerFails("number_value", t, 0) \/ (tok' = t /\ call' = next)  BY DEF EmitNumber
<1>9. call.consumed + 0 <= Len(ring)  BY <1>1, CallFields, TypeFacts DEF CallInRing
<1> HIDE DEF t
<1>10. tok' \in Tokenizers /\ call' \in Calls /\ CallInRing(call')
  BY <1>1, <1>2, <1>8, <1>9, TypeFacts, HandlerFailsType
<1> QED  BY <1>5, <1>7, <1>10, TypeFacts, TypesKept

\* Every step of a number keeps the types.
LEMMA NumberType ==
  ASSUME TypeOK, UNCHANGED <<ring, limits>>, NumberStep
  PROVE  TokenizerTypeOK'
<1>1. CASE \E b \in Digits \cup {"-"} : NumberStart(b)
  <2> PICK b \in Digits \cup {"-"} : NumberStart(b)  BY <1>1
  <2> DEFINE t == [Here EXCEPT !.stage = FirstStage(b), !.number = <<b>>, !.length = 1]
  <2>1. call.consumed < Total  BY DEF NumberStart, Looking, BetweenTokens
  <2>2. <<b>> \in Bytes
    <3>1. b \in Symbols  BY DEF Digits, Symbols
    <3> QED  BY <3>1 DEF Bytes
  <2>3. FirstStage(b) \in NumStages  BY DEF FirstStage, NumStages
  <2>4. 1 \in Nat /\ Here \in Tokenizers  BY <2>1, TypeFacts, ByteThere
  <2>5. t \in Tokenizers  BY <2>2, <2>3, <2>4, Zenon DEF Tokenizers
  <2>6. tok.state \in States /\ FALSE \in BOOLEAN  BY TokenizerFields, TypeFacts, TypesKept
  <2>7. TokenDone(t, 1, tok.state, FALSE) /\ UNCHANGED <<loc, events, interned>>  BY DEF NumberStart
  <2> HIDE DEF t
  <2>8. tok' \in Tokenizers /\ call' \in Calls /\ CallInRing(call')
    BY <2>1, <2>5, <2>6, <2>7, TypeFacts, ByteThere, TokenDoneType
  <2> QED  BY <2>7, <2>8, TypeFacts, TypesKept
<1>2. CASE NumberRun
  <2> PICK n \in 1 .. SpanEnd(call.consumed) - call.consumed : TakeNumber(n, tok.stage)
    BY <1>2 DEF NumberRun
  <2>1. call.consumed \in Nat /\ SpanEnd(call.consumed) <= Len(ring) /\ n \in Nat
        /\ call.consumed + n <= Len(ring)
    <3>1. call.consumed \in Nat /\ call.wrap \in Nat /\ Len(ring) \in Nat
      BY CallFields, TypeFacts
    <3>2. call.wrap <= Len(ring)  BY TypeFacts DEF CallInRing
    <3> QED  BY <3>1, <3>2 DEF SpanEnd, Total
  <2>2. tok.stage \in NumStages  BY TokenizerFields, TypeFacts, TypesKept
  <2> QED  BY <1>2, <2>1, <2>2, TakeNumberType DEF NumberRun, TakeNumber
<1>3. CASE NumberByte
  <2> PICK next \in NumStages : TakeNumber(1, next)  BY <1>3 DEF NumberByte
  <2>1. call.consumed < Total  BY <1>3 DEF NumberByte, InNumber
  <2> QED  BY <2>1, TypeFacts, ByteThere, TakeNumberType DEF TakeNumber
<1>4. CASE NumberEnd
  <2>1. call.consumed < Total  BY <1>4 DEF NumberEnd, InNumber
  <2>2. "none" \in Errors  BY DEF Errors
  <2>3. Advanced(0) \in Calls /\ CallInRing(Advanced(0))  BY <2>1, <2>2, TypeFacts, ByteThere, CallGoesOn
  <2> QED  BY <1>4, <2>3, EmitNumberType DEF NumberEnd
<1>5. CASE NumberWrong
  <2>1. "syntax" \in Errors  BY DEF Errors
  <2>2. call' \in Calls /\ CallInRing(call')
    BY <1>5, <2>1, CallStops, TypeFacts, TypesKept DEF NumberWrong
  <2> QED  BY <1>5, <2>2, TypeFacts, TypesKept DEF NumberWrong
<1> QED  BY <1>1, <1>2, <1>3, <1>4, <1>5 DEF NumberStep
-----------------------------------------------------------------------------
(* Whitespace                                                              *)

\* The end of a span is in the ring.
LEMMA SpanEndType ==
  ASSUME TypeOK, NEW i \in Nat
  PROVE  SpanEnd(i) \in Nat /\ SpanEnd(i) <= Len(ring)
BY TypeFacts, CallFields DEF SpanEnd, Total, CallInRing

\* Positions of the input are counted in natural numbers.
LEMMA CountType ==
  ASSUME NEW a \in Nat, NEW b \in Nat, NEW S, S \subseteq a .. b - 1  PROVE Cardinality(S) \in Nat
<1>1. IsFiniteSet(a .. b - 1)  BY FS_Interval
<1> QED  BY <1>1, FS_Subset, FS_CardinalityType

\* Consuming and reporting whitespace keep the types.
LEMMA WhitespaceType ==
  ASSUME TypeOK, UNCHANGED <<ring, limits>>, WhitespaceStep
  PROVE  TokenizerTypeOK'
<1>1. CASE Whitespace
  <2>1. call.consumed < Total /\ call.pc = "loop"  BY <1>1 DEF Whitespace, BetweenTokens
  <2>2. call.consumed \in Nat /\ Total = Len(ring)  BY <2>1, ByteThere DEF Total
  <2>9. PICK to \in call.consumed + 1 .. Total :
        /\ LET n == to - call.consumed
               k == Cardinality(SinceBreak(to))
           IN  loc' = [line |-> loc.line + Cardinality(LineBreaks(to)),
                       column |-> IF k = n THEN loc.column + n ELSE 1 + k]
        /\ tok' = [tok EXCEPT !.after_cr = At(to - 1) = "CR"]
        /\ call' = [call EXCEPT !.consumed = to, !.p = call.consumed, !.to = to,
                                !.pc = IF NeedsWhitespace THEN "space" ELSE "loop"]
    BY <1>1 DEF Whitespace
  <2>3. to \in Nat /\ call.consumed < to /\ to <= Len(ring)  BY <2>2, TypeFacts
  <2>4. Cardinality(SinceBreak(to)) \in Nat /\ Cardinality(LineBreaks(to)) \in Nat
    <3>1. SinceBreak(to) \subseteq call.consumed .. to - 1  BY DEF SinceBreak
    <3>2. LineBreaks(to) \subseteq call.consumed .. to - 1  BY DEF LineBreaks
    <3> QED  BY <2>2, <2>3, <3>1, <3>2, CountType
  <2>5. loc' \in Locators
    <3> DEFINE n == to - call.consumed
               k == Cardinality(SinceBreak(to))
    <3>1. /\ n \in Nat /\ k \in Nat
          /\ loc.line + Cardinality(LineBreaks(to)) \in Nat /\ loc.column + n \in Nat
      BY <2>2, <2>3, <2>4, TypeFacts DEF Locators
    <3> HIDE DEF n
    <3>2. (IF k = n THEN loc.column + n ELSE 1 + k) \in Nat  BY <3>1
    <3> QED  BY <2>9, <3>1, <3>2 DEF Locators, n
  <2>6. tok' \in Tokenizers
    <3> DEFINE cr == At(to - 1) = "CR"
    <3>1. tok' = [tok EXCEPT !.after_cr = cr] /\ cr \in BOOLEAN  BY <2>9
    <3> HIDE DEF cr
    <3> QED  BY <3>1, TypeFacts, Zenon DEF Tokenizers
  <2>7. call' \in Calls  BY <2>2, <2>3, <2>9, TypeFacts, Zenon DEF Calls, PCs
  <2>8. CallInRing(call')
    <3>1. call.key = "none" /\ call.wrap <= Len(ring)  BY <2>1, TypeFacts DEF CallInRing
    <3>2. /\ call'.consumed = to /\ call'.p = call.consumed /\ call'.to = to
          /\ call'.pc \in {"space", "loop"} /\ call'.key = call.key /\ call'.wrap = call.wrap
      BY <2>9, TypeFacts, Zenon DEF Calls
    <3> QED  BY <2>2, <2>3, <3>1, <3>2 DEF CallInRing
  <2> QED  BY <1>1, <2>5, <2>6, <2>7, <2>8, TypeFacts, TypesKept DEF Whitespace
<1>2. CASE ReportWhitespace
  <2> DEFINE q == AtMost(SpanEnd(call.p), call.to)
  <2>1. call.p \in Nat /\ call.to \in Nat /\ call.to <= Len(ring)
    BY TypeFacts, CallFields DEF CallInRing
  <2>2. q \in Nat /\ q <= Len(ring)  BY <2>1, SpanEndType DEF AtMost
  <2>3. Slice(ring, call.p, q) \in Bytes  BY <2>1, <2>2, TypeFacts, RingText
  <2>4. Notify("whitespace", Slice(ring, call.p, q), loc)  BY <1>2 DEF ReportWhitespace
  <2>5. "whitespace" \in Callbacks  BY DEF Callbacks
  <2>6. events' \in Seq(Events)  BY <2>3, <2>4, <2>5, TypeFacts, NotifyType
  <2>7. \/ HandlerFails("whitespace", tok, 0)
        \/ tok' = tok /\ call' = [call EXCEPT !.p = q, !.pc = IF q = call.to THEN "loop" ELSE "space"]
    BY <1>2 DEF ReportWhitespace
  <2> HIDE DEF q
  <2>8. CASE HandlerFails("whitespace", tok, 0)
    <3>1. call.consumed + 0 <= Len(ring)  BY TypeFacts, CallFields DEF CallInRing
    <3>2. tok' \in Tokenizers /\ call' \in Calls /\ CallInRing(call')
      BY <2>8, <3>1, TypeFacts, HandlerFailsType
    <3> QED  BY <1>2, <2>6, <3>2, TypeFacts, TypesKept DEF ReportWhitespace
  <2>9. CASE tok' = tok /\ call' = [call EXCEPT !.p = q, !.pc = IF q = call.to THEN "loop" ELSE "space"]
    <3>1. call' \in Calls  BY <2>2, <2>9, TypeFacts, Zenon DEF Calls, PCs
    <3>2. /\ call'.p = q /\ call'.pc \in {"loop", "space"} /\ call'.consumed = call.consumed
          /\ call'.to = call.to /\ call'.wrap = call.wrap /\ call'.key = call.key
      BY <2>9, TypeFacts, Zenon DEF Calls
    <3>3. call.key = "none"  BY <1>2, TypeFacts DEF ReportWhitespace, CallInRing
    <3>4. CallInRing(call')  BY <2>2, <3>2, <3>3, TypeFacts DEF CallInRing
    <3> QED  BY <1>2, <2>6, <2>9, <3>1, <3>4, TypeFacts, TypesKept DEF ReportWhitespace
  <2> QED  BY <2>7, <2>8, <2>9
<1> QED  BY <1>1, <1>2 DEF WhitespaceStep
-----------------------------------------------------------------------------
(* Decoding                                                                *)

\* The character buffer made anew, emptied or added to.
LEMMA BufferType ==
  ASSUME NEW t \in Tokenizers, NEW text \in Bytes
  PROVE  /\ EnsureChars(t) \in Tokenizers
         /\ [t EXCEPT !.chars = <<>>] \in Tokenizers
         /\ Pushed(t, text) \in Tokenizers
<1>1. <<>> \in Bytes  BY DEF Bytes
<1>2. t.chars \o text \in Bytes /\ t.chunk_size \in Nat  BY TokenizerFields, TextJoined
<1>3. EnsureChars(t) \in Tokenizers  BY <1>1, <1>2, Zenon DEF EnsureChars, Tokenizers
<1>4. [t EXCEPT !.chars = <<>>] \in Tokenizers  BY <1>1, Zenon DEF Tokenizers
<1>5. Pushed(t, text) \in Tokenizers  BY <1>2, Zenon DEF Pushed, Tokenizers
<1> QED  BY <1>3, <1>4, <1>5

\* A whole character lies in the input it was read from.
LEMMA CharInInput ==
  ASSUME NEW i \in Nat, NEW end \in Nat, i < end, CharLength(ring, i, end) > 0
  PROVE  CharLength(ring, i, end) \in Nat /\ i + CharLength(ring, i, end) <= end
<1>1. \A b \in Leads : LeadLength[b] \in Nat  BY DEF LeadLength, Leads
<1>2. ~(Bad > 0) /\ ~(More > 0)  BY DEF Bad, More
<1>3. CharLength(ring, i, end) = SequenceLength(ring, i, end)  BY <1>2 DEF CharLength
<1>4. CASE Ascii(Byte(ring, i))  BY <1>3, <1>4 DEF SequenceLength
<1>5. CASE ~Ascii(Byte(ring, i))
  <2>1. Byte(ring, i) \in Leads  BY <1>2, <1>3, <1>5 DEF SequenceLength
  <2>2. /\ SequenceLength(ring, i, end) = LeadLength[Byte(ring, i)]
        /\ ~(i + LeadLength[Byte(ring, i)] > end)
    BY <1>2, <1>3, <1>5, <2>1 DEF SequenceLength
  <2> QED  BY <1>1, <1>3, <2>1, <2>2
<1> QED  BY <1>4, <1>5

\* What a slice of a run, or the next character, does to the call.
LEMMA RunGoesOn ==
  ASSUME TypeOK, call.pc \in {"run", "char"}, NEW q \in Nat, call.p <= q, q <= Len(ring),
         NEW units \in Nat, NEW pc \in {"run", "char"}, pc = "char" => q < call.to,
         call' = [call EXCEPT !.p = q, !.units = @ + units, !.pc = pc]
  PROVE  call' \in Calls /\ CallInRing(call')
<1>1. call.units + units \in Nat  BY TypeFacts, CallFields
<1>2. call' \in Calls  BY <1>1, TypeFacts, Zenon DEF Calls, PCs
<1>3. /\ call'.p = q /\ call'.pc = pc /\ call'.consumed = call.consumed /\ call'.to = call.to
      /\ call'.wrap = call.wrap /\ call'.key = call.key /\ call'.end = call.end
  BY TypeFacts, Zenon DEF Calls
<1>4. call.consumed <= q
  <2>1. call.consumed <= call.p  BY TypeFacts DEF CallInRing
  <2> QED  BY <2>1, TypeFacts, CallFields
<1> QED  BY <1>2, <1>3, <1>4, TypeFacts DEF CallInRing

\* Every step of decode_run keeps the types.
LEMMA DecodeType ==
  ASSUME TypeOK, UNCHANGED <<ring, limits>>, DecodeStep
  PROVE  TokenizerTypeOK'
<1>1. call.p \in Nat /\ call.to \in Nat /\ call.to <= Len(ring) /\ call.p <= Len(ring)
  BY TypeFacts, CallFields DEF CallInRing
<1>2. "syntax" \in Errors  BY DEF Errors
<1>3. CASE DecodeSlice
  <2> DEFINE stop == AtMost(AtMost(call.to, SpanEnd(call.p)), call.p + Free)
  <2>1. Free \in Int  BY TypeFacts, TokenizerFields, LenProperties DEF Free, Bytes
  <2>2. stop \in Int /\ stop <= call.to
    <3>1. SpanEnd(call.p) \in Nat  BY <1>1, SpanEndType
    <3>2. AtMost(call.to, SpanEnd(call.p)) \in Int /\ AtMost(call.to, SpanEnd(call.p)) <= call.to
      BY <1>1, <3>1 DEF AtMost
    <3> HIDE DEF AtMost
    <3>3. \A a, b \in Int : AtMost(a, b) \in Int /\ AtMost(a, b) <= a  BY DEF AtMost
    <3>4. call.p + Free \in Int  BY <1>1, <2>1
    <3>5. stop \in Int /\ stop <= AtMost(call.to, SpanEnd(call.p))  BY <3>2, <3>3, <3>4
    <3> QED  BY <1>1, <3>2, <3>5
  <2> HIDE DEF stop
  <2>9. PICK q \in call.p .. stop :
        LET text == Slice(ring, call.p, q)
        IN  /\ tok' = Pushed(tok, text)
            /\ call' = IF q < stop /\ CharLength(ring, q, stop) = Bad
                         THEN Failed(0, "syntax")
                         ELSE [call EXCEPT !.p = q, !.units = @ + Units(text),
                                           !.pc = IF q = stop THEN "run" ELSE "char"]
    BY <1>3 DEF DecodeSlice, stop
  <2> DEFINE text == Slice(ring, call.p, q)
             pc == IF q = stop THEN "run" ELSE "char"
  <2>3. q \in Nat /\ call.p <= q /\ q <= Len(ring) /\ (pc = "char" => q < call.to)  BY <1>1, <2>2
  <2>4. text \in Bytes  BY <1>1, <2>3, TypeFacts, RingText
  <2>5. Units(text) \in Nat  BY <2>4, UnitsType
  <2>6. tok' \in Tokenizers  BY <2>4, <2>9, TypeFacts, BufferType
  <2>7. CASE call' = Failed(0, "syntax")
    <3>1. call' \in Calls /\ CallInRing(call')  BY <1>2, <2>7, TypeFacts, CallStops
    <3> QED  BY <1>3, <2>6, <3>1, TypeFacts, TypesKept DEF DecodeSlice
  <2>8. CASE call' = [call EXCEPT !.p = q, !.units = @ + Units(text), !.pc = pc]
    <3>1. pc \in {"run", "char"} /\ call.pc \in {"run", "char"}  BY <1>3 DEF DecodeSlice
    <3> HIDE DEF text, pc
    <3>2. call' \in Calls /\ CallInRing(call')  BY <2>3, <2>5, <2>8, <3>1, RunGoesOn
    <3> QED  BY <1>3, <2>6, <3>2, TypeFacts, TypesKept DEF DecodeSlice
  <2> QED  BY <2>7, <2>8, <2>9
<1>4. CASE PushChar
  <2> DEFINE text == Slice(ring, call.p, call.p + CutChar)
  <2>1. call.pc = "char" /\ CutChar > 0  BY <1>4 DEF PushChar
  <2>2. call.p < call.to  BY <2>1, TypeFacts DEF CallInRing
  <2>3. CutChar \in Nat /\ call.p + CutChar <= Len(ring)
    <3>1. CutChar = CharLength(ring, call.p, Len(ring))  BY <2>1 DEF CutChar, CharLengthWhole, More
    <3> QED  BY <1>1, <2>1, <2>2, <3>1, TypeFacts, CharInInput
  <2>4. call.p + CutChar \in Nat /\ call.p <= call.p + CutChar  BY <1>1, <2>3
  <2>5. text \in Bytes  BY <1>1, <2>3, <2>4, TypeFacts, RingText
  <2>6. Units(text) \in Nat  BY <2>5, UnitsType
  <2>7. tok' = Pushed(tok, text)
        /\ call' = [call EXCEPT !.p = call.p + CutChar, !.units = @ + Units(text), !.pc = "run"]
    BY <1>4 DEF PushChar
  <2> HIDE DEF text
  <2>8. tok' \in Tokenizers  BY <2>5, <2>7, TypeFacts, BufferType
  <2>9. call' \in Calls /\ CallInRing(call')  BY <2>1, <2>3, <2>4, <2>6, <2>7, RunGoesOn
  <2> QED  BY <1>4, <2>8, <2>9, TypeFacts, TypesKept DEF PushChar
<1>5. CASE MalformedChar
  <2>1. call' \in Calls /\ CallInRing(call')  BY <1>2, <1>5, TypeFacts, CallStops DEF MalformedChar
  <2> QED  BY <1>5, <2>1, TypeFacts, TypesKept DEF MalformedChar
<1>6. CASE FlushChars
  <2>1. Notify("string_value_content", tok.chars, loc)
        /\ (HandlerFails("string_value_content", tok, 0) \/ (tok' = [tok EXCEPT !.chars = <<>>] /\ call' = call))
    BY <1>6 DEF FlushChars
  <2>2. "string_value_content" \in Callbacks  BY DEF Callbacks
  <2>3. tok.chars \in Bytes  BY TypeFacts, TokenizerFields
  <2>4. events' \in Seq(Events)  BY <2>1, <2>2, <2>3, TypeFacts, NotifyType
  <2>5. call.consumed + 0 <= Len(ring)  BY TypeFacts, CallFields DEF CallInRing
  <2>6. tok' \in Tokenizers /\ call' \in Calls /\ CallInRing(call')
    BY <2>1, <2>3, <2>5, TypeFacts, HandlerFailsType, BufferType
  <2> QED  BY <1>6, <2>4, <2>6, TypeFacts, TypesKept DEF FlushChars
<1> QED  BY <1>3, <1>4, <1>5, <1>6 DEF DecodeStep
-----------------------------------------------------------------------------
(* String values                                                           *)

\* The bytes of the ring are symbols.
LEMMA RingByte ==
  ASSUME TypeOK, NEW i \in Nat, i < Len(ring)  PROVE Byte(ring, i) \in Symbols
<1>1. i + 1 \in 1 .. Len(ring)  BY TypeFacts
<1>2. ring[i + 1] \in Alphabet  BY <1>1, TypeFacts
<1> QED  BY <1>2, BytesAssumption DEF Byte

\* An escape that is there lies in the ring, and stands for a text.
LEMMA EscapeInRing ==
  ASSUME TypeOK, NEW i \in Nat, i < Len(ring), EscapeLength(ring, i) > 0
  PROVE  /\ EscapeLength(ring, i) \in Nat /\ i + EscapeLength(ring, i) <= Len(ring)
         /\ EscapeText(ring, i, EscapeLength(ring, i)) \in Bytes
<1> DEFINE n == EscapeLength(ring, i)
<1>1. ~(Bad > 0) /\ ~(More > 0)  BY DEF Bad, More
<1>2. \A j \in Nat : UnitLength(ring, j) > 0 =>
        UnitLength(ring, j) \in {2, 3} /\ j + UnitLength(ring, j) <= Len(ring)
  BY <1>1, TypeFacts DEF UnitLength
<1>3. \A j \in Nat : j <= Len(ring) /\ LowSurrogateFollows(ring, j) = "Low" => j + 3 <= Len(ring)
  BY TypeFacts DEF LowSurrogateFollows, LowSurrogateAt
<1>4. n \in {2, 3, 6} /\ i + n <= Len(ring)
  <2>1. CASE ~HighSurrogateAt(ring, i)  BY <1>2, <2>1 DEF EscapeLength
  <2>2. CASE HighSurrogateAt(ring, i)
    <3>1. i + 3 <= Len(ring) /\ i + 3 \in Nat  BY <1>2, <2>2 DEF HighSurrogateAt
    <3>2. LowSurrogateFollows(ring, i + 3) # "NeedMore"  BY <1>1, <2>2 DEF EscapeLength
    <3>3. LowSurrogateFollows(ring, i + 3) \in {"NeedMore", "Not", "Low"}
      BY DEF LowSurrogateFollows
    <3>4. CASE LowSurrogateFollows(ring, i + 3) = "Not"  BY <2>2, <3>1, <3>4 DEF EscapeLength
    <3>5. CASE LowSurrogateFollows(ring, i + 3) = "Low"
      BY <1>3, <2>2, <3>1, <3>5 DEF EscapeLength
    <3> QED  BY <3>2, <3>3, <3>4, <3>5
  <2> QED  BY <2>1, <2>2
<1>5. n = 2 => <<Unescaped(Byte(ring, i + 1))>> \in Bytes
  <2> HAVE n = 2
  <2> HIDE DEF n
  <2>1. i + 1 \in Nat /\ i + 1 < Len(ring)  BY <1>4, TypeFacts
  <2>2. Unescaped(Byte(ring, i + 1)) \in Symbols  BY <2>1, RingByte DEF Unescaped, Symbols, Whitespaces
  <2> QED  BY <2>2 DEF Bytes
<1>6. /\ <<"F0", "9F", "98", "80">> \in Bytes /\ <<"00">> \in Bytes
      /\ <<"E2", "82", "AC">> \in Bytes /\ <<"EF", "BF", "BD">> \in Bytes
  <2>1. {"F0", "9F", "98", "80", "00", "E2", "82", "AC", "EF", "BF", "BD"} \subseteq Symbols
    BY DEF Symbols, Leads, Continuations, Controls
  <2> QED  BY <2>1 DEF Bytes
<1> QED  BY <1>4, <1>5, <1>6 DEF EscapeText

\* A call that is not reading a key goes on to a string, or pauses.
LEMMA StringGoesOn ==
  ASSUME TypeOK, call.pc \in {"loop", "string"}, NEW pc \in {"string", "pause"},
         call' = [call EXCEPT !.pc = pc]
  PROVE  call' \in Calls /\ CallInRing(call')
<1>1. call' \in Calls  BY TypeFacts, Zenon DEF Calls, PCs
<1>2. /\ call'.pc = pc /\ call'.consumed = call.consumed /\ call'.p = call.p
      /\ call'.to = call.to /\ call'.wrap = call.wrap /\ call'.key = call.key
  BY TypeFacts, Zenon DEF Calls
<1>3. call.key = "none"  BY TypeFacts DEF CallInRing
<1> QED  BY <1>1, <1>2, <1>3, TypeFacts DEF CallInRing

\* Every step of a string value keeps the types.
LEMMA StringType ==
  ASSUME TypeOK, UNCHANGED <<ring, limits>>, StringStep
  PROVE  TokenizerTypeOK'
<1>1. "syntax" \in Errors /\ "limit" \in Errors  BY DEF Errors
<1>2. call.consumed \in Nat /\ call.consumed <= Len(ring) /\ call.consumed + 0 <= Len(ring)
      /\ call.to \in Nat /\ call.to <= Len(ring) /\ call.p \in Nat /\ call.p <= Len(ring)
      /\ call.wrap <= Len(ring) /\ call.units \in Nat
  BY TypeFacts, CallFields DEF CallInRing
<1>3. CASE StringStart
  <2> DEFINE empty == [EnsureChars(Here) EXCEPT !.chars = <<>>]
             t == [empty EXCEPT !.in_string = TRUE, !.string_bytes = 0]
  <2>1. call.consumed < Total  BY <1>3 DEF StringStart, Looking, BetweenTokens
  <2>2. empty \in Tokenizers  BY <2>1, TypeFacts, ByteThere, BufferType
  <2> HIDE DEF empty
  <2>3. t \in Tokenizers  BY <2>2, TypeFacts, Zenon DEF Tokenizers
  <2>4. tok.state \in States /\ "start_string_value" \in Callbacks
    BY TypeFacts, TokenizerFields DEF Callbacks
  <2>5. /\ loc' = Right(1) /\ Notify("start_string_value", <<>>, loc') /\ UNCHANGED interned
        /\ HandlerFails("start_string_value", empty, 1) \/ TokenDone(t, 1, tok.state, FALSE)
    BY <1>3 DEF StringStart, empty
  <2> HIDE DEF t
  <2>6. loc' \in Locators  BY <2>5, TypeFacts, RightType
  <2>7. events' \in Seq(Events)  BY <2>4, <2>5, <2>6, TypeFacts, NotifyType
  <2>8. tok' \in Tokenizers /\ call' \in Calls /\ CallInRing(call')
    BY <2>1, <2>2, <2>3, <2>4, <2>5, TypeFacts, ByteThere, HandlerFailsType, TokenDoneType
  <2> QED  BY <2>5, <2>6, <2>7, <2>8, TypeFacts, TypesKept
<1>4. CASE ContinueString
  <2>1. tok' \in Tokenizers  BY <1>4, TypeFacts, BufferType DEF ContinueString
  <2>2. call' = [call EXCEPT !.pc = "string"]  BY <1>4 DEF ContinueString
  <2>3. call' \in Calls /\ CallInRing(call')  BY <1>4, <2>2, StringGoesOn DEF ContinueString
  <2> QED  BY <1>4, <2>1, <2>3, TypeFacts, TypesKept DEF ContinueString
<1>5. CASE StringRun
  <2> PICK to \in call.consumed + 1 .. Total :
        call' = IF StringTooLong(tok.string_bytes + to - call.consumed)
                  THEN Failed(0, "limit")
                  ELSE [call EXCEPT !.pc = "run", !.p = call.consumed, !.to = to, !.units = 0]
    BY <1>5 DEF StringRun
  <2>1. to \in Nat /\ to <= Len(ring)  BY <1>2, TypeFacts DEF Total
  <2>2. CASE call' = Failed(0, "limit")
    <3>1. call' \in Calls /\ CallInRing(call')  BY <1>1, <2>2, TypeFacts, CallStops
    <3> QED  BY <1>5, <3>1, TypeFacts, TypesKept DEF StringRun
  <2>3. CASE call' = [call EXCEPT !.pc = "run", !.p = call.consumed, !.to = to, !.units = 0]
    <3>1. call' \in Calls  BY <1>2, <2>1, <2>3, TypeFacts, Zenon DEF Calls, PCs
    <3>2. /\ call'.p = call.consumed /\ call'.to = to /\ call'.pc = "run" /\ call'.key = call.key
          /\ call'.consumed = call.consumed /\ call'.wrap = call.wrap
      BY <2>3, TypeFacts, Zenon DEF Calls
    <3>3. call.key = "none"  BY <1>5, TypeFacts DEF StringRun, CallInRing
    <3>4. CallInRing(call')  BY <1>2, <2>1, <3>2, <3>3 DEF CallInRing
    <3> QED  BY <1>5, <3>1, <3>4, TypeFacts, TypesKept DEF StringRun
  <2> QED  BY <2>2, <2>3
<1>6. CASE StringRunDone
  <2> DEFINE pc == IF RunDecoded THEN "string" ELSE "pause"
  <2>1. /\ tok' = [tok EXCEPT !.string_bytes = tok.string_bytes + call.p - call.consumed]
        /\ loc' = Right(call.units) /\ UNCHANGED <<events, interned>>
        /\ call' = [call EXCEPT !.consumed = call.p, !.pc = pc]
    BY <1>6 DEF StringRunDone
  <2>2. call.pc \in {"run", "char"} /\ call.key = "none" /\ pc \in {"string", "pause"}
    BY <1>6 DEF StringRunDone, RunDecoded, RunCutShort, ReadingKey
  <2>3. call.consumed <= call.p  BY <2>2, TypeFacts DEF CallInRing
  <2>4. tok.string_bytes \in Nat  BY TypeFacts, TokenizerFields
  <2>5. tok.string_bytes + call.p - call.consumed \in Nat  BY <1>2, <2>3, <2>4
  <2>6. tok' \in Tokenizers  BY <2>1, <2>5, TypeFacts, Zenon DEF Tokenizers
  <2> HIDE DEF pc
  <2>7. call' \in Calls  BY <1>2, <2>1, <2>2, TypeFacts, Zenon DEF Calls, PCs
  <2>8. /\ call'.consumed = call.p /\ call'.pc = pc /\ call'.p = call.p /\ call'.to = call.to
        /\ call'.wrap = call.wrap /\ call'.key = call.key
    BY <2>1, TypeFacts, Zenon DEF Calls
  <2>9. CallInRing(call')  BY <1>2, <2>2, <2>8 DEF CallInRing
  <2>10. loc' \in Locators  BY <1>2, <2>1, TypeFacts, RightType
  <2> QED  BY <2>1, <2>6, <2>7, <2>9, <2>10, TypeFacts, TypesKept
<1>7. CASE StringPause
  <2>1. call' = [call EXCEPT !.pc = "pause"] /\ call.pc = "string"
    BY <1>7 DEF StringPause, AtStringStop
  <2>2. call' \in Calls /\ CallInRing(call')  BY <2>1, StringGoesOn
  <2> QED  BY <1>7, <2>2, TypeFacts, TypesKept DEF StringPause
<1>8. CASE StringPaused
  <2>1. call' \in Calls /\ CallInRing(call')  BY <1>1, <1>8, TypeFacts, CallStops DEF StringPaused
  <2> QED  BY <1>8, <2>1, TypeFacts, TypesKept DEF StringPaused
<1>9. CASE StringEnd
  <2> DEFINE t == [tok EXCEPT !.in_string = FALSE, !.state = "AfterValue"]
  <2>1. t \in Tokenizers  BY TypeFacts, Zenon DEF Tokenizers, States
  <2>2. call.consumed + 1 <= Len(ring)  BY <1>2, <1>9, TypeFacts DEF StringEnd, AtStringEnd, Total
  <2>3. /\ loc' = Right(1) /\ Notify("end_string_value", <<>>, loc') /\ UNCHANGED interned
        /\ HandlerFails("end_string_value", t, 1) \/ (tok' = t /\ call' = Advanced(1))
    BY <1>9 DEF StringEnd
  <2> HIDE DEF t
  <2>4. loc' \in Locators  BY <2>3, TypeFacts, RightType
  <2>5. "end_string_value" \in Callbacks  BY DEF Callbacks
  <2>6. events' \in Seq(Events)  BY <2>3, <2>4, <2>5, TypeFacts, NotifyType
  <2>7. tok' \in Tokenizers /\ call' \in Calls /\ CallInRing(call')
    BY <1>1, <2>1, <2>2, <2>3, TypeFacts, HandlerFailsType, CallGoesOn
  <2> QED  BY <2>3, <2>4, <2>6, <2>7, TypeFacts, TypesKept
<1>10. CASE StringEscape
  <2> DEFINE n == EscapeLength(ring, call.consumed)
             t == [Pushed(tok, Escaped) EXCEPT !.string_bytes = @ + n]
  <2>1. n > 0 /\ call.consumed < Len(ring) /\ call.pc = "string"
    BY <1>10 DEF StringEscape, AtEscape, AtStringStop, Total
  <2>2. n \in Nat /\ call.consumed + n <= Len(ring) /\ Escaped \in Bytes
    BY <1>2, <2>1, EscapeInRing DEF Escaped
  <2>3. /\ tok' = t /\ loc' = Right(n) /\ UNCHANGED <<events, interned>>
        /\ call' = IF StringTooLong(t.string_bytes) THEN Failed(n, "limit")
                   ELSE [call EXCEPT !.consumed = @ + n]
    BY <1>10 DEF StringEscape
  <2> HIDE DEF n
  <2>4. Pushed(tok, Escaped) \in Tokenizers  BY <2>2, TypeFacts, BufferType
  <2>5. Pushed(tok, Escaped).string_bytes + n \in Nat  BY <2>2, <2>4, TokenizerFields
  <2>6. t \in Tokenizers  BY <2>4, <2>5, Zenon DEF Tokenizers
  <2> HIDE DEF t
  <2>7. loc' \in Locators  BY <2>2, <2>3, TypeFacts, RightType
  <2>8. CASE call' = Failed(n, "limit")
    <3>1. call' \in Calls /\ CallInRing(call')  BY <1>1, <2>2, <2>8, TypeFacts, CallGoesOn
    <3> QED  BY <2>3, <2>6, <2>7, <3>1, TypeFacts, TypesKept
  <2>9. CASE call' = [call EXCEPT !.consumed = @ + n]
    <3>1. call.consumed + n \in Nat  BY <1>2, <2>2
    <3>2. call' \in Calls  BY <2>9, <3>1, TypeFacts, Zenon DEF Calls
    <3>3. /\ call'.consumed = call.consumed + n /\ call'.pc = call.pc /\ call'.p = call.p
          /\ call'.to = call.to /\ call'.wrap = call.wrap /\ call'.key = call.key
      BY <2>9, TypeFacts, Zenon DEF Calls
    <3>4. call.key = "none"  BY <2>1, TypeFacts DEF CallInRing
    <3>5. CallInRing(call')  BY <1>2, <2>1, <2>2, <3>3, <3>4 DEF CallInRing
    <3> QED  BY <2>3, <2>6, <2>7, <3>2, <3>5, TypeFacts, TypesKept
  <2> QED  BY <2>3, <2>8, <2>9
<1>11. CASE StringWrong
  <2>1. call' \in Calls /\ CallInRing(call')  BY <1>1, <1>11, TypeFacts, CallStops DEF StringWrong
  <2> QED  BY <1>11, <2>1, TypeFacts, TypesKept DEF StringWrong
<1> QED
  BY <1>3, <1>4, <1>5, <1>6, <1>7, <1>8, <1>9, <1>10, <1>11 DEF StringStep
-----------------------------------------------------------------------------
(* Keys                                                                    *)

\* While a key is read it lies in the ring, ahead of what is consumed.
LEMMA KeyInRing ==
  ASSUME TypeOK, call.pc = "key" \/ ReadingKey
  PROVE  /\ call.key # "none" /\ call.pc \in {"key", "run", "char"}
         /\ call.consumed \in Nat /\ call.end \in Nat /\ call.p \in Nat /\ call.to \in Nat
         /\ call.consumed < call.end /\ call.end < Len(ring) /\ call.end <= Len(ring)
         /\ call.consumed <= call.p /\ call.p <= Len(ring) /\ call.to <= Len(ring)
         /\ call.consumed + 0 <= Len(ring) /\ call.consumed <= Len(ring) /\ call.wrap <= Len(ring)
<1>1. call.key # "none" /\ call.pc \in {"key", "run", "char"}
  BY TypeFacts DEF CallInRing, ReadingKey
<1> QED  BY <1>1, TypeFacts, CallFields DEF CallInRing

\* The text of a key, however it was read, is a text.
LEMMA KeyTextType ==
  ASSUME TypeOK, call.pc = "key"
  PROVE  KeyText \in Bytes /\ Put(KeyText) \in SUBSET Bytes
<1>1. KeyStart \in Nat /\ call.end \in Nat /\ call.end <= Len(ring)  BY KeyInRing DEF KeyStart
<1>2. Slice(ring, KeyStart, call.end) \in Bytes  BY <1>1, TypeFacts, RingText
<1>3. tok.chars \in Bytes  BY TypeFacts, TokenizerFields
<1>4. KeyText \in Bytes  BY <1>2, <1>3 DEF KeyText
<1> QED  BY <1>4, TypeFacts DEF Put

\* Remembering a key, and giving up on the symbol table, keep the type.
LEMMA SeenType ==
  ASSUME NEW t \in Tokenizers, NEW text \in Bytes
  PROVE  Seen(t, text) \in Tokenizers /\ Disabled(t) \in Tokenizers
<1>1. t.duplicate_key_stack \in Seq(SUBSET Bytes)  BY TokenizerFields
<1>2. ASSUME t.duplicate_key_stack # <<>>
      PROVE  Append(Popped(t.duplicate_key_stack), Top(t.duplicate_key_stack) \cup {text})
               \in Seq(SUBSET Bytes)
  <2>1. Top(t.duplicate_key_stack) \in SUBSET Bytes  BY <1>1, <1>2 DEF Top
  <2>2. Top(t.duplicate_key_stack) \cup {text} \in SUBSET Bytes  BY <2>1
  <2>3. Popped(t.duplicate_key_stack) \in Seq(SUBSET Bytes)  BY <1>1, PoppedType
  <2> QED  BY <2>2, <2>3, AppendProperties
<1>3. Seen(t, text) \in Tokenizers  BY <1>2, Zenon DEF Seen, Tokenizers
<1>4. Disabled(t) \in Tokenizers  BY Zenon DEF Disabled, Tokenizers
<1> QED  BY <1>3, <1>4

\* Every step of a key keeps the types.
LEMMA KeyType ==
  ASSUME TypeOK, UNCHANGED <<ring, limits>>, KeyStep
  PROVE  TokenizerTypeOK'
<1>1. "syntax" \in Errors /\ "limit" \in Errors /\ "duplicate" \in Errors  BY DEF Errors
<1>2. ASSUME AtKey
      PROVE  call.consumed < Total /\ call.key = "none" /\ Here \in Tokenizers
             /\ KeyStart \in Nat /\ call.consumed \in Nat /\ call.pc = "loop"
  <2>1. call.consumed < Total /\ call.pc = "loop"  BY <1>2 DEF AtKey, Looking, BetweenTokens
  <2>2. call.key = "none"  BY <2>1, TypeFacts DEF CallInRing
  <2> QED  BY <2>1, <2>2, ByteThere DEF KeyStart
<1>3. CASE KeyIncomplete
  <2>1. tok' = Here /\ call' = Stopped /\ AtKey /\ UNCHANGED <<loc, events, interned>>
    BY <1>3 DEF KeyIncomplete
  <2>2. call' \in Calls /\ CallInRing(call')  BY <1>1, <2>1, TypeFacts, CallStops
  <2> QED  BY <1>2, <2>1, <2>2, TypeFacts, TypesKept
<1>4. CASE KeyRefused
  <2>1. /\ tok' = Here /\ AtKey /\ UNCHANGED <<loc, events, interned>>
        /\ call' = Failed(0, "limit") \/ call' = Failed(0, "syntax")
    BY <1>4 DEF KeyRefused
  <2>2. call' \in Calls /\ CallInRing(call')  BY <1>1, <2>1, TypeFacts, CallStops
  <2> QED  BY <1>2, <2>1, <2>2, TypeFacts, TypesKept
<1>5. CASE KeyFound
  <2>1. AtKey /\ UNCHANGED <<loc, events, interned>>  BY <1>5 DEF KeyFound
  <2> DEFINE empty == [EnsureChars(Here) EXCEPT !.chars = <<>>]
             kind(end) == IF ~Internable(end) THEN "verbatim"
                          ELSE IF Slice(ring, KeyStart, end) \in interned THEN "hit" ELSE "miss"
             attempts(key) == IF key = "verbatim" THEN empty.attempts ELSE empty.attempts + 1
             hits(key) == IF key = "hit" THEN empty.hits + 1 ELSE empty.hits
             raw(end) == Slice(ring, KeyStart, end)
             p(key, end) == IF key = "hit" THEN end ELSE KeyStart
             units(key, end) == IF key = "hit" THEN Units(raw(end)) ELSE 0
  <2>13. PICK end \in KeyStart .. Total - 1 :
          /\ tok' = [empty EXCEPT !.attempts = attempts(kind(end)), !.hits = hits(kind(end))]
          /\ call' = [call EXCEPT !.pc = "key", !.key = kind(end), !.end = end,
                                  !.p = p(kind(end), end), !.units = units(kind(end), end)]
    BY <1>5, Zenon DEF KeyFound
  <2>14. kind(end) \in {"verbatim", "hit", "miss"}  OBVIOUS
  <2> HIDE DEF kind
  <2>2. PICK key \in {"verbatim", "hit", "miss"} :
          /\ tok' = [empty EXCEPT !.attempts = attempts(key), !.hits = hits(key)]
          /\ call' = [call EXCEPT !.pc = "key", !.key = key, !.end = end, !.p = p(key, end),
                                  !.units = units(key, end)]
    BY <2>13, <2>14, Zenon
  <2>3. end \in Nat /\ call.consumed < end /\ end < Len(ring) /\ end <= Len(ring)
        /\ call.consumed < KeyStart /\ KeyStart <= Len(ring)
    BY <1>2, <2>1, TypeFacts DEF KeyStart, Total
  <2>4. raw(end) \in Bytes  BY <1>2, <2>1, <2>3, TypeFacts, RingText
  <2>5. units(key, end) \in Nat  BY <2>4, UnitsType
  <2>6. p(key, end) \in Nat /\ call.consumed <= p(key, end) /\ p(key, end) <= Len(ring)
    BY <1>2, <2>1, <2>3
  <2>7. empty \in Tokenizers  BY <1>2, <2>1, TypeFacts, BufferType
  <2> HIDE DEF empty, p, units
  <2>8. attempts(key) \in Nat /\ hits(key) \in Nat  BY <2>7, TokenizerFields
  <2> HIDE DEF attempts, hits
  <2>9. tok' \in Tokenizers  BY <2>2, <2>7, <2>8, Zenon DEF Tokenizers
  <2>10. call' \in Calls  BY <2>2, <2>3, <2>5, <2>6, TypeFacts, Zenon DEF Calls, PCs
  <2>11. /\ call'.pc = "key" /\ call'.key = key /\ call'.end = end /\ call'.p = p(key, end)
         /\ call'.consumed = call.consumed /\ call'.wrap = call.wrap /\ call'.to = call.to
    BY <2>2, TypeFacts, Zenon DEF Calls
  <2>12. CallInRing(call')  BY <2>3, <2>6, <2>11, TypeFacts DEF CallInRing
  <2> QED  BY <2>1, <2>9, <2>10, <2>12, TypeFacts, TypesKept
<1>6. CASE KeyRun
  <2>1. call.pc = "key" /\ UNCHANGED <<tok, loc, events, interned>>  BY <1>6 DEF KeyRun
  <2> PICK to \in call.p + 1 .. call.end : call' = [call EXCEPT !.pc = "run", !.to = to]
    BY <1>6 DEF KeyRun
  <2>2. to \in Nat /\ to <= Len(ring)  BY <2>1, KeyInRing, TypeFacts
  <2>3. call' \in Calls  BY <2>2, TypeFacts, Zenon DEF Calls, PCs
  <2>4. /\ call'.pc = "run" /\ call'.consumed = call.consumed /\ call'.p = call.p /\ call'.to = to
        /\ call'.wrap = call.wrap /\ call'.key = call.key /\ call'.end = call.end
    BY TypeFacts, Zenon DEF Calls
  <2>5. CallInRing(call')  BY <2>1, <2>2, <2>4, KeyInRing DEF CallInRing
  <2> QED  BY <2>1, <2>3, <2>5, TypeFacts, TypesKept
<1>7. CASE KeyRunDone
  <2>1. ReadingKey /\ UNCHANGED <<tok, loc, events, interned>>  BY <1>7 DEF KeyRunDone
  <2>2. CASE call' = [call EXCEPT !.pc = "key"]
    <3>1. call' \in Calls  BY <2>2, TypeFacts, Zenon DEF Calls, PCs
    <3>2. /\ call'.pc = "key" /\ call'.consumed = call.consumed /\ call'.p = call.p
          /\ call'.to = call.to /\ call'.wrap = call.wrap /\ call'.key = call.key
          /\ call'.end = call.end
      BY <2>2, TypeFacts, Zenon DEF Calls
    <3>3. CallInRing(call')  BY <2>1, <3>2, KeyInRing DEF CallInRing
    <3> QED  BY <2>1, <3>1, <3>3, TypeFacts, TypesKept
  <2>3. CASE call' = Failed(0, "syntax")
    <3>1. call' \in Calls /\ CallInRing(call')  BY <1>1, <2>3, TypeFacts, CallStops
    <3> QED  BY <2>1, <3>1, TypeFacts, TypesKept
  <2> QED  BY <1>7, <2>2, <2>3 DEF KeyRunDone
<1>8. CASE KeyEscape
  <2> DEFINE n == EscapeLength(ring, call.p)
  <2>1. call.pc = "key" /\ call.p < call.end /\ n > 0 /\ UNCHANGED <<loc, events, interned>>
        /\ tok' = Pushed(tok, EscapeText(ring, call.p, n))
        /\ call' = [call EXCEPT !.p = call.p + n, !.units = call.units + n]
    BY <1>8 DEF KeyEscape, AtKeyEscape
  <2>2. call.p < Len(ring)  BY <2>1, KeyInRing, TypeFacts
  <2>3. n \in Nat /\ call.p + n <= Len(ring) /\ EscapeText(ring, call.p, n) \in Bytes
    BY <2>1, <2>2, KeyInRing, EscapeInRing
  <2> HIDE DEF n
  <2>4. tok' \in Tokenizers  BY <2>1, <2>3, TypeFacts, BufferType
  <2>5. call.p + n \in Nat /\ call.consumed <= call.p + n /\ call.units + n \in Nat
    BY <2>1, <2>3, KeyInRing, TypeFacts, CallFields
  <2>6. call' \in Calls  BY <2>1, <2>5, TypeFacts, Zenon DEF Calls
  <2>7. /\ call'.pc = call.pc /\ call'.consumed = call.consumed /\ call'.p = call.p + n
        /\ call'.to = call.to /\ call'.wrap = call.wrap /\ call'.key = call.key
        /\ call'.end = call.end
    BY <2>1, TypeFacts, Zenon DEF Calls
  <2>8. CallInRing(call')  BY <2>1, <2>3, <2>5, <2>7, KeyInRing DEF CallInRing
  <2> QED  BY <2>1, <2>4, <2>6, <2>8, TypeFacts, TypesKept
<1>9. CASE KeyEscapeWrong \/ KeyDoesNotFit
  <2>1. /\ UNCHANGED <<tok, loc, events, interned>>
        /\ call' = Failed(0, "syntax") \/ call' = Failed(0, "limit")
    BY <1>9 DEF KeyEscapeWrong, KeyDoesNotFit
  <2>2. call' \in Calls /\ CallInRing(call')  BY <1>1, <2>1, TypeFacts, CallStops
  <2> QED  BY <2>1, <2>2, TypeFacts, TypesKept
<1>10. CASE KeyDone
  <2> DEFINE n == call.end + 1 - call.consumed
             t == Disabled(Seen(tok, KeyText))
  <2>1. call.pc = "key" /\ interned' = IF call.key = "miss" THEN Put(KeyText) ELSE interned
    BY <1>10 DEF KeyDone
  <2>2. n \in Nat /\ call.consumed + n <= Len(ring)  BY <2>1, KeyInRing, TypeFacts
  <2>3. KeyText \in Bytes /\ interned' \in SUBSET Bytes  BY <2>1, KeyTextType, TypeFacts
  <2>4. Seen(tok, KeyText) \in Tokenizers /\ Disabled(tok) \in Tokenizers
    BY <2>3, SeenType, TypeFacts
  <2>5. t \in Tokenizers  BY <2>3, <2>4, SeenType
  <2>6. \/ tok' = Disabled(tok) /\ call' = Failed(n, "duplicate") /\ UNCHANGED <<loc, events>>
        \/ /\ loc' = Right(2 + call.units) /\ Notify("key", KeyText, loc')
           /\ HandlerFails("key", t, n) \/ TokenDone(t, n, "ExpectColon", FALSE)
    BY <1>10 DEF KeyDone
  <2> HIDE DEF n, t
  <2>7. CASE tok' = Disabled(tok) /\ call' = Failed(n, "duplicate") /\ UNCHANGED <<loc, events>>
    <3>1. call' \in Calls /\ CallInRing(call')  BY <1>1, <2>2, <2>7, TypeFacts, CallGoesOn
    <3> QED  BY <2>3, <2>4, <2>7, <3>1, TypeFacts, TypesKept
  <2>8. CASE /\ loc' = Right(2 + call.units) /\ Notify("key", KeyText, loc')
             /\ HandlerFails("key", t, n) \/ TokenDone(t, n, "ExpectColon", FALSE)
    <3>1. 2 + call.units \in Nat  BY TypeFacts, CallFields
    <3>2. loc' \in Locators  BY <2>8, <3>1, TypeFacts, RightType
    <3>3. "key" \in Callbacks /\ "ExpectColon" \in States  BY DEF Callbacks, States
    <3>4. events' \in Seq(Events)  BY <2>3, <2>8, <3>2, <3>3, TypeFacts, NotifyType
    <3>5. tok' \in Tokenizers /\ call' \in Calls /\ CallInRing(call')
      BY <2>2, <2>5, <2>8, <3>3, TypeFacts, HandlerFailsType, TokenDoneType
    <3> QED  BY <2>3, <3>2, <3>4, <3>5, TypeFacts, TypesKept
  <2> QED  BY <2>6, <2>7, <2>8
<1> QED
  BY <1>3, <1>4, <1>5, <1>6, <1>7, <1>8, <1>9, <1>10 DEF KeyStep
-----------------------------------------------------------------------------
(* The steps of the tokenizer belong to one call                           *)

\* Where a call is while it is in Tokenizer::receive.
InTokenizer == {"loop", "space", "string", "run", "char", "pause", "key"}

\* The step reads a key that is a duplicate.
Repeats == KeyDone /\ Duplicate(KeyText)

\* The call c goes on in the tokenizer or comes back from it, and is still
\* the same call; an error ends it, only a duplicate is refused as one, and
\* that the ring is too small is for feed to say.
SameCall(c) ==
  /\ c.op = call.op /\ c.pc \in InTokenizer \cup {"fed"}
  /\ call.error = "none" => c.error = "none" \/ c.pc = "fed"
  /\ call.error # "duplicate" => c.error # "duplicate" \/ Repeats
  /\ call.error # "small" => c.error # "small"

\* The ways in which a step of the tokenizer leaves its call.
LEMMA CallsGoOn ==
  ASSUME call \in Calls, NEW n, NEW error, error # "small", error # "duplicate" \/ Repeats
  PROVE  SameCall(Advanced(n)) /\ SameCall(Failed(n, error)) /\ SameCall(Stopped)
BY Zenon DEF Calls, SameCall, InTokenizer, Advanced, Failed, Stopped

\* token_done and a handler that refuses.
LEMMA DoneGoesOn ==
  ASSUME call \in Calls, NEW t, NEW n, NEW state, NEW afterComma, NEW ev,
         TokenDone(t, n, state, afterComma) \/ HandlerFails(ev, t, n)
  PROVE  SameCall(call')
BY CallsGoOn DEF TokenDone, HandlerFails

\* Brackets, literals, numbers and whitespace.
LEMMA TokenSteps ==
  ASSUME call \in Calls,
         StructureStep \/ LiteralStep \/ NumberStep \/ WhitespaceStep \/ LoopEnd
  PROVE  call.pc \in InTokenizer /\ SameCall(call')
<1>1. CASE StructureStep
  <2>1. call.pc = "loop"
    BY <1>1 DEF StructureStep, Refuse, Comma, Colon, OpenTooDeep, StartObject, StartArray,
       EndObject, EndArray, Bracket, Looking, BetweenTokens
  <2>2. SameCall(call')
    BY <1>1, CallsGoOn, DoneGoesOn DEF StructureStep, Refuse, Comma, Colon, OpenTooDeep,
       StartObject, StartArray, EndObject, EndArray, Bracket
  <2> QED  BY <2>1, <2>2 DEF InTokenizer
<1>2. CASE LiteralStep
  <2>1. call.pc = "loop"
    BY <1>2 DEF LiteralStep, Literal, LiteralIncomplete, LiteralWrong, Looking, BetweenTokens
  <2>2. PICK n, t : \/ call' = Failed(n, "limit") \/ call' = Failed(0, "syntax")
                    \/ call' = Advanced(n) \/ call' = Stopped \/ HandlerFails("literal", t, n)
    BY <1>2, Zenon DEF LiteralStep, Literal, LiteralIncomplete, LiteralWrong
  <2>3. SameCall(call')  BY <2>2, CallsGoOn, DoneGoesOn
  <2> QED  BY <2>1, <2>3 DEF InTokenizer
<1>3. CASE NumberStep
  <2>1. call.pc = "loop"
    BY <1>3 DEF NumberStep, NumberStart, NumberRun, NumberByte, NumberEnd, NumberWrong,
       Looking, BetweenTokens, InNumber
  <2>2. ASSUME NEW n, NEW next, TakeNumber(n, next)  PROVE SameCall(call')
    BY <2>2, CallsGoOn DEF TakeNumber
  <2>3. CASE NumberRun \/ NumberByte  BY <2>1, <2>2, <2>3 DEF NumberRun, NumberByte, InTokenizer
  <2>4. CASE NumberEnd
    BY <2>1, <2>4, CallsGoOn, DoneGoesOn DEF NumberEnd, EmitNumber, InTokenizer
  <2>5. CASE NumberWrong  BY <2>1, <2>5, CallsGoOn DEF NumberWrong, InTokenizer
  <2>6. CASE \E b \in Digits \cup {"-"} : NumberStart(b)
    BY <2>1, <2>6, DoneGoesOn DEF NumberStart, InTokenizer
  <2> QED  BY <1>3, <2>3, <2>4, <2>5, <2>6 DEF NumberStep
<1>4. CASE Whitespace
  <2>1. call.pc = "loop"  BY <1>4 DEF Whitespace, BetweenTokens
  <2>2. PICK to : call' = [call EXCEPT !.consumed = to, !.p = call.consumed, !.to = to,
                                       !.pc = IF NeedsWhitespace THEN "space" ELSE "loop"]
    BY <1>4 DEF Whitespace
  <2>3. SameCall(call')  BY <2>2, Zenon DEF Calls, SameCall, InTokenizer
  <2> QED  BY <2>1, <2>3 DEF InTokenizer
<1>5. CASE ReportWhitespace
  <2>1. call.pc = "space"  BY <1>5 DEF ReportWhitespace
  <2>2. ASSUME NEW q, call' = [call EXCEPT !.p = q, !.pc = IF q = call.to THEN "loop" ELSE "space"]
        PROVE  SameCall(call')
    BY <2>2, Zenon DEF Calls, SameCall, InTokenizer
  <2>3. SameCall(call')  BY <1>5, <2>2, DoneGoesOn DEF ReportWhitespace
  <2> QED  BY <2>1, <2>3 DEF InTokenizer
<1>6. CASE LoopEnd  BY <1>6, CallsGoOn DEF LoopEnd, InTokenizer
<1> QED  BY <1>1, <1>2, <1>3, <1>4, <1>5, <1>6 DEF WhitespaceStep

\* Strings, keys and the runs in them.
LEMMA TextSteps ==
  ASSUME call \in Calls, CallInRing(call), DecodeStep \/ StringStep \/ KeyStep
  PROVE  call.pc \in InTokenizer /\ SameCall(call')
<1>1. ASSUME NEW pc \in InTokenizer, NEW p, NEW units, NEW consumed,
             \/ call' = [call EXCEPT !.pc = pc]
             \/ call' = [call EXCEPT !.p = p, !.units = units, !.pc = pc]
             \/ call' = [call EXCEPT !.consumed = consumed, !.pc = pc]
      PROVE  SameCall(call')
  BY <1>1, Zenon DEF Calls, SameCall
<1>2. CASE DecodeStep
  <2>1. call.pc \in InTokenizer
    BY <1>2 DEF DecodeStep, DecodeSlice, PushChar, MalformedChar, FlushChars, FlushDue,
       AtStringEnd, AtEscape, AtStringStop, InTokenizer
  <2>2. CASE DecodeSlice
    <3> DEFINE stop == AtMost(AtMost(call.to, SpanEnd(call.p)), call.p + Free)
    <3>1. PICK q \in call.p .. stop :
            call' = IF q < stop /\ CharLength(ring, q, stop) = Bad THEN Failed(0, "syntax")
                    ELSE [call EXCEPT !.p = q, !.units = @ + Units(Slice(ring, call.p, q)),
                                      !.pc = IF q = stop THEN "run" ELSE "char"]
      BY <2>2, Zenon DEF DecodeSlice
    <3> HIDE DEF stop
    <3>2. ASSUME NEW units, call' = [call EXCEPT !.p = q, !.units = units,
                                                 !.pc = IF q = stop THEN "run" ELSE "char"]
          PROVE  SameCall(call')
      BY <1>1, <3>2 DEF InTokenizer
    <3> QED  BY <2>1, <3>1, <3>2, CallsGoOn
  <2>3. CASE PushChar  BY <1>1, <2>1, <2>3 DEF PushChar, InTokenizer
  <2>4. CASE MalformedChar  BY <2>1, <2>4, CallsGoOn DEF MalformedChar
  <2>5. CASE FlushChars
    <3>1. SameCall(call)  BY <2>1 DEF SameCall
    <3> QED  BY <2>1, <2>5, <3>1, DoneGoesOn DEF FlushChars
  <2> QED  BY <1>2, <2>1, <2>2, <2>3, <2>4, <2>5 DEF DecodeStep
<1>3. CASE StringStep
  <2>1. call.pc \in InTokenizer
    BY <1>3 DEF StringStep, StringStart, ContinueString, StringRun, StringRunDone, StringPause,
       StringPaused, StringEnd, StringEscape, StringWrong, Looking, BetweenTokens, RunDecoded,
       RunCutShort, AtStringEnd, AtEscape, AtStringStop, InTokenizer
  <2>2. CASE StringStart \/ StringPaused \/ StringEnd \/ StringWrong
    BY <2>1, <2>2, CallsGoOn, DoneGoesOn DEF StringStart, StringPaused, StringEnd, StringWrong
  <2>3. CASE ContinueString \/ StringRunDone \/ StringPause
    BY <1>1, <2>1, <2>3 DEF ContinueString, StringRunDone, StringPause, InTokenizer
  <2>5. CASE StringRun
    <3>1. PICK to : \/ call' = Failed(0, "limit")
                    \/ call' = [call EXCEPT !.pc = "run", !.p = call.consumed, !.to = to, !.units = 0]
      BY <2>5, Zenon DEF StringRun
    <3>2. ASSUME call' = [call EXCEPT !.pc = "run", !.p = call.consumed, !.to = to, !.units = 0]
          PROVE  SameCall(call')
      BY <3>2, Zenon DEF Calls, SameCall, InTokenizer
    <3> QED  BY <2>1, <3>1, <3>2, CallsGoOn
  <2>4. CASE StringEscape
    <3>1. call.pc = "string"  BY <2>4 DEF StringEscape, AtEscape, AtStringStop
    <3>2. ASSUME NEW n, call' = [call EXCEPT !.consumed = @ + n]  PROVE SameCall(call')
      BY <3>1, <3>2, Zenon DEF Calls, SameCall, InTokenizer
    <3> QED  BY <2>1, <2>4, <3>2, CallsGoOn DEF StringEscape
  <2> QED  BY <1>3, <2>2, <2>3, <2>4, <2>5 DEF StringStep
<1>4. CASE KeyStep
  <2>1. ReadingKey => call.pc \in InTokenizer  BY DEF ReadingKey, CallInRing, InTokenizer
  <2>2. call.pc \in InTokenizer
    BY <1>4, <2>1 DEF KeyStep, KeyIncomplete, KeyRefused, KeyFound, KeyRun, KeyRunDone, KeyEscape,
       KeyEscapeWrong, KeyDoesNotFit, KeyDone, AtKey, AtKeyEscape, Looking, BetweenTokens,
       InTokenizer
  <2>3. CASE KeyIncomplete \/ KeyRefused \/ KeyEscapeWrong \/ KeyDoesNotFit
    BY <2>2, <2>3, CallsGoOn DEF KeyIncomplete, KeyRefused, KeyEscapeWrong, KeyDoesNotFit
  <2>7. CASE KeyDone
    <3>1. PICK n, t : \/ Duplicate(KeyText) /\ call' = Failed(n, "duplicate")
                      \/ HandlerFails("key", t, n) \/ TokenDone(t, n, "ExpectColon", FALSE)
      BY <2>7 DEF KeyDone
    <3>2. Duplicate(KeyText) => Repeats  BY <2>7 DEF Repeats
    <3> QED  BY <2>2, <3>1, <3>2, CallsGoOn, DoneGoesOn
  <2>4. CASE KeyRun \/ KeyRunDone
    <3>1. PICK to : \/ call' = Failed(0, "syntax") \/ call' = [call EXCEPT !.pc = "key"]
                    \/ call' = [call EXCEPT !.pc = "run", !.to = to]
      BY <2>4, Zenon DEF KeyRun, KeyRunDone
    <3>2. ASSUME \/ call' = [call EXCEPT !.pc = "key"] \/ call' = [call EXCEPT !.pc = "run", !.to = to]
          PROVE  SameCall(call')
      BY <3>2, Zenon DEF Calls, SameCall, InTokenizer
    <3> QED  BY <2>2, <3>1, <3>2, CallsGoOn
  <2>5. CASE KeyFound
    <3>1. PICK key, end :
            call' = [call EXCEPT !.pc = "key", !.key = key, !.end = end,
                                 !.p = IF key = "hit" THEN end ELSE KeyStart,
                                 !.units = IF key = "hit" THEN Units(Slice(ring, KeyStart, end)) ELSE 0]
      BY <2>5, Zenon DEF KeyFound
    <3>2. SameCall(call')  BY <3>1, Zenon DEF Calls, SameCall, InTokenizer
    <3> QED  BY <2>2, <3>2
  <2>6. CASE KeyEscape
    <3>1. call.pc = "key"  BY <2>6 DEF KeyEscape, AtKeyEscape
    <3>2. PICK n : call' = [call EXCEPT !.p = @ + n, !.units = @ + n]  BY <2>6 DEF KeyEscape
    <3>3. SameCall(call')  BY <3>1, <3>2, Zenon DEF Calls, SameCall, InTokenizer
    <3> QED  BY <2>2, <3>3
  <2> QED  BY <1>4, <2>2, <2>3, <2>4, <2>5, <2>6, <2>7 DEF KeyStep
<1> QED  BY <1>2, <1>3, <1>4

\* Every step of the tokenizer.
LEMMA TokenizerSteps ==
  ASSUME call \in Calls, CallInRing(call), TokenizerStep
  PROVE  call.pc \in InTokenizer /\ SameCall(call')
BY TokenSteps, TextSteps DEF TokenizerStep

-----------------------------------------------------------------------------
(* The parser and its caller                                               *)

\* Every step of the tokenizer keeps the types.
LEMMA TokenizerStepType ==
  ASSUME TypeOK, TokenizerStep, UNCHANGED <<parser, doc, verdict>>
  PROVE  TypeOK'
<1>1. UNCHANGED <<ring, limits>>  BY DEF TokenizerStep
<1>2. CASE LoopEnd
  <2>1. "none" \in Errors  BY DEF Errors
  <2>2. call' \in Calls /\ CallInRing(call')  BY <1>2, <2>1, TypeFacts, CallStops DEF LoopEnd
  <2> QED  BY <1>1, <1>2, <2>2, TypeFacts, TypesKept DEF LoopEnd, TypeOK, CallerTypeOK
<1>3. CASE ~LoopEnd
  <2>1. TokenizerTypeOK'
    BY <1>1, <1>3, StructureType, LiteralType, NumberType, WhitespaceType, DecodeType, StringType,
       KeyType DEF TokenizerStep
  <2> QED  BY <1>1, <2>1 DEF TypeOK, CallerTypeOK
<1> QED  BY <1>2, <1>3

\* What the type invariant says of the caller's variables.
LEMMA CallerFacts ==
  ASSUME TypeOK
  PROVE  /\ ring \in Seq(Alphabet) /\ doc \in Seq(Alphabet) /\ Len(ring) \in Nat
         /\ limits \in [LimitNames -> Nat \cup {NoLimit}] /\ parser \in Parsers
         /\ parser.document_length \in Nat /\ parser.unconsumed \in Nat
         /\ parser.reject_duplicate_keys \in BOOLEAN /\ parser.string_chunk_size \in Nat
         /\ verdict \in Verdicts
BY LenProperties DEF TypeOK, CallerTypeOK, Parsers

\* What a call leaves when it has returned, or only feeds the ring.
LEMMA ReturnedType ==
  ASSUME NEW op \in {"none", "receive", "close"}, NEW error \in Errors
  PROVE  Returned(op, error) \in Calls /\ Returned(op, error).pc = "idle"
         /\ Returned(op, error).key = "none" /\ Returned(op, error).op = op
         /\ Returned(op, error).consumed = 0 /\ Returned(op, error).wrap = 0
         /\ Returned(op, error).p = 0 /\ Returned(op, error).to = 0
BY DEF Returned, Calls, PCs

\* New tokenizers, locators and parsers have their types.
LEMMA NewType ==
  ASSUME NEW reject \in BOOLEAN, NEW chunk \in Nat
  PROVE  /\ NewTokenizer(reject, chunk) \in Tokenizers
         /\ NewLocator \in Locators
         /\ NewParser(reject, chunk) \in Parsers
<1>0. <<>> \in Bytes /\ <<>> \in Seq(Contexts) /\ <<>> \in Seq(NestTokens)
      /\ <<>> \in Seq(SUBSET Bytes) /\ 0 \in Nat
  BY DEF Bytes
<1>1. NewTokenizer(reject, chunk) \in Tokenizers
  BY <1>0, Zenon DEF NewTokenizer, Tokenizers, States, NumStages
<1>2. NewLocator \in Locators  BY DEF NewLocator, Locators
<1>3. NewParser(reject, chunk) \in Parsers  BY DEF NewParser, Parsers
<1> QED  BY <1>1, <1>2, <1>3

\* A byte order mark that is skipped is in the ring.
LEMMA MarkInRing ==
  ASSUME ring \in Seq(Alphabet)
  PROVE  /\ ByteOrderMark(ring) \in {0, 3, More, Bad}
         /\ ByteOrderMark(ring) = 3 => 3 <= Len(ring)
<1> DEFINE n == Len(ring)
           Begins(s) == n >= Len(s) /\ SubSeq(ring, 1, Len(s)) = s
<1>1. n \in Nat /\ (Begins(<<"EF", "BB", "BF">>) => 3 <= n)  BY LenProperties
<1> HIDE DEF Begins
<1>2. CASE ring[1] = "EF"
  <2>1. ByteOrderMark(ring) = IF Begins(<<"EF", "BB", "BF">>) THEN 3
                              ELSE IF n = 1 \/ (n = 2 /\ ring[2] = "BB") THEN More ELSE 0
    BY <1>2 DEF ByteOrderMark, Begins
  <2> QED  BY <1>1, <2>1 DEF More
<1>3. CASE ring[1] = "FE"
  <2>1. ByteOrderMark(ring) =
          IF n < 2 THEN More ELSE IF Begins(<<"FE", "FF">>) THEN Bad ELSE 0
    BY <1>3 DEF ByteOrderMark, Begins
  <2> QED  BY <2>1 DEF More, Bad
<1>4. CASE ring[1] = "FF"
  <2>1. ByteOrderMark(ring) =
          IF n < 2 \/ (Begins(<<"FF", "FE">>) /\ n < 4) THEN More
          ELSE IF Begins(<<"FF", "FE">>) THEN Bad ELSE 0
    BY <1>4 DEF ByteOrderMark, Begins
  <2> QED  BY <2>1 DEF More, Bad
<1>5. CASE ring[1] = "00"
  <2>1. ByteOrderMark(ring) =
          IF n < 2 \/ (Begins(<<"00", "00">>) /\ n < 4) THEN More
          ELSE IF Begins(<<"00", "00", "FE", "FF">>) THEN Bad ELSE 0
    BY <1>5 DEF ByteOrderMark, Begins
  <2> QED  BY <2>1 DEF More, Bad
<1>6. CASE ring[1] \notin {"EF", "FE", "FF", "00"}
  <2>1. ByteOrderMark(ring) = 0  BY <1>6 DEF ByteOrderMark
  <2> QED  BY <2>1 DEF More, Bad
<1> QED  BY <1>2, <1>3, <1>4, <1>5, <1>6

\* Setting a call going keeps the types.
LEMMA FeedType ==
  ASSUME TypeOK, NEW op \in {"receive", "close"}, Feed(op)
  PROVE  TypeOK'
<1> DEFINE counted == [parser EXCEPT !.document_length = DocumentLength]
           bom == IF parser.checked_bom THEN 0 ELSE ByteOrderMark(ring)
           skipped == IF bom < 0 \/ DocumentTooLong THEN 0 ELSE bom
           started == [Returned(op, "none") EXCEPT !.pc = "loop", !.consumed = skipped]
           live == ~DocumentTooLong /\ bom >= 0
<1>1. UNCHANGED <<ring, loc, limits, interned, events, doc, verdict>>  BY DEF Feed
<1>2. parser' \in Parsers
  <2>1. parser' = IF live THEN [counted EXCEPT !.checked_bom = TRUE, !.live = TRUE,
                                               !.closed = @ \/ op = "close"]
                  ELSE [counted EXCEPT !.closed = @ \/ op = "close"]
    BY DEF Feed
  <2>2. DocumentLength \in Nat  BY CallerFacts DEF DocumentLength, FreshBytes
  <2>3. counted \in Parsers  BY <2>2, CallerFacts, Zenon DEF Parsers
  <2> HIDE DEF counted, live
  <2> QED  BY <2>1, <2>3, Zenon DEF Parsers
<1>3. tok' \in Tokenizers
  <2>1. NewTokenizer(parser.reject_duplicate_keys, parser.string_chunk_size) \in Tokenizers
    BY CallerFacts, NewType
  <2> QED  BY <2>1, TypeFacts DEF Feed
<1>4. skipped \in Nat /\ skipped <= Len(ring)
  <2>1. ByteOrderMark(ring) \in {0, 3, More, Bad} /\ (ByteOrderMark(ring) = 3 => 3 <= Len(ring))
    BY MarkInRing, TypeFacts
  <2> QED  BY <2>1, TypeFacts DEF More, Bad
<1>5. PICK wrap \in 0 .. Len(ring) :
        call' = IF DocumentTooLong THEN [started EXCEPT !.pc = "fed", !.error = "limit"]
                ELSE IF bom = Bad THEN [started EXCEPT !.pc = "fed", !.error = "syntax"]
                ELSE IF bom = More THEN [started EXCEPT !.pc = "fed"]
                ELSE [started EXCEPT !.wrap = wrap]
  <2>1. (IF MayWrap THEN 1 .. Len(ring) ELSE {Len(ring)}) \subseteq 0 .. Len(ring)  BY TypeFacts
  <2> QED  BY <2>1 DEF Feed
<1> HIDE DEF bom, skipped
<1>6. started \in Calls /\ started.key = "none" /\ started.consumed = skipped
      /\ started.wrap = 0 /\ started.p = 0 /\ started.to = 0 /\ started.pc = "loop"
  <2>1. "none" \in Errors  BY DEF Errors
  <2>2. Returned(op, "none") \in Calls /\ Returned(op, "none").key = "none"
        /\ Returned(op, "none").wrap = 0 /\ Returned(op, "none").p = 0 /\ Returned(op, "none").to = 0
    BY <2>1, ReturnedType
  <2> QED  BY <1>4, <2>2, Zenon DEF Calls, PCs
<1> HIDE DEF started
<1>7. wrap \in Nat /\ wrap <= Len(ring) /\ "limit" \in Errors /\ "syntax" \in Errors
  BY TypeFacts DEF Errors
<1>8. call' \in Calls  BY <1>5, <1>6, <1>7, Zenon DEF Calls, PCs
<1>9. /\ call'.key = "none" /\ call'.consumed = skipped /\ call'.wrap \in {0, wrap}
      /\ call'.p = 0 /\ call'.to = 0 /\ call'.pc \in {"loop", "fed"}
  BY <1>5, <1>6, Zenon DEF Calls
<1>10. CallInRing(call')  BY <1>4, <1>7, <1>9, TypeFacts DEF CallInRing
<1>11. TokenizerTypeOK'  BY <1>1, <1>3, <1>8, <1>10, TypeFacts, TypesKept
<1> QED  BY <1>1, <1>2, <1>11, CallerFacts DEF TypeOK, CallerTypeOK

\* A call that returns, or only closes, keeps the types of the rest.
LEMMA ReturnKeepsTypes ==
  ASSUME TypeOK, call' \in Calls, call'.key = "none", call'.pc \in {"idle", "finish"},
         call'.consumed = 0, call'.wrap = 0, call'.p = 0, call'.to = 0,
         ring' \in Seq(Alphabet), doc' \in Seq(Alphabet), tok' \in Tokenizers,
         loc' \in Locators, events' \in Seq(Events), UNCHANGED <<limits, interned>>,
         parser' \in Parsers, verdict' \in Verdicts
  PROVE  TypeOK'
<1>1. Len(ring') \in Nat  BY LenProperties
<1>2. CallInRing(call)'  BY <1>1 DEF CallInRing
<1> QED  BY <1>2, TypeFacts, CallerFacts DEF TypeOK, TokenizerTypeOK, CallerTypeOK

\* A call that has returned, or whose ring has been fed, is a call.
LEMMA CallReturnsType ==
  ASSUME NEW op \in {"none", "receive", "close"}, NEW error \in Errors, NEW pc \in {"idle", "finish"},
         call' = [Returned(op, error) EXCEPT !.pc = pc]
  PROVE  /\ call' \in Calls /\ call'.key = "none" /\ call'.pc \in {"idle", "finish"}
         /\ call'.consumed = 0 /\ call'.wrap = 0 /\ call'.p = 0 /\ call'.to = 0
<1>0. Returned(op, error) \in Calls /\ pc \in PCs  BY ReturnedType DEF PCs
<1>1. call' \in Calls  BY <1>0, Zenon DEF Calls
<1>2. /\ call'.key = Returned(op, error).key /\ call'.pc = pc
      /\ call'.consumed = Returned(op, error).consumed /\ call'.wrap = Returned(op, error).wrap
      /\ call'.p = Returned(op, error).p /\ call'.to = Returned(op, error).to
  BY <1>0, Zenon DEF Calls
<1> QED  BY <1>1, <1>2, ReturnedType

\* A call that has returned.
LEMMA CallIdleType ==
  ASSUME NEW op \in {"none", "receive", "close"}, NEW error \in Errors,
         call' = Returned(op, error)
  PROVE  /\ call' \in Calls /\ call'.key = "none" /\ call'.pc \in {"idle", "finish"}
         /\ call'.consumed = 0 /\ call'.wrap = 0 /\ call'.p = 0 /\ call'.to = 0
BY ReturnedType

\* Every step that begins or ends a call keeps the types.
LEMMA ReturnStepType ==
  ASSUME TypeOK,
         FeedReturns \/ CloseUnfinished \/ CloseReturns \/ CloseAfterNumber
         \/ ReceiveNothing \/ CloseEmpty \/ CloseAgain
  PROVE  TypeOK'
<1>1. {"none", "syntax", "limit", "handler", "small", "closed"} \subseteq Errors  BY DEF Errors
<1>2. \A error \in {"accepted"} \cup (Errors \ {"none"}) : Judged(error) \in Verdicts
  BY CallerFacts DEF Judged, Verdicts
<1>3. CASE FeedReturns
  <2>1. UNCHANGED <<tok, loc, limits, interned, events, doc>>
        /\ ring' = Slice(ring, call.consumed, Total)
    BY <1>3 DEF FeedReturns
  <2>2. call.consumed \in Nat /\ call.consumed <= Len(ring) /\ Total = Len(ring)
        /\ call.op \in {"none", "receive", "close"} /\ call.error \in Errors
    BY TypeFacts, CallFields DEF CallInRing, Total
  <2>3. ring' \in Seq(Alphabet)
    <3>1. ring \in Seq(Alphabet) /\ Len(ring) \in Nat /\ Len(ring) <= Len(ring)  BY TypeFacts
    <3>2. Slice(ring, call.consumed, Len(ring)) \in Seq(Alphabet)  BY <2>2, <3>1, SliceType
    <3> QED  BY <2>1, <2>2, <3>2
  <2>4. CASE call.error # "none" /\ call' = Returned(call.op, call.error)
             /\ verdict' = Judged(call.error) /\ UNCHANGED parser
    <3>1. verdict' \in Verdicts  BY <1>2, <2>2, <2>4
    <3> QED  BY <2>1, <2>2, <2>3, <2>4, <3>1, CallIdleType, ReturnKeepsTypes, TypeFacts, CallerFacts
  <2>5. ASSUME parser' = [parser EXCEPT !.unconsumed = Total - call.consumed,
                                        !.underflow = Total - call.consumed > 0]
        PROVE  parser' \in Parsers
    <3>1. Total - call.consumed \in Nat  BY <2>2, TypeFacts
    <3>2. (Total - call.consumed > 0) \in BOOLEAN  OBVIOUS
    <3> QED  BY <2>5, <3>1, <3>2, CallerFacts, Zenon DEF Parsers
  <2>6. CASE /\ parser' = [parser EXCEPT !.unconsumed = Total - call.consumed,
                                         !.underflow = Total - call.consumed > 0]
             /\ \/ call' = Returned("receive", "small") /\ verdict' = Judged("small")
                \/ call' = Returned("receive", "none") /\ UNCHANGED verdict
                \/ call' = [Returned("close", "none") EXCEPT !.pc = "finish"] /\ UNCHANGED verdict
    <3>1. verdict' \in Verdicts  BY <1>1, <1>2, <2>6, CallerFacts
    <3>2. /\ call' \in Calls /\ call'.key = "none" /\ call'.pc \in {"idle", "finish"}
          /\ call'.consumed = 0 /\ call'.wrap = 0 /\ call'.p = 0 /\ call'.to = 0
      BY <1>1, <2>6, CallIdleType, CallReturnsType
    <3> QED  BY <2>1, <2>3, <2>5, <2>6, <3>1, <3>2, ReturnKeepsTypes, TypeFacts, CallerFacts
  <2> QED  BY <1>3, <2>4, <2>6 DEF FeedReturns
<1>4. ASSUME NEW result \in {"accepted", "syntax", "handler"}, Judge(result),
             UNCHANGED <<ring, limits, interned, parser, doc>>, tok' \in Tokenizers,
             loc' \in Locators, events' \in Seq(Events)
      PROVE  TypeOK'
  <2>1. verdict' \in Verdicts  BY <1>1, <1>2, <1>4 DEF Judge
  <2>2. /\ call' \in Calls /\ call'.key = "none" /\ call'.pc \in {"idle", "finish"}
        /\ call'.consumed = 0 /\ call'.wrap = 0 /\ call'.p = 0 /\ call'.to = 0
    BY <1>1, <1>4, CallIdleType DEF Judge
  <2> QED  BY <1>4, <2>1, <2>2, ReturnKeepsTypes, CallerFacts
<1>5. CASE CloseUnfinished  BY <1>4, <1>5, TypeFacts DEF CloseUnfinished
<1>6. CASE CloseReturns  BY <1>4, <1>6, TypeFacts DEF CloseReturns, Complete
<1>7. CASE CloseAfterNumber
  <2>1. /\ loc' = Right(tok.length) /\ Notify("number_value", tok.number, loc')
        /\ tok' = [tok EXCEPT !.stage = "None", !.state = "AfterValue"]
        /\ UNCHANGED <<ring, limits, interned, parser, doc>>
        /\ Judge("handler") \/ Judge(Complete)
    BY <1>7 DEF CloseAfterNumber
  <2>2. tok.length \in Nat /\ tok.number \in Bytes /\ "number_value" \in Callbacks
    BY TypeFacts, TokenizerFields DEF Callbacks
  <2>3. loc' \in Locators  BY <2>1, <2>2, TypeFacts, RightType
  <2>4. events' \in Seq(Events)  BY <2>1, <2>2, <2>3, TypeFacts, NotifyType
  <2>5. tok' \in Tokenizers  BY <2>1, TypeFacts, Zenon DEF Tokenizers, NumStages, States
  <2> QED  BY <1>4, <2>1, <2>3, <2>4, <2>5 DEF Complete
<1>8. CASE ReceiveNothing
  <2>1. /\ UNCHANGED <<ring, tok, loc, limits, interned, events, parser, doc, verdict>>
        /\ call' = Returned("receive", "closed") \/ call' = Returned("receive", "none")
    BY <1>8 DEF ReceiveNothing
  <2> QED  BY <1>1, <2>1, CallIdleType, ReturnKeepsTypes, TypeFacts, CallerFacts
<1>9. CASE CloseEmpty
  <2>1. /\ UNCHANGED <<ring, tok, loc, limits, interned, events, doc, verdict>>
        /\ call' = [Returned("close", "none") EXCEPT !.pc = "finish"]
        /\ parser' = [parser EXCEPT !.closed = TRUE]
    BY <1>9 DEF CloseEmpty
  <2>2. parser' \in Parsers  BY <2>1, CallerFacts, Zenon DEF Parsers
  <2> QED  BY <1>1, <2>1, <2>2, CallReturnsType, ReturnKeepsTypes, TypeFacts, CallerFacts
<1>10. CASE CloseAgain
  BY <1>1, <1>10, CallIdleType, ReturnKeepsTypes, TypeFacts, CallerFacts DEF CloseAgain
<1> QED  BY <1>3, <1>5, <1>6, <1>7, <1>8, <1>9, <1>10

\* What the caller does between calls keeps the types.
LEMMA CallerType ==
  ASSUME TypeOK,
         Write \/ SetLimits \/ SetStringChunkSize \/ SetRejectDuplicateKeys \/ Reset
  PROVE  TypeOK'
<1>1. CASE Write
  <2> PICK b \in Alphabet : ring' = Append(ring, b) /\ doc' = Append(doc, b)
    BY <1>1 DEF Write
  <2>1. UNCHANGED <<tok, loc, call, limits, interned, events, parser, verdict>> /\ call.pc = "idle"
    BY <1>1 DEF Write, Idle
  <2>2. ring' \in Seq(Alphabet) /\ Len(ring') = Len(ring) + 1 /\ doc' \in Seq(Alphabet)
    BY CallerFacts, AppendProperties
  <2>3. call.key = "none"  BY <2>1, TypeFacts DEF CallInRing
  <2>4. CallInRing(call)'  BY <2>1, <2>2, <2>3, TypeFacts, CallFields DEF CallInRing
  <2> QED  BY <2>1, <2>2, <2>4, TypeFacts, CallerFacts DEF TypeOK, TokenizerTypeOK, CallerTypeOK
<1>2. ASSUME UNCHANGED <<ring, loc, call, interned, events, doc, verdict>>,
             tok' \in Tokenizers, parser' \in Parsers,
             limits' \in [LimitNames -> Nat \cup {NoLimit}]
      PROVE  TypeOK'
  BY <1>2, TypeFacts, CallerFacts DEF TypeOK, TokenizerTypeOK, CallerTypeOK, CallInRing
<1>3. CASE SetLimits
  BY <1>2, <1>3, TypeFacts, CallerFacts, LimitsAssumption DEF SetLimits
<1>4. CASE SetStringChunkSize
  <2> PICK n \in ChunkSizes :
        /\ parser' = [parser EXCEPT !.string_chunk_size = n]
        /\ tok' = IF parser.live THEN [tok EXCEPT !.chunk_size = n] ELSE tok
    BY <1>4 DEF SetStringChunkSize
  <2>1. n \in Nat  BY SizesAssumption
  <2>2. parser' \in Parsers  BY <2>1, CallerFacts, Zenon DEF Parsers
  <2>3. tok' \in Tokenizers  BY <2>1, TypeFacts, Zenon DEF Tokenizers
  <2> QED  BY <1>2, <1>4, <2>2, <2>3, CallerFacts DEF SetStringChunkSize
<1>5. CASE SetRejectDuplicateKeys
  <2> PICK reject \in Rejecting : parser' = [parser EXCEPT !.reject_duplicate_keys = reject]
    BY <1>5 DEF SetRejectDuplicateKeys
  <2>1. reject \in BOOLEAN  BY ChoicesAssumption
  <2>2. parser' \in Parsers  BY <2>1, CallerFacts, Zenon DEF Parsers
  <2> QED  BY <1>2, <1>5, <2>2, TypeFacts, CallerFacts DEF SetRejectDuplicateKeys
<1>6. CASE Reset
  <2>1. "none" \in Errors /\ "open" \in Verdicts  BY DEF Errors, Verdicts
  <2>2. /\ parser' = NewParser(parser.reject_duplicate_keys, parser.string_chunk_size)
        /\ tok' = NewTokenizer(parser.reject_duplicate_keys, parser.string_chunk_size)
        /\ loc' = NewLocator /\ call' = Returned("none", "none")
        /\ events' = <<>> /\ verdict' = "open"
        /\ UNCHANGED <<limits, interned>>
    BY <1>6 DEF Reset
  <2>3. ring' \in Seq(Alphabet) /\ doc' \in Seq(Alphabet)
    <3>1. <<>> \in Seq(Alphabet)  BY EmptySeq
    <3>2. PICK kept \in {ring, <<>>} : ring' = kept /\ doc' = kept  BY <1>6 DEF Reset
    <3> QED  BY <3>1, <3>2, CallerFacts
  <2>4. parser' \in Parsers /\ tok' \in Tokenizers /\ loc' \in Locators
    BY <2>2, NewType, CallerFacts
  <2>5. events' \in Seq(Events)  BY <2>2
  <2> QED  BY <2>1, <2>2, <2>3, <2>4, <2>5, CallIdleType, ReturnKeepsTypes
<1> QED  BY <1>1, <1>3, <1>4, <1>5, <1>6

\* The types hold to begin with.
LEMMA InitType ==
  ASSUME Init  PROVE TypeOK
<1>1. PICK reject \in Rejecting, chunk \in ChunkSizes :
        parser = NewParser(reject, chunk) /\ tok = NewTokenizer(reject, chunk)
  BY DEF Init
<1>2. reject \in BOOLEAN /\ chunk \in Nat  BY ChoicesAssumption, SizesAssumption
<1>3. parser \in Parsers /\ tok \in Tokenizers /\ NewLocator \in Locators  BY <1>1, <1>2, NewType
<1>4. "none" \in Errors /\ "open" \in Verdicts  BY DEF Errors, Verdicts
<1>5. call = Returned("none", "none") /\ ring = <<>>  BY DEF Init
<1>6. call \in Calls /\ call.key = "none" /\ call.pc = "idle" /\ call.consumed = 0
      /\ call.wrap = 0 /\ call.p = 0 /\ call.to = 0
  BY <1>4, <1>5, ReturnedType
<1>7. CallInRing(call)  BY <1>5, <1>6 DEF CallInRing
<1>8. limits \in [LimitNames -> Nat \cup {NoLimit}]  BY LimitsAssumption DEF Init
<1> QED  BY <1>3, <1>4, <1>6, <1>7, <1>8 DEF Init, TypeOK, TokenizerTypeOK, CallerTypeOK

\* Every step of the parser and its caller keeps the types.
LEMMA NextType ==
  ASSUME TypeOK, [Next]_vars  PROVE TypeOK'
<1>1. CASE TokenizerStep /\ UNCHANGED <<parser, doc, verdict>>  BY <1>1, TokenizerStepType
<1>2. CASE Receive \/ Close  BY <1>2, FeedType DEF Receive, Close
<1>3. CASE FeedReturns \/ CloseUnfinished \/ CloseReturns \/ CloseAfterNumber
           \/ ReceiveNothing \/ CloseEmpty \/ CloseAgain
  BY <1>3, ReturnStepType
<1>4. CASE Write \/ SetLimits \/ SetStringChunkSize \/ SetRejectDuplicateKeys \/ Reset
  BY <1>4, CallerType
<1>5. CASE UNCHANGED vars
  BY <1>5 DEF vars, TypeOK, TokenizerTypeOK, CallerTypeOK, CallInRing
<1> QED  BY <1>1, <1>2, <1>3, <1>4, <1>5 DEF Next, CallStep, CallerStep

-----------------------------------------------------------------------------
\* Whatever the constants are, every variable keeps its type, and a call never
\* consumes, decodes or looks for the end of a key beyond what is in the ring,
\* nor counts below zero (the offsets and lengths of tokenizer.rs are unsigned).
THEOREM TypeCorrect == Spec => []TypeOK
<1>1. Init => TypeOK  BY InitType
<1>2. TypeOK /\ [Next]_vars => TypeOK'  BY NextType
<1> QED  BY <1>1, <1>2, PTL DEF Spec
-----------------------------------------------------------------------------
(* How calls end                                                           *)

\* An error ends its call; a document on which the verdict is still open has
\* seen no error and no close; and after the verdict a caller that does not
\* go on makes no call but a second close.
CallState ==
  /\ call.error # "none" => call.pc \in {"fed", "idle"}
  /\ Idle /\ verdict = "open" => call.error = "none" /\ ~parser.closed
  /\ ~Idle /\ parser.closed => call.op = "close"
  /\ ~RetryAfterError /\ verdict # "open" => Idle

\* Setting a call going keeps CallState.
LEMMA FeedState ==
  ASSUME TypeOK, CallState, NEW op \in {"receive", "close"}, Idle, MayGoOn, ~parser.closed, Feed(op)
  PROVE  CallState'
<1>1. call'.op = op /\ call'.pc \in {"loop", "fed"} /\ (call'.error # "none" => call'.pc = "fed")
  BY DEF Feed, Returned
<1>2. UNCHANGED verdict /\ (RetryAfterError \/ verdict = "open")  BY DEF Feed, MayGoOn
<1>3. parser'.closed => op = "close"
  <2>1. PICK p \in Parsers : /\ p.closed = parser.closed
                             /\ parser' = [p EXCEPT !.closed = @ \/ op = "close"]
    <3> DEFINE counted == [parser EXCEPT !.document_length = DocumentLength]
    <3>1. DocumentLength \in Nat  BY CallerFacts DEF DocumentLength, FreshBytes
    <3>2. counted \in Parsers /\ counted.closed = parser.closed
      BY <3>1, CallerFacts, Zenon DEF Parsers
    <3>3. [counted EXCEPT !.checked_bom = TRUE, !.live = TRUE] \in Parsers
          /\ [counted EXCEPT !.checked_bom = TRUE, !.live = TRUE].closed = counted.closed
      BY <3>2, Zenon DEF Parsers
    <3>4. \/ parser' = [counted EXCEPT !.closed = @ \/ op = "close"]
          \/ parser' = [counted EXCEPT !.checked_bom = TRUE, !.live = TRUE, !.closed = @ \/ op = "close"]
      BY DEF Feed
    <3>5. [counted EXCEPT !.checked_bom = TRUE, !.live = TRUE, !.closed = @ \/ op = "close"]
            = [[counted EXCEPT !.checked_bom = TRUE, !.live = TRUE] EXCEPT !.closed = @ \/ op = "close"]
      BY <3>2, Zenon DEF Parsers
    <3> HIDE DEF counted
    <3> QED  BY <3>2, <3>3, <3>4, <3>5
  <2>2. parser'.closed = (p.closed \/ op = "close")  BY <2>1, Zenon DEF Parsers
  <2> QED  BY <2>1, <2>2
<1> QED  BY <1>1, <1>2, <1>3 DEF CallState, Idle

\* Every step keeps CallState.
LEMMA CallStateKept ==
  ASSUME TypeOK, CallState, [Next]_vars  PROVE CallState'
<1>0. call \in Calls /\ CallInRing(call)  BY TypeFacts
<1>1. CASE TokenizerStep /\ UNCHANGED <<parser, doc, verdict>>
  <2>1. call.pc \in InTokenizer /\ SameCall(call')  BY <1>0, <1>1, TokenizerSteps
  <2> QED  BY <1>1, <2>1 DEF SameCall, CallState, Idle, InTokenizer
<1>2. CASE FeedReturns
  <2>0. call.pc = "fed" /\ (parser'.closed => parser.closed)
    <3>1. parser'.closed = parser.closed
      BY <1>2, CallerFacts, Zenon DEF FeedReturns, Parsers
    <3> QED  BY <1>2, <3>1 DEF FeedReturns
  <2>1. CASE call.error # "none" /\ call' = Returned(call.op, call.error) /\ verdict' = Judged(call.error)
    <3>1. verdict' # "open" /\ call'.pc = "idle"  BY <1>0, <2>1 DEF Judged, Returned, Calls, Errors
    <3> QED  BY <3>1 DEF CallState, Idle
  <2>2. CASE call' = Returned("receive", "small") /\ verdict' = Judged("small")
    <3>1. verdict' # "open" /\ call'.pc = "idle"  BY <2>2 DEF Judged, Returned
    <3> QED  BY <3>1 DEF CallState, Idle
  <2>3. CASE call.op = "receive" /\ call' = Returned("receive", "none") /\ UNCHANGED verdict
    BY <2>0, <2>3 DEF CallState, Idle, Returned
  <2>4. CASE call' = [Returned("close", "none") EXCEPT !.pc = "finish"] /\ UNCHANGED verdict
    BY <2>0, <2>4 DEF CallState, Idle, Returned
  <2> QED  BY <1>2, <2>1, <2>2, <2>3, <2>4 DEF FeedReturns
<1>3. CASE CloseUnfinished \/ CloseReturns \/ CloseAfterNumber
  <2>1. \E result \in {"accepted", "syntax", "handler"} : Judge(result)
    BY <1>3 DEF CloseUnfinished, CloseReturns, CloseAfterNumber, Complete
  <2>2. verdict' # "open" /\ call'.pc = "idle"  BY <2>1 DEF Judge, Judged, Returned
  <2> QED  BY <2>2 DEF CallState, Idle
<1>4. CASE Receive \/ Close  BY <1>4, FeedState DEF Receive, Close
<1>5. CASE CloseEmpty
  <2>1. call'.pc = "finish" /\ call'.op = "close" /\ call'.error = "none" /\ UNCHANGED verdict
    BY <1>5 DEF CloseEmpty, Returned
  <2> QED  BY <1>5, <2>1 DEF CallState, Idle, CloseEmpty, MayGoOn
<1>6. CASE ReceiveNothing \/ CloseAgain
  <2>1. Idle /\ UNCHANGED <<parser, verdict>> /\ call'.pc = "idle"
        /\ (~parser.closed => call'.error = "none")
    BY <1>6 DEF ReceiveNothing, CloseAgain, Returned
  <2> QED  BY <2>1 DEF CallState, Idle
<1>7. CASE Reset
  <2>1. call' = Returned("none", "none") /\ ~parser'.closed /\ verdict' = "open"
    BY <1>7 DEF Reset, NewParser
  <2> QED  BY <2>1 DEF CallState, Idle, Returned
<1>8. CASE Write \/ SetLimits \/ SetStringChunkSize \/ SetRejectDuplicateKeys \/ UNCHANGED vars
  <2>1. parser'.closed = parser.closed
    BY <1>8, CallerFacts, Zenon
    DEF Write, SetLimits, SetStringChunkSize, SetRejectDuplicateKeys, vars, Parsers
  <2>2. UNCHANGED <<call, verdict>>
    BY <1>8 DEF Write, SetLimits, SetStringChunkSize, SetRejectDuplicateKeys, vars
  <2> QED  BY <2>1, <2>2 DEF CallState, Idle
<1> QED
  BY <1>1, <1>2, <1>3, <1>4, <1>5, <1>6, <1>7, <1>8 DEF Next, CallStep, CallerStep

\* CallState holds of every behaviour.
LEMMA CallStateHolds == Spec => []CallState
<1>1. Init => CallState  BY DEF Init, CallState, Idle, Returned, NewParser
<1> QED  BY <1>1, CallStateKept, TypeCorrect, PTL DEF Spec

-----------------------------------------------------------------------------
(* Every byte of a document is counted once                                *)

Counting == limits.max_document_length # NoLimit

\* What has been counted, as long as the document has not been refused: all
\* that was written while a call is in progress, and between calls all but
\* the bytes that are new in the ring.
ByteCount ==
  /\ doc = <<>> => ring = <<>> /\ parser.document_length = 0
  /\ ~Idle /\ call.op = "close" => parser.closed
  /\ ~Idle => verdict # "accepted" /\ call.op \in {"receive", "close"}
  /\ call.pc = "finish" => call.op = "close"
  /\ Idle /\ verdict = "accepted" => parser.closed
  /\ Idle /\ verdict = "open" => parser.unconsumed <= Len(ring)
  /\ Counting /\ ~Idle /\ verdict = "open" => parser.document_length = Len(doc)
  /\ Counting /\ Idle /\ verdict \in {"open", "accepted"} =>
       parser.document_length + FreshBytes = Len(doc)

\* What a call that begins does to the byte count.
LEMMA FeedParser ==
  ASSUME TypeOK, NEW op \in {"receive", "close"}, Feed(op)
  PROVE  /\ parser'.document_length = DocumentLength
         /\ parser'.closed = (parser.closed \/ op = "close")
         /\ call'.op = op /\ call'.pc \in {"loop", "fed"}
<1> DEFINE counted == [parser EXCEPT !.document_length = DocumentLength]
<1>1. DocumentLength \in Nat  BY CallerFacts DEF DocumentLength, FreshBytes
<1>2. counted \in Parsers /\ counted.closed = parser.closed /\ counted.document_length = DocumentLength
  BY <1>1, CallerFacts, Zenon DEF Parsers
<1>3. \/ parser' = [counted EXCEPT !.closed = @ \/ op = "close"]
      \/ parser' = [counted EXCEPT !.checked_bom = TRUE, !.live = TRUE, !.closed = @ \/ op = "close"]
  BY DEF Feed
<1> HIDE DEF counted
<1>4. parser'.closed = (counted.closed \/ op = "close")
      /\ parser'.document_length = counted.document_length
  BY <1>2, <1>3, Zenon DEF Parsers
<1>5. call'.op = op /\ call'.pc \in {"loop", "fed"}  BY DEF Feed, Returned
<1> QED  BY <1>2, <1>4, <1>5

\* Every step keeps ByteCount, unless it sets a limit in the middle of a document.
LEMMA ByteCountKept ==
  ASSUME TypeOK, CallState, ByteCount, [Next]_vars, ~Counting /\ Counting' => doc = <<>>
  PROVE  ByteCount'
<1>0. /\ call \in Calls /\ CallInRing(call) /\ parser \in Parsers /\ Len(ring) \in Nat
      /\ parser.document_length \in Nat /\ parser.unconsumed \in Nat /\ Len(doc) \in Nat
      /\ call.consumed \in Nat
  BY TypeFacts, CallFields, CallerFacts, LenProperties
<1>1. CASE TokenizerStep /\ UNCHANGED <<parser, doc, verdict>>
  <2>1. call.pc \in InTokenizer /\ SameCall(call')  BY <1>0, <1>1, TokenizerSteps
  <2>2. UNCHANGED <<ring, limits>>  BY <1>1 DEF TokenizerStep
  <2> QED  BY <1>1, <2>1, <2>2 DEF SameCall, ByteCount, Idle, InTokenizer, Counting
<1>2. CASE FeedReturns
  <2>1. Slice(ring, call.consumed, Len(ring)) \in Seq(Alphabet)
        /\ Len(Slice(ring, call.consumed, Len(ring))) = Len(ring) - call.consumed
    BY <1>0, TypeFacts DEF CallInRing, Slice
  <2>2. /\ Len(ring') = Len(ring) - call.consumed /\ UNCHANGED <<doc, limits>>
        /\ ring = <<>> => ring' = <<>>
    BY <1>0, <1>2, <2>1 DEF FeedReturns, Total, CallInRing
  <2>3. ~Idle  BY <1>2 DEF FeedReturns, Idle
  <2>4. parser'.document_length = parser.document_length /\ parser'.closed = parser.closed
    BY <1>0, <1>2, Zenon DEF FeedReturns, Parsers
  <2>5. call'.pc = "idle" \/ (call'.pc = "finish" /\ call'.op = "close" /\ call.op = "close")
    BY <1>2 DEF FeedReturns, Returned
  <2>6. CASE call.error # "none" /\ verdict' = Judged(call.error)
    <3>1. verdict' \notin {"open", "accepted"}
      BY <1>0, <2>3, <2>6 DEF Judged, ByteCount, Calls, Errors
    <3> QED  BY <2>2, <2>3, <2>4, <2>5, <3>1 DEF ByteCount, Idle
  <2>7. CASE verdict' = Judged("small")
    <3>1. verdict' \notin {"open", "accepted"}  BY <2>3, <2>7 DEF Judged, ByteCount
    <3> QED  BY <2>2, <2>3, <2>4, <2>5, <3>1 DEF ByteCount, Idle
  <2>8. CASE /\ UNCHANGED verdict
             /\ parser' = [parser EXCEPT !.unconsumed = Len(ring) - call.consumed,
                                         !.underflow = Len(ring) - call.consumed > 0]
    <3>1. parser'.unconsumed = Len(ring')  BY <1>0, <2>2, <2>8, Zenon DEF Parsers
    <3>2. FreshBytes' = 0  BY <1>0, <2>2, <3>1 DEF FreshBytes, CallInRing
    <3>3. Counting /\ verdict = "open" => parser.document_length = Len(doc)
      BY <2>3 DEF ByteCount
    <3>4. doc = <<>> => ring' = <<>> /\ parser'.document_length = 0
      BY <2>2, <2>4 DEF ByteCount
    <3>5. parser'.unconsumed <= Len(ring')  BY <1>0, <2>2, <3>1 DEF CallInRing
    <3>6. Counting /\ verdict = "open" => parser'.document_length + FreshBytes' = Len(doc)
      BY <1>0, <2>4, <3>2, <3>3
    <3>7. verdict # "accepted" /\ (call.op = "close" => parser'.closed)
      BY <2>3, <2>4 DEF ByteCount
    <3> QED
      BY <2>2, <2>4, <2>5, <2>8, <3>3, <3>4, <3>5, <3>6, <3>7 DEF ByteCount, Idle, Counting
  <2> QED  BY <1>2, <2>6, <2>7, <2>8 DEF FeedReturns, Total
<1>3. CASE CloseUnfinished \/ CloseReturns \/ CloseAfterNumber
  <2>1. /\ call.pc = "finish" /\ UNCHANGED <<ring, doc, parser, limits>>
        /\ \E result \in {"accepted", "syntax", "handler"} : Judge(result)
        /\ CloseUnfinished \/ ring = <<>>
    BY <1>3 DEF CloseUnfinished, CloseReturns, CloseAfterNumber, Complete, Unfinished
  <2>2. call'.pc = "idle" /\ verdict' # "open" /\ parser.closed
        /\ (verdict' = "accepted" => verdict = "open" /\ ring = <<>>)
    <3>1. verdict # "accepted" /\ parser.closed  BY <2>1 DEF ByteCount, Idle
    <3> QED
      BY <1>3, <2>1, <3>1 DEF Judge, Judged, Returned, CloseUnfinished
  <2>3. ring = <<>> => FreshBytes = 0 /\ FreshBytes' = 0
    BY <1>0, <2>1, LenProperties DEF FreshBytes
  <2>4. Counting /\ verdict' = "accepted" => parser.document_length + FreshBytes' = Len(doc)
    BY <1>0, <2>1, <2>2, <2>3 DEF ByteCount, Idle
  <2> QED  BY <2>1, <2>2, <2>4 DEF ByteCount, Idle, Counting
<1>4. ASSUME NEW op \in {"receive", "close"}, Idle, MayGoOn, ~parser.closed, ring # <<>>, Feed(op)
      PROVE  ByteCount'
  <2>1. /\ parser'.document_length = DocumentLength
        /\ parser'.closed = (parser.closed \/ op = "close")
        /\ call'.op = op /\ call'.pc \in {"loop", "fed"}
    BY <1>4, FeedParser
  <2>2. UNCHANGED <<ring, doc, limits, verdict>>  BY <1>4 DEF Feed
  <2>3. doc # <<>> /\ verdict # "accepted"  BY <1>4 DEF ByteCount
  <2>4. Counting /\ verdict = "open" => DocumentLength = Len(doc)
    BY <1>4 DEF ByteCount, DocumentLength, Counting
  <2> QED  BY <1>4, <2>1, <2>2, <2>3, <2>4 DEF ByteCount, Idle, Counting
<1>5. CASE Receive \/ Close  BY <1>4, <1>5 DEF Receive, Close
<1>6. CASE CloseEmpty
  <2>1. parser'.closed = TRUE /\ parser'.document_length = parser.document_length
    BY <1>0, <1>6, Zenon DEF CloseEmpty, Parsers
  <2>2. call'.pc = "finish" /\ call'.op = "close" /\ UNCHANGED <<ring, doc, limits, verdict>>
    BY <1>6 DEF CloseEmpty, Returned
  <2>3. FreshBytes = 0 /\ verdict # "accepted" /\ Idle
    BY <1>0, <1>6, LenProperties DEF FreshBytes, CloseEmpty, ByteCount
  <2>4. Counting /\ verdict = "open" => parser.document_length = Len(doc)
    BY <1>0, <2>3 DEF ByteCount
  <2> QED  BY <2>1, <2>2, <2>3, <2>4 DEF ByteCount, Idle, Counting
<1>7. CASE ReceiveNothing \/ CloseAgain \/ UNCHANGED vars
  <2>1. UNCHANGED <<ring, doc, limits, verdict, parser>> /\ ((Idle /\ Idle') \/ UNCHANGED call)
    BY <1>7 DEF ReceiveNothing, CloseAgain, vars, Returned, Idle
  <2>2. FreshBytes' = FreshBytes  BY <2>1 DEF FreshBytes
  <2> QED  BY <2>1, <2>2 DEF ByteCount, Idle, Counting
<1>8. CASE SetLimits
  <2>1. UNCHANGED <<ring, doc, call, verdict, parser>> /\ Idle  BY <1>8 DEF SetLimits
  <2>2. FreshBytes' = FreshBytes  BY <2>1 DEF FreshBytes
  <2>3. doc = <<>> => parser.document_length + FreshBytes = Len(doc)
    BY <1>0, LenProperties DEF ByteCount, FreshBytes
  <2> QED  BY <2>1, <2>2, <2>3 DEF ByteCount, Idle
<1>9. CASE SetStringChunkSize \/ SetRejectDuplicateKeys
  <2>1. /\ parser'.closed = parser.closed /\ parser'.unconsumed = parser.unconsumed
        /\ parser'.document_length = parser.document_length
    BY <1>0, <1>9, Zenon DEF SetStringChunkSize, SetRejectDuplicateKeys, Parsers
  <2>2. UNCHANGED <<ring, doc, call, verdict, limits>>
    BY <1>9 DEF SetStringChunkSize, SetRejectDuplicateKeys
  <2>3. FreshBytes' = FreshBytes  BY <2>1, <2>2 DEF FreshBytes
  <2> QED  BY <2>1, <2>2, <2>3 DEF ByteCount, Idle, Counting
<1>10. CASE Write
  <2>1. PICK b \in Alphabet : ring' = Append(ring, b) /\ doc' = Append(doc, b)
    BY <1>10 DEF Write
  <2>2. /\ Len(ring') = Len(ring) + 1 /\ Len(doc') = Len(doc) + 1 /\ doc' # <<>>
    BY <2>1, TypeFacts, CallerFacts, AppendProperties
  <2>3. Idle /\ ~parser.closed /\ UNCHANGED <<call, verdict, parser, limits>>  BY <1>10 DEF Write
  <2>4. verdict = "open" => FreshBytes' = FreshBytes + 1
    BY <1>0, <2>2, <2>3 DEF FreshBytes, ByteCount
  <2>5. FreshBytes \in Nat  BY <1>0 DEF FreshBytes
  <2>6. verdict # "accepted"  BY <2>3 DEF ByteCount
  <2>7. verdict = "open" => parser.unconsumed <= Len(ring')  BY <1>0, <2>2, <2>3 DEF ByteCount
  <2>8. Counting /\ verdict = "open" => parser.document_length + FreshBytes' = Len(doc')
    BY <1>0, <2>2, <2>3, <2>4, <2>5 DEF ByteCount
  <2> QED  BY <2>2, <2>3, <2>6, <2>7, <2>8 DEF ByteCount, Idle, Counting
<1>11. CASE Reset
  <2>1. /\ parser'.document_length = 0 /\ parser'.unconsumed = 0 /\ call'.pc = "idle"
        /\ verdict' = "open" /\ ring' = doc' /\ Len(ring') \in Nat
    BY <1>0, <1>11, LenProperties DEF Reset, NewParser, Returned
  <2>2. FreshBytes' = Len(doc')  BY <2>1 DEF FreshBytes
  <2> QED  BY <2>1, <2>2 DEF ByteCount, Idle
<1> QED
  BY <1>1, <1>2, <1>3, <1>5, <1>6, <1>7, <1>8, <1>9, <1>10, <1>11 DEF Next, CallStep, CallerStep

\* max_document_length counts every byte once, provided that the limit is not
\* switched on in the middle of a document (what was read before is then left
\* out: feed counts only while there is a limit).
THEOREM BytesAreCountedOnce ==
  Spec /\ [][~Counting /\ Counting' => doc = <<>>]_vars => []BytesCountedOnce
<1>1. Init => ByteCount
  BY LenProperties DEF Init, ByteCount, Idle, Returned, NewParser, FreshBytes
<1>2. ByteCount => BytesCountedOnce  BY DEF ByteCount, BytesCountedOnce, Counting
<1>3. TypeOK /\ CallState /\ ByteCount /\ [Next]_vars
        /\ [~Counting /\ Counting' => doc = <<>>]_vars => ByteCount'
  <2>1. UNCHANGED vars => (~Counting /\ Counting' => doc = <<>>)  BY DEF vars, Counting
  <2> QED  BY <2>1, ByteCountKept
<1> QED  BY <1>1, <1>2, <1>3, TypeCorrect, CallStateHolds, PTL DEF Spec
==============================================================================
