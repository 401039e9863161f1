----------------------------- MODULE StackProofs -----------------------------
(***************************************************************************)
(* The three stacks of the tokenizer agree (StacksAgree), for every        *)
(* document, cut and setting.  Only brackets, a new tokenizer and a key    *)
(* remembered touch them; every other step leaves them as they are.        *)
(* What every step does to the place in the grammar comes next, and with it *)
(* that keys are read only inside an object.                               *)
(***************************************************************************)
EXTENDS ParserProofs

\* What StacksAgree says of a tokenizer t.
Agree(t) ==
  /\ Len(t.depth_stack) = Len(t.context_stack)
  /\ \A i \in DOMAIN t.depth_stack : Matches(t.depth_stack[i], t.context_stack[i])
  /\ Len(t.duplicate_key_stack) =
       IF t.reject_duplicate_keys THEN Cardinality(OpenObjects(t.context_stack)) ELSE 0

\* Two tokenizers with the same stacks, up to the keys remembered.
SameStacks(t, u) ==
  /\ t.depth_stack = u.depth_stack /\ t.context_stack = u.context_stack
  /\ Len(t.duplicate_key_stack) = Len(u.duplicate_key_stack)
  /\ t.reject_duplicate_keys = u.reject_duplicate_keys

-----------------------------------------------------------------------------
(* Counting the open objects                                               *)

\* Opening an object adds one to the open objects, an array none.
LEMMA ObjectsOpened ==
  ASSUME NEW s \in Seq(Contexts)
  PROVE  /\ Cardinality(OpenObjects(s)) \in Nat
         /\ Cardinality(OpenObjects(Append(s, "Object"))) = Cardinality(OpenObjects(s)) + 1
         /\ Cardinality(OpenObjects(Append(s, "Array"))) = Cardinality(OpenObjects(s))
<1> DEFINE n == Len(s)
<1>1. n \in Nat /\ DOMAIN s = 1 .. n  BY LenProperties
<1>2. IsFiniteSet(OpenObjects(s))
  <2>1. IsFiniteSet(1 .. n)  BY <1>1, FS_Interval
  <2>2. OpenObjects(s) \subseteq 1 .. n  BY <1>1 DEF OpenObjects
  <2> QED  BY <2>1, <2>2, FS_Subset
<1>3. n + 1 \notin OpenObjects(s)  BY <1>1 DEF OpenObjects
<1>4. \A c \in Contexts : /\ DOMAIN Append(s, c) = 1 .. n + 1 /\ Append(s, c)[n + 1] = c
                          /\ \A i \in 1 .. n : Append(s, c)[i] = s[i]
  BY <1>1
<1>5. OpenObjects(Append(s, "Object")) = OpenObjects(s) \cup {n + 1}
  BY <1>1, <1>4 DEF OpenObjects, Contexts
<1>6. OpenObjects(Append(s, "Array")) = OpenObjects(s)
  BY <1>1, <1>4 DEF OpenObjects, Contexts
<1> QED  BY <1>2, <1>3, <1>5, <1>6, FS_AddElement, FS_CardinalityType

\* A stack is its top on what is left when it is popped.
LEMMA PoppedAndTop ==
  ASSUME NEW S, NEW s \in Seq(S), s # <<>>
  PROVE  /\ s = Append(Popped(s), Top(s)) /\ Popped(s) \in Seq(S) /\ Top(s) \in S
         /\ Len(Popped(s)) = Len(s) - 1 /\ Len(s) \in Nat \ {0}
         /\ \A i \in 1 .. Len(s) - 1 : Popped(s)[i] = s[i]
<1>1. Len(s) \in Nat \ {0} /\ Top(s) \in S  BY DEF Top
<1>2. /\ Popped(s) \in Seq(S) /\ Len(Popped(s)) = Len(s) - 1
      /\ \A i \in 1 .. Len(s) - 1 : Popped(s)[i] = s[i]
  <2> DEFINE m == Len(s) - 1
  <2>1. m \in Nat /\ 1 \in Int /\ m \in Int /\ \A i \in 1 .. m : s[i] \in S  BY <1>1
  <2>2. Popped(s) = SubSeq(s, 1, m)  BY DEF Popped
  <2> HIDE DEF m
  <2>3. /\ SubSeq(s, 1, m) \in Seq(S)
        /\ Len(SubSeq(s, 1, m)) = IF 1 <= m THEN m - 1 + 1 ELSE 0
        /\ \A i \in 1 .. m - 1 + 1 : SubSeq(s, 1, m)[i] = s[1 + i - 1]
    BY <2>1, SubSeqProperties
  <2>4. Len(SubSeq(s, 1, m)) = m  BY <2>1, <2>3
  <2>5. \A i \in 1 .. m : i \in 1 .. m - 1 + 1 /\ 1 + i - 1 = i  BY <2>1
  <2>6. \A i \in 1 .. m : SubSeq(s, 1, m)[i] = s[i]  BY <2>3, <2>5
  <2> QED  BY <2>2, <2>3, <2>4, <2>6 DEF m
<1>3. s = Append(Popped(s), Top(s))
  <2>1. Append(Popped(s), Top(s)) \in Seq(S) /\ Len(Append(Popped(s), Top(s))) = Len(s)
    BY <1>1, <1>2, AppendProperties
  <2>2. \A i \in 1 .. Len(s) : s[i] = Append(Popped(s), Top(s))[i]
    BY <1>1, <1>2, AppendProperties DEF Top
  <2> QED  BY <2>1, <2>2, SeqEqual
<1> QED  BY <1>1, <1>2, <1>3

\* Closing an object takes one off the open objects, an array none.
LEMMA ObjectsClosed ==
  ASSUME NEW s \in Seq(Contexts), s # <<>>
  PROVE  /\ Top(s) = "Object" =>
              Cardinality(OpenObjects(s)) = Cardinality(OpenObjects(Popped(s))) + 1
         /\ Top(s) = "Array" =>
              Cardinality(OpenObjects(s)) = Cardinality(OpenObjects(Popped(s)))
<1>1. Popped(s) \in Seq(Contexts) /\ s = Append(Popped(s), Top(s))  BY PoppedAndTop
<1>2. ASSUME Top(s) = "Object"
      PROVE  Cardinality(OpenObjects(s)) = Cardinality(OpenObjects(Popped(s))) + 1
  <2>1. s = Append(Popped(s), "Object")  BY <1>1, <1>2
  <2> QED  BY <1>1, <2>1, ObjectsOpened
<1>3. ASSUME Top(s) = "Array"
      PROVE  Cardinality(OpenObjects(s)) = Cardinality(OpenObjects(Popped(s)))
  <2>1. s = Append(Popped(s), "Array")  BY <1>1, <1>3
  <2> QED  BY <1>1, <2>1, ObjectsOpened
<1> QED  BY <1>2, <1>3

-----------------------------------------------------------------------------
(* What a step does to the stacks                                          *)

\* Stacks that are the same agree alike.
LEMMA SameAgree ==
  ASSUME NEW t, NEW u, Agree(t), SameStacks(t, u)  PROVE Agree(u)
BY DEF Agree, SameStacks

\* Entering a nest pushes a pair that matches.
LEMMA EnteredAgree ==
  ASSUME NEW t \in Tokenizers, Agree(t)
  PROVE  Agree(ObjectEntered(t)) /\ Agree(ArrayEntered(t))
<1>1. t.context_stack \in Seq(Contexts) /\ t.depth_stack \in Seq(NestTokens)
      /\ t.duplicate_key_stack \in Seq(SUBSET Bytes)
  BY TokenizerFields
<1>2. /\ ObjectEntered(t).context_stack = Append(t.context_stack, "Object")
      /\ ObjectEntered(t).depth_stack = Append(t.depth_stack, "StartObject")
      /\ ObjectEntered(t).duplicate_key_stack =
           IF t.reject_duplicate_keys THEN Append(t.duplicate_key_stack, {})
           ELSE t.duplicate_key_stack
      /\ ObjectEntered(t).reject_duplicate_keys = t.reject_duplicate_keys
  BY Zenon DEF ObjectEntered, Tokenizers
<1>3. /\ ArrayEntered(t).context_stack = Append(t.context_stack, "Array")
      /\ ArrayEntered(t).depth_stack = Append(t.depth_stack, "StartArray")
      /\ ArrayEntered(t).duplicate_key_stack = t.duplicate_key_stack
      /\ ArrayEntered(t).reject_duplicate_keys = t.reject_duplicate_keys
  BY Zenon DEF ArrayEntered, Tokenizers
<1>4. Matches("StartObject", "Object") /\ Matches("StartArray", "Array")  BY DEF Matches
<1>5. ASSUME NEW context \in Contexts, NEW nest \in NestTokens, Matches(nest, context)
      PROVE  /\ Len(Append(t.depth_stack, nest)) = Len(Append(t.context_stack, context))
             /\ \A i \in DOMAIN Append(t.depth_stack, nest) :
                  Matches(Append(t.depth_stack, nest)[i], Append(t.context_stack, context)[i])
  <2> DEFINE n == Len(t.depth_stack)
  <2>1. n \in Nat /\ Len(t.context_stack) = n  BY <1>1, LenProperties DEF Agree
  <2>2. DOMAIN Append(t.depth_stack, nest) = 1 .. n + 1
        /\ Append(t.depth_stack, nest)[n + 1] = nest
        /\ Append(t.context_stack, context)[n + 1] = context
    BY <1>1, <2>1
  <2>3. \A i \in 1 .. n : /\ Append(t.depth_stack, nest)[i] = t.depth_stack[i]
                         /\ Append(t.context_stack, context)[i] = t.context_stack[i]
    BY <1>1, <2>1
  <2>4. \A i \in 1 .. n : Matches(t.depth_stack[i], t.context_stack[i])  BY <1>1 DEF Agree
  <2>5. Len(Append(t.depth_stack, nest)) = Len(Append(t.context_stack, context))
    BY <1>1, <2>1
  <2> QED  BY <1>5, <2>1, <2>2, <2>3, <2>4, <2>5
<1>6. "Object" \in Contexts /\ "Array" \in Contexts
      /\ "StartObject" \in NestTokens /\ "StartArray" \in NestTokens
  BY DEF Contexts, NestTokens
<1>7. Len(ObjectEntered(t).duplicate_key_stack) =
        IF t.reject_duplicate_keys THEN Cardinality(OpenObjects(Append(t.context_stack, "Object")))
        ELSE 0
  <2>1. Len(Append(t.duplicate_key_stack, {})) = Len(t.duplicate_key_stack) + 1  BY <1>1
  <2> QED  BY <1>1, <1>2, <2>1, ObjectsOpened DEF Agree
<1>8. Agree(ObjectEntered(t))  BY <1>2, <1>4, <1>5, <1>6, <1>7 DEF Agree
<1>9. Agree(ArrayEntered(t))  BY <1>1, <1>3, <1>4, <1>5, <1>6, ObjectsOpened DEF Agree
<1> QED  BY <1>8, <1>9

\* Leaving the innermost nest pops what entering it pushed.
LEMMA LeftAgree ==
  ASSUME NEW t \in Tokenizers, Agree(t), t.context_stack # <<>>
  PROVE  /\ Top(t.context_stack) = "Object" => Agree(ObjectLeft(t))
         /\ Top(t.context_stack) = "Array" => Agree(ArrayLeft(t))
<1> DEFINE n == Len(t.context_stack)
<1>1. t.context_stack \in Seq(Contexts) /\ t.depth_stack \in Seq(NestTokens)
      /\ t.duplicate_key_stack \in Seq(SUBSET Bytes)
  BY TokenizerFields
<1>2. n \in Nat \ {0} /\ Len(t.depth_stack) = n /\ t.depth_stack # <<>>
  BY <1>1, PoppedAndTop DEF Agree
<1>3. /\ ObjectLeft(t).context_stack = Popped(t.context_stack)
      /\ ObjectLeft(t).depth_stack = Popped(t.depth_stack)
      /\ ObjectLeft(t).duplicate_key_stack =
           IF t.reject_duplicate_keys /\ t.duplicate_key_stack # <<>>
             THEN Popped(t.duplicate_key_stack) ELSE t.duplicate_key_stack
      /\ ObjectLeft(t).reject_duplicate_keys = t.reject_duplicate_keys
  BY Zenon DEF ObjectLeft, Tokenizers
<1>4. /\ ArrayLeft(t).context_stack = Popped(t.context_stack)
      /\ ArrayLeft(t).depth_stack = Popped(t.depth_stack)
      /\ ArrayLeft(t).duplicate_key_stack = t.duplicate_key_stack
      /\ ArrayLeft(t).reject_duplicate_keys = t.reject_duplicate_keys
  BY Zenon DEF ArrayLeft, Tokenizers
<1>5. /\ Len(Popped(t.depth_stack)) = n - 1 /\ Len(Popped(t.context_stack)) = n - 1
      /\ Popped(t.depth_stack) \in Seq(NestTokens) /\ DOMAIN Popped(t.depth_stack) = 1 .. n - 1
      /\ \A i \in 1 .. n - 1 : Popped(t.depth_stack)[i] = t.depth_stack[i]
      /\ \A i \in 1 .. n - 1 : Popped(t.context_stack)[i] = t.context_stack[i]
  <2>1. /\ Len(Popped(t.depth_stack)) = Len(t.depth_stack) - 1
        /\ Popped(t.depth_stack) \in Seq(NestTokens)
        /\ \A i \in 1 .. Len(t.depth_stack) - 1 : Popped(t.depth_stack)[i] = t.depth_stack[i]
    BY <1>1, <1>2, PoppedAndTop
  <2>2. /\ Len(Popped(t.context_stack)) = n - 1
        /\ \A i \in 1 .. n - 1 : Popped(t.context_stack)[i] = t.context_stack[i]
    BY <1>1, PoppedAndTop
  <2>3. DOMAIN Popped(t.depth_stack) = 1 .. Len(Popped(t.depth_stack))  BY <2>1, LenProperties
  <2> QED  BY <1>2, <2>1, <2>2, <2>3
<1>6. \A i \in 1 .. n : Matches(t.depth_stack[i], t.context_stack[i])
  BY <1>1, <1>2, LenProperties DEF Agree
<1>7. \A i \in DOMAIN Popped(t.depth_stack) :
        Matches(Popped(t.depth_stack)[i], Popped(t.context_stack)[i])
  BY <1>2, <1>5, <1>6
<1>8. ASSUME Top(t.context_stack) = "Object"  PROVE Agree(ObjectLeft(t))
  <2> DEFINE m == Cardinality(OpenObjects(Popped(t.context_stack)))
  <2>1. Cardinality(OpenObjects(t.context_stack)) = m + 1 /\ m \in Nat
    BY <1>1, <1>8, ObjectsClosed, ObjectsOpened, PoppedAndTop
  <2>2. Len(ObjectLeft(t).duplicate_key_stack) = IF t.reject_duplicate_keys THEN m ELSE 0
    <3>1. CASE t.reject_duplicate_keys
      <4>1. Len(t.duplicate_key_stack) = m + 1  BY <2>1, <3>1 DEF Agree
      <4>2. t.duplicate_key_stack # <<>>  BY <2>1, <4>1
      <4>3. Len(Popped(t.duplicate_key_stack)) = Len(t.duplicate_key_stack) - 1
        BY <1>1, <4>2, PoppedAndTop
      <4> HIDE DEF m
      <4>4. Len(Popped(t.duplicate_key_stack)) = m  BY <2>1, <4>1, <4>3
      <4> QED  BY <1>3, <3>1, <4>2, <4>4
    <3>2. CASE ~t.reject_duplicate_keys  BY <1>3, <3>2 DEF Agree
    <3> QED  BY <3>1, <3>2
  <2> QED  BY <1>3, <1>5, <1>7, <2>2 DEF Agree
<1>9. ASSUME Top(t.context_stack) = "Array"  PROVE Agree(ArrayLeft(t))
  <2>1. Cardinality(OpenObjects(t.context_stack)) = Cardinality(OpenObjects(Popped(t.context_stack)))
    BY <1>1, <1>9, ObjectsClosed
  <2> QED  BY <1>4, <1>5, <1>7, <2>1 DEF Agree
<1> QED  BY <1>8, <1>9

\* Forgetting a CR, counting a token and finishing one leave the stacks alone.
LEMMA DoneAgrees ==
  ASSUME NEW t \in Tokenizers, Agree(t)
  PROVE  /\ Agree(Counted(t)) /\ Agree([t EXCEPT !.after_cr = FALSE])
         /\ \A n \in Nat, state \in States, afterComma \in BOOLEAN :
              TokenDone(t, n, state, afterComma) => Agree(tok')
<1>1. SameStacks(t, Counted(t)) /\ Counted(t) \in Tokenizers
  <2> DEFINE count == IF limits.max_token_count = NoLimit THEN t.token_count ELSE t.token_count + 1
  <2>1. Counted(t) = [t EXCEPT !.seen_any_token = TRUE, !.token_count = count]  BY DEF Counted
  <2> HIDE DEF count
  <2>2. SameStacks(t, Counted(t))  BY <2>1, Zenon DEF SameStacks, Tokenizers
  <2> QED  BY <2>2, CountedType
<1>2. SameStacks(t, [t EXCEPT !.after_cr = FALSE])  BY Zenon DEF SameStacks, Tokenizers
<1>3. Agree(Counted(t)) /\ Agree([t EXCEPT !.after_cr = FALSE])  BY <1>1, <1>2, SameAgree
<1>4. ASSUME NEW n \in Nat, NEW state \in States, NEW afterComma \in BOOLEAN,
             TokenDone(t, n, state, afterComma)
      PROVE  Agree(tok')
  <2>1. SameStacks(Counted(t), [Counted(t) EXCEPT !.state = state, !.after_comma = afterComma])
    BY <1>1, Zenon DEF SameStacks, Tokenizers
  <2>2. Agree([Counted(t) EXCEPT !.state = state, !.after_comma = afterComma])
    BY <1>3, <2>1, SameAgree
  <2> QED  BY <1>3, <1>4, <2>2 DEF TokenDone
<1> QED  BY <1>3, <1>4

-----------------------------------------------------------------------------
(* The steps                                                               *)

\* A bracket leaves stacks that agree, if the nest entered or left does.
LEMMA BracketAgrees ==
  ASSUME TypeOK, Agree(tok), NEW b, NEW ev, NEW t \in Tokenizers, Agree(t), NEW state \in States,
         Bracket(b, ev, t, state)
  PROVE  Agree(tok')
<1>1. Agree(Here)  BY TypeFacts, DoneAgrees DEF Here
<1>2. CASE HandlerFails(ev, Here, 1)  BY <1>1, <1>2 DEF HandlerFails
<1>3. CASE TokenDone(t, 1, state, FALSE)  BY <1>3, DoneAgrees
<1> QED  BY <1>2, <1>3 DEF Bracket

\* Tokens of one byte leave stacks that agree.
LEMMA StructureAgrees ==
  ASSUME TypeOK, Agree(tok), StructureStep  PROVE Agree(tok')
<1>1. Here \in Tokenizers /\ Agree(Here)  BY TypeFacts, HereType, DoneAgrees DEF Here
<1>2. Here.context_stack = tok.context_stack  BY TypeFacts, Zenon DEF Here, Tokenizers
<1>3. {"ExpectKey", "ExpectValue", "AfterValue"} \subseteq States  BY DEF States
<1>4. ASSUME NEW n \in Nat, NEW state \in States, NEW afterComma \in BOOLEAN,
             TokenDone(Here, n, state, afterComma)
      PROVE  Agree(tok')
  BY <1>1, <1>4, DoneAgrees
<1>5. CASE Refuse  BY <1>1, <1>5 DEF Refuse
<1>6. CASE OpenTooDeep  BY <1>1, <1>6 DEF OpenTooDeep
<1>7. CASE Comma
  <2>1. (IF Inside("Object") THEN "ExpectKey" ELSE "ExpectValue") \in States  BY <1>3
  <2> QED  BY <1>4, <1>7, <2>1 DEF Comma
<1>8. CASE Colon  BY <1>3, <1>4, <1>8 DEF Colon
<1>9. CASE StartObject
  <2>1. ObjectEntered(Here) \in Tokenizers /\ Agree(ObjectEntered(Here))
    BY <1>1, NestType, EnteredAgree
  <2> QED  BY <1>3, <1>9, <2>1, BracketAgrees DEF StartObject
<1>10. CASE StartArray
  <2>1. ArrayEntered(Here) \in Tokenizers /\ Agree(ArrayEntered(Here))
    BY <1>1, NestType, EnteredAgree
  <2> QED  BY <1>3, <1>10, <2>1, BracketAgrees DEF StartArray
<1>11. CASE EndObject
  <2>1. Allowed("}")  BY <1>11 DEF EndObject, Bracket
  <2>2. Inside("Object")  BY <2>1, BytesAssumption DEF Allowed, MayClose, Quote, Digits
  <2>3. Here.context_stack # <<>> /\ Top(Here.context_stack) = "Object"
    BY <1>2, <2>2 DEF Inside
  <2>4. ObjectLeft(Here) \in Tokenizers /\ Agree(ObjectLeft(Here))
    BY <1>1, <2>3, NestType, LeftAgree
  <2> QED  BY <1>3, <1>11, <2>4, BracketAgrees DEF EndObject
<1>12. CASE EndArray
  <2>1. Allowed("]")  BY <1>12 DEF EndArray, Bracket
  <2>2. Inside("Array")  BY <2>1, BytesAssumption DEF Allowed, MayClose, Quote, Digits
  <2>3. Here.context_stack # <<>> /\ Top(Here.context_stack) = "Array"
    BY <1>2, <2>2 DEF Inside
  <2>4. ArrayLeft(Here) \in Tokenizers /\ Agree(ArrayLeft(Here))
    BY <1>1, <2>3, NestType, LeftAgree
  <2> QED  BY <1>3, <1>12, <2>4, BracketAgrees DEF EndArray
<1> QED
  BY <1>5, <1>6, <1>7, <1>8, <1>9, <1>10, <1>11, <1>12 DEF StructureStep

\* Literals, numbers and whitespace leave the stacks alone.
LEMMA ScalarAgrees ==
  ASSUME TypeOK, Agree(tok), LiteralStep \/ NumberStep \/ WhitespaceStep
  PROVE  Agree(tok')
<1>1. tok \in Tokenizers /\ Here \in Tokenizers /\ Agree(Here)
  BY TypeFacts, HereType, DoneAgrees DEF Here
<1>2. CASE LiteralStep
  <2> PICK b \in DOMAIN Literals : Literal(b) \/ LiteralIncomplete(b) \/ LiteralWrong(b)
    BY <1>2 DEF LiteralStep
  <2> DEFINE after == [Counted(Here) EXCEPT !.after_comma = FALSE, !.state = "AfterValue"]
  <2>1. Counted(Here) \in Tokenizers /\ Agree(Counted(Here))  BY <1>1, CountedType, DoneAgrees
  <2>2. SameStacks(Counted(Here), after)  BY <2>1, Zenon DEF SameStacks, Tokenizers
  <2>3. Agree(after)  BY <2>1, <2>2, SameAgree
  <2>4. tok' \in {Here, Counted(Here), after}
    BY DEF Literal, LiteralIncomplete, LiteralWrong, HandlerFails
  <2> QED  BY <1>1, <2>1, <2>3, <2>4
<1>3. ASSUME NEW n, NEW stage, TakeNumber(n, stage)  PROVE Agree(tok')
  <2>1. SameStacks(tok, tok')  BY <1>1, <1>3, Zenon DEF SameStacks, TakeNumber, Tokenizers
  <2> QED  BY <2>1, SameAgree
<1>4. CASE NumberStep
  <2>1. CASE \E b \in Digits \cup {"-"} : NumberStart(b)
    <3> PICK b \in Digits \cup {"-"} : NumberStart(b)  BY <2>1
    <3> DEFINE t == [Here EXCEPT !.stage = FirstStage(b), !.number = <<b>>, !.length = 1]
    <3>1. SameStacks(Here, t)  BY <1>1, Zenon DEF SameStacks, Tokenizers
    <3>2. FirstStage(b) \in NumStages /\ <<b>> \in Bytes /\ 1 \in Nat
      <4>1. b \in Symbols  BY DEF Digits, Symbols
      <4> QED  BY <4>1 DEF FirstStage, NumStages, Bytes
    <3>3. t \in Tokenizers  BY <1>1, <3>2, Zenon DEF Tokenizers
    <3>4. Agree(t)  BY <1>1, <3>1, SameAgree
    <3>5. TokenDone(t, 1, tok.state, FALSE) /\ tok.state \in States
      BY <1>1, TokenizerFields DEF NumberStart
    <3> QED  BY <3>3, <3>4, <3>5, DoneAgrees
  <2>2. CASE NumberRun  BY <1>3, <2>2 DEF NumberRun
  <2>3. CASE NumberByte  BY <1>3, <2>3 DEF NumberByte
  <2>4. CASE NumberEnd
    <3>1. tok' = [tok EXCEPT !.stage = "None", !.state = "AfterValue"]
      BY <2>4 DEF NumberEnd, EmitNumber, HandlerFails
    <3>2. SameStacks(tok, tok')  BY <1>1, <3>1, Zenon DEF SameStacks, Tokenizers
    <3> QED  BY <3>2, SameAgree
  <2>5. CASE NumberWrong  BY <2>5 DEF NumberWrong
  <2> QED  BY <1>4, <2>1, <2>2, <2>3, <2>4, <2>5 DEF NumberStep
<1>5. CASE WhitespaceStep
  <2>1. CASE Whitespace
    <3>1. PICK cr : tok' = [tok EXCEPT !.after_cr = cr]  BY <2>1 DEF Whitespace
    <3>2. SameStacks(tok, tok')  BY <1>1, <3>1, Zenon DEF SameStacks, Tokenizers
    <3> QED  BY <3>2, SameAgree
  <2>2. CASE ReportWhitespace  BY <2>2 DEF ReportWhitespace, HandlerFails
  <2> QED  BY <1>5, <2>1, <2>2 DEF WhitespaceStep
<1> QED  BY <1>2, <1>4, <1>5

\* Strings leave the stacks alone.
LEMMA StringAgrees ==
  ASSUME TypeOK, Agree(tok), DecodeStep \/ StringStep
  PROVE  Agree(tok')
<1>1. tok \in Tokenizers /\ Here \in Tokenizers /\ Agree(Here)
  BY TypeFacts, HereType, DoneAgrees DEF Here
<1>2. ASSUME SameStacks(tok, tok')  PROVE Agree(tok')  BY <1>2, SameAgree
<1>3. SameStacks(tok, [tok EXCEPT !.chars = <<>>]) /\ SameStacks(tok, tok)
  BY <1>1, Zenon DEF SameStacks, Tokenizers
<1>4. \A text : SameStacks(tok, Pushed(tok, text))
  BY <1>1, Zenon DEF SameStacks, Pushed, Tokenizers
<1>5. SameStacks(tok, EnsureChars(tok))
  BY <1>1, Zenon DEF SameStacks, EnsureChars, Tokenizers
<1>6. CASE DecodeStep
  <2>1. CASE DecodeSlice  BY <1>2, <1>4, <2>1 DEF DecodeSlice
  <2>2. CASE PushChar  BY <1>2, <1>4, <2>2 DEF PushChar
  <2>3. CASE MalformedChar  BY <1>2, <1>3, <2>3 DEF MalformedChar
  <2>4. CASE FlushChars  BY <1>2, <1>3, <2>4 DEF FlushChars, HandlerFails
  <2> QED  BY <1>6, <2>1, <2>2, <2>3, <2>4 DEF DecodeStep
<1>7. CASE StringStart
  <2> DEFINE empty == [EnsureChars(Here) EXCEPT !.chars = <<>>]
             t == [empty EXCEPT !.in_string = TRUE, !.string_bytes = 0]
  <2>1. empty \in Tokenizers  BY <1>1, BufferType, TypeFacts
  <2>2. SameStacks(Here, EnsureChars(Here)) /\ EnsureChars(Here) \in Tokenizers
    <3>1. EnsureChars(Here) \in Tokenizers  BY <1>1, BufferType, TypeFacts
    <3> QED  BY <1>1, <3>1, Zenon DEF SameStacks, EnsureChars, Tokenizers
  <2>3. SameStacks(EnsureChars(Here), empty)  BY <2>2, Zenon DEF SameStacks, Tokenizers
  <2>4. Agree(empty)  BY <1>1, <2>2, <2>3, SameAgree
  <2>5. HandlerFails("start_string_value", empty, 1) \/ TokenDone(t, 1, tok.state, FALSE)
    BY <1>7 DEF StringStart
  <2> HIDE DEF empty
  <2>6. SameStacks(empty, t)  BY <2>1, Zenon DEF SameStacks, Tokenizers
  <2>7. t \in Tokenizers  BY <2>1, TypeFacts, Zenon DEF Tokenizers
  <2>8. Agree(t) /\ tok.state \in States  BY <1>1, <2>4, <2>6, SameAgree, TokenizerFields
  <2> HIDE DEF t
  <2> QED  BY <2>4, <2>5, <2>7, <2>8, DoneAgrees DEF HandlerFails
<1>8. CASE StringRunDone
  <2>1. PICK n : tok' = [tok EXCEPT !.string_bytes = n]  BY <1>8 DEF StringRunDone
  <2> QED  BY <1>1, <1>2, <2>1, Zenon DEF SameStacks, Tokenizers
<1>9. CASE StringEnd
  <2>1. tok' = [tok EXCEPT !.in_string = FALSE, !.state = "AfterValue"]
    BY <1>9 DEF StringEnd, HandlerFails
  <2> QED  BY <1>1, <1>2, <2>1, Zenon DEF SameStacks, Tokenizers
<1>10. CASE StringEscape
  <2>1. tok' = [Pushed(tok, Escaped) EXCEPT !.string_bytes = @ + EscapeLength(ring, call.consumed)]
    BY <1>10 DEF StringEscape
  <2> QED  BY <1>1, <1>2, <2>1, Zenon DEF SameStacks, Pushed, Tokenizers
<1>11. CASE ContinueString  BY <1>2, <1>5, <1>11 DEF ContinueString
<1>12. CASE StringRun \/ StringPause \/ StringPaused \/ StringWrong
  BY <1>2, <1>3, <1>12 DEF StringRun, StringPause, StringPaused, StringWrong
<1> QED
  BY <1>6, <1>7, <1>8, <1>9, <1>10, <1>11, <1>12 DEF StringStep

\* Keys change what the duplicate sets hold, and not how many there are.
LEMMA KeyAgrees ==
  ASSUME TypeOK, Agree(tok), KeyStep  PROVE Agree(tok')
<1>1. tok \in Tokenizers /\ Here \in Tokenizers /\ Agree(Here)
  BY TypeFacts, HereType, DoneAgrees DEF Here
<1>2. ASSUME NEW t \in Tokenizers, NEW text
      PROVE  SameStacks(t, Disabled(t)) /\ SameStacks(t, Seen(t, text))
  <2>1. SameStacks(t, Disabled(t))  BY Zenon DEF SameStacks, Disabled, Tokenizers
  <2>2. t.duplicate_key_stack # <<>> =>
          Len(Append(Popped(t.duplicate_key_stack), Top(t.duplicate_key_stack) \cup {text}))
            = Len(t.duplicate_key_stack)
    <3> HAVE t.duplicate_key_stack # <<>>
    <3>1. t.duplicate_key_stack \in Seq(SUBSET Bytes)  BY TokenizerFields
    <3>2. Popped(t.duplicate_key_stack) \in Seq(SUBSET Bytes)
          /\ Len(Popped(t.duplicate_key_stack)) = Len(t.duplicate_key_stack) - 1
      BY <3>1, PoppedAndTop
    <3>3. Len(t.duplicate_key_stack) \in Nat  BY <3>1, LenProperties
    <3>4. Len(Append(Popped(t.duplicate_key_stack), Top(t.duplicate_key_stack) \cup {text}))
            = Len(Popped(t.duplicate_key_stack)) + 1
      BY <3>2
    <3> QED  BY <3>2, <3>3, <3>4
  <2>3. SameStacks(t, Seen(t, text))  BY <2>2, Zenon DEF SameStacks, Seen, Tokenizers
  <2> QED  BY <2>1, <2>3
<1>3. CASE KeyIncomplete \/ KeyRefused
  BY <1>1, <1>3 DEF KeyIncomplete, KeyRefused
<1>4. CASE KeyFound
  <2> DEFINE empty == [EnsureChars(Here) EXCEPT !.chars = <<>>]
  <2>1. EnsureChars(Here) \in Tokenizers /\ empty \in Tokenizers  BY <1>1, BufferType, TypeFacts
  <2>2. SameStacks(Here, EnsureChars(Here))
    BY <1>1, <2>1, Zenon DEF SameStacks, EnsureChars, Tokenizers
  <2>3. SameStacks(EnsureChars(Here), empty)  BY <2>1, Zenon DEF SameStacks, Tokenizers
  <2>4. PICK attempts, hits : tok' = [empty EXCEPT !.attempts = attempts, !.hits = hits]
    BY <1>4 DEF KeyFound
  <2>5. SameStacks(empty, tok')  BY <2>1, <2>4, Zenon DEF SameStacks, Tokenizers
  <2> QED  BY <1>1, <2>2, <2>3, <2>5, SameAgree
<1>5. CASE KeyEscape
  <2>1. PICK text : tok' = Pushed(tok, text)  BY <1>5 DEF KeyEscape
  <2>2. SameStacks(tok, tok')  BY <1>1, <2>1, Zenon DEF SameStacks, Pushed, Tokenizers
  <2> QED  BY <2>2, SameAgree
<1>6. CASE KeyRun \/ KeyRunDone \/ KeyEscapeWrong \/ KeyDoesNotFit
  BY <1>6 DEF KeyRun, KeyRunDone, KeyEscapeWrong, KeyDoesNotFit, Agree
<1>7. CASE KeyDone
  <2> DEFINE t == Disabled(Seen(tok, KeyText))
  <2>1. KeyText \in Bytes /\ Put(KeyText) \in SUBSET Bytes  BY <1>7, KeyTextType DEF KeyDone
  <2>2. Seen(tok, KeyText) \in Tokenizers /\ t \in Tokenizers  BY <1>1, <2>1, SeenType
  <2>3. Agree(t)  BY <1>1, <1>2, <2>2, SameAgree
  <2>4. Agree(Disabled(tok))  BY <1>1, <1>2, SameAgree
  <2>5. "ExpectColon" \in States  BY DEF States
  <2>6. call.end + 1 - call.consumed \in Nat
    BY <1>7, KeyInRing, TypeFacts DEF KeyDone
  <2>7. \/ tok' = Disabled(tok)
        \/ tok' = t
        \/ TokenDone(t, call.end + 1 - call.consumed, "ExpectColon", FALSE)
    BY <1>7 DEF KeyDone, HandlerFails
  <2> HIDE DEF t
  <2> QED  BY <2>2, <2>3, <2>4, <2>5, <2>6, <2>7, DoneAgrees
<1> QED  BY <1>3, <1>4, <1>5, <1>6, <1>7 DEF KeyStep

\* A new tokenizer has no stacks to speak of.
LEMMA NewAgrees ==
  ASSUME NEW reject, NEW chunk  PROVE Agree(NewTokenizer(reject, chunk))
<1>1. OpenObjects(<<>>) = {}  BY DEF OpenObjects
<1> QED  BY <1>1, FS_EmptySet DEF Agree, NewTokenizer

\* Every step of the parser and its caller keeps the stacks in step.
LEMMA NextAgrees ==
  ASSUME TypeOK, Agree(tok), [Next]_vars  PROVE Agree(tok')
<1>1. CASE TokenizerStep
  <2>1. CASE LoopEnd  BY <2>1 DEF LoopEnd
  <2>2. CASE StructureStep \/ LiteralStep \/ NumberStep \/ WhitespaceStep \/ DecodeStep
             \/ StringStep \/ KeyStep
    BY <2>2, StructureAgrees, ScalarAgrees, StringAgrees, KeyAgrees
  <2> QED  BY <1>1, <2>1, <2>2 DEF TokenizerStep
<1>2. CASE FeedReturns \/ CloseUnfinished \/ CloseReturns \/ Write \/ ReceiveNothing
           \/ CloseEmpty \/ CloseAgain \/ SetLimits \/ SetRejectDuplicateKeys
  BY <1>2 DEF FeedReturns, CloseUnfinished, CloseReturns, Write, ReceiveNothing, CloseEmpty,
     CloseAgain, SetLimits, SetRejectDuplicateKeys
<1>3. CASE CloseAfterNumber
  <2>1. tok' = [tok EXCEPT !.stage = "None", !.state = "AfterValue"]
    BY <1>3 DEF CloseAfterNumber
  <2>2. SameStacks(tok, tok')  BY <2>1, TypeFacts, Zenon DEF SameStacks, Tokenizers
  <2> QED  BY <2>2, SameAgree
<1>4. CASE SetStringChunkSize
  <2>1. PICK n : tok' = IF parser.live THEN [tok EXCEPT !.chunk_size = n] ELSE tok
    BY <1>4 DEF SetStringChunkSize
  <2>2. SameStacks(tok, tok')  BY <2>1, TypeFacts, Zenon DEF SameStacks, Tokenizers
  <2> QED  BY <2>2, SameAgree
<1>5. CASE Receive \/ Close \/ Reset
  <2>1. tok' = tok \/ \E reject, chunk : tok' = NewTokenizer(reject, chunk)
    BY <1>5 DEF Receive, Close, Reset, Feed
  <2> QED  BY <2>1, NewAgrees
<1>6. CASE UNCHANGED vars  BY <1>6 DEF vars
<1> QED
  BY <1>1, <1>2, <1>3, <1>4, <1>5, <1>6 DEF Next, CallStep, CallerStep

-----------------------------------------------------------------------------
\* Whatever the constants are, context_stack, depth_stack and, when duplicate
\* keys are rejected, duplicate_key_stack stay in step: process_token and
\* report_key pop and look at the top of one because another is not empty.
THEOREM StacksAlwaysAgree == Spec => []StacksAgree
<1>1. StacksAgree <=> Agree(tok)  BY DEF StacksAgree, Agree
<1>2. StacksAgree' <=> Agree(tok')  BY DEF StacksAgree, Agree
<1>3. Init => StacksAgree  BY <1>1, NewAgrees DEF Init
<1>4. TypeOK /\ StacksAgree /\ [Next]_vars => StacksAgree'  BY <1>1, <1>2, NextAgrees
<1> QED  BY <1>3, <1>4, TypeCorrect, PTL DEF Spec
-----------------------------------------------------------------------------
(* What the steps of the tokenizer do to its place in the grammar          *)

\* The tokenizers t and u are at the same place in the grammar.
SamePlace(t, u) ==
  /\ u.state = t.state /\ u.stage = t.stage /\ u.in_string = t.in_string
  /\ u.context_stack = t.context_stack /\ u.depth_stack = t.depth_stack

\* SamePlace is transitive.
LEMMA SamePlaceTransitive ==
  ASSUME NEW t, NEW u, NEW v, SamePlace(t, u), SamePlace(u, v)  PROVE SamePlace(t, v)
BY DEF SamePlace

\* What is done to buffers, counters and remembered keys is not about the place.
LEMMA PlaceKept ==
  ASSUME NEW t \in Tokenizers
  PROVE  /\ SamePlace(t, t) /\ SamePlace(t, Counted(t)) /\ SamePlace(t, EnsureChars(t))
         /\ SamePlace(t, Disabled(t))
         /\ \A x : /\ SamePlace(t, [t EXCEPT !.after_cr = x]) /\ SamePlace(t, [t EXCEPT !.chars = x])
                   /\ SamePlace(t, Pushed(t, x)) /\ SamePlace(t, Seen(t, x))
                   /\ SamePlace(t, [t EXCEPT !.string_bytes = x])
         /\ \A x, y : SamePlace(t, [t EXCEPT !.attempts = x, !.hits = y])
<1>1. SamePlace(t, t) /\ SamePlace(t, Disabled(t))  BY Zenon DEF SamePlace, Disabled, Tokenizers
<1>2. SamePlace(t, Counted(t))
  <2> DEFINE count == IF limits.max_token_count = NoLimit THEN t.token_count ELSE t.token_count + 1
  <2>1. Counted(t) = [t EXCEPT !.seen_any_token = TRUE, !.token_count = count]  BY DEF Counted
  <2> HIDE DEF count
  <2> QED  BY <2>1, Zenon DEF SamePlace, Tokenizers
<1>3. SamePlace(t, EnsureChars(t))  BY <1>1, Zenon DEF SamePlace, EnsureChars, Tokenizers
<1>4. ASSUME NEW x
      PROVE  /\ SamePlace(t, [t EXCEPT !.after_cr = x]) /\ SamePlace(t, [t EXCEPT !.chars = x])
             /\ SamePlace(t, Pushed(t, x)) /\ SamePlace(t, [t EXCEPT !.string_bytes = x])
  BY Zenon DEF SamePlace, Pushed, Tokenizers
<1>5. ASSUME NEW x  PROVE SamePlace(t, Seen(t, x))
  BY <1>1, Zenon DEF SamePlace, Seen, Tokenizers
<1>6. ASSUME NEW x, NEW y  PROVE SamePlace(t, [t EXCEPT !.attempts = x, !.hits = y])
  BY Zenon DEF SamePlace, Tokenizers
<1> QED  BY <1>1, <1>2, <1>3, <1>4, <1>5, <1>6

\* The tokenizer is where t is, but expects something else.
Expects(t, state) ==
  /\ tok'.state = state /\ tok'.stage = t.stage /\ tok'.in_string = t.in_string
  /\ tok'.context_stack = t.context_stack /\ tok'.depth_stack = t.depth_stack

\* A token is complete, or one too many.
LEMMA DonePlace ==
  ASSUME call \in Calls, NEW t \in Tokenizers, NEW n, NEW state \in States, NEW afterComma \in BOOLEAN,
         TokenDone(t, n, state, afterComma)
  PROVE  /\ call'.key = "none"
         /\ \/ Expects(t, state) /\ call'.pc = "loop" /\ call'.error = call.error
            \/ SamePlace(t, tok') /\ call'.pc = "fed" /\ call'.error = "limit"
<1> DEFINE done == [Counted(t) EXCEPT !.state = state, !.after_comma = afterComma]
<1>1. Counted(t) \in Tokenizers /\ SamePlace(t, Counted(t))  BY CountedType, PlaceKept
<1>2. /\ done.state = state /\ done.stage = Counted(t).stage /\ done.in_string = Counted(t).in_string
      /\ done.context_stack = Counted(t).context_stack /\ done.depth_stack = Counted(t).depth_stack
  BY <1>1, Zenon DEF Tokenizers
<1>3. /\ Advanced(n).key = "none" /\ Advanced(n).pc = "loop" /\ Advanced(n).error = call.error
      /\ Failed(n, "limit").key = "none" /\ Failed(n, "limit").pc = "fed" /\ Failed(n, "limit").error = "limit"
  BY Zenon DEF Advanced, Failed, Calls
<1> QED  BY <1>1, <1>2, <1>3 DEF TokenDone, Expects, SamePlace

\* A handler that refuses.
LEMMA RefusedPlace ==
  ASSUME call \in Calls, NEW t, NEW ev, NEW n, HandlerFails(ev, t, n)
  PROVE  tok' = t /\ call'.key = "none" /\ call'.pc = "fed" /\ call'.error = "handler" /\ ev \in Refusable
BY Zenon DEF HandlerFails, Failed, Calls

\* Steps that only look, fail, read on or wait.
QuietStep ==
  \/ Refuse \/ OpenTooDeep \/ NumberWrong \/ WhitespaceStep \/ LoopEnd
  \/ \E b \in DOMAIN Literals : LiteralIncomplete(b) \/ LiteralWrong(b)
  \/ DecodeStep
  \/ ContinueString \/ StringRun \/ StringRunDone \/ StringPause \/ StringPaused \/ StringEscape \/ StringWrong
  \/ KeyIncomplete \/ KeyRefused \/ KeyFound \/ KeyRun \/ KeyRunDone \/ KeyEscape \/ KeyEscapeWrong
  \/ KeyDoesNotFit

\* A step within a token, or between two, keeps the place.
LEMMA QuietPlace ==
  ASSUME TypeOK, QuietStep  PROVE SamePlace(tok, tok')
<1>1. tok \in Tokenizers /\ Here \in Tokenizers /\ SamePlace(tok, Here)
  BY TypeFacts, HereType, PlaceKept DEF Here
<1>2. CASE \/ NumberWrong \/ LoopEnd \/ ReportWhitespace \/ MalformedChar \/ FlushChars
           \/ StringRun \/ StringPause \/ StringPaused \/ StringWrong
           \/ KeyRun \/ KeyRunDone \/ KeyEscapeWrong \/ KeyDoesNotFit
  BY <1>1, <1>2, PlaceKept DEF NumberWrong, LoopEnd, ReportWhitespace, MalformedChar, FlushChars,
     StringRun, StringPause, StringPaused, StringWrong, KeyRun, KeyRunDone, KeyEscapeWrong,
     KeyDoesNotFit, HandlerFails
<1>3. CASE \/ Refuse \/ OpenTooDeep \/ KeyIncomplete \/ KeyRefused
           \/ \E b \in DOMAIN Literals : LiteralIncomplete(b) \/ LiteralWrong(b)
  BY <1>1, <1>3 DEF Refuse, OpenTooDeep, KeyIncomplete, KeyRefused, LiteralIncomplete, LiteralWrong
<1>4. CASE Whitespace
  <2>1. PICK cr : tok' = [tok EXCEPT !.after_cr = cr]  BY <1>4 DEF Whitespace
  <2> QED  BY <1>1, <2>1, PlaceKept
<1>5. CASE DecodeSlice \/ PushChar \/ KeyEscape
  <2>1. PICK text : tok' = Pushed(tok, text)  BY <1>5 DEF DecodeSlice, PushChar, KeyEscape
  <2> QED  BY <1>1, <2>1, PlaceKept
<1>6. CASE ContinueString  BY <1>1, <1>6, PlaceKept DEF ContinueString
<1>7. CASE StringRunDone
  <2>1. PICK n : tok' = [tok EXCEPT !.string_bytes = n]  BY <1>7 DEF StringRunDone
  <2> QED  BY <1>1, <2>1, PlaceKept
<1>8. CASE StringEscape
  <2>1. tok' = [Pushed(tok, Escaped) EXCEPT !.string_bytes = @ + EscapeLength(ring, call.consumed)]
    BY <1>8 DEF StringEscape
  <2> QED  BY <1>1, <2>1, Zenon DEF SamePlace, Pushed, Tokenizers
<1>9. CASE KeyFound
  <2> DEFINE empty == [EnsureChars(Here) EXCEPT !.chars = <<>>]
  <2>1. EnsureChars(Here) \in Tokenizers /\ empty \in Tokenizers  BY <1>1, BufferType, TypeFacts
  <2>2. SamePlace(Here, EnsureChars(Here)) /\ SamePlace(EnsureChars(Here), empty)
    BY <1>1, <2>1, PlaceKept
  <2>3. PICK attempts, hits : tok' = [empty EXCEPT !.attempts = attempts, !.hits = hits]
    BY <1>9 DEF KeyFound
  <2>4. SamePlace(empty, tok')  BY <2>1, <2>3, PlaceKept
  <2> QED  BY <1>1, <2>2, <2>4, SamePlaceTransitive
<1> QED
  BY <1>2, <1>3, <1>4, <1>5, <1>6, <1>7, <1>8, <1>9 DEF QuietStep, WhitespaceStep, DecodeStep

\* The tokenizers t and u are at the same place but for their stacks.
UpToStacks(t, u) == u.state = t.state /\ u.stage = t.stage /\ u.in_string = t.in_string

\* What entering and leaving a nest do to the stacks.
LEMMA NestPlace ==
  ASSUME NEW t \in Tokenizers
  PROVE  /\ UpToStacks(t, ObjectEntered(t)) /\ UpToStacks(t, ArrayEntered(t))
         /\ UpToStacks(t, ObjectLeft(t)) /\ UpToStacks(t, ArrayLeft(t))
         /\ ObjectEntered(t).context_stack = Append(t.context_stack, "Object")
         /\ ObjectEntered(t).depth_stack = Append(t.depth_stack, "StartObject")
         /\ ArrayEntered(t).context_stack = Append(t.context_stack, "Array")
         /\ ArrayEntered(t).depth_stack = Append(t.depth_stack, "StartArray")
         /\ ObjectLeft(t).context_stack = Popped(t.context_stack)
         /\ ObjectLeft(t).depth_stack = Popped(t.depth_stack)
         /\ ArrayLeft(t).context_stack = Popped(t.context_stack)
         /\ ArrayLeft(t).depth_stack = Popped(t.depth_stack)
BY Zenon DEF UpToStacks, ObjectEntered, ArrayEntered, ObjectLeft, ArrayLeft, Tokenizers

\* How the call goes on after a token: its error is set if, and only if, it stops.
GoesOn == call'.pc = "loop" /\ call'.key = "none" /\ call'.error = call.error
Fails == call'.pc = "fed" /\ call'.key = "none" /\ call'.error # "none"

\* A bracket, a comma and a colon come between tokens.
LEMMA BracketPlace ==
  ASSUME TypeOK, NEW b, NEW ev, NEW t \in Tokenizers, NEW state \in States, Bracket(b, ev, t, state)
  PROVE  /\ Looking(b) /\ Allowed(b)
         /\ \/ Expects(t, state) /\ GoesOn
            \/ SamePlace(t, tok') /\ Fails
            \/ SamePlace(tok, tok') /\ Fails /\ ev \in Refusable
<1>1. call \in Calls /\ SamePlace(tok, Here)  BY TypeFacts, PlaceKept DEF Here
<1>2. CASE HandlerFails(ev, Here, 1)
  BY <1>1, <1>2, RefusedPlace DEF Fails, Bracket
<1>3. CASE TokenDone(t, 1, state, FALSE)
  BY <1>1, <1>3, DonePlace DEF GoesOn, Fails, Bracket
<1> QED  BY <1>2, <1>3 DEF Bracket

\* A comma or a colon moves to what it announces, or fails and moves nothing.
LEMMA SeparatorPlace ==
  ASSUME TypeOK, Comma \/ Colon
  PROVE  /\ call.pc = "loop" /\ ~tok.in_string /\ tok.stage = "None"
         /\ \/ SamePlace(tok, tok') /\ Fails
            \/ /\ GoesOn
               /\ \/ /\ Comma /\ tok.state = "AfterValue" /\ tok.context_stack # <<>>
                     /\ Expects(tok, IF Inside("Object") THEN "ExpectKey" ELSE "ExpectValue")
                  \/ /\ Colon /\ tok.state = "ExpectColon"
                     /\ Expects(tok, "ExpectValue")
<1>1. call \in Calls /\ SamePlace(tok, Here) /\ Here \in Tokenizers
  BY TypeFacts, HereType, PlaceKept DEF Here
<1>2. {"ExpectKey", "ExpectValue"} \subseteq States  BY DEF States
<1>3. ASSUME NEW state \in States, NEW afterComma \in BOOLEAN, TokenDone(Here, 1, state, afterComma)
      PROVE  \/ SamePlace(tok, tok') /\ Fails
             \/ Expects(tok, state) /\ GoesOn
  <2>1. CASE Expects(Here, state) /\ GoesOn
    BY <1>1, <2>1 DEF Expects, SamePlace
  <2>2. CASE SamePlace(Here, tok') /\ Fails
    BY <1>1, <2>2, SamePlaceTransitive
  <2>3. \/ Expects(Here, state) /\ GoesOn
        \/ SamePlace(Here, tok') /\ Fails
    BY <1>1, <1>3, DonePlace DEF GoesOn, Fails
  <2> QED  BY <2>1, <2>2, <2>3
<1>4. call.pc = "loop" /\ ~tok.in_string /\ tok.stage = "None"
  BY DEF Comma, Colon, Looking, BetweenTokens
<1>5. CASE Comma
  <2>1. tok.state = "AfterValue" /\ tok.context_stack # <<>>
    BY <1>5, BytesAssumption DEF Comma, Allowed, Quote, Digits
  <2>2. (IF Inside("Object") THEN "ExpectKey" ELSE "ExpectValue") \in States  BY <1>2
  <2> QED  BY <1>3, <1>4, <1>5, <2>1, <2>2 DEF Comma
<1>6. CASE Colon
  <2>1. tok.state = "ExpectColon"  BY <1>6, BytesAssumption DEF Colon, Allowed, Quote, Digits
  <2> QED  BY <1>2, <1>3, <1>4, <1>6, <2>1 DEF Colon
<1> QED  BY <1>5, <1>6

\* A literal counts as read before the handler is told.
LEMMA LiteralPlace ==
  ASSUME TypeOK, NEW b \in DOMAIN Literals, Literal(b)
  PROVE  /\ call.pc = "loop" /\ ~tok.in_string /\ tok.stage = "None" /\ tok.state = "ExpectValue"
         /\ \/ SamePlace(tok, tok') /\ Fails /\ UNCHANGED events
            \/ /\ Expects(tok, "AfterValue") /\ (GoesOn \/ Fails)
               /\ Notify("literal", <<b>>, loc')
<1> DEFINE after == [Counted(Here) EXCEPT !.after_comma = FALSE, !.state = "AfterValue"]
<1>1. /\ call \in Calls /\ Here \in Tokenizers /\ Counted(Here) \in Tokenizers
      /\ SamePlace(tok, Here) /\ SamePlace(tok, Counted(Here))
  BY TypeFacts, HereType, CountedType, PlaceKept, SamePlaceTransitive DEF Here
<1>2. /\ after.state = "AfterValue" /\ after.stage = Counted(Here).stage
      /\ after.in_string = Counted(Here).in_string
      /\ after.context_stack = Counted(Here).context_stack
      /\ after.depth_stack = Counted(Here).depth_stack
  BY <1>1, Zenon DEF Tokenizers
<1>3. \A n, error : /\ Failed(n, error).key = "none" /\ Failed(n, error).pc = "fed"
                    /\ Failed(n, error).error = error
                    /\ Advanced(n).key = "none" /\ Advanced(n).pc = "loop"
                    /\ Advanced(n).error = call.error
  BY <1>1, Zenon DEF Failed, Advanced, Calls
<1>4. call.pc = "loop" /\ ~tok.in_string /\ tok.stage = "None"
  BY DEF Literal, Looking, BetweenTokens
<1>5. tok.state = "ExpectValue"
  BY BytesAssumption DEF Literal, Allowed, Quote
<1>6. \/ \E n : tok' = Counted(Here) /\ call' = Failed(n, "limit") /\ UNCHANGED events
      \/ /\ Notify("literal", <<b>>, loc')
         /\ \/ \E n : HandlerFails("literal", after, n)
            \/ \E n : tok' = after /\ call' = Advanced(n)
  BY DEF Literal
<1> HIDE DEF after
<1>8. CASE \E n : tok' = Counted(Here) /\ call' = Failed(n, "limit") /\ UNCHANGED events
  BY <1>1, <1>3, <1>4, <1>5, <1>8 DEF Fails
<1>9. CASE /\ Notify("literal", <<b>>, loc')
           /\ \/ \E n : HandlerFails("literal", after, n)
              \/ \E n : tok' = after /\ call' = Advanced(n)
  <2>1. tok' = after  BY <1>9 DEF HandlerFails
  <2>2. Expects(tok, "AfterValue")  BY <1>1, <1>2, <2>1 DEF Expects, SamePlace
  <2>3. GoesOn \/ Fails  BY <1>3, <1>9 DEF HandlerFails, GoesOn, Fails
  <2> QED  BY <1>4, <1>5, <1>9, <2>2, <2>3
<1> QED  BY <1>6, <1>8, <1>9

\* A number leaves the state alone until it ends.
LEMMA NumberPlace ==
  ASSUME TypeOK, NumberStep, ~NumberWrong
  PROVE  /\ call.pc = "loop" /\ ~tok.in_string
         /\ ~tok'.in_string /\ tok'.context_stack = tok.context_stack /\ tok'.depth_stack = tok.depth_stack
         /\ \/ NumberEnd /\ tok.stage # "None"
               /\ tok'.state = "AfterValue" /\ tok'.stage = "None" /\ (GoesOn \/ Fails)
               /\ Notify("number_value", tok.number, loc')
            \/ ~NumberEnd /\ tok'.state = tok.state /\ UNCHANGED events /\ (GoesOn \/ Fails)
               /\ (tok.stage # "None" \/ tok.state = "ExpectValue")
<1>1. /\ call \in Calls /\ tok \in Tokenizers /\ Here \in Tokenizers /\ SamePlace(tok, Here)
  BY TypeFacts, HereType, PlaceKept DEF Here
<1>2. call.pc = "loop" /\ ~tok.in_string
  BY DEF NumberStep, NumberStart, NumberRun, NumberByte, NumberEnd, Looking, BetweenTokens, InNumber
<1>3. \A n, error : /\ Failed(n, error).key = "none" /\ Failed(n, error).pc = "fed"
                    /\ Failed(n, error).error = error
                    /\ Advanced(n).key = "none" /\ Advanced(n).pc = "loop"
                    /\ Advanced(n).error = call.error
  BY <1>1, Zenon DEF Failed, Advanced, Calls
<1>4. CASE NumberEnd
  <2> DEFINE t == [tok EXCEPT !.stage = "None", !.state = "AfterValue"]
  <2>1. /\ t.state = "AfterValue" /\ t.stage = "None" /\ t.in_string = tok.in_string
        /\ t.context_stack = tok.context_stack /\ t.depth_stack = tok.depth_stack
    BY <1>1, Zenon DEF Tokenizers
  <2>2. /\ tok' = t /\ Notify("number_value", tok.number, loc') /\ tok.stage # "None"
        /\ \/ call' = Failed(0, "handler") \/ call' = Advanced(0)
    BY <1>4 DEF NumberEnd, EmitNumber, HandlerFails, InNumber
  <2> QED  BY <1>2, <1>3, <1>4, <2>1, <2>2 DEF GoesOn, Fails
<1>5. ASSUME NEW b \in Digits \cup {"-"}, NumberStart(b), ~NumberEnd
      PROVE  /\ ~tok'.in_string /\ tok'.context_stack = tok.context_stack
             /\ tok'.depth_stack = tok.depth_stack
             /\ tok'.state = tok.state /\ UNCHANGED events /\ (GoesOn \/ Fails)
             /\ tok.state = "ExpectValue"
  <2> DEFINE t == [Here EXCEPT !.stage = FirstStage(b), !.number = <<b>>, !.length = 1]
  <2>1. tok.state = "ExpectValue"
    BY <1>5, BytesAssumption DEF NumberStart, Allowed, Quote, Digits
  <2>2. FirstStage(b) \in NumStages /\ <<b>> \in Bytes /\ 1 \in Nat
    <3>1. b \in Symbols  BY DEF Digits, Symbols
    <3> QED  BY <3>1 DEF FirstStage, NumStages, Bytes
  <2>3. t \in Tokenizers  BY <1>1, <2>2, Zenon DEF Tokenizers
  <2>4. /\ t.state = Here.state /\ t.in_string = Here.in_string
        /\ t.context_stack = Here.context_stack /\ t.depth_stack = Here.depth_stack
    BY <1>1, Zenon DEF Tokenizers
  <2>5. TokenDone(t, 1, tok.state, FALSE) /\ tok.state \in States /\ UNCHANGED events
    BY <1>1, <1>5, TokenizerFields DEF NumberStart
  <2> HIDE DEF t
  <2>6. \/ Expects(t, tok.state) /\ GoesOn
        \/ SamePlace(t, tok') /\ Fails
    BY <1>1, <2>3, <2>5, DonePlace DEF GoesOn, Fails
  <2> QED  BY <1>1, <1>2, <2>1, <2>4, <2>5, <2>6 DEF Expects, SamePlace
<1>6. ASSUME NEW n, NEW stage, TakeNumber(n, stage)
      PROVE  /\ ~tok'.in_string /\ tok'.context_stack = tok.context_stack
             /\ tok'.depth_stack = tok.depth_stack
             /\ tok'.state = tok.state /\ UNCHANGED events /\ (GoesOn \/ Fails)
  <2>1. /\ tok'.state = tok.state /\ tok'.in_string = tok.in_string
        /\ tok'.context_stack = tok.context_stack /\ tok'.depth_stack = tok.depth_stack
    BY <1>1, <1>6, Zenon DEF TakeNumber, Tokenizers
  <2>2. UNCHANGED events /\ (call' = Failed(n, "limit") \/ call' = Advanced(n))
    BY <1>6 DEF TakeNumber
  <2> QED  BY <1>2, <1>3, <2>1, <2>2 DEF GoesOn, Fails
<1>7. CASE (NumberRun \/ NumberByte) /\ ~NumberEnd
  <2>1. tok.stage # "None"  BY <1>7 DEF NumberRun, NumberByte, InNumber
  <2> QED  BY <1>2, <1>6, <1>7, <2>1 DEF NumberRun, NumberByte
<1> QED  BY <1>2, <1>4, <1>5, <1>7 DEF NumberStep

\* A string begins where a value is expected, and ends as one.
LEMMA StringPlace ==
  ASSUME TypeOK, StringStart \/ StringEnd
  PROVE  /\ tok'.context_stack = tok.context_stack /\ tok'.depth_stack = tok.depth_stack
         /\ tok'.stage = tok.stage
         /\ \/ /\ StringStart /\ call.pc = "loop" /\ ~tok.in_string /\ tok.stage = "None"
               /\ tok.state = "ExpectValue" /\ tok'.state = "ExpectValue"
               /\ Notify("start_string_value", <<>>, loc')
               /\ (GoesOn /\ tok'.in_string) \/ Fails
            \/ /\ StringEnd /\ call.pc = "string" /\ ~tok'.in_string /\ tok'.state = "AfterValue"
               /\ Notify("end_string_value", <<>>, loc')
               /\ GoesOn \/ Fails
<1>1. /\ call \in Calls /\ tok \in Tokenizers /\ Here \in Tokenizers /\ SamePlace(tok, Here)
  BY TypeFacts, HereType, PlaceKept DEF Here
<1>2. CASE StringStart
  <2> DEFINE empty == [EnsureChars(Here) EXCEPT !.chars = <<>>]
             t == [empty EXCEPT !.in_string = TRUE, !.string_bytes = 0]
  <2>1. EnsureChars(Here) \in Tokenizers /\ empty \in Tokenizers  BY <1>1, BufferType, TypeFacts
  <2>2. SamePlace(tok, empty)  BY <1>1, <2>1, PlaceKept, SamePlaceTransitive
  <2>3. HandlerFails("start_string_value", empty, 1) \/ TokenDone(t, 1, tok.state, FALSE)
    BY <1>2 DEF StringStart
  <2>4. /\ call.pc = "loop" /\ ~tok.in_string /\ tok.stage = "None" /\ tok.state = "ExpectValue"
        /\ Notify("start_string_value", <<>>, loc')
    BY <1>2 DEF StringStart, Looking, BetweenTokens
  <2> HIDE DEF empty
  <2>5. t \in Tokenizers  BY <2>1, TypeFacts, Zenon DEF Tokenizers
  <2>6. /\ t.state = empty.state /\ t.stage = empty.stage /\ t.in_string
        /\ t.context_stack = empty.context_stack /\ t.depth_stack = empty.depth_stack
    BY <2>1, Zenon DEF Tokenizers
  <2> HIDE DEF t
  <2>7. CASE HandlerFails("start_string_value", empty, 1)
    BY <1>1, <1>2, <2>2, <2>4, <2>7, RefusedPlace DEF SamePlace, Fails
  <2>8. CASE TokenDone(t, 1, tok.state, FALSE)
    <3>1. \/ Expects(t, tok.state) /\ GoesOn
          \/ SamePlace(t, tok') /\ Fails
      BY <1>1, <2>5, <2>8, TokenizerFields, DonePlace DEF GoesOn, Fails
    <3> QED  BY <1>2, <2>2, <2>4, <2>6, <3>1 DEF SamePlace, Expects
  <2> QED  BY <2>3, <2>7, <2>8
<1>3. CASE StringEnd
  <2> DEFINE t == [tok EXCEPT !.in_string = FALSE, !.state = "AfterValue"]
  <2>1. /\ t.state = "AfterValue" /\ t.stage = tok.stage /\ ~t.in_string
        /\ t.context_stack = tok.context_stack /\ t.depth_stack = tok.depth_stack
    BY <1>1, Zenon DEF Tokenizers
  <2>2. tok' = t /\ call.pc = "string" /\ Notify("end_string_value", <<>>, loc')
        /\ (HandlerFails("end_string_value", t, 1) \/ call' = Advanced(1))
    BY <1>3 DEF StringEnd, HandlerFails, AtStringEnd, AtStringStop
  <2>3. call' = Advanced(1) => GoesOn  BY <1>1, Zenon DEF GoesOn, Advanced, Calls
  <2> HIDE DEF t
  <2> QED  BY <1>1, <1>3, <2>1, <2>2, <2>3, RefusedPlace DEF Fails
<1> QED  BY <1>2, <1>3

\* A key is read where one is expected, and the colon is expected after it.
LEMMA KeyPlace ==
  ASSUME TypeOK, KeyDone
  PROVE  /\ ReadingKey
         /\ \/ SamePlace(tok, tok') /\ Fails /\ UNCHANGED events
            \/ /\ Notify("key", KeyText, loc')
               /\ \/ Expects(tok, "ExpectColon") /\ GoesOn
                  \/ SamePlace(tok, tok') /\ Fails
<1> DEFINE t == Disabled(Seen(tok, KeyText))
<1>1. call \in Calls /\ tok \in Tokenizers /\ CallInRing(call)  BY TypeFacts
<1>2. KeyText \in Bytes /\ Put(KeyText) \in SUBSET Bytes  BY KeyTextType DEF KeyDone
<1>3. Seen(tok, KeyText) \in Tokenizers /\ t \in Tokenizers  BY <1>1, <1>2, SeenType
<1>4. SamePlace(tok, t) /\ SamePlace(tok, Disabled(tok))
  BY <1>1, <1>3, PlaceKept, SamePlaceTransitive
<1>5. ReadingKey  BY <1>1 DEF KeyDone, ReadingKey, CallInRing
<1>6. \/ \E n : tok' = Disabled(tok) /\ call' = Failed(n, "duplicate") /\ UNCHANGED events
      \/ /\ Notify("key", KeyText, loc')
         /\ \E n : HandlerFails("key", t, n) \/ TokenDone(t, n, "ExpectColon", FALSE)
  BY DEF KeyDone
<1>7. "ExpectColon" \in States  BY DEF States
<1> HIDE DEF t
<1>8. \A n : call' = Failed(n, "duplicate") => Fails  BY <1>1, Zenon DEF Fails, Failed, Calls
<1>9. ASSUME NEW n, HandlerFails("key", t, n)  PROVE SamePlace(tok, tok') /\ Fails
  BY <1>1, <1>4, <1>9, RefusedPlace DEF Fails
<1>10. ASSUME NEW n, TokenDone(t, n, "ExpectColon", FALSE)
       PROVE  \/ Expects(tok, "ExpectColon") /\ GoesOn
              \/ SamePlace(tok, tok') /\ Fails
  BY <1>1, <1>3, <1>4, <1>7, <1>10, DonePlace DEF SamePlace, Expects, GoesOn, Fails
<1>11. CASE \E n : tok' = Disabled(tok) /\ call' = Failed(n, "duplicate") /\ UNCHANGED events
  BY <1>4, <1>5, <1>8, <1>11
<1>12. CASE /\ Notify("key", KeyText, loc')
            /\ \E n : HandlerFails("key", t, n) \/ TokenDone(t, n, "ExpectColon", FALSE)
  <2>1. PICK n : HandlerFails("key", t, n) \/ TokenDone(t, n, "ExpectColon", FALSE)  BY <1>12
  <2> QED  BY <1>5, <1>9, <1>10, <1>12, <2>1
<1> QED  BY <1>6, <1>11, <1>12

-----------------------------------------------------------------------------
(* Where a call is in the grammar                                          *)

\* Steps that a token, or the beginning or end of one, comes from.
TokenStep ==
  \/ Comma \/ Colon \/ StartObject \/ StartArray \/ EndObject \/ EndArray
  \/ \E b \in DOMAIN Literals : Literal(b)
  \/ NumberStep /\ ~NumberWrong
  \/ StringStart \/ StringEnd \/ KeyDone

\* Every step of the tokenizer is of one of the two kinds.
LEMMA StepKinds ==
  ASSUME TokenizerStep  PROVE QuietStep \/ TokenStep
<1>1. StructureStep \/ LiteralStep \/ LoopEnd => QuietStep \/ TokenStep
  BY DEF StructureStep, LiteralStep, QuietStep, TokenStep
<1>2. NumberStep \/ WhitespaceStep \/ DecodeStep => QuietStep \/ TokenStep
  BY DEF QuietStep, TokenStep
<1>3. StringStep \/ KeyStep => QuietStep \/ TokenStep
  BY DEF StringStep, KeyStep, QuietStep, TokenStep
<1> QED  BY <1>1, <1>2, <1>3 DEF TokenizerStep

\* Only two of the steps that read no token call the handler.
LEMMA QuietEvents ==
  ASSUME QuietStep  PROVE UNCHANGED events \/ FlushChars \/ ReportWhitespace
<1>1. CASE \/ Refuse \/ OpenTooDeep \/ NumberWrong \/ Whitespace \/ LoopEnd
           \/ DecodeSlice \/ PushChar \/ MalformedChar
           \/ \E b \in DOMAIN Literals : LiteralIncomplete(b) \/ LiteralWrong(b)
  BY <1>1, Zenon
  DEF Refuse, OpenTooDeep, NumberWrong, Whitespace, LoopEnd, DecodeSlice, PushChar, MalformedChar,
      LiteralIncomplete, LiteralWrong
<1>2. CASE \/ ContinueString \/ StringRun \/ StringRunDone \/ StringPause \/ StringPaused
           \/ StringEscape \/ StringWrong
           \/ KeyIncomplete \/ KeyRefused \/ KeyFound \/ KeyRun \/ KeyRunDone \/ KeyEscape
           \/ KeyEscapeWrong \/ KeyDoesNotFit
  BY <1>2, Zenon
  DEF ContinueString, StringRun, StringRunDone, StringPause, StringPaused, StringEscape, StringWrong,
      KeyIncomplete, KeyRefused, KeyFound, KeyRun, KeyRunDone, KeyEscape, KeyEscapeWrong, KeyDoesNotFit
<1> QED  BY <1>1, <1>2 DEF QuietStep, WhitespaceStep, DecodeStep

\* The callbacks about tokens; the others are about text between two of them
\* and in the middle of one.
TokenNames == Callbacks \ {"string_value_content", "whitespace"}

\* A step that takes a token reports it once, at the locator's new place, or
\* nothing.
LEMMA TokenEvents ==
  ASSUME TokenStep
  PROVE  UNCHANGED events \/ \E ev \in TokenNames : \E text : Notify(ev, text, loc')
<1> USE DEF TokenNames, Callbacks
<1>1. CASE Comma \/ Colon  BY <1>1 DEF Comma, Colon
<1>2. CASE StartObject \/ StartArray \/ EndObject \/ EndArray
  BY <1>2 DEF StartObject, StartArray, EndObject, EndArray, Bracket
<1>3. CASE \E b \in DOMAIN Literals : Literal(b)  BY <1>3 DEF Literal
<1>4. CASE NumberStep
  BY <1>4 DEF NumberStep, NumberStart, NumberRun, NumberByte, TakeNumber, NumberEnd, EmitNumber, NumberWrong
<1>5. CASE StringStart \/ StringEnd \/ KeyDone  BY <1>5 DEF StringStart, StringEnd, KeyDone
<1> QED  BY <1>1, <1>2, <1>3, <1>4, <1>5 DEF TokenStep

\* The call c decodes a string value.
ReadsString(c) == c.pc \in {"string", "pause"} \/ (c.pc \in {"run", "char"} /\ c.key = "none")

\* A tokenizer inside a string or a number, of which there is only one, is
\* still where a value is expected.
MidValue(t) ==
  /\ t.in_string => t.stage = "None"
  /\ t.in_string \/ t.stage # "None" => t.state = "ExpectValue"

\* The call decodes a string only inside one, and a key only where one is due.
Reading ==
  /\ ReadsString(call) => tok.in_string
  /\ ReadingKey => ~tok.in_string /\ tok.stage = "None" /\ tok.state = "ExpectKey"
  /\ MidValue(tok)

\* How quiet steps get from one kind of reading to another.
LEMMA QuietCall ==
  ASSUME TypeOK, QuietStep
  PROVE  /\ ReadsString(call') => ReadsString(call) \/ tok.in_string
         /\ call'.key # "none" => ReadingKey \/ AtKey
<1>0. call \in Calls /\ CallInRing(call)  BY TypeFacts
<1>1. \A n, error : /\ Failed(n, error).key = "none" /\ Failed(n, error).pc = "fed"
                    /\ Stopped.key = "none" /\ Stopped.pc = "fed"
  BY <1>0, Zenon DEF Failed, Stopped, Calls
<1>2. CASE \/ Refuse \/ OpenTooDeep \/ NumberWrong \/ LoopEnd
           \/ \E b \in DOMAIN Literals : LiteralIncomplete(b) \/ LiteralWrong(b)
           \/ MalformedChar \/ StringPaused \/ StringWrong
           \/ KeyIncomplete \/ KeyRefused \/ KeyEscapeWrong \/ KeyDoesNotFit
  <2>1. call'.key = "none" /\ call'.pc = "fed"
    BY <1>1, <1>2 DEF Refuse, OpenTooDeep, NumberWrong, LoopEnd, LiteralIncomplete, LiteralWrong,
       MalformedChar, StringPaused, StringWrong, KeyIncomplete, KeyRefused, KeyEscapeWrong,
       KeyDoesNotFit
  <2> QED  BY <2>1 DEF ReadsString
<1>3. CASE Whitespace
  <2>1. PICK to : call' = [call EXCEPT !.consumed = to, !.p = call.consumed, !.to = to,
                                       !.pc = IF NeedsWhitespace THEN "space" ELSE "loop"]
    BY <1>3 DEF Whitespace
  <2>2. call'.key = call.key /\ call'.pc \in {"space", "loop"}  BY <1>0, <2>1, Zenon DEF Calls
  <2> QED  BY <2>2 DEF ReadsString, ReadingKey
<1>4. CASE ReportWhitespace
  <2>1. CASE HandlerFails("whitespace", tok, 0)  BY <1>1, <2>1 DEF HandlerFails, ReadsString
  <2>2. ASSUME NEW q, call' = [call EXCEPT !.p = q, !.pc = IF q = call.to THEN "loop" ELSE "space"]
        PROVE  call'.key = call.key /\ call'.pc \in {"space", "loop"}
    BY <1>0, <2>2, Zenon DEF Calls
  <2>3. \/ HandlerFails("whitespace", tok, 0)
        \/ call'.key = call.key /\ call'.pc \in {"space", "loop"}
    BY <1>4, <2>2 DEF ReportWhitespace
  <2> QED  BY <2>1, <2>3 DEF ReadsString, ReadingKey
<1>5. CASE DecodeSlice
  <2> DEFINE stop == AtMost(AtMost(call.to, SpanEnd(call.p)), call.p + Free)
  <2>1. PICK q \in call.p .. stop :
          call' = IF q < stop /\ CharLength(ring, q, stop) = Bad THEN Failed(0, "syntax")
                  ELSE [call EXCEPT !.p = q, !.units = @ + Units(Slice(ring, call.p, q)),
                                    !.pc = IF q = stop THEN "run" ELSE "char"]
    BY <1>5, Zenon DEF DecodeSlice
  <2> HIDE DEF stop
  <2>2. ASSUME NEW units, call' = [call EXCEPT !.p = q, !.units = units,
                                               !.pc = IF q = stop THEN "run" ELSE "char"]
        PROVE  call'.key = call.key /\ call'.pc \in {"run", "char"}
    BY <1>0, <2>2, Zenon DEF Calls
  <2>3. \/ call'.key = "none" /\ call'.pc = "fed"
        \/ call'.key = call.key /\ call'.pc \in {"run", "char"}
    BY <1>1, <2>1, <2>2
  <2>4. call.pc = "run"  BY <1>5 DEF DecodeSlice
  <2> QED  BY <2>3, <2>4 DEF ReadsString, ReadingKey
<1>6. CASE PushChar
  <2>1. PICK p, units : call' = [call EXCEPT !.p = p, !.units = units, !.pc = "run"]
    BY <1>6 DEF PushChar
  <2>2. call.pc = "char" /\ call'.key = call.key /\ call'.pc = "run"
    BY <1>0, <1>6, <2>1, Zenon DEF PushChar, Calls
  <2> QED  BY <2>2 DEF ReadsString, ReadingKey
<1>7. CASE FlushChars
  <2>1. CASE HandlerFails("string_value_content", tok, 0)
    BY <1>1, <2>1 DEF HandlerFails, ReadsString
  <2>2. CASE call' = call  BY <2>2 DEF ReadingKey
  <2> QED  BY <1>7, <2>1, <2>2 DEF FlushChars
<1>8. CASE ContinueString
  <2>1. call'.key = call.key /\ tok.in_string  BY <1>0, <1>8, Zenon DEF ContinueString, Calls
  <2> QED  BY <2>1 DEF ReadingKey
<1>9. CASE StringRun \/ StringPause \/ StringEscape
  <2>1. call.pc = "string"
    BY <1>9 DEF StringRun, StringPause, StringEscape, AtEscape, AtStringStop
  <2>2. call.key = "none"  BY <1>0, <2>1 DEF CallInRing
  <2>3. ASSUME NEW to, call' = [call EXCEPT !.pc = "run", !.p = call.consumed, !.to = to, !.units = 0]
        PROVE  call'.key = call.key
    BY <1>0, <2>3, Zenon DEF Calls
  <2>4. ASSUME NEW n, \/ call' = [call EXCEPT !.pc = "pause"]
                      \/ call' = [call EXCEPT !.consumed = @ + n]
        PROVE  call'.key = call.key
    BY <1>0, <2>4, Zenon DEF Calls
  <2>5. CASE StringRun
    <3>1. PICK to : \/ call' = Failed(0, "limit")
                    \/ call' = [call EXCEPT !.pc = "run", !.p = call.consumed, !.to = to, !.units = 0]
      BY <2>5, Zenon DEF StringRun
    <3>2. call'.key = "none"  BY <1>1, <2>2, <2>3, <3>1
    <3> QED  BY <2>1, <3>2 DEF ReadsString
  <2>6. CASE StringPause \/ StringEscape
    <3>1. PICK n : \/ call' = Failed(n, "limit") \/ call' = [call EXCEPT !.pc = "pause"]
                   \/ call' = [call EXCEPT !.consumed = @ + n]
      BY <2>6 DEF StringPause, StringEscape
    <3>2. call'.key = "none"  BY <1>1, <2>2, <2>4, <3>1
    <3> QED  BY <2>1, <3>2 DEF ReadsString
  <2> QED  BY <1>9, <2>5, <2>6
<1>10. CASE StringRunDone
  <2>1. PICK p, pc : call' = [call EXCEPT !.consumed = p, !.pc = pc]
    BY <1>10 DEF StringRunDone
  <2>2. call'.key = call.key  BY <1>0, <2>1, Zenon DEF Calls
  <2>3. call.pc \in {"run", "char"} /\ call.key = "none"
    BY <1>10 DEF StringRunDone, RunDecoded, RunCutShort, ReadingKey
  <2> QED  BY <2>2, <2>3 DEF ReadsString
<1>11. CASE KeyFound
  <2>1. PICK key, end :
          call' = [call EXCEPT !.pc = "key", !.key = key, !.end = end,
                               !.p = IF key = "hit" THEN end ELSE KeyStart,
                               !.units = IF key = "hit" THEN Units(Slice(ring, KeyStart, end)) ELSE 0]
    BY <1>11, Zenon DEF KeyFound
  <2>2. call'.pc = "key"  BY <1>0, <2>1, Zenon DEF Calls
  <2> QED  BY <1>11, <2>2 DEF KeyFound, ReadsString
<1>12. CASE KeyRun \/ KeyRunDone \/ KeyEscape
  <2>1. ReadingKey
    BY <1>0, <1>12 DEF KeyRun, KeyRunDone, KeyEscape, AtKeyEscape, CallInRing, ReadingKey
  <2>2. CASE KeyRun
    <3>1. PICK to : call' = [call EXCEPT !.pc = "run", !.to = to]  BY <2>2 DEF KeyRun
    <3>2. call'.key = call.key /\ call'.pc = "run"  BY <1>0, <3>1, Zenon DEF Calls
    <3> QED  BY <2>1, <3>2 DEF ReadsString, ReadingKey
  <2>3. CASE KeyRunDone
    <3>1. call' = [call EXCEPT !.pc = "key"] => call'.key = call.key /\ call'.pc = "key"
      BY <1>0, Zenon DEF Calls
    <3>2. call'.pc \in {"fed", "key"}  BY <1>1, <2>3, <3>1 DEF KeyRunDone
    <3> QED  BY <2>1, <3>2 DEF ReadsString
  <2>4. CASE KeyEscape
    <3>1. PICK n : call' = [call EXCEPT !.p = @ + n, !.units = @ + n]  BY <2>4 DEF KeyEscape
    <3>2. call'.pc = call.pc  BY <1>0, <3>1, Zenon DEF Calls
    <3> QED  BY <2>1, <2>4, <3>2 DEF KeyEscape, AtKeyEscape, ReadsString
  <2> QED  BY <1>12, <2>2, <2>3, <2>4
<1> QED
  BY <1>2, <1>3, <1>4, <1>5, <1>6, <1>7, <1>8, <1>9, <1>10, <1>11, <1>12
  DEF QuietStep, WhitespaceStep, DecodeStep

\* Between two tokens.
Between(t) == ~t.in_string /\ t.stage = "None"
Now(state) == Between(tok') /\ tok'.state = state

Reports(ev) == \E text, at : Notify(ev, text, at)
StacksStay ==
  tok'.context_stack = tok.context_stack /\ tok'.depth_stack = tok.depth_stack

\* What a token tells the handler, and where that is legal.
Silent == UNCHANGED events /\ StacksStay

Opens(ev, context, nest) ==
  /\ Reports(ev) /\ Between(tok) /\ tok.state = "ExpectValue"
  /\ tok'.context_stack = Append(tok.context_stack, context)
  /\ tok'.depth_stack = Append(tok.depth_stack, nest)

Closes(ev, context, empty) ==
  /\ Reports(ev) /\ Between(tok) /\ Inside(context) /\ tok.state \in {empty, "AfterValue"}
  /\ tok'.context_stack = Popped(tok.context_stack) /\ tok'.depth_stack = Popped(tok.depth_stack)

Scalar(ev) == Reports(ev) /\ StacksStay /\ ~tok.in_string /\ tok.state = "ExpectValue"
StringBegins == Scalar("start_string_value") /\ Between(tok)
StringEnds == Reports("end_string_value") /\ StacksStay /\ tok.in_string
Names == Reports("key") /\ StacksStay /\ Between(tok) /\ tok.state = "ExpectKey"

Tells ==
  \/ Silent
  \/ Opens("start_object", "Object", "StartObject") \/ Opens("start_array", "Array", "StartArray")
  \/ Closes("end_object", "Object", "ExpectKey") \/ Closes("end_array", "Array", "ExpectValue")
  \/ Scalar("literal") \/ Scalar("number_value")
  \/ StringBegins \/ StringEnds \/ Names

\* What a token that does not fail also does to the place in the grammar.
Moves ==
  \/ /\ Silent /\ Between(tok)
     /\ \/ tok.state = "AfterValue" /\ Inside("Object") /\ Now("ExpectKey")
        \/ tok.state = "AfterValue" /\ Inside("Array") /\ Now("ExpectValue")
        \/ tok.state = "ExpectColon" /\ Now("ExpectValue")
  \/ Silent /\ tok.state = "ExpectValue" /\ tok'.state = "ExpectValue" /\ ~tok.in_string /\ ~tok'.in_string
  \/ Opens("start_object", "Object", "StartObject") /\ Now("ExpectKey")
  \/ Opens("start_array", "Array", "StartArray") /\ Now("ExpectValue")
  \/ Closes("end_object", "Object", "ExpectKey") /\ Now("AfterValue")
  \/ Closes("end_array", "Array", "ExpectValue") /\ Now("AfterValue")
  \/ (Scalar("literal") \/ Scalar("number_value") \/ StringEnds) /\ Now("AfterValue")
  \/ StringBegins /\ tok'.in_string /\ tok'.state = "ExpectValue"
  \/ Names /\ Now("ExpectColon")

\* How a token comes out, unless the handler refuses it.
ComesOut(moves, tells) == (GoesOn /\ moves) \/ (Fails /\ (tells \/ Refusable # {}))

\* A bracket moves as listed, or fails having told the handler as much.
LEMMA NestsMove ==
  ASSUME TypeOK, StartObject \/ StartArray \/ EndObject \/ EndArray
  PROVE  /\ Between(tok') /\ Between(tok)
         /\ ComesOut(Moves, Tells)
<1>1. /\ Here \in Tokenizers /\ SamePlace(tok, Here)
      /\ ObjectEntered(Here) \in Tokenizers /\ ArrayEntered(Here) \in Tokenizers
      /\ ObjectLeft(Here) \in Tokenizers /\ ArrayLeft(Here) \in Tokenizers
      /\ {"ExpectKey", "ExpectValue", "AfterValue"} \subseteq States
  BY TypeFacts, HereType, NestType, PlaceKept DEF Here, States
<1>7. /\ ObjectEntered(Here).context_stack = Append(tok.context_stack, "Object")
      /\ ObjectEntered(Here).depth_stack = Append(tok.depth_stack, "StartObject")
      /\ ObjectEntered(Here).stage = tok.stage /\ ObjectEntered(Here).in_string = tok.in_string
      /\ ArrayEntered(Here).context_stack = Append(tok.context_stack, "Array")
      /\ ArrayEntered(Here).depth_stack = Append(tok.depth_stack, "StartArray")
      /\ ArrayEntered(Here).stage = tok.stage /\ ArrayEntered(Here).in_string = tok.in_string
  <2>1. /\ Here.context_stack = tok.context_stack /\ Here.depth_stack = tok.depth_stack
        /\ Here.stage = tok.stage /\ Here.in_string = tok.in_string
    BY <1>1 DEF SamePlace
  <2>2. /\ UpToStacks(Here, ObjectEntered(Here)) /\ UpToStacks(Here, ArrayEntered(Here))
        /\ ObjectEntered(Here).context_stack = Append(Here.context_stack, "Object")
        /\ ObjectEntered(Here).depth_stack = Append(Here.depth_stack, "StartObject")
        /\ ArrayEntered(Here).context_stack = Append(Here.context_stack, "Array")
        /\ ArrayEntered(Here).depth_stack = Append(Here.depth_stack, "StartArray")
    BY <1>1, NestPlace
  <2> QED  BY <2>1, <2>2 DEF UpToStacks
<1>2. CASE StartObject
  <2>1. Bracket("{", "start_object", ObjectEntered(Here), "ExpectKey")  BY <1>2 DEF StartObject
  <2>2. /\ Looking("{") /\ Allowed("{")
        /\ \/ Expects(ObjectEntered(Here), "ExpectKey") /\ GoesOn
           \/ SamePlace(ObjectEntered(Here), tok') /\ Fails
           \/ SamePlace(tok, tok') /\ Fails /\ "start_object" \in Refusable
    BY <1>1, <2>1, BracketPlace
  <2>3. Between(tok)  BY <2>2 DEF Between, Looking, BetweenTokens
  <2>4. Reports("start_object")  BY <2>1 DEF Reports, Bracket
  <2>5. tok.state = "ExpectValue"  BY <2>2, BytesAssumption DEF Allowed, Quote, Digits
  <2>6. CASE Expects(ObjectEntered(Here), "ExpectKey") /\ GoesOn
    <3>1. /\ tok'.context_stack = Append(tok.context_stack, "Object")
          /\ tok'.depth_stack = Append(tok.depth_stack, "StartObject")
          /\ tok'.state = "ExpectKey" /\ Between(tok')
      BY <1>7, <2>3, <2>6 DEF Expects, Between
    <3>2. Opens("start_object", "Object", "StartObject")  BY <2>3, <2>4, <2>5, <3>1 DEF Opens
    <3> QED  BY <2>3, <2>6, <3>1, <3>2 DEF Moves, Now, ComesOut
  <2>7. CASE SamePlace(ObjectEntered(Here), tok') /\ Fails
    <3>1. /\ tok'.context_stack = Append(tok.context_stack, "Object")
          /\ tok'.depth_stack = Append(tok.depth_stack, "StartObject")
          /\ Between(tok')
      BY <1>7, <2>3, <2>7 DEF SamePlace, Between
    <3>2. Opens("start_object", "Object", "StartObject")  BY <2>3, <2>4, <2>5, <3>1 DEF Opens
    <3> QED  BY <2>3, <2>7, <3>1, <3>2 DEF Tells, ComesOut
  <2>8. CASE SamePlace(tok, tok') /\ Fails /\ "start_object" \in Refusable
    BY <2>3, <2>8 DEF Between, SamePlace, ComesOut
  <2> QED  BY <2>2, <2>6, <2>7, <2>8
<1>3. CASE StartArray
  <2>1. Bracket("[", "start_array", ArrayEntered(Here), "ExpectValue")  BY <1>3 DEF StartArray
  <2>2. /\ Looking("[") /\ Allowed("[")
        /\ \/ Expects(ArrayEntered(Here), "ExpectValue") /\ GoesOn
           \/ SamePlace(ArrayEntered(Here), tok') /\ Fails
           \/ SamePlace(tok, tok') /\ Fails /\ "start_array" \in Refusable
    BY <1>1, <2>1, BracketPlace
  <2>3. Between(tok)  BY <2>2 DEF Between, Looking, BetweenTokens
  <2>4. Reports("start_array")  BY <2>1 DEF Reports, Bracket
  <2>5. tok.state = "ExpectValue"  BY <2>2, BytesAssumption DEF Allowed, Quote, Digits
  <2>6. CASE Expects(ArrayEntered(Here), "ExpectValue") /\ GoesOn
    <3>1. /\ tok'.context_stack = Append(tok.context_stack, "Array")
          /\ tok'.depth_stack = Append(tok.depth_stack, "StartArray")
          /\ tok'.state = "ExpectValue" /\ Between(tok')
      BY <1>7, <2>3, <2>6 DEF Expects, Between
    <3>2. Opens("start_array", "Array", "StartArray")  BY <2>3, <2>4, <2>5, <3>1 DEF Opens
    <3> QED  BY <2>3, <2>6, <3>1, <3>2 DEF Moves, Now, ComesOut
  <2>7. CASE SamePlace(ArrayEntered(Here), tok') /\ Fails
    <3>1. /\ tok'.context_stack = Append(tok.context_stack, "Array")
          /\ tok'.depth_stack = Append(tok.depth_stack, "StartArray")
          /\ Between(tok')
      BY <1>7, <2>3, <2>7 DEF SamePlace, Between
    <3>2. Opens("start_array", "Array", "StartArray")  BY <2>3, <2>4, <2>5, <3>1 DEF Opens
    <3> QED  BY <2>3, <2>7, <3>1, <3>2 DEF Tells, ComesOut
  <2>8. CASE SamePlace(tok, tok') /\ Fails /\ "start_array" \in Refusable
    BY <2>3, <2>8 DEF Between, SamePlace, ComesOut
  <2> QED  BY <2>2, <2>6, <2>7, <2>8
<1>4. ASSUME NEW b, NEW ev, NEW t \in {ObjectLeft(Here), ArrayLeft(Here)},
             Bracket(b, ev, t, "AfterValue")
      PROVE  /\ Between(tok') /\ Between(tok) /\ Reports(ev)
             /\ \/ /\ tok'.context_stack = Popped(tok.context_stack)
                   /\ tok'.depth_stack = Popped(tok.depth_stack)
                   /\ (GoesOn /\ Now("AfterValue")) \/ Fails
                \/ Fails /\ ev \in Refusable
  <2>1. /\ t.context_stack = Popped(Here.context_stack) /\ t.depth_stack = Popped(Here.depth_stack)
        /\ t.stage = Here.stage /\ t.in_string = Here.in_string
    <3>1. CASE t = ObjectLeft(Here)  BY <1>1, <3>1, NestPlace DEF UpToStacks
    <3>2. CASE t = ArrayLeft(Here)  BY <1>1, <3>2, NestPlace DEF UpToStacks
    <3> QED  BY <1>4, <3>1, <3>2
  <2>2. /\ Looking(b) /\ Allowed(b)
        /\ \/ Expects(t, "AfterValue") /\ GoesOn
           \/ SamePlace(t, tok') /\ Fails
           \/ SamePlace(tok, tok') /\ Fails /\ ev \in Refusable
    BY <1>1, <1>4, BracketPlace
  <2>3. Between(tok)  BY <2>2 DEF Between, Looking, BetweenTokens
  <2>4. Reports(ev)  BY <1>4 DEF Reports, Bracket
  <2>5. /\ t.context_stack = Popped(tok.context_stack) /\ t.depth_stack = Popped(tok.depth_stack)
        /\ t.stage = "None" /\ ~t.in_string
    BY <1>1, <2>1, <2>3 DEF SamePlace, Between
  <2>6. CASE Expects(t, "AfterValue") /\ GoesOn
    BY <2>3, <2>4, <2>5, <2>6 DEF Expects, Between, Now
  <2>7. CASE SamePlace(t, tok') /\ Fails
    BY <2>3, <2>4, <2>5, <2>7 DEF SamePlace, Between
  <2>8. CASE SamePlace(tok, tok') /\ Fails /\ ev \in Refusable
    BY <2>3, <2>4, <2>8 DEF Between, SamePlace
  <2> QED  BY <2>2, <2>6, <2>7, <2>8
<1>5. CASE EndObject
  <2>1. Bracket("}", "end_object", ObjectLeft(Here), "AfterValue")  BY <1>5 DEF EndObject
  <2>2. MayClose("Object", "ExpectKey")
    BY <2>1, BytesAssumption DEF Bracket, Allowed, Quote, Digits
  <2>3. /\ Between(tok') /\ Between(tok) /\ Reports("end_object")
        /\ \/ /\ tok'.context_stack = Popped(tok.context_stack)
              /\ tok'.depth_stack = Popped(tok.depth_stack)
              /\ (GoesOn /\ Now("AfterValue")) \/ Fails
           \/ Fails /\ "end_object" \in Refusable
    BY <1>4, <2>1
  <2>4. tok'.context_stack = Popped(tok.context_stack) /\ tok'.depth_stack = Popped(tok.depth_stack)
        => Closes("end_object", "Object", "ExpectKey")
    BY <2>2, <2>3 DEF Closes, MayClose
  <2> QED  BY <2>3, <2>4 DEF Moves, Tells, ComesOut
<1>6. CASE EndArray
  <2>1. Bracket("]", "end_array", ArrayLeft(Here), "AfterValue")  BY <1>6 DEF EndArray
  <2>2. MayClose("Array", "ExpectValue")
    BY <2>1, BytesAssumption DEF Bracket, Allowed, Quote, Digits
  <2>3. /\ Between(tok') /\ Between(tok) /\ Reports("end_array")
        /\ \/ /\ tok'.context_stack = Popped(tok.context_stack)
              /\ tok'.depth_stack = Popped(tok.depth_stack)
              /\ (GoesOn /\ Now("AfterValue")) \/ Fails
           \/ Fails /\ "end_array" \in Refusable
    BY <1>4, <2>1
  <2>4. tok'.context_stack = Popped(tok.context_stack) /\ tok'.depth_stack = Popped(tok.depth_stack)
        => Closes("end_array", "Array", "ExpectValue")
    BY <2>2, <2>3 DEF Closes, MayClose
  <2> QED  BY <2>3, <2>4 DEF Moves, Tells, ComesOut
<1> QED  BY <1>2, <1>3, <1>5, <1>6

\* Every token either fails or moves on in the grammar, and none leaves the
\* middle of a value where a value is not expected.
LEMMA TokenMoves ==
  ASSUME TypeOK, Reading, TokenStep
  PROVE  MidValue(tok') /\ ComesOut(Moves, Tells)
<1>0. MidValue(tok) /\ tok.context_stack \in Seq(Contexts)
  BY TypeFacts, TokenizerFields DEF Reading
<1>1. CASE StartObject \/ StartArray \/ EndObject \/ EndArray
  BY <1>1, NestsMove DEF Between, MidValue
<1>2. CASE Comma \/ Colon
  <2>1. /\ Between(tok)
        /\ \/ SamePlace(tok, tok') /\ Fails
           \/ /\ GoesOn
              /\ \/ /\ Comma /\ tok.state = "AfterValue" /\ tok.context_stack # <<>>
                    /\ Expects(tok, IF Inside("Object") THEN "ExpectKey" ELSE "ExpectValue")
                 \/ /\ Colon /\ tok.state = "ExpectColon"
                    /\ Expects(tok, "ExpectValue")
    BY <1>2, SeparatorPlace DEF Between
  <2>2. UNCHANGED events  BY <1>2 DEF Comma, Colon
  <2>3. CASE SamePlace(tok, tok') /\ Fails
    BY <1>0, <2>2, <2>3 DEF SamePlace, MidValue, ComesOut, Tells, Silent, StacksStay
  <2>4. CASE GoesOn /\ tok.state = "ExpectColon" /\ Expects(tok, "ExpectValue")
    <3>1. Silent /\ Now("ExpectValue")
      BY <2>1, <2>2, <2>4 DEF Expects, Between, Now, Silent, StacksStay
    <3> QED  BY <2>1, <2>4, <3>1 DEF Moves, Now, Between, MidValue, ComesOut
  <2>5. CASE /\ GoesOn /\ tok.state = "AfterValue" /\ tok.context_stack # <<>>
             /\ Expects(tok, IF Inside("Object") THEN "ExpectKey" ELSE "ExpectValue")
    <3>1. ~Inside("Object") => Inside("Array")
      <4>1. Top(tok.context_stack) \in Contexts  BY <1>0, <2>5, PoppedAndTop
      <4> QED  BY <2>5, <4>1 DEF Inside, Contexts
    <3>2. Silent /\ Between(tok')  BY <2>1, <2>2, <2>5 DEF Expects, Silent, StacksStay, Between
    <3>3. \/ Inside("Object") /\ Now("ExpectKey")
          \/ Inside("Array") /\ Now("ExpectValue")
      BY <2>5, <3>1, <3>2 DEF Expects, Now
    <3>4. MidValue(tok')  BY <3>2 DEF Between, MidValue
    <3> QED  BY <2>1, <2>5, <3>2, <3>3, <3>4 DEF Moves, ComesOut
  <2> QED  BY <2>1, <2>3, <2>4, <2>5
<1>3. ASSUME NEW b \in DOMAIN Literals, Literal(b)
      PROVE  MidValue(tok') /\ ComesOut(Moves, Tells)
  <2>1. /\ ~tok.in_string /\ tok.stage = "None" /\ tok.state = "ExpectValue"
        /\ \/ SamePlace(tok, tok') /\ Fails /\ UNCHANGED events
           \/ /\ Expects(tok, "AfterValue") /\ (GoesOn \/ Fails)
              /\ Notify("literal", <<b>>, loc')
    BY <1>3, LiteralPlace
  <2>2. CASE SamePlace(tok, tok') /\ Fails /\ UNCHANGED events
    BY <1>0, <2>2 DEF SamePlace, MidValue, ComesOut, Tells, Silent, StacksStay
  <2>3. CASE Expects(tok, "AfterValue") /\ (GoesOn \/ Fails) /\ Notify("literal", <<b>>, loc')
    <3>1. Scalar("literal") /\ Now("AfterValue") /\ MidValue(tok')
      BY <2>1, <2>3 DEF Expects, Between, Scalar, Now, Reports, StacksStay, MidValue
    <3> QED  BY <2>3, <3>1 DEF Moves, Tells, ComesOut
  <2> QED  BY <2>1, <2>2, <2>3
<1>4. CASE NumberStep /\ ~NumberWrong
  <2>1. /\ ~tok.in_string /\ ~tok'.in_string /\ StacksStay
        /\ \/ /\ tok.stage # "None" /\ tok'.state = "AfterValue" /\ tok'.stage = "None"
              /\ (GoesOn \/ Fails) /\ Notify("number_value", tok.number, loc')
           \/ /\ tok'.state = tok.state /\ UNCHANGED events /\ (GoesOn \/ Fails)
              /\ (tok.stage # "None" \/ tok.state = "ExpectValue")
    BY <1>4, NumberPlace DEF StacksStay
  <2>2. tok.state = "ExpectValue"  BY <1>0, <2>1 DEF MidValue
  <2>3. CASE tok'.state = "AfterValue" /\ tok'.stage = "None" /\ Notify("number_value", tok.number, loc')
    <3>1. Scalar("number_value") /\ Now("AfterValue") /\ MidValue(tok')
      BY <2>1, <2>2, <2>3 DEF Between, Scalar, Now, Reports, MidValue
    <3> QED  BY <2>1, <3>1 DEF Moves, Tells, ComesOut
  <2>4. CASE tok'.state = tok.state /\ UNCHANGED events
    <3>1. Silent /\ MidValue(tok')  BY <2>1, <2>2, <2>4 DEF Silent, MidValue
    <3> QED  BY <2>1, <2>2, <2>4, <3>1 DEF Moves, Tells, ComesOut
  <2> QED  BY <2>1, <2>3, <2>4
<1>5. CASE StringStart \/ StringEnd
  <2>1. /\ StacksStay /\ tok'.stage = tok.stage
        /\ \/ /\ StringStart /\ Between(tok) /\ tok.state = "ExpectValue" /\ tok'.state = "ExpectValue"
              /\ Notify("start_string_value", <<>>, loc')
              /\ (GoesOn /\ tok'.in_string) \/ Fails
           \/ /\ StringEnd /\ call.pc = "string" /\ ~tok'.in_string /\ tok'.state = "AfterValue"
              /\ Notify("end_string_value", <<>>, loc')
              /\ GoesOn \/ Fails
    BY <1>5, StringPlace DEF StacksStay, Between
  <2>2. CASE /\ Between(tok) /\ tok.state = "ExpectValue" /\ tok'.state = "ExpectValue"
             /\ Notify("start_string_value", <<>>, loc')
             /\ (GoesOn /\ tok'.in_string) \/ Fails
    <3>1. MidValue(tok')  BY <2>1, <2>2 DEF MidValue, Between
    <3>2. StringBegins  BY <2>1, <2>2 DEF StringBegins, Scalar, Between, Reports
    <3> QED  BY <2>2, <3>1, <3>2 DEF Moves, Tells, ComesOut
  <2>3. CASE /\ call.pc = "string" /\ ~tok'.in_string /\ tok'.state = "AfterValue"
             /\ Notify("end_string_value", <<>>, loc')
             /\ GoesOn \/ Fails
    <3>1. tok.in_string  BY <2>3 DEF Reading, ReadsString
    <3>2. tok.stage = "None"  BY <1>0, <3>1 DEF MidValue
    <3>3. StringEnds /\ Now("AfterValue") /\ MidValue(tok')
      BY <2>1, <2>3, <3>1, <3>2 DEF Between, StringEnds, Now, Reports, MidValue
    <3> QED  BY <2>3, <3>3 DEF Moves, Tells, ComesOut
  <2> QED  BY <2>1, <2>2, <2>3
<1>6. CASE KeyDone
  <2>1. /\ ReadingKey
        /\ \/ SamePlace(tok, tok') /\ Fails /\ UNCHANGED events
           \/ /\ Notify("key", KeyText, loc')
              /\ \/ Expects(tok, "ExpectColon") /\ GoesOn
                 \/ SamePlace(tok, tok') /\ Fails
    BY <1>6, KeyPlace
  <2>2. Between(tok) /\ tok.state = "ExpectKey"  BY <2>1 DEF Reading, Between
  <2>3. CASE SamePlace(tok, tok') /\ Fails
    <3>1. MidValue(tok') /\ StacksStay  BY <1>0, <2>3 DEF SamePlace, MidValue, StacksStay
    <3>2. UNCHANGED events \/ Reports("key")  BY <2>1 DEF Reports
    <3>3. Silent \/ Names  BY <2>2, <3>1, <3>2 DEF Silent, Names
    <3> QED  BY <2>3, <3>1, <3>3 DEF Tells, ComesOut
  <2>4. CASE Notify("key", KeyText, loc') /\ Expects(tok, "ExpectColon") /\ GoesOn
    <3>1. Names /\ Now("ExpectColon")
      BY <2>2, <2>4 DEF Expects, Reports, Names, StacksStay, Now, Between
    <3> QED  BY <2>4, <3>1 DEF Now, Between, MidValue, Moves, ComesOut
  <2> QED  BY <2>1, <2>3, <2>4
<1> QED  BY <1>1, <1>2, <1>3, <1>4, <1>5, <1>6 DEF TokenStep

-----------------------------------------------------------------------------
(* What the other steps do to the place in the grammar                     *)

\* Before there is a tokenizer nothing has been read or reported.
AtStart(t) == SamePlace(NewTokenizer(FALSE, 0), t)
Fresh ==
  /\ call.pc \in InTokenizer => parser.live
  /\ ~parser.live => events = <<>> /\ AtStart(tok)

\* The verdict is open, and the call in progress has not failed.
Running == verdict = "open" /\ call.error = "none"

\* A step that leaves the place in the grammar alone, or begins anew.
Outside ==
  /\ UNCHANGED call \/ (call'.key = "none" /\ ~ReadsString(call'))
  /\ \/ events' = <<>> /\ AtStart(tok')
     \/ UNCHANGED events /\ SamePlace(tok, tok') /\ (Running' => Running)

\* A new tokenizer is at the start.
LEMMA NewAtStart ==
  ASSUME NEW reject, NEW chunk, NEW t, AtStart(t)
  PROVE  AtStart(NewTokenizer(reject, chunk)) /\ SamePlace(t, NewTokenizer(reject, chunk))
BY DEF AtStart, SamePlace, NewTokenizer

\* Between two tokens no string is read.
LEMMA NoneReading ==
  ASSUME NEW c, c.key = "none", c.pc \in {"idle", "loop", "fed", "finish"}
  PROVE  ~ReadsString(c)
BY DEF ReadsString

\* A call that begins finds the tokenizer where it was, or a new one.
LEMMA FeedPlace ==
  ASSUME TypeOK, Fresh, CallState, NEW op, Idle, Feed(op)
  PROVE  Outside /\ Fresh'
<1> DEFINE counted == [parser EXCEPT !.document_length = DocumentLength]
           bom == IF parser.checked_bom THEN 0 ELSE ByteOrderMark(ring)
           live == ~DocumentTooLong /\ bom >= 0
<1>1. /\ UNCHANGED <<events, verdict>>
      /\ parser' = IF live THEN [counted EXCEPT !.checked_bom = TRUE, !.live = TRUE,
                                                !.closed = @ \/ op = "close"]
                   ELSE [counted EXCEPT !.closed = @ \/ op = "close"]
      /\ tok' = IF live /\ ~parser.live
                  THEN NewTokenizer(parser.reject_duplicate_keys, parser.string_chunk_size)
                  ELSE tok
  BY DEF Feed
<1>2. /\ call'.key = "none" /\ call'.pc \in {"loop", "fed"}
      /\ call'.pc = "loop" => live
  <2>1. bom \in {More, Bad} \/ bom >= 0  BY DEF ByteOrderMark, More, Bad
  <2> QED  BY <2>1 DEF Feed, Returned, More, Bad
<1>3. IF live THEN parser'.live ELSE parser'.live = parser.live
  <2>1. DocumentLength \in Nat  BY CallerFacts DEF DocumentLength, FreshBytes
  <2>2. counted \in Parsers /\ counted.live = parser.live  BY <2>1, CallerFacts, Zenon DEF Parsers
  <2> HIDE DEF counted, live
  <2>3. CASE live
    <3>1. parser' = [counted EXCEPT !.checked_bom = TRUE, !.live = TRUE, !.closed = @ \/ op = "close"]
      BY <1>1, <2>3
    <3>2. parser'.live = TRUE  BY <2>2, <3>1, Zenon DEF Parsers
    <3> QED  BY <2>3, <3>2
  <2>4. CASE ~live
    <3>1. parser' = [counted EXCEPT !.closed = @ \/ op = "close"]  BY <1>1, <2>4
    <3>2. parser'.live = counted.live  BY <2>2, <3>1, Zenon DEF Parsers
    <3> QED  BY <2>2, <2>4, <3>2
  <2> QED  BY <2>3, <2>4
<1> HIDE DEF live
<1>4. SamePlace(tok, tok') /\ (~parser.live => AtStart(tok'))
  BY <1>1, NewAtStart, PlaceKept, TypeFacts DEF Fresh
<1>5. Running' => Running  BY <1>1 DEF Running, CallState
<1>6. Fresh'
  <2>1. call'.pc \in InTokenizer => parser'.live  BY <1>2, <1>3 DEF InTokenizer
  <2>2. ~parser'.live => ~parser.live
    BY <1>3, CallerFacts DEF Parsers
  <2> QED  BY <1>1, <1>4, <2>1, <2>2 DEF Fresh
<1> QED  BY <1>1, <1>2, <1>4, <1>5, <1>6, NoneReading DEF Outside

\* The steps outside Tokenizer::receive, but for a number that close ends.
LEMMA OutsidePlace ==
  ASSUME TypeOK, Fresh, CallState,
         FeedReturns \/ CloseUnfinished \/ CloseReturns \/ CallerStep \/ UNCHANGED vars
  PROVE  Outside /\ Fresh'
<1>0. /\ SamePlace(tok, tok) /\ call \in Calls /\ parser \in Parsers
      /\ call.error \in Errors
  BY PlaceKept, TypeFacts, CallFields, CallerFacts
<1>1. CASE Receive \/ Close  BY <1>1, FeedPlace DEF Receive, Close
<1>2. ASSUME UNCHANGED <<tok, events>>, parser'.live = parser.live, Running' => Running,
             \/ UNCHANGED call
             \/ call'.key = "none" /\ call'.pc \in {"idle", "finish"}
      PROVE  Outside /\ Fresh'
  BY <1>0, <1>2, NoneReading DEF Outside, Fresh, InTokenizer
<1>3. CASE FeedReturns
  <2>1. parser'.live = parser.live  BY <1>0, <1>3, Zenon DEF FeedReturns, Parsers
  <2>2. /\ UNCHANGED <<tok, events>>
        /\ call'.key = "none" /\ call'.pc \in {"idle", "finish"}
    BY <1>3 DEF FeedReturns, Returned
  <2>3. verdict' = "open" => verdict = "open" /\ call.error = "none"
    BY <1>0, <1>3 DEF FeedReturns, Judged, Errors
  <2> QED  BY <1>2, <2>1, <2>2, <2>3 DEF Running
<1>4. CASE CloseUnfinished \/ CloseReturns
  <2>1. UNCHANGED <<tok, events, parser>> /\ \E result \in {"accepted", "syntax"} : Judge(result)
    BY <1>4 DEF CloseUnfinished, CloseReturns, Complete
  <2>2. call'.key = "none" /\ call'.pc = "idle" /\ verdict' # "open"
    BY <2>1 DEF Judge, Judged, Returned
  <2> QED  BY <1>2, <2>1, <2>2 DEF Running
<1>5. CASE CloseEmpty \/ ReceiveNothing \/ CloseAgain
  <2>1. UNCHANGED <<tok, events, verdict>> /\ Idle
    BY <1>5 DEF CloseEmpty, ReceiveNothing, CloseAgain
  <2>2. parser'.live = parser.live
    BY <1>0, <1>5, Zenon DEF CloseEmpty, ReceiveNothing, CloseAgain, Parsers
  <2>3. call'.key = "none" /\ call'.pc \in {"idle", "finish"}
    BY <1>5 DEF CloseEmpty, ReceiveNothing, CloseAgain, Returned
  <2> QED  BY <1>2, <2>1, <2>2, <2>3 DEF Running, CallState
<1>6. CASE Write \/ SetLimits \/ SetRejectDuplicateKeys \/ UNCHANGED vars
  <2>1. UNCHANGED <<tok, events, verdict, call>>
    BY <1>6 DEF Write, SetLimits, SetRejectDuplicateKeys, vars
  <2>2. parser'.live = parser.live
    BY <1>0, <1>6, Zenon DEF Write, SetLimits, SetRejectDuplicateKeys, vars, Parsers
  <2> QED  BY <1>2, <2>1, <2>2 DEF Running
<1>7. CASE SetStringChunkSize
  <2>1. PICK n : /\ parser' = [parser EXCEPT !.string_chunk_size = n]
                 /\ tok' = IF parser.live THEN [tok EXCEPT !.chunk_size = n] ELSE tok
    BY <1>7 DEF SetStringChunkSize
  <2>2. parser'.live = parser.live  BY <1>0, <2>1, Zenon DEF Parsers
  <2>3. SamePlace(tok, [tok EXCEPT !.chunk_size = n])
    BY TypeFacts, Zenon DEF SamePlace, Tokenizers
  <2>4. SamePlace(tok, tok') /\ (~parser.live => tok' = tok)  BY <1>0, <2>1, <2>3
  <2>5. UNCHANGED <<call, events, verdict>>  BY <1>7 DEF SetStringChunkSize
  <2> QED  BY <2>2, <2>4, <2>5 DEF Outside, Fresh, Running
<1>8. CASE Reset
  <2>1. /\ events' = <<>> /\ call' = Returned("none", "none")
        /\ tok' = NewTokenizer(parser.reject_duplicate_keys, parser.string_chunk_size)
    BY <1>8 DEF Reset
  <2>2. AtStart(tok')  BY <2>1 DEF AtStart, SamePlace, NewTokenizer
  <2> QED  BY <2>1, <2>2, NoneReading DEF Outside, Fresh, Returned, InTokenizer
<1> QED  BY <1>1, <1>3, <1>4, <1>5, <1>6, <1>7, <1>8 DEF CallerStep

\* Fresh and Reading hold to begin with and are kept.
LEMMA ReadingKept ==
  ASSUME TypeOK, CallState, Fresh, Reading, [Next]_vars
  PROVE  Fresh' /\ Reading'
<1>0. SamePlace(tok, tok) /\ call \in Calls /\ CallInRing(call)  BY PlaceKept, TypeFacts
<1>1. CASE TokenizerStep /\ UNCHANGED <<parser, doc, verdict>>
  <2>1. parser.live /\ UNCHANGED parser  BY <1>0, <1>1, TokenizerSteps DEF Fresh
  <2>2. Fresh'  BY <2>1 DEF Fresh
  <2>3. CASE QuietStep
    <3>1. SamePlace(tok, tok')  BY <2>3, QuietPlace
    <3>2. /\ ReadsString(call') => ReadsString(call) \/ tok.in_string
          /\ call'.key # "none" => ReadingKey \/ AtKey
      BY <2>3, QuietCall
    <3>3. AtKey => ~tok.in_string /\ tok.stage = "None" /\ tok.state = "ExpectKey"
      BY DEF AtKey, Looking, BetweenTokens
    <3> QED  BY <2>2, <3>1, <3>2, <3>3 DEF SamePlace, Reading, ReadingKey, MidValue
  <2>4. CASE TokenStep
    <3>1. MidValue(tok') /\ (GoesOn \/ Fails)  BY <2>4, TokenMoves DEF ComesOut
    <3>2. call'.key = "none" /\ ~ReadsString(call')
      BY <3>1, NoneReading DEF GoesOn, Fails
    <3> QED  BY <2>2, <3>1, <3>2 DEF Reading, ReadingKey
  <2> QED  BY <1>1, <2>3, <2>4, StepKinds
<1>2. CASE FeedReturns \/ CloseUnfinished \/ CloseReturns \/ CallerStep \/ UNCHANGED vars
  <2>1. Outside /\ Fresh'  BY <1>2, OutsidePlace
  <2>2. MidValue(tok')
    BY <2>1 DEF Outside, Reading, AtStart, NewTokenizer, SamePlace, MidValue
  <2>3. CASE call'.key = "none" /\ ~ReadsString(call')
    BY <2>1, <2>2, <2>3 DEF Reading, ReadingKey
  <2>4. CASE UNCHANGED call
    <3>1. UNCHANGED vars \/ call.pc \in {"idle", "fed", "finish"}
      BY <1>2 DEF FeedReturns, CloseUnfinished, CloseReturns, CallerStep, Write, Receive,
         ReceiveNothing, Close, CloseEmpty, CloseAgain, SetLimits, SetStringChunkSize,
         SetRejectDuplicateKeys, Reset, Idle
    <3>2. UNCHANGED vars \/ (~ReadsString(call) /\ ~ReadingKey)
      BY <1>0, <3>1 DEF ReadsString, ReadingKey, CallInRing
    <3>3. UNCHANGED vars => Reading'
      BY DEF vars, Reading, ReadingKey, ReadsString, MidValue
    <3> QED  BY <2>1, <2>2, <2>4, <3>2, <3>3 DEF Reading, ReadingKey
  <2> QED  BY <2>1, <2>3, <2>4 DEF Outside
<1>3. CASE CloseAfterNumber
  <2>1. /\ tok' = [tok EXCEPT !.stage = "None", !.state = "AfterValue"] /\ UNCHANGED parser
        /\ call.pc = "finish" /\ parser.live /\ ~tok.in_string
    BY <1>3 DEF CloseAfterNumber, Unfinished
  <2>2. ~tok'.in_string /\ tok'.stage = "None"  BY <2>1, TypeFacts, Zenon DEF Tokenizers
  <2>3. call'.key = "none" /\ call'.pc = "idle"
    BY <1>3 DEF CloseAfterNumber, Judge, Returned
  <2> QED  BY <2>1, <2>2, <2>3, NoneReading DEF Reading, ReadingKey, MidValue, Fresh, InTokenizer
<1> QED  BY <1>1, <1>2, <1>3 DEF Next, CallStep

\* Where a call is fits what the tokenizer reads, always.
LEMMA ReadingHolds == Spec => [](Fresh /\ Reading)
<1>1. Init => Fresh /\ Reading
  <2> SUFFICES ASSUME Init  PROVE Fresh /\ Reading  OBVIOUS
  <2>1. events = <<>> /\ call = Returned("none", "none")
        /\ \E reject, chunk : tok = NewTokenizer(reject, chunk)
    BY DEF Init
  <2>2. call.key = "none" /\ call.pc = "idle"  BY <2>1 DEF Returned
  <2>3. AtStart(tok) /\ MidValue(tok)
    BY <2>1 DEF AtStart, SamePlace, MidValue, NewTokenizer
  <2> QED  BY <2>1, <2>2, <2>3, NoneReading DEF Fresh, Reading, ReadingKey, InTokenizer
<1> QED  BY <1>1, ReadingKept, TypeCorrect, CallStateHolds, PTL DEF Spec

-----------------------------------------------------------------------------
\* The grammar state fits the stacks, whatever the settings are and however the
\* document is cut: where a key, or the colon after one, is expected, the
\* innermost open value is an object (process_token checks the state alone
\* when it decides that a quote begins a key).
THEOREM KeysInObjects == Spec => []KeysOnlyInObjects
<1>1. Init => KeysOnlyInObjects
  BY DEF Init, KeysOnlyInObjects, NewTokenizer
<1>2. ASSUME TypeOK, CallState, Fresh, Reading, KeysOnlyInObjects, [Next]_vars
      PROVE  KeysOnlyInObjects'
  <2> DEFINE Fits(t) == t.state \in {"ExpectKey", "ExpectColon"} =>
                          t.context_stack # <<>> /\ Top(t.context_stack) = "Object"
  <2>1. (Running => Fits(tok)) /\ ((Running' => Fits(tok')) => KeysOnlyInObjects')
    BY <1>2 DEF KeysOnlyInObjects, Running
  <2>2. \A t, u : SamePlace(t, u) /\ Fits(t) => Fits(u)  BY DEF SamePlace
  <2>3. CASE TokenizerStep /\ UNCHANGED <<parser, doc, verdict>>
    <3>1. Running' => Running
      <4>1. call \in Calls /\ CallInRing(call)  BY <1>2, TypeFacts
      <4>2. call.pc \in InTokenizer  BY <2>3, <4>1, TokenizerSteps
      <4> QED  BY <1>2, <2>3, <4>2 DEF CallState, Running, InTokenizer
    <3>2. CASE QuietStep  BY <1>2, <2>1, <2>2, <3>1, <3>2, QuietPlace
    <3>3. CASE TokenStep
      <4>1. Fails => ~Running'  BY DEF Fails, Running
      <4>2. CASE Moves
        <5>1. CASE tok'.state \notin {"ExpectKey", "ExpectColon"}  BY <2>1, <5>1
        <5>2. CASE Silent /\ Inside("Object")
          BY <2>1, <5>2 DEF Silent, StacksStay, Inside
        <5>3. CASE Opens("start_object", "Object", "StartObject")
          <6>1. tok.context_stack \in Seq(Contexts)  BY <1>2, TypeFacts, TokenizerFields
          <6>2. Append(tok.context_stack, "Object") # <<>>
                /\ Top(Append(tok.context_stack, "Object")) = "Object"
            BY <6>1, AppendProperties DEF Top, Contexts
          <6> QED  BY <2>1, <5>3, <6>2 DEF Opens
        <5>4. CASE Names
          BY <2>1, <3>1, <5>4 DEF Names, StacksStay
        <5> QED  BY <4>2, <5>1, <5>2, <5>3, <5>4 DEF Moves, Now
      <4> QED  BY <1>2, <2>1, <3>3, <4>1, <4>2, TokenMoves DEF ComesOut
    <3> QED  BY <2>3, <3>2, <3>3, StepKinds
  <2>4. CASE FeedReturns \/ CloseUnfinished \/ CloseReturns \/ CallerStep \/ UNCHANGED vars
    <3>1. Outside  BY <1>2, <2>4, OutsidePlace
    <3>2. AtStart(tok') => Fits(tok')  BY DEF AtStart, SamePlace, NewTokenizer
    <3> QED  BY <2>1, <2>2, <3>1, <3>2 DEF Outside
  <2>5. CASE CloseAfterNumber
    <3>1. verdict' # "open"  BY <2>5 DEF CloseAfterNumber, Judge, Judged, Complete
    <3> QED  BY <2>1, <3>1 DEF Running
  <2> QED  BY <1>2, <2>3, <2>4, <2>5 DEF Next, CallStep
<1> QED
  BY <1>1, <1>2, TypeCorrect, CallStateHolds, ReadingHolds, PTL DEF Spec
==============================================================================
