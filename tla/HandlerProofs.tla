---------------------------- MODULE HandlerProofs ----------------------------
(***************************************************************************)
(* The parser implements the protocol of ContentHandler: the callbacks     *)
(* come in a legal order, for every document, cut, limit and setting.      *)
(* StackProofs says what every step does to the tokenizer's place in the   *)
(* grammar; here the place is related to the last callback.  Then: tokens  *)
(* are reported at positions that advance, and no object is given a key    *)
(* twice, nor refused one that it has not been given.                      *)
(***************************************************************************)
EXTENDS TextProofs, WellFoundedInduction

-----------------------------------------------------------------------------
(* The last callback that is not whitespace                                *)

\* Every set of natural numbers that is not empty has a least member, and if
\* it is bounded a greatest one.
LEMMA NatLeast ==
  ASSUME NEW T, T \subseteq Nat, T # {}
  PROVE  \E x \in T : \A y \in T : x <= y
<1>1. IsWellFoundedOn(OpToRel(<, Nat), Nat)  BY NatLessThanWellFounded
<1>2. PICK x \in T : \A y \in T : ~(<<y, x>> \in OpToRel(<, Nat))
  BY <1>1, WFMin
<1>3. \A y \in T : ~(y < x)  BY <1>2 DEF OpToRel
<1>4. \A y \in T : y \in Nat /\ ~(y < x) /\ x \in Nat  BY <1>3
<1>5. \A y \in T : x <= y  BY <1>4
<1> QED  BY <1>5

\* A bounded set of natural numbers that is not empty has a greatest member.
LEMMA NatGreatest ==
  ASSUME NEW n \in Nat, NEW T, T \subseteq 1 .. n, T # {}
  PROVE  \E x \in T : \A y \in T : y <= x
<1> DEFINE U == {n - y : y \in T}
<1>0. \A y \in T : n - y \in U /\ y \in Nat /\ n - y \in Nat  OBVIOUS
<1>1. U \subseteq Nat /\ U # {}  BY <1>0
<1> HIDE DEF U
<1>2. PICK u \in U : \A v \in U : u <= v  BY <1>1, NatLeast
<1>3. PICK x \in T : u = n - x  BY <1>2 DEF U
<1>4. ASSUME NEW y \in T  PROVE y <= x
  <2>1. n - x <= n - y  BY <1>0, <1>2, <1>3
  <2> QED  BY <1>0, <2>1
<1> QED  BY <1>3, <1>4

\* LastToken, of any history s.
TokensOf(s) == {i \in DOMAIN s : s[i].ev # "whitespace"}
LastOf(s) ==
  IF TokensOf(s) = {} THEN "none"
  ELSE s[CHOOSE i \in TokensOf(s) : \A j \in TokensOf(s) : j <= i].ev

\* LastToken, of the callbacks before and after a step.
LEMMA LastTokenIs == LastToken = LastOf(events) /\ LastToken' = LastOf(events')
<1>1. DOMAIN events \ EventNumbers({"whitespace"}) = TokensOf(events)
  BY DEF EventNumbers, TokensOf
<1>2. (DOMAIN events \ EventNumbers({"whitespace"}))' = TokensOf(events')
  BY DEF EventNumbers, TokensOf
<1>3. LastToken = LastOf(events)
  <2> DEFINE tokens == DOMAIN events \ EventNumbers({"whitespace"})
  <2>1. LastToken = IF tokens = {} THEN "none"
                    ELSE events[CHOOSE i \in tokens : \A j \in tokens : j <= i].ev
    BY DEF LastToken
  <2> HIDE DEF tokens
  <2>2. tokens = TokensOf(events)  BY <1>1 DEF tokens
  <2> QED  BY <2>1, <2>2 DEF LastOf
<1>4. LastToken' = LastOf(events')
  <2> DEFINE tokens == DOMAIN events \ EventNumbers({"whitespace"})
  <2>1. LastToken' = IF tokens' = {} THEN "none"
                     ELSE events'[CHOOSE i \in tokens' : \A j \in tokens' : j <= i].ev
    BY DEF LastToken
  <2> HIDE DEF tokens
  <2>2. tokens' = TokensOf(events')  BY <1>2 DEF tokens
  <2> QED  BY <2>1, <2>2 DEF LastOf
<1> QED  BY <1>3, <1>4

\* A callback becomes the last one, unless it is about whitespace.
LEMMA LastAppended ==
  ASSUME events \in Seq(Events), NEW ev, Reports(ev)
  PROVE  LastToken' = IF ev = "whitespace" THEN LastToken ELSE ev
<1> DEFINE s == events
           n == Len(s)
<1>1. PICK e : e.ev = ev /\ events' = Append(s, e)  BY DEF Reports, Notify
<1>2. n \in Nat /\ DOMAIN s = 1 .. n  OBVIOUS
<1>3. /\ DOMAIN events' = 1 .. n + 1 /\ events'[n + 1] = e
      /\ \A i \in 1 .. n : events'[i] = s[i]
  BY <1>1, <1>2, AppendProperties
<1>4. CASE ev # "whitespace"
  <2>1. n + 1 \in TokensOf(events') /\ TokensOf(events') \subseteq 1 .. n + 1
    BY <1>1, <1>2, <1>3, <1>4 DEF TokensOf
  <2>2. \A i \in TokensOf(events') : (\A j \in TokensOf(events') : j <= i) <=> i = n + 1
    BY <1>2, <2>1
  <2>3. (CHOOSE i \in TokensOf(events') : \A j \in TokensOf(events') : j <= i) = n + 1
    BY <2>1, <2>2
  <2>4. LastOf(events') = events'[n + 1].ev  BY <2>1, <2>3 DEF LastOf
  <2> QED  BY <1>1, <1>3, <1>4, <2>4, LastTokenIs
<1>5. CASE ev = "whitespace"
  <2>1. TokensOf(events') = TokensOf(s) /\ TokensOf(s) \subseteq 1 .. n
    BY <1>1, <1>2, <1>3, <1>5 DEF TokensOf
  <2>2. CASE TokensOf(s) = {}  BY <1>5, <2>1, <2>2, LastTokenIs DEF LastOf
  <2>3. CASE TokensOf(s) # {}
    <3> DEFINE m == CHOOSE i \in TokensOf(s) : \A j \in TokensOf(s) : j <= i
    <3>1. m \in TokensOf(s)  BY <1>2, <2>1, <2>3, NatGreatest
    <3>2. events'[m] = s[m]  BY <1>3, <2>1, <3>1
    <3> QED  BY <1>5, <2>1, <2>3, <3>2, LastTokenIs DEF LastOf
  <2> QED  BY <2>2, <2>3
<1> QED  BY <1>4, <1>5

-----------------------------------------------------------------------------
(* What the steps that read no token tell the handler                      *)

\* Such a step reports nothing, whitespace, or text of the string being read.
LEMMA QuietTells ==
  ASSUME TypeOK, QuietStep
  PROVE  \/ UNCHANGED events
         \/ Reports("whitespace")
         \/ Reports("string_value_content") /\ ReadsString(call)
<1>1. CASE ReportWhitespace
  BY <1>1 DEF ReportWhitespace, Reports
<1>2. CASE FlushChars
  <2>1. call.pc = "string" => call.key = "none"  BY TypeFacts DEF CallInRing
  <2>2. ReadsString(call)
    BY <1>2 DEF FlushChars, FlushDue, AtStringEnd, AtEscape, AtStringStop, ReadsString, ReadingKey
  <2> QED  BY <1>2, <2>2 DEF FlushChars, Reports
<1> QED  BY <1>1, <1>2, QuietEvents

-----------------------------------------------------------------------------
(* The place in the grammar and the last callback                          *)

Innermost(stack, nest) == stack # <<>> /\ stack[Len(stack)] = nest

ValueEnds == {"literal", "number_value", "end_string_value", "end_object", "end_array"}

\* What the handler has heard last of a tokenizer that is where t is.
Heard(t, last) ==
  IF t.in_string THEN last \in {"start_string_value", "string_value_content"}
  ELSE /\ t.state = "ExpectValue" =>
            \/ t.depth_stack = <<>> /\ last = "none"
            \/ Innermost(t.depth_stack, "StartObject") /\ last = "key"
            \/ Innermost(t.depth_stack, "StartArray") /\ last \in {"start_array"} \cup ValueEnds
       /\ t.state = "ExpectKey" =>
            Innermost(t.depth_stack, "StartObject") /\ last \in {"start_object"} \cup ValueEnds
       /\ t.state = "ExpectColon" => Innermost(t.depth_stack, "StartObject") /\ last = "key"
       /\ t.state = "AfterValue" => last \in ValueEnds

\* Until a call fails or the document ends, the last callback fits the place.
Told == Running => Heard(tok, LastToken)

\* The top of depth_stack tells which nest is the innermost.
LEMMA TopsMatch ==
  ASSUME TypeOK, StacksAgree
  PROVE  /\ Inside("Object") => Innermost(tok.depth_stack, "StartObject")
         /\ Inside("Array") => Innermost(tok.depth_stack, "StartArray")
<1>1. tok.context_stack \in Seq(Contexts) /\ tok.depth_stack \in Seq(NestTokens)
  BY TypeFacts, TokenizerFields
<1>2. ASSUME tok.context_stack # <<>>
      PROVE  /\ tok.depth_stack # <<>> /\ Top(tok.depth_stack) \in NestTokens
             /\ Matches(Top(tok.depth_stack), Top(tok.context_stack))
  <2>1. Len(tok.context_stack) \in Nat \ {0}  BY <1>1, <1>2, PoppedAndTop
  <2>2. Len(tok.depth_stack) = Len(tok.context_stack)  BY DEF StacksAgree
  <2>3. tok.depth_stack # <<>>  BY <1>1, <2>1, <2>2
  <2>4. Len(tok.depth_stack) \in DOMAIN tok.depth_stack  BY <1>1, <2>1, <2>2
  <2> QED  BY <1>1, <2>2, <2>3, <2>4, PoppedAndTop DEF StacksAgree, Top
<1> QED  BY <1>2 DEF Inside, Innermost, Top, Matches, NestTokens

\* An error that stops a call ends the promise about its place.
LEMMA FailsStops == ASSUME Fails  PROVE ~Running'
BY DEF Fails, Running

\* What a step of a call comes to: a legal callback or none, and a place that
\* fits what the handler has then heard.
Legal == Protocol!Callback \/ UNCHANGED Protocol!protocolVars
\* Without a callback the last one stays.
LEMMA LastKept == ASSUME UNCHANGED events  PROVE LastToken' = LastToken
BY LastTokenIs

\* What such a step reports is legal, and the place stays that of the last
\* callback.
LEMMA QuietLegal ==
  ASSUME TypeOK, Reading, QuietStep, Heard(tok, LastToken)
  PROVE  Legal /\ Heard(tok', LastToken')
<1>1. SamePlace(tok, tok')  BY QuietPlace
<1>2. CASE UNCHANGED events \/ Reports("whitespace")
  <2>1. LastToken' = LastToken  BY <1>2, LastKept, LastAppended, TypeFacts
  <2> QED  BY <1>1, <2>1 DEF Legal, Protocol!protocolVars, SamePlace, Heard
<1>3. CASE Reports("string_value_content") /\ ReadsString(call)
  <2>1. LastToken' = "string_value_content"  BY <1>3, LastAppended, TypeFacts
  <2>2. tok.in_string  BY <1>3 DEF Reading
  <2> QED
    BY <1>1, <2>1, <2>2 DEF Legal, SamePlace, Heard, Protocol!Callback, Protocol!StringContent, Protocol!InString
<1> QED  BY <1>2, <1>3, QuietTells

\* A value without nests of its own may be reported where one is expected.
LEMMA ScalarLegal ==
  ASSUME TypeOK, Heard(tok, LastToken), NEW ev, Scalar(ev)
  PROVE  /\ Protocol!ValueMayCome /\ tok'.depth_stack = tok.depth_stack
         /\ ev # "whitespace" => LastToken' = ev
<1>1. ~tok.in_string /\ tok.state = "ExpectValue" /\ StacksStay /\ Reports(ev)  BY DEF Scalar
<1>2. Protocol!ValueMayCome
  BY <1>1 DEF Heard, Innermost, Protocol!ValueMayCome, Protocol!In, ValueEnds, Protocol!ValueEnds
<1> QED  BY <1>1, <1>2, LastAppended, TypeFacts DEF StacksStay

\* Whatever a token tells the handler comes in a legal order.
LEMMA TellsLegal ==
  ASSUME TypeOK, StacksAgree, Heard(tok, LastToken), Tells  PROVE Legal
<1> USE DEF Legal, Protocol!Callback
<1>1. CASE Silent
  BY <1>1, LastKept DEF Silent, StacksStay, Protocol!protocolVars
<1>2. CASE Scalar("literal") \/ Scalar("number_value")
  BY <1>2, ScalarLegal DEF Protocol!Scalar
<1>3. CASE StringBegins
  BY <1>3, ScalarLegal DEF StringBegins, Protocol!StringBegins
<1>4. CASE StringEnds
  <2>1. LastToken' = "end_string_value"  BY <1>4, LastAppended, TypeFacts DEF StringEnds
  <2> QED
    BY <1>4, <2>1 DEF StringEnds, StacksStay, Heard, Protocol!StringEnds, Protocol!InString
<1>5. CASE Names
  <2>1. LastToken' = "key"  BY <1>5, LastAppended, TypeFacts DEF Names
  <2> QED
    BY <1>5, <2>1 DEF Names, StacksStay, Between, Heard, Innermost, Protocol!Key, Protocol!KeyMayCome,
       Protocol!In, ValueEnds, Protocol!ValueEnds
<1>6. ASSUME NEW ev \in {"start_object", "start_array"}, NEW context, NEW nest, Opens(ev, context, nest)
      PROVE  /\ Protocol!ValueMayCome /\ LastToken' = ev
             /\ tok'.depth_stack = Append(tok.depth_stack, nest)
  <2>1. LastToken' = ev  BY <1>6, LastAppended, TypeFacts DEF Opens
  <2> QED
    BY <1>6, <2>1 DEF Opens, Between, Heard, Innermost, Protocol!ValueMayCome, Protocol!In, ValueEnds,
       Protocol!ValueEnds
<1>7. CASE Opens("start_object", "Object", "StartObject") \/ Opens("start_array", "Array", "StartArray")
  BY <1>6, <1>7 DEF Protocol!Opens
<1>8. CASE Closes("end_object", "Object", "ExpectKey")
  <2>1. LastToken' = "end_object"  BY <1>8, LastAppended, TypeFacts DEF Closes
  <2>2. Innermost(tok.depth_stack, "StartObject")  BY <1>8, TopsMatch DEF Closes
  <2> QED
    BY <1>8, <2>1, <2>2 DEF Closes, Between, Heard, Innermost, Popped, Protocol!Closes,
       Protocol!KeyMayCome, Protocol!In, ValueEnds, Protocol!ValueEnds
<1>9. CASE Closes("end_array", "Array", "ExpectValue")
  <2>1. LastToken' = "end_array"  BY <1>9, LastAppended, TypeFacts DEF Closes
  <2>2. Innermost(tok.depth_stack, "StartArray")  BY <1>9, TopsMatch DEF Closes
  <2> QED
    BY <1>9, <2>1, <2>2 DEF Closes, Between, Heard, Innermost, Popped, Protocol!Closes,
       Protocol!ArrayMayEnd, Protocol!In, ValueEnds, Protocol!ValueEnds
<1> QED  BY <1>1, <1>2, <1>3, <1>4, <1>5, <1>7, <1>8, <1>9 DEF Tells

\* A step that goes on has told the handler the same as one that then failed.
LEMMA MovesTell == ASSUME Moves  PROVE Tells
BY DEF Moves, Tells

\* After a token the handler has heard what fits the new place.
LEMMA MovesHeard ==
  ASSUME TypeOK, StacksAgree, Heard(tok, LastToken), Moves  PROVE Heard(tok', LastToken')
<1>1. Silent => LastToken' = LastToken /\ tok'.depth_stack = tok.depth_stack
  BY LastKept DEF Silent, StacksStay
<1>2. CASE /\ Silent /\ Between(tok)
           /\ \/ tok.state = "AfterValue" /\ Inside("Object") /\ Now("ExpectKey")
              \/ tok.state = "AfterValue" /\ Inside("Array") /\ Now("ExpectValue")
              \/ tok.state = "ExpectColon" /\ Now("ExpectValue")
  BY <1>1, <1>2, TopsMatch DEF Between, Now, Heard
<1>3. CASE /\ Silent /\ tok.state = "ExpectValue" /\ tok'.state = "ExpectValue"
           /\ ~tok.in_string /\ ~tok'.in_string
  BY <1>1, <1>3 DEF Heard
<1>4. ASSUME NEW ev \in {"start_object", "start_array"}, NEW context, NEW nest \in NestTokens,
             Opens(ev, context, nest)
      PROVE  LastToken' = ev /\ Innermost(tok'.depth_stack, nest)
  <2>1. tok.depth_stack \in Seq(NestTokens)  BY TypeFacts, TokenizerFields
  <2>2. LastToken' = ev  BY <1>4, LastAppended, TypeFacts DEF Opens
  <2>3. tok'.depth_stack = Append(tok.depth_stack, nest)  BY <1>4 DEF Opens
  <2> QED  BY <2>1, <2>2, <2>3, AppendProperties DEF Innermost
<1>5. CASE Opens("start_object", "Object", "StartObject") /\ Now("ExpectKey")
  <2>1. LastToken' = "start_object" /\ Innermost(tok'.depth_stack, "StartObject")
    BY <1>4, <1>5 DEF NestTokens
  <2> QED  BY <1>5, <2>1 DEF Now, Between, Heard
<1>6. CASE Opens("start_array", "Array", "StartArray") /\ Now("ExpectValue")
  <2>1. LastToken' = "start_array" /\ Innermost(tok'.depth_stack, "StartArray")
    BY <1>4, <1>6 DEF NestTokens
  <2> QED  BY <1>6, <2>1 DEF Now, Between, Heard
<1>7. ASSUME NEW ev \in ValueEnds, Reports(ev), Now("AfterValue")  PROVE Heard(tok', LastToken')
  <2>1. LastToken' = ev  BY <1>7, LastAppended, TypeFacts DEF ValueEnds
  <2> QED  BY <1>7, <2>1 DEF Now, Between, Heard
<1>8. CASE \/ Closes("end_object", "Object", "ExpectKey") /\ Now("AfterValue")
           \/ Closes("end_array", "Array", "ExpectValue") /\ Now("AfterValue")
           \/ (Scalar("literal") \/ Scalar("number_value") \/ StringEnds) /\ Now("AfterValue")
  BY <1>7, <1>8 DEF Closes, Scalar, StringEnds, ValueEnds
<1>9. CASE StringBegins /\ tok'.in_string /\ tok'.state = "ExpectValue"
  <2>1. LastToken' = "start_string_value"  BY <1>9, ScalarLegal DEF StringBegins
  <2> QED  BY <1>9, <2>1 DEF Heard
<1>10. CASE Names /\ Now("ExpectColon")
  <2>1. LastToken' = "key" /\ tok'.depth_stack = tok.depth_stack
    BY <1>10, LastAppended, TypeFacts DEF Names, StacksStay
  <2> QED  BY <1>10, <2>1 DEF Names, Now, Between, Heard
<1> QED  BY <1>2, <1>3, <1>5, <1>6, <1>8, <1>9, <1>10 DEF Moves

-----------------------------------------------------------------------------
(* The parser implements the protocol                                      *)

\* Every step is a legal callback, or none, or the beginning of a document.
LEMMA AllLegal ==
  ASSUME TypeOK, StacksAgree, CallState, Fresh, Reading, Told, [Next]_vars,
         Refusable = {}, ~RetryAfterError
  PROVE  Told' /\ (Legal \/ Protocol!Restart)
<1>1. CASE TokenizerStep /\ UNCHANGED <<parser, doc, verdict>>
  <2>1. Heard(tok, LastToken)
    <3>1. call \in Calls /\ CallInRing(call)  BY TypeFacts
    <3>2. call.pc \in InTokenizer  BY <1>1, <3>1, TokenizerSteps
    <3>3. Running  BY <3>2 DEF CallState, Idle, InTokenizer, Running
    <3> QED  BY <3>3 DEF Told
  <2>2. CASE QuietStep  BY <2>1, <2>2, QuietLegal DEF Told
  <2>3. CASE TokenStep
    <3>1. (GoesOn /\ Moves) \/ (Fails /\ Tells)  BY <2>3, TokenMoves DEF ComesOut
    <3>2. Legal  BY <2>1, <3>1, MovesTell, TellsLegal
    <3>3. Told'  BY <2>1, <3>1, MovesHeard, FailsStops DEF Told
    <3> QED  BY <3>2, <3>3
  <2> QED  BY <1>1, <2>2, <2>3, StepKinds
<1>2. CASE FeedReturns \/ CloseUnfinished \/ CloseReturns \/ CallerStep \/ UNCHANGED vars
  <2>1. Outside  BY <1>2, OutsidePlace
  <2>2. CASE events' = <<>> /\ AtStart(tok')
    <3>1. LastToken' = "none"
      <4>1. TokensOf(<<>>) = {}  BY DEF TokensOf
      <4> QED  BY <2>2, <4>1, LastTokenIs DEF LastOf
    <3>2. /\ tok'.depth_stack = <<>> /\ tok'.state = "ExpectValue" /\ ~tok'.in_string
      BY <2>2 DEF AtStart, SamePlace, NewTokenizer
    <3> QED  BY <3>1, <3>2 DEF Told, Heard, Protocol!Restart, Protocol!Begin
  <2>3. CASE UNCHANGED events /\ SamePlace(tok, tok') /\ (Running' => Running)
    <3>1. LastToken' = LastToken  BY <2>3, LastKept
    <3> QED  BY <2>3, <3>1 DEF Told, SamePlace, Heard, Legal, Protocol!protocolVars
  <2> QED  BY <2>1, <2>2, <2>3 DEF Outside
<1>3. CASE CloseAfterNumber
  <2>1. /\ call.pc = "finish" /\ ~tok.in_string /\ tok.stage # "None"
        /\ tok' = [tok EXCEPT !.stage = "None", !.state = "AfterValue"]
        /\ Reports("number_value")
    BY <1>3 DEF CloseAfterNumber, Unfinished, Reports
  <2>2. tok.state = "ExpectValue"  BY <2>1 DEF Reading, MidValue
  <2>3. StacksStay  BY <2>1, TypeFacts, Zenon DEF StacksStay, Tokenizers
  <2>4. Scalar("number_value")  BY <2>1, <2>2, <2>3 DEF Scalar
  <2>5. Heard(tok, LastToken)  BY <2>1 DEF CallState, Idle, Running, Told
  <2>6. Legal  BY <2>4, <2>5, TellsLegal DEF Tells
  <2>7. verdict' # "open"  BY <1>3 DEF CloseAfterNumber, Judge, Judged, Complete
  <2> QED  BY <2>6, <2>7 DEF Told, Running
<1> QED  BY <1>1, <1>2, <1>3 DEF Next, CallStep

\* A handler that refuses nothing, under a caller that makes no call after one
\* that failed, gets its callbacks in the order ContentHandler allows: in any
\* document, cut anywhere, under any limits and settings, up to the point
\* where the document is refused.
THEOREM HandlerIsServed ==
  ASSUME Refusable = {}, ~RetryAfterError
  PROVE  Spec => HandlerProtocol
<1>1. Init => Told /\ Protocol!Begin
  <2> SUFFICES ASSUME Init  PROVE Told /\ Protocol!Begin  OBVIOUS
  <2>1. events = <<>> /\ \E reject, chunk : tok = NewTokenizer(reject, chunk)
    BY DEF Init
  <2>2. LastToken = "none"
    <3>1. TokensOf(<<>>) = {}  BY DEF TokensOf
    <3> QED  BY <2>1, <3>1, LastTokenIs DEF LastOf
  <2>3. tok.depth_stack = <<>> /\ tok.state = "ExpectValue" /\ ~tok.in_string
    BY <2>1 DEF NewTokenizer
  <2> QED  BY <2>2, <2>3 DEF Told, Heard, Protocol!Begin
<1>2. TypeOK /\ StacksAgree /\ CallState /\ (Fresh /\ Reading) /\ Told /\ [Next]_vars => Told'
  BY AllLegal
<1>3. TypeOK /\ StacksAgree /\ CallState /\ (Fresh /\ Reading) /\ Told /\ [Next]_vars
        => [Protocol!Callback \/ Protocol!Restart]_(Protocol!protocolVars)
  BY AllLegal DEF Legal
<1> QED
  BY <1>1, <1>2, <1>3, TypeCorrect, StacksAlwaysAgree, CallStateHolds, ReadingHolds, PTL
  DEF Spec, HandlerProtocol, Protocol!ProtocolSpec

-----------------------------------------------------------------------------
(* What the steps carry over: the length of the number being read, and the *)
(* keys of the objects that are open                                       *)

\* u remembers what t remembers.
Carries(t, u) ==
  /\ u.length = t.length
  /\ u.duplicate_key_stack = t.duplicate_key_stack
  /\ u.reject_duplicate_keys = t.reject_duplicate_keys

\* Carries is transitive.
LEMMA CarriesOver ==
  ASSUME NEW t, NEW u, NEW v, Carries(t, u), Carries(u, v)  PROVE Carries(t, v)
BY DEF Carries

\* What the tokenizer's updates carry over.
LEMMA Carried ==
  ASSUME NEW t \in Tokenizers
  PROVE  /\ Carries(t, t) /\ Carries(t, Counted(t)) /\ Carries(t, EnsureChars(t))
         /\ Carries(t, Disabled(t)) /\ Carries(t, ArrayEntered(t)) /\ Carries(t, ArrayLeft(t))
         /\ \A x : /\ Carries(t, [t EXCEPT !.after_cr = x]) /\ Carries(t, [t EXCEPT !.chars = x])
                   /\ Carries(t, Pushed(t, x)) /\ Carries(t, [t EXCEPT !.string_bytes = x])
                   /\ Carries(t, [t EXCEPT !.chunk_size = x])
         /\ \A x, y : /\ Carries(t, [t EXCEPT !.attempts = x, !.hits = y])
                      /\ Carries(t, [t EXCEPT !.state = x, !.after_comma = y])
                      /\ Carries(t, [t EXCEPT !.after_comma = y, !.state = x])
                      /\ Carries(t, [t EXCEPT !.in_string = x, !.string_bytes = y])
                      /\ Carries(t, [t EXCEPT !.in_string = x, !.state = y])
                      /\ Carries(t, [t EXCEPT !.stage = x, !.state = y])
<1>1. Carries(t, t) /\ Carries(t, Disabled(t))  BY Zenon DEF Carries, Disabled, Tokenizers
<1>2. Carries(t, Counted(t))
  <2> DEFINE count == IF limits.max_token_count = NoLimit THEN t.token_count ELSE t.token_count + 1
  <2>1. Counted(t) = [t EXCEPT !.seen_any_token = TRUE, !.token_count = count]  BY DEF Counted
  <2> HIDE DEF count
  <2> QED  BY <2>1, Zenon DEF Carries, Tokenizers
<1>3. Carries(t, EnsureChars(t))  BY <1>1, Zenon DEF Carries, EnsureChars, Tokenizers
<1>4. Carries(t, ArrayEntered(t)) /\ Carries(t, ArrayLeft(t))
  BY Zenon DEF Carries, ArrayEntered, ArrayLeft, Tokenizers
<1>5. ASSUME NEW x
      PROVE  /\ Carries(t, [t EXCEPT !.after_cr = x]) /\ Carries(t, [t EXCEPT !.chars = x])
             /\ Carries(t, Pushed(t, x)) /\ Carries(t, [t EXCEPT !.string_bytes = x])
             /\ Carries(t, [t EXCEPT !.chunk_size = x])
  BY Zenon DEF Carries, Pushed, Tokenizers
<1>6. ASSUME NEW x, NEW y
      PROVE  /\ Carries(t, [t EXCEPT !.attempts = x, !.hits = y])
             /\ Carries(t, [t EXCEPT !.state = x, !.after_comma = y])
             /\ Carries(t, [t EXCEPT !.after_comma = y, !.state = x])
             /\ Carries(t, [t EXCEPT !.in_string = x, !.string_bytes = y])
             /\ Carries(t, [t EXCEPT !.in_string = x, !.state = y])
             /\ Carries(t, [t EXCEPT !.stage = x, !.state = y])
  BY Zenon DEF Carries, Tokenizers
<1> QED  BY <1>1, <1>2, <1>3, <1>4, <1>5, <1>6

\* So does token_done, whether the token count is exceeded or not.
LEMMA DoneCarries ==
  ASSUME NEW t \in Tokenizers, NEW n, NEW state, NEW afterComma, TokenDone(t, n, state, afterComma)
  PROVE  Carries(t, tok')
<1>1. Counted(t) \in Tokenizers /\ Carries(t, Counted(t))  BY CountedType, Carried
<1>2. Carries(Counted(t), [Counted(t) EXCEPT !.state = state, !.after_comma = afterComma])
  BY <1>1, Carried
<1> QED  BY <1>1, <1>2, CarriesOver DEF TokenDone

\* u has no CR before it, and is in no number, unless t is.
NothingNew(t, u) == (u.after_cr => t.after_cr) /\ (u.stage # "None" => t.stage # "None")

\* These updates begin no number and leave no CR behind.
LEMMA NothingBegun ==
  ASSUME NEW t \in Tokenizers
  PROVE  /\ NothingNew(t, EnsureChars(t)) /\ NothingNew(t, Counted(t)) /\ NothingNew(t, Disabled(t))
         /\ \A x : /\ NothingNew(t, [t EXCEPT !.chars = x]) /\ NothingNew(t, Pushed(t, x))
                   /\ NothingNew(t, [t EXCEPT !.string_bytes = x]) /\ NothingNew(t, Seen(t, x))
         /\ \A x, y : /\ NothingNew(t, [t EXCEPT !.attempts = x, !.hits = y])
                      /\ NothingNew(t, [t EXCEPT !.state = x, !.after_comma = y])
                      /\ NothingNew(t, [t EXCEPT !.after_comma = y, !.state = x])
                      /\ NothingNew(t, [t EXCEPT !.in_string = x, !.string_bytes = y])
                      /\ NothingNew(t, [t EXCEPT !.in_string = x, !.state = y])
                      /\ NothingNew(t, [t EXCEPT !.stage = "None", !.state = y])
         /\ NothingNew(t, ObjectEntered(t)) /\ NothingNew(t, ObjectLeft(t))
         /\ NothingNew(t, ArrayEntered(t)) /\ NothingNew(t, ArrayLeft(t))
<1>1. NothingNew(t, Counted(t))
  <2> DEFINE count == IF limits.max_token_count = NoLimit THEN t.token_count ELSE t.token_count + 1
  <2>1. Counted(t) = [t EXCEPT !.seen_any_token = TRUE, !.token_count = count]  BY DEF Counted
  <2> HIDE DEF count
  <2> QED  BY <2>1, Zenon DEF NothingNew, Tokenizers
<1>2. NothingNew(t, EnsureChars(t)) /\ NothingNew(t, Disabled(t))
  <2>1. NothingNew(t, t)  BY DEF NothingNew
  <2> QED  BY <2>1, Zenon DEF NothingNew, EnsureChars, Disabled, Tokenizers
<1>3. ASSUME NEW x
      PROVE  /\ NothingNew(t, [t EXCEPT !.chars = x]) /\ NothingNew(t, Pushed(t, x))
             /\ NothingNew(t, [t EXCEPT !.string_bytes = x])
  BY Zenon DEF NothingNew, Pushed, Tokenizers
<1>4. ASSUME NEW x  PROVE NothingNew(t, Seen(t, x))
  BY Zenon DEF NothingNew, Seen, Tokenizers
<1>5. ASSUME NEW x, NEW y
      PROVE  /\ NothingNew(t, [t EXCEPT !.attempts = x, !.hits = y])
             /\ NothingNew(t, [t EXCEPT !.state = x, !.after_comma = y])
             /\ NothingNew(t, [t EXCEPT !.after_comma = y, !.state = x])
             /\ NothingNew(t, [t EXCEPT !.in_string = x, !.string_bytes = y])
             /\ NothingNew(t, [t EXCEPT !.in_string = x, !.state = y])
             /\ NothingNew(t, [t EXCEPT !.stage = "None", !.state = y])
  BY Zenon DEF NothingNew, Tokenizers
<1>6. /\ NothingNew(t, ObjectEntered(t)) /\ NothingNew(t, ObjectLeft(t))
      /\ NothingNew(t, ArrayEntered(t)) /\ NothingNew(t, ArrayLeft(t))
  BY Zenon DEF NothingNew, ObjectEntered, ObjectLeft, ArrayEntered, ArrayLeft, Tokenizers
<1> QED  BY <1>1, <1>2, <1>3, <1>4, <1>5, <1>6

\* Nor does token_done.
LEMMA DoneNothingNew ==
  ASSUME NEW t \in Tokenizers, NEW n, NEW state, NEW afterComma, TokenDone(t, n, state, afterComma)
  PROVE  NothingNew(t, tok')
<1>1. Counted(t) \in Tokenizers /\ NothingNew(t, Counted(t))  BY CountedType, NothingBegun
<1>2. NothingNew(Counted(t), [Counted(t) EXCEPT !.state = state, !.after_comma = afterComma])
  BY <1>1, NothingBegun
<1> QED  BY <1>1, <1>2 DEF TokenDone, NothingNew

\* Steps that read no token carry all of it over, and only whitespace is
\* remembered to have ended in a CR.
LEMMA QuietCarries ==
  ASSUME TypeOK, QuietStep
  PROVE  /\ Carries(tok, tok')
         /\ tok'.after_cr => Whitespace \/ tok.after_cr
         /\ KeyFound => ~tok'.after_cr
<1>1. /\ tok \in Tokenizers /\ Here \in Tokenizers /\ ~Here.after_cr /\ Carries(tok, Here)
  BY TypeFacts, HereType, Carried, Zenon DEF Here, Tokenizers
<1>2. \/ UNCHANGED tok
      \/ \E x : \/ tok' = [tok EXCEPT !.chars = x] \/ tok' = Pushed(tok, x)
                \/ tok' = [tok EXCEPT !.string_bytes = x]
      \/ tok' = EnsureChars(tok)
      \/ Carries(tok, tok') /\ Whitespace
      \/ StringEscape \/ KeyFound
      \/ tok' = Here
  <2>1. CASE \/ NumberWrong \/ LoopEnd \/ ReportWhitespace \/ MalformedChar
             \/ StringRun \/ StringPause \/ StringPaused \/ StringWrong
             \/ KeyRun \/ KeyRunDone \/ KeyEscapeWrong \/ KeyDoesNotFit
    BY <2>1 DEF NumberWrong, LoopEnd, ReportWhitespace, MalformedChar,
       StringRun, StringPause, StringPaused, StringWrong, KeyRun, KeyRunDone, KeyEscapeWrong,
       KeyDoesNotFit, HandlerFails
  <2>2. CASE FlushChars  BY <2>2 DEF FlushChars, HandlerFails
  <2>3. CASE \/ Refuse \/ OpenTooDeep \/ KeyIncomplete \/ KeyRefused
             \/ \E b \in DOMAIN Literals : LiteralIncomplete(b) \/ LiteralWrong(b)
    BY <2>3 DEF Refuse, OpenTooDeep, KeyIncomplete, KeyRefused, LiteralIncomplete, LiteralWrong
  <2>4. CASE Whitespace
    <3>1. PICK cr : tok' = [tok EXCEPT !.after_cr = cr]  BY <2>4 DEF Whitespace
    <3> QED  BY <1>1, <2>4, <3>1, Carried
  <2>5. CASE DecodeSlice \/ PushChar \/ KeyEscape
    <3>1. PICK text : tok' = Pushed(tok, text)  BY <2>5 DEF DecodeSlice, PushChar, KeyEscape
    <3> QED  BY <3>1
  <2>6. CASE ContinueString \/ StringRunDone  BY <2>6 DEF ContinueString, StringRunDone
  <2> QED
    BY <2>1, <2>2, <2>3, <2>4, <2>5, <2>6 DEF QuietStep, WhitespaceStep, DecodeStep
<1>3. ASSUME KeyFound  PROVE Carries(tok, tok') /\ ~tok'.after_cr
  <2> DEFINE empty == [EnsureChars(Here) EXCEPT !.chars = <<>>]
  <2>1. EnsureChars(Here) \in Tokenizers /\ empty \in Tokenizers  BY <1>1, BufferType, TypeFacts
  <2>2. PICK attempts, hits : tok' = [empty EXCEPT !.attempts = attempts, !.hits = hits]
    BY <1>3 DEF KeyFound
  <2>3. Carries(Here, EnsureChars(Here)) /\ Carries(EnsureChars(Here), empty) /\ Carries(empty, tok')
    BY <1>1, <2>1, <2>2, Carried
  <2>4. Carries(tok, tok')  BY <1>1, <2>3, CarriesOver
  <2>5. ~tok'.after_cr
    <3>1. NothingNew(Here, EnsureChars(Here)) /\ NothingNew(EnsureChars(Here), empty) /\ NothingNew(empty, tok')
      BY <1>1, <2>1, <2>2, NothingBegun
    <3> QED  BY <1>1, <3>1 DEF NothingNew
  <2> QED  BY <2>4, <2>5
<1>4. CASE StringEscape
  <2>1. PICK n : tok' = [Pushed(tok, Escaped) EXCEPT !.string_bytes = n]  BY <1>4 DEF StringEscape
  <2>2. tok' = [tok EXCEPT !.chars = @ \o Escaped, !.string_bytes = n]
    BY <1>1, <2>1, Zenon DEF Pushed, Tokenizers
  <2>3. Carries(tok, tok') /\ tok'.after_cr = tok.after_cr
    BY <1>1, <2>2, Zenon DEF Carries, Tokenizers
  <2> QED  BY <1>3, <2>3
<1>5. CASE UNCHANGED tok  BY <1>1, <1>3, <1>5, Carried
<1>6. CASE tok' = EnsureChars(tok)
  BY <1>1, <1>3, <1>6, Carried, NothingBegun DEF NothingNew
<1>7. ASSUME NEW x, \/ tok' = [tok EXCEPT !.chars = x] \/ tok' = Pushed(tok, x)
                    \/ tok' = [tok EXCEPT !.string_bytes = x]
      PROVE  Carries(tok, tok') /\ (tok'.after_cr => tok.after_cr)
  <2> DEFINE us == {[tok EXCEPT !.chars = x], Pushed(tok, x), [tok EXCEPT !.string_bytes = x]}
  <2>1. \A u \in us : Carries(tok, u) /\ NothingNew(tok, u)  BY <1>1, Carried, NothingBegun
  <2>2. tok' \in us  BY <1>7
  <2> HIDE DEF us
  <2> QED  BY <2>1, <2>2 DEF NothingNew
<1>8. CASE tok' = Here  BY <1>1, <1>3, <1>8
<1> QED  BY <1>1, <1>2, <1>3, <1>4, <1>5, <1>6, <1>7, <1>8

\* A number that has begun has a byte.
Lengthy == tok.stage # "None" => 1 <= tok.length

\* Only an object's brackets and keys change the keys remembered, and only
\* what follows no whitespace keeps what is remembered of a CR.
LEMMA TokenCarries ==
  ASSUME TypeOK, Lengthy, TokenStep
  PROVE  /\ tok'.after_cr => tok.after_cr /\ (~Between(tok) \/ ReadingKey \/ ReadsString(call))
         /\ Lengthy'
         /\ tok'.reject_duplicate_keys = tok.reject_duplicate_keys
         /\ \/ StartObject \/ EndObject \/ KeyDone
            \/ tok'.duplicate_key_stack = tok.duplicate_key_stack
<1>0. /\ tok \in Tokenizers /\ Here \in Tokenizers /\ ~Here.after_cr /\ Here.stage = tok.stage
      /\ Carries(tok, Here) /\ call \in Calls /\ CallInRing(call) /\ tok.length \in Nat
  BY TypeFacts, HereType, Carried, TokenizerFields, Zenon DEF Here, Tokenizers
<1>1. ASSUME NEW t \in Tokenizers, NothingNew(Here, t), NEW u, tok' = u, NothingNew(t, u), BetweenTokens
      PROVE  ~tok'.after_cr /\ Lengthy'
  <2>1. tok.stage = "None"  BY <1>1 DEF BetweenTokens
  <2> QED  BY <1>0, <1>1, <2>1 DEF NothingNew, Lengthy
<1>2. ASSUME NEW t \in Tokenizers, NothingNew(Here, t), BetweenTokens,
             \/ \E n, state, afterComma : TokenDone(t, n, state, afterComma)
             \/ tok' = t
      PROVE  ~tok'.after_cr /\ Lengthy'
  <2>1. NothingNew(t, tok')  BY <1>2, DoneNothingNew DEF NothingNew
  <2> QED  BY <1>1, <1>2, <2>1
<1>3. CASE Comma \/ Colon
  <2>1. PICK n, state, afterComma : TokenDone(Here, n, state, afterComma)  BY <1>3 DEF Comma, Colon
  <2>2. BetweenTokens  BY <1>3 DEF Comma, Colon, Looking
  <2>3. Carries(tok, tok')  BY <1>0, <2>1, DoneCarries, CarriesOver
  <2>4. NothingNew(Here, Here)  BY DEF NothingNew
  <2> QED  BY <1>0, <1>2, <2>1, <2>2, <2>3, <2>4 DEF Carries
<1>4. ASSUME NEW b, NEW ev, NEW t \in Tokenizers, NEW state, NothingNew(Here, t),
             Bracket(b, ev, t, state)
      PROVE  /\ ~tok'.after_cr /\ Lengthy'
             /\ \/ TokenDone(t, 1, state, FALSE)
                \/ tok' = Here
  <2>1. NothingNew(Here, Here) /\ BetweenTokens  BY <1>4 DEF NothingNew, Bracket, Looking
  <2>2. TokenDone(t, 1, state, FALSE) \/ tok' = Here  BY <1>4 DEF Bracket, HandlerFails
  <2> QED  BY <1>0, <1>2, <1>4, <2>1, <2>2
<1>5. CASE StartArray \/ EndArray
  <2>1. PICK b, ev, t, state :
          t \in {ArrayEntered(Here), ArrayLeft(Here)} /\ Bracket(b, ev, t, state)
    BY <1>5 DEF StartArray, EndArray
  <2>2. t \in Tokenizers /\ NothingNew(Here, t) /\ Carries(Here, t)
    BY <1>0, <2>1, NestType, NothingBegun, Carried
  <2>3. TokenDone(t, 1, state, FALSE) => Carries(t, tok')  BY <2>2, DoneCarries
  <2>4. /\ ~tok'.after_cr /\ Lengthy'
        /\ TokenDone(t, 1, state, FALSE) \/ tok' = Here
    BY <1>4, <2>1, <2>2
  <2>5. Carries(Here, tok')
    <3>1. CASE TokenDone(t, 1, state, FALSE)  BY <2>2, <2>3, <3>1, CarriesOver
    <3>2. CASE tok' = Here  BY <3>2 DEF Carries
    <3> QED  BY <2>4, <3>1, <3>2
  <2>6. Carries(tok, tok')  BY <1>0, <2>5, CarriesOver
  <2> QED  BY <2>4, <2>6 DEF Carries
<1>6. CASE StartObject \/ EndObject
  <2>1. ASSUME NEW b, NEW ev, NEW t \in Tokenizers, NEW state, NothingNew(Here, t),
               t.reject_duplicate_keys = Here.reject_duplicate_keys, Bracket(b, ev, t, state)
        PROVE  /\ ~tok'.after_cr /\ Lengthy'
               /\ tok'.reject_duplicate_keys = tok.reject_duplicate_keys
    <3>1. /\ ~tok'.after_cr /\ Lengthy'
          /\ TokenDone(t, 1, state, FALSE) \/ tok' = Here
      BY <1>4, <2>1
    <3>2. TokenDone(t, 1, state, FALSE) => Carries(t, tok')  BY <2>1, DoneCarries
    <3> QED  BY <1>0, <2>1, <3>1, <3>2 DEF Carries
  <2>2. /\ ObjectEntered(Here) \in Tokenizers /\ ObjectLeft(Here) \in Tokenizers
        /\ NothingNew(Here, ObjectEntered(Here)) /\ NothingNew(Here, ObjectLeft(Here))
    BY <1>0, NestType, NothingBegun
  <2>3. /\ ObjectEntered(Here).reject_duplicate_keys = Here.reject_duplicate_keys
        /\ ObjectLeft(Here).reject_duplicate_keys = Here.reject_duplicate_keys
    BY <1>0, Zenon DEF ObjectEntered, ObjectLeft, Tokenizers
  <2>4. CASE StartObject
    <3>1. Bracket("{", "start_object", ObjectEntered(Here), "ExpectKey")  BY <2>4 DEF StartObject
    <3> QED  BY <2>1, <2>2, <2>3, <2>4, <3>1
  <2>5. CASE EndObject
    <3>1. Bracket("}", "end_object", ObjectLeft(Here), "AfterValue")  BY <2>5 DEF EndObject
    <3> QED  BY <2>1, <2>2, <2>3, <2>5, <3>1
  <2> QED  BY <1>6, <2>4, <2>5
<1>7. CASE \E b \in DOMAIN Literals : Literal(b)
  <2> DEFINE after == [Counted(Here) EXCEPT !.after_comma = FALSE, !.state = "AfterValue"]
  <2>1. BetweenTokens /\ (tok' = Counted(Here) \/ tok' = after)
    BY <1>7 DEF Literal, Looking, HandlerFails
  <2>2. Counted(Here) \in Tokenizers /\ NothingNew(Here, Counted(Here)) /\ Carries(Here, Counted(Here))
    BY <1>0, CountedType, NothingBegun, Carried
  <2>3. NothingNew(Counted(Here), after) /\ Carries(Counted(Here), after)
    BY <2>2, NothingBegun, Carried
  <2> HIDE DEF after
  <2>4. NothingNew(Here, tok') /\ Carries(Here, tok')
    BY <2>1, <2>2, <2>3, CarriesOver DEF NothingNew
  <2>5. ~tok'.after_cr /\ Lengthy'  BY <1>0, <1>1, <2>1, <2>4 DEF NothingNew
  <2> QED  BY <1>0, <2>4, <2>5, CarriesOver DEF Carries
<1>8. CASE \E b \in Digits \cup {"-"} : NumberStart(b)
  <2>1. PICK b \in Digits \cup {"-"} :
          TokenDone([Here EXCEPT !.stage = FirstStage(b), !.number = <<b>>, !.length = 1],
                    1, tok.state, FALSE)
    BY <1>8 DEF NumberStart
  <2> DEFINE t == [Here EXCEPT !.stage = FirstStage(b), !.number = <<b>>, !.length = 1]
  <2>2. t \in Tokenizers
    <3>1. b \in Symbols  BY DEF Symbols, Digits
    <3>2. <<b>> \in Bytes  BY <3>1 DEF Bytes
    <3>3. FirstStage(b) \in NumStages  BY DEF FirstStage, NumStages
    <3> QED  BY <1>0, <3>2, <3>3, TypeFacts, Zenon DEF Tokenizers
  <2>3. /\ t.length = 1 /\ t.after_cr = Here.after_cr
        /\ t.duplicate_key_stack = Here.duplicate_key_stack
        /\ t.reject_duplicate_keys = Here.reject_duplicate_keys
    BY <1>0, Zenon DEF Tokenizers
  <2> HIDE DEF t
  <2>4. Carries(t, tok') /\ NothingNew(t, tok')  BY <2>1, <2>2, DoneCarries, DoneNothingNew DEF t
  <2> QED  BY <1>0, <2>3, <2>4 DEF Carries, NothingNew, Lengthy
<1>9. CASE NumberRun \/ NumberByte
  <2>1. PICK n, stage : n \in Nat /\ TakeNumber(n, stage) /\ InNumber
    BY <1>9 DEF NumberRun, NumberByte
  <2>2. \E x : tok' = [tok EXCEPT !.stage = stage, !.length = tok.length + n, !.number = x]
    BY <2>1 DEF TakeNumber
  <2>3. /\ tok'.length = tok.length + n /\ tok'.after_cr = tok.after_cr
        /\ tok'.duplicate_key_stack = tok.duplicate_key_stack
        /\ tok'.reject_duplicate_keys = tok.reject_duplicate_keys
    BY <1>0, <2>2, Zenon DEF Tokenizers
  <2>4. tok.stage # "None"  BY <2>1 DEF InNumber
  <2> QED  BY <1>0, <2>1, <2>3, <2>4 DEF Lengthy, Between
<1>10. CASE NumberEnd
  <2>1. tok' = [tok EXCEPT !.stage = "None", !.state = "AfterValue"] /\ InNumber
    BY <1>10 DEF NumberEnd, EmitNumber, HandlerFails
  <2>2. Carries(tok, tok') /\ NothingNew(tok, tok') /\ tok'.stage = "None"
    BY <1>0, <2>1, Carried, NothingBegun, Zenon DEF Tokenizers
  <2> QED  BY <2>1, <2>2 DEF Carries, NothingNew, Lengthy, Between, InNumber
<1>11. CASE StringStart
  <2> DEFINE empty == [EnsureChars(Here) EXCEPT !.chars = <<>>]
             t == [empty EXCEPT !.in_string = TRUE, !.string_bytes = 0]
  <2>1. EnsureChars(Here) \in Tokenizers /\ empty \in Tokenizers  BY <1>0, BufferType, TypeFacts
  <2>2. t \in Tokenizers  BY <2>1, TypeFacts, Zenon DEF Tokenizers
  <2>3. BetweenTokens /\ (tok' = empty \/ TokenDone(t, 1, tok.state, FALSE))
    BY <1>11 DEF StringStart, Looking, HandlerFails
  <2>4. /\ Carries(Here, EnsureChars(Here)) /\ Carries(EnsureChars(Here), empty) /\ Carries(empty, t)
        /\ NothingNew(Here, EnsureChars(Here)) /\ NothingNew(EnsureChars(Here), empty)
        /\ NothingNew(empty, t)
    BY <1>0, <2>1, Carried, NothingBegun
  <2> HIDE DEF empty, t
  <2>5. Carries(tok, empty) /\ Carries(tok, t)  BY <1>0, <2>4, CarriesOver
  <2>6. Carries(tok, tok')  BY <2>2, <2>3, <2>5, DoneCarries, CarriesOver
  <2>7. NothingNew(Here, empty) /\ NothingNew(Here, t)  BY <2>4 DEF NothingNew
  <2> QED  BY <1>2, <2>1, <2>2, <2>3, <2>6, <2>7 DEF Carries
<1>12. CASE StringEnd
  <2>1. tok' = [tok EXCEPT !.in_string = FALSE, !.state = "AfterValue"] /\ call.pc = "string"
    BY <1>12 DEF StringEnd, AtStringEnd, AtStringStop, HandlerFails
  <2>2. Carries(tok, tok') /\ NothingNew(tok, tok')  BY <1>0, <2>1, Carried, NothingBegun
  <2> QED  BY <2>1, <2>2 DEF Carries, NothingNew, Lengthy, ReadsString
<1>13. CASE KeyDone
  <2> DEFINE seen == Seen(tok, KeyText)
             t == Disabled(seen)
  <2>1. call.pc = "key" /\ call.key # "none" /\ KeyText \in Bytes
    BY <1>0, <1>13, KeyTextType DEF KeyDone, CallInRing
  <2>2. seen \in Tokenizers /\ t \in Tokenizers  BY <1>0, <2>1, SeenType
  <2>3. tok' = Disabled(tok) \/ tok' = t \/ \E n : TokenDone(t, n, "ExpectColon", FALSE)
    BY <1>13 DEF KeyDone, HandlerFails
  <2>4. seen.length = tok.length /\ seen.reject_duplicate_keys = tok.reject_duplicate_keys
    BY <1>0, Zenon DEF Seen, Tokenizers
  <2>5. /\ NothingNew(tok, seen) /\ NothingNew(tok, Disabled(tok)) /\ Carries(tok, Disabled(tok))
        /\ NothingNew(seen, t) /\ Carries(seen, t)
    BY <1>0, <2>2, NothingBegun, Carried
  <2> HIDE DEF seen, t
  <2>6. t.length = tok.length /\ t.reject_duplicate_keys = tok.reject_duplicate_keys /\ NothingNew(tok, t)
    BY <2>4, <2>5 DEF Carries, NothingNew
  <2>7. (\E n : TokenDone(t, n, "ExpectColon", FALSE)) => Carries(t, tok') /\ NothingNew(t, tok')
    BY <2>2, DoneCarries, DoneNothingNew
  <2>8. /\ tok'.length = tok.length /\ tok'.reject_duplicate_keys = tok.reject_duplicate_keys
        /\ NothingNew(tok, tok')
    BY <2>3, <2>5, <2>6, <2>7 DEF Carries, NothingNew
  <2> QED  BY <1>13, <2>1, <2>8 DEF NothingNew, Lengthy, ReadingKey
<1> QED
  BY <1>3, <1>5, <1>6, <1>7, <1>8, <1>9, <1>10, <1>11, <1>12, <1>13 DEF TokenStep, NumberStep

-----------------------------------------------------------------------------
(* Positions advance                                                       *)

\* The position of e is not after that of f.
NotAfter(e, f) == e.line < f.line \/ (e.line = f.line /\ e.column <= f.column)

\* Nothing but whitespace has been read since a CR.
AtLineStart == tok.after_cr => Between(tok) /\ ~ReadingKey /\ loc.column = 1

\* How a quiet step moves the locator.
LEMMA QuietLoc ==
  ASSUME TypeOK, QuietStep
  PROVE  UNCHANGED loc \/ Whitespace \/ (ReadsString(call) /\ \E n \in Nat : loc' = Right(n))
<1>1. CASE \/ Refuse \/ OpenTooDeep \/ NumberWrong \/ ReportWhitespace \/ LoopEnd
           \/ \E b \in DOMAIN Literals : LiteralIncomplete(b) \/ LiteralWrong(b)
           \/ DecodeSlice \/ PushChar \/ MalformedChar \/ FlushChars
  BY <1>1, Zenon DEF Refuse, OpenTooDeep, NumberWrong, ReportWhitespace, LoopEnd, LiteralIncomplete,
     LiteralWrong, DecodeSlice, PushChar, MalformedChar, FlushChars
<1>2. CASE \/ ContinueString \/ StringRun \/ StringPause \/ StringPaused \/ StringWrong
           \/ KeyIncomplete \/ KeyRefused \/ KeyFound \/ KeyRun \/ KeyRunDone \/ KeyEscape
           \/ KeyEscapeWrong \/ KeyDoesNotFit
  BY <1>2, Zenon DEF ContinueString, StringRun, StringPause, StringPaused, StringWrong,
     KeyIncomplete, KeyRefused, KeyFound, KeyRun, KeyRunDone, KeyEscape, KeyEscapeWrong, KeyDoesNotFit
<1>3. CASE StringRunDone
  BY <1>3, TypeFacts, CallFields DEF StringRunDone, ReadingKey, RunDecoded, RunCutShort, ReadsString
<1>4. CASE StringEscape
  <2>1. /\ call.pc = "string" /\ call.consumed \in Nat /\ call.consumed < Len(ring)
        /\ EscapeLength(ring, call.consumed) > 0
        /\ loc' = Right(EscapeLength(ring, call.consumed))
    BY <1>4, TypeFacts, CallFields DEF StringEscape, AtEscape, AtStringStop, Total
  <2>2. EscapeLength(ring, call.consumed) \in Nat  BY <2>1, EscapeInRing
  <2> QED  BY <2>1, <2>2 DEF ReadsString
<1> QED  BY <1>1, <1>2, <1>3, <1>4 DEF QuietStep, WhitespaceStep, DecodeStep

\* A run of whitespace never moves the locator back: where it does not end a
\* line, only the LF of a CR LF takes the column to 1, where it is already.
LEMMA SpaceLoc ==
  ASSUME TypeOK, AtLineStart, Whitespace
  PROVE  NotAfter(loc, loc') /\ (tok'.after_cr => loc'.column = 1)
<1> DEFINE c == call.consumed
<1>1. c \in Nat /\ Len(ring) \in Nat /\ tok \in Tokenizers /\ loc.line \in Nat /\ loc.column \in Nat
  BY TypeFacts, CallFields DEF Locators
<1>2. PICK to \in c + 1 .. Total :
        /\ \A i \in c .. to - 1 : At(i) \in Whitespaces
        /\ LET n == to - c
               k == Cardinality(SinceBreak(to))
           IN  loc' = [line |-> loc.line + Cardinality(LineBreaks(to)),
                       column |-> IF k = n THEN loc.column + n ELSE 1 + k]
        /\ tok' = [tok EXCEPT !.after_cr = At(to - 1) = "CR"]
  BY DEF Whitespace
<1> DEFINE n == to - c
           k == Cardinality(SinceBreak(to))
           breaks == Cardinality(LineBreaks(to))
<1>3. to \in Nat /\ c < to /\ n \in Nat /\ 1 <= n  BY <1>1, <1>2 DEF Total
<1>4. /\ SinceBreak(to) \subseteq c .. to - 1 /\ LineBreaks(to) \subseteq c .. to - 1
      /\ IsFiniteSet(c .. to - 1) /\ Cardinality(c .. to - 1) = n
  <2>1. SinceBreak(to) \subseteq c .. to - 1 /\ LineBreaks(to) \subseteq c .. to - 1
    BY DEF SinceBreak, LineBreaks
  <2> DEFINE last == to - 1
  <2>2. last \in Int /\ c \in Int /\ last - c + 1 = n /\ ~(c > last)  BY <1>1, <1>3
  <2> HIDE DEF last, c, n
  <2>3. /\ IsFiniteSet(c .. last)
        /\ Cardinality(c .. last) = IF c > last THEN 0 ELSE last - c + 1
    BY <2>2, FS_Interval
  <2>4. Cardinality(c .. last) = n  BY <2>2, <2>3
  <2> QED  BY <2>1, <2>3, <2>4 DEF last
<1>5. /\ IsFiniteSet(SinceBreak(to)) /\ IsFiniteSet(LineBreaks(to)) /\ k \in Nat /\ breaks \in Nat
  BY <1>4, FS_Subset, FS_CardinalityType
<1>6. /\ loc'.line = loc.line + breaks
      /\ k = n => loc'.column = loc.column + n
      /\ k # n => loc'.column = 1 + k
  BY <1>2
<1>7. ASSUME k # n, breaks = 0  PROVE loc.column = 1
  <2>1. LineBreaks(to) = {}  BY <1>5, <1>7, FS_EmptySet
  <2>2. SinceBreak(to) # c .. to - 1  BY <1>4, <1>7
  <2>3. PICK j \in c .. to - 1 : At(j) # "SP"
    BY <1>1, <1>3, <1>4, <2>2 DEF SinceBreak
  <2>4. At(j) = "LF" /\ AfterCR(j)
    BY <1>2, <2>1, <2>3 DEF Whitespaces, LineBreaks
  <2>5. CASE j = call.consumed
    BY <2>4, <2>5 DEF AfterCR, AtLineStart
  <2>6. CASE j # call.consumed
    <3>1. j - 1 \in c .. to - 1 /\ At(j - 1) = "CR"  BY <1>1, <1>3, <2>3, <2>4, <2>6 DEF AfterCR
    <3> QED  BY <2>1, <3>1 DEF LineBreaks
  <2> QED  BY <2>5, <2>6
<1>8. NotAfter(loc, loc')
  <2> HIDE DEF n, k, breaks
  <2> QED  BY <1>1, <1>3, <1>5, <1>6, <1>7 DEF NotAfter
<1>9. ASSUME tok'.after_cr  PROVE loc'.column = 1
  <2> DEFINE cr == At(to - 1) = "CR"
  <2>1. tok' = [tok EXCEPT !.after_cr = cr]  BY <1>2
  <2> HIDE DEF cr
  <2>2. cr  BY <1>1, <1>9, <2>1, Zenon DEF Tokenizers
  <2>3. At(to - 1) # "SP"  BY <2>2 DEF cr
  <2>4. SinceBreak(to) = {}
    <3>1. ASSUME NEW i \in c .. to - 1  PROVE to - 1 \in i .. to - 1  BY <1>1, <1>3, <3>1
    <3> QED  BY <2>3, <3>1 DEF SinceBreak
  <2>5. k = 0  BY <2>4, FS_EmptySet
  <2> HIDE DEF n, k
  <2> QED  BY <1>3, <1>6, <2>5
<1> QED  BY <1>8, <1>9

\* Moving right on a line moves on, if it is by at least one column.
LEMMA RightOf ==
  ASSUME loc \in Locators, NEW n \in Nat, loc' = Right(n)
  PROVE  /\ NotAfter(loc, loc') /\ (1 <= n => Before(loc, loc'))
         /\ loc.line \in Nat /\ loc.column \in Nat /\ loc'.line \in Nat /\ loc'.column \in Nat
<1>1. loc'.line = loc.line /\ loc'.column = loc.column + n  BY Zenon DEF Right, Locators
<1>2. loc.line \in Nat /\ loc.column \in Nat  BY DEF Locators
<1> QED  BY <1>1, <1>2 DEF NotAfter, Before

\* A token moves the locator to the right of where it began, if it moves it
\* at all; a callback about it comes after that.
LEMMA TokenLoc ==
  ASSUME TypeOK, Lengthy, TokenStep
  PROVE  \/ UNCHANGED <<loc, events>>
         \/ \E n \in Nat : 1 <= n /\ loc' = Right(n)
<1>0. tok \in Tokenizers /\ call \in Calls  BY TypeFacts
<1>1. ASSUME loc' = Right(1)
      PROVE  \E n \in Nat : 1 <= n /\ loc' = Right(n)
  BY <1>1
<1>2. CASE \/ Comma \/ Colon \/ StringStart \/ StringEnd
           \/ StartObject \/ StartArray \/ EndObject \/ EndArray
  <2>1. loc' = Right(1)
    BY <1>2, Zenon DEF Comma, Colon, StringStart, StringEnd, StartObject, StartArray, EndObject,
       EndArray, Bracket
  <2> QED  BY <1>1, <2>1
<1>3. CASE \E b \in DOMAIN Literals : Literal(b)
  <2>1. PICK b \in DOMAIN Literals : Literal(b)  BY <1>3
  <2>2. Len(Literals[b]) \in Nat  BY BytesAssumption, LenProperties
  <2> DEFINE n == 1 + Len(Literals[b])
  <2>3. n \in Nat /\ 1 <= n  BY <2>2
  <2>4. loc' = Right(n)  BY <2>1 DEF Literal
  <2> QED  BY <2>3, <2>4
<1>4. CASE \/ \E b \in Digits \cup {"-"} : NumberStart(b)
           \/ NumberRun \/ NumberByte
  BY <1>4 DEF NumberStart, NumberRun, NumberByte, TakeNumber
<1>5. CASE NumberEnd
  <2>1. loc' = Right(tok.length) /\ tok.stage # "None"  BY <1>5 DEF NumberEnd, EmitNumber, InNumber
  <2> QED  BY <1>0, <2>1, TokenizerFields DEF Lengthy
<1>7. CASE KeyDone
  <2>1. UNCHANGED <<loc, events>> \/ loc' = Right(2 + call.units)  BY <1>7 DEF KeyDone
  <2>2. 2 + call.units \in Nat /\ 1 <= 2 + call.units  BY <1>0, CallFields
  <2> QED  BY <2>1, <2>2
<1> QED  BY <1>2, <1>3, <1>4, <1>5, <1>7 DEF TokenStep, NumberStep

IsToken(e) == e.ev \notin {"string_value_content", "whitespace"}

\* The callbacks about tokens so far are not ahead of the locator.
Behind == \A i \in DOMAIN events : IsToken(events[i]) => NotAfter(events[i], loc)

Advancing == Lengthy /\ AtLineStart /\ Behind /\ TokensAdvance

\* What a step may do to the locator and the callbacks: one about a token
\* comes when the locator has moved past it.
Advances ==
  \/ UNCHANGED events /\ NotAfter(loc, loc')
  \/ \E ev \in Callbacks \ TokenNames : \E text : Notify(ev, text, loc) /\ UNCHANGED loc
  \/ \E ev, text : Notify(ev, text, loc') /\ Before(loc, loc')

\* A step that moves the locator on and reports at its end keeps the order.
LEMMA TokensAdvanceOn ==
  ASSUME TypeOK, TypeOK', Behind, TokensAdvance, Advances
  PROVE  Behind' /\ TokensAdvance'
<1>1. /\ loc.line \in Nat /\ loc.column \in Nat /\ loc'.line \in Nat /\ loc'.column \in Nat
      /\ events \in Seq(Events) /\ events' \in Seq(Events)
  BY TypeFacts DEF TypeOK, TokenizerTypeOK, Locators
<1>2. \A i \in DOMAIN events : events[i].line \in Nat /\ events[i].column \in Nat
  <2>1. \A i \in DOMAIN events : events[i] \in Events  BY <1>1
  <2> QED  BY <2>1 DEF Events
<1>3. NotAfter(loc, loc')  BY <1>1 DEF Advances, NotAfter, Before
<1>4. \A i \in DOMAIN events : IsToken(events[i]) => NotAfter(events[i], loc')
  BY <1>1, <1>2, <1>3 DEF Behind, NotAfter
<1>5. CASE UNCHANGED events  BY <1>4, <1>5 DEF Behind, TokensAdvance
<1>6. ASSUME NEW e, events' = Append(events, e),
             IsToken(e) => Before(loc, loc') /\ e.line = loc'.line /\ e.column = loc'.column
      PROVE  Behind' /\ TokensAdvance'
  <2> DEFINE n == Len(events)
  <2>1. n \in Nat /\ DOMAIN events = 1 .. n  BY <1>1, LenProperties
  <2>2. /\ DOMAIN events' = 1 .. n + 1 /\ events'[n + 1] = e
        /\ \A i \in 1 .. n : events'[i] = events[i]
    BY <1>1, <1>6, <2>1
  <2> HIDE DEF n
  <2>3. \A i \in DOMAIN events' : (i \in 1 .. n /\ events'[i] = events[i]) \/ (i = n + 1 /\ events'[i] = e)
    BY <2>1, <2>2
  <2>4. Behind'
    <3> SUFFICES ASSUME NEW i \in DOMAIN events', IsToken(events'[i])
                 PROVE  NotAfter(events'[i], loc')
      BY DEF Behind, IsToken
    <3>1. CASE i \in 1 .. n /\ events'[i] = events[i]  BY <1>4, <2>1, <3>1
    <3>2. CASE i = n + 1 /\ events'[i] = e  BY <1>1, <1>6, <3>2 DEF NotAfter
    <3> QED  BY <2>3, <3>1, <3>2
  <2>5. TokensAdvance'
    <3> SUFFICES ASSUME NEW i \in DOMAIN events', NEW j \in DOMAIN events', i < j,
                        IsToken(events'[i]), IsToken(events'[j])
                 PROVE  Before(events'[i], events'[j])
      BY DEF TokensAdvance, IsToken
    <3>1. i \in 1 .. n /\ events'[i] = events[i]  BY <2>1, <2>2, <2>3
    <3>2. CASE j \in 1 .. n /\ events'[j] = events[j]
      BY <2>1, <3>1, <3>2 DEF TokensAdvance, IsToken
    <3>3. CASE j = n + 1 /\ events'[j] = e
      <4>1. NotAfter(events[i], loc) /\ Before(loc, loc')
        BY <1>6, <2>1, <3>1, <3>3 DEF Behind
      <4>2. Before(events[i], loc')
        BY <1>1, <1>2, <2>1, <3>1, <4>1 DEF NotAfter, Before
      <4>3. e.line = loc'.line /\ e.column = loc'.column  BY <1>6, <3>3
      <4> QED  BY <3>1, <3>3, <4>2, <4>3 DEF Before
    <3> QED  BY <2>3, <3>2, <3>3
  <2> QED  BY <2>4, <2>5
<1>7. CASE \E ev \in Callbacks \ TokenNames : \E text : Notify(ev, text, loc) /\ UNCHANGED loc
  <2>1. PICK ev, text : ev \in Callbacks \ TokenNames /\ Notify(ev, text, loc)  BY <1>7
  <2> DEFINE e == [ev |-> ev, text |-> text, line |-> loc.line, column |-> loc.column]
  <2>2. events' = Append(events, e) /\ ~IsToken(e)  BY <2>1 DEF Notify, IsToken, TokenNames
  <2> QED  BY <1>6, <2>2
<1>8. CASE \E ev, text : Notify(ev, text, loc') /\ Before(loc, loc')
  <2>1. PICK ev, text : Notify(ev, text, loc') /\ Before(loc, loc')  BY <1>8
  <2> DEFINE e == [ev |-> ev, text |-> text, line |-> loc'.line, column |-> loc'.column]
  <2>2. events' = Append(events, e) /\ e.line = loc'.line /\ e.column = loc'.column  BY <2>1 DEF Notify
  <2> QED  BY <1>6, <2>1, <2>2
<1> QED  BY <1>5, <1>7, <1>8 DEF Advances

\* A step within a token does, or between two.
LEMMA QuietAdvances ==
  ASSUME TypeOK, TypeOK', Reading, Advancing, QuietStep  PROVE Advancing'
<1>0. /\ loc \in Locators /\ call \in Calls /\ CallInRing(call) /\ SamePlace(tok, tok')
      /\ Carries(tok, tok')
  BY TypeFacts, QuietPlace, QuietCarries
<1>1. Lengthy'  BY <1>0 DEF Advancing, Lengthy, SamePlace, Carries
<1>2. NotAfter(loc, loc') /\ (Whitespace /\ tok'.after_cr => loc'.column = 1)
  <2>1. CASE UNCHANGED loc /\ ~Whitespace
    BY <1>0, <2>1 DEF NotAfter, Locators
  <2>2. CASE Whitespace  BY <2>2, SpaceLoc DEF Advancing
  <2>3. CASE ~Whitespace /\ \E n \in Nat : loc' = Right(n)  BY <1>0, <2>3, RightOf
  <2> QED  BY <2>1, <2>2, <2>3, QuietLoc
<1>3. Advances
  <2>1. CASE UNCHANGED events  BY <1>2, <2>1 DEF Advances
  <2>2. CASE FlushChars \/ ReportWhitespace
    <3>1. {"string_value_content", "whitespace"} \subseteq Callbacks \ TokenNames
      BY DEF Callbacks, TokenNames
    <3>2. UNCHANGED loc /\ \E ev \in {"string_value_content", "whitespace"} : \E text : Notify(ev, text, loc)
      BY <2>2 DEF FlushChars, ReportWhitespace
    <3> QED  BY <3>1, <3>2 DEF Advances
  <2> QED  BY <2>1, <2>2, QuietEvents
<1>4. ASSUME tok'.after_cr  PROVE Between(tok') /\ ~ReadingKey' /\ loc'.column = 1
  <2>1. CASE Whitespace
    <3>1. Between(tok) /\ call.key = "none"
      BY <1>0, <2>1 DEF Whitespace, BetweenTokens, Between, CallInRing
    <3>2. ~ReadingKey'
      BY <1>4, <3>1, KeyReads, QuietCarries DEF ReadingKey, KeyGoesOn
    <3> QED  BY <1>0, <1>2, <1>4, <2>1, <3>1, <3>2 DEF SamePlace, Between
  <2>2. CASE ~Whitespace
    <3>1. Between(tok) /\ ~ReadingKey /\ loc.column = 1
      BY <1>4, <2>2, QuietCarries DEF Advancing, AtLineStart
    <3>2. ~ReadingKey'
      BY <1>4, <3>1, KeyReads, QuietCarries DEF ReadingKey, KeyGoesOn
    <3>3. ~ReadsString(call)  BY <3>1 DEF Reading, Between
    <3>4. UNCHANGED loc  BY <2>2, <3>3, QuietLoc
    <3> QED  BY <1>0, <3>1, <3>2, <3>4 DEF SamePlace, Between
  <2> QED  BY <2>1, <2>2
<1>5. AtLineStart'  BY <1>4 DEF AtLineStart
<1>6. Behind' /\ TokensAdvance'  BY <1>3, TokensAdvanceOn DEF Advancing
<1> QED  BY <1>1, <1>5, <1>6 DEF Advancing

\* And a step that takes a token.
LEMMA TokenAdvances ==
  ASSUME TypeOK, TypeOK', Reading, Advancing, TokenStep  PROVE Advancing'
<1>0. loc \in Locators  BY TypeFacts
<1>1. Lengthy' /\ AtLineStart'
  <2>1. ~tok'.after_cr
    BY TokenCarries DEF Advancing, AtLineStart, Reading, Between
  <2> QED  BY <2>1, TokenCarries DEF Advancing, AtLineStart
<1>2. Advances
  <2>1. UNCHANGED <<loc, events>> \/ \E n \in Nat : 1 <= n /\ loc' = Right(n)
    BY TokenLoc DEF Advancing
  <2>2. CASE UNCHANGED <<loc, events>>
    BY <1>0, <2>2 DEF Advances, NotAfter, Locators
  <2>3. CASE \E n \in Nat : 1 <= n /\ loc' = Right(n)
    <3>1. NotAfter(loc, loc') /\ Before(loc, loc')  BY <1>0, <2>3, RightOf
    <3> QED  BY <3>1, TokenEvents DEF Advances
  <2> QED  BY <2>1, <2>2, <2>3
<1>3. Behind' /\ TokensAdvance'  BY <1>2, TokensAdvanceOn DEF Advancing
<1> QED  BY <1>1, <1>3 DEF Advancing

\* A tokenizer as it was, but for its chunk size, or a new one.
LEMMA OutsideAdvances ==
  ASSUME TypeOK, TypeOK', Advancing,
         FeedReturns \/ CloseUnfinished \/ CloseReturns \/ CloseAfterNumber \/ CallerStep
  PROVE  Advancing'
<1>0. loc \in Locators /\ tok \in Tokenizers /\ call' \in Calls /\ CallInRing(call)' /\ CallInRing(call)
  BY TypeFacts DEF TypeOK, TokenizerTypeOK
<1>1. ~ReadingKey'
  <2>1. (UNCHANGED call /\ call.pc \in {"idle", "fed", "finish"}) \/ call'.pc \in {"idle", "finish", "loop", "fed"}
    <3>1. CASE Receive \/ Close
      <4>1. PICK op : Feed(op)  BY <3>1 DEF Receive, Close
      <4> QED  BY <4>1 DEF Feed, Returned
    <3>2. CASE FeedReturns \/ CloseUnfinished \/ CloseReturns \/ CloseAfterNumber
      BY <3>2 DEF FeedReturns, CloseUnfinished, CloseReturns, CloseAfterNumber, Judge, Returned
    <3>3. CASE Write \/ SetLimits \/ SetStringChunkSize \/ SetRejectDuplicateKeys
      BY <3>3 DEF Write, SetLimits, SetStringChunkSize, SetRejectDuplicateKeys, Idle
    <3>4. CASE ReceiveNothing \/ CloseEmpty \/ CloseAgain \/ Reset
      BY <3>4 DEF ReceiveNothing, CloseEmpty, CloseAgain, Reset, Returned
    <3> QED  BY <3>1, <3>2, <3>3, <3>4 DEF CallerStep
  <2> QED  BY <1>0, <2>1 DEF CallInRing, ReadingKey
<1>2. CASE CloseAfterNumber
  <2>1. /\ tok.stage # "None" /\ loc' = Right(tok.length) /\ Notify("number_value", tok.number, loc')
        /\ tok' = [tok EXCEPT !.stage = "None", !.state = "AfterValue"]
    BY <1>2, Zenon DEF CloseAfterNumber
  <2>2. tok'.stage = "None" /\ tok'.after_cr = tok.after_cr /\ tok'.in_string = tok.in_string
    BY <1>0, <2>1, Zenon DEF Tokenizers
  <2>3. tok.length \in Nat /\ 1 <= tok.length
    BY <1>0, <2>1, TokenizerFields DEF Advancing, Lengthy
  <2>4. Advances
    BY <1>0, <2>1, <2>3, RightOf DEF Advances
  <2>5. Behind' /\ TokensAdvance'  BY <2>4, TokensAdvanceOn DEF Advancing
  <2>6. ~tok.after_cr  BY <2>1 DEF Advancing, AtLineStart, Between
  <2> QED  BY <2>2, <2>5, <2>6 DEF Advancing, Lengthy, AtLineStart
<1>3. ASSUME \/ UNCHANGED tok \/ \E n : tok' = [tok EXCEPT !.chunk_size = n]
             \/ \E reject, chunk : tok' = NewTokenizer(reject, chunk)
      PROVE  Lengthy' /\ (UNCHANGED loc => AtLineStart') /\ (loc' = NewLocator => AtLineStart')
  <2>1. CASE UNCHANGED tok \/ \E n : tok' = [tok EXCEPT !.chunk_size = n]
    <3>1. /\ tok'.stage = tok.stage /\ tok'.length = tok.length /\ tok'.after_cr = tok.after_cr
          /\ tok'.in_string = tok.in_string
      BY <1>0, <2>1, Zenon DEF Tokenizers
    <3>2. NewLocator.column = 1  BY DEF NewLocator
    <3> QED  BY <1>1, <3>1, <3>2 DEF Advancing, Lengthy, AtLineStart, Between
  <2>2. CASE \E reject, chunk : tok' = NewTokenizer(reject, chunk)
    BY <2>2 DEF NewTokenizer, Lengthy, AtLineStart
  <2> QED  BY <1>3, <2>1, <2>2
<1>4. CASE Reset
  <2>1. events' = <<>> /\ loc' = NewLocator /\ \E reject, chunk : tok' = NewTokenizer(reject, chunk)
    BY <1>4 DEF Reset
  <2>2. Behind' /\ TokensAdvance'  BY <2>1 DEF Behind, TokensAdvance
  <2> QED  BY <1>3, <2>1, <2>2 DEF Advancing
<1>5. CASE Receive \/ Close \/ SetStringChunkSize
  <2>1. UNCHANGED <<loc, events>>  BY <1>5 DEF Receive, Close, Feed, SetStringChunkSize
  <2>2. \/ UNCHANGED tok \/ \E n : tok' = [tok EXCEPT !.chunk_size = n]
        \/ \E reject, chunk : tok' = NewTokenizer(reject, chunk)
    BY <1>5 DEF Receive, Close, Feed, SetStringChunkSize
  <2>3. Behind' /\ TokensAdvance'  BY <2>1 DEF Advancing, Behind, TokensAdvance
  <2> QED  BY <1>3, <2>1, <2>2, <2>3 DEF Advancing
<1>6. CASE \/ FeedReturns \/ CloseUnfinished \/ CloseReturns \/ Write \/ ReceiveNothing
           \/ CloseEmpty \/ CloseAgain \/ SetLimits \/ SetRejectDuplicateKeys
  <2>1. UNCHANGED <<tok, loc, events>>
    BY <1>6 DEF FeedReturns, CloseUnfinished, CloseReturns, Write, ReceiveNothing, CloseEmpty,
       CloseAgain, SetLimits, SetRejectDuplicateKeys
  <2>2. Behind' /\ TokensAdvance'  BY <2>1 DEF Advancing, Behind, TokensAdvance
  <2> QED  BY <1>3, <2>1, <2>2 DEF Advancing
<1> QED  BY <1>2, <1>4, <1>5, <1>6 DEF CallerStep

\* Positions never go back, and the callbacks for tokens lie before the locator.
LEMMA AdvancingHolds == Spec => []Advancing
<1>1. Init => Advancing
  <2> SUFFICES ASSUME Init  PROVE Advancing  OBVIOUS
  <2>1. events = <<>> /\ \E reject, chunk : tok = NewTokenizer(reject, chunk)  BY DEF Init
  <2>2. tok.stage = "None" /\ ~tok.after_cr  BY <2>1 DEF NewTokenizer
  <2> QED  BY <2>1, <2>2 DEF Advancing, Lengthy, AtLineStart, Behind, TokensAdvance
<1>2. TypeOK /\ TypeOK' /\ Reading /\ Advancing /\ [Next]_vars => Advancing'
  <2> SUFFICES ASSUME TypeOK, TypeOK', Reading, Advancing, [Next]_vars  PROVE Advancing'  OBVIOUS
  <2>1. CASE TokenizerStep  BY <2>1, StepKinds, QuietAdvances, TokenAdvances
  <2>2. CASE UNCHANGED vars
    BY <2>2 DEF vars, Advancing, Lengthy, AtLineStart, Behind, TokensAdvance, Between, ReadingKey
  <2> QED  BY <2>1, <2>2, OutsideAdvances DEF Next, CallStep
<1> QED  BY <1>1, <1>2, TypeCorrect, ReadingHolds, PTL DEF Spec

\* No token is reported twice, and none before one that ends further on:
\* the positions that the callbacks about tokens read advance, whatever the
\* handler refuses, also when the caller goes on after an error.
THEOREM TokensAreReportedOnce == Spec => []TokensAdvance
<1>1. Advancing => TokensAdvance  BY DEF Advancing
<1> QED  BY <1>1, AdvancingHolds, PTL

-----------------------------------------------------------------------------
(* Depths and ranks                                                        *)

\* EventDepth, of any history s.
Ins == {"start_object", "start_array"}
Outs == {"end_object", "end_array"}
DepthOf(s, n) ==
  Cardinality({i \in 1 .. n : s[i].ev \in Ins}) - Cardinality({i \in 1 .. n : s[i].ev \in Outs})

\* EventDepth, of the callbacks before and after a step.
LEMMA EventDepthIs ==
  \A n : EventDepth(n) = DepthOf(events, n) /\ EventDepth(n)' = DepthOf(events', n)
BY DEF EventDepth, DepthOf, Ins, Outs

\* One more callback counts for itself.
LEMMA CountedOn ==
  ASSUME NEW n \in Nat, NEW P, NEW Q, P \subseteq 1 .. n, Q \in {P, P \cup {n + 1}}
  PROVE  /\ Cardinality(P) \in Nat
         /\ Q = P => Cardinality(Q) = Cardinality(P)
         /\ Q # P => Cardinality(Q) = Cardinality(P) + 1
<1>0. IsFiniteSet(1 .. n)  BY FS_Interval
<1>1. IsFiniteSet(P)  BY <1>0, FS_Subset
<1>2. Cardinality(P) \in Nat  BY <1>1, FS_CardinalityType
<1>3. n + 1 \notin P  OBVIOUS
<1>4. Cardinality(P \cup {n + 1}) = Cardinality(P) + 1  BY <1>1, <1>3, FS_AddElement
<1> QED  BY <1>2, <1>4

\* What one more callback does to the depth: nothing to that of earlier ones.
LEMMA DepthAppended ==
  ASSUME NEW s \in Seq(Events), NEW e
  PROVE  LET t == Append(s, e)
             n == Len(s)
         IN  /\ n \in Nat /\ Len(t) = n + 1 /\ DOMAIN s = 1 .. n /\ DOMAIN t = 1 .. n + 1
             /\ t[n + 1] = e /\ \A i \in 1 .. n : t[i] = s[i] /\ DepthOf(t, i) = DepthOf(s, i)
             /\ \A i \in 0 .. n : DepthOf(s, i) \in Int
             /\ e.ev \in Ins => DepthOf(t, n + 1) = DepthOf(s, n) + 1
             /\ e.ev \in Outs => DepthOf(t, n + 1) = DepthOf(s, n) - 1
             /\ e.ev \notin Ins \cup Outs => DepthOf(t, n + 1) = DepthOf(s, n)
<1> DEFINE t == Append(s, e)
           n == Len(s)
<1>1. n \in Nat /\ Len(t) = n + 1 /\ DOMAIN s = 1 .. n /\ DOMAIN t = 1 .. n + 1
  BY LenProperties
<1>2. t[n + 1] = e /\ \A i \in 1 .. n : t[i] = s[i]  BY <1>1
<1> HIDE DEF t, n
<1> DEFINE At1(u, m, evs) == {i \in 1 .. m : u[i].ev \in evs}
<1>3. \A u, m : DepthOf(u, m) = Cardinality(At1(u, m, Ins)) - Cardinality(At1(u, m, Outs))
  BY DEF DepthOf
<1>4. ASSUME NEW i \in 0 .. n, NEW evs  PROVE At1(t, i, evs) = At1(s, i, evs)
  <2>1. \A j \in 1 .. i : t[j] = s[j]  BY <1>1, <1>2
  <2> QED  BY <2>1
<1>5. ASSUME NEW evs
      PROVE  At1(t, n + 1, evs) = IF e.ev \in evs THEN At1(s, n, evs) \cup {n + 1} ELSE At1(s, n, evs)
  BY <1>1, <1>2
<1>6. ASSUME NEW i \in 0 .. n, NEW evs  PROVE At1(s, i, evs) \subseteq 1 .. i /\ i \in Nat
  BY <1>1
<1>7. ASSUME NEW evs  PROVE n + 1 \notin At1(s, n, evs)
  BY <1>1
<1> HIDE DEF At1
<1>8. ASSUME NEW i \in 0 .. n, NEW evs  PROVE Cardinality(At1(s, i, evs)) \in Nat
  BY <1>6, CountedOn
<1>9. ASSUME NEW evs
      PROVE  Cardinality(At1(t, n + 1, evs)) =
               IF e.ev \in evs THEN Cardinality(At1(s, n, evs)) + 1 ELSE Cardinality(At1(s, n, evs))
  <2>1. n \in 0 .. n  BY <1>1
  <2>2. At1(s, n, evs) \subseteq 1 .. n  BY <1>6, <2>1
  <2>3. At1(t, n + 1, evs) \in {At1(s, n, evs), At1(s, n, evs) \cup {n + 1}}  BY <1>5
  <2>4. e.ev \in evs <=> At1(t, n + 1, evs) # At1(s, n, evs)  BY <1>5, <1>7
  <2> QED  BY <1>1, <2>2, <2>3, <2>4, CountedOn
<1>10. \A i \in 1 .. n : DepthOf(t, i) = DepthOf(s, i)  BY <1>1, <1>3, <1>4
<1>11. \A i \in 0 .. n : DepthOf(s, i) \in Int  BY <1>3, <1>8
<1>12. Ins \cap Outs = {}  BY DEF Ins, Outs
<1>13. n \in 0 .. n  BY <1>1
<1>14. /\ e.ev \in Ins => DepthOf(t, n + 1) = DepthOf(s, n) + 1
       /\ e.ev \in Outs => DepthOf(t, n + 1) = DepthOf(s, n) - 1
       /\ e.ev \notin Ins \cup Outs => DepthOf(t, n + 1) = DepthOf(s, n)
  BY <1>3, <1>8, <1>9, <1>12, <1>13
<1> QED  BY <1>1, <1>2, <1>10, <1>11, <1>14 DEF t, n

\* How many of the nests up to depth d are objects.
Rank(cs, d) == Cardinality({i \in 1 .. d : cs[i] = "Object"})

\* The rank of an open object among the open objects grows with its depth.
LEMMA RankFacts ==
  ASSUME NEW cs \in Seq(Contexts)
  PROVE  /\ Rank(cs, Len(cs)) = Cardinality(OpenObjects(cs))
         /\ \A d \in 0 .. Len(cs) : Rank(cs, d) \in Nat
         /\ \A d \in 1 .. Len(cs), m \in 1 .. Len(cs) :
              cs[d] = "Object" /\ d <= m => 1 <= Rank(cs, d) /\ Rank(cs, d) <= Rank(cs, m)
         /\ \A d \in 1 .. Len(cs), m \in 1 .. Len(cs) :
              d < m /\ cs[m] = "Object" => Rank(cs, d) < Rank(cs, m)
         /\ \A c : \A d \in 0 .. Len(cs) : Rank(Append(cs, c), d) = Rank(cs, d)
<1> DEFINE n == Len(cs)
           Objects(d) == {i \in 1 .. d : cs[i] = "Object"}
<1>1. n \in Nat /\ DOMAIN cs = 1 .. n  BY LenProperties
<1>2. Rank(cs, n) = Cardinality(OpenObjects(cs))  BY <1>1 DEF Rank, OpenObjects
<1>3. \A d : Rank(cs, d) = Cardinality(Objects(d))  BY DEF Rank
<1>4. ASSUME NEW d \in 0 .. n
      PROVE  IsFiniteSet(Objects(d)) /\ Cardinality(Objects(d)) \in Nat
  <2>1. Objects(d) \subseteq 1 .. d /\ IsFiniteSet(1 .. d)  BY <1>1, FS_Interval
  <2> QED  BY <2>1, FS_Subset, FS_CardinalityType
<1>5. ASSUME NEW d \in 1 .. n, NEW m \in 1 .. n, cs[d] = "Object", d <= m
      PROVE  1 <= Rank(cs, d) /\ Rank(cs, d) <= Rank(cs, m)
  <2>1. Objects(d) \subseteq Objects(m) /\ d \in Objects(d)  BY <1>1, <1>5
  <2>2. d \in 0 .. n /\ m \in 0 .. n  BY <1>1
  <2> HIDE DEF Objects
  <2>3. Cardinality(Objects(d)) <= Cardinality(Objects(m))  BY <1>4, <2>1, <2>2, FS_Subset
  <2>4. Cardinality(Objects(d)) # 0  BY <1>4, <2>1, <2>2, FS_EmptySet
  <2> QED  BY <1>3, <1>4, <2>2, <2>3, <2>4
<1>6. ASSUME NEW d \in 1 .. n, NEW m \in 1 .. n, d < m, cs[m] = "Object"
      PROVE  Rank(cs, d) < Rank(cs, m)
  <2>1. Objects(d) \cup {m} \subseteq Objects(m) /\ m \notin Objects(d)  BY <1>1, <1>6
  <2>2. d \in 0 .. n /\ m \in 0 .. n  BY <1>1
  <2> HIDE DEF Objects
  <2>3. Cardinality(Objects(d) \cup {m}) = Cardinality(Objects(d)) + 1
    BY <1>4, <2>1, <2>2, FS_AddElement
  <2>4. Cardinality(Objects(d) \cup {m}) <= Cardinality(Objects(m))  BY <1>4, <2>1, <2>2, FS_Subset
  <2> QED  BY <1>3, <1>4, <2>2, <2>3, <2>4
<1>7. ASSUME NEW c, NEW d \in 0 .. n  PROVE Rank(Append(cs, c), d) = Rank(cs, d)
  <2>1. \A i \in 1 .. d : Append(cs, c)[i] = cs[i]  BY <1>1
  <2>2. {i \in 1 .. d : Append(cs, c)[i] = "Object"} = {i \in 1 .. d : cs[i] = "Object"}  BY <2>1
  <2> QED  BY <2>2 DEF Rank
<1> QED  BY <1>2, <1>3, <1>4, <1>5, <1>6, <1>7

-----------------------------------------------------------------------------
(* Keys remembered                                                         *)

\* The i-th callback is a key of an object that is still open.
Held(s, i) ==
  /\ i \in DOMAIN s /\ s[i].ev = "key"
  /\ \A k \in i .. Len(s) : DepthOf(s, k) >= DepthOf(s, i)

\* The i-th callback is remembered in the set of keys at its object's rank.
Filed(s, cs, i, r) ==
  /\ DepthOf(s, i) \in 1 .. Len(cs) /\ cs[DepthOf(s, i)] = "Object"
  /\ r = Rank(cs, DepthOf(s, i))

\* The nests are as deep as the handler is, and the sets of keys hold the keys
\* of the open objects, and nothing else.
Level(s, cs) == DepthOf(s, Len(s)) = Len(cs)
Recalls(s, cs, dup) ==
  /\ \A i : Held(s, i) => \E r \in DOMAIN dup : Filed(s, cs, i, r) /\ s[i].text \in dup[r]
  /\ \A r \in DOMAIN dup : \A text \in dup[r] :
       \E i : Held(s, i) /\ Filed(s, cs, i, r) /\ s[i].text = text

\* There is one set of keys for each open object.
InRank(cs, dup) == Len(dup) = Cardinality(OpenObjects(cs))

\* One more callback as deep as a key, or deeper, leaves it in its object.
LEMMA HeldAppended ==
  ASSUME NEW s \in Seq(Events), NEW e, NEW i,
         DepthOf(Append(s, e), Len(s) + 1) >= DepthOf(s, i) \/ Held(Append(s, e), i)
  PROVE  /\ i # Len(s) + 1 => (Held(Append(s, e), i) <=> Held(s, i))
         /\ i = Len(s) + 1 => (Held(Append(s, e), i) <=> e.ev = "key")
<1> DEFINE t == Append(s, e)
           n == Len(s)
<1>1. /\ n \in Nat /\ Len(t) = n + 1 /\ DOMAIN s = 1 .. n /\ DOMAIN t = 1 .. n + 1
      /\ t[n + 1] = e /\ \A j \in 1 .. n : t[j] = s[j] /\ DepthOf(t, j) = DepthOf(s, j)
      /\ \A j \in 0 .. n : DepthOf(s, j) \in Int
      /\ DepthOf(t, n + 1) \in Int
  <2>1. n \in Nat /\ DepthOf(s, n) \in Int  BY DepthAppended
  <2> QED  BY <2>1, DepthAppended
<1>2. Len(s) = n /\ Append(s, e) = t  OBVIOUS
<1> HIDE DEF t, n
<1>3. ASSUME i \in 1 .. n, DepthOf(t, n + 1) >= DepthOf(s, i) \/ Held(t, i)
      PROVE  Held(t, i) <=> Held(s, i)
  <2>1. \A k : k \in i .. n + 1 <=> (k \in i .. n \/ k = n + 1)  BY <1>1, <1>3
  <2>2. \A k \in i .. n : k \in 1 .. n  BY <1>1, <1>3
  <2>3. n + 1 \in i .. n + 1  BY <1>1, <1>3
  <2>4. ASSUME Held(t, i)  PROVE Held(s, i)
    BY <1>1, <1>2, <1>3, <2>1, <2>2, <2>4 DEF Held
  <2>5. ASSUME Held(s, i)  PROVE Held(t, i)
    <3>1. DepthOf(t, n + 1) >= DepthOf(t, i)
      BY <1>1, <1>3, <2>3 DEF Held
    <3> QED  BY <1>1, <1>2, <1>3, <2>1, <2>2, <2>5, <3>1 DEF Held
  <2> QED  BY <2>4, <2>5
<1>4. i \notin 1 .. n + 1 => ~Held(t, i) /\ ~Held(s, i)  BY <1>1 DEF Held
<1>5. ASSUME i = n + 1  PROVE Held(t, i) <=> e.ev = "key"
  <2>1. \A k \in n + 1 .. n + 1 : k = n + 1  BY <1>1
  <2> QED  BY <1>1, <1>5, <2>1 DEF Held
<1>6. i \in 1 .. n + 1 => i \in 1 .. n \/ i = n + 1  BY <1>1
<1>7. i \in 1 .. n => i # n + 1  BY <1>1
<1> QED  BY <1>2, <1>3, <1>4, <1>5, <1>6, <1>7

\* A key still held is no deeper than the handler is now.
LEMMA HeldDepth ==
  ASSUME NEW s \in Seq(Events), NEW i, Held(s, i)
  PROVE  /\ i \in 1 .. Len(s) /\ Len(s) \in Nat
         /\ DepthOf(s, i) \in Int /\ DepthOf(s, Len(s)) \in Int /\ DepthOf(s, i) <= DepthOf(s, Len(s))
<1>1. i \in 1 .. Len(s) /\ Len(s) \in Nat  BY LenProperties DEF Held
<1>2. DepthOf(s, i) \in Int /\ DepthOf(s, Len(s)) \in Int  BY <1>1, DepthAppended
<1>3. Len(s) \in i .. Len(s)  BY <1>1
<1> QED  BY <1>1, <1>2, <1>3 DEF Held

\* A key stays filed where it is while its object is open.
LEMMA FiledKept ==
  ASSUME NEW s \in Seq(Events), NEW e, NEW cs \in Seq(Contexts), NEW i \in 1 .. Len(s), NEW r,
         Filed(s, cs, i, r)
  PROVE  /\ Append(s, e)[i] = s[i] /\ DepthOf(Append(s, e), i) = DepthOf(s, i)
         /\ Filed(Append(s, e), cs, i, r)
         /\ \A c \in Contexts : Filed(Append(s, e), Append(cs, c), i, r)
         /\ cs # <<>> /\ DepthOf(s, i) < Len(cs) => Filed(Append(s, e), Popped(cs), i, r)
<1> DEFINE d == DepthOf(s, i)
           m == Len(cs)
<1>1. Append(s, e)[i] = s[i] /\ DepthOf(Append(s, e), i) = d  BY DepthAppended
<1>2. m \in Nat /\ d \in 1 .. m /\ d \in 0 .. m /\ cs[d] = "Object" /\ r = Rank(cs, d)
  BY LenProperties DEF Filed
<1>3. Filed(Append(s, e), cs, i, r)  BY <1>1, <1>2 DEF Filed
<1>4. ASSUME NEW c \in Contexts  PROVE Filed(Append(s, e), Append(cs, c), i, r)
  <2>1. Len(Append(cs, c)) = m + 1 /\ Append(cs, c)[d] = cs[d]  BY <1>2
  <2>2. Rank(Append(cs, c), d) = Rank(cs, d)  BY <1>2, RankFacts
  <2> HIDE DEF d
  <2>3. d \in 1 .. m + 1  BY <1>2
  <2> QED  BY <1>1, <1>2, <2>1, <2>2, <2>3 DEF Filed
<1>5. ASSUME cs # <<>>, d < m  PROVE Filed(Append(s, e), Popped(cs), i, r)
  <2>1. /\ cs = Append(Popped(cs), Top(cs)) /\ Popped(cs) \in Seq(Contexts)
        /\ Len(Popped(cs)) = m - 1 /\ \A j \in 1 .. m - 1 : Popped(cs)[j] = cs[j]
    BY <1>5, PoppedAndTop
  <2>2. \A c : \A j \in 0 .. m - 1 : Rank(Append(Popped(cs), c), j) = Rank(Popped(cs), j)
    BY <2>1, RankFacts
  <2> HIDE DEF d, m
  <2>3. d \in 0 .. m - 1 /\ d \in 1 .. m - 1  BY <1>2, <1>5
  <2>4. Rank(Popped(cs), d) = Rank(cs, d)  BY <2>1, <2>2, <2>3
  <2> QED  BY <1>1, <1>2, <2>1, <2>3, <2>4 DEF Filed
<1> QED  BY <1>1, <1>3, <1>4, <1>5

\* A callback that is no bracket and no key.
LEMMA FlatRecalls ==
  ASSUME NEW s \in Seq(Events), NEW e, NEW cs \in Seq(Contexts), NEW dup,
         e.ev \notin Ins \cup Outs \cup {"key"}, Level(s, cs)
  PROVE  /\ Level(Append(s, e), cs)
         /\ Recalls(s, cs, dup) => Recalls(Append(s, e), cs, dup)
<1> DEFINE t == Append(s, e)
           n == Len(s)
<1>1. n \in Nat /\ Len(t) = n + 1 /\ DepthOf(t, n + 1) = DepthOf(s, n)  BY DepthAppended
<1>2. Level(t, cs)  BY <1>1 DEF Level
<1>3. \A i : Held(t, i) => i # n + 1 /\ Held(s, i)  BY HeldAppended
<1>4. ASSUME NEW i, Held(s, i)  PROVE Held(t, i) /\ i \in 1 .. n
  <2>1. i \in 1 .. n /\ DepthOf(t, n + 1) >= DepthOf(s, i) /\ i # n + 1
    BY <1>1, <1>4, HeldDepth
  <2> QED  BY <1>4, <2>1, HeldAppended
<1>5. ASSUME NEW i, NEW r, Held(s, i), Filed(s, cs, i, r)
      PROVE  Filed(t, cs, i, r) /\ t[i] = s[i]
  <2>1. i \in 1 .. Len(s)  BY <1>4, <1>5
  <2> QED  BY <1>5, <2>1, FiledKept
<1> HIDE DEF t, n
<1>6. Recalls(s, cs, dup) => Recalls(t, cs, dup)
  BY <1>3, <1>4, <1>5 DEF Recalls
<1> QED  BY <1>2, <1>6 DEF t

\* An opening bracket; only an object gets a set of keys.
LEMMA OpenRecalls ==
  ASSUME NEW s \in Seq(Events), NEW e, NEW cs \in Seq(Contexts), NEW dup \in Seq(SUBSET Bytes),
         NEW c \in Contexts, NEW more \in {dup, Append(dup, {})},
         e.ev \in Ins, Level(s, cs)
  PROVE  /\ Level(Append(s, e), Append(cs, c))
         /\ Recalls(s, cs, dup) => Recalls(Append(s, e), Append(cs, c), more)
<1> DEFINE t == Append(s, e)
           n == Len(s)
           ds == Append(cs, c)
<1>1. n \in Nat /\ Len(t) = n + 1 /\ DepthOf(t, n + 1) = DepthOf(s, n) + 1 /\ DepthOf(s, n) \in Int
  BY DepthAppended
<1>2. Level(t, ds)  BY <1>1, AppendProperties DEF Level
<1>3. ASSUME NEW i, Held(t, i)  PROVE i # n + 1 /\ Held(s, i)
  <2>1. e.ev # "key"  BY DEF Ins
  <2> QED  BY <1>3, <2>1, HeldAppended
<1>4. ASSUME NEW i, Held(s, i)  PROVE Held(t, i) /\ i \in 1 .. n
  <2>1. i \in 1 .. n /\ DepthOf(t, n + 1) >= DepthOf(s, i) /\ i # n + 1
    BY <1>1, <1>4, HeldDepth
  <2> QED  BY <1>4, <2>1, HeldAppended
<1>5. ASSUME NEW i, NEW r, Held(s, i), Filed(s, cs, i, r)
      PROVE  Filed(t, ds, i, r) /\ t[i] = s[i]
  <2>1. i \in 1 .. Len(s)  BY <1>4, <1>5
  <2> QED  BY <1>5, <2>1, FiledKept
<1>6. /\ \A r \in DOMAIN dup : r \in DOMAIN more /\ more[r] = dup[r]
      /\ \A r \in DOMAIN more : r \in DOMAIN dup \/ more[r] = {}
  <2>1. CASE more = dup  BY <2>1
  <2>2. CASE more = Append(dup, {})
    <3> DEFINE m == Len(dup)
    <3>1. /\ m \in Nat /\ DOMAIN dup = 1 .. m /\ DOMAIN more = 1 .. m + 1
          /\ more[m + 1] = {} /\ \A r \in 1 .. m : more[r] = dup[r]
      BY <2>2, AppendProperties
    <3> HIDE DEF m
    <3>2. \A r \in 1 .. m + 1 : r \in 1 .. m \/ r = m + 1  BY <3>1
    <3>3. \A r \in 1 .. m : r \in 1 .. m + 1  BY <3>1
    <3> QED  BY <3>1, <3>2, <3>3
  <2> QED  BY <2>1, <2>2
<1> HIDE DEF t, n, ds
<1>7. Recalls(s, cs, dup) => Recalls(t, ds, more)
  <2> SUFFICES ASSUME Recalls(s, cs, dup)  PROVE Recalls(t, ds, more)  OBVIOUS
  <2>1. ASSUME NEW i, Held(t, i)
        PROVE  \E r \in DOMAIN more : Filed(t, ds, i, r) /\ t[i].text \in more[r]
    <3>1. PICK r \in DOMAIN dup : Filed(s, cs, i, r) /\ s[i].text \in dup[r]
      BY <1>3, <2>1 DEF Recalls
    <3> QED  BY <1>3, <1>5, <1>6, <2>1, <3>1
  <2>2. ASSUME NEW r \in DOMAIN more, NEW text \in more[r]
        PROVE  \E i : Held(t, i) /\ Filed(t, ds, i, r) /\ t[i].text = text
    <3>1. r \in DOMAIN dup /\ text \in dup[r]  BY <1>6, <2>2
    <3>2. PICK i : Held(s, i) /\ Filed(s, cs, i, r) /\ s[i].text = text  BY <3>1 DEF Recalls
    <3> QED  BY <1>4, <1>5, <3>2
  <2> QED  BY <2>1, <2>2 DEF Recalls
<1> QED  BY <1>2, <1>7 DEF t, ds

\* A closing bracket takes with it the keys of the object it closes.
LEMMA CloseRecalls ==
  ASSUME NEW s \in Seq(Events), NEW e, NEW cs \in Seq(Contexts), NEW dup \in Seq(SUBSET Bytes),
         e.ev \in Outs, Level(s, cs), cs # <<>>,
         NEW less, less = IF Top(cs) = "Object" THEN Popped(dup) ELSE dup
  PROVE  /\ Level(Append(s, e), Popped(cs))
         /\ Recalls(s, cs, dup) /\ InRank(cs, dup) => Recalls(Append(s, e), Popped(cs), less)
<1> DEFINE t == Append(s, e)
           n == Len(s)
           ds == Popped(cs)
           m == Len(cs)
<1>1. n \in Nat /\ Len(t) = n + 1 /\ DepthOf(t, n + 1) = DepthOf(s, n) - 1 /\ DepthOf(s, n) \in Int
  BY DepthAppended
<1>2. Len(ds) = m - 1 /\ m \in Nat \ {0} /\ Top(cs) = cs[m]  BY PoppedAndTop DEF Top
<1>3. Level(t, ds)  BY <1>1, <1>2 DEF Level
<1>4. ASSUME NEW i, Held(t, i)  PROVE i # n + 1 /\ Held(s, i) /\ DepthOf(s, i) < m
  <2>1. e.ev # "key"  BY DEF Outs
  <2>2. i # n + 1 /\ Held(s, i)  BY <1>4, <2>1, HeldAppended
  <2>3. i \in 1 .. n  BY <2>2, HeldDepth
  <2>4. DepthOf(t, i) = DepthOf(s, i) /\ DepthOf(s, i) \in Int  BY <2>2, <2>3, HeldDepth, DepthAppended
  <2>5. n + 1 \in i .. n + 1  BY <1>1, <2>3
  <2>6. DepthOf(t, n + 1) >= DepthOf(t, i)  BY <1>1, <1>4, <2>5 DEF Held
  <2>7. DepthOf(s, n) = m  BY DEF Level
  <2> QED  BY <1>1, <2>2, <2>4, <2>6, <2>7
<1>5. ASSUME NEW i, Held(s, i), DepthOf(s, i) < m  PROVE Held(t, i)
  <2>1. DepthOf(s, n) = m  BY DEF Level
  <2>2. i \in 1 .. n /\ DepthOf(t, n + 1) >= DepthOf(s, i) /\ i # n + 1
    BY <1>1, <1>5, <2>1, HeldDepth
  <2> QED  BY <1>5, <2>2, HeldAppended
<1>6. ASSUME NEW i, NEW r, Held(s, i), Filed(s, cs, i, r), DepthOf(s, i) < m
      PROVE  Filed(t, ds, i, r) /\ t[i] = s[i]
  <2>1. i \in 1 .. Len(s)  BY <1>6, HeldDepth
  <2> QED  BY <1>6, <2>1, FiledKept
<1>7. ASSUME NEW i, NEW r \in DOMAIN dup, Filed(s, cs, i, r), InRank(cs, dup)
      PROVE  /\ DepthOf(s, i) < m => r \in DOMAIN less /\ less[r] = dup[r]
             /\ r \in DOMAIN less /\ less[r] # {} => less[r] = dup[r] /\ DepthOf(s, i) < m
  <2> DEFINE d == DepthOf(s, i)
  <2>1. d \in 1 .. m /\ cs[d] = "Object" /\ r = Rank(cs, d)  BY <1>7 DEF Filed
  <2>2. Rank(cs, m) = Len(dup)  BY <1>7, RankFacts DEF InRank
  <2>3. CASE Top(cs) # "Object"
    <3>1. d # m  BY <1>2, <2>1, <2>3
    <3> HIDE DEF d, m
    <3>2. d < m  BY <1>2, <2>1, <3>1
    <3> QED  BY <2>3, <3>2 DEF d
  <2>4. CASE Top(cs) = "Object"
    <3>1. m \in 1 .. m /\ cs[m] = "Object"  BY <1>2, <2>4
    <3>2. d < m => Rank(cs, d) < Rank(cs, m)  BY <2>1, <3>1, RankFacts
    <3>3. dup # <<>>  BY <1>7
    <3>4. /\ Len(Popped(dup)) = Len(dup) - 1 /\ Len(dup) \in Nat \ {0} /\ Popped(dup) \in Seq(SUBSET Bytes)
          /\ \A j \in 1 .. Len(dup) - 1 : Popped(dup)[j] = dup[j]
      BY <3>3, PoppedAndTop
    <3>5. less = Popped(dup)  BY <2>4
    <3>6. DOMAIN Popped(dup) = 1 .. Len(dup) - 1  BY <3>4
    <3>11. r \in 1 .. Len(dup)  OBVIOUS
    <3>7. d < m => r < Len(dup)  BY <2>1, <2>2, <3>2
    <3>8. ~(d < m) => r = Len(dup)
      <4> HIDE DEF d, m
      <4> QED  BY <1>2, <2>1, <2>2
    <3> DEFINE l == Len(dup)
    <3> HIDE DEF d, m, l
    <3>9. d < m => r \in 1 .. l - 1  BY <3>4, <3>11, <3>7 DEF l
    <3>10. r \in 1 .. l - 1 => d < m  BY <3>4, <3>11, <3>8 DEF l
    <3> QED  BY <3>4, <3>5, <3>6, <3>9, <3>10 DEF d, l
  <2> QED  BY <2>3, <2>4
<1> HIDE DEF t, n, ds, m
<1>8. ASSUME Recalls(s, cs, dup), InRank(cs, dup)  PROVE Recalls(t, ds, less)
  <2>1. ASSUME NEW i, Held(t, i)
        PROVE  \E r \in DOMAIN less : Filed(t, ds, i, r) /\ t[i].text \in less[r]
    <3>1. PICK r \in DOMAIN dup : Filed(s, cs, i, r) /\ s[i].text \in dup[r]
      BY <1>4, <1>8, <2>1 DEF Recalls
    <3> QED  BY <1>4, <1>6, <1>7, <1>8, <2>1, <3>1
  <2>2. ASSUME NEW r \in DOMAIN less, NEW text \in less[r]
        PROVE  \E i : Held(t, i) /\ Filed(t, ds, i, r) /\ t[i].text = text
    <3>1. r \in DOMAIN dup /\ less[r] = dup[r]
      <4>1. CASE Top(cs) # "Object"  BY <4>1
      <4>2. CASE Top(cs) = "Object"
        <5>1. less = SubSeq(dup, 1, Len(dup) - 1)  BY <4>2 DEF Popped
        <5>2. CASE dup = <<>>
          <6>1. less = <<>>  BY <5>1, <5>2
          <6> QED  BY <6>1
        <5>3. CASE dup # <<>>
          <6>1. /\ Len(Popped(dup)) = Len(dup) - 1 /\ Len(dup) \in Nat \ {0}
                /\ Popped(dup) \in Seq(SUBSET Bytes)
                /\ \A j \in 1 .. Len(dup) - 1 : Popped(dup)[j] = dup[j]
            BY <5>3, PoppedAndTop
          <6>2. r \in 1 .. Len(dup) - 1 /\ less = Popped(dup)  BY <4>2, <6>1
          <6>3. r \in 1 .. Len(dup)  BY <6>1, <6>2
          <6> QED  BY <6>1, <6>2, <6>3
        <5> QED  BY <5>2, <5>3
      <4> QED  BY <4>1, <4>2
    <3>2. PICK i : Held(s, i) /\ Filed(s, cs, i, r) /\ s[i].text = text
      BY <1>8, <2>2, <3>1 DEF Recalls
    <3>3. DepthOf(s, i) < m  BY <1>7, <1>8, <2>2, <3>1, <3>2
    <3> QED  BY <1>5, <1>6, <3>2, <3>3
  <2> QED  BY <2>1, <2>2 DEF Recalls
<1> QED  BY <1>3, <1>8 DEF t, ds

\* The set of keys on top holds the keys of the innermost object.
LEMMA TopRecalls ==
  ASSUME NEW s \in Seq(Events), NEW cs \in Seq(Contexts), NEW dup \in Seq(SUBSET Bytes),
         Level(s, cs), Recalls(s, cs, dup), InRank(cs, dup), cs # <<>>, Top(cs) = "Object"
  PROVE  /\ dup # <<>> /\ Rank(cs, Len(cs)) = Len(dup)
         /\ \A text : text \in Top(dup) <=>
              \E i : Held(s, i) /\ DepthOf(s, i) = DepthOf(s, Len(s)) /\ s[i].text = text
<1> DEFINE m == Len(cs)
           l == Len(dup)
<1>1. m \in Nat \ {0} /\ cs[m] = "Object" /\ DepthOf(s, Len(s)) = m
  BY PoppedAndTop DEF Top, Level
<1>2. Rank(cs, m) = l  BY RankFacts DEF InRank
<1>3. m \in 1 .. m  BY <1>1
<1>4. l \in Nat /\ 1 <= l  BY <1>1, <1>2, <1>3, RankFacts
<1>5. l \in DOMAIN dup /\ Top(dup) = dup[l] /\ dup # <<>>  BY <1>4 DEF Top
<1>6. \A d \in 1 .. m : d < m => Rank(cs, d) < Rank(cs, m)  BY <1>1, <1>3, RankFacts
<1> HIDE DEF m, l
<1>7. ASSUME NEW i, NEW r, Filed(s, cs, i, r)  PROVE DepthOf(s, i) = m <=> r = l
  <2>1. DepthOf(s, i) \in 1 .. m /\ r = Rank(cs, DepthOf(s, i))  BY <1>7 DEF Filed, m
  <2>2. DepthOf(s, i) # m => r < l  BY <1>1, <1>2, <1>6, <2>1
  <2> QED  BY <1>2, <1>4, <2>1, <2>2
<1>8. ASSUME NEW text, text \in dup[l]
      PROVE  \E i : Held(s, i) /\ DepthOf(s, i) = m /\ s[i].text = text
  BY <1>5, <1>7, <1>8 DEF Recalls
<1>9. ASSUME NEW i, Held(s, i), DepthOf(s, i) = m  PROVE s[i].text \in dup[l]
  BY <1>7, <1>9 DEF Recalls
<1> QED  BY <1>1, <1>2, <1>5, <1>8, <1>9 DEF m, l

\* The members of a sequence with one more.
LEMMA Appended ==
  ASSUME NEW S, NEW q \in Seq(S), NEW x \in S
  PROVE  /\ Len(Append(q, x)) = Len(q) + 1 /\ DOMAIN Append(q, x) = 1 .. Len(q) + 1
         /\ Append(q, x)[Len(q) + 1] = x
         /\ \A r \in 1 .. Len(q) : Append(q, x)[r] = q[r]
BY AppendProperties

\* A key is remembered on top.
LEMMA KeyRecalls ==
  ASSUME NEW s \in Seq(Events), NEW e, NEW cs \in Seq(Contexts), NEW dup \in Seq(SUBSET Bytes),
         e.ev = "key", e.text \in Bytes, Level(s, cs), cs # <<>>, Top(cs) = "Object",
         NEW more, more = Append(Popped(dup), Top(dup) \cup {e.text})
  PROVE  /\ Level(Append(s, e), cs)
         /\ Recalls(s, cs, dup) /\ InRank(cs, dup) => Recalls(Append(s, e), cs, more)
<1> DEFINE t == Append(s, e)
           n == Len(s)
           m == Len(cs)
           l == Len(dup)
<1>0. e.ev \notin Ins \cup Outs  BY DEF Ins, Outs
<1>1. /\ n \in Nat /\ Len(t) = n + 1 /\ DepthOf(t, n + 1) = DepthOf(s, n) /\ t[n + 1] = e
      /\ DepthOf(s, n) = m
  BY <1>0, DepthAppended DEF Level
<1>2. m \in Nat \ {0} /\ cs[m] = "Object" /\ Level(t, cs)  BY <1>1, PoppedAndTop DEF Top, Level
<1>3. \A i : i # n + 1 /\ Held(t, i) => Held(s, i)  BY HeldAppended
<1>4. ASSUME NEW i, Held(s, i)  PROVE Held(t, i) /\ i \in 1 .. n
  <2>1. i \in 1 .. n /\ DepthOf(t, n + 1) >= DepthOf(s, i) /\ i # n + 1
    BY <1>1, <1>4, HeldDepth
  <2> QED  BY <1>4, <2>1, HeldAppended
<1>5. ASSUME NEW i, NEW r, Held(s, i), Filed(s, cs, i, r)
      PROVE  Filed(t, cs, i, r) /\ t[i] = s[i]
  <2>1. i \in 1 .. Len(s)  BY <1>4, <1>5
  <2> QED  BY <1>5, <2>1, FiledKept
<1>6. ASSUME Recalls(s, cs, dup), InRank(cs, dup)  PROVE Recalls(t, cs, more)
  <2>1. dup # <<>> /\ Rank(cs, m) = l  BY <1>6, TopRecalls
  <2>2. /\ Len(Popped(dup)) = l - 1 /\ l \in Nat \ {0} /\ Popped(dup) \in Seq(SUBSET Bytes)
        /\ \A j \in 1 .. l - 1 : Popped(dup)[j] = dup[j]
    BY <2>1, PoppedAndTop
  <2>3. Top(dup) = dup[l]  BY DEF Top
  <2>4. /\ DOMAIN more = 1 .. l /\ DOMAIN dup = 1 .. l
        /\ more[l] = dup[l] \cup {e.text}
        /\ \A r \in 1 .. l - 1 : more[r] = dup[r]
    <3> DEFINE under == Popped(dup)
               x == dup[l] \cup {e.text}
    <3>1. more = Append(under, x) /\ x = dup[l] \cup {e.text}  BY <2>3
    <3>2. /\ x \in SUBSET Bytes /\ under \in Seq(SUBSET Bytes) /\ Len(under) = l - 1 /\ DOMAIN dup = 1 .. l
          /\ \A r \in 1 .. l - 1 : under[r] = dup[r]
      BY <2>2
    <3> HIDE DEF under, x, l
    <3>3. more = Append(under, x)  BY <3>1
    <3>4. x \in SUBSET Bytes /\ under \in Seq(SUBSET Bytes)  BY <3>2
    <3>5. /\ Len(Append(under, x)) = Len(under) + 1 /\ DOMAIN Append(under, x) = 1 .. Len(under) + 1
          /\ Append(under, x)[Len(under) + 1] = x
          /\ \A r \in 1 .. Len(under) : Append(under, x)[r] = under[r]
      BY <3>4, Appended
    <3>6. /\ Len(more) = Len(under) + 1 /\ DOMAIN more = 1 .. Len(under) + 1
          /\ more[Len(under) + 1] = x /\ \A r \in 1 .. Len(under) : more[r] = under[r]
      BY <3>3, <3>5, Zenon
    <3>7. Len(under) + 1 = l  BY <2>2, <3>2
    <3> QED  BY <3>1, <3>2, <3>6, <3>7
  <2>5. Held(t, n + 1)
    <3>1. DepthOf(t, n + 1) >= DepthOf(t, n + 1)  BY <1>1, <1>2
    <3>2. \A k \in n + 1 .. n + 1 : k = n + 1  BY <1>1
    <3>3. n + 1 \in DOMAIN t  BY <1>1
    <3> HIDE DEF t, n
    <3> QED  BY <1>1, <3>1, <3>2, <3>3 DEF Held
  <2>6. Filed(t, cs, n + 1, l)
    <3>1. m \in 1 .. m  BY <1>2
    <3> HIDE DEF t, n
    <3> QED  BY <1>1, <1>2, <2>1, <3>1 DEF Filed
  <2>7. /\ l \in 1 .. l
        /\ \A r \in 1 .. l : r # l => r \in 1 .. l - 1
    BY <2>2
  <2> HIDE DEF t, n, m, l
  <2>8. ASSUME NEW i, Held(t, i)
        PROVE  \E r \in DOMAIN more : Filed(t, cs, i, r) /\ t[i].text \in more[r]
    <3>1. CASE i = n + 1  BY <1>1, <2>4, <2>6, <2>7, <3>1
    <3>2. CASE i # n + 1
      <4>1. PICK r \in DOMAIN dup : Filed(s, cs, i, r) /\ s[i].text \in dup[r]
        BY <1>3, <1>6, <2>8, <3>2 DEF Recalls
      <4>2. r \in DOMAIN more /\ dup[r] \subseteq more[r]  BY <2>4, <2>7
      <4> QED  BY <1>3, <1>5, <2>8, <3>2, <4>1, <4>2
    <3> QED  BY <3>1, <3>2
  <2>9. ASSUME NEW r \in DOMAIN more, NEW text \in more[r]
        PROVE  \E i : Held(t, i) /\ Filed(t, cs, i, r) /\ t[i].text = text
    <3>1. CASE r = l /\ text = e.text  BY <1>1, <2>5, <2>6, <3>1
    <3>2. CASE text \in dup[r]
      <4>1. PICK i : Held(s, i) /\ Filed(s, cs, i, r) /\ s[i].text = text
        BY <1>6, <2>4, <2>9, <3>2 DEF Recalls
      <4> QED  BY <1>4, <1>5, <4>1
    <3> QED  BY <2>4, <2>7, <2>9, <3>1, <3>2
  <2> QED  BY <2>8, <2>9 DEF Recalls
<1> QED  BY <1>2, <1>6 DEF t

-----------------------------------------------------------------------------
(* No key is delivered twice                                               *)

\* NoDuplicateKeyDelivered, of any history s.
NoneTwice(s) ==
  \A i, j \in DOMAIN s :
    /\ s[i].ev = "key" /\ s[j].ev = "key" /\ i < j /\ DepthOf(s, i) = DepthOf(s, j)
    /\ \A k \in i .. j : DepthOf(s, k) >= DepthOf(s, i)
    => s[i].text # s[j].text

\* A key that is new to the innermost object is no duplicate of any.
LEMMA NoneTwiceOn ==
  ASSUME NEW s \in Seq(Events), NEW e, NoneTwice(s),
         e.ev = "key" =>
           \A i : Held(s, i) /\ DepthOf(s, i) = DepthOf(s, Len(s)) => s[i].text # e.text
  PROVE  NoneTwice(Append(s, e))
<1> DEFINE t == Append(s, e)
           n == Len(s)
<1>1. /\ n \in Nat /\ DOMAIN s = 1 .. n /\ DOMAIN t = 1 .. n + 1 /\ t[n + 1] = e
      /\ \A i \in 1 .. n : t[i] = s[i] /\ DepthOf(t, i) = DepthOf(s, i)
      /\ e.ev \notin Ins \cup Outs => DepthOf(t, n + 1) = DepthOf(s, n)
  BY DepthAppended
<1>2. n = Len(s) /\ t = Append(s, e)  OBVIOUS
<1> HIDE DEF t, n
<1>3. ASSUME NEW i \in 1 .. n + 1, NEW j \in 1 .. n + 1,
             t[i].ev = "key", t[j].ev = "key", i < j, DepthOf(t, i) = DepthOf(t, j),
             \A k \in i .. j : DepthOf(t, k) >= DepthOf(t, i)
      PROVE  t[i].text # t[j].text
  <2>1. i \in 1 .. n  BY <1>1, <1>3
  <2>2. CASE j \in 1 .. n
    <3>1. \A k \in i .. j : k \in 1 .. n  BY <1>1, <2>1, <2>2
    <3>2. \A k \in i .. j : DepthOf(s, k) >= DepthOf(s, i)  BY <1>1, <1>3, <2>1, <3>1
    <3> QED  BY <1>1, <1>3, <2>1, <2>2, <3>2 DEF NoneTwice
  <2>3. CASE j = n + 1
    <3>1. e.ev = "key" /\ e.ev \notin Ins \cup Outs  BY <1>1, <1>3, <2>3 DEF Ins, Outs
    <3>2. \A k \in i .. n : k \in 1 .. n /\ k \in i .. j  BY <1>1, <2>1, <2>3
    <3>3. \A k \in i .. n : DepthOf(s, k) >= DepthOf(s, i)  BY <1>1, <1>3, <2>1, <3>2
    <3>4. Held(s, i)  BY <1>1, <1>2, <1>3, <2>1, <3>3 DEF Held
    <3>5. DepthOf(s, i) = DepthOf(s, n)  BY <1>1, <1>3, <2>1, <2>3, <3>1
    <3> QED  BY <1>1, <1>2, <2>1, <2>3, <3>1, <3>4, <3>5
  <2>4. j \in 1 .. n \/ j = n + 1  BY <1>1
  <2> QED  BY <2>2, <2>3, <2>4
<1>4. NoneTwice(t)  BY <1>1, <1>3 DEF NoneTwice
<1> QED  BY <1>2, <1>4

\* NoDuplicateKeyDelivered, of the callbacks before and after a step.
LEMMA NoneTwiceIs ==
  /\ NoDuplicateKeyDelivered <=> (tok.reject_duplicate_keys => NoneTwice(events))
  /\ NoDuplicateKeyDelivered' <=> (tok'.reject_duplicate_keys => NoneTwice(events'))
<1>1. NoDuplicateKeyDelivered <=> (tok.reject_duplicate_keys => NoneTwice(events))
  BY EventDepthIs DEF NoDuplicateKeyDelivered, NoneTwice, EventNumbers, SameObject
<1>2. NoDuplicateKeyDelivered' <=> (tok'.reject_duplicate_keys => NoneTwice(events'))
  BY EventDepthIs DEF NoDuplicateKeyDelivered, NoneTwice, EventNumbers, SameObject
<1> QED  BY <1>1, <1>2

\* Until a call fails or the document ends, the tokenizer remembers the keys of
\* the objects that are open.
Remembers(s, t) ==
  /\ Level(s, t.context_stack)
  /\ t.reject_duplicate_keys => Recalls(s, t.context_stack, t.duplicate_key_stack)
Remembered == NoDuplicateKeyDelivered /\ (Running => Remembers(events, tok))

\* A report is one more callback.
LEMMA ReportedIs ==
  ASSUME NEW ev, Reports(ev)  PROVE \E e : events' = Append(events, e) /\ e.ev = ev
BY DEF Reports, Notify

\* A step makes at most one callback.
LEMMA ReportsOnce ==
  ASSUME events \in Seq(Events), NEW ev, Reports(ev)
  PROVE  events' # events /\ \A other : Reports(other) => other = ev
<1> DEFINE n == Len(events)
<1>1. n \in Nat  BY LenProperties
<1>2. \A e : Len(Append(events, e)) = n + 1 /\ Append(events, e)[n + 1] = e  BY AppendProperties
<1>3. \A other : Reports(other) => Len(events') = n + 1 /\ events'[n + 1].ev = other
  BY <1>2, ReportedIs
<1> HIDE DEF n
<1>4. Len(events') # n  BY <1>1, <1>3
<1> QED  BY <1>3, <1>4 DEF n

\* A callback that is no bracket and no key, or none.
FlatEvents == Callbacks \ (Ins \cup Outs \cup {"key"})
\* A callback that neither opens, closes nor names anything keeps the keys.
LEMMA FlatRemembers ==
  ASSUME TypeOK, NoDuplicateKeyDelivered, Remembers(events, tok),
         tok'.reject_duplicate_keys = tok.reject_duplicate_keys,
         tok'.duplicate_key_stack = tok.duplicate_key_stack,
         UNCHANGED events \/ \E ev \in FlatEvents : Reports(ev)
  PROVE  /\ NoDuplicateKeyDelivered'
         /\ tok'.context_stack = tok.context_stack => Remembers(events', tok')
<1>1. events \in Seq(Events) /\ tok.context_stack \in Seq(Contexts)  BY TypeFacts, TokenizerFields
<1>2. /\ tok'.reject_duplicate_keys = tok.reject_duplicate_keys
      /\ tok'.duplicate_key_stack = tok.duplicate_key_stack
  OBVIOUS
<1>3. CASE UNCHANGED events  BY <1>2, <1>3, NoneTwiceIs DEF Remembers
<1>4. CASE \E ev \in FlatEvents : Reports(ev)
  <2>1. PICK e : events' = Append(events, e) /\ e.ev \in FlatEvents  BY <1>4, ReportedIs
  <2>2. e.ev \notin Ins \cup Outs \cup {"key"}  BY <2>1 DEF FlatEvents
  <2>3. NoneTwice(events) => NoneTwice(events')  BY <1>1, <2>1, <2>2, NoneTwiceOn
  <2>4. Level(events', tok.context_stack)  BY <1>1, <2>1, <2>2, FlatRecalls DEF Remembers
  <2>5. \A dup : Recalls(events, tok.context_stack, dup) => Recalls(events', tok.context_stack, dup)
    BY <1>1, <2>1, <2>2, FlatRecalls DEF Remembers
  <2> QED  BY <1>2, <2>3, <2>4, <2>5, NoneTwiceIs DEF Remembers
<1> QED  BY <1>3, <1>4

\* So does a step within a token, or between two.
LEMMA QuietRemembers ==
  ASSUME TypeOK, QuietStep, NoDuplicateKeyDelivered, Remembers(events, tok)
  PROVE  NoDuplicateKeyDelivered' /\ Remembers(events', tok')
<1>1. UNCHANGED events \/ \E ev \in FlatEvents : Reports(ev)
  <2>1. {"whitespace", "string_value_content"} \subseteq FlatEvents
    BY DEF FlatEvents, Callbacks, Ins, Outs
  <2> QED  BY <2>1, QuietTells
<1>2. Carries(tok, tok') /\ tok'.context_stack = tok.context_stack
  BY QuietCarries, QuietPlace DEF SamePlace
<1> QED  BY <1>1, <1>2, FlatRemembers DEF Carries

\* A bracket that goes on leaves the stacks of t.
LEMMA BracketCarries ==
  ASSUME TypeOK, NEW b, NEW ev, NEW t \in Tokenizers, NEW state \in States, Bracket(b, ev, t, state)
  PROVE  /\ Reports(ev) /\ Allowed(b)
         /\ GoesOn => tok'.context_stack = t.context_stack /\ Carries(t, tok')
<1>1. Reports(ev)  BY DEF Bracket, Reports
<1>2. /\ Allowed(b)
      /\ \/ Expects(t, state) /\ GoesOn
         \/ SamePlace(t, tok') /\ Fails
         \/ SamePlace(tok, tok') /\ Fails /\ ev \in Refusable
  BY BracketPlace
<1>3. GoesOn => ~Fails  BY DEF GoesOn, Fails
<1>4. call \in Calls  BY TypeFacts
<1>5. HandlerFails(ev, Here, 1) => ~GoesOn
  <2>1. HandlerFails(ev, Here, 1) => call'.pc = "fed"  BY <1>4, RefusedPlace
  <2> QED  BY <2>1 DEF GoesOn
<1>6. GoesOn => TokenDone(t, 1, state, FALSE)  BY <1>5 DEF Bracket
<1>7. TokenDone(t, 1, state, FALSE) => Carries(t, tok')  BY DoneCarries
<1> QED  BY <1>1, <1>2, <1>3, <1>6, <1>7 DEF Expects

\* A bracket is no key.
LEMMA NestEvents ==
  ASSUME TypeOK, NoDuplicateKeyDelivered, tok'.reject_duplicate_keys = tok.reject_duplicate_keys,
         NEW ev, Reports(ev), ev # "key"
  PROVE  NoDuplicateKeyDelivered'
<1>1. events \in Seq(Events)  BY TypeFacts
<1>2. PICK e : events' = Append(events, e) /\ e.ev = ev  BY ReportedIs
<1>3. NoneTwice(events) => NoneTwice(events')  BY <1>1, <1>2, NoneTwiceOn
<1> QED  BY <1>3, NoneTwiceIs

\* A bracket adds an empty set of keys for an object, or drops the last one.
LEMMA NestRemembers ==
  ASSUME TypeOK, StacksAgree, NoDuplicateKeyDelivered, Remembers(events, tok),
         tok'.reject_duplicate_keys = tok.reject_duplicate_keys,
         StartObject \/ StartArray \/ EndObject \/ EndArray
  PROVE  NoDuplicateKeyDelivered' /\ (GoesOn => Remembers(events', tok'))
<1> DEFINE cs == tok.context_stack
           dup == tok.duplicate_key_stack
           reject == tok.reject_duplicate_keys
<1>1. /\ events \in Seq(Events) /\ cs \in Seq(Contexts) /\ dup \in Seq(SUBSET Bytes)
      /\ tok \in Tokenizers
  BY TypeFacts, TokenizerFields
<1>2. /\ Here \in Tokenizers /\ Here.context_stack = cs /\ Here.duplicate_key_stack = dup
      /\ Here.reject_duplicate_keys = reject
  BY <1>1, HereType, Zenon DEF Here, Tokenizers
<1>3. /\ ObjectEntered(Here) \in Tokenizers /\ ArrayEntered(Here) \in Tokenizers
      /\ ObjectLeft(Here) \in Tokenizers /\ ArrayLeft(Here) \in Tokenizers
  BY <1>2, NestType
<1>4. /\ ObjectEntered(Here).context_stack = Append(cs, "Object")
      /\ ArrayEntered(Here).context_stack = Append(cs, "Array")
      /\ ObjectLeft(Here).context_stack = Popped(cs) /\ ArrayLeft(Here).context_stack = Popped(cs)
  BY <1>2, NestPlace
<1>5. /\ ObjectEntered(Here).duplicate_key_stack = IF reject THEN Append(dup, {}) ELSE dup
      /\ ArrayEntered(Here).duplicate_key_stack = dup /\ ArrayLeft(Here).duplicate_key_stack = dup
      /\ ObjectLeft(Here).duplicate_key_stack = IF reject /\ dup # <<>> THEN Popped(dup) ELSE dup
  <2>1. /\ ObjectEntered(Here).duplicate_key_stack =
             IF Here.reject_duplicate_keys THEN Append(Here.duplicate_key_stack, {})
             ELSE Here.duplicate_key_stack
        /\ ObjectLeft(Here).duplicate_key_stack =
             IF Here.reject_duplicate_keys /\ Here.duplicate_key_stack # <<>>
             THEN Popped(Here.duplicate_key_stack) ELSE Here.duplicate_key_stack
    BY <1>2, Zenon DEF ObjectEntered, ObjectLeft, Tokenizers
  <2>2. Carries(Here, ArrayEntered(Here)) /\ Carries(Here, ArrayLeft(Here))  BY <1>2, Carried
  <2> QED  BY <1>2, <2>1, <2>2 DEF Carries
<1>6. {"ExpectKey", "ExpectValue", "AfterValue"} \subseteq States  BY DEF States
<1> HIDE DEF cs, dup, reject
<1>7. ASSUME NEW c \in Contexts, NEW ev \in Ins, Reports(ev), NEW more \in {dup, Append(dup, {})},
             GoesOn => /\ tok'.context_stack = Append(cs, c)
                       /\ reject => tok'.duplicate_key_stack = more
      PROVE  NoDuplicateKeyDelivered' /\ (GoesOn => Remembers(events', tok'))
  <2>1. NoDuplicateKeyDelivered'  BY <1>7, NestEvents DEF Ins
  <2>2. PICK e : events' = Append(events, e) /\ e.ev = ev  BY <1>7, ReportedIs
  <2>3. Level(events, cs) /\ (reject => Recalls(events, cs, dup))  BY DEF Remembers, cs, dup, reject
  <2>4. /\ Level(events', Append(cs, c))
        /\ Recalls(events, cs, dup) => Recalls(events', Append(cs, c), more)
    BY <1>1, <1>7, <2>2, <2>3, OpenRecalls
  <2>5. GoesOn => Remembers(events', tok')  BY <1>7, <2>3, <2>4 DEF Remembers, reject
  <2> QED  BY <2>1, <2>5
<1>8. ASSUME NEW c \in Contexts, NEW ev \in Outs, Reports(ev), Inside(c),
             GoesOn => /\ tok'.context_stack = Popped(cs)
                       /\ tok'.duplicate_key_stack =
                            IF c = "Object" /\ reject /\ dup # <<>> THEN Popped(dup) ELSE dup
      PROVE  NoDuplicateKeyDelivered' /\ (GoesOn => Remembers(events', tok'))
  <2>1. NoDuplicateKeyDelivered'  BY <1>8, NestEvents DEF Outs
  <2>2. PICK e : events' = Append(events, e) /\ e.ev = ev  BY <1>8, ReportedIs
  <2>3. Level(events, cs) /\ (reject => Recalls(events, cs, dup))  BY DEF Remembers, cs, dup, reject
  <2>4. cs # <<>> /\ Top(cs) = c  BY <1>8 DEF Inside, cs
  <2> DEFINE less == IF Top(cs) = "Object" THEN Popped(dup) ELSE dup
  <2>5. /\ Level(events', Popped(cs))
        /\ Recalls(events, cs, dup) /\ InRank(cs, dup) => Recalls(events', Popped(cs), less)
    BY <1>1, <1>8, <2>2, <2>3, <2>4, CloseRecalls
  <2>6. reject => InRank(cs, dup)  BY DEF StacksAgree, InRank, cs, dup, reject
  <2>7. reject /\ c = "Object" => dup # <<>>  BY <1>1, <2>3, <2>4, <2>6, TopRecalls
  <2>8. GoesOn /\ reject => tok'.duplicate_key_stack = less  BY <1>8, <2>4, <2>7
  <2> HIDE DEF less
  <2>9. GoesOn => Remembers(events', tok')
    BY <1>8, <2>3, <2>5, <2>6, <2>8 DEF Remembers, reject
  <2> QED  BY <2>1, <2>9
<1>9. CASE StartObject
  <2>1. Bracket("{", "start_object", ObjectEntered(Here), "ExpectKey")  BY <1>9 DEF StartObject
  <2>2. /\ Reports("start_object")
        /\ GoesOn => tok'.context_stack = Append(cs, "Object") /\ Carries(ObjectEntered(Here), tok')
    BY <1>3, <1>4, <1>6, <2>1, BracketCarries
  <2>3. GoesOn /\ reject => tok'.duplicate_key_stack = Append(dup, {})  BY <1>5, <2>2 DEF Carries
  <2>4. "Object" \in Contexts /\ "start_object" \in Ins  BY DEF Contexts, Ins
  <2> QED  BY <1>7, <2>2, <2>3, <2>4
<1>10. CASE StartArray
  <2>1. Bracket("[", "start_array", ArrayEntered(Here), "ExpectValue")  BY <1>10 DEF StartArray
  <2>2. /\ Reports("start_array")
        /\ GoesOn => tok'.context_stack = Append(cs, "Array") /\ Carries(ArrayEntered(Here), tok')
    BY <1>3, <1>4, <1>6, <2>1, BracketCarries
  <2>3. GoesOn => tok'.duplicate_key_stack = dup  BY <1>5, <2>2 DEF Carries
  <2>4. "Array" \in Contexts /\ "start_array" \in Ins  BY DEF Contexts, Ins
  <2> QED  BY <1>7, <2>2, <2>3, <2>4
<1>11. CASE EndObject
  <2>1. Bracket("}", "end_object", ObjectLeft(Here), "AfterValue")  BY <1>11 DEF EndObject
  <2>2. /\ Reports("end_object") /\ Allowed("}")
        /\ GoesOn => tok'.context_stack = Popped(cs) /\ Carries(ObjectLeft(Here), tok')
    BY <1>3, <1>4, <1>6, <2>1, BracketCarries
  <2>3. GoesOn => tok'.duplicate_key_stack = IF reject /\ dup # <<>> THEN Popped(dup) ELSE dup
    BY <1>5, <2>2 DEF Carries
  <2>4. "Object" \in Contexts /\ "end_object" \in Outs  BY DEF Contexts, Outs
  <2>5. Inside("Object")  BY <2>2, BytesAssumption DEF Allowed, MayClose, Quote, Digits
  <2> QED  BY <1>8, <2>2, <2>3, <2>4, <2>5
<1>12. CASE EndArray
  <2>1. Bracket("]", "end_array", ArrayLeft(Here), "AfterValue")  BY <1>12 DEF EndArray
  <2>2. /\ Reports("end_array") /\ Allowed("]")
        /\ GoesOn => tok'.context_stack = Popped(cs) /\ Carries(ArrayLeft(Here), tok')
    BY <1>3, <1>4, <1>6, <2>1, BracketCarries
  <2>3. GoesOn => tok'.duplicate_key_stack = dup  BY <1>5, <2>2 DEF Carries
  <2>4. "Array" \in Contexts /\ "end_array" \in Outs  BY DEF Contexts, Outs
  <2>5. Inside("Array")  BY <2>2, BytesAssumption DEF Allowed, MayClose, Quote, Digits
  <2> QED  BY <1>8, <2>2, <2>3, <2>4, <2>5
<1> QED  BY <1>9, <1>10, <1>11, <1>12

\* A key is delivered only if its object does not have it yet.
LEMMA KeyRemembers ==
  ASSUME TypeOK, StacksAgree, Reading, KeysOnlyInObjects, Running,
         NoDuplicateKeyDelivered, Remembers(events, tok), KeyDone
  PROVE  NoDuplicateKeyDelivered' /\ (GoesOn => Remembers(events', tok'))
<1> DEFINE cs == tok.context_stack
           dup == tok.duplicate_key_stack
           reject == tok.reject_duplicate_keys
           seen == Seen(tok, KeyText)
           t == Disabled(seen)
<1>1. /\ events \in Seq(Events) /\ cs \in Seq(Contexts) /\ dup \in Seq(SUBSET Bytes)
      /\ tok \in Tokenizers /\ call \in Calls
  BY TypeFacts, TokenizerFields
<1>2. /\ ReadingKey
      /\ \/ SamePlace(tok, tok') /\ Fails /\ UNCHANGED events
         \/ /\ Notify("key", KeyText, loc')
            /\ \/ Expects(tok, "ExpectColon") /\ GoesOn
               \/ SamePlace(tok, tok') /\ Fails
  BY KeyPlace
<1>3. cs # <<>> /\ Top(cs) = "Object"
  BY <1>2 DEF Reading, Running, KeysOnlyInObjects
<1>4. KeyText \in Bytes  BY KeyTextType DEF KeyDone
<1>5. seen \in Tokenizers /\ t \in Tokenizers  BY <1>1, <1>4, SeenType
<1>6. reject => InRank(cs, dup)  BY DEF StacksAgree, InRank
<1>7. Level(events, cs) /\ (reject => Recalls(events, cs, dup))  BY DEF Remembers
<1>8. reject => dup # <<>>  BY <1>1, <1>3, <1>6, <1>7, TopRecalls
<1>9. \E n :
        \/ tok' = Disabled(tok) /\ call' = Failed(n, "duplicate") /\ UNCHANGED events
        \/ /\ ~Duplicate(KeyText) /\ Notify("key", KeyText, loc')
           /\ HandlerFails("key", t, n) \/ TokenDone(t, n, "ExpectColon", FALSE)
  BY DEF KeyDone
<1>10. /\ seen.reject_duplicate_keys = reject
       /\ reject => seen.duplicate_key_stack = Append(Popped(dup), Top(dup) \cup {KeyText})
  BY <1>1, <1>8, Zenon DEF Seen, Tokenizers
<1>11. Carries(seen, t) /\ Carries(tok, Disabled(tok))  BY <1>1, <1>5, Carried
<1>12. CASE \E n : tok' = Disabled(tok) /\ call' = Failed(n, "duplicate") /\ UNCHANGED events
  <2>1. ~GoesOn
    <3>1. \A n : Failed(n, "duplicate").pc = "fed"  BY <1>1, Zenon DEF Failed, Calls
    <3> QED  BY <1>12, <3>1 DEF GoesOn
  <2> QED  BY <1>11, <1>12, <2>1, FlatRemembers DEF Carries
<1> HIDE DEF cs, dup, reject, seen, t
<1>13. CASE \E n : /\ ~Duplicate(KeyText) /\ Notify("key", KeyText, loc')
                   /\ HandlerFails("key", t, n) \/ TokenDone(t, n, "ExpectColon", FALSE)
  <2> DEFINE e == [ev |-> "key", text |-> KeyText, line |-> loc'.line, column |-> loc'.column]
  <2>1. events' = Append(events, e) /\ e.ev = "key" /\ e.text = KeyText  BY <1>13 DEF Notify
  <2> HIDE DEF e
  <2>2. Carries(t, tok')
    <3>1. \A n : HandlerFails("key", t, n) => tok' = t  BY DEF HandlerFails
    <3>2. Carries(t, t)  BY DEF Carries
    <3> QED  BY <1>5, <1>13, <3>1, <3>2, DoneCarries
  <2>3. /\ tok'.reject_duplicate_keys = reject
        /\ reject => tok'.duplicate_key_stack = Append(Popped(dup), Top(dup) \cup {e.text})
    BY <1>10, <1>11, <2>1, <2>2 DEF Carries
  <2>4. reject => KeyText \notin Top(dup)  BY <1>8, <1>13 DEF Duplicate, dup, reject
  <2>5. reject => \A i : Held(events, i) /\ DepthOf(events, i) = DepthOf(events, Len(events))
                           => events[i].text # KeyText
    BY <1>1, <1>3, <1>6, <1>7, <2>4, TopRecalls
  <2>6. reject => (NoneTwice(events) => NoneTwice(events'))
    BY <1>1, <2>1, <2>5, NoneTwiceOn
  <2>7. NoDuplicateKeyDelivered'  BY <2>3, <2>6, NoneTwiceIs DEF reject
  <2>8. GoesOn => tok'.context_stack = cs
    BY <1>2, <2>1 DEF Expects, GoesOn, Fails, cs, SamePlace
  <2> DEFINE more == Append(Popped(dup), Top(dup) \cup {e.text})
  <2>9. /\ Level(events', cs)
        /\ Recalls(events, cs, dup) /\ InRank(cs, dup) => Recalls(events', cs, more)
    BY <1>1, <1>3, <1>4, <1>7, <2>1, KeyRecalls
  <2>10. GoesOn => Remembers(events', tok')
    BY <1>6, <1>7, <2>3, <2>8, <2>9 DEF Remembers
  <2> QED  BY <2>7, <2>10
<1> QED  BY <1>9, <1>12, <1>13

\* The steps that read neither a bracket nor a key.
LEMMA FlatTells ==
  ASSUME TokenStep
  PROVE  \/ StartObject \/ StartArray \/ EndObject \/ EndArray \/ KeyDone
         \/ UNCHANGED events \/ \E ev \in FlatEvents : Reports(ev)
<1>1. {"literal", "number_value", "start_string_value", "end_string_value"} \subseteq FlatEvents
  BY DEF FlatEvents, Callbacks, Ins, Outs
<1>2. CASE Comma \/ Colon  BY <1>2 DEF Comma, Colon
<1>3. CASE \E b \in DOMAIN Literals : Literal(b)  BY <1>1, <1>3 DEF Literal, Reports
<1>4. CASE NumberStep /\ ~NumberWrong
  BY <1>1, <1>4 DEF NumberStep, NumberStart, NumberRun, NumberByte, TakeNumber, NumberEnd, EmitNumber,
     Reports
<1>5. CASE StringStart \/ StringEnd  BY <1>1, <1>5 DEF StringStart, StringEnd, Reports
<1> QED  BY <1>2, <1>3, <1>4, <1>5 DEF TokenStep

\* Every step that takes a token keeps the keys remembered, or fails.
LEMMA TokenRemembers ==
  ASSUME TypeOK, StacksAgree, Reading, Lengthy, KeysOnlyInObjects, Running,
         NoDuplicateKeyDelivered, Remembers(events, tok), TokenStep
  PROVE  NoDuplicateKeyDelivered' /\ (GoesOn => Remembers(events', tok')) /\ (GoesOn \/ Fails)
<1>0. tok'.reject_duplicate_keys = tok.reject_duplicate_keys /\ events \in Seq(Events)
  BY TokenCarries, TypeFacts
<1>1. (GoesOn /\ Moves) \/ Fails  BY TokenMoves DEF ComesOut
<1>2. CASE StartObject \/ StartArray \/ EndObject \/ EndArray
  BY <1>0, <1>1, <1>2, NestRemembers
<1>3. CASE KeyDone  BY <1>1, <1>3, KeyRemembers
<1>4. CASE ~(StartObject \/ StartArray \/ EndObject \/ EndArray \/ KeyDone)
  <2>1. UNCHANGED events \/ \E ev \in FlatEvents : Reports(ev)  BY <1>4, FlatTells
  <2>2. tok'.duplicate_key_stack = tok.duplicate_key_stack  BY <1>4, TokenCarries
  <2>3. \A ev \in Ins \cup Outs \cup {"key"} : ~Reports(ev)
    BY <1>0, <2>1, ReportsOnce DEF FlatEvents
  <2>4. Moves => tok'.context_stack = tok.context_stack
    BY <2>3 DEF Ins, Outs, Moves, Opens, Closes, Names, Silent, Scalar, StringBegins, StringEnds, StacksStay
  <2>5. /\ NoDuplicateKeyDelivered'
        /\ tok'.context_stack = tok.context_stack => Remembers(events', tok')
    BY <1>0, <2>1, <2>2, FlatRemembers
  <2>6. GoesOn /\ Fails => FALSE  BY DEF GoesOn, Fails
  <2> QED  BY <1>1, <2>4, <2>5, <2>6
<1> QED  BY <1>2, <1>3, <1>4

\* Before anything has been read there is nothing to remember.
LEMMA NothingRemembered ==
  ASSUME NEW t, t.context_stack = <<>>, t.reject_duplicate_keys => t.duplicate_key_stack = <<>>
  PROVE  NoneTwice(<<>>) /\ Remembers(<<>>, t)
<1>1. DOMAIN <<>> = {} /\ Len(<<>>) = 0  OBVIOUS
<1>2. DepthOf(<<>>, 0) = 0
  <2>1. {i \in 1 .. 0 : <<>>[i].ev \in Ins} = {} /\ {i \in 1 .. 0 : <<>>[i].ev \in Outs} = {}  OBVIOUS
  <2> QED  BY <2>1, FS_EmptySet DEF DepthOf
<1> QED  BY <1>1, <1>2 DEF NoneTwice, Remembers, Level, Recalls, Held

\* Outside the tokenizer nothing is forgotten but with the whole document.
LEMMA OutsideRemembers ==
  ASSUME TypeOK, TypeOK', StacksAgree', Fresh, CallState, Remembered,
         FeedReturns \/ CloseUnfinished \/ CloseReturns \/ CallerStep \/ UNCHANGED vars
  PROVE  Remembered'
<1>1. Outside  BY OutsidePlace
<1>2. ASSUME events' = <<>>, AtStart(tok')  PROVE Remembered'
  <2>1. tok'.context_stack = <<>>  BY <1>2 DEF AtStart, SamePlace, NewTokenizer
  <2>2. tok'.reject_duplicate_keys => tok'.duplicate_key_stack = <<>>
    <3>1. DOMAIN tok'.context_stack = {}  BY <2>1
    <3>2. OpenObjects(tok'.context_stack) = {}  BY <3>1 DEF OpenObjects
    <3>3. tok'.reject_duplicate_keys => Len(tok'.duplicate_key_stack) = 0
      BY <3>2, FS_EmptySet DEF StacksAgree
    <3>4. tok'.duplicate_key_stack \in Seq(SUBSET Bytes)  BY DEF TypeOK, TokenizerTypeOK, Tokenizers
    <3> QED  BY <3>3, <3>4
  <2> QED  BY <1>2, <2>1, <2>2, NothingRemembered, NoneTwiceIs DEF Remembered
<1>3. ASSUME UNCHANGED events, SamePlace(tok, tok'), Running' => Running, Carries(tok, tok')
      PROVE  Remembered'
  BY <1>3, NoneTwiceIs DEF Remembered, Remembers, SamePlace, Carries
<1>4. Carries(tok, tok') \/ (events' = <<>> /\ AtStart(tok'))
  <2>1. tok \in Tokenizers  BY TypeFacts
  <2>2. \/ UNCHANGED tok \/ \E n : tok' = [tok EXCEPT !.chunk_size = n]
        \/ events' = <<>> /\ \E reject, chunk : tok' = NewTokenizer(reject, chunk)
    <3>1. CASE Receive \/ Close
      BY <3>1 DEF Receive, Close, Feed, Fresh
    <3>2. CASE ~(Receive \/ Close)
      BY <3>2 DEF FeedReturns, CloseUnfinished, CloseReturns, CallerStep, Write, SetLimits,
         SetStringChunkSize, SetRejectDuplicateKeys, ReceiveNothing, CloseEmpty, CloseAgain, Reset, vars
    <3> QED  BY <3>1, <3>2
  <2>3. \A reject, chunk : AtStart(NewTokenizer(reject, chunk))
    BY DEF AtStart, SamePlace, NewTokenizer
  <2>4. \A n : Carries(tok, [tok EXCEPT !.chunk_size = n])  BY <2>1, Carried
  <2>5. UNCHANGED tok => Carries(tok, tok')  BY DEF Carries
  <2> QED  BY <2>2, <2>3, <2>4, <2>5
<1> QED  BY <1>1, <1>2, <1>3, <1>4 DEF Outside

\* Every step does, the caller's included.
LEMMA RememberedKept ==
  ASSUME TypeOK, TypeOK', StacksAgree, StacksAgree', CallState, Fresh, Reading, Lengthy, KeysOnlyInObjects,
         Remembered, [Next]_vars, ~RetryAfterError
  PROVE  Remembered'
<1>1. CASE TokenizerStep /\ UNCHANGED <<parser, doc, verdict>>
  <2>1. Running
    <3>1. call \in Calls /\ CallInRing(call)  BY TypeFacts
    <3>2. call.pc \in InTokenizer  BY <1>1, <3>1, TokenizerSteps
    <3> QED  BY <3>2 DEF CallState, Idle, InTokenizer, Running
  <2>2. NoDuplicateKeyDelivered /\ Remembers(events, tok)  BY <2>1 DEF Remembered
  <2>3. CASE QuietStep  BY <2>2, <2>3, QuietRemembers DEF Remembered
  <2>4. CASE TokenStep  BY <2>1, <2>2, <2>4, TokenRemembers, FailsStops DEF Remembered
  <2> QED  BY <1>1, <2>3, <2>4, StepKinds
<1>2. CASE FeedReturns \/ CloseUnfinished \/ CloseReturns \/ CallerStep \/ UNCHANGED vars
  BY <1>2, OutsideRemembers
<1>3. CASE CloseAfterNumber
  <2>1. /\ tok' = [tok EXCEPT !.stage = "None", !.state = "AfterValue"]
        /\ Reports("number_value")
    BY <1>3 DEF CloseAfterNumber, Reports
  <2>2. tok'.reject_duplicate_keys = tok.reject_duplicate_keys
    BY <2>1, TypeFacts, Carried DEF Carries
  <2>3. verdict' # "open"  BY <1>3 DEF CloseAfterNumber, Judge, Judged, Complete
  <2> QED  BY <2>1, <2>2, <2>3, NestEvents DEF Remembered, Running
<1> QED  BY <1>1, <1>2, <1>3 DEF Next, CallStep

\* The keys remembered are those delivered, always.
LEMMA RememberedHolds == ~RetryAfterError => (Spec => []Remembered)
<1> SUFFICES ASSUME ~RetryAfterError  PROVE Spec => []Remembered  OBVIOUS
<1>1. Init => Remembered
  <2> SUFFICES ASSUME Init  PROVE Remembered  OBVIOUS
  <2>1. events = <<>> /\ \E reject, chunk : tok = NewTokenizer(reject, chunk)  BY DEF Init
  <2>2. tok.context_stack = <<>> /\ tok.duplicate_key_stack = <<>>  BY <2>1 DEF NewTokenizer
  <2> QED  BY <2>1, <2>2, NothingRemembered, NoneTwiceIs DEF Remembered
<1>2. TypeOK /\ TypeOK' /\ StacksAgree /\ StacksAgree' /\ CallState /\ (Fresh /\ Reading) /\ Advancing
        /\ KeysOnlyInObjects /\ Remembered /\ [Next]_vars => Remembered'
  BY RememberedKept DEF Advancing
<1> QED
  BY <1>1, <1>2, TypeCorrect, StacksAlwaysAgree, CallStateHolds, ReadingHolds, AdvancingHolds,
     KeysInObjects, PTL DEF Spec

\* With duplicates rejected the handler never gets a key twice in one object,
\* however the two are spelled, read and cut into calls, as long as the caller
\* makes no call after one that failed.
THEOREM KeysAreDeliveredOnce ==
  ASSUME ~RetryAfterError
  PROVE  Spec => []NoDuplicateKeyDelivered
<1>1. Remembered => NoDuplicateKeyDelivered  BY DEF Remembered
<1> QED  BY <1>1, RememberedHolds, PTL

\* Only a step of the tokenizer that reads a duplicate fails with one.
LEMMA DuplicateIsRead ==
  ASSUME TypeOK, [Next]_vars, call.error # "duplicate", call'.error = "duplicate"
  PROVE  Repeats
<1>0. call \in Calls /\ CallInRing(call)  BY TypeFacts
<1>1. CASE TokenizerStep
  <2>1. SameCall(call')  BY <1>0, <1>1, TokenizerSteps
  <2> QED  BY <2>1 DEF SameCall
<1>2. ASSUME NEW error, error # "duplicate", NEW op, call' = Returned(op, error)  PROVE FALSE
  BY <1>2 DEF Returned
<1>3. CASE FeedReturns \/ CloseEmpty
  <2>1. \/ \E op : call' = Returned(op, call.error) \/ call' = Returned(op, "small")
                   \/ call' = Returned(op, "none")
        \/ call' = [Returned("close", "none") EXCEPT !.pc = "finish"]
    BY <1>3 DEF FeedReturns, CloseEmpty
  <2>2. [Returned("close", "none") EXCEPT !.pc = "finish"].error = "none"  BY DEF Returned
  <2> QED  BY <1>2, <2>1, <2>2
<1>4. CASE CloseUnfinished \/ CloseReturns \/ CloseAfterNumber
  <2>1. \E result \in {"accepted", "syntax", "handler"} : Judge(result)
    BY <1>4 DEF CloseUnfinished, CloseReturns, CloseAfterNumber, Complete
  <2> QED  BY <1>2, <2>1 DEF Judge
<1>5. CASE Receive \/ Close
  <2>1. PICK op : Feed(op)  BY <1>5 DEF Receive, Close
  <2>2. call'.error \in {"limit", "syntax", "none"}  BY <2>1 DEF Feed, Returned
  <2> QED  BY <2>2
<1>6. CASE ReceiveNothing \/ CloseAgain \/ Reset
  BY <1>2, <1>6 DEF ReceiveNothing, CloseAgain, Reset
<1>7. CASE Write \/ SetLimits \/ SetStringChunkSize \/ SetRejectDuplicateKeys \/ UNCHANGED vars
  BY <1>7 DEF Write, SetLimits, SetStringChunkSize, SetRejectDuplicateKeys, vars
<1> QED  BY <1>1, <1>3, <1>4, <1>5, <1>6, <1>7 DEF Next, CallStep, CallerStep

\* A key is refused as a duplicate only if its object, and no other that is
\* still open, has had it: what is remembered of a key is its decoded text, at
\* its object's rank among the open ones.
THEOREM OnlyDuplicatesAreRefused ==
  ASSUME ~RetryAfterError
  PROVE  Spec => DuplicatesAreDuplicates
<1>1. ASSUME TypeOK, StacksAgree, CallState, Reading, KeysOnlyInObjects, Remembered, [Next]_vars,
             call.error # "duplicate", call'.error = "duplicate"
      PROVE  \E i \in EventNumbers({"key"}) : SameObject(i, Len(events)) /\ events[i].text = KeyText
  <2> DEFINE cs == tok.context_stack
             dup == tok.duplicate_key_stack
  <2>1. KeyDone /\ Duplicate(KeyText)  BY <1>1, DuplicateIsRead DEF Repeats
  <2>2. Running  BY <1>1, <2>1 DEF KeyDone, CallState, Idle, Running
  <2>3. Remembers(events, tok) /\ tok.reject_duplicate_keys /\ KeyText \in Top(dup)
    BY <1>1, <2>1, <2>2 DEF Remembered, Duplicate
  <2>4. Level(events, cs) /\ Recalls(events, cs, dup) /\ InRank(cs, dup)
    BY <1>1, <2>3 DEF Remembers, StacksAgree, InRank
  <2>5. cs # <<>> /\ Top(cs) = "Object"
    BY <1>1, <2>1, <2>2, KeyPlace DEF Reading, Running, KeysOnlyInObjects
  <2>6. events \in Seq(Events) /\ cs \in Seq(Contexts) /\ dup \in Seq(SUBSET Bytes)
    BY <1>1, TypeFacts, TokenizerFields
  <2> HIDE DEF cs, dup
  <2>7. PICK i : Held(events, i) /\ DepthOf(events, i) = DepthOf(events, Len(events))
                 /\ events[i].text = KeyText
    BY <2>3, <2>4, <2>5, <2>6, TopRecalls
  <2> QED  BY <2>7, EventDepthIs DEF Held, EventNumbers, SameObject
<1>2. TypeOK /\ StacksAgree /\ CallState /\ (Fresh /\ Reading) /\ KeysOnlyInObjects /\ Remembered
        /\ [Next]_vars
      => [ call.error # "duplicate" /\ call'.error = "duplicate"
           => \E i \in EventNumbers({"key"}) : SameObject(i, Len(events)) /\ events[i].text = KeyText ]_vars
  BY <1>1
<1> QED
  BY <1>2, TypeCorrect, StacksAlwaysAgree, CallStateHolds, ReadingHolds, KeysInObjects, RememberedHolds,
     PTL DEF Spec, DuplicatesAreDuplicates
==============================================================================
