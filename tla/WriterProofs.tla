---------------------------- MODULE WriterProofs ----------------------------
(***************************************************************************)
(* The writer is where the application is in its document, for every ring, *)
(* indentation, string and number, and in whatever order calls are refused, *)
(* repeated and given up.  The lengths it computes are those of what it    *)
(* writes, so the ring is never overrun, content takes all that fits, and a *)
(* call refused as invalid is refused for good.  Every line stands under   *)
(* the brackets that are open around it.                                   *)
(***************************************************************************)
EXTENDS WriterProperties, TLAPS, SequenceTheorems, FiniteSetTheorems, WellFoundedInduction

\* The states of the code.
WriterStates == {"Init0", "Init", "AfterKey", "AfterValue"}

\* What the steps compute with has its type, and the place is kept.
PlaceInv ==
  /\ writer \in [indent : Indents, state : WriterStates, depth : Nat]
  /\ open \in Seq({"StartObject", "StartArray"})
  /\ PlaceIsKept

\* The depth is the number of brackets open.
LEMMA PlaceFacts ==
  ASSUME PlaceInv
  PROVE  /\ writer.state \in WriterStates /\ writer.depth \in Nat
         /\ writer.depth = Len(open) /\ Len(open) \in Nat
BY LenProperties DEF PlaceInv, PlaceIsKept

\* A call that wrote something: only the state and the depth are new.
LEMMA PutType ==
  ASSUME PlaceInv, NEW bytes, NEW state \in WriterStates, NEW depth \in Nat, Put(bytes, state, depth)
  PROVE  /\ writer' \in [indent : Indents, state : WriterStates, depth : Nat]
         /\ writer'.state = state /\ writer'.depth = depth
BY DEF Put, PlaceInv

\* A call that was refused, and every other step that leaves the writer and
\* the application's place alone.
LEMMA PlaceStays ==
  ASSUME PlaceInv, UNCHANGED <<writer, open, last>>  PROVE PlaceInv'
BY DEF PlaceInv, PlaceIsKept

\* A call that succeeded inside the same nest.
LEMMA PlaceInNest ==
  ASSUME PlaceInv, NEW bytes, NEW state \in WriterStates, Put(bytes, state, writer.depth),
         UNCHANGED open,
         last' \in Caller!ValueEnds => state = "AfterValue",
         last' = "key" => state = "AfterKey",
         last' \notin {"none", "start_object", "start_array"}
  PROVE  PlaceInv'
<1>1. writer.depth \in Nat /\ writer.depth = Len(open)  BY PlaceFacts
<1>2. /\ writer' \in [indent : Indents, state : WriterStates, depth : Nat]
      /\ writer'.state = state /\ writer'.depth = writer.depth
  BY <1>1, PutType
<1> QED  BY <1>1, <1>2 DEF PlaceInv, PlaceIsKept

\* Every call keeps the place.
LEMMA AttemptKeepsPlace ==
  ASSUME PlaceInv, Attempt  PROVE PlaceInv'
<1>0. writer.state \in WriterStates /\ writer.depth \in Nat /\ writer.depth = Len(open)
      /\ {"AfterKey", "AfterValue", "Init"} \subseteq WriterStates
      /\ Caller!ValueEnds = {"literal", "number_value", "end_string_value", "end_object", "end_array"}
  BY PlaceFacts DEF WriterStates, Caller!ValueEnds
<1>1. ASSUME NEW why, Refused(why)  PROVE PlaceInv'
  BY <1>1, PlaceStays DEF Refused
<1>2. ASSUME NEW need, Rejected(need)  PROVE PlaceInv'
  BY <1>1, <1>2 DEF Rejected
<1>3. CASE WriteKey
  BY <1>0, <1>2, <1>3, PlaceInNest DEF WriteKey, Accepted, Caller!Key
<1>4. CASE WriteString
  BY <1>0, <1>2, <1>4, PlaceInNest DEF WriteString, Accepted
<1>5. CASE WriteNumber
  BY <1>0, <1>1, <1>2, <1>5, PlaceInNest DEF WriteNumber, Accepted, Caller!Scalar
<1>6. CASE WriteLiteral
  BY <1>0, <1>2, <1>6, PlaceInNest DEF WriteLiteral, Accepted, Caller!Scalar
<1>7. CASE WriteStartString
  BY <1>0, <1>2, <1>7, PlaceInNest DEF WriteStartString, Accepted, Caller!StringBegins
<1>8. CASE WriteStringContent
  BY <1>0, <1>1, <1>8, PlaceInNest, PlaceStays DEF WriteStringContent, Caller!StringContent
<1>9. CASE WriteEndString
  BY <1>0, <1>1, <1>9, PlaceInNest DEF WriteEndString, Caller!StringEnds
<1>10. CASE WriteOpen
  <2>1. CASE Rejected(1)  BY <1>2, <2>1
  <2>2. CASE /\ want.op \in {"start_object", "start_array"}
             /\ Accepted(<<IF want.op = "start_object" THEN "{" ELSE "[">>, 1, "Init", writer.depth + 1)
             /\ last' = want.op /\ Caller!Opens
    <3>1. /\ writer' \in [indent : Indents, state : WriterStates, depth : Nat]
          /\ writer'.state = "Init" /\ writer'.depth = writer.depth + 1
      <4>1. PICK bytes : Put(bytes, "Init", writer.depth + 1)  BY <2>2 DEF Accepted
      <4>2. writer.depth + 1 \in Nat /\ "Init" \in WriterStates  BY <1>0
      <4> QED  BY <4>1, <4>2, PutType
    <3>2. PICK b \in {"StartObject", "StartArray"} : open' = Append(open, b)
      BY <2>2 DEF Caller!Opens
    <3>3. open' \in Seq({"StartObject", "StartArray"}) /\ Len(open') = Len(open) + 1
      BY <3>2, AppendProperties DEF PlaceInv
    <3> QED  BY <1>0, <2>2, <3>1, <3>3 DEF PlaceInv, PlaceIsKept
  <2> QED  BY <1>10, <2>1, <2>2 DEF WriteOpen
<1>11. CASE WriteClose
  <2>1. CASE \E why : Refused(why)  BY <1>1, <2>1
  <2>2. CASE /\ \E bytes : Put(bytes, "AfterValue", OuterDepth)
             /\ last' \in {"end_object", "end_array"} /\ Caller!Closes
    <3>1. open # <<>> /\ open' = SubSeq(open, 1, Len(open) - 1)
      BY <2>2 DEF Caller!Closes, Caller!KeyMayCome, Caller!ArrayMayEnd, Caller!In
    <3>2. Len(open) \in Nat \ {0} /\ open \in Seq({"StartObject", "StartArray"})
      BY <3>1, EmptySeq, LenProperties DEF PlaceInv
    <3>3. open' \in Seq({"StartObject", "StartArray"}) /\ Len(open') = Len(open) - 1
      <4> DEFINE S == {"StartObject", "StartArray"}
      <4>1. open \in Seq(S)  BY <3>2
      <4> HIDE DEF S
      <4> DEFINE n == Len(open) - 1
      <4>2. n \in Nat /\ 1 \in Int /\ \A i \in 1 .. n : open[i] \in S  BY <3>2, <4>1
      <4> HIDE DEF n
      <4>3. n \in Int /\ (IF 1 <= n THEN n - 1 + 1 ELSE 0) = n  BY <4>2
      <4>4. SubSeq(open, 1, n) \in Seq(S) /\ Len(SubSeq(open, 1, n)) = n
        BY <4>2, <4>3, SubSeqProperties
      <4> QED  BY <3>1, <4>4 DEF S, n
    <3>4. OuterDepth = Len(open) - 1 /\ OuterDepth \in Nat  BY <1>0, <3>2 DEF OuterDepth
    <3>5. /\ writer' \in [indent : Indents, state : WriterStates, depth : Nat]
          /\ writer'.state = "AfterValue" /\ writer'.depth = OuterDepth
      BY <1>0, <2>2, <3>4, PutType
    <3> QED  BY <1>0, <2>2, <3>3, <3>4, <3>5 DEF PlaceInv, PlaceIsKept
  <2>3. want.op \in {"end_object", "end_array"}  BY <1>11 DEF WriteClose
  <2> QED  BY <1>11, <2>1, <2>2, <2>3, Zenon DEF WriteClose
<1> QED
  BY <1>3, <1>4, <1>5, <1>6, <1>7, <1>8, <1>9, <1>10, <1>11, Zenon DEF Attempt

\* A new writer is at the beginning.
LEMMA InitPlace == ASSUME Init  PROVE PlaceInv
<1>1. PICK indent \in Indents : writer = NewWriter(indent)  BY DEF Init
<1>2. open = <<>> /\ last = "none"  BY DEF Init, Caller!Begin
<1>3. open \in Seq({"StartObject", "StartArray"})  BY <1>2, EmptySeq
<1> QED
  BY <1>1, <1>2, <1>3 DEF NewWriter, PlaceInv, PlaceIsKept, WriterStates, Caller!ValueEnds

\* So is one that was reset.
LEMMA ResetKeepsPlace == ASSUME PlaceInv, Reset  PROVE PlaceInv'
<1>1. writer' = [indent |-> writer.indent, state |-> "Init0", depth |-> 0]
      /\ open' = <<>> /\ last' = "none" /\ writer.indent \in Indents
  BY DEF Reset, NewWriter, PlaceInv
<1>2. open' \in Seq({"StartObject", "StartArray"})  BY <1>1, EmptySeq
<1> QED
  BY <1>1, <1>2 DEF PlaceInv, PlaceIsKept, WriterStates, Caller!ValueEnds

\* Whatever the constants are, the writer's state and depth are those of the
\* application's document: a call that was refused, repeated or given up has
\* left no trace in them (writer.rs 155-159).
THEOREM PlaceAlwaysKept == Spec => []PlaceIsKept
<1>1. Init => PlaceInv  BY InitPlace
<1>2. PlaceInv /\ [Next]_wvars => PlaceInv'
  <2> SUFFICES ASSUME PlaceInv, [Next]_wvars  PROVE PlaceInv'
    OBVIOUS
  <2>1. CASE Attempt  BY <2>1, AttemptKeepsPlace
  <2>2. CASE Decide \/ GiveUp \/ Drain \/ UNCHANGED wvars
    BY <2>2, PlaceStays DEF Decide, GiveUp, Drain, wvars
  <2>3. CASE Reset  BY <2>3, ResetKeepsPlace
  <2> QED  BY <2>1, <2>2, <2>3 DEF Next
<1>3. PlaceInv => PlaceIsKept  BY DEF PlaceInv
<1> QED  BY <1>1, <1>2, <1>3, PTL DEF Spec
-----------------------------------------------------------------------------
(* A call that is refused for good                                         *)

\* The longest escape goes into the ring, so that content that does not is
\* told to wait.
LEMMA RefusedForGood ==
  ASSUME RingCapacity >= 6, Attempt, result' = "invalid"
  PROVE  writer' = writer /\ want' = want /\ (want.arg = NotFinite \/ Needed(want) > RingCapacity)
<1>1. RingCapacity \in Nat
  BY WriterAssumption
<1>2. ASSUME NEW need, Refused(Refusal(need))
      PROVE  writer' = writer /\ want' = want /\ need > RingCapacity
  BY <1>2 DEF Refused, Refusal
<1>3. ASSUME NEW need, Rejected(need)
      PROVE  writer' = writer /\ want' = want /\ PrefixLen + need > RingCapacity
  BY <1>2, <1>3 DEF Rejected
<1>4. \A bytes, state, depth : ~Put(bytes, state, depth)
  BY DEF Put
<1>5. \A token, need, state, depth : ~Accepted(token, need, state, depth)
  BY <1>4 DEF Accepted
<1>6. CASE WriteKey
  <2>1. want.op = "key" /\ Rejected(2 + EscapedLen(want.arg) + 1)
    BY <1>5, <1>6 DEF WriteKey
  <2> QED
    BY <1>3, <2>1 DEF Needed
<1>7. CASE WriteString
  <2>1. want.op = "string" /\ Rejected(2 + EscapedLen(want.arg))
    BY <1>5, <1>7 DEF WriteString
  <2> QED
    BY <1>3, <2>1 DEF Needed
<1>8. CASE WriteNumber
  <2>1. CASE want.arg = NotFinite
    BY <1>8, <2>1 DEF WriteNumber, Refused
  <2>2. CASE want.arg # NotFinite
    <3>1. want.op = "number" /\ Rejected(Len(want.arg))
      BY <1>5, <1>8, <2>2 DEF WriteNumber
    <3> QED
      BY <1>3, <3>1 DEF Needed
  <2> QED
    BY <2>1, <2>2
<1>9. CASE WriteLiteral
  <2>1. want.op = "literal" /\ Rejected(Len(want.arg \o Literals[want.arg[1]]))
    BY <1>5, <1>9 DEF WriteLiteral
  <2> QED
    BY <1>3, <2>1 DEF Needed
<1>10. CASE WriteOpen
  <2>1. want.op \in {"start_object", "start_array"} /\ Rejected(1)
    BY <1>5, <1>10 DEF WriteOpen
  <2> QED
    BY <1>3, <2>1 DEF Needed
<1>11. CASE WriteStartString
  <2>1. want.op = "start_string" /\ Rejected(1)
    BY <1>5, <1>11 DEF WriteStartString
  <2> QED
    BY <1>3, <2>1 DEF Needed
<1>12. CASE WriteClose
  <2>1. want.op \in {"end_object", "end_array"} /\ Refused(Refusal(NewlineLen(OuterDepth) + 1))
    BY <1>4, <1>12 DEF WriteClose
  <2> QED
    BY <1>2, <2>1 DEF Needed
<1>13. CASE WriteStringContent
  <2>1. Refused(Refusal(6))
    BY <1>4, <1>13 DEF WriteStringContent
  <2> QED
    BY <1>1, <1>2, <2>1
<1>14. CASE WriteEndString
  <2>1. want.op = "end_string" /\ Refused(Refusal(1))
    BY <1>4, <1>14 DEF WriteEndString
  <2> QED
    BY <1>2, <2>1 DEF Needed
<1> QED
  BY <1>6, <1>7, <1>8, <1>9, <1>10, <1>11, <1>12, <1>13, <1>14 DEF Attempt

\* In a ring that has room for the longest escape, a call is refused as invalid
\* only if its text is no number or what it would write is longer than the
\* whole ring, and that stays so for as long as the answer stands: draining
\* cannot help it (writer.rs:163).  In a smaller ring content is refused for
\* good although its first character might fit.
THEOREM InvalidIsForGood == ASSUME RingCapacity >= 6 PROVE Spec => []InvalidMeansNever
<1>1. Init => InvalidMeansNever
  BY DEF Init, InvalidMeansNever
<1>2. InvalidMeansNever /\ [Next]_wvars => InvalidMeansNever'
  <2> SUFFICES ASSUME InvalidMeansNever, [Next]_wvars, result' = "invalid"
               PROVE  want'.arg = NotFinite \/ Needed(want)' > RingCapacity
    BY DEF InvalidMeansNever
  <2>1. ASSUME writer' = writer, want' = want PROVE Needed(want)' = Needed(want)
    BY <2>1 DEF Needed, PrefixLen, NewlineLen, OuterDepth
  <2>2. CASE Attempt
    BY <2>1, <2>2, RefusedForGood
  <2>3. CASE Decide \/ GiveUp \/ Reset
    BY <2>3 DEF Decide, GiveUp, Reset
  <2>4. CASE Drain \/ UNCHANGED wvars
    <3>1. writer' = writer /\ want' = want /\ result' = result
      BY <2>4 DEF Drain, wvars
    <3> QED
      BY <2>1, <3>1 DEF InvalidMeansNever
  <2> QED
    BY <2>2, <2>3, <2>4 DEF Next
<1> QED
  BY <1>1, <1>2, PTL DEF Spec

-----------------------------------------------------------------------------
(* Totals                                                                  *)

\* Every set of natural numbers that is not empty has a least member.
LEMMA Least ==
  ASSUME NEW T, T \subseteq Nat, T # {}
  PROVE  \E x \in T : \A y \in T : x <= y
<1>1. IsWellFoundedOn(OpToRel(<, Nat), Nat)
  BY NatLessThanWellFounded
<1>2. PICK x \in T : \A y \in T : ~(<<y, x>> \in OpToRel(<, Nat))
  BY <1>1, WFMin
<1>3. \A y \in T : y \in Nat /\ ~(y < x) /\ x \in Nat
  BY <1>2 DEF OpToRel
<1>4. \A y \in T : x <= y
  BY <1>3
<1> QED
  BY <1>4

\* There is a function that adds up the sizes one by one.
LEMMA SumExists ==
  ASSUME NEW s, Len(s) \in Nat
  PROVE  \E h : h = [n \in 0 .. Len(s) |-> IF n = 0 THEN 0 ELSE h[n - 1] + s[n]]
<1> DEFINE SumTo(k) == \E h : h = [n \in 0 .. k |-> IF n = 0 THEN 0 ELSE h[n - 1] + s[n]]
           bad == {k \in 0 .. Len(s) : ~SumTo(k)}
<1> SUFFICES ASSUME ~SumTo(Len(s)) PROVE FALSE
  OBVIOUS
<1>1. bad \subseteq Nat /\ bad # {}
  OBVIOUS
<1> HIDE DEF bad
<1>2. PICK m \in bad : \A y \in bad : m <= y
  BY <1>1, Least
<1>3. m \in Nat /\ m <= Len(s) /\ ~SumTo(m)
  BY DEF bad
<1>4. m # 0
  <2>1. [n \in 0 .. 0 |-> 0] = [n \in 0 .. 0 |-> IF n = 0 THEN 0 ELSE [k \in 0 .. 0 |-> 0][n - 1] + s[n]]
    OBVIOUS
  <2>2. SumTo(0)
    BY <2>1
  <2> QED
    BY <1>3, <2>2
<1>5. m - 1 \in Nat /\ m - 1 <= Len(s) /\ ~(m <= m - 1)
  BY <1>3, <1>4
<1>6. m - 1 \notin bad
  BY <1>2, <1>5
<1>7. SumTo(m - 1)
  BY <1>5, <1>6 DEF bad
<1>8. PICK h : h = [n \in 0 .. m - 1 |-> IF n = 0 THEN 0 ELSE h[n - 1] + s[n]]
  BY <1>7
<1> DEFINE g == [n \in 0 .. m |-> IF n = 0 THEN 0 ELSE h[n - 1] + s[n]]
<1>9. /\ g = [n \in 0 .. m |-> g[n]]
      /\ \A n \in 0 .. m : g[n] = IF n = 0 THEN 0 ELSE h[n - 1] + s[n]
      /\ \A n \in 0 .. m - 1 : g[n] = h[n]
  BY <1>3, <1>8
<1> HIDE DEF g
<1>10. g = [n \in 0 .. m |-> IF n = 0 THEN 0 ELSE g[n - 1] + s[n]]
  <2>0. \A n \in 0 .. m : n # 0 => n - 1 \in 0 .. m - 1
    BY <1>3
  <2>1. \A n \in 0 .. m : n # 0 => g[n - 1] = h[n - 1]
    BY <1>9, <2>0
  <2>2. \A n \in 0 .. m : g[n] = IF n = 0 THEN 0 ELSE g[n - 1] + s[n]
    BY <1>9, <2>1
  <2>3. [n \in 0 .. m |-> g[n]] = [n \in 0 .. m |-> IF n = 0 THEN 0 ELSE g[n - 1] + s[n]]
    BY <2>2, Zenon
  <2> QED
    BY <1>9, <2>3, Zenon
<1>11. SumTo(m)
  <2>1. \E f : f = [n \in 0 .. m |-> IF n = 0 THEN 0 ELSE f[n - 1] + s[n]]
    BY <1>10, Zenon
  <2> QED
    BY <2>1
<1> QED
  BY <1>3, <1>11

\* Total is any such sum, at the end.
LEMMA SumIs ==
  ASSUME NEW s, Len(s) \in Nat, NEW h, h[0] = 0, \A k \in 1 .. Len(s) : h[k] = h[k - 1] + s[k]
  PROVE  Total(s) = h[Len(s)]
<1> DEFINE g == CHOOSE sum : sum = [n \in 0 .. Len(s) |-> IF n = 0 THEN 0 ELSE sum[n - 1] + s[n]]
           bad == {k \in 0 .. Len(s) : g[k] # h[k]}
<1>1. g = [n \in 0 .. Len(s) |-> IF n = 0 THEN 0 ELSE g[n - 1] + s[n]]
  BY SumExists
<1>2. Total(s) = g[Len(s)]
  BY DEF Total
<1> HIDE DEF g
<1>3. SUFFICES ASSUME bad # {} PROVE FALSE
  BY <1>2
<1>4. bad \subseteq Nat
  OBVIOUS
<1> HIDE DEF bad
<1>5. PICK m \in bad : \A y \in bad : m <= y
  BY <1>3, <1>4, Least
<1>6. m \in 0 .. Len(s) /\ g[m] # h[m]
  BY DEF bad
<1>7. m # 0
  BY <1>1, <1>6
<1>8. m - 1 \in 0 .. Len(s) /\ ~(m <= m - 1) /\ m \in 1 .. Len(s)
  BY <1>6, <1>7
<1>9. g[m - 1] = h[m - 1]
  BY <1>5, <1>8 DEF bad
<1>10. g[m] = g[m - 1] + s[m]
  BY <1>1, <1>6, <1>7
<1> QED
  BY <1>6, <1>8, <1>9, <1>10

\* The totals of the beginnings of a sequence are each other's sums.
LEMMA TotalSteps ==
  ASSUME NEW s \in Seq(Nat)
  PROVE  /\ Total(SubSeq(s, 1, 0)) = 0 /\ SubSeq(s, 1, Len(s)) = s
         /\ \A k \in 0 .. Len(s) : Total(SubSeq(s, 1, k)) \in Nat
         /\ \A k \in 1 .. Len(s) : Total(SubSeq(s, 1, k)) = Total(SubSeq(s, 1, k - 1)) + s[k]
<1>1. Len(s) \in Nat /\ \A k \in 1 .. Len(s) : s[k] \in Nat
  OBVIOUS
<1>2. PICK h : h = [n \in 0 .. Len(s) |-> IF n = 0 THEN 0 ELSE h[n - 1] + s[n]]
  BY <1>1, SumExists
<1>3. h[0] = 0 /\ \A k \in 1 .. Len(s) : h[k] = h[k - 1] + s[k]
  BY <1>1, <1>2
<1>4. ASSUME NEW k \in 0 .. Len(s) PROVE Total(SubSeq(s, 1, k)) = h[k]
  <2>1. Len(SubSeq(s, 1, k)) = k /\ \A i \in 1 .. k : SubSeq(s, 1, k)[i] = s[i]
    BY <1>1
  <2> DEFINE t == SubSeq(s, 1, k)
  <2> HIDE DEF t
  <2>2. Len(t) = k /\ \A i \in 1 .. k : t[i] = s[i]
    BY <2>1 DEF t
  <2>3. Len(t) \in Nat /\ \A i \in 1 .. Len(t) : h[i] = h[i - 1] + t[i]
    BY <1>1, <1>3, <2>2
  <2>4. Total(t) = h[Len(t)]
    BY <1>3, <2>3, SumIs
  <2> QED
    BY <2>2, <2>4 DEF t
<1> DEFINE bad == {k \in 0 .. Len(s) : h[k] \notin Nat}
<1>5. bad = {}
  <2> SUFFICES ASSUME bad # {} PROVE FALSE
    OBVIOUS
  <2>1. bad \subseteq Nat
    OBVIOUS
  <2> HIDE DEF bad
  <2>2. PICK m \in bad : \A y \in bad : m <= y
    BY <2>1, Least
  <2>3. m \in 0 .. Len(s) /\ h[m] \notin Nat /\ m # 0
    BY <1>3 DEF bad
  <2>4. m - 1 \in 0 .. Len(s) /\ ~(m <= m - 1) /\ m \in 1 .. Len(s)
    BY <1>1, <2>3
  <2>5. h[m - 1] \in Nat
    BY <2>2, <2>4 DEF bad
  <2>6. s[m] \in Nat /\ h[m] = h[m - 1] + s[m]
    BY <1>1, <1>3, <2>4
  <2> QED
    BY <2>3, <2>5, <2>6
<1>6. \A k \in 0 .. Len(s) : h[k] \in Nat
  BY <1>5
<1>7. \A k \in 1 .. Len(s) : k \in 0 .. Len(s) /\ k - 1 \in 0 .. Len(s)
  BY <1>1
<1>8. 0 \in 0 .. Len(s) /\ SubSeq(s, 1, Len(s)) = s
  BY <1>1
<1> QED
  BY <1>3, <1>4, <1>6, <1>7, <1>8

\* Fitting finds how many fit, and one more would not.
LEMMA FittingFits ==
  ASSUME NEW s \in Seq(Nat), NEW room \in Nat
  PROVE  /\ Fitting(s, room) \in 0 .. Len(s)
         /\ Total(SubSeq(s, 1, Fitting(s, room))) <= room
         /\ Fitting(s, room) < Len(s) => Total(SubSeq(s, 1, Fitting(s, room) + 1)) > room
<1> DEFINE Fits(n) == /\ Total(SubSeq(s, 1, n)) <= room
                      /\ n < Len(s) => Total(SubSeq(s, 1, n + 1)) > room
           over == {k \in 0 .. Len(s) : Total(SubSeq(s, 1, k)) > room}
<1>1. Len(s) \in Nat /\ \A k \in 0 .. Len(s) : Total(SubSeq(s, 1, k)) \in Nat
  BY TotalSteps
<1>2. \E n \in 0 .. Len(s) : Fits(n)
  <2>1. CASE over = {}
    <3>1. Len(s) \in 0 .. Len(s) /\ Fits(Len(s))
      BY <1>1, <2>1
    <3> QED
      BY <3>1
  <2>2. CASE over # {}
    <3>1. over \subseteq Nat
      OBVIOUS
    <3> HIDE DEF over
    <3>2. PICK m \in over : \A y \in over : m <= y
      BY <2>2, <3>1, Least
    <3>3. m \in 0 .. Len(s) /\ Total(SubSeq(s, 1, m)) > room
      BY DEF over
    <3>4. m # 0
      BY <3>3, TotalSteps
    <3>5. m - 1 \in 0 .. Len(s) /\ ~(m <= m - 1) /\ (m - 1) + 1 = m
      BY <1>1, <3>3, <3>4
    <3>6. ~(Total(SubSeq(s, 1, m - 1)) > room)
      BY <3>2, <3>5 DEF over
    <3>7. Total(SubSeq(s, 1, m - 1)) <= room
      BY <1>1, <3>5, <3>6
    <3>8. Fits(m - 1)
      BY <3>3, <3>5, <3>7
    <3> QED
      BY <3>5, <3>8
  <2> QED
    BY <2>1, <2>2
<1>3. Fitting(s, room) = CHOOSE n \in 0 .. Len(s) : Fits(n)
  BY DEF Fitting
<1> HIDE DEF Fits
<1>4. Fitting(s, room) \in 0 .. Len(s) /\ Fits(Fitting(s, room))
  BY <1>2, <1>3
<1> QED
  BY <1>4 DEF Fits

-----------------------------------------------------------------------------
(* How many bytes a text has                                               *)

HexIn(s) == {i \in DOMAIN s : s[i] \in HexGroups}
Size(s) == Len(s) + 3 * Cardinality(HexIn(s))

\* The same numbers, all of them moved on by k.
LEMMA MovedOn ==
  ASSUME NEW T, IsFiniteSet(T), T \subseteq Int, NEW k \in Int
  PROVE  LET U == {i + k : i \in T} IN IsFiniteSet(U) /\ Cardinality(U) = Cardinality(T)
<1> DEFINE U == {i + k : i \in T}
           f == [i \in T |-> i + k]
<1>1. f \in Bijection(T, U)
  <2>1. \A i \in T : f[i] = i + k /\ f[i] \in U /\ i \in Int
    OBVIOUS
  <2>2. \A i, j \in T : f[i] = f[j] => i = j
    BY <2>1
  <2>3. f \in Injection(T, U)
    BY <2>1, <2>2 DEF Injection, IsInjective
  <2>4. \A u \in U : \E i \in T : f[i] = u
    BY <2>1
  <2>5. f \in Surjection(T, U)
    BY <2>1, <2>4 DEF Surjection
  <2> QED
    BY <2>3, <2>5 DEF Bijection
<1> HIDE DEF U, f
<1>2. IsFiniteSet(U) /\ Cardinality(T) = Cardinality(U)
  BY <1>1, FS_Bijection DEF ExistsBijection
<1> QED
  BY <1>2 DEF U

\* A size is a natural number, and finitely many hex groups are counted.
LEMMA SizeIsNat ==
  ASSUME NEW S, NEW s \in Seq(S)
  PROVE  IsFiniteSet(HexIn(s)) /\ Cardinality(HexIn(s)) \in Nat /\ HexIn(s) \subseteq 1 .. Len(s) /\ Size(s) \in Nat
<1>1. HexIn(s) \subseteq 1 .. Len(s) /\ Len(s) \in Nat
  BY DEF HexIn
<1>2. IsFiniteSet(1 .. Len(s))
  BY <1>1, FS_Interval
<1>3. IsFiniteSet(HexIn(s))
  BY <1>1, <1>2, FS_Subset
<1>4. Cardinality(HexIn(s)) \in Nat
  BY <1>3, FS_CardinalityType
<1> QED
  BY <1>1, <1>3, <1>4 DEF Size

\* A text without escapes has as many bytes as symbols.
LEMMA SizeOfPlain ==
  ASSUME NEW S, S \cap HexGroups = {}, NEW s \in Seq(S)
  PROVE  Size(s) = Len(s)
<1>1. HexIn(s) = {}
  BY DEF HexIn
<1>2. Cardinality(HexIn(s)) = 0
  BY <1>1, FS_EmptySet
<1> QED
  BY <1>2 DEF Size

\* Joined texts have the sum of their sizes.
LEMMA SizeAdds ==
  ASSUME NEW S, NEW s \in Seq(S), NEW t \in Seq(S)
  PROVE  s \o t \in Seq(S) /\ Size(s \o t) = Size(s) + Size(t)
<1> DEFINE moved == {i + Len(s) : i \in HexIn(t)}
<1>1. /\ s \o t \in Seq(S) /\ Len(s) \in Nat /\ Len(t) \in Nat /\ Len(s \o t) = Len(s) + Len(t)
      /\ \A i \in 1 .. Len(s) : (s \o t)[i] = s[i]
      /\ \A i \in 1 .. Len(t) : (s \o t)[i + Len(s)] = t[i]
  <2>1. \A i \in 1 .. Len(s) + Len(t) : (s \o t)[i] = IF i <= Len(s) THEN s[i] ELSE t[i - Len(s)]
    BY ConcatProperties
  <2>2. Len(s) \in Nat /\ Len(t) \in Nat
    OBVIOUS
  <2>3. \A i \in 1 .. Len(t) : i + Len(s) \in 1 .. Len(s) + Len(t) /\ ~(i + Len(s) <= Len(s)) /\ i + Len(s) - Len(s) = i
    BY <2>2
  <2>4. \A i \in 1 .. Len(s) : i \in 1 .. Len(s) + Len(t) /\ i <= Len(s)
    BY <2>2
  <2>5. s \o t \in Seq(S) /\ Len(s \o t) = Len(s) + Len(t)
    BY ConcatProperties
  <2> QED
    BY <2>1, <2>2, <2>3, <2>4, <2>5
<1>2. /\ HexIn(s) \subseteq 1 .. Len(s) /\ IsFiniteSet(HexIn(s)) /\ Cardinality(HexIn(s)) \in Nat
      /\ HexIn(t) \subseteq 1 .. Len(t) /\ IsFiniteSet(HexIn(t)) /\ Cardinality(HexIn(t)) \in Nat
  BY SizeIsNat
<1>3. HexIn(t) \subseteq Int /\ Len(s) \in Int
  BY <1>1, <1>2
<1>4. IsFiniteSet(moved) /\ Cardinality(moved) = Cardinality(HexIn(t))
  BY <1>2, <1>3, MovedOn
<1>5. HexIn(s \o t) = HexIn(s) \cup moved
  <2>1. ASSUME NEW i \in HexIn(s \o t) PROVE i \in HexIn(s) \cup moved
    <3>1. i \in 1 .. Len(s) + Len(t) /\ (s \o t)[i] \in HexGroups
      BY <1>1, <2>1 DEF HexIn
    <3>2. CASE i <= Len(s)
      BY <1>1, <3>1, <3>2 DEF HexIn
    <3>3. CASE i > Len(s)
      <4>1. i - Len(s) \in 1 .. Len(t) /\ (i - Len(s)) + Len(s) = i
        BY <1>1, <3>1, <3>3
      <4>2. t[i - Len(s)] \in HexGroups
        BY <1>1, <3>1, <4>1
      <4>3. i - Len(s) \in HexIn(t)
        BY <4>1, <4>2 DEF HexIn
      <4> QED
        BY <4>1, <4>3
    <3> QED
      BY <1>1, <3>1, <3>2, <3>3
  <2>2. ASSUME NEW i \in HexIn(s) PROVE i \in HexIn(s \o t)
    BY <1>1, <1>2, <2>2 DEF HexIn
  <2>3. ASSUME NEW j \in HexIn(t) PROVE j + Len(s) \in HexIn(s \o t)
    <3>1. j \in 1 .. Len(t) /\ t[j] \in HexGroups
      BY <1>2, <2>3 DEF HexIn
    <3>2. j + Len(s) \in 1 .. Len(s \o t) /\ (s \o t)[j + Len(s)] \in HexGroups
      BY <1>1, <3>1
    <3> QED
      BY <1>1, <3>2 DEF HexIn
  <2> QED
    BY <2>1, <2>2, <2>3
<1>6. HexIn(s) \cap moved = {}
  BY <1>1, <1>2
<1> HIDE DEF moved
<1>7. Cardinality(HexIn(s) \cup moved) = Cardinality(HexIn(s)) + Cardinality(HexIn(t))
  <2>1. Cardinality(HexIn(s) \cup moved)
          = Cardinality(HexIn(s)) + Cardinality(moved) - Cardinality(HexIn(s) \cap moved)
    BY <1>2, <1>4, FS_Union
  <2>2. Cardinality(HexIn(s) \cap moved) = 0
    BY <1>6, FS_EmptySet
  <2> QED
    BY <1>2, <1>4, <2>1, <2>2
<1> QED
  BY <1>1, <1>2, <1>5, <1>7 DEF Size

\* BytesFrom counts what was appended.
LEMMA BytesAppended ==
  ASSUME NEW S, NEW s \in Seq(S), NEW t \in Seq(S)
  PROVE  BytesFrom(s \o t, Len(s)) = Size(t)
<1>1. Len(s) \in Nat /\ Len(t) \in Nat /\ Len(s \o t) = Len(s) + Len(t)
  OBVIOUS
<1>2. \A i \in 1 .. Len(s) + Len(t) : (s \o t)[i] = IF i <= Len(s) THEN s[i] ELSE t[i - Len(s)]
  BY ConcatProperties
<1>3. HexIn(t) \subseteq 1 .. Len(t) /\ IsFiniteSet(HexIn(t)) /\ Cardinality(HexIn(t)) \in Nat
  BY SizeIsNat
<1> DEFINE k == Len(s) - 1
           moved == {i + k : i \in HexIn(t)}
           counted == {i \in Len(s) .. Len(s \o t) - 1 : Byte(s \o t, i) \in HexGroups}
<1>4. k \in Int /\ HexIn(t) \subseteq Int
  BY <1>1, <1>3
<1>5. counted = moved
  <2>1. ASSUME NEW i \in Len(s) .. Len(s) + Len(t) - 1
        PROVE  i - k \in 1 .. Len(t) /\ (i - k) + k = i /\ Byte(s \o t, i) = t[i - k]
    <3>1. i - k \in 1 .. Len(t) /\ (i - k) + k = i /\ i + 1 \in 1 .. Len(s) + Len(t) /\ ~(i + 1 <= Len(s))
          /\ i + 1 - Len(s) = i - k
      BY <1>1, <2>1
    <3>2. (s \o t)[i + 1] = t[i - k]
      BY <1>2, <3>1
    <3> QED
      BY <3>1, <3>2 DEF Byte
  <2>2. ASSUME NEW j \in 1 .. Len(t) PROVE j + k \in Len(s) .. Len(s) + Len(t) - 1 /\ (j + k) - k = j
    BY <1>1, <2>2
  <2> HIDE DEF k
  <2>3. counted \subseteq moved
    BY <1>1, <2>1 DEF HexIn
  <2>4. moved \subseteq counted
    BY <1>1, <1>3, <2>1, <2>2 DEF HexIn
  <2> QED
    BY <2>3, <2>4
<1> HIDE DEF k
<1>6. Cardinality(moved) = Cardinality(HexIn(t))
  BY <1>3, <1>4, MovedOn
<1>7. BytesFrom(s \o t, Len(s)) = Len(s \o t) - Len(s) + 3 * Cardinality(counted)
  BY DEF BytesFrom
<1> HIDE DEF counted, moved
<1> QED
  BY <1>1, <1>3, <1>5, <1>6, <1>7 DEF Size

-----------------------------------------------------------------------------
(* Texts joined from pieces                                                *)

\* There is a function that joins the pieces one by one.
LEMMA JoinExists ==
  ASSUME NEW s, Len(s) \in Nat \ {0}
  PROVE  \E h : h = [i \in 1 .. Len(s) |-> IF i = 1 THEN s[i] ELSE h[i - 1] \o s[i]]
<1> DEFINE JoinTo(k) == \E h : h = [i \in 1 .. k |-> IF i = 1 THEN s[i] ELSE h[i - 1] \o s[i]]
           bad == {k \in 1 .. Len(s) : ~JoinTo(k)}
<1> SUFFICES ASSUME ~JoinTo(Len(s)) PROVE FALSE
  OBVIOUS
<1> HIDE DEF JoinTo
<1>1. bad \subseteq Nat /\ bad # {}
  OBVIOUS
<1> HIDE DEF bad
<1>2. PICK m \in bad : \A y \in bad : m <= y
  BY <1>1, Least
<1>3. m \in Nat /\ 1 <= m /\ m <= Len(s) /\ ~JoinTo(m)
  BY DEF bad
<1>4. m # 1
  <2>1. [i \in 1 .. 1 |-> s[1]]
          = [i \in 1 .. 1 |-> IF i = 1 THEN s[i] ELSE [k \in 1 .. 1 |-> s[1]][i - 1] \o s[i]]
    OBVIOUS
  <2>2. JoinTo(1)
    BY <2>1 DEF JoinTo
  <2> QED
    BY <1>3, <2>2
<1>5. m - 1 \in 1 .. Len(s) /\ ~(m <= m - 1)
  BY <1>3, <1>4
<1>6. JoinTo(m - 1)
  BY <1>2, <1>5 DEF bad
<1>7. PICK h : h = [i \in 1 .. m - 1 |-> IF i = 1 THEN s[i] ELSE h[i - 1] \o s[i]]
  BY <1>6 DEF JoinTo
<1> DEFINE g == [i \in 1 .. m |-> IF i = 1 THEN s[i] ELSE h[i - 1] \o s[i]]
<1>8. /\ g = [i \in 1 .. m |-> g[i]]
      /\ \A i \in 1 .. m : g[i] = IF i = 1 THEN s[i] ELSE h[i - 1] \o s[i]
      /\ \A i \in 1 .. m - 1 : g[i] = h[i]
  <2>1. g = [i \in 1 .. m |-> g[i]] /\ \A i \in 1 .. m : g[i] = IF i = 1 THEN s[i] ELSE h[i - 1] \o s[i]
    OBVIOUS
  <2>2. \A i \in 1 .. m - 1 : h[i] = IF i = 1 THEN s[i] ELSE h[i - 1] \o s[i]
    BY <1>7
  <2>3. \A i \in 1 .. m - 1 : i \in 1 .. m
    BY <1>3
  <2> HIDE DEF g
  <2> QED
    BY <2>1, <2>2, <2>3
<1> HIDE DEF g
<1>9. g = [i \in 1 .. m |-> IF i = 1 THEN s[i] ELSE g[i - 1] \o s[i]]
  <2>1. \A i \in 1 .. m : i # 1 => i - 1 \in 1 .. m - 1
    BY <1>3
  <2>2. \A i \in 1 .. m : i # 1 => g[i - 1] = h[i - 1]
    BY <1>8, <2>1
  <2>3. \A i \in 1 .. m : g[i] = IF i = 1 THEN s[i] ELSE g[i - 1] \o s[i]
    BY <1>8, <2>2
  <2>4. [i \in 1 .. m |-> g[i]] = [i \in 1 .. m |-> IF i = 1 THEN s[i] ELSE g[i - 1] \o s[i]]
    BY <2>3, Zenon
  <2> QED
    BY <1>8, <2>4, Zenon
<1>10. JoinTo(m)
  <2>1. \E f : f = [i \in 1 .. m |-> IF i = 1 THEN s[i] ELSE f[i - 1] \o s[i]]
    BY <1>9, Zenon
  <2> QED
    BY <2>1 DEF JoinTo
<1> QED
  BY <1>3, <1>10

\* Pieces joined are as long as the pieces together.
LEMMA SizeOfJoined ==
  ASSUME NEW S, NEW s \in Seq(Seq(S)), NEW sizes \in Seq(Nat), Len(sizes) = Len(s),
         \A i \in 1 .. Len(s) : sizes[i] = Size(s[i])
  PROVE  FlattenSeq(s) \in Seq(S) /\ Size(FlattenSeq(s)) = Total(sizes)
<1> DEFINE Sum(k) == Total(SubSeq(sizes, 1, k))
<1>1. /\ Len(s) \in Nat /\ Sum(0) = 0 /\ Sum(Len(s)) = Total(sizes)
      /\ \A k \in 1 .. Len(s) : Sum(k) = Sum(k - 1) + Size(s[k])
  <2>1. /\ Total(SubSeq(sizes, 1, 0)) = 0 /\ SubSeq(sizes, 1, Len(sizes)) = sizes
        /\ \A k \in 1 .. Len(sizes) :
             Total(SubSeq(sizes, 1, k)) = Total(SubSeq(sizes, 1, k - 1)) + sizes[k]
    BY TotalSteps
  <2>2. Len(s) \in Nat
    OBVIOUS
  <2>3. Sum(0) = 0 /\ Sum(Len(s)) = Total(sizes)
    BY <2>1
  <2>4. \A k \in 1 .. Len(s) : Sum(k) = Sum(k - 1) + sizes[k]
    BY <2>1
  <2> HIDE DEF Sum
  <2> QED
    BY <2>2, <2>3, <2>4
<1> HIDE DEF Sum
<1>2. CASE Len(s) = 0
  <2>1. s = <<>> /\ FlattenSeq(s) = s
    BY <1>2 DEF FlattenSeq
  <2>2. FlattenSeq(s) \in Seq(S) /\ Len(FlattenSeq(s)) = 0
    BY <1>2, <2>1, EmptySeq
  <2>3. HexIn(FlattenSeq(s)) = {}
    BY <2>2 DEF HexIn
  <2>4. Cardinality(HexIn(FlattenSeq(s))) = 0
    BY <2>3, FS_EmptySet
  <2> QED
    BY <1>1, <1>2, <2>2, <2>4 DEF Size
<1>3. CASE Len(s) # 0
  <2> DEFINE g == CHOOSE flatten :
                    flatten = [i \in 1 .. Len(s) |-> IF i = 1 THEN s[i] ELSE flatten[i - 1] \o s[i]]
             Right(k) == g[k] \in Seq(S) /\ Size(g[k]) = Sum(k)
             bad == {k \in 1 .. Len(s) : ~Right(k)}
  <2>1. g = [i \in 1 .. Len(s) |-> IF i = 1 THEN s[i] ELSE g[i - 1] \o s[i]]
    BY <1>1, <1>3, JoinExists
  <2>2. FlattenSeq(s) = g[Len(s)]
    BY <1>3 DEF FlattenSeq
  <2> HIDE DEF g
  <2>3. \A k \in 1 .. Len(s) : g[k] = IF k = 1 THEN s[k] ELSE g[k - 1] \o s[k]
    BY <2>1
  <2>4. bad = {}
    <3> SUFFICES ASSUME bad # {} PROVE FALSE
      OBVIOUS
    <3>1. bad \subseteq Nat
      OBVIOUS
    <3> HIDE DEF bad
    <3>2. PICK m \in bad : \A y \in bad : m <= y
      BY <3>1, Least
    <3>3. m \in 1 .. Len(s) /\ ~Right(m) /\ s[m] \in Seq(S)
      BY DEF bad
    <3>4. CASE m = 1
      <4>1. g[1] = s[1] /\ Sum(1) = Sum(0) + Size(s[1]) /\ Sum(0) = 0
        BY <1>1, <2>3, <3>3, <3>4
      <4>2. Size(s[1]) \in Nat
        BY <3>3, <3>4, SizeIsNat
      <4> QED
        BY <3>3, <3>4, <4>1, <4>2
    <3>5. CASE m # 1
      <4>1. m - 1 \in 1 .. Len(s) /\ ~(m <= m - 1)
        BY <3>3, <3>5
      <4>2. Right(m - 1)
        BY <3>2, <4>1 DEF bad
      <4>3. g[m] = g[m - 1] \o s[m] /\ Sum(m) = Sum(m - 1) + Size(s[m])
        BY <1>1, <2>3, <3>3, <3>5
      <4>4. g[m] \in Seq(S) /\ Size(g[m]) = Size(g[m - 1]) + Size(s[m])
        BY <3>3, <4>2, <4>3, SizeAdds
      <4> QED
        BY <3>3, <4>2, <4>3, <4>4
    <3> QED
      BY <3>4, <3>5
  <2>5. Len(s) \in 1 .. Len(s)
    BY <1>1, <1>3
  <2> HIDE DEF Right
  <2>6. Right(Len(s))
    BY <2>4, <2>5
  <2> QED
    BY <1>1, <2>2, <2>6 DEF Right
<1> QED
  BY <1>2, <1>3

-----------------------------------------------------------------------------
(* The lengths that are computed are those of what is written              *)

\* A character of a string: its escape is as long as EscapedCharLen says, and
\* never shorter than the character.
LEMMA SizeOfEscaped ==
  ASSUME NEW char \in Seq(PlainBytes), Len(char) \in 1 .. 4
  PROVE  /\ EscapedChar(char) \in Seq(Symbols) /\ Size(EscapedChar(char)) = EscapedCharLen(char)
         /\ EscapedCharLen(char) \in 1 .. 6 /\ Len(char) <= EscapedCharLen(char)
<1> DEFINE Short == {Quote, Backslash, "n"}
<1>1. SimpleEscapes \ {"/"} = Short
  BY DEF SimpleEscapes, Quote, Backslash
<1>2. PlainBytes \cap HexGroups = {} /\ PlainBytes \subseteq Symbols /\ Short \subseteq PlainBytes
      /\ "u" \in Symbols /\ "0000" \in Symbols /\ "0000" \in HexGroups /\ Backslash \in Symbols
      /\ Backslash \notin HexGroups /\ "u" \notin HexGroups
  BY DEF PlainBytes, Symbols, HexGroups, SimpleEscapes, Digits, Whitespaces, Controls, Leads, Continuations,
         NeverUtf8, Quote, Backslash
<1>3. CASE \E e \in Short : char = <<Unescaped(e)>>
  <2> DEFINE e == CHOOSE x \in Short : char = <<Unescaped(x)>>
  <2>1. e \in Short /\ char = <<Unescaped(e)>>
    BY <1>3
  <2>2. EscapedChar(char) = <<Backslash, e>>
    BY <1>1, <1>3 DEF EscapedChar
  <2> HIDE DEF e
  <2>3. char \in {<<Quote>>, <<Backslash>>, <<"LF">>}
    BY <2>1 DEF Unescaped, Quote, Backslash
  <2>4. EscapedCharLen(char) = 2 /\ Len(char) = 1
    BY <2>3 DEF EscapedCharLen
  <2>5. <<Backslash, e>> \in Seq(PlainBytes) /\ Len(<<Backslash, e>>) = 2 /\ <<Backslash, e>> \in Seq(Symbols)
    BY <1>2, <2>1
  <2>6. Size(<<Backslash, e>>) = 2
    BY <1>2, <2>5, SizeOfPlain
  <2> QED
    BY <2>2, <2>4, <2>5, <2>6
<1>4. CASE ~(\E e \in Short : char = <<Unescaped(e)>>)
  <2>1. char \notin {<<Quote>>, <<Backslash>>, <<"LF">>}
    BY <1>4 DEF Unescaped, Quote, Backslash
  <2>2. CASE char[1] \in Controls
    <3> DEFINE esc == <<Backslash, "u", "0000">>
    <3>1. EscapedChar(char) = esc /\ EscapedCharLen(char) = 6
      BY <1>1, <1>4, <2>1, <2>2 DEF EscapedChar, EscapedCharLen
    <3>2. esc \in Seq(Symbols) /\ Len(esc) = 3 /\ DOMAIN esc = 1 .. 3
          /\ esc[1] = Backslash /\ esc[2] = "u" /\ esc[3] = "0000"
      BY <1>2
    <3> HIDE DEF esc
    <3>3. HexIn(esc) = {3}
      BY <1>2, <3>2 DEF HexIn
    <3>4. Cardinality(HexIn(esc)) = 1
      BY <3>3, FS_Singleton
    <3>5. Size(esc) = 6
      BY <3>2, <3>4 DEF Size
    <3>6. EscapedCharLen(char) \in 1 .. 6 /\ Len(char) <= EscapedCharLen(char)
      BY <3>1
    <3> QED
      BY <3>1, <3>2, <3>5, <3>6, Zenon
  <2>3. CASE char[1] \notin Controls
    <3>1. EscapedChar(char) = char /\ EscapedCharLen(char) = Len(char)
      BY <1>1, <1>4, <2>1, <2>3 DEF EscapedChar, EscapedCharLen
    <3>2. char \in Seq(Symbols) /\ Size(char) = Len(char)
      BY <1>2, SizeOfPlain
    <3> QED
      BY <3>1, <3>2
  <2> QED
    BY <2>2, <2>3
<1> QED
  BY <1>3, <1>4

Chars == {char \in Seq(PlainBytes) : Len(char) \in 1 .. 4}

\* The length computed of a text, escaped, is the size of the escaped text.
LEMMA SizeOfEscapedText ==
  ASSUME NEW string \in Seq(Chars)
  PROVE  /\ EscapedSizes(string) \in Seq(Nat) /\ Len(EscapedSizes(string)) = Len(string)
         /\ EscapedText(string) \in Seq(Symbols) /\ Size(EscapedText(string)) = EscapedLen(string)
<1>1. /\ DOMAIN string = 1 .. Len(string) /\ Len(string) \in Nat
      /\ \A i \in 1 .. Len(string) : string[i] \in Seq(PlainBytes) /\ Len(string[i]) \in 1 .. 4
  BY DEF Chars
<1> DEFINE pieces == [i \in DOMAIN string |-> EscapedChar(string[i])]
           sizes == EscapedSizes(string)
<1>2. \A i \in 1 .. Len(string) :
        /\ EscapedChar(string[i]) \in Seq(Symbols)
        /\ EscapedCharLen(string[i]) = Size(EscapedChar(string[i])) /\ EscapedCharLen(string[i]) \in Nat
  BY <1>1, SizeOfEscaped
<1>3. pieces \in Seq(Seq(Symbols)) /\ Len(pieces) = Len(string)
      /\ \A i \in 1 .. Len(pieces) : pieces[i] = EscapedChar(string[i])
  BY <1>1, <1>2
<1>4. sizes \in Seq(Nat) /\ Len(sizes) = Len(string)
      /\ \A i \in 1 .. Len(sizes) : sizes[i] = EscapedCharLen(string[i])
  BY <1>1, <1>2 DEF EscapedSizes
<1>5. EscapedText(string) = FlattenSeq(pieces)
  BY DEF EscapedText
<1> HIDE DEF pieces, sizes
<1>6. FlattenSeq(pieces) \in Seq(Symbols) /\ Size(FlattenSeq(pieces)) = Total(sizes)
  BY <1>2, <1>3, <1>4, SizeOfJoined
<1> QED
  BY <1>4, <1>5, <1>6 DEF sizes, EscapedLen

\* The simplest texts.
LEMMA SimpleTexts ==
  ASSUME NEW S, NEW x \in S
  PROVE  /\ <<>> \in Seq(S) /\ Len(<<>>) = 0 /\ <<x>> \in Seq(S) /\ Len(<<x>>) = 1
         /\ \A k \in Nat : [i \in 1 .. k |-> x] \in Seq(S) /\ Len([i \in 1 .. k |-> x]) = k
  OBVIOUS

\* What goes before a token is as long as its length says.
LEMMA SizeOfPrefix ==
  ASSUME PlaceInv
  PROVE  /\ \A depth \in Nat : /\ Newline(depth) \in Seq(Symbols) /\ NewlineLen(depth) \in Nat
                               /\ Size(Newline(depth)) = NewlineLen(depth)
         /\ Prefix \in Seq(Symbols) /\ PrefixLen \in Nat /\ Size(Prefix) = PrefixLen
<1> DEFINE Layout == {"LF", "SP", ","}
<1>1. Layout \cap HexGroups = {} /\ Layout \subseteq Symbols
  BY DEF HexGroups, Symbols, Whitespaces
<1>0. "LF" \in Layout /\ "SP" \in Layout /\ "," \in Layout
  OBVIOUS
<1> HIDE DEF Layout
<1>2. ASSUME NEW t \in Seq(Layout) PROVE t \in Seq(Symbols) /\ Size(t) = Len(t)
  <2>1. Size(t) = Len(t)
    BY <1>1, SizeOfPlain
  <2> QED
    BY <1>1, <2>1
<1>3. writer.indent \in Nat /\ writer.state \in WriterStates /\ writer.depth \in Nat
  BY WriterAssumption DEF PlaceInv
<1>4. ASSUME NEW depth \in Nat
      PROVE  Newline(depth) \in Seq(Layout) /\ NewlineLen(depth) \in Nat /\ Len(Newline(depth)) = NewlineLen(depth)
  <2> DEFINE k == writer.indent * depth
             spaces == [i \in 1 .. k |-> "SP"]
  <2>1. k \in Nat
    BY <1>3
  <2>2. Newline(depth) = IF writer.indent = 0 THEN <<>> ELSE <<"LF">> \o spaces
    BY DEF Newline
  <2>3. NewlineLen(depth) = IF writer.indent = 0 THEN 0 ELSE 1 + k
    BY DEF NewlineLen
  <2> HIDE DEF k
  <2>4. spaces \in Seq(Layout) /\ Len(spaces) = k
    BY <1>0, <2>1, SimpleTexts
  <2> HIDE DEF spaces
  <2>5. <<"LF">> \in Seq(Layout) /\ Len(<<"LF">>) = 1 /\ <<>> \in Seq(Layout) /\ Len(<<>>) = 0
    BY <1>0, SimpleTexts
  <2> DEFINE lf == <<"LF">>
  <2>6. lf \in Seq(Layout) /\ Len(lf) = 1
    BY <2>5
  <2> HIDE DEF lf
  <2>7. lf \o spaces \in Seq(Layout) /\ Len(lf \o spaces) = 1 + k
    <3>1. lf \o spaces \in Seq(Layout) /\ Len(lf \o spaces) = Len(lf) + Len(spaces)
      BY <2>4, <2>6, ConcatProperties, Zenon
    <3> QED
      BY <2>4, <2>6, <3>1
  <2>8. Newline(depth) = IF writer.indent = 0 THEN <<>> ELSE lf \o spaces
    BY <2>2 DEF lf
  <2> QED
    BY <2>1, <2>3, <2>5, <2>7, <2>8
<1>5. Prefix \in Seq(Layout) /\ PrefixLen \in Nat /\ Len(Prefix) = PrefixLen
  <2> DEFINE nl == Newline(writer.depth)
             len == NewlineLen(writer.depth)
  <2>1. nl \in Seq(Layout) /\ len \in Nat /\ Len(nl) = len
    BY <1>3, <1>4
  <2> DEFINE comma == <<",">>
             sp == <<"SP">>
  <2>2. /\ <<>> \in Seq(Layout) /\ Len(<<>>) = 0 /\ sp \in Seq(Layout) /\ Len(sp) = 1
        /\ comma \in Seq(Layout) /\ Len(comma) = 1
    BY <1>0, SimpleTexts
  <2>3. /\ writer.state = "Init0" => Prefix = <<>> /\ PrefixLen = 0
        /\ writer.state = "Init" => Prefix = nl /\ PrefixLen = len
    BY DEF Prefix, PrefixLen
  <2>4. writer.state = "AfterKey" => /\ Prefix = IF writer.indent = 0 THEN <<>> ELSE sp
                                     /\ PrefixLen = IF writer.indent = 0 THEN 0 ELSE 1
    BY DEF Prefix, PrefixLen
  <2>5. writer.state = "AfterValue" => Prefix = comma \o nl /\ PrefixLen = 1 + len
    BY DEF Prefix, PrefixLen
  <2> HIDE DEF nl, len, comma, sp
  <2>6. comma \o nl \in Seq(Layout) /\ Len(comma \o nl) = 1 + len
    <3>1. comma \o nl \in Seq(Layout) /\ Len(comma \o nl) = Len(comma) + Len(nl)
      BY <2>1, <2>2, ConcatProperties, Zenon
    <3> QED
      BY <2>1, <2>2, <3>1
  <2>7. CASE writer.state = "Init0"
    <3>1. 0 \in Nat
      OBVIOUS
    <3> QED
      BY <2>2, <2>3, <2>7, <3>1, Zenon
  <2>8. CASE writer.state = "Init"
    BY <2>1, <2>3, <2>8, Zenon
  <2>9. CASE writer.state = "AfterKey"
    <3>1. CASE writer.indent = 0
      BY <2>2, <2>4, <2>9, <3>1
    <3>2. CASE writer.indent # 0
      BY <2>2, <2>4, <2>9, <3>2
    <3> QED
      BY <3>1, <3>2
  <2>10. CASE writer.state = "AfterValue"
    <3>1. 1 + len \in Nat
      BY <2>1
    <3> QED
      BY <2>5, <2>6, <2>10, <3>1, Zenon
  <2> QED
    BY <1>3, <2>7, <2>8, <2>9, <2>10 DEF WriterStates
<1> QED
  BY <1>2, <1>4, <1>5

-----------------------------------------------------------------------------
(* Content that fits                                                       *)

\* The sizes of the first characters are the first of the sizes.
LEMMA FirstSizes ==
  ASSUME NEW string \in Seq(Chars), NEW k \in 0 .. Len(string)
  PROVE  /\ SubSeq(string, 1, k) \in Seq(Chars) /\ Len(SubSeq(string, 1, k)) = k
         /\ EscapedSizes(SubSeq(string, 1, k)) = SubSeq(EscapedSizes(string), 1, k)
<1> DEFINE t == SubSeq(string, 1, k)
           esc == EscapedSizes(string)
<1>1. Len(string) \in Nat /\ DOMAIN string = 1 .. Len(string)
  OBVIOUS
<1>2. t \in Seq(Chars) /\ Len(t) = k /\ DOMAIN t = 1 .. k /\ \A i \in 1 .. k : t[i] = string[i]
  BY <1>1
<1>3. esc \in Seq(Nat) /\ Len(esc) = Len(string) /\ \A i \in 1 .. Len(string) : esc[i] = EscapedCharLen(string[i])
  BY <1>1, SizeOfEscapedText DEF EscapedSizes
<1>4. EscapedSizes(t) = [i \in 1 .. k |-> EscapedCharLen(t[i])]
  BY <1>2 DEF EscapedSizes
<1>5. SubSeq(esc, 1, k) = [i \in 1 .. k |-> esc[i]]
  <2> HIDE DEF esc
  <2>1. SubSeq(esc, 1, k) \in Seq(Nat) /\ Len(SubSeq(esc, 1, k)) = k
        /\ \A i \in 1 .. k : SubSeq(esc, 1, k)[i] = esc[i]
    BY <1>1, <1>3
  <2> QED
    BY <2>1
<1>6. \A i \in 1 .. k : EscapedCharLen(t[i]) = esc[i]
  <2> HIDE DEF t, esc
  <2>1. \A i \in 1 .. k : i \in 1 .. Len(string)
    BY <1>1
  <2> QED
    BY <1>2, <1>3, <2>1
<1> HIDE DEF t, esc
<1>7. EscapedSizes(t) = SubSeq(esc, 1, k)
  BY <1>4, <1>5, <1>6
<1> QED
  BY <1>2, <1>7 DEF t, esc

\* Escaping never makes text shorter.
LEMMA EscapedIsLonger ==
  ASSUME NEW string \in Seq(Chars)
  PROVE  /\ Sizes(string) \in Seq(Nat) /\ Len(Sizes(string)) = Len(string)
         /\ \A k \in 0 .. Len(string) :
              Total(SubSeq(Sizes(string), 1, k)) <= Total(SubSeq(EscapedSizes(string), 1, k))
<1> DEFINE raw == Sizes(string)
           esc == EscapedSizes(string)
           Raw(k) == Total(SubSeq(raw, 1, k))
           Esc(k) == Total(SubSeq(esc, 1, k))
           bad == {k \in 0 .. Len(string) : ~(Raw(k) <= Esc(k))}
<1>1. /\ DOMAIN string = 1 .. Len(string) /\ Len(string) \in Nat
      /\ \A i \in 1 .. Len(string) : string[i] \in Seq(PlainBytes) /\ Len(string[i]) \in 1 .. 4
  BY DEF Chars
<1>2. /\ raw \in Seq(Nat) /\ Len(raw) = Len(string)
      /\ \A i \in 1 .. Len(string) : raw[i] = Len(string[i])
  BY <1>1 DEF Sizes
<1>3. /\ esc \in Seq(Nat) /\ Len(esc) = Len(string)
      /\ \A i \in 1 .. Len(string) : esc[i] = EscapedCharLen(string[i])
  BY <1>1, SizeOfEscapedText DEF EscapedSizes
<1>4. \A i \in 1 .. Len(string) : raw[i] \in Nat /\ esc[i] \in Nat /\ raw[i] <= esc[i]
  <2>1. \A i \in 1 .. Len(string) : EscapedCharLen(string[i]) \in 1 .. 6 /\ Len(string[i]) <= EscapedCharLen(string[i])
    BY <1>1, SizeOfEscaped
  <2> HIDE DEF raw, esc
  <2> QED
    BY <1>1, <1>2, <1>3, <2>1
<1> HIDE DEF raw, esc
<1>5. /\ Raw(0) = 0 /\ Esc(0) = 0
      /\ \A k \in 0 .. Len(string) : Raw(k) \in Nat /\ Esc(k) \in Nat
      /\ \A k \in 1 .. Len(string) : Raw(k) = Raw(k - 1) + raw[k] /\ Esc(k) = Esc(k - 1) + esc[k]
  BY <1>2, <1>3, TotalSteps
<1> HIDE DEF Raw, Esc
<1>6. bad = {}
  <2> SUFFICES ASSUME bad # {} PROVE FALSE
    OBVIOUS
  <2>1. bad \subseteq Nat
    OBVIOUS
  <2> HIDE DEF bad
  <2>2. PICK m \in bad : \A y \in bad : m <= y
    BY <2>1, Least
  <2>3. m \in 0 .. Len(string) /\ ~(Raw(m) <= Esc(m))
    BY DEF bad
  <2>4. m # 0
    BY <1>5, <2>3
  <2>5. m - 1 \in 0 .. Len(string) /\ ~(m <= m - 1) /\ m \in 1 .. Len(string)
    BY <1>1, <2>3, <2>4
  <2>6. Raw(m - 1) <= Esc(m - 1)
    BY <2>2, <2>5 DEF bad
  <2>7. /\ Raw(m) = Raw(m - 1) + raw[m] /\ Esc(m) = Esc(m - 1) + esc[m]
        /\ raw[m] \in Nat /\ esc[m] \in Nat /\ raw[m] <= esc[m] /\ Raw(m - 1) \in Nat /\ Esc(m - 1) \in Nat
    BY <1>4, <1>5, <2>5
  <2> QED
    BY <2>3, <2>6, <2>7
<1> QED
  BY <1>2, <1>6 DEF raw, esc, Raw, Esc

\* The characters of the content that are taken fit, and the next would not.
LEMMA TakenFits ==
  ASSUME NEW string \in Seq(Chars), used \in 0 .. RingCapacity
  PROVE  LET n == Taken(string)
             len == EscapedLen(SubSeq(string, 1, n))
         IN  /\ n \in 0 .. Len(string) /\ len \in Nat /\ used + len <= RingCapacity
             /\ n < Len(string) => used + len + EscapedCharLen(string[n + 1]) > RingCapacity
<1> DEFINE n == Taken(string)
           spare == RingCapacity - used
           raw == Sizes(string)
           esc == EscapedSizes(string)
           c == Fitting(raw, spare)
           cut == SubSeq(esc, 1, c)
<1>1. Len(string) \in Nat /\ spare \in Nat /\ RingCapacity \in Nat /\ used \in Nat
  BY WriterAssumption
<1>2. /\ raw \in Seq(Nat) /\ Len(raw) = Len(string) /\ esc \in Seq(Nat) /\ Len(esc) = Len(string)
      /\ \A k \in 0 .. Len(string) : Total(SubSeq(raw, 1, k)) <= Total(SubSeq(esc, 1, k))
      /\ \A i \in 1 .. Len(string) : esc[i] = EscapedCharLen(string[i])
  BY EscapedIsLonger, SizeOfEscapedText DEF EscapedSizes
<1> HIDE DEF raw, esc, spare
<1>3. /\ c \in 0 .. Len(string)
      /\ c < Len(string) => Total(SubSeq(raw, 1, c + 1)) > spare
  BY <1>1, <1>2, FittingFits
<1>4. n = Fitting(cut, spare)
  <2>1. EscapedSizes(SubSeq(string, 1, c)) = cut
    <3> HIDE DEF c
    <3> QED
      BY <1>3, FirstSizes DEF esc
  <2>2. n = Fitting(EscapedSizes(SubSeq(string, 1, c)), spare)
    BY DEF Taken, c, spare, raw
  <2> QED
    BY <2>1, <2>2
<1> HIDE DEF c, n
<1>5. cut \in Seq(Nat) /\ Len(cut) = c /\ \A i \in 1 .. c : cut[i] = esc[i]
  BY <1>1, <1>2, <1>3
<1>6. ASSUME NEW k \in 0 .. c PROVE SubSeq(cut, 1, k) = SubSeq(esc, 1, k)
  <2>1. \A i \in 1 .. k : SubSeq(cut, 1, k)[i] = cut[i] /\ SubSeq(esc, 1, k)[i] = esc[i] /\ cut[i] = esc[i]
    <3> HIDE DEF cut
    <3> QED
      BY <1>1, <1>2, <1>3, <1>5
  <2>2. SubSeq(cut, 1, k) \in Seq(Nat) /\ SubSeq(esc, 1, k) \in Seq(Nat)
        /\ Len(SubSeq(cut, 1, k)) = k /\ Len(SubSeq(esc, 1, k)) = k
    <3> HIDE DEF cut
    <3>1. k \in 0 .. Len(cut) /\ k \in 0 .. Len(esc)
      BY <1>1, <1>2, <1>3, <1>5
    <3>2. SubSeq(cut, 1, k) \in Seq(Nat) /\ Len(SubSeq(cut, 1, k)) = k
      BY <1>5, <3>1
    <3>3. SubSeq(esc, 1, k) \in Seq(Nat) /\ Len(SubSeq(esc, 1, k)) = k
      BY <1>2, <3>1
    <3> QED
      BY <3>2, <3>3
  <2> HIDE DEF cut
  <2> DEFINE a == SubSeq(cut, 1, k)
             b == SubSeq(esc, 1, k)
  <2>3. a \in Seq(Nat) /\ b \in Seq(Nat) /\ Len(a) = k /\ Len(b) = k /\ \A i \in 1 .. k : a[i] = b[i]
    BY <2>1, <2>2
  <2> HIDE DEF a, b
  <2>4. a = b
    BY <2>3
  <2> QED
    BY <2>4 DEF a, b
<1> HIDE DEF cut
<1>7. /\ n \in 0 .. c /\ Total(SubSeq(cut, 1, n)) <= spare
      /\ n < c => Total(SubSeq(cut, 1, n + 1)) > spare
  BY <1>1, <1>4, <1>5, FittingFits
<1>8. n \in 0 .. Len(string)
  BY <1>1, <1>3, <1>7
<1> DEFINE Esc(k) == Total(SubSeq(esc, 1, k))
<1>9. EscapedLen(SubSeq(string, 1, n)) = Esc(n)
  <2>1. EscapedSizes(SubSeq(string, 1, n)) = SubSeq(esc, 1, n)
    BY <1>8, FirstSizes DEF esc
  <2> QED
    BY <2>1 DEF EscapedLen
<1>10. /\ Esc(n) \in Nat
       /\ n < Len(string) => Esc(n + 1) = Esc(n) + EscapedCharLen(string[n + 1]) /\ esc[n + 1] \in Nat
  <2>1. /\ \A k \in 0 .. Len(string) : Esc(k) \in Nat
        /\ \A k \in 1 .. Len(string) : Esc(k) = Esc(k - 1) + esc[k]
    BY <1>2, TotalSteps
  <2> HIDE DEF Esc
  <2>2. ASSUME n < Len(string) PROVE n + 1 \in 1 .. Len(string) /\ (n + 1) - 1 = n
    BY <1>1, <1>8, <2>2
  <2>3. ASSUME n < Len(string) PROVE Esc(n + 1) = Esc(n) + esc[n + 1] /\ esc[n + 1] = EscapedCharLen(string[n + 1])
    BY <1>2, <2>1, <2>2, <2>3
  <2>4. ASSUME n < Len(string) PROVE esc[n + 1] \in Nat
    BY <1>2, <2>2, <2>4
  <2> QED
    BY <1>8, <2>1, <2>3, <2>4
<1>11. Esc(n) <= spare
  BY <1>6, <1>7
<1>12. n < Len(string) => Esc(n + 1) > spare
  <2>1. CASE n < c
    <3>1. n + 1 \in 0 .. c
      BY <1>1, <1>3, <1>7, <2>1
    <3> QED
      BY <1>6, <1>7, <2>1, <3>1
  <2>2. CASE n = c /\ n < Len(string)
    <3>1. n + 1 \in 0 .. Len(string)
      BY <1>1, <1>8, <2>2
    <3>2. Total(SubSeq(raw, 1, n + 1)) > spare /\ Total(SubSeq(raw, 1, n + 1)) <= Esc(n + 1)
      BY <1>2, <1>3, <2>2, <3>1
    <3>3. Total(SubSeq(raw, 1, n + 1)) \in Nat /\ Esc(n + 1) \in Nat
      BY <1>2, <3>1, TotalSteps
    <3> HIDE DEF Esc
    <3> QED
      BY <1>1, <3>2, <3>3
  <2> QED
    BY <1>1, <1>3, <1>7, <2>1, <2>2
<1> HIDE DEF Esc
<1>13. used + Esc(n) <= RingCapacity
  BY <1>1, <1>10, <1>11 DEF spare
<1>14. n < Len(string) => used + Esc(n) + EscapedCharLen(string[n + 1]) > RingCapacity
  <2> SUFFICES ASSUME n < Len(string) PROVE used + Esc(n) + EscapedCharLen(string[n + 1]) > RingCapacity
    OBVIOUS
  <2>1. Esc(n) + EscapedCharLen(string[n + 1]) > spare /\ EscapedCharLen(string[n + 1]) = esc[n + 1]
    <3>1. n + 1 \in 1 .. Len(string)
      BY <1>1, <1>8
    <3> QED
      BY <1>2, <1>10, <1>12, <3>1
  <2> QED
    BY <1>1, <1>10, <2>1 DEF spare
<1> QED
  BY <1>8, <1>9, <1>10, <1>13, <1>14 DEF n

-----------------------------------------------------------------------------
(* The ring                                                                *)

\* What the lengths are computed from, and the ring within its room.
RingInv ==
  /\ PlaceInv
  /\ used \in 0 .. RingCapacity
  /\ text \in Seq(Symbols)
  /\ want # NoCall => want.op \in DOMAIN Arguments /\ want.arg \in Arguments[want.op]
  /\ result = "ok" => want = NoCall

\* What a call is given is text.
LEMMA ArgumentIsText ==
  ASSUME RingInv
  PROVE  /\ want.op \in {"key", "string", "content"} => want.arg \in Seq(Chars)
         /\ want.op = "number" /\ want.arg # NotFinite
              => want.arg \in Seq(Symbols) /\ Size(want.arg) = Len(want.arg)
         /\ want.op = "literal"
              => LET token == want.arg \o Literals[want.arg[1]]
                 IN  token \in Seq(Symbols) /\ Size(token) = Len(token)
<1>1. PlainBytes \cap HexGroups = {} /\ PlainBytes \subseteq Symbols
  BY DEF PlainBytes
<1>2. ASSUME NEW t \in Seq(PlainBytes) PROVE t \in Seq(Symbols) /\ Size(t) = Len(t)
  <2>1. Size(t) = Len(t)
    BY <1>1, SizeOfPlain
  <2> QED
    BY <1>1, <2>1
<1>3. CASE want = NoCall
  BY <1>3 DEF NoCall
<1>4. CASE want.op \in {"key", "string", "content"} /\ want.arg \in Arguments[want.op]
  <2>1. want.arg \in Strings
    BY <1>4 DEF Arguments
  <2>2. want.arg \in Seq(Seq(PlainBytes)) /\ \A i \in DOMAIN want.arg : Len(want.arg[i]) \in 1 .. 4
    BY <2>1, TextAssumption
  <2> DEFINE w == want.arg
  <2>3. w \in Seq(Seq(PlainBytes)) /\ Len(w) \in Nat /\ DOMAIN w = 1 .. Len(w)
    BY <2>2
  <2>4. \A i \in 1 .. Len(w) : w[i] \in Chars
    BY <2>2, <2>3 DEF Chars
  <2> HIDE DEF w
  <2>5. w \in Seq(Chars)
    BY <2>3, <2>4
  <2> QED
    BY <1>4, <2>5 DEF w
<1>5. CASE want.op = "number" /\ want.arg \in Arguments[want.op]
  <2>1. want.arg # NotFinite => want.arg \in NumberTexts
    BY <1>5 DEF Arguments
  <2>2. want.arg # NotFinite => want.arg \in Seq(PlainBytes)
    BY <2>1, TextAssumption
  <2> QED
    BY <1>2, <1>5, <2>2
<1>6. CASE want.op = "literal" /\ want.arg \in Arguments[want.op]
  <2>1. PICK b \in DOMAIN Literals : want.arg = <<b>>
    BY <1>6 DEF Arguments
  <2>2. b \in PlainBytes /\ Literals[b] \in Seq(PlainBytes) /\ want.arg[1] = b
    BY <2>1, TextAssumption
  <2>3. want.arg \in Seq(PlainBytes)
    BY <2>1, <2>2, SimpleTexts
  <2>4. want.arg \o Literals[b] \in Seq(PlainBytes)
    BY <2>2, <2>3, ConcatProperties, Zenon
  <2> QED
    BY <1>2, <1>6, <2>2, <2>4
<1>7. want # NoCall => want.arg \in Arguments[want.op]
  BY DEF RingInv
<1> QED
  BY <1>3, <1>4, <1>5, <1>6, <1>7

\* A call that was refused, or had nothing to write.
LEMMA RingStays ==
  ASSUME RingInv, PlaceInv', UNCHANGED <<used, text>>, (want' = want /\ result' # "ok") \/ want' = NoCall
  PROVE  RingInv'
  BY DEF RingInv

\* A call that wrote as much as there was room for.
LEMMA PutInRoom ==
  ASSUME RingInv, PlaceInv', NEW bytes \in Seq(Symbols), NEW state, NEW depth, Put(bytes, state, depth),
         used + Size(bytes) <= RingCapacity
  PROVE  RingInv' /\ used' = used + Size(bytes)
<1>1. text \in Seq(Symbols) /\ used \in Nat /\ RingCapacity \in Nat
  BY WriterAssumption DEF RingInv
<1>2. text' = text \o bytes /\ used' = used + BytesFrom(text', Len(text)) /\ want' = NoCall
  BY DEF Put
<1>3. text \o bytes \in Seq(Symbols) /\ BytesFrom(text \o bytes, Len(text)) = Size(bytes)
  BY <1>1, BytesAppended, SizeAdds
<1>4. Size(bytes) \in Nat
  BY SizeIsNat
<1>5. used' = used + Size(bytes)
  BY <1>2, <1>3
<1>6. used' \in 0 .. RingCapacity
  BY <1>1, <1>4, <1>5
<1> QED
  BY <1>2, <1>3, <1>5, <1>6 DEF RingInv

\* A token behind the prefix.
LEMMA TokenInRoom ==
  ASSUME RingInv, PlaceInv', NEW token \in Seq(Symbols), NEW need, need = Size(token),
         NEW state, NEW depth, Accepted(token, need, state, depth)
  PROVE  RingInv'
<1>1. Prefix \in Seq(Symbols) /\ PrefixLen = Size(Prefix) /\ PrefixLen \in Nat
  BY SizeOfPrefix DEF RingInv
<1>2. Prefix \o token \in Seq(Symbols) /\ Size(Prefix \o token) = PrefixLen + need
  BY <1>1, SizeAdds
<1>3. used + Size(Prefix \o token) <= RingCapacity /\ Put(Prefix \o token, state, depth)
  BY <1>2 DEF Accepted, HasRoom
<1> DEFINE bytes == Prefix \o token
<1>4. bytes \in Seq(Symbols) /\ used + Size(bytes) <= RingCapacity /\ Put(bytes, state, depth)
  BY <1>2, <1>3
<1> HIDE DEF bytes
<1> QED
  BY <1>4, PutInRoom

\* A call that is refused leaves the ring as it is.
LEMMA RejectedStays ==
  ASSUME RingInv, PlaceInv', NEW need, Refused(Refusal(need)) \/ Rejected(need)
  PROVE  RingInv'
<1>1. UNCHANGED <<used, want, text>> /\ result' # "ok"
  BY DEF Refused, Refusal, Rejected
<1> QED
  BY <1>1, RingStays

\* A quoted text.
LEMMA SizeOfQuoted ==
  ASSUME NEW string \in Seq(Chars)
  PROVE  Quoted(string) \in Seq(Symbols) /\ Size(Quoted(string)) = 2 + EscapedLen(string)
         /\ EscapedLen(string) \in Nat
<1> DEFINE quote == <<Quote>>
           body == EscapedText(string)
<1>1. quote \in Seq(Symbols) /\ Size(quote) = 1
  <2>1. Quote \in {Quote} /\ {Quote} \subseteq Symbols /\ {Quote} \cap HexGroups = {}
    BY DEF Symbols, SimpleEscapes, HexGroups, Quote
  <2>2. quote \in Seq({Quote}) /\ Len(quote) = 1
    BY <2>1, SimpleTexts
  <2>3. quote \in Seq(Symbols)
    BY <2>1, SimpleTexts
  <2> HIDE DEF quote
  <2>4. Size(quote) = Len(quote)
    BY <2>1, <2>2, SizeOfPlain
  <2> QED
    BY <2>2, <2>3, <2>4
<1>2. body \in Seq(Symbols) /\ Size(body) = EscapedLen(string)
  BY SizeOfEscapedText
<1>3. Quoted(string) = quote \o body \o quote
  BY DEF Quoted
<1> HIDE DEF quote, body
<1>4. Size(body) \in Nat
  BY <1>2, SizeIsNat
<1>5. quote \o body \in Seq(Symbols) /\ Size(quote \o body) = 1 + EscapedLen(string)
  BY <1>1, <1>2, SizeAdds
<1>6. (quote \o body) \o quote \in Seq(Symbols) /\ Size((quote \o body) \o quote) = 2 + EscapedLen(string)
  <2>1. Size((quote \o body) \o quote) = Size(quote \o body) + Size(quote)
    BY <1>1, <1>5, SizeAdds
  <2>2. (quote \o body) \o quote \in Seq(Symbols)
    BY <1>1, <1>5, SizeAdds
  <2> QED
    BY <1>1, <1>2, <1>4, <1>5, <2>1, <2>2
<1> QED
  BY <1>2, <1>3, <1>4, <1>6

\* A text of one plain symbol.
LEMMA SizeOfOne ==
  ASSUME NEW x \in {"{", "}", "[", "]", ":", Quote}
  PROVE  <<x>> \in Seq(Symbols) /\ Size(<<x>>) = 1
<1>1. x \in Symbols /\ {x} \cap HexGroups = {} /\ x \in {x}
  BY DEF Symbols, SimpleEscapes, HexGroups, Quote
<1>2. <<x>> \in Seq(Symbols) /\ <<x>> \in Seq({x}) /\ Len(<<x>>) = 1
  BY <1>1, SimpleTexts
<1>3. Size(<<x>>) = Len(<<x>>)
  BY <1>1, <1>2, SizeOfPlain
<1> QED
  BY <1>2, <1>3

-----------------------------------------------------------------------------
(* The calls                                                               *)

\* Content: what is taken fits, and the next character would not.
LEMMA ContentInRoom ==
  ASSUME RingInv, PlaceInv', WriteStringContent
  PROVE  /\ RingInv'
         /\ result' = "ok" =>
              \E n \in 0 .. Len(want.arg) :
                /\ text' = text \o EscapedText(SubSeq(want.arg, 1, n))
                /\ n < Len(want.arg) => n > 0 /\ NextTooLong(want.arg, n)
<1> DEFINE string == want.arg
           n == Taken(string)
           taken == SubSeq(string, 1, n)
<1>1. string \in Seq(Chars) /\ used \in 0 .. RingCapacity /\ text \in Seq(Symbols) /\ want # NoCall
  <2>1. string \in Seq(Chars) /\ want # NoCall
    BY ArgumentIsText DEF WriteStringContent, NoCall
  <2> QED
    BY <2>1 DEF RingInv
<1>2. \/ string = <<>> /\ result' = "ok" /\ want' = NoCall /\ UNCHANGED <<used, text>>
      \/ taken # <<>> /\ Put(EscapedText(taken), writer.state, writer.depth)
      \/ string # <<>> /\ taken = <<>> /\ Refused(Refusal(6))
  BY DEF WriteStringContent
<1> HIDE DEF string
<1>3. /\ n \in 0 .. Len(string) /\ used + EscapedLen(SubSeq(string, 1, n)) <= RingCapacity
      /\ n < Len(string) => used + EscapedLen(SubSeq(string, 1, n)) + EscapedCharLen(string[n + 1]) > RingCapacity
  BY <1>1, TakenFits
<1> HIDE DEF n
<1>4. taken \in Seq(Chars) /\ Len(taken) = n
  BY <1>1, <1>3, FirstSizes
<1>5. EscapedText(taken) \in Seq(Symbols) /\ Size(EscapedText(taken)) = EscapedLen(taken)
  BY <1>4, SizeOfEscapedText
<1>6. CASE string = <<>> /\ result' = "ok" /\ want' = NoCall /\ UNCHANGED <<used, text>>
  <2>1. n = 0 /\ Len(string) = 0
    BY <1>3, <1>6
  <2>2. EscapedText(SubSeq(string, 1, 0)) = <<>>
    <3>1. DOMAIN SubSeq(string, 1, 0) = 1 .. 0
      BY <1>4, <2>1
    <3> DEFINE t == SubSeq(string, 1, 0)
               pieces == [i \in DOMAIN t |-> EscapedChar(t[i])]
    <3>2. pieces = <<>> /\ Len(pieces) = 0
      BY <3>1
    <3>3. EscapedText(t) = FlattenSeq(pieces)
      BY DEF EscapedText
    <3> HIDE DEF pieces
    <3>4. FlattenSeq(pieces) = pieces
      BY <3>2 DEF FlattenSeq
    <3> QED
      BY <3>2, <3>3, <3>4
  <2>3. text' = text \o EscapedText(SubSeq(string, 1, 0))
    <3>1. text \o <<>> = text
      BY <1>1, ConcatEmptySeq
    <3> QED
      BY <1>6, <2>2, <3>1
  <2>4. RingInv'
    BY <1>6, RingStays
  <2>5. 0 \in 0 .. Len(string)
    BY <2>1
  <2> QED
    BY <2>1, <2>3, <2>4, <2>5 DEF string
<1>7. CASE taken # <<>> /\ Put(EscapedText(taken), writer.state, writer.depth)
  <2>1. n > 0
    BY <1>3, <1>4, <1>7
  <2> DEFINE bytes == EscapedText(taken)
  <2>2. bytes \in Seq(Symbols) /\ used + Size(bytes) <= RingCapacity /\ Put(bytes, writer.state, writer.depth)
    BY <1>3, <1>5, <1>7
  <2>3. text' = text \o bytes
    BY <2>2 DEF Put
  <2> HIDE DEF bytes
  <2>4. RingInv' /\ used' = used + Size(bytes)
    BY <2>2, PutInRoom
  <2>5. used' = used + EscapedLen(taken)
    BY <1>5, <2>4 DEF bytes
  <2>6. n < Len(string) => NextTooLong(string, n)
    BY <1>3, <2>5 DEF NextTooLong
  <2> QED
    BY <1>3, <2>1, <2>3, <2>4, <2>6 DEF string, bytes
<1>8. CASE string # <<>> /\ taken = <<>> /\ Refused(Refusal(6))
  <2>1. RingInv'
    BY <1>8, RejectedStays
  <2>2. result' # "ok"
    BY <1>8 DEF Refused, Refusal
  <2> QED
    BY <2>1, <2>2
<1> QED
  BY <1>2, <1>6, <1>7, <1>8

\* Every attempt keeps what is written within the ring.
LEMMA AttemptInRoom == ASSUME RingInv, Attempt PROVE RingInv'
<1>0. PlaceInv'
  BY AttemptKeepsPlace DEF RingInv
<1>1. CASE WriteKey
  <2> DEFINE quoted == Quoted(want.arg)
             colon == <<":">>
             need == 2 + EscapedLen(want.arg) + 1
  <2>1. want.arg \in Seq(Chars)
    BY <1>1, ArgumentIsText DEF WriteKey
  <2>2. quoted \in Seq(Symbols) /\ Size(quoted) = 2 + EscapedLen(want.arg) /\ EscapedLen(want.arg) \in Nat
    BY <2>1, SizeOfQuoted
  <2>3. colon \in Seq(Symbols) /\ Size(colon) = 1
    BY SizeOfOne
  <2>4. Accepted(quoted \o colon, need, "AfterKey", writer.depth) \/ Rejected(need)
    BY <1>1 DEF WriteKey
  <2> HIDE DEF quoted, colon
  <2>5. quoted \o colon \in Seq(Symbols) /\ Size(quoted \o colon) = need
    BY <2>2, <2>3, SizeAdds
  <2> DEFINE token == quoted \o colon
  <2> HIDE DEF token, need
  <2>6. token \in Seq(Symbols) /\ need = Size(token)
        /\ (Accepted(token, need, "AfterKey", writer.depth) \/ Rejected(need))
    BY <2>4, <2>5 DEF token
  <2> QED
    BY <1>0, <2>6, TokenInRoom, RejectedStays
<1>2. CASE WriteString
  <2> DEFINE token == Quoted(want.arg)
             need == 2 + EscapedLen(want.arg)
  <2>1. want.arg \in Seq(Chars)
    BY <1>2, ArgumentIsText DEF WriteString
  <2>2. token \in Seq(Symbols) /\ need = Size(token)
    BY <2>1, SizeOfQuoted
  <2>3. Accepted(token, need, "AfterValue", writer.depth) \/ Rejected(need)
    BY <1>2 DEF WriteString
  <2> HIDE DEF token, need
  <2> QED
    BY <1>0, <2>2, <2>3, TokenInRoom, RejectedStays
<1>3. CASE WriteNumber
  <2> DEFINE token == want.arg
             need == Len(want.arg)
  <2>1. CASE want.arg = NotFinite
    <3>1. UNCHANGED <<used, want, text>> /\ result' # "ok"
      BY <1>3, <2>1 DEF WriteNumber, Refused
    <3> QED
      BY <1>0, <3>1, RingStays
  <2>2. CASE want.arg # NotFinite
    <3>1. token \in Seq(Symbols) /\ need = Size(token)
      BY <1>3, <2>2, ArgumentIsText DEF WriteNumber
    <3>2. Accepted(token, need, "AfterValue", writer.depth) \/ Rejected(need)
      BY <1>3, <2>2 DEF WriteNumber
    <3> HIDE DEF token, need
    <3> QED
      BY <1>0, <3>1, <3>2, TokenInRoom, RejectedStays
  <2> QED
    BY <2>1, <2>2
<1>4. CASE WriteLiteral
  <2> DEFINE token == want.arg \o Literals[want.arg[1]]
             need == Len(token)
  <2>1. token \in Seq(Symbols) /\ need = Size(token)
    BY <1>4, ArgumentIsText DEF WriteLiteral
  <2>2. Accepted(token, need, "AfterValue", writer.depth) \/ Rejected(need)
    BY <1>4 DEF WriteLiteral
  <2> HIDE DEF token, need
  <2> QED
    BY <1>0, <2>1, <2>2, TokenInRoom, RejectedStays
<1>5. CASE WriteOpen
  <2> DEFINE token == <<IF want.op = "start_object" THEN "{" ELSE "[">>
  <2>1. token \in Seq(Symbols) /\ 1 = Size(token)
    BY SizeOfOne
  <2>2. Accepted(token, 1, "Init", writer.depth + 1) \/ Rejected(1)
    BY <1>5 DEF WriteOpen
  <2> HIDE DEF token
  <2> QED
    BY <1>0, <2>1, <2>2, TokenInRoom, RejectedStays
<1>6. CASE WriteStartString
  <2> DEFINE token == <<Quote>>
  <2>1. token \in Seq(Symbols) /\ 1 = Size(token)
    BY SizeOfOne
  <2>2. Accepted(token, 1, writer.state, writer.depth) \/ Rejected(1)
    BY <1>6 DEF WriteStartString
  <2> HIDE DEF token
  <2> QED
    BY <1>0, <2>1, <2>2, TokenInRoom, RejectedStays
<1>7. CASE WriteEndString
  <2> DEFINE token == <<Quote>>
  <2>1. token \in Seq(Symbols) /\ Size(token) = 1
    BY SizeOfOne
  <2>2. (used + 1 <= RingCapacity /\ Put(token, "AfterValue", writer.depth)) \/ Refused(Refusal(1))
    BY <1>7 DEF WriteEndString, HasRoom
  <2> HIDE DEF token
  <2> QED
    BY <1>0, <2>1, <2>2, PutInRoom, RejectedStays
<1>8. CASE WriteClose
  <2> DEFINE nl == Newline(OuterDepth)
             bracket == <<IF want.op = "end_object" THEN "}" ELSE "]">>
             need == NewlineLen(OuterDepth) + 1
  <2>1. OuterDepth \in Nat
    BY DEF RingInv, PlaceInv, OuterDepth
  <2>2. nl \in Seq(Symbols) /\ NewlineLen(OuterDepth) \in Nat /\ Size(nl) = NewlineLen(OuterDepth)
    BY <2>1, SizeOfPrefix DEF RingInv
  <2>3. bracket \in Seq(Symbols) /\ Size(bracket) = 1
    BY SizeOfOne
  <2>4. \/ used + need <= RingCapacity /\ Put(nl \o bracket, "AfterValue", OuterDepth)
        \/ Refused(Refusal(need))
    BY <1>8 DEF WriteClose, HasRoom
  <2> HIDE DEF nl, bracket
  <2>5. nl \o bracket \in Seq(Symbols) /\ Size(nl \o bracket) = need
    BY <2>2, <2>3, SizeAdds
  <2> DEFINE token == nl \o bracket
  <2> HIDE DEF token, need
  <2>6. /\ token \in Seq(Symbols) /\ Size(token) = need
        /\ \/ used + Size(token) <= RingCapacity /\ Put(token, "AfterValue", OuterDepth)
           \/ Refused(Refusal(need))
    BY <2>4, <2>5 DEF token
  <2> QED
    BY <1>0, <2>6, PutInRoom, RejectedStays
<1>9. CASE WriteStringContent
  BY <1>0, <1>9, ContentInRoom
<1> QED
  BY <1>1, <1>2, <1>3, <1>4, <1>5, <1>6, <1>7, <1>8, <1>9 DEF Attempt

\* So does every step.
LEMMA NextInRoom == ASSUME RingInv, [Next]_wvars PROVE RingInv'
<1>1. CASE Attempt
  BY <1>1, AttemptInRoom
<1>2. CASE UNCHANGED wvars
  <2>1. UNCHANGED <<used, want, text, result>> /\ PlaceInv'
    BY <1>2, PlaceStays DEF wvars, RingInv
  <2> QED
    BY <2>1 DEF RingInv
<1>3. CASE Decide
  <2>1. UNCHANGED <<used, text>> /\ result' = "none" /\ PlaceInv'
    BY <1>3, PlaceStays DEF Decide, RingInv
  <2>2. PICK op \in DOMAIN Arguments : \E arg \in Arguments[op] : want' = [op |-> op, arg |-> arg]
    BY <1>3, Zenon DEF Decide
  <2>3. want'.op \in DOMAIN Arguments /\ want'.arg \in Arguments[want'.op]
    BY <2>2
  <2> QED
    BY <2>1, <2>3 DEF RingInv
<1>4. CASE GiveUp
  <2>1. UNCHANGED <<used, text>> /\ want' = NoCall /\ PlaceInv'
    BY <1>4, PlaceStays DEF GiveUp, RingInv
  <2> QED
    BY <2>1 DEF RingInv
<1>5. CASE Drain
  <2>1. UNCHANGED <<want, text, result>> /\ PlaceInv'
    BY <1>5, PlaceStays DEF Drain, RingInv
  <2>2. used' \in 0 .. RingCapacity
    BY <1>5, WriterAssumption DEF Drain, RingInv
  <2> QED
    BY <2>1, <2>2 DEF RingInv
<1>6. CASE Reset
  <2>1. want' = NoCall /\ used' = used /\ text' = <<>>
    BY <1>6 DEF Reset
  <2>2. text' \in Seq(Symbols)
    BY <2>1, EmptySeq
  <2>3. PlaceInv'
    BY <1>6, ResetKeepsPlace DEF RingInv
  <2> QED
    BY <2>1, <2>2, <2>3 DEF RingInv
<1> QED
  BY <1>1, <1>2, <1>3, <1>4, <1>5, <1>6 DEF Next

\* So the ring is always within its room.
LEMMA RingAlways == Spec => []RingInv
<1>1. Init => RingInv
  <2> SUFFICES ASSUME Init PROVE RingInv
    OBVIOUS
  <2>1. used = 0 /\ text = <<>> /\ want = NoCall
    BY DEF Init
  <2>2. used \in 0 .. RingCapacity
    BY <2>1, WriterAssumption
  <2>3. text \in Seq(Symbols)
    BY <2>1, EmptySeq
  <2> QED
    BY <2>1, <2>2, <2>3, InitPlace DEF RingInv
<1> QED
  BY <1>1, NextInRoom, PTL DEF Spec

\* However small the ring is and whatever is written in it, the length that is
\* computed before a token is written is that of what is then written, with its
\* prefix and escapes, and so the ring is never written beyond its room
\* (writer.rs 440-540).
THEOREM RingIsNeverOverrun == Spec => []NeverBeyondTheRing
<1>1. RingInv => NeverBeyondTheRing
  BY WriterAssumption DEF RingInv, NeverBeyondTheRing
<1> QED
  BY <1>1, RingAlways, PTL

\* Content is taken in whole characters from its beginning, at least one, and
\* none is left behind that would still fit, whatever is in the ring and however
\* long its escapes are (writer.rs 285-321).
THEOREM ContentTakesAllThatFits == Spec => TakesAllThatFits
<1>1. RingInv /\ [Next]_wvars =>
        [ want.op = "content" /\ result' = "ok"
          => \E n \in 0 .. Len(want.arg) :
               /\ text' = text \o EscapedText(SubSeq(want.arg, 1, n))
               /\ n < Len(want.arg) => n > 0 /\ NextTooLong(want.arg, n) ]_wvars
  <2> SUFFICES ASSUME RingInv, Next, want.op = "content", result' = "ok"
               PROVE  \E n \in 0 .. Len(want.arg) :
                        /\ text' = text \o EscapedText(SubSeq(want.arg, 1, n))
                        /\ n < Len(want.arg) => n > 0 /\ NextTooLong(want.arg, n)
    OBVIOUS
  <2>1. want # NoCall
    BY DEF NoCall
  <2>2. ~Decide /\ ~GiveUp /\ ~Reset
    BY <2>1 DEF Decide, GiveUp, Reset
  <2>3. ~Drain
    BY <2>1 DEF Drain, RingInv
  <2>4. Attempt
    BY <2>2, <2>3 DEF Next
  <2>5. WriteStringContent
    BY <2>4 DEF Attempt, WriteKey, WriteString, WriteNumber, WriteLiteral, WriteOpen, WriteClose,
                WriteStartString, WriteEndString
  <2>6. PlaceInv'
    BY <2>4, AttemptKeepsPlace DEF RingInv
  <2> QED
    BY <2>5, <2>6, ContentInRoom
<1> QED
  BY <1>1, RingAlways, PTL DEF Spec, TakesAllThatFits

-----------------------------------------------------------------------------
(* Brackets and lines                                                      *)

\* The brackets that open a value, and those that close one.
Opening == {"{", "["}
Shutting == {"}", "]"}

\* What a token is made of that is not itself a bracket.
Inner == Symbols \ (Opening \cup Shutting \cup {"LF"})

\* How many of the first n symbols are of these kinds, and how many brackets
\* are open behind them.
CountTo(s, n, kinds) == Cardinality({i \in 1 .. n : s[i] \in kinds})
Net(s, n) == CountTo(s, n, Opening) - CountTo(s, n, Shutting)

\* Counts are natural numbers.
LEMMA CountIsNat ==
  ASSUME NEW s, NEW n \in Nat, NEW kinds
  PROVE  IsFiniteSet({i \in 1 .. n : s[i] \in kinds}) /\ CountTo(s, n, kinds) \in Nat
<1>1. IsFiniteSet(1 .. n) /\ {i \in 1 .. n : s[i] \in kinds} \subseteq 1 .. n
  BY FS_Interval
<1>2. IsFiniteSet({i \in 1 .. n : s[i] \in kinds})
  BY <1>1, FS_Subset
<1> QED
  BY <1>2, FS_CardinalityType DEF CountTo

\* The symbols of two texts one behind the other.
LEMMA JoinedSymbols ==
  ASSUME NEW S, NEW s \in Seq(S), NEW t \in Seq(S)
  PROVE  /\ s \o t \in Seq(S) /\ Len(s) \in Nat /\ Len(t) \in Nat /\ Len(s \o t) = Len(s) + Len(t)
         /\ \A i \in 1 .. Len(s) : (s \o t)[i] = s[i]
         /\ \A i \in 1 .. Len(t) : (s \o t)[i + Len(s)] = t[i]
<1>1. \A i \in 1 .. Len(s) + Len(t) : (s \o t)[i] = IF i <= Len(s) THEN s[i] ELSE t[i - Len(s)]
  BY ConcatProperties
<1>2. Len(s) \in Nat /\ Len(t) \in Nat
  OBVIOUS
<1>3. \A i \in 1 .. Len(t) : i + Len(s) \in 1 .. Len(s) + Len(t) /\ ~(i + Len(s) <= Len(s)) /\ i + Len(s) - Len(s) = i
  BY <1>2
<1>4. \A i \in 1 .. Len(s) : i \in 1 .. Len(s) + Len(t) /\ i <= Len(s)
  BY <1>2
<1>5. s \o t \in Seq(S) /\ Len(s \o t) = Len(s) + Len(t)
  BY ConcatProperties
<1> QED
  BY <1>1, <1>2, <1>3, <1>4, <1>5

\* What is appended is counted in addition, and changes no count before it.
LEMMA CountAdds ==
  ASSUME NEW S, NEW s \in Seq(S), NEW t \in Seq(S)
  PROVE  /\ \A n \in 0 .. Len(s) : \A kinds : CountTo(s \o t, n, kinds) = CountTo(s, n, kinds)
         /\ \A n \in 0 .. Len(t) : \A kinds :
              CountTo(s \o t, Len(s) + n, kinds) = CountTo(s, Len(s), kinds) + CountTo(t, n, kinds)
<1> DEFINE st == s \o t
           len == Len(s)
<1>1. /\ len \in Nat /\ Len(t) \in Nat
      /\ \A i \in 1 .. len : st[i] = s[i]
      /\ \A i \in 1 .. Len(t) : st[i + len] = t[i]
  BY JoinedSymbols
<1> HIDE DEF st, len
<1>2. ASSUME NEW n \in 0 .. len, NEW kinds  PROVE CountTo(st, n, kinds) = CountTo(s, n, kinds)
  <2>1. \A i \in 1 .. n : st[i] = s[i]
    BY <1>1
  <2>2. {i \in 1 .. n : st[i] \in kinds} = {i \in 1 .. n : s[i] \in kinds}
    BY <2>1
  <2> QED
    BY <2>2 DEF CountTo
<1>3. ASSUME NEW n \in 0 .. Len(t), NEW kinds
      PROVE  CountTo(st, len + n, kinds) = CountTo(s, len, kinds) + CountTo(t, n, kinds)
  <2> DEFINE A == {i \in 1 .. len : s[i] \in kinds}
             B == {i \in 1 .. n : t[i] \in kinds}
             moved == {i + len : i \in B}
             all == {i \in 1 .. len + n : st[i] \in kinds}
  <2>1. n \in Nat /\ n <= Len(t)
    BY <1>1
  <2>2. /\ IsFiniteSet(A) /\ Cardinality(A) \in Nat /\ A \subseteq 1 .. len
        /\ IsFiniteSet(B) /\ Cardinality(B) \in Nat /\ B \subseteq 1 .. n
    <3>1. /\ IsFiniteSet(A) /\ CountTo(s, len, kinds) \in Nat /\ IsFiniteSet(B) /\ CountTo(t, n, kinds) \in Nat
      BY <1>1, <2>1, CountIsNat, Zenon
    <3> QED
      BY <3>1 DEF CountTo
  <2>3. B \subseteq Int /\ len \in Int
    BY <1>1, <2>1, <2>2
  <2>4. IsFiniteSet(moved) /\ Cardinality(moved) = Cardinality(B)
    <3> HIDE DEF B
    <3> QED  BY <2>2, <2>3, MovedOn
  <2>5. all = A \cup moved
    <3>1. ASSUME NEW i \in all PROVE i \in A \cup moved
      <4>1. i \in 1 .. len + n /\ st[i] \in kinds
        BY <3>1
      <4>2. CASE i <= len
        BY <1>1, <2>1, <4>1, <4>2
      <4>3. CASE i > len
        <5>1. i - len \in 1 .. n /\ (i - len) + len = i /\ i - len \in 1 .. Len(t)
          BY <1>1, <2>1, <4>1, <4>3
        <5>2. t[i - len] \in kinds
          BY <1>1, <4>1, <5>1
        <5> QED
          BY <5>1, <5>2
      <4> QED
        BY <1>1, <2>1, <4>1, <4>2, <4>3
    <3>2. ASSUME NEW i \in A PROVE i \in all
      BY <1>1, <2>1, <3>2
    <3>3. ASSUME NEW j \in B PROVE j + len \in all
      <4>1. j \in 1 .. n /\ j \in 1 .. Len(t) /\ t[j] \in kinds
        BY <1>1, <2>1, <3>3
      <4>2. j + len \in 1 .. len + n /\ st[j + len] \in kinds
        BY <1>1, <2>1, <4>1
      <4> QED
        BY <4>2
    <3> QED
      BY <3>1, <3>2, <3>3
  <2>6. A \cap moved = {}
    BY <1>1, <2>2
  <2>7. CountTo(st, len + n, kinds) = Cardinality(all) /\ CountTo(s, len, kinds) = Cardinality(A)
        /\ CountTo(t, n, kinds) = Cardinality(B)
    BY DEF CountTo
  <2> HIDE DEF moved, A, B, all
  <2>8. Cardinality(A \cup moved) = Cardinality(A) + Cardinality(moved) - Cardinality(A \cap moved)
    BY <2>2, <2>4, FS_Union
  <2>9. Cardinality(A \cap moved) = 0
    BY <2>6, FS_EmptySet
  <2> QED
    BY <2>2, <2>4, <2>5, <2>7, <2>8, <2>9
<1> QED
  BY <1>2, <1>3 DEF st, len

\* And so for the brackets that are open.
LEMMA NetAdds ==
  ASSUME NEW S, NEW s \in Seq(S), NEW t \in Seq(S)
  PROVE  /\ \A n \in 0 .. Len(s) : Net(s \o t, n) = Net(s, n) /\ Net(s, n) \in Int
         /\ \A n \in 0 .. Len(t) : Net(s \o t, Len(s) + n) = Net(s, Len(s)) + Net(t, n) /\ Net(t, n) \in Int
<1>1. Len(s) \in Nat /\ Len(t) \in Nat
  OBVIOUS
<1>2. ASSUME NEW n \in 0 .. Len(s)  PROVE Net(s \o t, n) = Net(s, n) /\ Net(s, n) \in Int
  <2>1. n \in Nat
    BY <1>1
  <2>2. CountTo(s, n, Opening) \in Nat /\ CountTo(s, n, Shutting) \in Nat
    BY <2>1, CountIsNat
  <2>a. \A kinds : CountTo(s \o t, n, kinds) = CountTo(s, n, kinds)
    BY CountAdds
  <2>3. CountTo(s \o t, n, Opening) = CountTo(s, n, Opening) /\ CountTo(s \o t, n, Shutting) = CountTo(s, n, Shutting)
    BY <2>a, Zenon
  <2> QED
    BY <2>2, <2>3 DEF Net
<1>3. ASSUME NEW n \in 0 .. Len(t)
      PROVE  Net(s \o t, Len(s) + n) = Net(s, Len(s)) + Net(t, n) /\ Net(t, n) \in Int
  <2>1. n \in Nat
    BY <1>1
  <2>2. /\ CountTo(s, Len(s), Opening) \in Nat /\ CountTo(s, Len(s), Shutting) \in Nat
        /\ CountTo(t, n, Opening) \in Nat /\ CountTo(t, n, Shutting) \in Nat
    BY <1>1, <2>1, CountIsNat
  <2>a. \A kinds : CountTo(s \o t, Len(s) + n, kinds) = CountTo(s, Len(s), kinds) + CountTo(t, n, kinds)
    BY CountAdds
  <2>3. /\ CountTo(s \o t, Len(s) + n, Opening) = CountTo(s, Len(s), Opening) + CountTo(t, n, Opening)
        /\ CountTo(s \o t, Len(s) + n, Shutting) = CountTo(s, Len(s), Shutting) + CountTo(t, n, Shutting)
    BY <2>a, Zenon
  <2> QED
    BY <2>2, <2>3 DEF Net
<1> QED
  BY <1>2, <1>3

\* Text without brackets opens nothing, and a bracket one.
LEMMA NetOf ==
  ASSUME NEW s
  PROVE  /\ \A n \in Nat : (\A i \in 1 .. n : s[i] \notin Opening \cup Shutting) => Net(s, n) = 0
         /\ s[1] \in Opening => Net(s, 1) = 1
         /\ s[1] \in Shutting => Net(s, 1) = -1
<1>1. ASSUME NEW n \in Nat, NEW kinds, \A i \in 1 .. n : s[i] \notin kinds  PROVE CountTo(s, n, kinds) = 0
  <2>1. {i \in 1 .. n : s[i] \in kinds} = {}
    BY <1>1
  <2> QED
    BY <2>1, FS_EmptySet DEF CountTo
<1>2. ASSUME NEW kinds, s[1] \in kinds  PROVE CountTo(s, 1, kinds) = 1
  <2>1. {i \in 1 .. 1 : s[i] \in kinds} = {1}
    BY <1>2
  <2> QED
    BY <2>1, FS_Singleton DEF CountTo
<1>3. ASSUME NEW n \in Nat, \A i \in 1 .. n : s[i] \notin Opening \cup Shutting  PROVE Net(s, n) = 0
  <2>1. CountTo(s, n, Opening) = 0 /\ CountTo(s, n, Shutting) = 0
    BY <1>1, <1>3
  <2> QED
    BY <2>1 DEF Net
<1>4. Opening \cap Shutting = {} /\ 1 \in Nat /\ \A i \in 1 .. 1 : i = 1
  BY DEF Opening, Shutting
<1>5. ASSUME s[1] \in Opening  PROVE Net(s, 1) = 1
  <2>1. CountTo(s, 1, Opening) = 1 /\ CountTo(s, 1, Shutting) = 0
    BY <1>1, <1>2, <1>4, <1>5
  <2> QED
    BY <2>1 DEF Net
<1>6. ASSUME s[1] \in Shutting  PROVE Net(s, 1) = -1
  <2>1. CountTo(s, 1, Opening) = 0 /\ CountTo(s, 1, Shutting) = 1
    BY <1>1, <1>2, <1>4, <1>6
  <2> QED
    BY <2>1 DEF Net
<1> QED
  BY <1>3, <1>5, <1>6

\* How deep a line stands that begins at j: outside a bracket that it opens.
Inside(s, j) == IF s[j] \in Opening THEN Net(s, j) - 1 ELSE Net(s, j)

\* The line behind the line feed at i begins at j, below spaces for every
\* bracket that is open there.
StandsAt(s, i, j, indent) ==
  /\ s[j] # "SP" /\ \A k \in i + 1 .. j - 1 : s[k] = "SP"
  /\ j - i - 1 = indent * Inside(s, j)

\* Every line of the text does, and there are none without indentation.
Lines(s, indent) ==
  \A i \in 1 .. Len(s) :
    s[i] = "LF" => indent > 0 /\ \E j \in i + 1 .. Len(s) : StandsAt(s, i, j, indent)

\* What stands in a text stands in it still when more is appended.
LEMMA StandsStill ==
  ASSUME NEW S, NEW s \in Seq(S), NEW t \in Seq(S), NEW indent,
         NEW i \in 1 .. Len(s), NEW j \in i + 1 .. Len(s), StandsAt(s, i, j, indent)
  PROVE  StandsAt(s \o t, i, j, indent)
<1>1. /\ Len(s) \in Nat /\ \A n \in 1 .. Len(s) : (s \o t)[n] = s[n]
      /\ \A n \in 0 .. Len(s) : Net(s \o t, n) = Net(s, n)
  BY JoinedSymbols, NetAdds
<1> DEFINE st == s \o t
<1>2. st[j] = s[j] /\ Net(st, j) = Net(s, j) /\ \A k \in i + 1 .. j - 1 : st[k] = s[k]
  BY <1>1
<1> HIDE DEF st
<1>3. Inside(st, j) = Inside(s, j)
  BY <1>2 DEF Inside
<1> QED
  BY <1>2, <1>3 DEF StandsAt, st

\* Appending text within a line leaves the lines as they are.
LEMMA LinesStay ==
  ASSUME NEW S, NEW s \in Seq(S), NEW t \in Seq(S), NEW indent, Lines(s, indent),
         \A i \in 1 .. Len(t) : t[i] # "LF"
  PROVE  Lines(s \o t, indent)
<1> DEFINE st == s \o t
<1>1. /\ Len(s) \in Nat /\ Len(t) \in Nat /\ Len(st) = Len(s) + Len(t)
      /\ \A i \in 1 .. Len(s) : st[i] = s[i]
      /\ \A i \in 1 .. Len(t) : st[i + Len(s)] = t[i]
  BY JoinedSymbols
<1> SUFFICES ASSUME NEW i \in 1 .. Len(st), st[i] = "LF"
             PROVE  indent > 0 /\ \E j \in i + 1 .. Len(st) : StandsAt(st, i, j, indent)
  BY DEF Lines
<1>2. i <= Len(s)
  <2>1. ASSUME i > Len(s)  PROVE FALSE
    <3>1. i - Len(s) \in 1 .. Len(t) /\ (i - Len(s)) + Len(s) = i
      BY <1>1, <2>1
    <3>2. t[i - Len(s)] = "LF"
      BY <1>1, <3>1
    <3> QED
      BY <3>1, <3>2
  <2> QED
    BY <1>1, <2>1
<1>3. i \in 1 .. Len(s) /\ s[i] = "LF"
  BY <1>1, <1>2
<1>4. indent > 0 /\ \E j \in i + 1 .. Len(s) : StandsAt(s, i, j, indent)
  BY <1>3 DEF Lines
<1>5. PICK j \in i + 1 .. Len(s) : StandsAt(s, i, j, indent)
  BY <1>4
<1>6. StandsAt(st, i, j, indent)
  BY <1>3, <1>5, StandsStill
<1>7. j \in i + 1 .. Len(st)
  BY <1>1, <1>3, <1>5
<1> QED
  BY <1>4, <1>6, <1>7

\* A line feed and k spaces, and a token that may stand behind them.
IsBreak(nl, k) == Len(nl) = 1 + k /\ nl[1] = "LF" /\ \A i \in 2 .. Len(nl) : nl[i] = "SP"
IsToken(t) == Len(t) > 0 /\ t[1] # "SP" /\ \A i \in 1 .. Len(t) : t[i] # "LF"

\* A new line stands as deep as brackets are open around what it begins with.
LEMMA LinesGrow ==
  ASSUME NEW S, NEW s \in Seq(S), NEW nl \in Seq(S), NEW t \in Seq(S), NEW indent \in Nat, NEW depth \in Nat,
         NEW k \in Nat, indent * depth = k, indent > 0, Lines(s, indent), IsBreak(nl, k), IsToken(t),
         Net(s, Len(s)) = IF t[1] \in Shutting THEN depth + 1 ELSE depth
  PROVE  Lines(s \o (nl \o t), indent)
<1> DEFINE b == nl \o t
           w == s \o b
<1>1. Len(nl) = 1 + k
  BY DEF IsBreak
<1>2. /\ b \in Seq(S) /\ Len(t) \in Nat /\ Len(b) = Len(nl) + Len(t)
      /\ \A i \in 1 .. Len(nl) : b[i] = nl[i]
      /\ \A i \in 1 .. Len(t) : b[i + Len(nl)] = t[i]
  BY JoinedSymbols
<1>3. Net(b, Len(nl) + 1) = Net(t, 1)
  <2>1. 1 \in 0 .. Len(t) /\ Len(nl) \in 0 .. Len(nl) /\ Len(nl) \in Nat
    BY <1>1, <1>2 DEF IsToken
  <2>2. Net(b, Len(nl) + 1) = Net(nl, Len(nl)) + Net(t, 1) /\ Net(t, 1) \in Int
    BY <2>1, NetAdds
  <2>3. \A i \in 1 .. Len(nl) : nl[i] \in {"LF", "SP"}
    <3>1. ASSUME NEW i \in 1 .. Len(nl)  PROVE nl[i] \in {"LF", "SP"}
      <4>1. i = 1 \/ i \in 2 .. Len(nl)
        BY <2>1
      <4> QED
        BY <4>1 DEF IsBreak
    <3> QED
      BY <3>1
  <2>4. {"LF", "SP"} \cap (Opening \cup Shutting) = {}
    BY DEF Opening, Shutting
  <2>5. \A i \in 1 .. Len(nl) : nl[i] \notin Opening \cup Shutting
    BY <2>3, <2>4
  <2>6. Net(nl, Len(nl)) = 0
    BY <2>1, <2>5, NetOf
  <2> QED
    BY <2>2, <2>6
<1> HIDE DEF b
<1>b. b \in Seq(S)
  BY <1>2
<1>4. /\ w \in Seq(S) /\ Len(s) \in Nat /\ Len(b) \in Nat /\ Len(w) = Len(s) + Len(b)
      /\ \A i \in 1 .. Len(s) : w[i] = s[i]
      /\ \A i \in 1 .. Len(b) : w[i + Len(s)] = b[i]
  BY <1>b, JoinedSymbols
<1> DEFINE at == Len(s) + 1
           to == Len(s) + (Len(nl) + 1)
<1>5. Net(w, to) = Net(s, Len(s)) + Net(t, 1) /\ Net(t, 1) \in Int /\ Net(s, Len(s)) \in Int
  <2>1. Len(nl) + 1 \in 0 .. Len(b) /\ Len(s) \in 0 .. Len(s) /\ 1 \in 0 .. Len(t)
    BY <1>1, <1>2, <1>4 DEF IsToken
  <2>2. \A n \in 0 .. Len(b) : Net(w, Len(s) + n) = Net(s, Len(s)) + Net(b, n)
    BY <1>b, NetAdds
  <2>3. Net(w, to) = Net(s, Len(s)) + Net(b, Len(nl) + 1)
    BY <2>1, <2>2
  <2>4. Net(s, Len(s)) \in Int /\ Net(t, 1) \in Int
    BY <2>1, NetAdds
  <2> QED
    BY <1>3, <2>3, <2>4
<1> HIDE DEF w
<1>6. w[at] = "LF" /\ w[to] = t[1] /\ \A i \in at + 1 .. to - 1 : w[i] = "SP"
  <2>1. 1 \in 1 .. Len(b) /\ 1 \in 1 .. Len(nl) /\ 1 + Len(s) = at
    BY <1>1, <1>2, <1>4 DEF IsToken
  <2>2. Len(nl) + 1 \in 1 .. Len(b) /\ (Len(nl) + 1) + Len(s) = to /\ 1 \in 1 .. Len(t) /\ 1 + Len(nl) = Len(nl) + 1
    BY <1>1, <1>2, <1>4 DEF IsToken
  <2>3. b[1] = "LF" /\ b[Len(nl) + 1] = t[1]
    BY <1>2, <2>1, <2>2 DEF IsBreak
  <2>4. ASSUME NEW i \in at + 1 .. to - 1  PROVE w[i] = "SP"
    <3>a. Len(s) \in Nat /\ Len(nl) \in Nat /\ Len(t) \in Nat /\ Len(b) = Len(nl) + Len(t)
      BY <1>1, <1>2, <1>4
    <3>1. /\ i - Len(s) \in 2 .. Len(nl) /\ i - Len(s) \in 1 .. Len(nl) /\ i - Len(s) \in 1 .. Len(b)
          /\ (i - Len(s)) + Len(s) = i
      BY <3>a
    <3>2. b[i - Len(s)] = "SP"
      BY <1>2, <3>1 DEF IsBreak
    <3> QED
      BY <1>4, <3>1, <3>2
  <2> QED
    BY <1>4, <2>1, <2>2, <2>3, <2>4
<1>7. Inside(w, to) = depth
  <2>1. Opening \cap Shutting = {}
    BY DEF Opening, Shutting
  <2>2. t[1] \in Opening => Net(t, 1) = 1
    BY NetOf
  <2>3. t[1] \in Shutting => Net(t, 1) = -1
    BY NetOf
  <2>4. t[1] \notin Opening \cup Shutting => Net(t, 1) = 0
    <3>1. 1 \in Nat /\ \A i \in 1 .. 1 : i = 1
      OBVIOUS
    <3> QED
      BY <3>1, NetOf
  <2> QED
    BY <1>5, <1>6, <2>1, <2>2, <2>3, <2>4 DEF Inside
<1>8. StandsAt(w, at, to, indent)
  <2>1. to - at - 1 = k
    BY <1>1, <1>4
  <2>2. to - at - 1 = indent * Inside(w, to)
    BY <1>7, <2>1
  <2> QED
    BY <1>6, <2>2 DEF StandsAt, IsToken
<1>9. at \in 1 .. Len(w) /\ to \in at + 1 .. Len(w)
  BY <1>1, <1>2, <1>4 DEF IsToken
<1> HIDE DEF at, to
<1>10. ASSUME NEW i \in 1 .. Len(w), w[i] = "LF"
       PROVE  \E j \in i + 1 .. Len(w) : StandsAt(w, i, j, indent)
  <2>1. CASE i <= Len(s)
    <3>1. i \in 1 .. Len(s) /\ s[i] = "LF"
      BY <1>4, <1>10, <2>1
    <3>2. PICK j \in i + 1 .. Len(s) : StandsAt(s, i, j, indent)
      BY <3>1 DEF Lines
    <3>3. StandsAt(w, i, j, indent)
      BY <1>2, <3>1, <3>2, StandsStill DEF w
    <3>4. j \in i + 1 .. Len(w)
      BY <1>4, <3>1, <3>2
    <3> QED
      BY <3>3, <3>4
  <2>2. CASE i > Len(s)
    <3>1. i = at
      <4>1. i - Len(s) \in 1 .. Len(b) /\ (i - Len(s)) + Len(s) = i
        BY <1>4, <2>2
      <4>2. b[i - Len(s)] = "LF"
        BY <1>4, <1>10, <4>1
      <4> DEFINE n == i - Len(s)
      <4>3. n \in 1 .. Len(b) /\ b[n] = "LF" /\ n + Len(s) = i
        BY <4>1, <4>2
      <4> HIDE DEF n
      <4>4. ~(n > Len(nl))
        <5>1. ASSUME n > Len(nl)  PROVE FALSE
          <6>1. n - Len(nl) \in 1 .. Len(t) /\ (n - Len(nl)) + Len(nl) = n
            BY <1>1, <1>2, <4>3, <5>1
          <6>2. t[n - Len(nl)] = "LF"
            BY <1>2, <4>3, <6>1
          <6> QED
            BY <6>1, <6>2 DEF IsToken
        <5> QED
          BY <5>1
      <4>5. n \in 1 .. Len(nl)
        BY <1>1, <1>2, <4>3, <4>4
      <4>6. n \notin 2 .. Len(nl)
        BY <1>2, <4>3, <4>5 DEF IsBreak
      <4>7. n = 1
        BY <1>1, <4>5, <4>6
      <4> QED
        BY <1>4, <4>3, <4>7 DEF at
    <3> QED
      BY <1>8, <1>9, <3>1
  <2> QED
    BY <1>4, <2>1, <2>2
<1>11. Lines(w, indent)
  BY <1>10 DEF Lines
<1> QED
  BY <1>11 DEF w, b

\* No bracket and no line end is written but by the writer itself: none in a
\* key, a string, a number or a literal, and the latter two begin with no space.
Unbracketed ==
  /\ \A string \in Strings : \A i \in DOMAIN string : string[i] = <<"LF">> \/ string[i] \in Seq(Inner)
  /\ NumberTexts \subseteq Seq(Inner \ {"SP"}) \ {<<>>}
  /\ \A b \in DOMAIN Literals : b \in Inner \ {"SP"} /\ Literals[b] \in Seq(Inner)

\* The symbols of escapes and of the layout.
LEMMA InnerSymbols ==
  /\ Inner \subseteq Symbols /\ "LF" \notin Inner /\ Inner \cap Opening = {} /\ Inner \cap Shutting = {}
  /\ {Quote, Backslash, "n", "u", "0000", ":", ",", "SP"} \subseteq Inner /\ Quote # "SP"
  /\ Opening \subseteq Symbols /\ Shutting \subseteq Symbols /\ "LF" \in Symbols /\ Opening \cap Shutting = {}
  /\ {"SP", "LF"} \cap (Opening \cup Shutting) = {}
<1>1. {Quote, Backslash, "n", "u", "0000", ":", ",", "SP"} \subseteq Symbols /\ "LF" \in Symbols
      /\ Opening \subseteq Symbols /\ Shutting \subseteq Symbols
  BY DEF Symbols, HexGroups, SimpleEscapes, Whitespaces, Quote, Backslash, Opening, Shutting
<1>2. {Quote, Backslash, "n", "u", "0000", ":", ",", "SP"} \cap (Opening \cup Shutting \cup {"LF"}) = {}
      /\ Opening \cap Shutting = {} /\ Quote # "SP" /\ {"SP", "LF"} \cap (Opening \cup Shutting) = {}
  BY DEF Quote, Backslash, Opening, Shutting
<1> QED
  BY <1>1, <1>2 DEF Inner

\* Text of such symbols opens nothing and ends no line.
LEMMA InnerText ==
  ASSUME NEW t \in Seq(Inner)
  PROVE  /\ t \in Seq(Symbols) /\ Net(t, Len(t)) = 0
         /\ \A i \in 1 .. Len(t) : t[i] # "LF" /\ t[i] \notin Opening \cup Shutting
<1>1. \A i \in 1 .. Len(t) : t[i] \in Inner
  OBVIOUS
<1>2. \A i \in 1 .. Len(t) : t[i] # "LF" /\ t[i] \notin Opening \cup Shutting
  BY <1>1, InnerSymbols
<1>3. Len(t) \in Nat
  OBVIOUS
<1>4. Net(t, Len(t)) = 0
  BY <1>2, <1>3, NetOf
<1>5. t \in Seq(Symbols)
  <2>1. Inner \subseteq Symbols
    BY InnerSymbols
  <2> QED
    BY <2>1
<1> QED
  BY <1>2, <1>4, <1>5

\* Two texts one behind the other.
LEMMA NetJoins ==
  ASSUME NEW S, NEW s \in Seq(S), NEW t \in Seq(S)
  PROVE  /\ s \o t \in Seq(S) /\ Net(s \o t, Len(s \o t)) = Net(s, Len(s)) + Net(t, Len(t))
         /\ Net(s, Len(s)) \in Int /\ Net(t, Len(t)) \in Int
<1>1. Len(s) \in 0 .. Len(s) /\ Len(t) \in 0 .. Len(t)
  OBVIOUS
<1>2. s \o t \in Seq(S) /\ Len(s \o t) = Len(s) + Len(t)
  BY JoinedSymbols
<1>3. Net(s \o t, Len(s) + Len(t)) = Net(s, Len(s)) + Net(t, Len(t)) /\ Net(t, Len(t)) \in Int
  BY <1>1, NetAdds
<1>4. Net(s, Len(s)) \in Int
  BY <1>1, NetAdds
<1> QED
  BY <1>2, <1>3, <1>4

-----------------------------------------------------------------------------
(* What tokens are made of                                                 *)

\* An escaped character has no bracket and no line end.
LEMMA EscapedIsInner ==
  ASSUME NEW char \in Chars, char = <<"LF">> \/ char \in Seq(Inner)
  PROVE  EscapedChar(char) \in Seq(Inner)
<1> DEFINE Short == {Quote, Backslash, "n"}
<1>1. SimpleEscapes \ {"/"} = Short
  BY DEF SimpleEscapes, Quote, Backslash
<1>2. /\ Quote \in Inner /\ Backslash \in Inner /\ "n" \in Inner /\ "u" \in Inner /\ "0000" \in Inner
      /\ Short \subseteq Inner
  BY InnerSymbols
<1>3. CASE \E e \in Short : char = <<Unescaped(e)>>
  <2> DEFINE e == CHOOSE x \in Short : char = <<Unescaped(x)>>
  <2>1. e \in Short
    BY <1>3
  <2>2. EscapedChar(char) = <<Backslash, e>>
    BY <1>1, <1>3 DEF EscapedChar
  <2> HIDE DEF e
  <2>3. <<Backslash, e>> \in Seq(Inner)
    BY <1>2, <2>1
  <2> QED
    BY <2>2, <2>3
<1>4. CASE ~(\E e \in Short : char = <<Unescaped(e)>>) /\ char[1] \in Controls
  <2>1. EscapedChar(char) = <<Backslash, "u", "0000">>
    BY <1>1, <1>4 DEF EscapedChar
  <2>2. <<Backslash, "u", "0000">> \in Seq(Inner)
    BY <1>2
  <2> QED
    BY <2>1, <2>2
<1>5. CASE ~(\E e \in Short : char = <<Unescaped(e)>>) /\ char[1] \notin Controls
  <2>1. EscapedChar(char) = char
    BY <1>1, <1>5 DEF EscapedChar
  <2>2. char # <<"LF">>
    BY <1>5 DEF Unescaped, Quote, Backslash
  <2> QED
    BY <2>1, <2>2
<1> QED
  BY <1>3, <1>4, <1>5

\* Nor has an escaped text.
LEMMA EscapedTextIsInner ==
  ASSUME NEW string \in Seq(Chars), \A i \in 1 .. Len(string) : string[i] = <<"LF">> \/ string[i] \in Seq(Inner)
  PROVE  EscapedText(string) \in Seq(Inner)
<1>1. /\ DOMAIN string = 1 .. Len(string) /\ Len(string) \in Nat
      /\ \A i \in 1 .. Len(string) : string[i] \in Chars
  OBVIOUS
<1> DEFINE pieces == [i \in DOMAIN string |-> EscapedChar(string[i])]
           sizes == [i \in DOMAIN string |-> Size(pieces[i])]
<1>2. \A i \in 1 .. Len(string) : EscapedChar(string[i]) \in Seq(Inner)
  BY <1>1, EscapedIsInner
<1>3. pieces \in Seq(Seq(Inner)) /\ Len(pieces) = Len(string) /\ \A i \in 1 .. Len(string) : pieces[i] \in Seq(Inner)
  BY <1>1, <1>2
<1>4. EscapedText(string) = FlattenSeq(pieces)
  BY DEF EscapedText
<1> HIDE DEF pieces
<1>5. \A i \in 1 .. Len(string) : Size(pieces[i]) \in Nat
  BY <1>3, SizeIsNat
<1>6. sizes \in Seq(Nat) /\ Len(sizes) = Len(pieces) /\ \A i \in 1 .. Len(pieces) : sizes[i] = Size(pieces[i])
  BY <1>1, <1>3, <1>5
<1> HIDE DEF sizes
<1>7. FlattenSeq(pieces) \in Seq(Inner)
  BY <1>3, <1>6, SizeOfJoined
<1> QED
  BY <1>4, <1>7

\* Nor has a quoted one, and it begins with its quote.
LEMMA QuotedIsToken ==
  ASSUME NEW string \in Seq(Chars), EscapedText(string) \in Seq(Inner)
  PROVE  Quoted(string) \in Seq(Inner) /\ Len(Quoted(string)) > 0 /\ Quoted(string)[1] = Quote
<1> DEFINE quote == <<Quote>>
           body == EscapedText(string)
<1>1. quote \in Seq(Inner) /\ Len(quote) = 1 /\ quote[1] = Quote
  <2>1. Quote \in Inner
    BY InnerSymbols
  <2> QED
    BY <2>1
<1>2. Quoted(string) = (quote \o body) \o quote
  BY DEF Quoted
<1> HIDE DEF quote, body
<1>3. body \in Seq(Inner)
  BY DEF body
<1>4. /\ quote \o body \in Seq(Inner) /\ Len(quote \o body) = 1 + Len(body) /\ Len(body) \in Nat
      /\ (quote \o body)[1] = Quote
  <2>1. 1 \in 1 .. Len(quote)
    BY <1>1
  <2>2. /\ quote \o body \in Seq(Inner) /\ Len(quote \o body) = Len(quote) + Len(body) /\ Len(body) \in Nat
        /\ \A i \in 1 .. Len(quote) : (quote \o body)[i] = quote[i]
    BY <1>1, <1>3, JoinedSymbols
  <2> QED
    BY <1>1, <2>1, <2>2
<1> DEFINE half == quote \o body
<1>5. half \in Seq(Inner) /\ Len(half) > 0 /\ half[1] = Quote
  BY <1>4
<1> HIDE DEF half
<1>6. /\ half \o quote \in Seq(Inner) /\ Len(half \o quote) = Len(half) + Len(quote) /\ Len(half) \in Nat
      /\ \A i \in 1 .. Len(half) : (half \o quote)[i] = half[i]
  BY <1>1, <1>5, JoinedSymbols
<1>7. 1 \in 1 .. Len(half)
  BY <1>5, <1>6
<1> QED
  BY <1>1, <1>2, <1>5, <1>6, <1>7 DEF half

\* What the calls are given.
LEMMA ArgumentIsInner ==
  ASSUME RingInv, Unbracketed
  PROVE  /\ want.op \in {"key", "string", "content"}
              => want.arg \in Seq(Chars)
                 /\ \A i \in 1 .. Len(want.arg) : want.arg[i] = <<"LF">> \/ want.arg[i] \in Seq(Inner)
         /\ want.op = "number" /\ want.arg # NotFinite => want.arg \in Seq(Inner) /\ IsToken(want.arg)
         /\ want.op = "literal"
              => LET token == want.arg \o Literals[want.arg[1]]
                 IN  token \in Seq(Inner) /\ IsToken(token)
<1>1. want # NoCall => want.arg \in Arguments[want.op]
  BY DEF RingInv
<1>2. ASSUME want.op \in {"key", "string", "content"}
      PROVE  want.arg \in Seq(Chars)
             /\ \A i \in 1 .. Len(want.arg) : want.arg[i] = <<"LF">> \/ want.arg[i] \in Seq(Inner)
  <2>1. want.arg \in Strings
    BY <1>1, <1>2 DEF Arguments, NoCall
  <2>2. want.arg \in Seq(Chars)
    BY <1>2, ArgumentIsText
  <2>3. DOMAIN want.arg = 1 .. Len(want.arg)
    BY <2>2
  <2> QED
    BY <2>1, <2>2, <2>3 DEF Unbracketed
<1>3. ASSUME want.op = "number", want.arg # NotFinite  PROVE want.arg \in Seq(Inner) /\ IsToken(want.arg)
  <2>1. want.arg \in NumberTexts
    BY <1>1, <1>3 DEF Arguments, NoCall
  <2>2. want.arg \in Seq(Inner \ {"SP"}) /\ want.arg # <<>>
    BY <2>1 DEF Unbracketed
  <2> DEFINE w == want.arg
  <2>3. w \in Seq(Inner \ {"SP"}) /\ w # <<>>
    BY <2>2
  <2> HIDE DEF w
  <2>4. w \in Seq(Inner) /\ Len(w) > 0 /\ Len(w) \in Nat /\ w[1] \in Inner \ {"SP"}
    BY <2>3
  <2>5. \A i \in 1 .. Len(w) : w[i] # "LF"
    BY <2>4, InnerText
  <2> QED
    BY <2>4, <2>5 DEF IsToken, w
<1>4. ASSUME want.op = "literal"
      PROVE  LET token == want.arg \o Literals[want.arg[1]]
             IN  token \in Seq(Inner) /\ IsToken(token)
  <2>1. PICK b \in DOMAIN Literals : want.arg = <<b>>
    BY <1>1, <1>4 DEF Arguments, NoCall
  <2>2. b \in Inner \ {"SP"} /\ Literals[b] \in Seq(Inner)
    BY <2>1 DEF Unbracketed
  <2> DEFINE first == <<b>>
             rest == Literals[b]
             w == first \o rest
  <2>3. first \in Seq(Inner) /\ Len(first) = 1 /\ first[1] = b /\ rest \in Seq(Inner)
    BY <2>2
  <2>4. want.arg \o Literals[want.arg[1]] = w
    BY <2>1
  <2> HIDE DEF first, rest
  <2>5. /\ w \in Seq(Inner) /\ Len(w) = Len(first) + Len(rest) /\ Len(rest) \in Nat
        /\ \A i \in 1 .. Len(first) : w[i] = first[i]
    BY <2>3, JoinedSymbols
  <2>6. Len(w) > 0 /\ w[1] # "SP"
    <3>1. 1 \in 1 .. Len(first)
      BY <2>3
    <3> QED
      BY <2>2, <2>3, <2>5, <3>1
  <2>7. \A i \in 1 .. Len(w) : w[i] # "LF"
    BY <2>5, InnerText
  <2> HIDE DEF w
  <2> QED
    BY <2>4, <2>5, <2>6, <2>7 DEF IsToken
<1> QED
  BY <1>2, <1>3, <1>4

-----------------------------------------------------------------------------
(* The layout                                                              *)

\* The depth is that of the brackets in the text, and so are its lines.
Laid == Net(text, Len(text)) = writer.depth /\ Lines(text, writer.indent)

\* A new line and a token behind it, which opens and closes only itself.
LEMMA BehindNewline ==
  ASSUME PlaceInv, NEW s \in Seq(Symbols), NEW t \in Seq(Symbols), NEW depth \in Nat,
         IsToken(t), Lines(s, writer.indent),
         Net(s, Len(s)) = IF t[1] \in Shutting THEN depth + 1 ELSE depth
  PROVE  LET w == s \o (Newline(depth) \o t)
         IN  Lines(w, writer.indent) /\ Net(w, Len(w)) = Net(s, Len(s)) + Net(t, Len(t))
<1>1. writer.indent \in Nat /\ \A i \in 1 .. Len(t) : t[i] # "LF"
  BY WriterAssumption DEF PlaceInv, IsToken
<1>2. CASE writer.indent = 0
  <2>1. Newline(depth) \o t = t
    <3>1. Newline(depth) = <<>>
      BY <1>2 DEF Newline
    <3>2. <<>> \o t = t
      BY ConcatEmptySeq
    <3> QED
      BY <3>1, <3>2
  <2>2. Lines(s \o t, writer.indent) /\ Net(s \o t, Len(s \o t)) = Net(s, Len(s)) + Net(t, Len(t))
    BY <1>1, LinesStay, NetJoins, Zenon
  <2> QED
    BY <2>1, <2>2
<1>3. CASE writer.indent # 0
  <2> DEFINE indent == writer.indent
             k == indent * depth
             spaces == [i \in 1 .. k |-> "SP"]
             lf == <<"LF">>
             nl == lf \o spaces
  <2>1. indent \in Nat /\ indent > 0
    BY <1>1, <1>3
  <2> HIDE DEF indent
  <2>2. k \in Nat
    BY <2>1
  <2>3. Newline(depth) = nl
    BY <1>3 DEF Newline, indent
  <2> HIDE DEF k
  <2>4. "LF" \in Symbols /\ "SP" \in Symbols
    BY InnerSymbols
  <2>5. spaces \in Seq(Symbols) /\ Len(spaces) = k /\ \A i \in 1 .. k : spaces[i] = "SP"
    <3>1. spaces \in Seq(Symbols) /\ Len(spaces) = k
      BY <2>2, <2>4, SimpleTexts
    <3> QED
      BY <3>1
  <2>6. lf \in Seq(Symbols) /\ Len(lf) = 1 /\ lf[1] = "LF"
    BY <2>4
  <2> HIDE DEF spaces, lf
  <2>7. /\ nl \in Seq(Symbols) /\ Len(nl) = Len(lf) + Len(spaces)
        /\ \A i \in 1 .. Len(lf) : nl[i] = lf[i]
        /\ \A i \in 1 .. Len(spaces) : nl[i + Len(lf)] = spaces[i]
    <3>1. lf \in Seq(Symbols) /\ spaces \in Seq(Symbols)
      BY <2>5, <2>6
    <3> QED
      BY <3>1, JoinedSymbols
  <2> HIDE DEF nl
  <2>8. Len(nl) = 1 + k /\ nl[1] = "LF"
    BY <2>5, <2>6, <2>7
  <2>9. \A i \in 2 .. Len(nl) : nl[i] = "SP"
    <3>1. ASSUME NEW i \in 2 .. Len(nl)  PROVE nl[i] = "SP"
      <4>1. i - 1 \in 1 .. k /\ (i - 1) + 1 = i
        BY <2>2, <2>8
      <4> QED
        BY <2>5, <2>6, <2>7, <4>1
    <3> QED
      BY <3>1
  <2>10. IsBreak(nl, k)
    BY <2>8, <2>9 DEF IsBreak
  <2>11. indent * depth = k
    BY DEF k
  <2>12. Lines(s \o (nl \o t), indent)
    <3>1. Lines(s, indent)
      BY DEF indent
    <3> QED
      BY <2>1, <2>2, <2>7, <2>10, <2>11, <3>1, LinesGrow
  <2>13. Net(nl, Len(nl)) = 0
    <3>1. \A i \in 1 .. Len(nl) : nl[i] \in {"SP", "LF"}
      <4>1. ASSUME NEW i \in 1 .. Len(nl)  PROVE nl[i] \in {"SP", "LF"}
        <5>1. i = 1 \/ i \in 2 .. Len(nl)
          BY <2>2, <2>8
        <5> QED
          BY <2>8, <2>9, <5>1
      <4> QED
        BY <4>1
    <3>2. \A i \in 1 .. Len(nl) : nl[i] \notin Opening \cup Shutting
      BY <3>1, InnerSymbols
    <3>3. Len(nl) \in Nat
      BY <2>7
    <3> QED
      BY <3>2, <3>3, NetOf
  <2> DEFINE u == nl \o t
             w == s \o u
  <2>14. u \in Seq(Symbols) /\ Net(u, Len(u)) = Net(nl, Len(nl)) + Net(t, Len(t)) /\ Net(t, Len(t)) \in Int
    BY <2>7, NetJoins
  <2> HIDE DEF u
  <2>15. Net(w, Len(w)) = Net(s, Len(s)) + Net(u, Len(u))
    BY <2>14, NetJoins
  <2>16. Net(w, Len(w)) = Net(s, Len(s)) + Net(t, Len(t))
    BY <2>13, <2>14, <2>15
  <2> QED
    BY <2>3, <2>12, <2>16 DEF u, indent
<1> QED
  BY <1>2, <1>3

\* A token behind its prefix.
LEMMA BehindPrefix ==
  ASSUME RingInv, Laid, NEW token \in Seq(Symbols), IsToken(token), token[1] \notin Shutting
  PROVE  LET w == text \o (Prefix \o token)
         IN  Lines(w, writer.indent) /\ Net(w, Len(w)) = writer.depth + Net(token, Len(token))
<1> DEFINE Right(w) == Lines(w, writer.indent) /\ Net(w, Len(w)) = writer.depth + Net(token, Len(token))
<1>1. text \in Seq(Symbols) /\ PlaceInv /\ writer.depth \in Nat /\ writer.state \in WriterStates
  BY PlaceFacts DEF RingInv
<1>2. Lines(text, writer.indent) /\ Net(text, Len(text)) = writer.depth
  BY DEF Laid
<1>3. \A i \in 1 .. Len(token) : token[i] # "LF"
  BY DEF IsToken
<1>4. Right(text \o (<<>> \o token))
  <2>1. <<>> \o token = token
    BY ConcatEmptySeq
  <2>2. Lines(text \o token, writer.indent)
        /\ Net(text \o token, Len(text \o token)) = Net(text, Len(text)) + Net(token, Len(token))
    BY <1>1, <1>2, <1>3, LinesStay, NetJoins, Zenon
  <2> QED
    BY <1>2, <2>1, <2>2
<1>5. Right(text \o (Newline(writer.depth) \o token))
  <2>1. Net(text, Len(text)) = IF token[1] \in Shutting THEN writer.depth + 1 ELSE writer.depth
    BY <1>2
  <2> QED
    BY <1>1, <1>2, <2>1, BehindNewline
<1>6. Right(text \o (<<"SP">> \o token))
  <2> DEFINE sp == <<"SP">>
             u == sp \o token
             v == text \o sp
  <2>1. sp \in Seq(Inner)
    <3>1. "SP" \in Inner
      BY InnerSymbols
    <3> QED
      BY <3>1
  <2> HIDE DEF sp
  <2>2. sp \in Seq(Symbols) /\ Net(sp, Len(sp)) = 0 /\ \A i \in 1 .. Len(sp) : sp[i] # "LF"
    BY <2>1, InnerText
  <2>3. v \in Seq(Symbols) /\ Lines(v, writer.indent) /\ Net(v, Len(v)) = writer.depth
    <3>1. v \in Seq(Symbols) /\ Net(v, Len(v)) = Net(text, Len(text)) + Net(sp, Len(sp)) /\ Net(text, Len(text)) \in Int
      BY <1>1, <2>2, NetJoins
    <3>2. Lines(v, writer.indent)
      BY <1>1, <1>2, <2>2, LinesStay
    <3> QED
      BY <1>2, <2>2, <3>1, <3>2
  <2>4. v \o token = text \o u
    <3>1. text \in Seq(Symbols) /\ sp \in Seq(Symbols)
      BY <1>1, <2>2
    <3> HIDE DEF Right
    <3> QED
      BY <3>1, ConcatAssociative
  <2> HIDE DEF v, u
  <2>5. Lines(v \o token, writer.indent) /\ Net(v \o token, Len(v \o token)) = Net(v, Len(v)) + Net(token, Len(token))
    BY <1>3, <2>3, LinesStay, NetJoins, Zenon
  <2>6. Right(text \o u)
    BY <2>3, <2>4, <2>5
  <2> QED
    BY <2>6 DEF u, sp
<1>7. Right(text \o ((<<",">> \o Newline(writer.depth)) \o token))
  <2> DEFINE comma == <<",">>
             nl == Newline(writer.depth)
             v == text \o comma
             u == nl \o token
  <2>1. comma \in Seq(Inner)
    <3>1. "," \in Inner
      BY InnerSymbols
    <3> QED
      BY <3>1, SimpleTexts
  <2> HIDE DEF comma
  <2>2. comma \in Seq(Symbols) /\ Net(comma, Len(comma)) = 0 /\ \A i \in 1 .. Len(comma) : comma[i] # "LF"
    BY <2>1, InnerText
  <2>3. v \in Seq(Symbols) /\ Lines(v, writer.indent) /\ Net(v, Len(v)) = writer.depth
    <3>1. v \in Seq(Symbols) /\ Net(v, Len(v)) = Net(text, Len(text)) + Net(comma, Len(comma)) /\ Net(text, Len(text)) \in Int
      BY <1>1, <2>2, NetJoins
    <3>2. Lines(v, writer.indent)
      BY <1>1, <1>2, <2>2, LinesStay
    <3> QED
      BY <1>2, <2>2, <3>1, <3>2
  <2>4. nl \in Seq(Symbols)
    BY <1>1, SizeOfPrefix
  <2>5. Net(v, Len(v)) = IF token[1] \in Shutting THEN writer.depth + 1 ELSE writer.depth
    BY <2>3
  <2> HIDE DEF v
  <2>6. Right(v \o u)
    BY <1>1, <2>3, <2>5, BehindNewline
  <2> HIDE DEF nl
  <2>7. u \in Seq(Symbols) /\ (comma \o nl) \o token = comma \o u
    BY <2>2, <2>4, JoinedSymbols, ConcatAssociative
  <2> HIDE DEF u
  <2>8. v \o u = text \o (comma \o u)
    BY <1>1, <2>2, <2>7, ConcatAssociative DEF v
  <2> QED
    BY <2>6, <2>7, <2>8 DEF comma, nl
<1> HIDE DEF Right
<1>8. CASE writer.state = "Init0"
  <2>1. Prefix = <<>>
    BY <1>8 DEF Prefix
  <2> QED
    BY <1>4, <2>1 DEF Right
<1>9. CASE writer.state = "Init"
  <2>1. Prefix = Newline(writer.depth)
    BY <1>9 DEF Prefix
  <2> QED
    BY <1>5, <2>1 DEF Right
<1>10. CASE writer.state = "AfterKey"
  <2>1. Prefix = <<>> \/ Prefix = <<"SP">>
    BY <1>10 DEF Prefix
  <2> QED
    BY <1>4, <1>6, <2>1 DEF Right
<1>11. CASE writer.state = "AfterValue"
  <2>1. Prefix = <<",">> \o Newline(writer.depth)
    BY <1>11 DEF Prefix
  <2> QED
    BY <1>7, <2>1 DEF Right
<1> QED
  BY <1>1, <1>8, <1>9, <1>10, <1>11 DEF WriterStates

\* A call that was refused, or had nothing to write.
LEMMA LaidStays ==
  ASSUME Laid, UNCHANGED <<writer, text>>  PROVE Laid'
<1>1. writer' = writer /\ text' = text
  OBVIOUS
<1> QED
  BY <1>1 DEF Laid

\* A refusal changes neither.
LEMMA RejectedLays ==
  ASSUME Laid, NEW need, Refused(Refusal(need)) \/ Rejected(need)  PROVE Laid'
<1>1. UNCHANGED <<writer, text>>
  BY DEF Refused, Rejected
<1> QED
  BY <1>1, LaidStays

\* A call that wrote.
LEMMA PutLays ==
  ASSUME RingInv, NEW bytes, NEW state, NEW depth, Put(bytes, state, depth),
         Lines(text \o bytes, writer.indent), Net(text \o bytes, Len(text \o bytes)) = depth
  PROVE  Laid'
<1>1. writer \in [indent : Indents, state : WriterStates, depth : Nat]
  BY DEF RingInv, PlaceInv
<1>2. text' = text \o bytes /\ writer' = [writer EXCEPT !.state = state, !.depth = depth]
  BY DEF Put
<1>3. writer'.depth = depth /\ writer'.indent = writer.indent
  BY <1>1, <1>2
<1> QED
  BY <1>2, <1>3 DEF Laid

\* A token behind its prefix, all of it or nothing.
LEMMA TokenLays ==
  ASSUME RingInv, Laid, NEW token \in Seq(Symbols), IsToken(token), token[1] \notin Shutting,
         NEW need, NEW state, NEW depth, depth = writer.depth + Net(token, Len(token)),
         Accepted(token, need, state, depth) \/ Rejected(need)
  PROVE  Laid'
<1>1. CASE Accepted(token, need, state, depth)
  <2> DEFINE bytes == Prefix \o token
  <2>1. Lines(text \o bytes, writer.indent) /\ Net(text \o bytes, Len(text \o bytes)) = depth
    BY BehindPrefix
  <2>2. Put(bytes, state, depth)
    BY <1>1 DEF Accepted
  <2> HIDE DEF bytes
  <2> QED
    BY <2>1, <2>2, PutLays
<1>2. CASE Rejected(need)
  BY <1>2, RejectedLays
<1> QED
  BY <1>1, <1>2

\* A token that is not a bracket.
LEMMA ValueLays ==
  ASSUME RingInv, Laid, NEW token \in Seq(Inner), IsToken(token), NEW need, NEW state,
         Accepted(token, need, state, writer.depth) \/ Rejected(need)
  PROVE  Laid'
<1>1. token \in Seq(Symbols) /\ Net(token, Len(token)) = 0 /\ token[1] \notin Shutting
  <2>1. 1 \in 1 .. Len(token)
    BY DEF IsToken
  <2> QED
    BY <2>1, InnerText
<1>2. writer.depth \in Nat
  BY PlaceFacts DEF RingInv
<1>3. writer.depth = writer.depth + Net(token, Len(token))
  BY <1>1, <1>2
<1> QED
  BY <1>1, <1>3, TokenLays

\* Text within a string.
LEMMA InnerLays ==
  ASSUME RingInv, Laid, NEW bytes \in Seq(Inner), NEW state, Put(bytes, state, writer.depth)
  PROVE  Laid'
<1>1. bytes \in Seq(Symbols) /\ Net(bytes, Len(bytes)) = 0 /\ \A i \in 1 .. Len(bytes) : bytes[i] # "LF"
  BY InnerText
<1>2. text \in Seq(Symbols) /\ Lines(text, writer.indent) /\ Net(text, Len(text)) = writer.depth
  BY DEF RingInv, Laid
<1>3. Lines(text \o bytes, writer.indent)
  BY <1>1, <1>2, LinesStay
<1>4. Net(text \o bytes, Len(text \o bytes)) = Net(text, Len(text)) + Net(bytes, Len(bytes))
      /\ Net(text, Len(text)) \in Int
  BY <1>1, <1>2, NetJoins
<1>5. Net(text \o bytes, Len(text \o bytes)) = writer.depth
  BY <1>1, <1>2, <1>4
<1> QED
  BY <1>3, <1>5, PutLays

\* A bracket is a token, and counts as one.
LEMMA BracketIsToken ==
  ASSUME NEW x \in Opening \cup Shutting
  PROVE  /\ <<x>> \in Seq(Symbols) /\ IsToken(<<x>>) /\ <<x>>[1] = x
         /\ Net(<<x>>, Len(<<x>>)) = IF x \in Opening THEN 1 ELSE -1
<1> DEFINE t == <<x>>
<1>1. x \in Symbols /\ x # "SP" /\ x # "LF" /\ (x \in Opening => x \notin Shutting)
  BY InnerSymbols
<1>2. t \in Seq(Symbols) /\ Len(t) = 1 /\ t[1] = x /\ \A i \in 1 .. 1 : i = 1
  BY <1>1
<1> HIDE DEF t
<1>3. IsToken(t)
  BY <1>1, <1>2 DEF IsToken
<1>4. Net(t, 1) = IF x \in Opening THEN 1 ELSE -1
  BY <1>2, NetOf
<1> QED
  BY <1>2, <1>3, <1>4 DEF t

\* What begins with a quote is a token.
LEMMA QuoteIsToken ==
  ASSUME NEW t \in Seq(Inner), Len(t) > 0, t[1] = Quote  PROVE IsToken(t)
<1>1. \A i \in 1 .. Len(t) : t[i] # "LF"
  BY InnerText
<1>2. Quote # "SP"
  BY InnerSymbols
<1> QED
  BY <1>1, <1>2 DEF IsToken

\* Every attempt keeps the layout.
LEMMA AttemptLays == ASSUME RingInv, Laid, Unbracketed, Attempt  PROVE Laid'
<1>1. CASE WriteKey
  <2> DEFINE quoted == Quoted(want.arg)
             colon == <<":">>
             need == 2 + EscapedLen(want.arg) + 1
             token == quoted \o colon
  <2>1. want.arg \in Seq(Chars)
        /\ \A i \in 1 .. Len(want.arg) : want.arg[i] = <<"LF">> \/ want.arg[i] \in Seq(Inner)
    BY <1>1, ArgumentIsInner DEF WriteKey
  <2>2. quoted \in Seq(Inner) /\ Len(quoted) > 0 /\ quoted[1] = Quote
    BY <2>1, EscapedTextIsInner, QuotedIsToken
  <2>3. Accepted(token, need, "AfterKey", writer.depth) \/ Rejected(need)
    BY <1>1 DEF WriteKey
  <2>4. colon \in Seq(Inner)
    <3>1. ":" \in Inner
      BY InnerSymbols
    <3> QED
      BY <3>1, SimpleTexts
  <2> HIDE DEF quoted, colon, need
  <2>5. /\ token \in Seq(Inner) /\ Len(token) = Len(quoted) + Len(colon) /\ Len(quoted) \in Nat /\ Len(colon) \in Nat
        /\ \A i \in 1 .. Len(quoted) : token[i] = quoted[i]
    BY <2>2, <2>4, JoinedSymbols
  <2>6. Len(token) > 0 /\ token[1] = Quote
    <3>1. 1 \in 1 .. Len(quoted)
      BY <2>2, <2>5
    <3> QED
      BY <2>2, <2>5, <3>1
  <2> HIDE DEF token
  <2>7. IsToken(token)
    BY <2>5, <2>6, QuoteIsToken
  <2> QED
    BY <2>3, <2>5, <2>7, ValueLays
<1>2. CASE WriteString
  <2> DEFINE token == Quoted(want.arg)
             need == 2 + EscapedLen(want.arg)
  <2>1. want.arg \in Seq(Chars)
        /\ \A i \in 1 .. Len(want.arg) : want.arg[i] = <<"LF">> \/ want.arg[i] \in Seq(Inner)
    BY <1>2, ArgumentIsInner DEF WriteString
  <2>2. token \in Seq(Inner) /\ Len(token) > 0 /\ token[1] = Quote
    BY <2>1, EscapedTextIsInner, QuotedIsToken
  <2>3. Accepted(token, need, "AfterValue", writer.depth) \/ Rejected(need)
    BY <1>2 DEF WriteString
  <2> HIDE DEF token, need
  <2>4. IsToken(token)
    BY <2>2, QuoteIsToken
  <2> QED
    BY <2>2, <2>3, <2>4, ValueLays
<1>3. CASE WriteNumber
  <2> DEFINE token == want.arg
             need == Len(want.arg)
  <2>1. CASE want.arg = NotFinite
    <3>1. UNCHANGED <<writer, text>>
      BY <1>3, <2>1 DEF WriteNumber, Refused
    <3> QED
      BY <3>1, LaidStays
  <2>2. CASE want.arg # NotFinite
    <3>1. token \in Seq(Inner) /\ IsToken(token)
      BY <1>3, <2>2, ArgumentIsInner DEF WriteNumber
    <3>2. Accepted(token, need, "AfterValue", writer.depth) \/ Rejected(need)
      BY <1>3, <2>2 DEF WriteNumber
    <3> HIDE DEF token, need
    <3> QED
      BY <3>1, <3>2, ValueLays
  <2> QED
    BY <2>1, <2>2
<1>4. CASE WriteLiteral
  <2> DEFINE token == want.arg \o Literals[want.arg[1]]
             need == Len(token)
  <2>1. token \in Seq(Inner) /\ IsToken(token)
    BY <1>4, ArgumentIsInner DEF WriteLiteral
  <2>2. Accepted(token, need, "AfterValue", writer.depth) \/ Rejected(need)
    BY <1>4 DEF WriteLiteral
  <2> HIDE DEF token, need
  <2> QED
    BY <2>1, <2>2, ValueLays
<1>5. CASE WriteOpen
  <2> DEFINE bracket == IF want.op = "start_object" THEN "{" ELSE "["
             token == <<bracket>>
  <2>1. Accepted(token, 1, "Init", writer.depth + 1) \/ Rejected(1)
    BY <1>5 DEF WriteOpen
  <2>2. bracket \in Opening /\ bracket \in Opening \cup Shutting /\ bracket \notin Shutting
    BY DEF Opening, Shutting
  <2> HIDE DEF bracket
  <2>3. token \in Seq(Symbols) /\ IsToken(token) /\ token[1] = bracket /\ Net(token, Len(token)) = 1
    BY <2>2, BracketIsToken
  <2> HIDE DEF token
  <2>4. token[1] \notin Shutting /\ writer.depth + 1 = writer.depth + Net(token, Len(token))
    BY <2>2, <2>3
  <2> QED
    BY <2>1, <2>3, <2>4, TokenLays
<1>6. CASE WriteStartString
  <2> DEFINE token == <<Quote>>
  <2>1. token \in Seq(Inner) /\ Len(token) = 1 /\ token[1] = Quote
    <3>1. Quote \in Inner
      BY InnerSymbols
    <3> QED
      BY <3>1, SimpleTexts
  <2>2. Accepted(token, 1, writer.state, writer.depth) \/ Rejected(1)
    BY <1>6 DEF WriteStartString
  <2> HIDE DEF token
  <2>3. IsToken(token)
    BY <2>1, QuoteIsToken
  <2> QED
    BY <2>1, <2>2, <2>3, ValueLays
<1>7. CASE WriteEndString
  <2> DEFINE token == <<Quote>>
  <2>1. token \in Seq(Inner)
    <3>1. Quote \in Inner
      BY InnerSymbols
    <3> QED
      BY <3>1, SimpleTexts
  <2>2. Put(token, "AfterValue", writer.depth) \/ Refused(Refusal(1))
    BY <1>7 DEF WriteEndString
  <2> HIDE DEF token
  <2> QED
    BY <2>1, <2>2, InnerLays, RejectedLays
<1>8. CASE WriteClose
  <2> DEFINE nl == Newline(OuterDepth)
             bracket == IF want.op = "end_object" THEN "}" ELSE "]"
             token == <<bracket>>
             need == NewlineLen(OuterDepth) + 1
  <2>1. \/ Put(nl \o token, "AfterValue", OuterDepth) /\ Caller!Closes
        \/ Refused(Refusal(need))
    BY <1>8 DEF WriteClose
  <2>2. bracket \in Shutting /\ bracket \in Opening \cup Shutting /\ bracket \notin Opening
    BY DEF Opening, Shutting
  <2> HIDE DEF bracket
  <2>3. token \in Seq(Symbols) /\ IsToken(token) /\ token[1] \in Shutting /\ Net(token, Len(token)) = -1
    BY <2>2, BracketIsToken
  <2> HIDE DEF token, need
  <2>4. ASSUME Put(nl \o token, "AfterValue", OuterDepth), Caller!Closes  PROVE Laid'
    <3>1. writer.depth \in Nat /\ writer.depth > 0
      <4>1. writer.depth = Len(open) /\ Len(open) \in Nat /\ open # <<>> /\ open \in Seq({"StartObject", "StartArray"})
        BY <2>4, PlaceFacts DEF RingInv, PlaceInv, Caller!Closes, Caller!KeyMayCome, Caller!ArrayMayEnd, Caller!In
      <4> QED
        BY <4>1
    <3>2. OuterDepth \in Nat /\ writer.depth = OuterDepth + 1
      BY <3>1 DEF OuterDepth
    <3>3. text \in Seq(Symbols) /\ Lines(text, writer.indent) /\ Net(text, Len(text)) = writer.depth /\ PlaceInv
      BY DEF RingInv, Laid
    <3>4. Net(text, Len(text)) = IF token[1] \in Shutting THEN OuterDepth + 1 ELSE OuterDepth
      BY <2>3, <3>2, <3>3
    <3> DEFINE w == text \o (nl \o token)
    <3>5. Lines(w, writer.indent) /\ Net(w, Len(w)) = Net(text, Len(text)) + Net(token, Len(token))
      BY <2>3, <3>2, <3>3, <3>4, BehindNewline
    <3>6. Net(w, Len(w)) = OuterDepth
      BY <2>3, <3>2, <3>3, <3>5
    <3> DEFINE bytes == nl \o token
    <3>7. Lines(text \o bytes, writer.indent) /\ Net(text \o bytes, Len(text \o bytes)) = OuterDepth
      BY <3>5, <3>6
    <3>8. Put(bytes, "AfterValue", OuterDepth)
      BY <2>4
    <3> HIDE DEF bytes
    <3> QED
      BY <3>7, <3>8, PutLays
  <2> QED
    BY <2>1, <2>4, RejectedLays
<1>9. CASE WriteStringContent
  <2> DEFINE string == want.arg
             n == Taken(string)
             taken == SubSeq(string, 1, n)
  <2>1. string \in Seq(Chars) /\ used \in 0 .. RingCapacity
        /\ \A i \in 1 .. Len(string) : string[i] = <<"LF">> \/ string[i] \in Seq(Inner)
    <3>1. want.op \in {"key", "string", "content"}
      BY <1>9 DEF WriteStringContent
    <3> QED
      BY <3>1, ArgumentIsInner DEF RingInv
  <2>2. \/ UNCHANGED <<writer, text>>
        \/ Put(EscapedText(taken), writer.state, writer.depth)
        \/ Refused(Refusal(6))
    BY <1>9 DEF WriteStringContent
  <2> HIDE DEF string
  <2>3. n \in 0 .. Len(string)
    BY <2>1, TakenFits
  <2> HIDE DEF n
  <2>4. taken \in Seq(Chars) /\ Len(taken) = n
    BY <2>1, <2>3, FirstSizes
  <2>5. \A i \in 1 .. Len(taken) : taken[i] = <<"LF">> \/ taken[i] \in Seq(Inner)
    <3>1. \A i \in 1 .. n : taken[i] = string[i] /\ i \in 1 .. Len(string)
      BY <2>1, <2>3
    <3> QED
      BY <2>1, <2>4, <3>1
  <2> HIDE DEF taken
  <2>6. EscapedText(taken) \in Seq(Inner)
    BY <2>4, <2>5, EscapedTextIsInner
  <2> QED
    BY <2>2, <2>6, InnerLays, LaidStays, RejectedLays
<1> QED
  BY <1>1, <1>2, <1>3, <1>4, <1>5, <1>6, <1>7, <1>8, <1>9 DEF Attempt

\* With nothing written yet the layout is right.
LEMMA NothingLaid ==
  ASSUME NEW indent
  PROVE  Net(<<>>, Len(<<>>)) = 0 /\ Lines(<<>>, indent)
<1> DEFINE empty == <<>>
<1>1. Len(empty) = 0
  OBVIOUS
<1> HIDE DEF empty
<1>2. \A i \in 1 .. Len(empty) : FALSE
  BY <1>1
<1>3. Lines(empty, indent)
  BY <1>2 DEF Lines
<1>4. 0 \in Nat /\ \A i \in 1 .. 0 : empty[i] \notin Opening \cup Shutting
  OBVIOUS
<1>5. Net(empty, 0) = 0
  BY <1>4, NetOf
<1> QED
  BY <1>1, <1>3, <1>5 DEF empty

\* So does every step.
LEMMA NextLays == ASSUME RingInv, Laid, Unbracketed, [Next]_wvars  PROVE Laid'
<1>1. CASE Attempt
  BY <1>1, AttemptLays
<1>2. CASE Decide \/ GiveUp \/ Drain \/ UNCHANGED wvars
  <2>1. UNCHANGED <<writer, text>>
    BY <1>2 DEF Decide, GiveUp, Drain, wvars
  <2> QED
    BY <2>1, LaidStays
<1>3. CASE Reset
  <2>1. text' = <<>> /\ writer'.depth = 0
    BY <1>3 DEF Reset, NewWriter
  <2> QED
    BY <2>1, NothingLaid DEF Laid
<1> QED
  BY <1>1, <1>2, <1>3 DEF Next

\* What begins the line is the first symbol that is no space.
LEMMA LaidFollows ==
  ASSUME text \in Seq(Symbols), Laid  PROVE IndentFollowsNesting
<1>1. DOMAIN text = 1 .. Len(text) /\ Len(text) \in Nat
  OBVIOUS
<1>2. ASSUME NEW i \in 1 .. Len(text), text[i] = "LF"
      PROVE  LET next == CHOOSE j \in i + 1 .. Len(text) :
                           text[j] # "SP" /\ \A k \in i + 1 .. j - 1 : text[k] = "SP"
                 depth == Brackets(next, {"{", "["}) - Brackets(next, {"}", "]"})
                 inside == IF text[next] \in {"{", "["} THEN depth - 1 ELSE depth
             IN  writer.indent > 0 /\ next - i - 1 = writer.indent * inside
  <2> DEFINE Begins(j) == text[j] # "SP" /\ \A k \in i + 1 .. j - 1 : text[k] = "SP"
             next == CHOOSE j \in i + 1 .. Len(text) : Begins(j)
  <2>1. writer.indent > 0 /\ \E j \in i + 1 .. Len(text) : StandsAt(text, i, j, writer.indent)
    BY <1>2 DEF Laid, Lines
  <2>2. PICK j \in i + 1 .. Len(text) : StandsAt(text, i, j, writer.indent)
    BY <2>1
  <2>3. Begins(j)
    BY <2>2 DEF StandsAt
  <2>4. next \in i + 1 .. Len(text) /\ Begins(next)
    BY <2>2, <2>3
  <2> HIDE DEF next
  <2>5. next = j
    <3>1. i \in Int /\ next \in Int /\ j \in Int /\ i + 1 <= next /\ i + 1 <= j
      BY <1>1, <2>2, <2>4
    <3>2. ~(next < j)
      <4>1. ASSUME next < j  PROVE FALSE
        <5>1. next \in i + 1 .. j - 1
          BY <3>1, <4>1
        <5> QED
          BY <2>3, <2>4, <5>1
      <4> QED
        BY <4>1
    <3>3. ~(j < next)
      <4>1. ASSUME j < next  PROVE FALSE
        <5>1. j \in i + 1 .. next - 1
          BY <3>1, <4>1
        <5> QED
          BY <2>3, <2>4, <5>1
      <4> QED
        BY <4>1
    <3> QED
      BY <3>1, <3>2, <3>3
  <2>6. next - i - 1 = writer.indent * Inside(text, next)
    BY <2>2, <2>5 DEF StandsAt
  <2> DEFINE depth == Brackets(next, {"{", "["}) - Brackets(next, {"}", "]"})
             inside == IF text[next] \in {"{", "["} THEN depth - 1 ELSE depth
  <2>7. inside = Inside(text, next)
    BY DEF Inside, Net, CountTo, Brackets, Opening, Shutting
  <2>8. writer.indent > 0 /\ next - i - 1 = writer.indent * inside
    BY <2>1, <2>6, <2>7
  <2> QED
    BY <2>8 DEF next
<1> QED
  BY <1>1, <1>2 DEF IndentFollowsNesting

\* With indentation, and when the application's own text has no brackets, every
\* line of what is written, however it is refused, repeated, given up and
\* drained, begins with the spaces for the brackets that are open there, and a
\* closing bracket stands under its opening one (writer.rs 446-515).
THEOREM IndentIsNesting == ASSUME Unbracketed PROVE Spec => []IndentFollowsNesting
<1>1. Init => Laid
  <2> SUFFICES ASSUME Init PROVE Laid
    OBVIOUS
  <2>1. text = <<>> /\ writer.depth = 0
    BY DEF Init, NewWriter
  <2> QED
    BY <2>1, NothingLaid DEF Laid
<1>2. RingInv /\ Laid /\ [Next]_wvars => Laid'
  BY NextLays
<1>3. RingInv /\ Laid => IndentFollowsNesting
  BY LaidFollows DEF RingInv
<1> QED
  BY <1>1, <1>2, <1>3, RingAlways, PTL DEF Spec
==============================================================================
