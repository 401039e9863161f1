---------------------------- MODULE CallerProofs ----------------------------
(***************************************************************************)
(* What a caller may rely on, for every sequence of calls.  receive leaves *)
(* the beginning of one token in the ring and no more, and a ring is too   *)
(* small only for such a token.  The locator, and with it what a callback  *)
(* about a token reads, is exact, however the text is cut.  parse() is a   *)
(* caller like any other, so the types and the stacks keep in step under   *)
(* it; and when it comes to read, its ring has room, for every source,     *)
(* capacity and handler.                                                   *)
(***************************************************************************)
EXTENDS HandlerProofs, ParseProperties

-----------------------------------------------------------------------------
(* What is left of an input                                                *)

\* The same numbers moved on are as many.
LEMMA Shifted ==
  ASSUME NEW a \in Int, NEW b \in Int, NEW T, T \subseteq a .. b, NEW d \in Int, NEW U,
         \A i \in T : i + d \in U, \A j \in U : j \in Int /\ j - d \in T
  PROVE  IsFiniteSet(U) /\ Cardinality(U) = Cardinality(T) /\ Cardinality(T) \in Nat
<1> DEFINE f == [i \in T |-> i + d]
<1>1. IsFiniteSet(T)  BY FS_Interval, FS_Subset
<1>2. f \in Bijection(T, U)
  <2>1. \A i \in T : f[i] = i + d /\ f[i] \in U /\ i \in Int  OBVIOUS
  <2>2. \A i, j \in T : f[i] = f[j] => i = j  BY <2>1
  <2>3. f \in Injection(T, U)  BY <2>1, <2>2 DEF Injection, IsInjective
  <2>4. \A j \in U : \E i \in T : f[i] = j
    <3> TAKE j \in U
    <3>1. j \in Int /\ j - d \in T /\ (j - d) + d = j  OBVIOUS
    <3> QED  BY <2>1, <3>1
  <2>5. f \in Surjection(T, U)  BY <2>1, <2>4 DEF Surjection
  <2> QED  BY <2>3, <2>5 DEF Bijection
<1> HIDE DEF f
<1> QED  BY <1>1, <1>2, FS_Bijection, FS_CardinalityType DEF ExistsBijection

\* The end of s from offset c on is u.
Suffix(u, s, c) ==
  /\ Len(u) = Len(s) - c /\ Len(u) \in Nat /\ Len(s) \in Nat
  /\ \A i \in 0 .. Len(u) - 1 : Byte(u, i) = Byte(s, c + i)

LEMMA SuffixIs ==
  ASSUME NEW S, NEW s \in Seq(S), NEW c \in Nat, c <= Len(s)
  PROVE  Suffix(Slice(s, c, Len(s)), s, c) /\ Slice(s, c, Len(s)) \in Seq(S)
<1>1. Len(s) \in Nat /\ Len(s) <= Len(s)  OBVIOUS
<1>2. /\ Slice(s, c, Len(s)) \in Seq(S) /\ Len(Slice(s, c, Len(s))) = Len(s) - c
      /\ \A i \in 0 .. Len(s) - c - 1 : Byte(Slice(s, c, Len(s)), i) = Byte(s, c + i)
  BY <1>1, SliceFacts
<1> QED  BY <1>1, <1>2 DEF Suffix

\* What follows half a surrogate pair, seen from further on.
LEMMA PairSeen ==
  ASSUME NEW s, NEW u, NEW c \in Nat, Suffix(u, s, c), NEW j \in Nat, j <= Len(u),
         LowSurrogateFollows(s, c + j) = "NeedMore"
  PROVE  LowSurrogateFollows(u, j) = "NeedMore"
<1>1. Len(s) - (c + j) = Len(u) - j /\ Len(u) \in Nat /\ Len(s) \in Nat  BY DEF Suffix
<1>2. \A i \in j .. Len(u) - 1 : Byte(u, i) = Byte(s, c + i)  BY DEF Suffix
<1>3. BytesFrom(u, j) = BytesFrom(s, c + j)
  <2> DEFINE T == {i \in j .. Len(u) - 1 : Byte(u, i) \in HexGroups}
             V == {i \in c + j .. Len(s) - 1 : Byte(s, i) \in HexGroups}
  <2>1. \A i \in T : i + c \in V  BY <1>1, <1>2
  <2>2. \A i \in V : i \in Int /\ i - c \in T
    <3> TAKE i \in V
    <3>1. i \in Int /\ i - c \in j .. Len(u) - 1 /\ c + (i - c) = i  BY <1>1
    <3> QED  BY <1>2, <3>1
  <2>3. T \subseteq j .. Len(u) - 1  OBVIOUS
  <2>4. BytesFrom(u, j) = Len(u) - j + 3 * Cardinality(T)
        /\ BytesFrom(s, c + j) = Len(s) - (c + j) + 3 * Cardinality(V)
    BY DEF BytesFrom
  <2>5. j \in Int /\ Len(u) - 1 \in Int /\ c \in Int  BY <1>1
  <2> DEFINE m == Len(u) - 1
  <2>6. T \subseteq j .. m /\ m \in Int  BY <2>3, <2>5
  <2> HIDE DEF T, V, m
  <2>7. Cardinality(V) = Cardinality(T)  BY <2>1, <2>2, <2>5, <2>6, Shifted, Zenon
  <2> QED  BY <1>1, <2>4, <2>7
<1> DEFINE n == Len(u) - j
<1>4. n \in Nat /\ n = Len(s) - (c + j)  BY <1>1
<1>5. n >= 1 => Byte(u, j) = Byte(s, c + j)  BY <1>1, <1>2
<1>6. n >= 2 => Byte(u, j + 1) = Byte(s, c + j + 1)
  <2> SUFFICES ASSUME n >= 2  PROVE Byte(u, j + 1) = Byte(s, c + j + 1)  OBVIOUS
  <2>1. j + 1 \in j .. Len(u) - 1 /\ c + (j + 1) = c + j + 1  BY <1>1
  <2> QED  BY <1>2, <2>1
<1> HIDE DEF n
<1>7. LowSurrogateFollows(u, j) =
        IF n = 0 THEN "NeedMore" ELSE IF Byte(u, j) # Backslash THEN "Not"
        ELSE IF n = 1 THEN "NeedMore" ELSE IF Byte(u, j + 1) # "u" THEN "Not"
        ELSE IF BytesFrom(u, j) < 6 THEN "NeedMore"
        ELSE IF LowSurrogateAt(u, j) THEN "Low" ELSE "Not"
  BY DEF LowSurrogateFollows, n
<1>8. LowSurrogateFollows(s, c + j) =
        IF n = 0 THEN "NeedMore" ELSE IF Byte(s, c + j) # Backslash THEN "Not"
        ELSE IF n = 1 THEN "NeedMore" ELSE IF Byte(s, c + j + 1) # "u" THEN "Not"
        ELSE IF BytesFrom(s, c + j) < 6 THEN "NeedMore"
        ELSE IF LowSurrogateAt(s, c + j) THEN "Low" ELSE "Not"
  BY <1>4, Zenon DEF LowSurrogateFollows
<1>9. n = 0 \/ n = 1 \/ n >= 2  BY <1>4
<1> QED  BY <1>3, <1>4, <1>5, <1>6, <1>7, <1>8, <1>9

\* An escape that is not all there, seen from its first byte.
LEMMA EscapeSeen ==
  ASSUME NEW s, NEW u, NEW c \in Nat, Suffix(u, s, c), Len(u) >= 1, EscapeLength(s, c) = More
  PROVE  EscapeLength(u, 0) = More
<1> DEFINE n == Len(u)
<1>1. n \in Nat /\ n >= 1 /\ n = Len(s) - c /\ n = Len(u) - 0  BY DEF Suffix
<1>2. n >= 2 => Byte(u, 0 + 1) = Byte(s, c + 1)  BY DEF Suffix
<1>3. n >= 3 => Byte(u, 0 + 2) = Byte(s, c + 2)  BY DEF Suffix
<1>4. UnitLength(u, 0) = UnitLength(s, c)
  <2>1. UnitLength(u, 0) =
          IF n < 2 THEN More ELSE IF Byte(u, 0 + 1) \in SimpleEscapes THEN 2
          ELSE IF Byte(u, 0 + 1) # "u" THEN Bad ELSE IF n < 3 THEN More
          ELSE IF Byte(u, 0 + 2) \in HexGroups THEN 3 ELSE Bad
    BY <1>1 DEF UnitLength
  <2>2. UnitLength(s, c) =
          IF n < 2 THEN More ELSE IF Byte(s, c + 1) \in SimpleEscapes THEN 2
          ELSE IF Byte(s, c + 1) # "u" THEN Bad ELSE IF n < 3 THEN More
          ELSE IF Byte(s, c + 2) \in HexGroups THEN 3 ELSE Bad
    BY <1>1 DEF UnitLength
  <2> HIDE DEF n
  <2>3. n < 2 \/ (n >= 2 /\ n < 3) \/ n >= 3  BY <1>1
  <2>4. n \in Nat  BY <1>1
  <2> QED  BY <1>2, <1>3, <2>1, <2>2, <2>3, <2>4 DEF n
<1>5. UnitLength(u, 0) = 3 => n >= 3  BY <1>1 DEF UnitLength, More, Bad
<1>6. HighSurrogateAt(u, 0) <=> HighSurrogateAt(s, c)
  BY <1>3, <1>4, <1>5 DEF HighSurrogateAt
<1>7. CASE ~HighSurrogateAt(s, c)  BY <1>4, <1>6, <1>7 DEF EscapeLength
<1>8. CASE HighSurrogateAt(s, c)
  <2>1. LowSurrogateFollows(s, c + 3) = "NeedMore"
    <3>1. LowSurrogateFollows(s, c + 3) \in {"NeedMore", "Not", "Low"}  BY DEF LowSurrogateFollows
    <3>2. EscapeLength(s, c) = CASE LowSurrogateFollows(s, c + 3) = "NeedMore" -> More
                                 [] LowSurrogateFollows(s, c + 3) = "Not" -> 3
                                 [] LowSurrogateFollows(s, c + 3) = "Low" -> 6
      BY <1>8 DEF EscapeLength
    <3> QED  BY <3>1, <3>2 DEF More
  <2>2. 3 <= Len(u)  BY <1>4, <1>5, <1>8 DEF HighSurrogateAt
  <2>3. LowSurrogateFollows(u, 3) = "NeedMore"  BY <2>1, <2>2, PairSeen
  <2>4. LowSurrogateFollows(u, 0 + 3) = "NeedMore"  BY <2>3
  <2> QED  BY <1>6, <1>8, <2>4 DEF EscapeLength
<1> QED  BY <1>7, <1>8

\* A character that is not all there begins with a lead byte.
LEMMA CutIsLead ==
  ASSUME NEW s, NEW c, CharLengthWhole(s, c) = More
  PROVE  /\ SequenceLength(s, c, Len(s)) = More
         /\ Byte(s, c) \in Leads /\ ~Ascii(Byte(s, c)) /\ Byte(s, c) # Backslash
<1>1. SequenceLength(s, c, Len(s)) = More
  BY DEF CharLengthWhole, CharLength, More, Bad
<1>2. ~Ascii(Byte(s, c)) /\ Byte(s, c) \in Leads
  BY <1>1 DEF SequenceLength, More, Bad
<1>3. Byte(s, c) # Backslash  BY <1>2 DEF Leads, Backslash
<1> QED  BY <1>1, <1>2, <1>3

\* A character that is not all there, seen from its first byte.
LEMMA CharSeen ==
  ASSUME NEW s, NEW u, NEW c \in Nat, Suffix(u, s, c), Len(u) >= 1, CharLengthWhole(s, c) = More
  PROVE  CharLengthWhole(u, 0) = More /\ Byte(u, 0) # Backslash
<1> DEFINE b == Byte(s, c)
<1>1. Len(u) \in Nat /\ Len(s) = c + Len(u) /\ Byte(u, 0) = b  BY DEF Suffix
<1>2. SequenceLength(s, c, Len(s)) = More  BY CutIsLead
<1>3. /\ ~Ascii(b) /\ b \in Leads
      /\ ~\E k \in {l \in 1 .. LeadLength[b] - 1 : c + l < Len(s)} : Byte(s, c + k) \notin Continuations
      /\ c + LeadLength[b] > Len(s)
  BY <1>2, LeadFacts DEF SequenceLength, More, Bad
<1>4. LeadLength[b] \in 2 .. 4  BY <1>3, LeadFacts
<1>5. \A k \in {l \in 1 .. LeadLength[b] - 1 : 0 + l < Len(u)} : Byte(u, 0 + k) \in Continuations
  <2> TAKE k \in {l \in 1 .. LeadLength[b] - 1 : 0 + l < Len(u)}
  <2>1. k \in 1 .. LeadLength[b] - 1 /\ c + k < Len(s) /\ k \in 0 .. Len(u) - 1  BY <1>1, <1>4
  <2>2. Byte(u, k) = Byte(s, c + k)  BY <2>1 DEF Suffix
  <2> QED  BY <1>3, <2>1, <2>2
<1>6. 0 + LeadLength[b] > Len(u)  BY <1>1, <1>3, <1>4
<1>7. SequenceLength(u, 0, Len(u)) = More
  BY <1>1, <1>3, <1>5, <1>6, Zenon DEF SequenceLength
<1>8. b # Backslash  BY CutIsLead
<1> QED  BY <1>1, <1>7, <1>8 DEF CharLengthWhole

\* The scan of a key, seen from the quote in front of it.
LEMMA SkippedSeen ==
  ASSUME NEW s, NEW u, NEW c \in Nat, Suffix(u, s, c), NEW i \in 1 .. Len(u) - 1
  PROVE  Skipped(u, 1, i) <=> Skipped(s, c + 1, c + i)
<1> DEFINE T == {j \in 1 .. i - 1 : \A k \in j .. i - 1 : Byte(u, k) = Backslash}
           V == {j \in c + 1 .. c + i - 1 : \A k \in j .. c + i - 1 : Byte(s, k) = Backslash}
<1>1. \A k \in 0 .. i : Byte(u, k) = Byte(s, c + k)  BY DEF Suffix
<1>2. \A j \in T : j + c \in V
  <2> TAKE j \in T
  <2>1. j + c \in c + 1 .. c + i - 1  OBVIOUS
  <2>2. ASSUME NEW k \in j + c .. c + i - 1  PROVE Byte(s, k) = Backslash
    <3>1. k - c \in j .. i - 1 /\ k - c \in 0 .. i /\ c + (k - c) = k  OBVIOUS
    <3> QED  BY <1>1, <3>1
  <2> QED  BY <2>1, <2>2
<1>3. \A j \in V : j \in Int /\ j - c \in T
  <2> TAKE j \in V
  <2>1. j \in Int /\ j - c \in 1 .. i - 1  OBVIOUS
  <2>2. ASSUME NEW k \in j - c .. i - 1  PROVE Byte(u, k) = Backslash
    <3>1. c + k \in j .. c + i - 1 /\ k \in 0 .. i  BY <2>1
    <3> QED  BY <1>1, <3>1
  <2> QED  BY <2>1, <2>2
<1>4. T \subseteq 1 .. i - 1 /\ 1 \in Int /\ i - 1 \in Int /\ c \in Int  OBVIOUS
<1>5. Skipped(u, 1, i) = (Cardinality(T) % 2 = 1) /\ Skipped(s, c + 1, c + i) = (Cardinality(V) % 2 = 1)
  BY DEF Skipped
<1> HIDE DEF T, V
<1>6. Cardinality(V) = Cardinality(T)  BY <1>2, <1>3, <1>4, Shifted, Zenon
<1> QED  BY <1>5, <1>6

-----------------------------------------------------------------------------
(* A call that waits for more bytes                                        *)

\* The bytes the call has not consumed.
Rest == Slice(ring, call.consumed, Total)

\* A string stops in front of an escape or a character that is not all there.
StopsShort ==
  IF CurrentByte = Backslash THEN EscapeLength(ring, call.consumed) = More
  ELSE CharLengthWhole(ring, call.consumed) = More

\* The mark has been looked for before the tokenizer runs; where a call pauses
\* in a string, and where it comes back without an error, the rest is the
\* beginning of one token.
Waits ==
  /\ call.pc \in InTokenizer => parser.checked_bom
  /\ call.pc = "pause" /\ call.consumed < Total => StopsShort
  /\ call.pc = "fed" /\ call.error = "none" => Rest = <<>> \/ BeginsToken(Rest)

\* The rest of the ring and its first byte.
LEMMA RestIs ==
  ASSUME TypeOK
  PROVE  /\ call.consumed \in Nat /\ call.consumed <= Total /\ Total \in Nat
         /\ Suffix(Rest, ring, call.consumed) /\ Rest \in Seq(Alphabet)
         /\ Rest = <<>> <=> call.consumed = Total
         /\ call.consumed < Total => Len(Rest) >= 1 /\ Rest[1] = CurrentByte /\ Byte(Rest, 0) = CurrentByte
<1>1. call.consumed \in Nat /\ call.consumed <= Len(ring) /\ ring \in Seq(Alphabet) /\ Total = Len(ring)
  BY TypeFacts, CallFields DEF CallInRing, Total
<1>2. Suffix(Rest, ring, call.consumed) /\ Rest \in Seq(Alphabet)  BY <1>1, SuffixIs DEF Rest
<1>3. Len(Rest) = Len(ring) - call.consumed /\ Len(ring) \in Nat  BY <1>2 DEF Suffix
<1>4. Rest = <<>> <=> Len(Rest) = 0  BY <1>2
<1>5. ASSUME call.consumed < Total
      PROVE  Len(Rest) >= 1 /\ Rest[1] = CurrentByte /\ Byte(Rest, 0) = CurrentByte
  <2>1. Len(Rest) >= 1 /\ 0 \in 0 .. Len(Rest) - 1 /\ call.consumed + 0 = call.consumed  BY <1>1, <1>3, <1>5
  <2>2. Byte(Rest, 0) = Byte(ring, call.consumed)  BY <1>2, <2>1 DEF Suffix
  <2> QED  BY <2>1, <2>2 DEF CurrentByte, At, Byte
<1> QED  BY <1>1, <1>2, <1>3, <1>4, <1>5

\* A literal that is not all there (tokenizer.rs 733-752).
LEMMA LiteralWaits ==
  ASSUME TypeOK, NEW b \in DOMAIN Literals, LiteralIncomplete(b)
  PROVE  /\ Rest # <<>> /\ BeginsLiteral(Rest)
         /\ ~tok.in_string /\ tok.state # "ExpectKey"
<1>1. /\ call.consumed < Total /\ CurrentByte = b /\ ~tok.in_string /\ Allowed(b)
      /\ LiteralAgrees(b) /\ ~LiteralPresent(b)
  BY DEF LiteralIncomplete, Looking, BetweenTokens
<1>2. tok.state # "ExpectKey"
  <2>1. b \in {"t", "f", "n"}  BY BytesAssumption
  <2> QED  BY <1>1, <2>1 DEF Allowed, Quote
<1> DEFINE letters == {"r", "u", "e", "a", "l", "s"}
<1>3. Literals[b] \in Seq(letters) /\ Len(Literals[b]) \in Nat  BY BytesAssumption, LenProperties
<1> HIDE DEF letters
<1>4. /\ call.consumed \in Nat /\ Total = Len(ring) /\ Rest \in Seq(Alphabet)
      /\ Len(Rest) = Total - call.consumed /\ Len(Rest) \in Nat /\ Len(Rest) >= 1 /\ Rest[1] = b
      /\ \A i \in 0 .. Len(Rest) - 1 : Byte(Rest, i) = Byte(ring, call.consumed + i)
  BY <1>1, RestIs DEF Suffix, Total
<1> DEFINE n == Len(Rest)
<1>5. n <= Len(Literals[b])  BY <1>1, <1>3, <1>4 DEF LiteralPresent
<1>6. Tail(Rest) = SubSeq(Literals[b], 1, n - 1)
  <2>1. Tail(Rest) \in Seq(Alphabet) /\ Len(Tail(Rest)) = n - 1
        /\ \A i \in 1 .. n - 1 : Tail(Rest)[i] = Rest[i + 1]
    BY <1>4
  <2>2. SubSeq(Literals[b], 1, n - 1) \in Seq(letters) /\ Len(SubSeq(Literals[b], 1, n - 1)) = n - 1
        /\ \A i \in 1 .. n - 1 : SubSeq(Literals[b], 1, n - 1)[i] = Literals[b][i]
    BY <1>3, <1>4, <1>5
  <2>3. ASSUME NEW i \in 1 .. n - 1  PROVE Rest[i + 1] = Literals[b][i]
    <3>1. i \in 1 .. Len(Literals[b]) /\ call.consumed + i < Total /\ i \in 0 .. n - 1
      BY <1>3, <1>4, <1>5
    <3>2. At(call.consumed + i) = Literals[b][i]  BY <1>1, <3>1 DEF LiteralAgrees
    <3>3. Byte(Rest, i) = Byte(ring, call.consumed + i)  BY <1>4, <3>1
    <3> QED  BY <3>2, <3>3 DEF Byte, At
  <2>4. \A i \in 1 .. n - 1 : Tail(Rest)[i] = SubSeq(Literals[b], 1, n - 1)[i]
    BY <2>1, <2>2, <2>3
  <2> HIDE DEF n
  <2> QED  BY <2>1, <2>2, <2>4
<1>7. BeginsLiteral(Rest)  BY <1>4, <1>5, <1>6 DEF BeginsLiteral
<1>8. Rest # <<>>  BY <1>1, RestIs
<1> QED  BY <1>1, <1>2, <1>7, <1>8

\* A key whose closing quote is not there (tokenizer.rs 930-965).
LEMMA KeyWaits ==
  ASSUME TypeOK, KeyIncomplete
  PROVE  Rest # <<>> /\ BeginsKey(Rest) /\ ~tok.in_string /\ tok.state = "ExpectKey"
<1>1. /\ call.consumed < Total /\ CurrentByte = Quote /\ ~tok.in_string /\ tok.state = "ExpectKey"
      /\ KeyStops = {}
  BY DEF KeyIncomplete, AtKey, Looking, BetweenTokens
<1>2. /\ call.consumed \in Nat /\ Total \in Nat /\ Suffix(Rest, ring, call.consumed)
      /\ Len(Rest) = Total - call.consumed /\ Len(Rest) \in Nat /\ Rest[1] = Quote
      /\ \A i \in 0 .. Len(Rest) - 1 : Byte(Rest, i) = Byte(ring, call.consumed + i)
  BY <1>1, RestIs DEF Suffix, Total
<1>3. ASSUME NEW i \in 2 .. Len(Rest), Rest[i] = Quote  PROVE Skipped(Rest, 1, i - 1)
  <2> DEFINE k == i - 1
             j == call.consumed + k
  <2>1. k \in 1 .. Len(Rest) - 1 /\ k \in 0 .. Len(Rest) - 1 /\ j \in KeyStart .. Total - 1 /\ k + 1 = i
    BY <1>2 DEF KeyStart
  <2>2. At(j) = Quote
    <3>1. Byte(Rest, k) = Byte(ring, j)  BY <1>2, <2>1
    <3> QED  BY <1>3, <2>1, <3>1 DEF Byte, At
  <2>3. Skipped(ring, KeyStart, j)
    BY <1>1, <2>1, <2>2 DEF KeyStops
  <2>4. Skipped(Rest, 1, k) <=> Skipped(ring, call.consumed + 1, call.consumed + k)
    BY <1>2, <2>1, SkippedSeen
  <2> QED  BY <2>3, <2>4 DEF KeyStart
<1>4. BeginsKey(Rest)  BY <1>2, <1>3 DEF BeginsKey
<1>5. Rest # <<>>  BY <1>1, RestIs
<1> QED  BY <1>1, <1>4, <1>5

\* A string that pauses in front of an escape or a character.
LEMMA StringWaits ==
  ASSUME TypeOK, Reading, parser.checked_bom, call.pc = "pause",
         call.consumed < Total => StopsShort
  PROVE  Rest = <<>> \/ BeginsToken(Rest)
<1>1. tok.in_string  BY DEF Reading, ReadsString
<1>2. CASE call.consumed < Total
  <2>1. /\ Suffix(Rest, ring, call.consumed) /\ call.consumed \in Nat /\ Len(Rest) >= 1
        /\ Rest[1] = CurrentByte /\ Byte(Rest, 0) = CurrentByte
    BY <1>2, RestIs
  <2>2. CASE CurrentByte = Backslash
    <3>1. EscapeLength(Rest, 0) = More  BY <1>2, <2>1, <2>2, EscapeSeen DEF StopsShort
    <3> QED  BY <1>1, <2>1, <2>2, <3>1 DEF BeginsToken
  <2>3. CASE CurrentByte # Backslash
    <3>1. CharLengthWhole(Rest, 0) = More  BY <1>2, <2>1, <2>3, CharSeen DEF StopsShort
    <3> QED  BY <1>1, <2>1, <2>3, <3>1 DEF BeginsToken
  <2> QED  BY <2>2, <2>3
<1>3. CASE call.consumed = Total  BY <1>3, RestIs
<1> QED  BY <1>2, <1>3, RestIs

\* Where a quiet step leaves the tokenizer, or pauses.
LEMMA QuietStops ==
  ASSUME TypeOK, QuietStep
  PROVE  /\ \/ call'.pc # "fed" \/ call'.error # "none"
            \/ LoopEnd \/ StringPaused \/ KeyIncomplete
            \/ \E b \in DOMAIN Literals : LiteralIncomplete(b)
         /\ \/ call'.pc # "pause"
            \/ StringPause \/ StringRunDone \/ call' = call
<1>0. call \in Calls  BY TypeFacts
<1>1. \A n, error : Failed(n, error).pc = "fed" /\ Failed(n, error).error = error
  BY <1>0, Zenon DEF Failed, Calls
<1>2. Stopped.pc = "fed"  BY <1>0, Zenon DEF Stopped, Calls
<1>3. \A ev, t, n : HandlerFails(ev, t, n) => call'.pc = "fed" /\ call'.error = "handler"
  BY <1>1 DEF HandlerFails
<1> DEFINE Elsewhere == call'.pc \in {"loop", "space", "string", "run", "char", "key"}
           Refused == call'.pc = "fed" /\ call'.error # "none"
<1>4. ASSUME NEW pc \in {"loop", "space", "string", "run", "char", "key"}, NEW a, NEW b, NEW c,
             \/ call' = [call EXCEPT !.pc = pc]
             \/ call' = [call EXCEPT !.p = a, !.pc = pc]
             \/ call' = [call EXCEPT !.pc = pc, !.to = a]
             \/ call' = [call EXCEPT !.p = a, !.units = b, !.pc = pc]
             \/ call' = [call EXCEPT !.pc = pc, !.p = a, !.to = b, !.units = c]
             \/ call' = [call EXCEPT !.consumed = a, !.p = b, !.to = c, !.pc = pc]
      PROVE  Elsewhere
  BY <1>0, <1>4, Zenon DEF Calls
<1>5. CASE \/ Refuse \/ OpenTooDeep \/ NumberWrong \/ MalformedChar \/ StringWrong
           \/ \E b \in DOMAIN Literals : LiteralWrong(b)
           \/ KeyRefused \/ KeyEscapeWrong \/ KeyDoesNotFit
  BY <1>1, <1>5 DEF Refuse, OpenTooDeep, NumberWrong, MalformedChar, StringWrong, LiteralWrong,
     KeyRefused, KeyEscapeWrong, KeyDoesNotFit
<1>6. CASE \/ LoopEnd \/ StringPaused \/ KeyIncomplete
           \/ \E b \in DOMAIN Literals : LiteralIncomplete(b)
  <2>1. call'.pc = "fed"
    BY <1>2, <1>6 DEF LoopEnd, StringPaused, KeyIncomplete, LiteralIncomplete
  <2> QED  BY <1>6, <2>1
<1>7. CASE Whitespace \/ ReportWhitespace
  <2>1. CASE Whitespace
    <3>1. PICK to : call' = [call EXCEPT !.consumed = to, !.p = call.consumed, !.to = to,
                                         !.pc = IF NeedsWhitespace THEN "space" ELSE "loop"]
      BY <2>1 DEF Whitespace
    <3>2. Elsewhere  BY <1>4, <3>1
    <3> QED  BY <3>2
  <2>2. CASE ReportWhitespace
    <3>1. PICK q : \/ HandlerFails("whitespace", tok, 0)
                   \/ call' = [call EXCEPT !.p = q, !.pc = IF q = call.to THEN "loop" ELSE "space"]
      BY <2>2 DEF ReportWhitespace
    <3>2. Refused \/ Elsewhere  BY <1>3, <1>4, <3>1
    <3> QED  BY <3>2
  <2> QED  BY <1>7, <2>1, <2>2
<1>8. CASE DecodeSlice \/ PushChar
  <2>1. CASE DecodeSlice
    <3> DEFINE stop == AtMost(AtMost(call.to, SpanEnd(call.p)), call.p + Free)
    <3>1. PICK q \in call.p .. stop :
            call' = IF q < stop /\ CharLength(ring, q, stop) = Bad THEN Failed(0, "syntax")
                    ELSE [call EXCEPT !.p = q, !.units = @ + Units(Slice(ring, call.p, q)),
                                      !.pc = IF q = stop THEN "run" ELSE "char"]
      BY <2>1, Zenon DEF DecodeSlice
    <3> HIDE DEF stop
    <3>2. ASSUME NEW units, call' = [call EXCEPT !.p = q, !.units = units,
                                                 !.pc = IF q = stop THEN "run" ELSE "char"]
          PROVE  Elsewhere
      BY <1>0, <3>2, Zenon DEF Calls
    <3>3. CASE q < stop /\ CharLength(ring, q, stop) = Bad  BY <1>1, <3>1, <3>3
    <3>4. CASE ~(q < stop /\ CharLength(ring, q, stop) = Bad)
      <4>1. Elsewhere  BY <3>1, <3>2, <3>4
      <4> QED  BY <4>1
    <3> QED  BY <3>3, <3>4
  <2>2. CASE PushChar
    <3>1. PICK p, units : call' = [call EXCEPT !.p = p, !.units = units, !.pc = "run"]
      BY <2>2 DEF PushChar
    <3>2. Elsewhere  BY <1>4, <3>1
    <3> QED  BY <3>2
  <2> QED  BY <1>8, <2>1, <2>2
<1>9. CASE FlushChars
  <2>1. HandlerFails("string_value_content", tok, 0) \/ call' = call  BY <1>9 DEF FlushChars
  <2>2. call.pc # "fed"
    BY <1>9 DEF FlushChars, FlushDue, AtStringEnd, AtEscape, AtStringStop
  <2> QED  BY <1>3, <2>1, <2>2
<1>10. CASE ContinueString \/ StringRun \/ StringRunDone \/ StringPause \/ StringEscape
  <2>1. CASE ContinueString
    <3>1. Elsewhere  BY <1>4, <2>1 DEF ContinueString
    <3> QED  BY <3>1
  <2>2. CASE StringRun
    <3>1. PICK to : \/ call' = Failed(0, "limit")
                    \/ call' = [call EXCEPT !.pc = "run", !.p = call.consumed, !.to = to, !.units = 0]
      BY <2>2, Zenon DEF StringRun
    <3>2. call' = [call EXCEPT !.pc = "run", !.p = call.consumed, !.to = to, !.units = 0] => Elsewhere
      BY <1>0, Zenon DEF Calls
    <3>3. Refused \/ Elsewhere  BY <1>1, <3>1, <3>2
    <3> QED  BY <3>3
  <2>3. CASE StringRunDone
    <3>1. PICK pc \in {"string", "pause"} : call' = [call EXCEPT !.consumed = call.p, !.pc = pc]
      BY <2>3 DEF StringRunDone
    <3>2. call'.pc \in {"string", "pause"}  BY <1>0, <3>1, Zenon DEF Calls
    <3> QED  BY <2>3, <3>2
  <2>4. CASE StringPause
    <3>1. call'.pc = "pause"  BY <1>0, <2>4, Zenon DEF StringPause, Calls
    <3> QED  BY <2>4, <3>1
  <2>5. CASE StringEscape
    <3>1. PICK n : call' = Failed(n, "limit") \/ call' = [call EXCEPT !.consumed = @ + n]
      BY <2>5 DEF StringEscape
    <3>2. call.pc = "string"  BY <2>5 DEF StringEscape, AtEscape, AtStringStop
    <3>3. call' = [call EXCEPT !.consumed = @ + n] => Elsewhere  BY <1>0, <3>2, Zenon DEF Calls
    <3>4. Refused \/ Elsewhere  BY <1>1, <3>1, <3>3
    <3> QED  BY <3>4
  <2> QED  BY <1>10, <2>1, <2>2, <2>3, <2>4, <2>5
<1>11. CASE KeyFound \/ KeyRun \/ KeyRunDone \/ KeyEscape
  <2>1. CASE KeyFound
    <3>1. PICK key, end :
            call' = [call EXCEPT !.pc = "key", !.key = key, !.end = end,
                                 !.p = IF key = "hit" THEN end ELSE KeyStart,
                                 !.units = IF key = "hit" THEN Units(Slice(ring, KeyStart, end)) ELSE 0]
      BY <2>1, Zenon DEF KeyFound
    <3>2. Elsewhere  BY <1>0, <3>1, Zenon DEF Calls
    <3> QED  BY <3>2
  <2>2. CASE KeyRun
    <3>1. PICK to : call' = [call EXCEPT !.pc = "run", !.to = to]  BY <2>2 DEF KeyRun
    <3>2. Elsewhere  BY <1>4, <3>1
    <3> QED  BY <3>2
  <2>3. CASE KeyRunDone
    <3>1. call' = [call EXCEPT !.pc = "key"] \/ call' = Failed(0, "syntax")
      BY <2>3 DEF KeyRunDone
    <3>2. call' = [call EXCEPT !.pc = "key"] => Elsewhere  BY <1>0, Zenon DEF Calls
    <3>3. Refused \/ Elsewhere  BY <1>1, <3>1, <3>2
    <3> QED  BY <3>3
  <2>4. CASE KeyEscape
    <3>1. PICK n : call' = [call EXCEPT !.p = @ + n, !.units = @ + n]  BY <2>4 DEF KeyEscape
    <3>2. call'.pc = call.pc /\ call.pc = "key"
      BY <1>0, <2>4, <3>1, Zenon DEF KeyEscape, AtKeyEscape, Calls
    <3> QED  BY <3>2
  <2> QED  BY <1>11, <2>1, <2>2, <2>3, <2>4
<1> QED
  BY <1>5, <1>6, <1>7, <1>8, <1>9, <1>10, <1>11 DEF QuietStep, WhitespaceStep, DecodeStep

\* Quiet steps.
LEMMA QuietWaits ==
  ASSUME TypeOK, Reading, Waits, QuietStep, TokenizerStep, UNCHANGED parser
  PROVE  Waits'
<1>0. call \in Calls /\ CallInRing(call) /\ UNCHANGED ring
  BY TypeFacts DEF TokenizerStep
<1>1. parser.checked_bom /\ parser'.checked_bom  BY <1>0, TokenizerSteps DEF Waits
<1>2. ASSUME call'.pc = "pause", call'.consumed < Total'  PROVE StopsShort'
  <2>1. CASE StringPause
    <3>1. call'.consumed = call.consumed  BY <1>0, <2>1, Zenon DEF StringPause, Calls
    <3>2. Total' = Total /\ CurrentByte' = CurrentByte
      BY <1>0, <3>1 DEF Total, CurrentByte, At, Byte
    <3>3. CurrentByte = Backslash /\ EscapeLength(ring, call.consumed) = More
      BY <1>2, <2>1, <3>1, <3>2 DEF StringPause, AtEscape
    <3>4. EscapeLength(ring', call'.consumed) = More  BY <1>0, <3>1, <3>3
    <3> QED  BY <3>2, <3>3, <3>4 DEF StopsShort
  <2>2. CASE StringRunDone
    <3>1. call'.consumed = call.p /\ call'.pc = IF RunDecoded THEN "string" ELSE "pause"
      BY <1>0, <2>2, Zenon DEF StringRunDone, Calls
    <3>2. CharLengthWhole(ring, call.p) = More
      BY <1>2, <2>2, <3>1 DEF StringRunDone, RunCutShort, CutChar
    <3>3. Byte(ring, call.p) # Backslash  BY <3>2, CutIsLead
    <3>4. CharLengthWhole(ring', call'.consumed) = More  BY <1>0, <3>1, <3>2
    <3>5. CurrentByte' # Backslash  BY <1>0, <3>1, <3>3 DEF CurrentByte, At
    <3> QED  BY <3>4, <3>5 DEF StopsShort
  <2>3. CASE call' = call
    BY <1>0, <1>2, <2>3 DEF Waits, StopsShort, CurrentByte, At, Total
  <2> QED  BY <1>2, <2>1, <2>2, <2>3, QuietStops
<1>3. ASSUME call'.pc = "fed", call'.error = "none"  PROVE Rest' = <<>> \/ BeginsToken(Rest)'
  <2>1. ASSUME call' = Stopped, UNCHANGED tok \/ tok' = Here, Rest = <<>> \/ BeginsToken(Rest)
        PROVE  Rest' = <<>> \/ BeginsToken(Rest)'
    <3>1. call'.consumed = call.consumed  BY <1>0, <2>1, Zenon DEF Stopped, Calls
    <3>2. Rest' = Rest  BY <1>0, <3>1 DEF Rest, Total
    <3>3. tok'.in_string = tok.in_string /\ tok'.state = tok.state
      <4>1. Here.in_string = tok.in_string /\ Here.state = tok.state
        BY TypeFacts, Zenon DEF Here, Tokenizers
      <4> QED  BY <2>1, <4>1
    <3> QED  BY <1>1, <2>1, <3>2, <3>3 DEF BeginsToken
  <2>2. CASE LoopEnd  BY <2>1, <2>2, RestIs DEF LoopEnd
  <2>3. CASE StringPaused
    <3>1. Rest = <<>> \/ BeginsToken(Rest)  BY <1>1, <2>3, StringWaits DEF StringPaused, Waits
    <3> QED  BY <2>1, <2>3, <3>1 DEF StringPaused
  <2>4. CASE KeyIncomplete
    <3>1. BeginsToken(Rest)  BY <1>1, <2>4, KeyWaits DEF BeginsToken
    <3> QED  BY <2>1, <2>4, <3>1 DEF KeyIncomplete
  <2>5. ASSUME NEW b \in DOMAIN Literals, LiteralIncomplete(b)
        PROVE  Rest' = <<>> \/ BeginsToken(Rest)'
    <3>1. BeginsToken(Rest)  BY <1>1, <2>5, LiteralWaits DEF BeginsToken
    <3> QED  BY <2>1, <2>5, <3>1 DEF LiteralIncomplete
  <2> QED  BY <1>3, <2>2, <2>3, <2>4, <2>5, QuietStops
<1> QED  BY <1>1, <1>2, <1>3 DEF Waits

\* Every step of the tokenizer.
LEMMA TokenizerWaits ==
  ASSUME TypeOK, Reading, Waits, TokenizerStep, UNCHANGED parser
  PROVE  Waits'
<1>1. CASE QuietStep  BY <1>1, QuietWaits
<1>2. CASE TokenStep
  <2>1. GoesOn \/ Fails  BY <1>2, TokenMoves DEF ComesOut
  <2>2. parser.checked_bom  BY TypeFacts, TokenizerSteps DEF Waits
  <2> QED  BY <2>1, <2>2 DEF GoesOn, Fails, Waits
<1> QED  BY <1>1, <1>2, StepKinds

\* An input that check_bom cannot tell about yet (parser.rs 266-300).
LEMMA MarkWaits ==
  ASSUME NEW s \in Seq(Alphabet), s # <<>>, ByteOrderMark(s) = More  PROVE BeginsMark(s)
<1> DEFINE n == Len(s)
<1>1. n \in Nat /\ n >= 1 /\ s = SubSeq(s, 1, n) /\ (n = 1 => s = <<s[1]>>) /\ (n = 2 => s = <<s[1], s[2]>>)
  OBVIOUS
<1>2. \A m : n >= Len(m) /\ SubSeq(s, 1, Len(m)) = m => n >= Len(m)  OBVIOUS
<1>3. CASE s[1] = "EF"
  <2>1. n = 1 \/ (n = 2 /\ s[2] = "BB")  BY <1>3 DEF ByteOrderMark, More
  <2>2. s = SubSeq(<<"EF", "BB", "BF">>, 1, n) /\ n < Len(<<"EF", "BB", "BF">>)
    BY <1>1, <1>3, <2>1
  <2> QED  BY <2>2 DEF BeginsMark
<1>4. CASE s[1] = "FE"
  <2>1. n < 2  BY <1>4 DEF ByteOrderMark, More, Bad
  <2>2. s = SubSeq(<<"FE", "FF">>, 1, n) /\ n < Len(<<"FE", "FF">>)  BY <1>1, <1>4, <2>1
  <2> QED  BY <2>2 DEF BeginsMark
<1>5. CASE s[1] = "FF"
  <2>1. n < 2 \/ (n >= 2 /\ SubSeq(s, 1, 2) = <<"FF", "FE">> /\ n < 4)
    BY <1>5 DEF ByteOrderMark, More, Bad
  <2>2. CASE n < 2
    <3>1. s = SubSeq(<<"FF", "FE">>, 1, n) /\ n < Len(<<"FF", "FE">>)  BY <1>1, <1>5, <2>2
    <3> QED  BY <3>1 DEF BeginsMark
  <2>3. CASE n >= 2
    <3>1. Len(s) \in {2, 3} /\ SubSeq(s, 1, 2) = <<"FF", "FE">>  BY <1>1, <2>1, <2>3
    <3> QED  BY <3>1, Zenon DEF BeginsMark
  <2> QED  BY <1>1, <2>2, <2>3
<1>6. CASE s[1] = "00"
  <2>1. n < 2 \/ (n >= 2 /\ SubSeq(s, 1, 2) = <<"00", "00">> /\ n < 4)
    BY <1>6 DEF ByteOrderMark, More, Bad
  <2>2. CASE n < 2
    <3>1. s = SubSeq(<<"00", "00">>, 1, n) /\ n < Len(<<"00", "00">>)  BY <1>1, <1>6, <2>2
    <3> QED  BY <3>1 DEF BeginsMark
  <2>3. CASE n >= 2
    <3>1. Len(s) \in {2, 3} /\ SubSeq(s, 1, 2) = <<"00", "00">>  BY <1>1, <2>1, <2>3
    <3> QED  BY <3>1, Zenon DEF BeginsMark
  <2> QED  BY <1>1, <2>2, <2>3
<1> QED  BY <1>3, <1>4, <1>5, <1>6 DEF ByteOrderMark, More

\* feed sets a call going.
LEMMA FeedWaits ==
  ASSUME TypeOK, NEW op \in {"receive", "close"}, ring # <<>>, Feed(op)
  PROVE  Waits' /\ call'.error # "small" /\ ~Idle'
<1> DEFINE counted == [parser EXCEPT !.document_length = DocumentLength]
           bom == IF parser.checked_bom THEN 0 ELSE ByteOrderMark(ring)
           live == ~DocumentTooLong /\ bom >= 0
<1>1. /\ UNCHANGED ring
      /\ parser' = IF live THEN [counted EXCEPT !.checked_bom = TRUE, !.live = TRUE,
                                                !.closed = @ \/ op = "close"]
                   ELSE [counted EXCEPT !.closed = @ \/ op = "close"]
  BY DEF Feed
<1>2. \/ call'.pc = "loop" /\ call'.error = "none" /\ live
      \/ call'.pc = "fed" /\ call'.error \in {"limit", "syntax"}
      \/ call'.pc = "fed" /\ call'.error = "none" /\ bom = More /\ call'.consumed = 0
  <2>1. bom \in {More, Bad} \/ bom >= 0  BY DEF ByteOrderMark, More, Bad
  <2> QED  BY <2>1 DEF Feed, Returned, More, Bad
<1>3. counted \in Parsers /\ counted.checked_bom = parser.checked_bom
  <2>1. DocumentLength \in Nat  BY CallerFacts DEF DocumentLength, FreshBytes
  <2> QED  BY <2>1, CallerFacts, Zenon DEF Parsers
<1>4. IF live THEN parser'.checked_bom ELSE parser'.checked_bom = parser.checked_bom
  <2> HIDE DEF counted, live
  <2>1. CASE live
    <3>1. parser' = [counted EXCEPT !.checked_bom = TRUE, !.live = TRUE, !.closed = @ \/ op = "close"]
      BY <1>1, <2>1
    <3>2. parser'.checked_bom = TRUE  BY <1>3, <3>1, Zenon DEF Parsers
    <3> QED  BY <2>1, <3>2
  <2>2. CASE ~live
    <3>1. parser' = [counted EXCEPT !.closed = @ \/ op = "close"]  BY <1>1, <2>2
    <3>2. parser'.checked_bom = counted.checked_bom  BY <1>3, <3>1, Zenon DEF Parsers
    <3> QED  BY <1>3, <2>2, <3>2
  <2> QED  BY <2>1, <2>2
<1>5. ASSUME call'.pc = "fed", call'.error = "none"  PROVE BeginsToken(Rest)'
  <2>1. bom = More /\ call'.consumed = 0 /\ ~live /\ ~parser.checked_bom
    BY <1>2, <1>5 DEF More
  <2>2. Rest' = ring
    <3>1. ring \in Seq(Alphabet) /\ Len(ring) \in Nat /\ SubSeq(ring, 0 + 1, Len(ring)) = ring
      BY CallerFacts
    <3> QED  BY <1>1, <2>1, <3>1 DEF Rest, Slice, Total
  <2>3. BeginsMark(ring)  BY <2>1, MarkWaits, CallerFacts
  <2> QED  BY <1>4, <2>1, <2>2, <2>3 DEF BeginsToken
<1> HIDE DEF live, bom
<1> QED  BY <1>2, <1>4, <1>5 DEF Waits, Idle, InTokenizer

\* What the caller finds when the call has returned.  After an error
\* unconsumed is stale: it says what is left only to a caller that stops then.
Found ==
  /\ call.error = "small" => Idle /\ Len(ring) = Capacity /\ BeginsToken(ring)
  /\ ~RetryAfterError =>
       /\ Idle /\ verdict = "open" => parser.unconsumed <= Len(ring)
       /\ LeftoverIsOneToken

\* feed returns (parser.rs 208-229).
LEMMA ReturnLeaves ==
  ASSUME TypeOK, Waits, Found, FeedReturns
  PROVE  Waits' /\ Found'
<1>0. /\ ring' = Rest /\ Total = Len(ring) /\ call.pc = "fed" /\ UNCHANGED tok
      /\ \/ /\ call.error # "none" /\ call' = Returned(call.op, call.error)
            /\ verdict' = Judged(call.error) /\ UNCHANGED parser
         \/ /\ call.error = "none"
            /\ parser' = [parser EXCEPT !.unconsumed = Total - call.consumed,
                                        !.underflow = Total - call.consumed > 0]
            /\ \/ TooSmall /\ call' = Returned("receive", "small") /\ verdict' = Judged("small")
               \/ ~TooSmall /\ call.op = "receive" /\ call' = Returned("receive", "none")
                  /\ UNCHANGED verdict
               \/ call.op = "close" /\ call' = [Returned("close", "none") EXCEPT !.pc = "finish"]
                  /\ UNCHANGED verdict
  BY DEF FeedReturns, Rest, Total
<1>1. call.error # "small" /\ call.error \in Errors
  BY <1>0, TypeFacts, CallFields DEF Found, Idle
<1>2. \A error \in Errors \ {"none"} : Judged(error) # "open"
  BY DEF Judged, Errors
<1>3. Waits'  BY <1>0 DEF Waits, Returned, InTokenizer
<1>4. CASE call.error # "none"
  <2>1. call' = Returned(call.op, call.error) /\ verdict' # "open"  BY <1>0, <1>1, <1>2, <1>4
  <2>2. call'.error = call.error  BY <2>1 DEF Returned
  <2>3. call' # Returned("receive", "none")'  BY <1>4, <2>2 DEF Returned
  <2> QED  BY <1>1, <1>3, <2>1, <2>2, <2>3 DEF Found, LeftoverIsOneToken
<1>5. CASE call.error = "none"
  <2>1. /\ parser'.checked_bom = parser.checked_bom
        /\ parser'.unconsumed = Total - call.consumed
    BY <1>0, <1>5, CallerFacts, Zenon DEF Parsers
  <2>2. /\ Rest \in Seq(Alphabet) /\ Len(Rest) = Total - call.consumed /\ Len(Rest) \in Nat
        /\ Total \in Nat /\ call.consumed \in Nat
        /\ Rest = <<>> <=> call.consumed = Total
    BY RestIs DEF Suffix, Total
  <2>3. Rest = <<>> \/ BeginsToken(Rest)  BY <1>0, <1>5 DEF Waits
  <2>4. ring' = <<>> \/ BeginsToken(ring)'
    BY <1>0, <2>1, <2>3 DEF BeginsToken
  <2>5. Leftover' = ring'
    <3>1. SubSeq(Rest, 0 + 1, Len(Rest)) = Rest /\ Len(Rest) <= Len(Rest)  BY <2>2
    <3>2. parser'.unconsumed = Len(ring')  BY <1>0, <2>1, <2>2
    <3> QED  BY <1>0, <2>2, <3>1, <3>2 DEF Leftover, Slice, AtMost
  <2>6. LeftoverIsOneToken'
    BY <2>4, <2>5 DEF LeftoverIsOneToken
  <2>7. parser'.unconsumed <= Len(ring')  BY <1>0, <2>1, <2>2
  <2>8. call'.error = "small" => Idle' /\ Len(ring') = Capacity /\ BeginsToken(ring)'
    <3> SUFFICES ASSUME call'.error = "small"
                 PROVE  Idle' /\ Len(ring') = Capacity /\ BeginsToken(ring)'
      OBVIOUS
    <3>1. TooSmall /\ call' = Returned("receive", "small")  BY <1>0, <1>5 DEF Returned
    <3>2. call.consumed = 0 /\ Len(ring) = Capacity /\ Capacity > 0
      BY <3>1, SizesAssumption DEF TooSmall
    <3>3. Len(ring') = Capacity /\ ring' # <<>>  BY <1>0, <2>2, <3>2
    <3> QED  BY <2>4, <3>1, <3>3 DEF Idle, Returned
  <2> QED  BY <1>3, <2>6, <2>7, <2>8 DEF Found
<1> QED  BY <1>4, <1>5

\* Every step of the parser and of its caller.
LEMMA FoundKept ==
  ASSUME TypeOK, CallState, Reading, Waits, Found, [Next]_vars
  PROVE  Waits' /\ Found'
<1>0. call \in Calls /\ CallInRing(call) /\ ring \in Seq(Alphabet) /\ parser \in Parsers
      /\ Len(ring) \in Nat /\ parser.unconsumed \in Nat /\ tok \in Tokenizers
  BY TypeFacts, CallerFacts
<1>1. CASE TokenizerStep /\ UNCHANGED <<parser, doc, verdict>>
  <2>1. Waits'  BY <1>1, TokenizerWaits
  <2>2. call.pc \in InTokenizer /\ SameCall(call')  BY <1>0, <1>1, TokenizerSteps
  <2>3. call.error # "small" /\ call'.error # "small" /\ ~Idle'
    BY <2>2 DEF Found, SameCall, InTokenizer, Idle
  <2> QED  BY <2>1, <2>3 DEF Found, LeftoverIsOneToken
<1>2. CASE FeedReturns  BY <1>2, ReturnLeaves
<1>3. CASE Receive \/ Close
  <2>1. PICK op \in {"receive", "close"} : ring # <<>> /\ Feed(op)  BY <1>3 DEF Receive, Close
  <2>2. Waits' /\ call'.error # "small" /\ ~Idle'  BY <2>1, FeedWaits
  <2> QED  BY <2>2 DEF Found, LeftoverIsOneToken
<1>4. CASE CloseUnfinished \/ CloseReturns \/ CloseAfterNumber
  <2>1. PICK result \in {"accepted", "syntax", "handler"} : Judge(result)
    BY <1>4 DEF CloseUnfinished, CloseReturns, CloseAfterNumber, Complete
  <2>2. verdict' # "open"  BY <2>1 DEF Judge, Judged
  <2>3. call'.op = "close" /\ call'.error # "small" /\ call'.pc = "idle"  BY <2>1 DEF Judge, Returned
  <2>4. call' # Returned("receive", "none")'  BY <2>3 DEF Returned
  <2> QED  BY <2>2, <2>3, <2>4 DEF Found, LeftoverIsOneToken, Waits, InTokenizer
<1>5. CASE CloseEmpty \/ CloseAgain
  <2>1. call'.op = "close" /\ call'.error = "none" /\ call'.pc \in {"idle", "finish"}
    BY <1>5 DEF CloseEmpty, CloseAgain, Returned
  <2>2. call' # Returned("receive", "none")'  BY <2>1 DEF Returned
  <2>3. ~RetryAfterError => (Idle' /\ verdict' = "open" => parser'.unconsumed <= Len(ring'))
    <3>1. CASE CloseEmpty  BY <3>1 DEF CloseEmpty, Idle, Returned
    <3>2. CASE CloseAgain  BY <3>2 DEF CloseAgain, Found, Idle
    <3> QED  BY <1>5, <3>1, <3>2
  <2> QED  BY <2>1, <2>2, <2>3 DEF Found, LeftoverIsOneToken, Waits, InTokenizer
<1>6. CASE ReceiveNothing
  <2>1. UNCHANGED <<ring, parser, verdict>> /\ Idle /\ (~RetryAfterError => verdict = "open")
    BY <1>6 DEF ReceiveNothing, MayGoOn
  <2>2. \/ call' = Returned("receive", "closed")
        \/ call' = Returned("receive", "none") /\ ring = <<>>
    BY <1>6 DEF ReceiveNothing
  <2>3. call'.pc = "idle" /\ call'.error # "small"  BY <2>2 DEF Returned
  <2>4. ~RetryAfterError => parser'.unconsumed <= Len(ring')  BY <2>1 DEF Found
  <2>5. ~RetryAfterError /\ call' = Returned("receive", "none") => Leftover' = <<>>
    <3>1. call' = Returned("receive", "none") => ring' = <<>>  BY <2>1, <2>2 DEF Returned
    <3>2. ~RetryAfterError /\ ring' = <<>> => Len(ring') = 0 /\ AtMost(parser'.unconsumed, Len(ring')) = 0
      BY <1>0, <2>1, <2>4 DEF AtMost
    <3> QED  BY <3>1, <3>2 DEF Leftover, Slice
  <2>6. ~RetryAfterError => LeftoverIsOneToken'  BY <2>5 DEF LeftoverIsOneToken, Returned
  <2> QED  BY <2>3, <2>4, <2>6 DEF Found, Waits, InTokenizer
<1>7. CASE Reset
  <2>1. call' = Returned("none", "none") /\ parser'.unconsumed = 0 /\ ring' \in {ring, <<>>}
    BY <1>7 DEF Reset, NewParser
  <2>2. call' # Returned("receive", "none")' /\ call'.error = "none" /\ call'.pc = "idle"
    BY <2>1 DEF Returned
  <2>3. parser'.unconsumed <= Len(ring')  BY <1>0, <2>1
  <2> QED  BY <2>2, <2>3 DEF Found, LeftoverIsOneToken, Waits, InTokenizer
<1>8. CASE Write
  <2>1. PICK b \in Alphabet : ring' = Append(ring, b)  BY <1>8 DEF Write
  <2>2. UNCHANGED <<tok, call, parser, verdict>> /\ Idle /\ MayGoOn /\ Len(ring) < Capacity
    BY <1>8 DEF Write
  <2>3. call'.error # "small"  BY <1>0, <2>2, SizesAssumption DEF Found
  <2>4. Len(ring') = Len(ring) + 1 /\ \A i \in 1 .. Len(ring) : ring'[i] = ring[i]  BY <1>0, <2>1
  <2>5. ASSUME ~RetryAfterError
        PROVE  parser'.unconsumed <= Len(ring') /\ LeftoverIsOneToken'
    <3>1. parser.unconsumed <= Len(ring)  BY <2>2, <2>5 DEF Found, MayGoOn
    <3>2. SubSeq(ring', 0 + 1, parser.unconsumed) = SubSeq(ring, 0 + 1, parser.unconsumed)
      BY <1>0, <2>1, <2>4, <3>1
    <3>3. AtMost(parser.unconsumed, Len(ring)) = parser.unconsumed
          /\ AtMost(parser'.unconsumed, Len(ring')) = parser.unconsumed
      BY <1>0, <2>2, <2>4, <3>1 DEF AtMost
    <3>4. Leftover' = Leftover  BY <3>2, <3>3 DEF Leftover, Slice
    <3>5. LeftoverIsOneToken'
      BY <2>2, <2>5, <3>4 DEF Found, LeftoverIsOneToken, Idle, Returned, BeginsToken
    <3> QED  BY <1>0, <2>2, <2>4, <3>1, <3>5
  <2> QED  BY <2>2, <2>3, <2>5 DEF Found, Waits, Idle, InTokenizer
<1>9. CASE SetLimits \/ SetStringChunkSize \/ SetRejectDuplicateKeys \/ UNCHANGED vars
  <2>1. UNCHANGED <<ring, call, verdict>>
    BY <1>9 DEF SetLimits, SetStringChunkSize, SetRejectDuplicateKeys, vars
  <2>2. /\ parser'.checked_bom = parser.checked_bom /\ parser'.unconsumed = parser.unconsumed
    <3>1. PICK n : \/ UNCHANGED parser \/ parser' = [parser EXCEPT !.string_chunk_size = n]
                   \/ parser' = [parser EXCEPT !.reject_duplicate_keys = n]
      BY <1>9 DEF SetLimits, SetStringChunkSize, SetRejectDuplicateKeys, vars
    <3> QED  BY <1>0, <3>1, Zenon DEF Parsers
  <2>3. tok'.in_string = tok.in_string /\ tok'.state = tok.state
    <3>1. PICK n : UNCHANGED tok \/ tok' = [tok EXCEPT !.chunk_size = n]
      BY <1>9 DEF SetLimits, SetStringChunkSize, SetRejectDuplicateKeys, vars
    <3> QED  BY <1>0, <3>1, Zenon DEF Tokenizers
  <2>4. Leftover' = Leftover  BY <2>1, <2>2 DEF Leftover
  <2>5. /\ BeginsToken(ring)' <=> BeginsToken(ring)
        /\ BeginsToken(Leftover)' <=> BeginsToken(Leftover)
        /\ BeginsToken(Rest)' <=> BeginsToken(Rest)
    <3>1. Rest' = Rest  BY <2>1 DEF Rest, Total
    <3> QED  BY <2>1, <2>2, <2>3, <2>4, <3>1 DEF BeginsToken
  <2>6. Waits' <=> Waits
    <3>1. Rest' = Rest /\ Total' = Total /\ (StopsShort' <=> StopsShort)
      BY <2>1 DEF Rest, Total, StopsShort, CurrentByte, At
    <3> QED  BY <2>1, <2>2, <2>5, <3>1 DEF Waits
  <2>7. LeftoverIsOneToken' <=> LeftoverIsOneToken
    BY <2>1, <2>4, <2>5 DEF LeftoverIsOneToken, Idle, Returned
  <2> QED  BY <2>1, <2>2, <2>5, <2>6, <2>7 DEF Found, Idle
<1> QED
  BY <1>1, <1>2, <1>3, <1>4, <1>5, <1>6, <1>7, <1>8, <1>9 DEF Next, CallStep, CallerStep

\* Where the call waits and what it leaves behind, always.
LEMMA FoundHolds == Spec => [](Waits /\ Found)
<1>1. Init => Waits /\ Found
  <2> SUFFICES ASSUME Init  PROVE Waits /\ Found  OBVIOUS
  <2>1. ring = <<>> /\ call = Returned("none", "none")
        /\ \E reject, chunk : parser = NewParser(reject, chunk)
    BY DEF Init
  <2>2. call.pc = "idle" /\ call.error = "none" /\ call.op = "none" /\ parser.unconsumed = 0
    BY <2>1 DEF Returned, NewParser
  <2>3. Len(ring) = 0 /\ call # Returned("receive", "none")  BY <2>1, <2>2 DEF Returned
  <2> QED  BY <2>2, <2>3 DEF Waits, Found, LeftoverIsOneToken, InTokenizer
<1> QED  BY <1>1, FoundKept, TypeCorrect, CallStateHolds, ReadingHolds, PTL DEF Spec

\* A ring is reported as too small only when the one token at its front fills
\* it, whatever the tokens, the spans and the caller are: a larger ring would
\* have helped (parser.rs 218-224).
THEOREM OnlyATokenIsTooLarge == Spec => []TooSmallOnlyForOneToken
<1>1. Found => TooSmallOnlyForOneToken  BY DEF Found, TooSmallOnlyForOneToken
<1> QED  BY <1>1, FoundHolds, PTL

\* receive leaves nothing in the ring but the beginning of one token that more
\* bytes can complete, to a caller that stops at an error.
THEOREM OneTokenIsLeft ==
  ASSUME ~RetryAfterError
  PROVE  Spec => []LeftoverIsOneToken
<1>1. Found => LeftoverIsOneToken  BY DEF Found
<1> QED  BY <1>1, FoundHolds, PTL

-----------------------------------------------------------------------------
(* Counting positions                                                      *)

LineEnds == {"CR", "LF"}

\* The UTF-16 units of the bytes a .. b of s.
UnitsAt(s, a, b) ==
  Cardinality({i \in a .. b : s[i] \notin Continuations}) + Cardinality({i \in a .. b : s[i] = "F0"})

Count(V, a, b) == Cardinality(V \cap (a .. b))

\* An interval parts the numbers of a set in two.
LEMMA CountParted ==
  ASSUME NEW V, NEW a \in Int, NEW b \in Int, NEW c \in Int, a <= b + 1, b <= c
  PROVE  /\ Count(V, a, b) \in Nat /\ Count(V, b + 1, c) \in Nat
         /\ Count(V, a, c) = Count(V, a, b) + Count(V, b + 1, c)
<1> DEFINE T == V \cap (a .. b)
           U == V \cap (b + 1 .. c)
<1>1. V \cap (a .. c) = T \cup U /\ T \cap U = {}  OBVIOUS
<1>2. IsFiniteSet(T) /\ IsFiniteSet(U)
  <2>1. IsFiniteSet(a .. b) /\ IsFiniteSet(b + 1 .. c)  BY FS_Interval
  <2>2. T \subseteq a .. b /\ U \subseteq b + 1 .. c  OBVIOUS
  <2> QED  BY <2>1, <2>2, FS_Subset
<1>3. Count(V, a, b) = Cardinality(T) /\ Count(V, b + 1, c) = Cardinality(U)  BY DEF Count
<1>4. Count(V, a, c) = Cardinality(T \cup U)  BY <1>1, Zenon DEF Count
<1> HIDE DEF T, U
<1>5. Cardinality(T) \in Nat /\ Cardinality(U) \in Nat  BY <1>2, FS_CardinalityType
<1>6. Cardinality(T \cup U) = Cardinality(T) + Cardinality(U) - Cardinality(T \cap U)  BY <1>2, FS_Union
<1>7. Cardinality(T \cap U) = 0  BY <1>1, FS_EmptySet
<1> QED  BY <1>3, <1>4, <1>5, <1>6, <1>7

\* Units of adjacent parts add up.
LEMMA UnitsAdd ==
  ASSUME NEW s, NEW a \in Int, NEW b \in Int, NEW c \in Int, a <= b + 1, b <= c
  PROVE  /\ UnitsAt(s, a, b) \in Nat /\ UnitsAt(s, b + 1, c) \in Nat
         /\ UnitsAt(s, a, c) = UnitsAt(s, a, b) + UnitsAt(s, b + 1, c)
<1> DEFINE V == {i \in Int : s[i] \notin Continuations}
           W == {i \in Int : s[i] = "F0"}
<1>1. ASSUME NEW x \in Int, NEW y \in Int
      PROVE  UnitsAt(s, x, y) = Count(V, x, y) + Count(W, x, y)
  <2>1. /\ {i \in x .. y : s[i] \notin Continuations} = V \cap (x .. y)
        /\ {i \in x .. y : s[i] = "F0"} = W \cap (x .. y)
    OBVIOUS
  <2> QED  BY <2>1, Zenon DEF UnitsAt, Count
<1> HIDE DEF V, W
<1>2. /\ Count(V, a, b) \in Nat /\ Count(V, b + 1, c) \in Nat
      /\ Count(V, a, c) = Count(V, a, b) + Count(V, b + 1, c)
  BY CountParted
<1>3. /\ Count(W, a, b) \in Nat /\ Count(W, b + 1, c) \in Nat
      /\ Count(W, a, c) = Count(W, a, b) + Count(W, b + 1, c)
  BY CountParted
<1>4. /\ UnitsAt(s, a, b) = Count(V, a, b) + Count(W, a, b)
      /\ UnitsAt(s, b + 1, c) = Count(V, b + 1, c) + Count(W, b + 1, c)
      /\ UnitsAt(s, a, c) = Count(V, a, c) + Count(W, a, c)
  <2>1. b + 1 \in Int  OBVIOUS
  <2> QED  BY <1>1, <2>1
<1> QED  BY <1>2, <1>3, <1>4

\* The bytes a .. b of s are in u, moved by d.
Moved(s, u, a, b, d) == \A i \in a .. b : u[i + d] = s[i]

\* The same bytes elsewhere have the same units.
LEMMA UnitsMoved ==
  ASSUME NEW s, NEW u, NEW a \in Int, NEW b \in Int, NEW d \in Int, Moved(s, u, a, b, d)
  PROVE  UnitsAt(u, a + d, b + d) = UnitsAt(s, a, b)
<1>0. \A i \in a .. b : u[i + d] = s[i]  BY DEF Moved
<1>1. ASSUME NEW T, NEW U, T \subseteq a .. b, \A i \in T : i + d \in U, \A j \in U : j \in Int /\ j - d \in T
      PROVE  Cardinality(U) = Cardinality(T)
  BY <1>1, Shifted
<1>2. Cardinality({i \in a + d .. b + d : u[i] \notin Continuations})
        = Cardinality({i \in a .. b : s[i] \notin Continuations})
  <2> DEFINE T == {i \in a .. b : s[i] \notin Continuations}
             U == {i \in a + d .. b + d : u[i] \notin Continuations}
  <2>1. T \subseteq a .. b  OBVIOUS
  <2>2. \A i \in T : i + d \in U  BY <1>0
  <2>3. \A j \in U : j \in Int /\ j - d \in T
    <3> TAKE j \in U
    <3>1. j - d \in a .. b /\ (j - d) + d = j  OBVIOUS
    <3> QED  BY <1>0, <3>1
  <2> HIDE DEF T, U
  <2>4. Cardinality(U) = Cardinality(T)  BY <1>1, <2>1, <2>2, <2>3
  <2> QED  BY <2>4 DEF T, U
<1>3. Cardinality({i \in a + d .. b + d : u[i] = "F0"}) = Cardinality({i \in a .. b : s[i] = "F0"})
  <2> DEFINE T == {i \in a .. b : s[i] = "F0"}
             U == {i \in a + d .. b + d : u[i] = "F0"}
  <2>1. T \subseteq a .. b  OBVIOUS
  <2>2. \A i \in T : i + d \in U  BY <1>0
  <2>3. \A j \in U : j \in Int /\ j - d \in T
    <3> TAKE j \in U
    <3>1. j - d \in a .. b /\ (j - d) + d = j  OBVIOUS
    <3> QED  BY <1>0, <3>1
  <2> HIDE DEF T, U
  <2>4. Cardinality(U) = Cardinality(T)  BY <1>1, <2>1, <2>2, <2>3
  <2> QED  BY <2>4 DEF T, U
<1> QED  BY <1>2, <1>3, Zenon DEF UnitsAt

\* Bytes that are characters of one unit each.
LEMMA UnitsSingle ==
  ASSUME NEW s, NEW a \in Int, NEW b \in Int, a <= b + 1,
         \A i \in a .. b : s[i] \notin Continuations \cup {"F0"}
  PROVE  UnitsAt(s, a, b) = b - a + 1
<1>1. {i \in a .. b : s[i] \notin Continuations} = a .. b /\ {i \in a .. b : s[i] = "F0"} = {}  OBVIOUS
<1>2. Cardinality(a .. b) = IF a > b THEN 0 ELSE b - a + 1  BY FS_Interval
<1>3. Cardinality({}) = 0  BY FS_EmptySet
<1>4. UnitsAt(s, a, b) = Cardinality(a .. b) + 0  BY <1>1, <1>3 DEF UnitsAt
<1> QED  BY <1>2, <1>4

\* The units of a text taken from a sequence.
LEMMA UnitsOfSlice ==
  ASSUME NEW S, NEW s \in Seq(S), NEW from \in Nat, NEW to \in Nat, from <= to, to <= Len(s)
  PROVE  Units(Slice(s, from, to)) = UnitsAt(s, from + 1, to)
<1> DEFINE text == Slice(s, from, to)
<1>1. text \in Seq(S) /\ Len(text) = to - from /\ \A i \in 0 .. to - from - 1 : Byte(text, i) = Byte(s, from + i)
  BY SliceFacts
<1> HIDE DEF text
<1>2. DOMAIN text = 1 .. Len(text)  BY <1>1, LenProperties
<1>3. Units(text) = UnitsAt(text, 1, Len(text))  BY <1>2 DEF Units, UnitsAt
<1>4. \A i \in 1 .. Len(text) : s[i + from] = text[i]
  <2> TAKE i \in 1 .. Len(text)
  <2>1. i - 1 \in 0 .. to - from - 1  BY <1>1
  <2>2. Byte(text, i - 1) = Byte(s, from + (i - 1))  BY <1>1, <2>1
  <2> QED  BY <2>2, <1>1 DEF Byte
<1>5. UnitsAt(s, 1 + from, Len(text) + from) = UnitsAt(text, 1, Len(text))
  <2>1. Moved(text, s, 1, Len(text), from)  BY <1>4 DEF Moved
  <2>2. Len(text) \in Int /\ 1 \in Int /\ from \in Int  BY <1>1
  <2> QED  BY <2>1, <2>2, UnitsMoved
<1> QED  BY <1>1, <1>3, <1>5 DEF text

-----------------------------------------------------------------------------
(* Positions                                                               *)

Breaks(d, a, n) == {i \in a .. n : d[i] = "CR" \/ (d[i] = "LF" /\ ~(i > a /\ d[i - 1] = "CR"))}
LastLine(d, a, n) == {i \in a .. n : \A j \in i .. n : d[j] \notin LineEnds}

\* PositionAt for a document d whose text starts at a.
Position(d, a, n) ==
  [line |-> 1 + Cardinality(Breaks(d, a, n)),
   column |-> 1 + Cardinality({i \in LastLine(d, a, n) : d[i] \notin Continuations})
                + Cardinality({i \in LastLine(d, a, n) : d[i] = "F0"})]

\* No line ends among the bytes a .. b of s.
OneLine(s, a, b) == \A i \in a .. b : s[i] \notin LineEnds

\* What goes on in a line moves the position to the right.
LEMMA PositionRight ==
  ASSUME NEW d, NEW a \in Nat, NEW n \in Nat, NEW k \in Nat, a <= n + 1, n <= k,
         OneLine(d, n + 1, k)
  PROVE  /\ Position(d, a, k).line = Position(d, a, n).line
         /\ Position(d, a, k).column = Position(d, a, n).column + UnitsAt(d, n + 1, k)
         /\ Position(d, a, n).line \in Nat /\ Position(d, a, n).column \in Nat
         /\ UnitsAt(d, n + 1, k) \in Nat
<1>0. \A i \in n + 1 .. k : d[i] \notin LineEnds  BY DEF OneLine
<1>1. ASSUME NEW T, NEW U, T \subseteq a .. n, U \subseteq n + 1 .. k
      PROVE  /\ Cardinality(T) \in Nat /\ Cardinality(U) \in Nat
             /\ Cardinality(T \cup U) = Cardinality(T) + Cardinality(U)
  <2>1. IsFiniteSet(T) /\ IsFiniteSet(U)
    <3>1. IsFiniteSet(a .. n) /\ IsFiniteSet(n + 1 .. k)  BY FS_Interval
    <3> QED  BY <1>1, <3>1, FS_Subset
  <2>2. T \cap U = {}  BY <1>1
  <2>3. Cardinality(T) \in Nat /\ Cardinality(U) \in Nat  BY <2>1, FS_CardinalityType
  <2>4. Cardinality(T \cup U) = Cardinality(T) + Cardinality(U) - Cardinality(T \cap U)  BY <2>1, FS_Union
  <2>5. Cardinality(T \cap U) = 0  BY <2>2, FS_EmptySet
  <2> QED  BY <2>3, <2>4, <2>5
<1>2. Breaks(d, a, k) = Breaks(d, a, n)  BY <1>0 DEF Breaks, LineEnds
<1>3. LastLine(d, a, k) = LastLine(d, a, n) \cup (n + 1 .. k)
  <2>1. ASSUME NEW i \in LastLine(d, a, k)  PROVE i \in LastLine(d, a, n) \cup (n + 1 .. k)
    BY <1>0, <2>1 DEF LastLine
  <2>2. ASSUME NEW i \in LastLine(d, a, n)  PROVE i \in LastLine(d, a, k)
    BY <1>0, <2>2 DEF LastLine
  <2>3. ASSUME NEW i \in n + 1 .. k  PROVE i \in LastLine(d, a, k)
    BY <1>0, <2>3 DEF LastLine
  <2> QED  BY <2>1, <2>2, <2>3
<1>4. LastLine(d, a, n) \subseteq a .. n  BY DEF LastLine
<1> DEFINE T == {i \in LastLine(d, a, n) : d[i] \notin Continuations}
           U == {i \in n + 1 .. k : d[i] \notin Continuations}
           V == {i \in LastLine(d, a, n) : d[i] = "F0"}
           W == {i \in n + 1 .. k : d[i] = "F0"}
           B == Cardinality(Breaks(d, a, n))
<1>5. /\ {i \in LastLine(d, a, k) : d[i] \notin Continuations} = T \cup U
      /\ {i \in LastLine(d, a, k) : d[i] = "F0"} = V \cup W
  BY <1>3, Zenon
<1>6. T \subseteq a .. n /\ U \subseteq n + 1 .. k /\ V \subseteq a .. n /\ W \subseteq n + 1 .. k
  BY <1>4
<1>7. Position(d, a, n) = [line |-> 1 + B, column |-> 1 + Cardinality(T) + Cardinality(V)]
  BY Zenon DEF Position
<1>8. Position(d, a, k) = [line |-> 1 + B, column |-> 1 + Cardinality(T \cup U) + Cardinality(V \cup W)]
  BY <1>2, <1>5, Zenon DEF Position
<1>9. UnitsAt(d, n + 1, k) = Cardinality(U) + Cardinality(W)  BY Zenon DEF UnitsAt
<1>10. B \in Nat
  <2>1. Breaks(d, a, n) \subseteq a .. n /\ IsFiniteSet(a .. n)  BY FS_Interval DEF Breaks
  <2> QED  BY <2>1, FS_Subset, FS_CardinalityType
<1> HIDE DEF T, U, V, W, B
<1>11. /\ Cardinality(T) \in Nat /\ Cardinality(U) \in Nat
       /\ Cardinality(T \cup U) = Cardinality(T) + Cardinality(U)
       /\ Cardinality(V) \in Nat /\ Cardinality(W) \in Nat
       /\ Cardinality(V \cup W) = Cardinality(V) + Cardinality(W)
  BY <1>1, <1>6
<1> QED  BY <1>7, <1>8, <1>9, <1>10, <1>11

\* The line ends among the bytes n + 1 .. k of d, and the bytes after the last.
BreaksIn(d, a, n, k) == {i \in n + 1 .. k : d[i] = "CR" \/ (d[i] = "LF" /\ ~(i > a /\ d[i - 1] = "CR"))}
SpacesIn(d, n, k) == {i \in n + 1 .. k : \A j \in i .. k : d[j] = "SP"}
AllSpace(d, a, b) == \A i \in a .. b : d[i] \in Whitespaces

\* What whitespace does to the position: each line end begins a line, an LF
\* that follows a CR does not end one again.
LEMMA PositionSpace ==
  ASSUME NEW d, NEW a \in Nat, NEW n \in Nat, NEW k \in Nat, a <= n + 1, n < k, AllSpace(d, n + 1, k)
  PROVE  /\ Position(d, a, k).line = Position(d, a, n).line + Cardinality(BreaksIn(d, a, n, k))
         /\ Position(d, a, k).column =
              IF Cardinality(SpacesIn(d, n, k)) = k - n THEN Position(d, a, n).column + (k - n)
              ELSE 1 + Cardinality(SpacesIn(d, n, k))
<1> DEFINE B == BreaksIn(d, a, n, k)
           S == SpacesIn(d, n, k)
<1>8. B = {i \in n + 1 .. k : d[i] = "CR" \/ (d[i] = "LF" /\ ~(i > a /\ d[i - 1] = "CR"))}
  BY DEF BreaksIn
<1>9. S = {i \in n + 1 .. k : \A j \in i .. k : d[j] = "SP"}  BY DEF SpacesIn
<1>10. \A i \in n + 1 .. k : d[i] \in Whitespaces  BY DEF AllSpace
<1> HIDE DEF B, S
<1>1. IsFiniteSet(a .. n) /\ IsFiniteSet(n + 1 .. k)  BY FS_Interval
<1>2. Cardinality(n + 1 .. k) = k - n
  <2>1. Cardinality(n + 1 .. k) = IF n + 1 > k THEN 0 ELSE k - (n + 1) + 1  BY FS_Interval
  <2> QED  BY <2>1
<1>3. S \subseteq n + 1 .. k /\ B \subseteq n + 1 .. k  BY <1>8, <1>9
<1>4. IsFiniteSet(S) /\ IsFiniteSet(B) /\ Cardinality(S) \in Nat /\ Cardinality(B) \in Nat
  BY <1>1, <1>3, FS_Subset, FS_CardinalityType
<1>5. Position(d, a, k).line = Position(d, a, n).line + Cardinality(B)
  <2> DEFINE T == Breaks(d, a, n)
  <2>1. Breaks(d, a, k) = T \cup B /\ T \cap B = {} /\ T \subseteq a .. n  BY <1>8 DEF Breaks
  <2>2. Position(d, a, k).line = 1 + Cardinality(T \cup B) /\ Position(d, a, n).line = 1 + Cardinality(T)
    BY <2>1, Zenon DEF Position
  <2> HIDE DEF T
  <2>3. IsFiniteSet(T) /\ Cardinality(T) \in Nat  BY <1>1, <2>1, FS_Subset, FS_CardinalityType
  <2>4. Cardinality(T \cup B) = Cardinality(T) + Cardinality(B) - Cardinality(T \cap B)
    BY <1>4, <2>3, FS_Union
  <2>5. Cardinality(T \cap B) = 0  BY <2>1, FS_EmptySet
  <2> QED  BY <1>4, <2>2, <2>3, <2>4, <2>5
<1>6. CASE Cardinality(S) = k - n
  <2>1. S = n + 1 .. k  BY <1>1, <1>2, <1>3, <1>6, FS_Subset
  <2>2. \A i \in n + 1 .. k : d[i] = "SP"
    <3> TAKE i \in n + 1 .. k
    <3>1. i \in S /\ i \in i .. k  BY <2>1
    <3> QED  BY <1>9, <3>1
  <2>3. \A i \in n + 1 .. k : d[i] \notin LineEnds /\ d[i] \notin Continuations \cup {"F0"}
    BY <2>2 DEF LineEnds, Continuations
  <2>4. UnitsAt(d, n + 1, k) = k - n
    <3>1. UnitsAt(d, n + 1, k) = k - (n + 1) + 1  BY <2>3, UnitsSingle
    <3> QED  BY <3>1
  <2>5. Position(d, a, k).column = Position(d, a, n).column + UnitsAt(d, n + 1, k)
    <3>1. n <= k /\ OneLine(d, n + 1, k)  BY <2>3 DEF OneLine
    <3> QED  BY <3>1, PositionRight
  <2>6. Position(d, a, k).column = Position(d, a, n).column + (k - n)  BY <2>4, <2>5, Zenon
  <2> QED  BY <1>5, <1>6, <2>6, Zenon DEF B, S
<1>7. CASE Cardinality(S) # k - n
  <2>1. S # n + 1 .. k  BY <1>2, <1>7
  <2>2. PICK j \in n + 1 .. k : d[j] # "SP"  BY <1>9, <2>1
  <2>3. d[j] \in LineEnds  BY <1>10, <2>2 DEF Whitespaces, LineEnds
  <2>4. \A i \in n + 1 .. k : d[i] = "SP" <=> d[i] \notin LineEnds
    BY <1>10 DEF Whitespaces, LineEnds
  <2>5. LastLine(d, a, k) = S
    <3>1. ASSUME NEW i \in LastLine(d, a, k)  PROVE i \in S
      <4>1. i \in a .. k /\ \A m \in i .. k : d[m] \notin LineEnds  BY <3>1 DEF LastLine
      <4>2. i > j  BY <2>3, <4>1
      <4>3. \A m \in i .. k : m \in n + 1 .. k  BY <4>1, <4>2
      <4> QED  BY <1>9, <2>4, <4>1, <4>2, <4>3
    <3>2. ASSUME NEW i \in S  PROVE i \in LastLine(d, a, k)
      <4>1. i \in n + 1 .. k /\ \A m \in i .. k : d[m] = "SP"  BY <1>9, <3>2
      <4>2. \A m \in i .. k : m \in n + 1 .. k  BY <4>1
      <4>3. i \in a .. k  BY <4>1
      <4> QED  BY <2>4, <4>1, <4>2, <4>3 DEF LastLine
    <3> QED  BY <3>1, <3>2
  <2>6. \A i \in S : d[i] = "SP"
    <3> TAKE i \in S
    <3>1. i \in i .. k /\ \A m \in i .. k : d[m] = "SP"  BY <1>9
    <3> QED  BY <3>1
  <2>7. {i \in S : d[i] \notin Continuations} = S /\ {i \in S : d[i] = "F0"} = {}
    BY <2>6 DEF Continuations
  <2>8. Position(d, a, k).column = 1 + Cardinality(S) + Cardinality({})
    BY <2>5, <2>7 DEF Position
  <2>9. Position(d, a, k).column = 1 + Cardinality(S)  BY <1>4, <2>8, FS_EmptySet
  <2> QED  BY <1>5, <1>7, <2>9, Zenon DEF B, S
<1> QED  BY <1>6, <1>7 DEF B, S

\* The bytes that come after it do not matter, nor does where a document
\* that has settled whether it has a mark goes on.
TextStart(d) == IF Len(d) >= 3 /\ SubSeq(d, 1, 3) = <<"EF", "BB", "BF">> THEN 4 ELSE 1
Settled(d) == d # <<>> /\ (d[1] # "EF" \/ Len(d) >= 3 \/ (Len(d) = 2 /\ d[2] # "BB"))

LEMMA PositionIs ==
  \A n : PositionAt(n) = Position(doc, TextStart(doc), n)
BY Zenon DEF PositionAt, Position, TextStart, Breaks, LastLine, LineEnds

\* The position at the beginning of the text.
LEMMA PositionFirst ==
  ASSUME NEW d, NEW a \in Nat, NEW n \in Int, n < a
  PROVE  Position(d, a, n) = NewLocator
<1>1. Breaks(d, a, n) = {} /\ LastLine(d, a, n) = {}  BY DEF Breaks, LastLine
<1>2. /\ {i \in LastLine(d, a, n) : d[i] \notin Continuations} = {}
      /\ {i \in LastLine(d, a, n) : d[i] = "F0"} = {}
  BY <1>1
<1>3. Cardinality({}) = 0  BY FS_EmptySet
<1>4. Position(d, a, n) = [line |-> 1 + Cardinality({}), column |-> 1 + Cardinality({}) + Cardinality({})]
  BY <1>1, <1>2, Zenon DEF Position
<1> QED  BY <1>3, <1>4 DEF NewLocator

-----------------------------------------------------------------------------
(* Where the call is in the document                                       *)

FigureBytes == Digits \cup {"-", "+", ".", "e"}

\* How many bytes of the document were released from the ring, and how many
\* have been consumed; the last of them may be a number that has not ended.
Released == Len(doc) - Len(ring)
Passed == Released + call.consumed
Pending == IF tok.stage = "None" THEN 0 ELSE tok.length

Spot == PositionAt(Passed - Pending)

\* The ring holds the end of the document.
Placed ==
  /\ Released \in Nat
  /\ \A i \in 1 .. Len(ring) : ring[i] = doc[Released + i]
  /\ call.pc \in {"idle", "finish"} => call.consumed = 0

\* There is a tokenizer as soon as it is settled whether there is a mark.
Started ==
  /\ parser.live <=> parser.checked_bom
  /\ ~parser.live => Passed = 0 /\ loc = NewLocator /\ tok.stage = "None" /\ ~tok.after_cr
  /\ parser.live => Settled(doc) /\ TextStart(doc) <= Passed - Pending + 1
  /\ \A i \in Passed - Pending + 1 .. Passed : doc[i] \in FigureBytes

\* after_cr is the truth about the last byte consumed, unless it has been
\* seen that no LF follows.
CRSeen ==
  /\ tok.after_cr => TextStart(doc) <= Passed /\ doc[Passed] = "CR"
  /\ TextStart(doc) <= Passed /\ doc[Passed] = "CR" /\ ~tok.after_cr =>
       Passed < Len(doc) /\ doc[Passed + 1] # "LF"

Pinned == Placed /\ Started /\ CRSeen

\* The numbers this is about.
LEMMA PinnedFacts ==
  ASSUME TypeOK, Pinned
  PROVE  /\ Released \in Nat /\ call.consumed \in Nat /\ Pending \in Nat /\ Passed \in Nat
         /\ TextStart(doc) \in Nat /\ 1 <= TextStart(doc) /\ Len(doc) \in Nat /\ Len(ring) \in Nat
         /\ Passed <= Len(doc) /\ call.consumed <= Len(ring) /\ Released + Len(ring) = Len(doc)
         /\ TextStart(doc) <= Passed - Pending + 1 \/ (Passed = 0 /\ Pending = 0)
<1>1. call.consumed \in Nat /\ call.consumed <= Len(ring) /\ Len(ring) \in Nat /\ tok.length \in Nat
  BY TypeFacts, CallFields, TokenizerFields DEF CallInRing
<1>2. Len(doc) \in Nat  BY CallerFacts, LenProperties
<1>3. Released \in Nat  BY DEF Pinned, Placed
<1>4. TextStart(doc) \in Nat /\ 1 <= TextStart(doc)  BY DEF TextStart
<1>5. Pending \in Nat  BY <1>1 DEF Pending
<1>6. Released + Len(ring) = Len(doc)  BY <1>1, <1>2 DEF Released
<1>7. TextStart(doc) <= Passed - Pending + 1 \/ (Passed = 0 /\ Pending = 0)
  BY DEF Pinned, Started, Pending
<1> QED  BY <1>1, <1>2, <1>3, <1>4, <1>5, <1>6, <1>7 DEF Passed

\* How a step may move on: not at all, over bytes of a token, over bytes of a
\* number, or to its end.
Stays ==
  /\ call'.consumed = call.consumed /\ UNCHANGED loc
  /\ tok'.stage = tok.stage /\ tok'.length = tok.length
  /\ \/ tok'.after_cr = tok.after_cr
     \/ ~tok'.after_cr /\ BetweenTokens /\ CurrentByte \notin Whitespaces

Takes(m) ==
  /\ call'.consumed = call.consumed + m /\ call.consumed + m <= Len(ring)
  /\ tok.stage = "None" /\ tok'.stage = "None"
  /\ ~tok'.after_cr /\ (m = 0 => ~tok.after_cr)
  /\ OneLine(ring, call.consumed + 1, call.consumed + m)
  /\ loc' = Right(UnitsAt(ring, call.consumed + 1, call.consumed + m)) \/ (Repeats /\ UNCHANGED loc)

GrowsBy(m) ==
  /\ call'.consumed = call.consumed + m /\ call.consumed + m <= Len(ring)
  /\ 1 <= m /\ Pending' = Pending + m /\ tok'.stage # "None"
  /\ ~tok'.after_cr /\ UNCHANGED loc
  /\ \A i \in call.consumed + 1 .. call.consumed + m : ring[i] \in FigureBytes

Ended ==
  /\ call'.consumed = call.consumed /\ tok.stage # "None" /\ tok'.stage = "None"
  /\ ~tok'.after_cr /\ ~tok.after_cr
  /\ loc' = Right(tok.length)

\* The bytes of the document a call has in front of it.
LEMMA AheadIs ==
  ASSUME TypeOK, Pinned, NEW m \in Nat, call.consumed + m <= Len(ring)
  PROVE  /\ \A i \in call.consumed + 1 .. call.consumed + m :
              i \in 1 .. Len(ring) /\ doc[i + Released] = ring[i]
         /\ \A i \in Passed + 1 .. Passed + m :
              /\ i - Released \in call.consumed + 1 .. call.consumed + m
              /\ doc[i] = ring[i - Released]
         /\ UnitsAt(doc, Passed + 1, Passed + m) = UnitsAt(ring, call.consumed + 1, call.consumed + m)
<1> DEFINE R == Released
           c == call.consumed
<1>0. c \in Nat /\ R \in Nat /\ Len(ring) \in Nat /\ Passed = R + c  BY PinnedFacts DEF Passed
<1>1. \A i \in 1 .. Len(ring) : doc[R + i] = ring[i]  BY DEF Pinned, Placed
<1> HIDE DEF R, c
<1>2. \A i \in c + 1 .. c + m : i \in 1 .. Len(ring) /\ doc[i + R] = ring[i]
  <2> TAKE i \in c + 1 .. c + m
  <2>1. i \in 1 .. Len(ring) /\ R + i = i + R  BY <1>0 DEF c
  <2> QED  BY <1>1, <2>1
<1>3. \A i \in Passed + 1 .. Passed + m : i - R \in c + 1 .. c + m /\ doc[i] = ring[i - R]
  <2> TAKE i \in Passed + 1 .. Passed + m
  <2> DEFINE j == i - R
  <2>1. j \in c + 1 .. c + m /\ j + R = i  BY <1>0
  <2> HIDE DEF j
  <2>2. doc[i] = ring[j]  BY <1>2, <2>1, Zenon
  <2> QED  BY <2>1, <2>2 DEF j
<1>4. UnitsAt(doc, c + 1 + R, c + m + R) = UnitsAt(ring, c + 1, c + m)
  <2>1. c + 1 \in Int /\ c + m \in Int /\ R \in Int  BY <1>0
  <2>2. Moved(ring, doc, c + 1, c + m, R)  BY <1>2 DEF Moved
  <2> QED  BY <2>1, <2>2, UnitsMoved
<1>5. c + 1 + R = Passed + 1 /\ c + m + R = Passed + m  BY <1>0
<1> QED  BY <1>2, <1>3, <1>4, <1>5 DEF c, R

\* PositionRight, for the position at the spot.
LEMMA SpotRight ==
  ASSUME loc \in Locators, loc' \in Locators, NEW d, NEW a \in Nat, NEW n \in Nat, NEW k \in Nat,
         a <= n + 1, n <= k, OneLine(d, n + 1, k),
         loc = Position(d, a, n), loc' = Right(UnitsAt(d, n + 1, k))
  PROVE  loc' = Position(d, a, k)
<1>1. /\ Position(d, a, k).line = Position(d, a, n).line
      /\ Position(d, a, k).column = Position(d, a, n).column + UnitsAt(d, n + 1, k)
  BY PositionRight
<1>2. loc'.line = loc.line /\ loc'.column = loc.column + UnitsAt(d, n + 1, k)
  BY Zenon DEF Right, Locators
<1>3. loc' = [line |-> loc'.line, column |-> loc'.column]  BY DEF Locators
<1>4. Position(d, a, k) = [line |-> Position(d, a, k).line, column |-> Position(d, a, k).column]
  BY Zenon DEF Position
<1> QED  BY <1>1, <1>2, <1>3, <1>4

\* What a step of the tokenizer leaves alone of it.
Outer == UNCHANGED <<ring, doc, parser>> /\ call'.pc \in InTokenizer \cup {"fed"}

LEMMA OuterKeeps ==
  ASSUME TypeOK, Pinned, Outer
  PROVE  Placed' /\ Released' = Released /\ (parser.live => Settled(doc)')
         /\ (parser'.live <=> parser'.checked_bom)
<1>1. Released' = Released  BY DEF Outer, Released
<1>2. call'.pc \notin {"idle", "finish"}  BY DEF Outer, InTokenizer
<1>3. Placed'  BY <1>1, <1>2 DEF Placed, Pinned, Outer
<1> QED  BY <1>1, <1>3 DEF Pinned, Started, Outer

\* A step that does not move.
LEMMA StaysPinned ==
  ASSUME TypeOK, Pinned, Outer, parser.live, Stays
  PROVE  Pinned' /\ (loc = Spot => loc' = Spot')
<1>1. Released' = Released /\ Placed'  BY OuterKeeps
<1>2. Passed' = Passed /\ Pending' = Pending  BY <1>1 DEF Stays, Passed, Pending
<1>3. UNCHANGED <<doc, parser>>  BY DEF Outer
<1>4. Started'  BY <1>2, <1>3 DEF Started, Pinned
<1>5. CRSeen'
  <2>1. CASE tok'.after_cr = tok.after_cr  BY <1>2, <1>3, <2>1 DEF CRSeen, Pinned
  <2>2. CASE ~tok'.after_cr /\ BetweenTokens /\ CurrentByte \notin Whitespaces
    <3>1. call.consumed < Len(ring)  BY <2>2 DEF BetweenTokens, Total
    <3>2. doc[Released + (call.consumed + 1)] = CurrentByte
      <4>1. call.consumed + 1 \in 1 .. Len(ring)  BY <3>1, PinnedFacts
      <4>2. ring[call.consumed + 1] = doc[Released + (call.consumed + 1)]  BY <4>1 DEF Pinned, Placed
      <4> QED  BY <4>2 DEF CurrentByte, At, Byte
    <3>3. Released + (call.consumed + 1) = Passed + 1 /\ Passed < Len(doc)
      BY <3>1, PinnedFacts DEF Passed
    <3>4. doc[Passed + 1] # "LF"  BY <2>2, <3>2, <3>3 DEF Whitespaces
    <3> QED  BY <1>2, <1>3, <2>2, <3>3, <3>4 DEF CRSeen
  <2> QED  BY <2>1, <2>2 DEF Stays
<1>6. Spot' = Spot  BY <1>2, <1>3 DEF Spot, PositionAt
<1> QED  BY <1>1, <1>4, <1>5, <1>6 DEF Pinned, Stays

\* A step over bytes of a token.
LEMMA TakesPinned ==
  ASSUME TypeOK, TypeOK', Pinned, Outer, parser.live, NEW m \in Nat, Takes(m)
  PROVE  Pinned' /\ (loc = Spot => loc' = Spot' \/ Repeats)
<1>1. Released' = Released /\ Placed' /\ UNCHANGED <<doc, parser, ring>>  BY OuterKeeps DEF Outer
<1>2. Pending = 0 /\ Pending' = 0  BY DEF Takes, Pending
<1>3. /\ Passed \in Nat /\ TextStart(doc) \in Nat /\ TextStart(doc) <= Passed + 1
      /\ Released \in Nat /\ call.consumed \in Nat
  BY <1>2, PinnedFacts DEF Pinned, Started
<1>4. Passed' = Passed + m  BY <1>1, <1>3 DEF Takes, Passed
<1>5. /\ \A i \in Passed + 1 .. Passed + m :
           i - Released \in call.consumed + 1 .. call.consumed + m /\ doc[i] = ring[i - Released]
      /\ UnitsAt(doc, Passed + 1, Passed + m) = UnitsAt(ring, call.consumed + 1, call.consumed + m)
  BY AheadIs DEF Takes
<1>6. OneLine(doc, Passed + 1, Passed + m)  BY <1>5 DEF OneLine, Takes
<1>7. Started'
  <2>1. TextStart(doc) <= Passed' - Pending' + 1  BY <1>2, <1>3, <1>4
  <2>2. \A i \in Passed' - Pending' + 1 .. Passed' : FALSE  BY <1>2, <1>3, <1>4
  <2> QED  BY <1>1, <2>1, <2>2 DEF Started, Pinned
<1>8. CRSeen'
  <2>1. CASE m = 0  BY <1>1, <1>3, <1>4, <2>1 DEF CRSeen, Pinned, Takes
  <2>2. CASE m # 0
    <3>1. Passed + m \in Passed + 1 .. Passed + m  BY <1>3, <2>2
    <3>2. doc[Passed + m] # "CR"  BY <1>6, <3>1 DEF OneLine, LineEnds
    <3> QED  BY <1>1, <1>4, <3>2 DEF CRSeen, Takes
  <2> QED  BY <2>1, <2>2
<1>9. ASSUME loc = Spot, ~Repeats  PROVE loc' = Spot'
  <2>1. loc' = Right(UnitsAt(doc, Passed + 1, Passed + m))  BY <1>5, <1>9 DEF Takes
  <2>2. loc = Position(doc, TextStart(doc), Passed)
    BY <1>2, <1>3, <1>9, PositionIs DEF Spot
  <2>3. loc \in Locators /\ loc' \in Locators  BY DEF TypeOK, TokenizerTypeOK
  <2> DEFINE k == Passed + m
  <2>4. k \in Nat /\ Passed <= k  BY <1>3
  <2>5. loc' = Right(UnitsAt(doc, Passed + 1, k)) /\ OneLine(doc, Passed + 1, k)  BY <2>1, <1>6
  <2>6. Passed' - Pending' = k  BY <1>2, <1>3, <1>4
  <2> HIDE DEF k
  <2>7. loc' = Position(doc, TextStart(doc), k)  BY <1>3, <2>2, <2>3, <2>4, <2>5, SpotRight
  <2>8. Spot' = Position(doc, TextStart(doc), k)
    <3>1. Spot' = Position(doc', TextStart(doc'), Passed' - Pending')
      BY Zenon DEF Spot, PositionAt, Position, TextStart, Breaks, LastLine, LineEnds
    <3> QED  BY <1>1, <2>6, <3>1
  <2> QED  BY <2>7, <2>8
<1> QED  BY <1>1, <1>7, <1>8, <1>9 DEF Pinned

\* A step over bytes of a number: its position stays where it began.
LEMMA GrowsPinned ==
  ASSUME TypeOK, TypeOK', Pinned, Outer, parser.live, NEW m \in Nat, GrowsBy(m)
  PROVE  Pinned' /\ (loc = Spot => loc' = Spot')
<1>1. Released' = Released /\ Placed' /\ UNCHANGED <<doc, parser, ring, loc>>  BY OuterKeeps DEF Outer, GrowsBy
<1>2. /\ Passed \in Nat /\ TextStart(doc) \in Nat /\ TextStart(doc) <= Passed - Pending + 1
      /\ Released \in Nat /\ call.consumed \in Nat /\ Pending \in Nat
  BY PinnedFacts DEF Pinned, Started
<1>3. Passed' = Passed + m /\ Pending' = Pending + m  BY <1>1, <1>2 DEF GrowsBy, Passed
<1>4. Passed' - Pending' = Passed - Pending  BY <1>2, <1>3
<1>5. \A i \in Passed + 1 .. Passed + m : doc[i] \in FigureBytes
  <2> TAKE i \in Passed + 1 .. Passed + m
  <2>1. i - Released \in call.consumed + 1 .. call.consumed + m /\ doc[i] = ring[i - Released]
    BY AheadIs DEF GrowsBy
  <2> QED  BY <2>1 DEF GrowsBy
<1>6. Started'
  <2>1. \A i \in Passed' - Pending' + 1 .. Passed' : doc[i] \in FigureBytes
    <3> TAKE i \in Passed' - Pending' + 1 .. Passed'
    <3>1. i \in Passed - Pending + 1 .. Passed \/ i \in Passed + 1 .. Passed + m  BY <1>2, <1>3
    <3> QED  BY <1>5, <3>1 DEF Pinned, Started
  <2> QED  BY <1>1, <1>2, <1>4, <2>1 DEF Started, Pinned
<1>7. CRSeen'
  <2>1. Passed + m \in Passed + 1 .. Passed + m  BY <1>2 DEF GrowsBy
  <2>2. doc[Passed + m] # "CR"  BY <1>5, <2>1 DEF FigureBytes, Digits
  <2> QED  BY <1>1, <1>3, <2>2 DEF CRSeen, GrowsBy
<1>8. Spot' = Spot  BY <1>1, <1>4 DEF Spot, PositionAt
<1> QED  BY <1>1, <1>6, <1>7, <1>8 DEF Pinned

\* The bytes of a number are one unit each, so at its end the position is
\* right again.
LEMMA EndedPinned ==
  ASSUME TypeOK, TypeOK', Pinned, parser.live, UNCHANGED <<doc, parser, ring>>, Placed', Ended
  PROVE  Pinned' /\ (loc = Spot => loc' = Spot')
<1>1. Released' = Released  BY DEF Released
<1>2. /\ Passed \in Nat /\ TextStart(doc) \in Nat /\ TextStart(doc) <= Passed - Pending + 1
      /\ Released \in Nat /\ call.consumed \in Nat /\ Pending \in Nat /\ Pending = tok.length
  BY PinnedFacts DEF Pinned, Started, Ended, Pending
<1>3. Passed' = Passed /\ Pending' = 0  BY <1>1 DEF Ended, Passed, Pending
<1> DEFINE n == Passed - Pending
<1>4. n \in Nat /\ n <= Passed /\ TextStart(doc) <= n + 1
  <2>1. 1 <= TextStart(doc)  BY PinnedFacts
  <2> QED  BY <1>2, <2>1
<1>5. Started'
  <2>1. TextStart(doc) <= Passed' - Pending' + 1  BY <1>2, <1>3
  <2>2. \A i \in Passed' - Pending' + 1 .. Passed' : FALSE  BY <1>2, <1>3
  <2> QED  BY <2>1, <2>2 DEF Started, Pinned
<1>6. CRSeen'  BY <1>3 DEF CRSeen, Pinned, Ended
<1>7. ASSUME loc = Spot  PROVE loc' = Spot'
  <2>1. loc = Position(doc, TextStart(doc), n)  BY <1>7, PositionIs DEF Spot
  <2>2. \A i \in n + 1 .. Passed : doc[i] \in FigureBytes  BY DEF Pinned, Started
  <2>3. OneLine(doc, n + 1, Passed) /\ \A i \in n + 1 .. Passed : doc[i] \notin Continuations \cup {"F0"}
    BY <2>2 DEF OneLine, LineEnds, FigureBytes, Digits, Continuations
  <2>4. UnitsAt(doc, n + 1, Passed) = tok.length
    <3> HIDE DEF n
    <3>1. UnitsAt(doc, n + 1, Passed) = Passed - (n + 1) + 1
      <4>1. n + 1 \in Int /\ Passed \in Int /\ n + 1 <= Passed + 1  BY <1>2, <1>4
      <4> QED  BY <2>3, <4>1, UnitsSingle
    <3>2. n = Passed - Pending  BY DEF n
    <3> QED  BY <1>2, <3>1, <3>2
  <2>5. loc \in Locators /\ loc' \in Locators  BY DEF TypeOK, TokenizerTypeOK
  <2>6. loc' = Right(UnitsAt(doc, n + 1, Passed))  BY <2>4 DEF Ended
  <2> HIDE DEF n
  <2>7. loc' = Position(doc, TextStart(doc), Passed)  BY <1>2, <1>4, <2>1, <2>3, <2>5, <2>6, SpotRight
  <2>8. Spot' = Position(doc, TextStart(doc), Passed)
    <3>1. Spot' = Position(doc', TextStart(doc'), Passed' - Pending')
      BY Zenon DEF Spot, PositionAt, Position, TextStart, Breaks, LastLine, LineEnds
    <3>2. Passed' - Pending' = Passed  BY <1>2, <1>3
    <3> QED  BY <3>1, <3>2
  <2> QED  BY <2>7, <2>8
<1> QED  BY <1>5, <1>6, <1>7 DEF Pinned

\* The offsets U are the offsets T, which lie in c .. b, one after those moved by d.
SameOffsets(T, U, c, b, d) ==
  /\ T \subseteq c .. b
  /\ \A i \in T : i + d + 1 \in U
  /\ \A j \in U : j \in Int /\ j - d - 1 \in T

\* There are as many of them.
LEMMA OffsetsMoved ==
  ASSUME NEW c \in Int, NEW b \in Int, NEW d \in Int, NEW T, NEW U, SameOffsets(T, U, c, b, d)
  PROVE  Cardinality(U) = Cardinality(T)
<1> DEFINE e == d + 1
<1>1. e \in Int /\ T \subseteq c .. b  BY DEF SameOffsets
<1>2. \A i \in T : i + e \in U
  <2> TAKE i \in T
  <2>1. i \in Int /\ i + d + 1 \in U  BY DEF SameOffsets
  <2>2. i + d + 1 = i + e  BY <2>1
  <2> QED  BY <2>1, <2>2
<1>3. \A j \in U : j \in Int /\ j - e \in T
  <2> TAKE j \in U
  <2>1. j \in Int /\ j - d - 1 \in T  BY DEF SameOffsets
  <2>2. j - d - 1 = j - e  BY <2>1
  <2> QED  BY <2>1, <2>2
<1> HIDE DEF e
<1> QED  BY <1>1, <1>2, <1>3, Shifted

\* A run of whitespace.
LEMMA SpacePinned ==
  ASSUME TypeOK, TypeOK', Pinned, Outer, parser.live, Whitespace
  PROVE  Pinned' /\ (loc = Spot => loc' = Spot')
<1> DEFINE c == call.consumed
           R == Released
           A == TextStart(doc)
<1>0. /\ Released' = Released /\ Placed' /\ UNCHANGED <<doc, parser, ring>>
      /\ tok \in Tokenizers /\ call \in Calls /\ loc \in Locators /\ loc' \in Locators
  BY OuterKeeps, TypeFacts DEF Outer, TypeOK, TokenizerTypeOK
<1>1. tok.stage = "None" /\ Pending = 0  BY DEF Whitespace, BetweenTokens, Pending
<1>2. /\ c \in Nat /\ R \in Nat /\ Len(ring) \in Nat /\ Passed = R + c /\ Passed \in Nat
      /\ A \in Nat /\ 1 <= A /\ A <= Passed + 1 /\ Total = Len(ring) /\ Len(doc) = R + Len(ring) /\ Len(doc) \in Nat
  BY <1>1, PinnedFacts DEF Passed, Total, Pinned, Started
<1>3. PICK to \in c + 1 .. Total :
        /\ \A i \in c .. to - 1 : At(i) \in Whitespaces
        /\ to < Total => At(to) \notin Whitespaces
        /\ LET n == to - c
               k == Cardinality(SinceBreak(to))
           IN  loc' = [line |-> loc.line + Cardinality(LineBreaks(to)),
                       column |-> IF k = n THEN loc.column + n ELSE 1 + k]
        /\ tok' = [tok EXCEPT !.after_cr = At(to - 1) = "CR"]
        /\ call' = [call EXCEPT !.consumed = to, !.p = call.consumed, !.to = to,
                                !.pc = IF NeedsWhitespace THEN "space" ELSE "loop"]
  BY DEF Whitespace
<1>4. /\ to \in Nat /\ c < to /\ to <= Len(ring) /\ to - c \in Nat /\ 1 <= to - c
      /\ call'.consumed = to
  <2>1. call'.consumed = to  BY <1>0, <1>3, Zenon DEF Calls
  <2> QED  BY <1>2, <1>3, <2>1
<1>5. tok'.stage = "None" /\ Pending' = 0 /\ tok'.after_cr = (At(to - 1) = "CR")
  <2> DEFINE cr == At(to - 1) = "CR"
  <2>1. tok' = [tok EXCEPT !.after_cr = cr]  BY <1>3
  <2> HIDE DEF cr
  <2>2. tok'.stage = tok.stage /\ tok'.after_cr = cr  BY <1>0, <2>1, Zenon DEF Tokenizers
  <2> QED  BY <1>1, <2>2 DEF Pending, cr
<1> DEFINE P == Passed
           K == R + to
<1>6. P \in Nat /\ K \in Nat /\ P < K /\ P = R + c /\ K <= Len(doc) /\ Passed' = K /\ K - P = to - c
  BY <1>0, <1>2, <1>4 DEF Passed
<1>7. \A i \in 0 .. Len(ring) - 1 : At(i) = doc[i + R + 1]
  <2> TAKE i \in 0 .. Len(ring) - 1
  <2>1. i + 1 \in 1 .. Len(ring) /\ R + (i + 1) = i + R + 1  BY <1>2
  <2>2. ring[i + 1] = doc[R + (i + 1)]  BY <2>1 DEF Pinned, Placed
  <2> QED  BY <2>1, <2>2 DEF At, Byte
<1>18. /\ c \in Nat /\ R \in Nat /\ to \in Nat /\ A \in Nat /\ P \in Nat /\ K \in Nat /\ Len(ring) \in Nat
      /\ P = R + c /\ K = R + to /\ c < to /\ P < K /\ A <= P + 1 /\ to <= Len(ring) /\ K - P = to - c
  BY <1>2, <1>4, <1>6
<1>19. Passed' = K /\ Passed = P /\ K <= Len(doc)  BY <1>6
<1> HIDE DEF R, P, K, A, c
<1>8. \A i \in P + 1 .. K : i - R - 1 \in c .. to - 1 /\ At(i - R - 1) = doc[i] /\ doc[i] \in Whitespaces
  <2> TAKE i \in P + 1 .. K
  <2> DEFINE j == i - R - 1
  <2>1. j \in c .. to - 1 /\ j \in 0 .. Len(ring) - 1 /\ j + R + 1 = i  BY <1>18
  <2> HIDE DEF j
  <2>2. At(j) = doc[i] /\ At(j) \in Whitespaces  BY <1>3, <1>7, <2>1 DEF c
  <2> QED  BY <2>1, <2>2 DEF j
<1>9. ASSUME NEW i \in c .. to - 1, NEW j, j = i + R + 1
      PROVE  j \in P + 1 .. K /\ i \in 0 .. Len(ring) - 1 /\ At(i) = doc[j]
  <2>1. j \in P + 1 .. K /\ i \in 0 .. Len(ring) - 1  BY <1>18, <1>9
  <2> QED  BY <1>7, <1>9, <2>1
<1>10. ASSUME NEW i \in c .. to - 1, NEW j, j = i + R + 1, At(i) = "LF"
       PROVE  AfterCR(i) <=> j > A /\ doc[j - 1] = "CR"
  <2>1. CASE i = c
    <3>1. j = P + 1 /\ j - 1 = P  BY <1>10, <1>18, <2>1
    <3>2. j > A <=> A <= P  BY <1>18, <3>1
    <3>3. doc[P + 1] = "LF"  BY <1>9, <1>10, <3>1
    <3>4. AfterCR(i) <=> tok.after_cr  BY <2>1 DEF AfterCR, c
    <3> QED  BY <1>19, <3>1, <3>2, <3>3, <3>4 DEF CRSeen, Pinned, A
  <2>2. CASE i # c
    <3>1. i - 1 \in c .. to - 1 /\ j - 1 = (i - 1) + R + 1  BY <1>10, <1>18, <2>2
    <3>2. At(i - 1) = doc[j - 1]  BY <1>9, <3>1
    <3>3. j > A  BY <1>10, <1>18, <2>2, <3>1
    <3> QED  BY <2>2, <3>2, <3>3 DEF AfterCR, c
  <2> QED  BY <2>1, <2>2
<1> DEFINE B == BreaksIn(doc, A, P, K)
           S == SpacesIn(doc, P, K)
<1>11. Cardinality(B) = Cardinality(LineBreaks(to))
  <2> DEFINE T == LineBreaks(to)
  <2>1. T \subseteq c .. to - 1  BY DEF LineBreaks, c
  <2>2. ASSUME NEW i \in T  PROVE i + R + 1 \in B
    <3> DEFINE j == i + R + 1
    <3>1. i \in c .. to - 1 /\ (At(i) = "CR" \/ (At(i) = "LF" /\ ~AfterCR(i)))  BY DEF LineBreaks, c
    <3>2. j = i + R + 1  OBVIOUS
    <3> HIDE DEF j
    <3>3. j \in P + 1 .. K /\ At(i) = doc[j]  BY <1>9, <3>1, <3>2
    <3>4. At(i) = "LF" => (AfterCR(i) <=> j > A /\ doc[j - 1] = "CR")  BY <1>10, <3>1, <3>2
    <3> QED  BY <3>1, <3>3, <3>4, Zenon DEF BreaksIn, j
  <2>3. ASSUME NEW j \in B  PROVE j \in Int /\ j - R - 1 \in T
    <3> DEFINE i == j - R - 1
    <3>1. j \in P + 1 .. K /\ (doc[j] = "CR" \/ (doc[j] = "LF" /\ ~(j > A /\ doc[j - 1] = "CR")))
      BY Zenon DEF BreaksIn
    <3>2. i \in c .. to - 1 /\ j = i + R + 1 /\ j \in Int  BY <1>18, <3>1
    <3> HIDE DEF i
    <3>3. At(i) = doc[j]  BY <1>9, <3>2
    <3>4. At(i) = "LF" => (AfterCR(i) <=> j > A /\ doc[j - 1] = "CR")  BY <1>10, <3>2
    <3>5. i \in T  BY <3>1, <3>2, <3>3, <3>4, Zenon DEF LineBreaks, c
    <3> QED  BY <3>2, <3>5 DEF i
  <2> HIDE DEF B, T
  <2>4. SameOffsets(T, B, c, to - 1, R)  BY <2>1, <2>2, <2>3, Zenon DEF SameOffsets
  <2>6. c \in Int /\ to - 1 \in Int /\ R \in Int  BY <1>18
  <2>5. Cardinality(B) = Cardinality(T)  BY <2>4, <2>6, OffsetsMoved
  <2> QED  BY <2>5 DEF T
<1>12. Cardinality(S) = Cardinality(SinceBreak(to))
  <2> DEFINE T == SinceBreak(to)
  <2>1. T \subseteq c .. to - 1  BY DEF SinceBreak, c
  <2>2. ASSUME NEW i \in T  PROVE i + R + 1 \in S
    <3>1. i \in c .. to - 1 /\ \A j \in i .. to - 1 : At(j) = "SP"  BY DEF SinceBreak, c
    <3>2. i + R + 1 \in P + 1 .. K  BY <1>9, <3>1
    <3>3. ASSUME NEW j \in i + R + 1 .. K  PROVE doc[j] = "SP"
      <4> DEFINE k == j - R - 1
      <4>1. k \in i .. to - 1 /\ k \in c .. to - 1 /\ j = k + R + 1  BY <1>18, <3>1, <3>2, <3>3
      <4> HIDE DEF k
      <4>2. At(k) = doc[j]  BY <1>9, <4>1
      <4> QED  BY <3>1, <4>1, <4>2
    <3> QED  BY <3>2, <3>3 DEF SpacesIn
  <2>3. ASSUME NEW j \in S  PROVE j \in Int /\ j - R - 1 \in T
    <3> DEFINE i == j - R - 1
    <3>1. j \in P + 1 .. K /\ \A k \in j .. K : doc[k] = "SP"  BY DEF SpacesIn
    <3>2. i \in c .. to - 1 /\ j = i + R + 1 /\ j \in Int  BY <1>18, <3>1
    <3> HIDE DEF i
    <3>3. ASSUME NEW k \in i .. to - 1  PROVE At(k) = "SP"
      <4> DEFINE l == k + R + 1
      <4>1. k \in c .. to - 1 /\ l \in j .. K /\ l = k + R + 1  BY <1>18, <3>1, <3>2
      <4> HIDE DEF l
      <4>2. At(k) = doc[l]  BY <1>9, <4>1
      <4> QED  BY <3>1, <4>1, <4>2
    <3>4. i \in T  BY <3>2, <3>3 DEF SinceBreak, c
    <3> QED  BY <3>2, <3>4 DEF i
  <2> HIDE DEF S, T
  <2>4. SameOffsets(T, S, c, to - 1, R)  BY <2>1, <2>2, <2>3, Zenon DEF SameOffsets
  <2>6. c \in Int /\ to - 1 \in Int /\ R \in Int  BY <1>18
  <2>5. Cardinality(S) = Cardinality(T)  BY <2>4, <2>6, OffsetsMoved
  <2> QED  BY <2>5 DEF T
<1>13. /\ Position(doc, A, K).line = Position(doc, A, P).line + Cardinality(B)
       /\ Position(doc, A, K).column =
            IF Cardinality(S) = K - P THEN Position(doc, A, P).column + (K - P) ELSE 1 + Cardinality(S)
  <2>1. AllSpace(doc, P + 1, K)  BY <1>8 DEF AllSpace
  <2> QED  BY <1>18, <2>1, PositionSpace
<1> HIDE DEF B, S
<1>14. ASSUME loc = Spot  PROVE loc' = Spot'
  <2>1. Spot = Position(doc, A, P)
    <3>1. Passed - Pending = P  BY <1>1, <1>19, <1>18
    <3> QED  BY <3>1, PositionIs DEF Spot, A
  <2>2. Spot' = Position(doc, A, K)
    <3>1. Spot' = Position(doc', TextStart(doc'), Passed' - Pending')
      BY Zenon DEF Spot, PositionAt, Position, TextStart, Breaks, LastLine, LineEnds
    <3>2. Passed' - Pending' = K  BY <1>5, <1>19, <1>18
    <3> QED  BY <1>0, <3>1, <3>2 DEF A
  <2>3. loc' = [line |-> Position(doc, A, P).line + Cardinality(B),
                column |-> IF Cardinality(S) = K - P THEN Position(doc, A, P).column + (K - P)
                           ELSE 1 + Cardinality(S)]
    BY <1>3, <1>18, <1>11, <1>12, <1>14, <2>1, Zenon DEF c
  <2>4. Position(doc, A, K) = [line |-> Position(doc, A, K).line, column |-> Position(doc, A, K).column]
    BY Zenon DEF Position
  <2> QED  BY <1>13, <2>2, <2>3, <2>4, Zenon
<1>15. Started'
  <2>1. A <= Passed' - Pending' + 1  BY <1>5, <1>19, <1>18
  <2>2. \A i \in Passed' - Pending' + 1 .. Passed' : FALSE  BY <1>5, <1>19, <1>18
  <2> QED  BY <1>0, <2>1, <2>2 DEF Started, Pinned, A
<1>16. CRSeen'
  <2>1. At(to - 1) = doc[K]
    <3>1. to - 1 \in c .. to - 1 /\ to - 1 + R + 1 = K  BY <1>18
    <3> QED  BY <1>9, <3>1
  <2>2. A <= K  BY <1>18
  <2> QED  BY <1>0, <1>5, <1>19, <2>1, <2>2 DEF CRSeen, A
<1> QED  BY <1>0, <1>14, <1>15, <1>16 DEF Pinned

-----------------------------------------------------------------------------
(* What the quiet steps do to it                                           *)

\* The steps after which a call may be in the middle of a string's run or of
\* a key; the other quiet steps leave both, or the call as it is.
Scans ==
  StringRun \/ KeyRun \/ DecodeSlice \/ PushChar \/ KeyFound \/ KeyRunDone \/ KeyEscape

ScansNothing(c) == c.key = "none" /\ c.pc \notin {"run", "char"}

\* What the ways to end it do to a call.
LEMMA FailedScansNothing ==
  ASSUME call \in Calls, NEW n, NEW error, call' = Failed(n, error)
  PROVE  ScansNothing(call')
<1>1. call'.key = "none" /\ call'.pc = "fed"  BY Zenon DEF Failed, Calls
<1> QED  BY <1>1 DEF ScansNothing

LEMMA FailedStays ==
  ASSUME call \in Calls, NEW error, call' = Failed(0, error)
  PROVE  call'.consumed = call.consumed
<1>1. call'.consumed = call.consumed + 0  BY Zenon DEF Failed, Calls
<1> QED  BY <1>1, CallFields

LEMMA StoppedStays ==
  ASSUME call \in Calls, call' = Stopped
  PROVE  ScansNothing(call') /\ call'.consumed = call.consumed
<1>1. call'.key = "none" /\ call'.pc = "fed" /\ call'.consumed = call.consumed  BY Zenon DEF Stopped, Calls
<1> QED  BY <1>1 DEF ScansNothing

\* Quiet steps consume only whitespace, the text of a string and its escapes.
LEMMA QuietScans ==
  ASSUME TypeOK, QuietStep
  PROVE  /\ \/ Whitespace \/ StringRunDone \/ StringEscape
            \/ call'.consumed = call.consumed /\ UNCHANGED loc
         /\ Scans \/ UNCHANGED call \/ ScansNothing(call')
<1>0. call \in Calls /\ CallInRing(call)  BY TypeFacts
<1>1. call.pc \notin {"key", "run", "char"} => call.key = "none"  BY <1>0 DEF CallInRing
<1> DEFINE Halting == ScansNothing(call') /\ call'.consumed = call.consumed
<1>a. \A n, error : call' = Failed(n, error) => ScansNothing(call')  BY <1>0, FailedScansNothing
<1>b. \A error : call' = Failed(0, error) => Halting
  <2> TAKE error
  <2>1. HAVE call' = Failed(0, error)
  <2> QED  BY <1>0, <2>1, FailedScansNothing, FailedStays
<1>c. call' = Stopped => Halting  BY <1>0, StoppedStays
<1>2. CASE \/ Refuse \/ OpenTooDeep \/ NumberWrong \/ LoopEnd
           \/ \E b \in DOMAIN Literals : LiteralIncomplete(b) \/ LiteralWrong(b)
           \/ MalformedChar \/ StringPaused \/ StringWrong
           \/ KeyIncomplete \/ KeyRefused \/ KeyEscapeWrong \/ KeyDoesNotFit
  <2>1. UNCHANGED loc /\ (call' = Stopped \/ \E error : call' = Failed(0, error))
    BY <1>2 DEF Refuse, OpenTooDeep, NumberWrong, LoopEnd, LiteralIncomplete, LiteralWrong,
       MalformedChar, StringPaused, StringWrong, KeyIncomplete, KeyRefused, KeyEscapeWrong, KeyDoesNotFit
  <2> QED  BY <1>0, <2>1, <1>a, <1>b, <1>c
<1>3. CASE Whitespace
  <2>1. call.key = "none"  BY <1>1, <1>3 DEF Whitespace, BetweenTokens
  <2>2. PICK to : call' = [call EXCEPT !.consumed = to, !.p = call.consumed, !.to = to,
                                       !.pc = IF NeedsWhitespace THEN "space" ELSE "loop"]
    BY <1>3 DEF Whitespace
  <2>3. call'.key = call.key /\ call'.pc \in {"space", "loop"}  BY <1>0, <2>2, Zenon DEF Calls
  <2> QED  BY <1>3, <2>1, <2>3 DEF ScansNothing
<1>4. CASE ReportWhitespace
  <2>1. call.key = "none"  BY <1>1, <1>4 DEF ReportWhitespace
  <2>2. PICK q : /\ UNCHANGED loc
                 /\ \/ call' = Failed(0, "handler")
                    \/ call' = [call EXCEPT !.p = q, !.pc = IF q = call.to THEN "loop" ELSE "space"]
    BY <1>4 DEF ReportWhitespace, HandlerFails
  <2>3. \/ call' = Failed(0, "handler")
        \/ call'.consumed = call.consumed /\ call'.key = call.key /\ call'.pc \in {"space", "loop"}
    BY <1>0, <2>2, Zenon DEF Calls
  <2> QED  BY <1>0, <2>1, <2>2, <2>3, <1>a, <1>b, <1>c DEF ScansNothing
<1>5. CASE FlushChars
  <2>1. UNCHANGED loc /\ (call' = Failed(0, "handler") \/ call' = call)
    BY <1>5 DEF FlushChars, HandlerFails
  <2> QED  BY <1>0, <2>1, <1>a, <1>b, <1>c
<1>6. CASE ContinueString \/ StringPause \/ StringRunDone \/ StringEscape
  <2>1. call.key = "none"
    BY <1>1, <1>6 DEF ContinueString, StringPause, StringRunDone, StringEscape, AtEscape, AtStringStop,
       ReadingKey
  <2>2. PICK n, p, pc :
          \/ UNCHANGED loc /\ pc \in {"string", "pause"} /\ call' = [call EXCEPT !.pc = pc]
          \/ StringEscape /\ \/ call' = Failed(n, "limit")
                             \/ call.pc = "string" /\ call' = [call EXCEPT !.consumed = @ + n]
          \/ StringRunDone /\ pc \in {"string", "pause"} /\ call' = [call EXCEPT !.consumed = p, !.pc = pc]
    BY <1>6 DEF ContinueString, StringPause, StringEscape, StringRunDone, AtEscape, AtStringStop
  <2>3. call' = [call EXCEPT !.pc = pc] =>
          call'.consumed = call.consumed /\ call'.key = call.key /\ call'.pc = pc
    BY <1>0, Zenon DEF Calls
  <2>4. call' = [call EXCEPT !.consumed = @ + n] => call'.key = call.key /\ call'.pc = call.pc
    BY <1>0, Zenon DEF Calls
  <2>5. call' = [call EXCEPT !.consumed = p, !.pc = pc] => call'.key = call.key /\ call'.pc = pc
    BY <1>0, Zenon DEF Calls
  <2> QED  BY <1>0, <2>1, <2>2, <2>3, <2>4, <2>5, <1>a, <1>b, <1>c DEF ScansNothing
<1>7. CASE StringRun
  <2>1. PICK to : /\ UNCHANGED loc
                  /\ \/ call' = Failed(0, "limit")
                     \/ call' = [call EXCEPT !.pc = "run", !.p = call.consumed, !.to = to, !.units = 0]
    BY <1>7, Zenon DEF StringRun
  <2>2. call' = Failed(0, "limit") \/ call'.consumed = call.consumed  BY <1>0, <2>1, Zenon DEF Calls
  <2> QED  BY <1>0, <1>7, <2>1, <2>2, <1>a, <1>b, <1>c DEF Scans
<1>8. CASE DecodeSlice \/ PushChar
  <2>1. UNCHANGED loc /\ \/ call' = Failed(0, "syntax")
                         \/ \E p, units, pc : call' = [call EXCEPT !.p = p, !.units = units, !.pc = pc]
    BY <1>8, Zenon DEF DecodeSlice, PushChar
  <2>2. call' = Failed(0, "syntax") \/ call'.consumed = call.consumed  BY <1>0, <2>1, Zenon DEF Calls
  <2> QED  BY <1>0, <1>8, <2>1, <2>2, <1>a, <1>b, <1>c DEF Scans
<1>9. CASE KeyFound
  <2>1. UNCHANGED loc /\ \E end, key :
          call' = [call EXCEPT !.pc = "key", !.key = key, !.end = end,
                               !.p = IF key = "hit" THEN end ELSE KeyStart,
                               !.units = IF key = "hit" THEN Units(Slice(ring, KeyStart, end)) ELSE 0]
    BY <1>9, Zenon DEF KeyFound
  <2>2. call'.consumed = call.consumed  BY <1>0, <2>1, Zenon DEF Calls
  <2> QED  BY <1>9, <2>1, <2>2 DEF Scans
<1>10. CASE KeyRun \/ KeyRunDone \/ KeyEscape
  <2>1. UNCHANGED loc /\ \/ call' = Failed(0, "syntax")
                         \/ \E pc : call' = [call EXCEPT !.pc = pc]
                         \/ \E pc, to : call' = [call EXCEPT !.pc = pc, !.to = to]
                         \/ \E n : call' = [call EXCEPT !.p = @ + n, !.units = @ + n]
    BY <1>10, Zenon DEF KeyRun, KeyRunDone, KeyEscape
  <2>2. call' = Failed(0, "syntax") \/ call'.consumed = call.consumed  BY <1>0, <2>1, Zenon DEF Calls
  <2> QED  BY <1>0, <1>10, <2>1, <2>2, <1>a, <1>b, <1>c DEF Scans
<1> QED
  BY <1>2, <1>3, <1>4, <1>5, <1>6, <1>7, <1>8, <1>9, <1>10 DEF QuietStep, WhitespaceStep, DecodeStep

\* A CR is forgotten only where something that is not whitespace follows.
LEMMA QuietForgets ==
  ASSUME TypeOK, QuietStep, ~Whitespace
  PROVE  tok'.after_cr = tok.after_cr \/ (~tok'.after_cr /\ BetweenTokens /\ CurrentByte \notin Whitespaces)
<1>0. /\ tok \in Tokenizers /\ Here \in Tokenizers /\ ~Here.after_cr
  BY TypeFacts, HereType, Zenon DEF Here, Tokenizers
<1>1. CASE \/ Refuse \/ OpenTooDeep \/ KeyIncomplete \/ KeyRefused
           \/ \E b \in DOMAIN Literals : LiteralIncomplete(b) \/ LiteralWrong(b)
  <2>1. tok' = Here /\ BetweenTokens
    BY <1>1 DEF Refuse, OpenTooDeep, KeyIncomplete, KeyRefused, LiteralIncomplete, LiteralWrong,
       Looking, AtKey
  <2>2. CurrentByte \notin Whitespaces
    BY <1>1, BytesAssumption
    DEF Refuse, OpenTooDeep, KeyIncomplete, KeyRefused, LiteralIncomplete, LiteralWrong,
        Looking, AtKey, Quote, Whitespaces
  <2> QED  BY <1>0, <2>1, <2>2
<1>2. CASE KeyFound
  <2>1. BetweenTokens /\ CurrentByte \notin Whitespaces  BY <1>2 DEF KeyFound, AtKey, Looking, Quote, Whitespaces
  <2> QED  BY <1>2, <2>1, QuietCarries
<1>3. CASE \/ NumberWrong \/ LoopEnd \/ ReportWhitespace \/ MalformedChar
           \/ StringRun \/ StringPause \/ StringPaused \/ StringWrong
           \/ KeyRun \/ KeyRunDone \/ KeyEscapeWrong \/ KeyDoesNotFit
  BY <1>3 DEF NumberWrong, LoopEnd, ReportWhitespace, MalformedChar,
     StringRun, StringPause, StringPaused, StringWrong, KeyRun, KeyRunDone, KeyEscapeWrong,
     KeyDoesNotFit, HandlerFails
<1>4. CASE \/ FlushChars \/ DecodeSlice \/ PushChar \/ KeyEscape \/ StringRunDone
  <2>1. UNCHANGED tok \/ \E x : \/ tok' = [tok EXCEPT !.chars = x] \/ tok' = Pushed(tok, x)
                                \/ tok' = [tok EXCEPT !.string_bytes = x]
    BY <1>4, Zenon DEF FlushChars, DecodeSlice, PushChar, KeyEscape, StringRunDone, HandlerFails
  <2> QED  BY <1>0, <2>1, Zenon DEF Pushed, Tokenizers
<1>5. CASE ContinueString
  <2>1. tok' = tok \/ tok' = [tok EXCEPT !.chars = <<>>, !.chars_cap = tok.chunk_size]
    BY <1>5 DEF ContinueString, EnsureChars
  <2> QED  BY <1>0, <2>1, Zenon DEF Tokenizers
<1>6. CASE StringEscape
  <2>1. PICK n : tok' = [Pushed(tok, Escaped) EXCEPT !.string_bytes = n]  BY <1>6 DEF StringEscape
  <2>2. tok' = [tok EXCEPT !.chars = @ \o Escaped, !.string_bytes = n]
    BY <1>0, <2>1, Zenon DEF Pushed, Tokenizers
  <2> QED  BY <1>0, <2>2, Zenon DEF Tokenizers
<1> QED  BY <1>1, <1>2, <1>3, <1>4, <1>5, <1>6 DEF QuietStep, WhitespaceStep, DecodeStep

-----------------------------------------------------------------------------
(* What has been decoded ahead of what is consumed                         *)

\* The text from `from' on that is decoded already lies in one line, and its
\* units are counted.
Decoded(c, from) ==
  /\ from <= c.p /\ OneLine(ring, from + 1, c.p)
  /\ c.units = UnitsAt(ring, from + 1, c.p)

\* What a call scans: a run of plain bytes, and a key between its quotes.
ScansRight(c) ==
  /\ c.pc \in {"run", "char"} => \A i \in c.p + 1 .. c.to : Plain(ring[i])
  /\ c.pc \in {"run", "char"} /\ c.key = "none" => Decoded(c, c.consumed)
  /\ c.key # "none" =>
       /\ ring[c.consumed + 1] = Quote /\ ring[c.end + 1] = Quote
       /\ Decoded(c, c.consumed + 1)

Scanned == ScansRight(call)

\* The bytes of an escape are one unit each and end no line.
LEMMA EscapeUnits ==
  ASSUME TypeOK, NEW i \in Nat, i < Len(ring), EscapeLength(ring, i) > 0, Byte(ring, i) = Backslash
  PROVE  /\ OneLine(ring, i + 1, i + EscapeLength(ring, i))
         /\ UnitsAt(ring, i + 1, i + EscapeLength(ring, i)) = EscapeLength(ring, i)
<1> DEFINE n == EscapeLength(ring, i)
<1>1. ~(Bad > 0) /\ ~(More > 0)  BY DEF Bad, More
<1>2. ASSUME UnitLength(ring, i) > 0
      PROVE  \/ UnitLength(ring, i) = 2 /\ Byte(ring, i + 1) \in SimpleEscapes
             \/ UnitLength(ring, i) = 3 /\ Byte(ring, i + 1) = "u" /\ Byte(ring, i + 2) \in HexGroups
  BY <1>1, <1>2, TypeFacts DEF UnitLength
<1>3. \/ n = 2 /\ Byte(ring, i + 1) \in SimpleEscapes
      \/ n = 3 /\ Byte(ring, i + 1) = "u" /\ Byte(ring, i + 2) \in HexGroups
      \/ /\ n = 6 /\ Byte(ring, i + 1) = "u" /\ Byte(ring, i + 2) \in HexGroups
         /\ LowSurrogateAt(ring, i + 3)
  <2>1. CASE ~HighSurrogateAt(ring, i)  BY <1>2, <2>1 DEF EscapeLength
  <2>2. CASE HighSurrogateAt(ring, i)
    <3>1. Byte(ring, i + 1) = "u" /\ Byte(ring, i + 2) \in HexGroups  BY <1>2, <2>2 DEF HighSurrogateAt
    <3>2. LowSurrogateFollows(ring, i + 3) # "NeedMore"  BY <1>1, <2>2 DEF EscapeLength
    <3>3. LowSurrogateFollows(ring, i + 3) \in {"NeedMore", "Not", "Low"}
      BY DEF LowSurrogateFollows
    <3>4. CASE LowSurrogateFollows(ring, i + 3) = "Not"  BY <2>2, <3>1, <3>4 DEF EscapeLength
    <3>5. CASE LowSurrogateFollows(ring, i + 3) = "Low"
      <4>1. LowSurrogateAt(ring, i + 3)  BY <3>5 DEF LowSurrogateFollows
      <4> QED  BY <2>2, <3>1, <3>5, <4>1 DEF EscapeLength
    <3> QED  BY <3>2, <3>3, <3>4, <3>5
  <2> QED  BY <2>1, <2>2
<1>4. ASSUME n = 6
      PROVE  Byte(ring, i + 3) = Backslash /\ Byte(ring, i + 4) = "u" /\ Byte(ring, i + 5) = "DE00"
  <2> DEFINE t == SubSeq(ring, i + 3 + 1, i + 3 + 3)
  <2>1. t = <<Backslash, "u", "DE00">> /\ i + 6 <= Len(ring)
    BY <1>3, <1>4, TypeFacts DEF LowSurrogateAt
  <2>2. t[1] = ring[i + 4] /\ t[2] = ring[i + 5] /\ t[3] = ring[i + 6]
    BY <2>1, TypeFacts
  <2> HIDE DEF t
  <2>3. t[1] = Backslash /\ t[2] = "u" /\ t[3] = "DE00"  BY <2>1
  <2>4. Byte(ring, i + 3) = ring[i + 4] /\ Byte(ring, i + 4) = ring[i + 5] /\ Byte(ring, i + 5) = ring[i + 6]
    BY DEF Byte
  <2> QED  BY <2>2, <2>3, <2>4
<1> DEFINE escapes == SimpleEscapes \cup HexGroups \cup {Backslash, "u"}
<1>5. n \in {2, 3, 6} /\ \A k \in 0 .. n - 1 : Byte(ring, i + k) \in escapes
  <2>1. n \in {2, 3, 6}  BY <1>3
  <2>2. ASSUME NEW k \in 0 .. n - 1  PROVE Byte(ring, i + k) \in escapes
    <3>1. k \in 0 .. 5  BY <2>1
    <3>2. CASE k = 0  BY <3>2
    <3>3. CASE k = 1  BY <1>3, <3>3
    <3>4. CASE k = 2  BY <1>3, <3>4
    <3>5. CASE k \in 3 .. 5
      <4>1. n = 6  BY <2>1, <3>5
      <4>2. {Backslash, "u", "DE00"} \subseteq escapes  BY DEF HexGroups
      <4> QED  BY <1>4, <3>5, <4>1, <4>2
    <3> QED  BY <3>1, <3>2, <3>3, <3>4, <3>5
  <2> QED  BY <2>1, <2>2
<1>6. \A b \in escapes : b \notin LineEnds /\ b \notin Continuations \cup {"F0"}
  BY DEF SimpleEscapes, HexGroups, Backslash, Quote, LineEnds, Continuations
<1> HIDE DEF escapes, n
<1>7. \A j \in i + 1 .. i + n : ring[j] \notin LineEnds /\ ring[j] \notin Continuations \cup {"F0"}
  <2> TAKE j \in i + 1 .. i + n
  <2> DEFINE k == j - (i + 1)
  <2>1. k \in 0 .. n - 1 /\ i + k + 1 = j  BY <1>5
  <2> HIDE DEF k
  <2>2. Byte(ring, i + k) \in escapes  BY <1>5, <2>1
  <2> QED  BY <1>6, <2>1, <2>2 DEF Byte
<1>8. UnitsAt(ring, i + 1, i + n) = n
  <2>1. i + 1 \in Int /\ i + n \in Int /\ i + 1 <= i + n + 1 /\ (i + n) - (i + 1) + 1 = n  BY <1>5
  <2> QED  BY <1>7, <2>1, UnitsSingle
<1> QED  BY <1>7, <1>8 DEF OneLine, n

\* More is decoded.
LEMMA DecodedMore ==
  ASSUME NEW c, NEW d, NEW from \in Nat, c.p \in Nat, d.p \in Nat, c.p <= d.p, Decoded(c, from),
         OneLine(ring, c.p + 1, d.p), d.units = c.units + UnitsAt(ring, c.p + 1, d.p)
  PROVE  Decoded(d, from)
<1>1. from <= c.p  BY DEF Decoded
<1> DEFINE p == c.p
           q == d.p
<1>2. p \in Nat /\ q \in Nat /\ p <= q /\ from <= p  BY <1>1
<1> HIDE DEF p, q
<1>3. UnitsAt(ring, from + 1, q) = UnitsAt(ring, from + 1, p) + UnitsAt(ring, p + 1, q)
  <2>1. from + 1 \in Int /\ p \in Int /\ q \in Int /\ from + 1 <= p + 1  BY <1>2
  <2> QED  BY <1>2, <2>1, UnitsAdd
<1>4. OneLine(ring, from + 1, q)
  <2>1. \A i \in from + 1 .. q : i \in from + 1 .. p \/ i \in p + 1 .. q  BY <1>2
  <2> QED  BY <2>1 DEF OneLine, Decoded, p, q
<1>5. from <= q  BY <1>2
<1> QED  BY <1>3, <1>4, <1>5 DEF Decoded, p, q

\* Nothing is decoded yet.
LEMMA DecodedNothing ==
  ASSUME NEW c, NEW from \in Nat, c.p = from, c.units = 0
  PROVE  Decoded(c, from)
<1>1. from + 1 .. from = {}  OBVIOUS
<1>2. UnitsAt(ring, from + 1, from) = 0
  <2>1. \A i \in from + 1 .. from : ring[i] \notin Continuations \cup {"F0"}  BY <1>1
  <2>2. from + 1 \in Int /\ from \in Int /\ from + 1 <= from + 1 /\ from - (from + 1) + 1 = 0  OBVIOUS
  <2> QED  BY <2>1, <2>2, UnitsSingle
<1> QED  BY <1>1, <1>2 DEF Decoded, OneLine

\* Plain bytes end no line.
LEMMA PlainInLine ==
  \A b : Plain(b) => b \notin LineEnds
BY DEF Plain, LineEnds, Controls

\* Quiet steps keep it.
LEMMA QuietScanned ==
  ASSUME TypeOK, QuietStep, UNCHANGED ring, Scanned
  PROVE  Scanned'
<1> DEFINE c == call
           d == call'
<1>0. /\ call \in Calls /\ CallInRing(call) /\ Len(ring) \in Nat /\ ring \in Seq(Alphabet)
      /\ c.consumed \in Nat /\ c.p \in Nat /\ c.to \in Nat /\ c.end \in Nat /\ c.units \in Nat
      /\ c.consumed <= Len(ring) /\ c.p <= Len(ring) /\ c.to <= Len(ring)
  BY TypeFacts, CallFields DEF CallInRing
<1>s. ScansRight(d) => Scanned'
  BY Zenon DEF Scanned, ScansRight, Decoded, OneLine, UnitsAt
<1>1. ScansNothing(d) => ScansRight(d)  BY DEF ScansNothing, ScansRight
<1>2. d = c => ScansRight(d)  BY DEF Scanned
<1>a. \A n, error : call' = Failed(n, error) => ScansRight(d)
  <2> TAKE n, error
  <2>1. HAVE call' = Failed(n, error)
  <2> QED  BY <1>0, <1>1, <2>1, FailedScansNothing
<1>3. CASE StringRun
  <2>1. c.key = "none"  BY <1>0, <1>3 DEF StringRun, CallInRing
  <2>2. PICK to \in c.consumed + 1 .. Total :
          /\ PlainRun(ring, c.consumed, to, Total)
          /\ \/ call' = Failed(0, "limit")
             \/ call' = [call EXCEPT !.pc = "run", !.p = call.consumed, !.to = to, !.units = 0]
    BY <1>3, Zenon DEF StringRun
  <2>3. ASSUME call' = [call EXCEPT !.pc = "run", !.p = call.consumed, !.to = to, !.units = 0]
        PROVE  ScansRight(d)
    <3>1. d.key = c.key /\ d.p = c.consumed /\ d.consumed = c.consumed /\ d.to = to /\ d.units = 0
      BY <1>0, <2>3, Zenon DEF Calls
    <3>2. \A i \in c.consumed + 1 .. to : Plain(ring[i])
      <4> TAKE i \in c.consumed + 1 .. to
      <4> DEFINE j == i - 1
      <4>1. j \in c.consumed .. to - 1 /\ j + 1 = i  BY <1>0, <2>2 DEF Total
      <4> HIDE DEF j
      <4>2. Plain(Byte(ring, j))  BY <2>2, <4>1 DEF PlainRun
      <4> QED  BY <4>1, <4>2 DEF Byte
    <3>3. Decoded(d, c.consumed)  BY <1>0, <3>1, DecodedNothing
    <3> QED  BY <2>1, <3>1, <3>2, <3>3 DEF ScansRight
  <2> QED  BY <1>a, <1>s, <2>2, <2>3
<1>4. CASE KeyRun
  <2>1. c.key # "none"  BY <1>0, <1>4 DEF KeyRun, CallInRing
  <2>2. PICK to \in c.p + 1 .. c.end :
          PlainRun(ring, c.p, to, c.end) /\ call' = [call EXCEPT !.pc = "run", !.to = to]
    BY <1>4, Zenon DEF KeyRun
  <2>3. /\ d.key = c.key /\ d.p = c.p /\ d.consumed = c.consumed /\ d.to = to /\ d.units = c.units
        /\ d.end = c.end
    BY <1>0, <2>2, Zenon DEF Calls
  <2>4. \A i \in c.p + 1 .. to : Plain(ring[i])
    <3> TAKE i \in c.p + 1 .. to
    <3> DEFINE j == i - 1
    <3>1. j \in c.p .. to - 1 /\ j + 1 = i  BY <1>0, <2>2
    <3> HIDE DEF j
    <3>2. Plain(Byte(ring, j))  BY <2>2, <3>1 DEF PlainRun
    <3> QED  BY <3>1, <3>2 DEF Byte
  <2>5. Decoded(d, c.consumed + 1)  BY <2>1, <2>3 DEF Scanned, ScansRight, Decoded
  <2>6. ring[c.consumed + 1] = Quote /\ ring[c.end + 1] = Quote  BY <2>1 DEF Scanned, ScansRight
  <2>7. ScansRight(d)  BY <2>1, <2>3, <2>4, <2>5, <2>6 DEF ScansRight
  <2> QED  BY <1>s, <2>7
\* What of a run is decoded joins what was decoded before.
<1>5. ASSUME NEW q \in Nat, NEW pc, c.p <= q, OneLine(ring, c.p + 1, q), c.pc \in {"run", "char"},
             call' = [call EXCEPT !.p = q, !.units = @ + UnitsAt(ring, c.p + 1, q), !.pc = pc]
      PROVE  ScansRight(d)
  <2>1. /\ d.key = c.key /\ d.p = q /\ d.consumed = c.consumed /\ d.to = c.to /\ d.pc = pc
        /\ d.end = c.end /\ d.units = c.units + UnitsAt(ring, c.p + 1, q)
    BY <1>0, <1>5, Zenon DEF Calls
  <2>2. \A from \in Nat : Decoded(c, from) => Decoded(d, from)
    <3> TAKE from \in Nat
    <3>1. HAVE Decoded(c, from)
    <3>2. d.p \in Nat /\ c.p \in Nat /\ c.p <= d.p  BY <1>0, <1>5, <2>1
    <3>3. OneLine(ring, c.p + 1, d.p) /\ d.units = c.units + UnitsAt(ring, c.p + 1, d.p)
      BY <1>5, <2>1
    <3> HIDE DEF c, d
    <3> QED  BY <3>1, <3>2, <3>3, DecodedMore
  <2>3. \A i \in d.p + 1 .. d.to : Plain(ring[i])
    <3>1. \A i \in d.p + 1 .. d.to : i \in c.p + 1 .. c.to  BY <1>0, <1>5, <2>1
    <3> QED  BY <1>5, <3>1 DEF Scanned, ScansRight
  <2>4. c.consumed + 1 \in Nat  BY <1>0
  <2> HIDE DEF c, d
  <2>5. ScansRight(c) => ScansRight(d)
    BY <1>0, <1>5, <2>1, <2>2, <2>3, <2>4 DEF ScansRight
  <2> QED  BY <2>5 DEF Scanned, c
<1>6. CASE DecodeSlice
  <2> DEFINE stop == AtMost(AtMost(call.to, SpanEnd(call.p)), call.p + Free)
  <2>1. PICK q \in c.p .. stop :
          \/ call' = Failed(0, "syntax")
          \/ \E pc : call' = [call EXCEPT !.p = q, !.units = @ + Units(Slice(ring, c.p, q)), !.pc = pc]
    BY <1>6, Zenon DEF DecodeSlice
  <2>2. c.pc = "run" /\ c.p < c.to  BY <1>6 DEF DecodeSlice
  <2>3. q \in Nat /\ c.p <= q /\ q <= c.to
    <3>1. call.wrap \in Nat /\ Len(tok.chars) \in Nat /\ tok.chunk_size \in Nat
      BY <1>0, CallFields, TypeFacts, TokenizerFields, LenProperties DEF Bytes
    <3>2. stop \in Int /\ stop <= c.to
      BY <1>0, <3>1 DEF AtMost, SpanEnd, Free, Total
    <3>3. q \in c.p .. stop /\ c.p \in Nat /\ c.to \in Nat  BY <1>0
    <3> HIDE DEF stop, c
    <3> QED  BY <3>2, <3>3
  <2>4. Units(Slice(ring, c.p, q)) = UnitsAt(ring, c.p + 1, q)
    <3>1. q <= Len(ring)  BY <1>0, <2>3
    <3> QED  BY <1>0, <2>3, <3>1, UnitsOfSlice
  <2>5. OneLine(ring, c.p + 1, q)
    <3>1. \A i \in c.p + 1 .. q : i \in c.p + 1 .. c.to  BY <1>0, <2>3
    <3>2. \A i \in c.p + 1 .. c.to : Plain(ring[i])  BY <2>2 DEF Scanned, ScansRight
    <3> QED  BY <3>1, <3>2, PlainInLine DEF OneLine
  <2> QED  BY <1>5, <1>a, <1>s, <2>1, <2>2, <2>3, <2>4, <2>5
<1>7. CASE PushChar
  <2> DEFINE n == CutChar
             q == c.p + n
  <2>1. /\ c.pc = "char" /\ n > 0 /\ c.p < c.to
        /\ call' = [call EXCEPT !.p = @ + n, !.units = @ + Units(Slice(ring, c.p, q)), !.pc = "run"]
    BY <1>0, <1>7 DEF PushChar, CallInRing
  <2>2. n = CharLength(ring, c.p, Len(ring)) /\ CharLength(ring, c.p, Len(ring)) > 0
    BY <2>1 DEF CutChar, CharLengthWhole, More
  <2>3. n \in Nat /\ q <= Len(ring)
    <3>1. c.p < Len(ring)  BY <1>0, <2>1
    <3> QED  BY <1>0, <2>2, <3>1, CharInInput
  <2>4. Char(ring, c.p, n)
    <3>1. c.p < Len(ring)  BY <1>0, <2>1
    <3> HIDE DEF n
    <3> QED  BY <1>0, <2>1, <2>2, <2>3, <3>1, CharIs
  <2>5. q \in Nat /\ c.p <= q  BY <1>0, <2>3
  <2>6. Units(Slice(ring, c.p, q)) = UnitsAt(ring, c.p + 1, q)
    <3> HIDE DEF q
    <3> QED  BY <1>0, <2>3, <2>5, UnitsOfSlice DEF q
  <2>7. OneLine(ring, c.p + 1, q)
    <3>1. ASSUME NEW i \in c.p + 1 .. q  PROVE ring[i] \notin LineEnds
      <4> DEFINE k == i - c.p - 1
      <4>0. n \in Nat /\ c.p \in Nat /\ i \in c.p + 1 .. c.p + n  BY <1>0, <2>3
      <4>1. k \in 0 .. n - 1 /\ c.p + k + 1 = i
        <5> HIDE DEF n, c
        <5> QED  BY <4>0
      <4> HIDE DEF k, n
      <4>2. CASE k = 0
        <5>1. Plain(ring[c.p + 1])
          <6>1. c.p + 1 \in c.p + 1 .. c.to  BY <1>0, <2>1
          <6> QED  BY <2>1, <6>1 DEF Scanned, ScansRight
        <5> QED  BY <1>0, <4>1, <4>2, <5>1, PlainInLine
      <4>3. CASE k # 0
        <5>1. k \in 1 .. n - 1  BY <2>3, <4>1, <4>3
        <5>2. Byte(ring, c.p + k) \in Continuations  BY <2>4, <5>1 DEF Char
        <5>3. Byte(ring, c.p + k) = ring[i]  BY <4>1 DEF Byte
        <5> QED  BY <5>2, <5>3 DEF Continuations, LineEnds
      <4> QED  BY <4>2, <4>3
    <3> QED  BY <3>1 DEF OneLine
  <2>8. call' = [call EXCEPT !.p = q, !.units = @ + UnitsAt(ring, c.p + 1, q), !.pc = "run"]
    BY <2>1, <2>6
  <2> QED  BY <1>5, <1>s, <2>1, <2>5, <2>7, <2>8
<1>8. CASE KeyFound
  <2>1. AtKey  BY <1>8 DEF KeyFound
  <2>2. PICK end, key :
          /\ end \in KeyStart .. Total - 1
          /\ KeyScanned(end) /\ At(end) = Quote /\ (key # "verbatim" => Internable(end)) /\ key # "none"
          /\ call' = [call EXCEPT !.pc = "key", !.key = key, !.end = end,
                                  !.p = IF key = "hit" THEN end ELSE KeyStart,
                                  !.units = IF key = "hit" THEN Units(Slice(ring, KeyStart, end)) ELSE 0]
    BY <1>8, Zenon DEF KeyFound
  <2>3. /\ d.key = key /\ d.pc = "key" /\ d.consumed = c.consumed /\ d.end = end
        /\ d.p = IF key = "hit" THEN end ELSE KeyStart
        /\ d.units = IF key = "hit" THEN Units(Slice(ring, KeyStart, end)) ELSE 0
    BY <1>0, <2>2, Zenon DEF Calls
  <2>4. ring[c.consumed + 1] = Quote /\ ring[end + 1] = Quote
    BY <2>1, <2>2 DEF AtKey, Looking, CurrentByte, At, Byte
  <2>5. KeyStart \in Nat /\ end \in Nat /\ KeyStart <= end /\ end <= Len(ring) /\ KeyStart = c.consumed + 1
    BY <1>0, <2>2 DEF KeyStart, Total
  <2>6. Decoded(d, KeyStart)
    <3>1. CASE key # "hit"  BY <2>3, <2>5, <3>1, DecodedNothing
    <3>2. CASE key = "hit"
      <4>1. \A i \in KeyStart .. end - 1 : Plain(At(i))  BY <2>1, <2>2, <3>2, FoundIsPlain
      <4>2. OneLine(ring, KeyStart + 1, end)
        <5>1. ASSUME NEW i \in KeyStart + 1 .. end  PROVE ring[i] \notin LineEnds
          <6> DEFINE j == i - 1
          <6>1. j \in KeyStart .. end - 1 /\ j + 1 = i  BY <2>5
          <6> HIDE DEF j
          <6>2. Plain(ring[i])  BY <4>1, <6>1 DEF At, Byte
          <6> QED  BY <6>2, PlainInLine
        <5> QED  BY <5>1 DEF OneLine
      <4>3. Units(Slice(ring, KeyStart, end)) = UnitsAt(ring, KeyStart + 1, end)
        BY <1>0, <2>5, UnitsOfSlice
      <4> QED  BY <2>3, <2>5, <3>2, <4>2, <4>3 DEF Decoded
    <3> QED  BY <3>1, <3>2
  <2>7. ScansRight(d)  BY <2>2, <2>3, <2>4, <2>5, <2>6 DEF ScansRight
  <2> QED  BY <1>s, <2>7
<1>9. CASE KeyRunDone
  <2>1. c.key # "none"  BY <1>9 DEF KeyRunDone, ReadingKey
  <2>2. call' = Failed(0, "syntax") \/ call' = [call EXCEPT !.pc = "key"]  BY <1>9 DEF KeyRunDone
  <2>3. ASSUME call' = [call EXCEPT !.pc = "key"]  PROVE ScansRight(d)
    <3>1. /\ d.key = c.key /\ d.p = c.p /\ d.consumed = c.consumed /\ d.units = c.units
          /\ d.end = c.end /\ d.pc = "key"
      BY <1>0, <2>3, Zenon DEF Calls
    <3> QED  BY <2>1, <3>1 DEF Scanned, ScansRight, Decoded
  <2> QED  BY <1>a, <1>s, <2>2, <2>3
<1>10. CASE KeyEscape
  <2> DEFINE n == EscapeLength(ring, c.p)
  <2>1. /\ c.pc = "key" /\ c.p < c.end /\ Byte(ring, c.p) = Backslash /\ n > 0
        /\ call' = [call EXCEPT !.p = @ + n, !.units = @ + n]
    BY <1>10 DEF KeyEscape, AtKeyEscape, At
  <2>2. c.key # "none" /\ c.p < Len(ring)  BY <1>0, <2>1 DEF CallInRing
  <2>3. n \in Nat  BY <1>0, <2>1, <2>2, EscapeInRing
  <2>4. OneLine(ring, c.p + 1, c.p + n) /\ UnitsAt(ring, c.p + 1, c.p + n) = n
    BY <1>0, <2>1, <2>2, EscapeUnits
  <2> HIDE DEF n
  <2>5. /\ d.key = c.key /\ d.p = c.p + n /\ d.consumed = c.consumed /\ d.units = c.units + n
        /\ d.end = c.end /\ d.pc = c.pc
    BY <1>0, <2>1, Zenon DEF Calls
  <2>6. Decoded(d, c.consumed + 1)
    <3>1. Decoded(c, c.consumed + 1)  BY <2>2 DEF Scanned, ScansRight
    <3>2. c.consumed + 1 \in Nat /\ d.p \in Nat /\ c.p <= d.p  BY <1>0, <2>3, <2>5
    <3>3. OneLine(ring, c.p + 1, d.p) /\ d.units = c.units + UnitsAt(ring, c.p + 1, d.p)
      BY <2>4, <2>5
    <3> QED  BY <1>0, <3>1, <3>2, <3>3, DecodedMore
  <2>7. ScansRight(d)  BY <2>1, <2>2, <2>5, <2>6 DEF Scanned, ScansRight
  <2> QED  BY <1>s, <2>7
<1> QED
  BY <1>1, <1>2, <1>s, <1>3, <1>4, <1>6, <1>7, <1>8, <1>9, <1>10, QuietScans DEF Scans

-----------------------------------------------------------------------------
(* Every step of the tokenizer moves on in one of those ways               *)

\* Steps that read no token.
LEMMA QuietMoves ==
  ASSUME TypeOK, Reading, AtLineStart, Scanned, QuietStep
  PROVE  Whitespace \/ Stays \/ \E m \in Nat : Takes(m)
<1>0. /\ call \in Calls /\ tok \in Tokenizers /\ CallInRing(call) /\ Len(ring) \in Nat
      /\ call.consumed \in Nat /\ call.p \in Nat /\ call.consumed <= Len(ring) /\ call.p <= Len(ring)
  BY TypeFacts, CallFields DEF CallInRing
<1>1. tok'.stage = tok.stage /\ tok'.length = tok.length
  BY QuietPlace, QuietCarries DEF SamePlace, Carries
<1>2. CASE ~Whitespace /\ ~StringRunDone /\ ~StringEscape
  <2>1. call'.consumed = call.consumed /\ UNCHANGED loc  BY <1>2, QuietScans
  <2> QED  BY <1>1, <1>2, <2>1, QuietForgets DEF Stays
\* In a string there is no number and no CR before it.
<1>3. ASSUME ReadsString(call)  PROVE tok.stage = "None" /\ ~tok.after_cr
  BY <1>3 DEF Reading, MidValue, AtLineStart, Between
<1>4. CASE StringRunDone
  <2>1. call.key = "none" /\ call.pc \in {"run", "char"}
    BY <1>4 DEF StringRunDone, ReadingKey, RunDecoded, RunCutShort
  <2>2. Decoded(call, call.consumed)  BY <2>1 DEF Scanned, ScansRight
  <2>3. PICK pc : call' = [call EXCEPT !.consumed = call.p, !.pc = pc]  BY <1>4 DEF StringRunDone
  <2>4. call'.consumed = call.p  BY <1>0, <2>3, Zenon DEF Calls
  <2> DEFINE x == tok.string_bytes + call.p - call.consumed
  <2>5. tok' = [tok EXCEPT !.string_bytes = x] /\ loc' = Right(call.units)  BY <1>4 DEF StringRunDone
  <2> HIDE DEF x
  <2>6. tok'.after_cr = tok.after_cr  BY <1>0, <2>5, Zenon DEF Tokenizers
  <2>7. tok.stage = "None" /\ ~tok.after_cr  BY <1>3, <2>1 DEF ReadsString
  <2> DEFINE m == call.p - call.consumed
  <2>8. m \in Nat /\ call.consumed + m = call.p  BY <1>0, <2>2 DEF Decoded
  <2> HIDE DEF m
  <2>9. Takes(m)  BY <1>0, <1>1, <2>2, <2>4, <2>5, <2>6, <2>7, <2>8 DEF Takes, Decoded
  <2> QED  BY <2>8, <2>9
<1>5. CASE StringEscape
  <2> DEFINE n == EscapeLength(ring, call.consumed)
  <2>1. call.pc = "string" /\ call.consumed < Len(ring) /\ Byte(ring, call.consumed) = Backslash /\ n > 0
    BY <1>5 DEF StringEscape, AtEscape, AtStringStop, CurrentByte, At, Total
  <2>2. n \in Nat /\ call.consumed + n <= Len(ring)  BY <1>0, <2>1, EscapeInRing
  <2>3. OneLine(ring, call.consumed + 1, call.consumed + n) /\ UnitsAt(ring, call.consumed + 1, call.consumed + n) = n
    BY <1>0, <2>1, EscapeUnits
  <2>4. PICK x : /\ tok' = [Pushed(tok, Escaped) EXCEPT !.string_bytes = x]
                 /\ loc' = Right(n)
                 /\ \/ call' = Failed(n, "limit")
                    \/ call' = [call EXCEPT !.consumed = @ + n]
    BY <1>5, Zenon DEF StringEscape
  <2> HIDE DEF n
  <2>5. tok'.after_cr = tok.after_cr  BY <1>0, <2>4, Zenon DEF Pushed, Tokenizers
  <2>6. call'.consumed = call.consumed + n  BY <1>0, <2>4, Zenon DEF Failed, Calls
  <2>7. tok.stage = "None" /\ ~tok.after_cr  BY <1>3, <2>1 DEF ReadsString
  <2>8. Takes(n)  BY <1>1, <2>2, <2>3, <2>4, <2>5, <2>6, <2>7 DEF Takes
  <2> QED  BY <2>2, <2>8
<1> QED  BY <1>2, <1>4, <1>5

\* A token that has just been read, or has failed, is not being scanned.
LEMMA TokenScans ==
  ASSUME TypeOK, Reading, TokenStep  PROVE ScansNothing(call')
<1>1. GoesOn \/ Fails  BY TokenMoves DEF ComesOut
<1> QED  BY <1>1 DEF GoesOn, Fails, ScansNothing

\* A token between quotes, brackets or commas of one byte.
LEMMA OneByteTaken ==
  ASSUME TypeOK, NEW b, Looking(b), b \notin LineEnds \cup Continuations \cup {"F0"},
         call'.consumed = call.consumed + 1, tok'.stage = "None", ~tok'.after_cr, loc' = Right(1)
  PROVE  Takes(1)
<1>1. call.consumed \in Nat /\ call.consumed < Len(ring) /\ Len(ring) \in Nat
  BY TypeFacts, CallFields DEF Looking, BetweenTokens, Total
<1> DEFINE i == call.consumed + 1
<1>2. tok.stage = "None" /\ ring[i] = b
  BY DEF Looking, BetweenTokens, CurrentByte, At, Byte
<1>3. i \in Nat /\ i <= Len(ring) /\ call.consumed + 1 = i  BY <1>1
<1> HIDE DEF i
<1>4. \A j \in i .. i : j = i  BY <1>3
<1>5. OneLine(ring, i, i)  BY <1>2, <1>4 DEF OneLine
<1>6. UnitsAt(ring, i, i) = 1
  <2>1. \A j \in i .. i : ring[j] \notin Continuations \cup {"F0"}  BY <1>2, <1>4
  <2>2. i \in Int /\ i <= i + 1 /\ i - i + 1 = 1  BY <1>3
  <2> QED  BY <2>1, <2>2, UnitsSingle
<1> QED  BY <1>2, <1>3, <1>5, <1>6 DEF Takes

\* Commas, colons, brackets and the quotes of string values.
LEMMA MarkTaken ==
  ASSUME TypeOK, ~tok'.after_cr, Comma \/ Colon \/ StartObject \/ StartArray \/ EndObject \/ EndArray \/ StringStart
  PROVE  Takes(1)
<1>0. call \in Calls  BY TypeFacts
<1>1. PICK b \in {",", ":", "{", "[", "}", "]", Quote} : Looking(b)
  BY DEF Comma, Colon, StartObject, StartArray, EndObject, EndArray, Bracket, StringStart
<1>2. b \notin LineEnds \cup Continuations \cup {"F0"}
  BY <1>1 DEF LineEnds, Continuations, Quote
<1>3. loc' = Right(1)
  BY DEF Comma, Colon, StartObject, StartArray, EndObject, EndArray, Bracket, StringStart
<1>4. \E t, ev, state, comma : TokenDone(t, 1, state, comma) \/ HandlerFails(ev, t, 1)
  <2>1. CASE Comma \/ Colon  BY <2>1, Zenon DEF Comma, Colon
  <2>2. CASE StartObject \/ StartArray \/ EndObject \/ EndArray
    BY <2>2, Zenon DEF StartObject, StartArray, EndObject, EndArray, Bracket
  <2>3. CASE StringStart  BY <2>3, Zenon DEF StringStart
  <2> QED  BY <2>1, <2>2, <2>3
<1>41. (\E error : call' = Failed(1, error)) \/ call' = Advanced(1)
  BY <1>4, Zenon DEF TokenDone, HandlerFails
<1>5. call'.consumed = call.consumed + 1  BY <1>0, <1>41, Zenon DEF Failed, Advanced, Calls
<1>6. tok'.stage = tok.stage
  <2>1. CASE Comma \/ Colon  BY <2>1, SeparatorPlace DEF SamePlace, Expects
  <2>2. CASE StartObject \/ StartArray \/ EndObject \/ EndArray  BY <2>2, NestsMove DEF Between
  <2>3. CASE StringStart  BY <2>3, StringPlace
  <2> QED  BY <2>1, <2>2, <2>3
<1> QED  BY <1>1, <1>2, <1>3, <1>5, <1>6, OneByteTaken DEF Looking, BetweenTokens

\* After a token, no CR is remembered.
LEMMA TokenForgets ==
  ASSUME TypeOK, Reading, AtLineStart, Lengthy, TokenStep  PROVE ~tok'.after_cr
<1>1. tok'.after_cr => tok.after_cr /\ (~Between(tok) \/ ReadingKey \/ ReadsString(call))
  BY TokenCarries
<1>2. ReadsString(call) => ~Between(tok)  BY DEF Reading, Between
<1> QED  BY <1>1, <1>2 DEF AtLineStart

\* A call that goes on or fails n bytes ahead.
LEMMA GoesAhead ==
  ASSUME call \in Calls, NEW n, NEW error, call' = Failed(n, error) \/ call' = Advanced(n)
  PROVE  call'.consumed = call.consumed + n
BY Zenon DEF Failed, Advanced, Calls

\* Literals.
LEMMA LiteralTaken ==
  ASSUME TypeOK, NEW b \in DOMAIN Literals, Literal(b), ~tok'.after_cr
  PROVE  Takes(1 + Len(Literals[b]))
<1> DEFINE n == 1 + Len(Literals[b])
           c == call.consumed
           L == Literals[b]
<1>0. /\ call \in Calls /\ c \in Nat /\ Len(ring) \in Nat /\ Total = Len(ring)
  BY TypeFacts, CallFields DEF Total
<1>1. L \in Seq({"r", "u", "e", "a", "l", "s"}) /\ Len(L) \in Nat /\ b \in {"t", "f", "n"}
  BY BytesAssumption, LenProperties
<1>2. c + Len(L) < Len(ring) /\ n \in Nat /\ c + n <= Len(ring)  BY <1>0, <1>1 DEF Literal, LiteralPresent
<1>3. \E error : call' = Failed(n, error) \/ call' = Advanced(n)
  BY Zenon DEF Literal, HandlerFails
<1>4. call'.consumed = c + n  BY <1>0, <1>3, GoesAhead
<1>5. tok.stage = "None" /\ tok'.stage = "None"  BY LiteralPlace DEF SamePlace, Expects
<1>6. loc' = Right(n)  BY DEF Literal
<1>7. \A i \in c + 1 .. c + n : ring[i] \in {"t", "f", "n", "r", "u", "e", "a", "l", "s"}
  <2> TAKE i \in c + 1 .. c + n
  <2> DEFINE k == i - c - 1
  <2>1. k \in 0 .. Len(L) /\ c + k + 1 = i /\ c + k < Len(ring)
    <3>1. i \in c + 1 .. c + (1 + Len(L))  OBVIOUS
    <3> HIDE DEF c, L
    <3> QED  BY <1>0, <1>1, <1>2, <3>1
  <2> HIDE DEF k
  <2>2. CASE k = 0
    <3>1. ring[c + 1] = b  BY DEF Literal, Looking, CurrentByte, At, Byte
    <3>2. c + 1 = i  BY <1>0, <2>1, <2>2
    <3> QED  BY <1>1, <3>1, <3>2
  <2>3. CASE k # 0
    <3>1. k \in 1 .. Len(L)  BY <1>1, <2>1, <2>3
    <3>2. At(c + k) = L[k]
      <4>1. LiteralAgrees(b)  BY DEF Literal
      <4>2. c + k < Total /\ k \in 1 .. Len(Literals[b])  BY <1>0, <2>1, <3>1
      <4> QED  BY <4>1, <4>2 DEF LiteralAgrees
    <3>3. L[k] \in {"r", "u", "e", "a", "l", "s"}
      <4> HIDE DEF L
      <4> QED  BY <1>1, <3>1, ElementOfSeq
    <3> QED  BY <2>1, <3>2, <3>3 DEF At, Byte
  <2> QED  BY <2>2, <2>3
<1>8. OneLine(ring, c + 1, c + n) /\ UnitsAt(ring, c + 1, c + n) = n
  <2> HIDE DEF n, c
  <2>1. \A i \in c + 1 .. c + n : ring[i] \notin LineEnds /\ ring[i] \notin Continuations \cup {"F0"}
    BY <1>7 DEF LineEnds, Continuations
  <2>2. c + 1 \in Int /\ c + n \in Int /\ c + 1 <= c + n + 1 /\ (c + n) - (c + 1) + 1 = n
    BY <1>0, <1>2
  <2> QED  BY <2>1, <2>2, UnitsSingle DEF OneLine
<1>9. n # 0  BY <1>1
<1> HIDE DEF n
<1>10. Takes(n)  BY <1>2, <1>4, <1>5, <1>6, <1>8, <1>9 DEF Takes
<1> QED  BY <1>10 DEF n

\* The quote that ends a string value.
LEMMA QuoteTaken ==
  ASSUME TypeOK, Reading, StringEnd, ~tok'.after_cr
  PROVE  Takes(1)
<1> DEFINE i == call.consumed + 1
<1>0. /\ call \in Calls /\ call.consumed \in Nat /\ call.consumed < Len(ring) /\ Len(ring) \in Nat
      /\ call.pc = "string" /\ ring[i] = Quote
  BY TypeFacts, CallFields DEF StringEnd, AtStringEnd, AtStringStop, CurrentByte, At, Byte, Total
<1>1. \E error : call' = Failed(1, error) \/ call' = Advanced(1)
  BY Zenon DEF StringEnd, HandlerFails
<1>2. call'.consumed = call.consumed + 1 /\ loc' = Right(1)  BY <1>0, <1>1, GoesAhead DEF StringEnd
<1>3. tok.stage = "None" /\ tok'.stage = "None"
  BY <1>0, StringPlace DEF Reading, ReadsString, MidValue
<1>4. i \in Nat /\ i <= Len(ring) /\ call.consumed + 1 = i  BY <1>0
<1> HIDE DEF i
<1>5. \A j \in i .. i : ring[j] = Quote  BY <1>0, <1>4
<1>6. OneLine(ring, i, i)  BY <1>5 DEF OneLine, LineEnds, Quote
<1>7. UnitsAt(ring, i, i) = 1
  <2>1. \A j \in i .. i : ring[j] \notin Continuations \cup {"F0"}  BY <1>5 DEF Continuations, Quote
  <2>2. i \in Int /\ i <= i + 1 /\ i - i + 1 = 1  BY <1>4
  <2> QED  BY <2>1, <2>2, UnitsSingle
<1> QED  BY <1>2, <1>3, <1>4, <1>6, <1>7 DEF Takes

\* A text between two quotes.
LEMMA UnitsQuoted ==
  ASSUME NEW s, NEW a \in Nat, NEW b \in Nat, a <= b, s[a] = Quote, s[b + 1] = Quote, a < b + 1,
         OneLine(s, a + 1, b)
  PROVE  /\ OneLine(s, a, b + 1)
         /\ UnitsAt(s, a, b + 1) = 2 + UnitsAt(s, a + 1, b) /\ UnitsAt(s, a + 1, b) \in Nat
<1>1. \A i \in a .. b + 1 : i = a \/ i \in a + 1 .. b \/ i = b + 1  OBVIOUS
<1>2. Quote \notin LineEnds \cup Continuations \cup {"F0"}  BY DEF Quote, LineEnds, Continuations
<1>3. OneLine(s, a, b + 1)  BY <1>1, <1>2 DEF OneLine
<1>4. UnitsAt(s, a, a) = 1
  <2>1. \A j \in a .. a : s[j] \notin Continuations \cup {"F0"}  BY <1>2
  <2>2. a \in Int /\ a <= a + 1 /\ a - a + 1 = 1  OBVIOUS
  <2> QED  BY <2>1, <2>2, UnitsSingle
<1> DEFINE e == b + 1
<1>5. e \in Nat /\ s[e] = Quote /\ b + 1 = e /\ a < e  OBVIOUS
<1> HIDE DEF e
<1>6. UnitsAt(s, e, e) = 1
  <2>1. \A j \in e .. e : s[j] \notin Continuations \cup {"F0"}  BY <1>2, <1>5
  <2>2. e \in Int /\ e <= e + 1 /\ e - e + 1 = 1  BY <1>5
  <2> QED  BY <2>1, <2>2, UnitsSingle
<1>7. UnitsAt(s, a, e) = UnitsAt(s, a, b) + UnitsAt(s, b + 1, e)
  <2>1. a \in Int /\ b \in Int /\ e \in Int /\ a <= b + 1 /\ b <= e  BY <1>5
  <2> QED  BY <2>1, UnitsAdd
<1>8. UnitsAt(s, a, b) = UnitsAt(s, a, a) + UnitsAt(s, a + 1, b) /\ UnitsAt(s, a + 1, b) \in Nat
  <2>1. a \in Int /\ b \in Int /\ a <= a + 1 /\ a <= b  OBVIOUS
  <2> QED  BY <2>1, UnitsAdd
<1> QED  BY <1>3, <1>4, <1>5, <1>6, <1>7, <1>8 DEF e

\* A key, with its quotes.
LEMMA KeyTaken ==
  ASSUME TypeOK, Reading, Scanned, KeyDone, ~tok'.after_cr, AtLineStart
  PROVE  \E m \in Nat : Takes(m)
<1> DEFINE c == call.consumed
           n == call.end + 1 - c
<1>0. /\ call \in Calls /\ ReadingKey /\ call.key # "none" /\ call.pc = "key" /\ call.p = call.end
      /\ tok.stage = "None" /\ ~tok.after_cr
  BY TypeFacts DEF KeyDone, CallInRing, ReadingKey, Reading, AtLineStart
<1>1. c \in Nat /\ call.end \in Nat /\ c < call.end /\ call.end < Len(ring) /\ Len(ring) \in Nat
  BY <1>0, KeyInRing, TypeFacts
<1>2. /\ ring[c + 1] = Quote /\ ring[call.end + 1] = Quote
      /\ OneLine(ring, c + 1 + 1, call.end) /\ call.units = UnitsAt(ring, c + 1 + 1, call.end)
  BY <1>0 DEF Scanned, ScansRight, Decoded
<1> DEFINE a == c + 1
<1>3. a \in Nat /\ a <= call.end /\ a < call.end + 1  BY <1>1
<1>4. n \in Nat /\ c + n = call.end + 1 /\ c + n <= Len(ring) /\ n # 0  BY <1>1
<1>5. tok'.stage = "None"  BY <1>0, KeyPlace DEF SamePlace, Expects
<1>6. /\ \E error : call' = Failed(n, error) \/ call' = Advanced(n)
      /\ (Repeats /\ UNCHANGED loc) \/ loc' = Right(2 + call.units)
  <2>1. CASE Duplicate(KeyText)  BY <2>1, Zenon DEF KeyDone, Repeats
  <2>2. CASE ~Duplicate(KeyText)
    <3>1. /\ loc' = Right(2 + call.units)
          /\ \E t, ev, state, comma : HandlerFails(ev, t, n) \/ TokenDone(t, n, state, comma)
      BY <2>2, Zenon DEF KeyDone
    <3> QED  BY <3>1, Zenon DEF HandlerFails, TokenDone
  <2> QED  BY <2>1, <2>2
<1>7. call'.consumed = c + n  BY <1>0, <1>6, GoesAhead
<1>8. OneLine(ring, a, call.end + 1) /\ UnitsAt(ring, a, call.end + 1) = 2 + call.units
  <2>1. ring[a] = Quote /\ OneLine(ring, a + 1, call.end) /\ call.units = UnitsAt(ring, a + 1, call.end)
    BY <1>2
  <2> HIDE DEF a
  <2> QED  BY <1>1, <1>2, <1>3, <2>1, UnitsQuoted
<1>9. OneLine(ring, c + 1, c + n) /\ UnitsAt(ring, c + 1, c + n) = 2 + call.units
  BY <1>4, <1>8
<1> HIDE DEF n, c
<1>10. Takes(n)  BY <1>0, <1>4, <1>5, <1>6, <1>7, <1>9 DEF Takes, c
<1> QED  BY <1>4, <1>10

\* The first byte of a number.
LEMMA NumberBegins ==
  ASSUME TypeOK, NEW b \in Digits \cup {"-"}, NumberStart(b), ~tok'.after_cr
  PROVE  GrowsBy(1)
<1>0. /\ call \in Calls /\ Here \in Tokenizers /\ call.consumed \in Nat /\ call.consumed < Len(ring) /\ Len(ring) \in Nat
      /\ tok.stage = "None" /\ ring[call.consumed + 1] = b /\ UNCHANGED loc
  BY TypeFacts, HereType, CallFields
  DEF NumberStart, Looking, BetweenTokens, CurrentByte, At, Byte, Total
<1> DEFINE t == [Here EXCEPT !.stage = FirstStage(b), !.number = <<b>>, !.length = 1]
           u == Counted(t)
<1>1. TokenDone(t, 1, tok.state, FALSE)  BY DEF NumberStart
<1>2. t.stage = FirstStage(b) /\ t.length = 1 /\ u.stage = t.stage /\ u.length = t.length
  BY <1>0, Zenon DEF Tokenizers, Counted
<1>3. tok'.stage = FirstStage(b) /\ tok'.length = 1
  <2>1. tok' = u \/ tok' = [u EXCEPT !.state = tok.state, !.after_comma = FALSE]
    BY <1>1, Zenon DEF TokenDone
  <2>2. /\ [u EXCEPT !.state = tok.state, !.after_comma = FALSE].stage = u.stage
        /\ [u EXCEPT !.state = tok.state, !.after_comma = FALSE].length = u.length
    BY <1>0, Zenon DEF Tokenizers, Counted
  <2> HIDE DEF u, t
  <2> QED  BY <1>2, <2>1, <2>2
<1>4. \E error : call' = Failed(1, error) \/ call' = Advanced(1)  BY <1>1, Zenon DEF TokenDone
<1>5. call'.consumed = call.consumed + 1  BY <1>0, <1>4, GoesAhead
<1>6. FirstStage(b) # "None"  BY DEF FirstStage
<1>7. Pending = 0 /\ Pending' = 1  BY <1>0, <1>3, <1>6 DEF Pending
<1> DEFINE i == call.consumed + 1
<1>8. i \in Nat /\ i <= Len(ring) /\ \A j \in i .. i : ring[j] = b  BY <1>0
<1>9. b \in FigureBytes  BY DEF FigureBytes
<1> HIDE DEF i
<1>10. \A j \in i .. i : ring[j] \in FigureBytes  BY <1>8, <1>9
<1> QED  BY <1>0, <1>3, <1>5, <1>6, <1>7, <1>8, <1>10 DEF GrowsBy, i

\* More bytes of a number.
LEMMA NumberGrows ==
  ASSUME TypeOK, ~tok'.after_cr, tok.stage # "None", NEW n \in Nat, 1 <= n, call.consumed + n <= Len(ring),
         NEW next, next # "None", TakeNumber(n, next),
         \A i \in call.consumed + 1 .. call.consumed + n : ring[i] \in FigureBytes
  PROVE  GrowsBy(n)
<1>0. call \in Calls /\ tok \in Tokenizers /\ tok.length \in Nat  BY TypeFacts, TokenizerFields
<1>1. PICK number : tok' = [tok EXCEPT !.stage = next, !.length = @ + n, !.number = number]
  BY Zenon DEF TakeNumber
<1>2. tok'.stage = next /\ tok'.length = tok.length + n  BY <1>0, <1>1, Zenon DEF Tokenizers
<1>3. UNCHANGED loc /\ \E error : call' = Failed(n, error) \/ call' = Advanced(n)
  BY Zenon DEF TakeNumber
<1>4. call'.consumed = call.consumed + n  BY <1>0, <1>3, GoesAhead
<1>5. Pending = tok.length /\ Pending' = tok'.length  BY <1>2 DEF Pending
<1> QED  BY <1>2, <1>3, <1>4, <1>5 DEF GrowsBy

\* Numbers.
LEMMA NumberMoves ==
  ASSUME TypeOK, AtLineStart, NumberStep, ~NumberWrong, ~tok'.after_cr
  PROVE  Ended \/ \E m \in Nat : GrowsBy(m)
<1>0. /\ call \in Calls /\ tok \in Tokenizers /\ call.consumed \in Nat /\ Len(ring) \in Nat
      /\ call.wrap \in Nat /\ call.wrap <= Len(ring) /\ Total = Len(ring)
  BY TypeFacts, CallFields DEF CallInRing, Total
<1>1. CASE \E b \in Digits \cup {"-"} : NumberStart(b)  BY <1>1, NumberBegins
<1>2. CASE NumberRun
  <2> DEFINE c == call.consumed
  <2>1. PICK n \in 1 .. SpanEnd(c) - c : (\A i \in 0 .. n - 1 : At(c + i) \in Digits) /\ TakeNumber(n, tok.stage)
    BY <1>2 DEF NumberRun
  <2>2. n \in Nat /\ 1 <= n /\ c + n <= Len(ring)  BY <1>0, <2>1 DEF SpanEnd
  <2>3. tok.stage # "None"  BY <1>2 DEF NumberRun, InNumber
  <2>4. \A i \in c + 1 .. c + n : ring[i] \in FigureBytes
    <3> TAKE i \in c + 1 .. c + n
    <3> DEFINE k == i - c - 1
    <3>0. c \in Nat /\ n \in Nat  BY <1>0, <2>2
    <3>1. k \in 0 .. n - 1 /\ c + k + 1 = i  BY <3>0
    <3> HIDE DEF k
    <3>2. At(c + k) \in Digits  BY <2>1, <3>1
    <3> QED  BY <3>1, <3>2 DEF At, Byte, FigureBytes
  <2>5. GrowsBy(n)  BY <2>1, <2>2, <2>3, <2>4, NumberGrows
  <2> QED  BY <2>2, <2>5
<1>3. CASE NumberByte
  <2> DEFINE i == call.consumed + 1
  <2>1. PICK next \in NumStages : Continues(tok.stage, CurrentByte, next) /\ TakeNumber(1, next)
    BY <1>3 DEF NumberByte
  <2>2. call.consumed < Len(ring) /\ tok.stage # "None" /\ CurrentByte = ring[i]
    BY <1>0, <1>3 DEF NumberByte, InNumber, CurrentByte, At, Byte
  <2>3. next # "None" /\ CurrentByte \in FigureBytes
    BY <2>1 DEF Continues, FigureBytes, Digits
  <2>4. i \in Nat /\ i <= Len(ring) /\ \A j \in i .. i : ring[j] \in FigureBytes
    BY <1>0, <2>2, <2>3
  <2>5. GrowsBy(1)
    <3> HIDE DEF i
    <3>1. call.consumed + 1 = i  BY DEF i
    <3> QED  BY <2>1, <2>2, <2>3, <2>4, <3>1, NumberGrows
  <2> QED  BY <2>5
<1>4. CASE NumberEnd
  <2>1. tok.stage # "None" /\ ~tok.after_cr
    BY <1>4 DEF NumberEnd, InNumber, AtLineStart, Between
  <2>2. /\ loc' = Right(tok.length)
        /\ tok' = [tok EXCEPT !.stage = "None", !.state = "AfterValue"]
        /\ \E error : call' = Failed(0, error) \/ call' = Advanced(0)
    BY <1>4, Zenon DEF NumberEnd, EmitNumber, HandlerFails
  <2>3. call'.consumed = call.consumed
    <3>1. call'.consumed = call.consumed + 0  BY <1>0, <2>2, GoesAhead
    <3> QED  BY <1>0, <3>1
  <2>4. tok'.stage = "None"  BY <1>0, <2>2, Zenon DEF Tokenizers
  <2> QED  BY <2>1, <2>2, <2>3, <2>4 DEF Ended
<1> QED  BY <1>1, <1>2, <1>3, <1>4 DEF NumberStep

\* Steps that read a token.
LEMMA TokenMovesOn ==
  ASSUME TypeOK, Reading, AtLineStart, Lengthy, Scanned, TokenStep
  PROVE  Ended \/ \E m \in Nat : Takes(m) \/ GrowsBy(m)
<1>1. ~tok'.after_cr  BY TokenForgets
<1>2. CASE Comma \/ Colon \/ StartObject \/ StartArray \/ EndObject \/ EndArray \/ StringStart
  BY <1>1, <1>2, MarkTaken
<1>3. CASE \E b \in DOMAIN Literals : Literal(b)
  <2>1. PICK b \in DOMAIN Literals : Literal(b)  BY <1>3
  <2>2. Len(Literals[b]) \in Nat  BY BytesAssumption, LenProperties
  <2>3. 1 + Len(Literals[b]) \in Nat  BY <2>2
  <2> QED  BY <1>1, <2>1, <2>3, LiteralTaken
<1>4. CASE NumberStep /\ ~NumberWrong  BY <1>1, <1>4, NumberMoves
<1>5. CASE StringEnd  BY <1>1, <1>5, QuoteTaken
<1>6. CASE KeyDone  BY <1>1, <1>6, KeyTaken
<1> QED  BY <1>2, <1>3, <1>4, <1>5, <1>6 DEF TokenStep

\* Whichever it is, the position is at the spot again, unless a key is
\* refused as a duplicate; and what is decoded is known.
LEMMA TokenizerPinned ==
  ASSUME TypeOK, TypeOK', Pinned, Reading, AtLineStart, Lengthy, Scanned, TokenizerStep,
         UNCHANGED <<doc, parser>>, parser.live, call'.pc \in InTokenizer \cup {"fed"}
  PROVE  Pinned' /\ Scanned' /\ (loc = Spot => loc' = Spot' \/ Repeats)
<1>1. Outer /\ UNCHANGED ring  BY DEF Outer, TokenizerStep
<1>2. Whitespace \/ Stays \/ Ended \/ \E m \in Nat : Takes(m) \/ GrowsBy(m)
  BY StepKinds, QuietMoves, TokenMovesOn
<1> DEFINE Pinning == Pinned' /\ (loc = Spot => loc' = Spot' \/ Repeats)
<1>3. Whitespace => Pinning  BY <1>1, SpacePinned
<1>4. Stays => Pinning  BY <1>1, StaysPinned
<1>5. Ended => Pinning
  <2>1. Placed' /\ UNCHANGED <<doc, parser, ring>>  BY <1>1, OuterKeeps
  <2> QED  BY <2>1, EndedPinned
<1>6. \A m \in Nat : Takes(m) => Pinning  BY <1>1, TakesPinned
<1>61. \A m \in Nat : GrowsBy(m) => Pinning  BY <1>1, GrowsPinned
<1>7. Scanned'
  <2>1. CASE QuietStep  BY <1>1, <2>1, QuietScanned
  <2>2. CASE TokenStep
    <3>1. ScansNothing(call')  BY <2>2, TokenScans
    <3> QED  BY <3>1 DEF Scanned, ScansRight, ScansNothing
  <2> QED  BY <2>1, <2>2, StepKinds
<1> QED  BY <1>2, <1>3, <1>4, <1>5, <1>6, <1>61, <1>7

-----------------------------------------------------------------------------
(* The steps outside the tokenizer                                         *)

\* The first three elements of a sequence.
LEMMA FirstThree ==
  ASSUME NEW S, NEW s \in Seq(S), Len(s) >= 3  PROVE SubSeq(s, 1, 3) = <<s[1], s[2], s[3]>>
<1> DEFINE t == SubSeq(s, 1, 3)
<1>1. t \in Seq(S) /\ Len(t) = 3 /\ \A i \in 1 .. 3 : t[i] = s[i]
  <2>1. \A i \in 1 .. 3 : i \in 1 .. Len(s)  BY LenProperties
  <2>2. /\ SubSeq(s, 1, 3) \in Seq(S)
        /\ Len(SubSeq(s, 1, 3)) = 3 - 1 + 1
        /\ \A i \in 1 .. 3 - 1 + 1 : SubSeq(s, 1, 3)[i] = s[1 + i - 1]
    BY LenProperties, SubSeqProperties
  <2> QED  BY <2>2
<1> HIDE DEF t
<1>2. t = <<t[1], t[2], t[3]>>  BY <1>1
<1>3. t[1] = s[1] /\ t[2] = s[2] /\ t[3] = s[3]  BY <1>1
<1> QED  BY <1>2, <1>3 DEF t

\* Whatever is written behind it, a settled document has its mark or has none.
LEMMA SettledGrows ==
  ASSUME NEW S, NEW d \in Seq(S), NEW b \in S, Settled(d)
  PROVE  TextStart(Append(d, b)) = TextStart(d) /\ Settled(Append(d, b))
<1> DEFINE u == Append(d, b)
<1>1. /\ u \in Seq(S) /\ Len(d) \in Nat /\ Len(u) = Len(d) + 1 /\ d # <<>> /\ Len(d) # 0
      /\ \A i \in 1 .. Len(d) : u[i] = d[i]
  BY AppendProperties, LenProperties, EmptySeq DEF Settled
<1> HIDE DEF u
<1>2. CASE Len(d) >= 3
  <2>1. u[1] = d[1] /\ u[2] = d[2] /\ u[3] = d[3]  BY <1>1, <1>2
  <2>2. SubSeq(u, 1, 3) = <<u[1], u[2], u[3]>> /\ SubSeq(d, 1, 3) = <<d[1], d[2], d[3]>>
    BY <1>1, <1>2, FirstThree
  <2>3. Len(u) >= 3 /\ u # <<>>  BY <1>1, <1>2
  <2>4. SubSeq(u, 1, 3) = SubSeq(d, 1, 3)  BY <2>1, <2>2
  <2>5. TextStart(u) = TextStart(d)  BY <1>2, <2>3, <2>4, Zenon DEF TextStart
  <2>6. Settled(u)  BY <2>3 DEF Settled
  <2> QED  BY <2>5, <2>6 DEF u
<1>3. CASE Len(d) < 3
  <2>1. u[1] = d[1] /\ u # <<>> /\ (Len(d) = 2 => u[2] = d[2])  BY <1>1, <1>3
  <2>2. d[1] # "EF" \/ (Len(d) = 2 /\ d[2] # "BB")  BY <1>1, <1>3 DEF Settled
  <2>3. Len(u) >= 3 => SubSeq(u, 1, 3) = <<u[1], u[2], u[3]>> /\ Len(d) = 2
    <3>1. ASSUME NEW n \in Nat, NEW k, k = n + 1, n < 3, k >= 3  PROVE n = 2  BY <3>1
    <3>2. ASSUME Len(u) >= 3  PROVE SubSeq(u, 1, 3) = <<u[1], u[2], u[3]>>  BY <1>1, <3>2, FirstThree
    <3> QED  BY <1>1, <1>3, <3>1, <3>2
  <2>4. ASSUME Len(u) >= 3, SubSeq(u, 1, 3) = <<"EF", "BB", "BF">>  PROVE FALSE
    <3>1. <<u[1], u[2], u[3]>> = <<"EF", "BB", "BF">>  BY <2>3, <2>4
    <3>2. u[1] = "EF" /\ u[2] = "BB"  BY <3>1
    <3> QED  BY <2>1, <2>2, <2>3, <2>4, <3>2
  <2>5. TextStart(u) = 1  BY <2>4, Zenon DEF TextStart
  <2>6. TextStart(d) = 1
    <3>1. ~(Len(d) >= 3)  BY <1>1, <1>3
    <3> QED  BY <3>1, Zenon DEF TextStart
  <2>7. Settled(u)  BY <1>1, <2>1, <2>2 DEF Settled
  <2> QED  BY <2>5, <2>6, <2>7 DEF u
<1> QED  BY <1>1, <1>2, <1>3

\* A position does not depend on what comes after it.
LEMMA PositionGrows ==
  ASSUME NEW S, NEW d \in Seq(S), NEW b \in S, NEW a \in Nat, 1 <= a, NEW n \in Nat, n <= Len(d)
  PROVE  Position(Append(d, b), a, n) = Position(d, a, n)
<1> DEFINE u == Append(d, b)
<1>1. Len(d) \in Nat /\ \A i \in 1 .. Len(d) : u[i] = d[i]
  BY AppendProperties, LenProperties
<1> HIDE DEF u
<1>2. \A i \in a .. n : u[i] = d[i] /\ (i > a => u[i - 1] = d[i - 1])
  <2> TAKE i \in a .. n
  <2>1. i \in 1 .. Len(d)  BY <1>1
  <2>2. i > a => i - 1 \in 1 .. Len(d)  BY <1>1
  <2> QED  BY <1>1, <2>1, <2>2
<1>3. Breaks(u, a, n) = Breaks(d, a, n)  BY <1>2 DEF Breaks
<1>4. LastLine(u, a, n) = LastLine(d, a, n)
  <2>1. \A i \in a .. n : \A j \in i .. n : j \in a .. n  OBVIOUS
  <2> QED  BY <1>2, <2>1 DEF LastLine
<1>5. \A i \in LastLine(d, a, n) : u[i] = d[i]  BY <1>2 DEF LastLine
<1>6. /\ {i \in LastLine(d, a, n) : u[i] \notin Continuations} = {i \in LastLine(d, a, n) : d[i] \notin Continuations}
      /\ {i \in LastLine(d, a, n) : u[i] = "F0"} = {i \in LastLine(d, a, n) : d[i] = "F0"}
  BY <1>5
<1>7. Position(u, a, n) = Position(d, a, n)  BY <1>3, <1>4, <1>6, Zenon DEF Position
<1> QED  BY <1>7 DEF u

\* What is about is neither moved nor written.
Resting ==
  /\ UNCHANGED <<doc, ring, loc>> /\ call'.consumed = call.consumed
  /\ tok'.stage = tok.stage /\ tok'.length = tok.length /\ tok'.after_cr = tok.after_cr
  /\ parser'.live = parser.live /\ parser'.checked_bom = parser.checked_bom
  /\ call'.pc \in {"idle", "finish"} => call'.consumed = 0

LEMMA RestsPinned ==
  ASSUME TypeOK, Pinned, Resting
  PROVE  Pinned' /\ (loc = Spot => loc' = Spot')
<1>1. Released' = Released  BY DEF Resting, Released
<1>2. Passed' = Passed /\ Pending' = Pending  BY <1>1 DEF Resting, Passed, Pending
<1>3. Placed'  BY <1>1 DEF Placed, Pinned, Resting
<1>4. Started'  BY <1>2 DEF Started, Pinned, Resting
<1>5. CRSeen'  BY <1>2 DEF CRSeen, Pinned, Resting
<1>6. Spot' = Spot  BY <1>2 DEF Spot, PositionAt, Resting
<1> QED  BY <1>3, <1>4, <1>5, <1>6 DEF Pinned, Resting

\* Before there is a tokenizer the locator is where a document begins.
LEMMA BeforeStart ==
  ASSUME TypeOK, Pinned, ~parser.live  PROVE loc = Spot /\ Passed = 0 /\ Pending = 0
<1>1. Passed = 0 /\ loc = NewLocator /\ Pending = 0  BY DEF Pinned, Started, Pending
<1>2. TextStart(doc) \in Nat /\ 0 < TextStart(doc)  BY PinnedFacts
<1>3. Position(doc, TextStart(doc), 0) = NewLocator  BY <1>2, PositionFirst
<1> QED  BY <1>1, <1>3, PositionIs DEF Spot

\* The spot after a step.
LEMMA SpotAfter == Spot' = Position(doc', TextStart(doc'), Passed' - Pending')
BY Zenon DEF Spot, PositionAt, Position, TextStart, Breaks, LastLine, LineEnds

\* What the caller writes comes behind everything.
LEMMA WritePinned ==
  ASSUME TypeOK, Pinned, Write  PROVE Pinned' /\ (loc = Spot => loc' = Spot')
<1>1. PICK b \in Alphabet : ring' = Append(ring, b) /\ doc' = Append(doc, b)  BY DEF Write
<1>2. UNCHANGED <<tok, loc, call, parser>>  BY DEF Write
<1>3. ring \in Seq(Alphabet) /\ doc \in Seq(Alphabet)  BY CallerFacts
<1>4. /\ Len(ring') = Len(ring) + 1 /\ \A i \in 1 .. Len(ring) : ring'[i] = ring[i]
      /\ Len(doc') = Len(doc) + 1 /\ \A i \in 1 .. Len(doc) : doc'[i] = doc[i]
      /\ ring'[Len(ring) + 1] = b /\ doc'[Len(doc) + 1] = b
  BY <1>1, <1>3, AppendProperties
<1>5. /\ Released \in Nat /\ Len(ring) \in Nat /\ Len(doc) \in Nat /\ Released + Len(ring) = Len(doc)
      /\ Passed \in Nat /\ Pending \in Nat /\ Passed <= Len(doc)
      /\ TextStart(doc) \in Nat /\ 1 <= TextStart(doc)
  BY PinnedFacts
<1>6. Released' = Released  BY <1>4, <1>5 DEF Released
<1>7. Passed' = Passed /\ Pending' = Pending  BY <1>2, <1>6 DEF Passed, Pending
<1>8. \A i \in 1 .. Len(ring) : ring[i] = doc[Released + i]  BY DEF Pinned, Placed
<1>9. Placed'
  <2> DEFINE R == Released
  <2>1. R \in Nat /\ R + Len(ring) = Len(doc)  BY <1>5
  <2> HIDE DEF R
  <2>2. ASSUME NEW i \in 1 .. Len(ring) + 1  PROVE ring'[i] = doc'[R + i]
    <3>1. CASE i \in 1 .. Len(ring)
      <4>1. R + i \in 1 .. Len(doc)  BY <1>5, <2>1, <3>1
      <4> QED  BY <1>4, <1>8, <3>1, <4>1 DEF R
    <3>2. CASE i = Len(ring) + 1
      <4>1. R + i = Len(doc) + 1  BY <1>5, <2>1, <3>2
      <4> QED  BY <1>4, <3>2, <4>1
    <3> QED  BY <1>5, <3>1, <3>2
  <2>3. \A i \in 1 .. Len(ring') : ring'[i] = doc'[Released' + i]  BY <1>4, <1>6, <2>2 DEF R
  <2> QED  BY <1>2, <1>5, <1>6, <2>3 DEF Placed, Pinned
<1>10. CASE parser.live
  <2>1. Settled(doc) /\ TextStart(doc) <= Passed - Pending + 1  BY <1>10 DEF Pinned, Started
  <2>2. TextStart(doc') = TextStart(doc) /\ Settled(doc')  BY <1>1, <1>3, <2>1, SettledGrows
  <2>3. \A i \in Passed - Pending + 1 .. Passed : doc'[i] = doc[i]
    <3>1. \A i \in Passed - Pending + 1 .. Passed : i \in 1 .. Len(doc)  BY <1>5, <2>1
    <3> QED  BY <1>4, <3>1
  <2>4. Started'  BY <1>2, <1>7, <1>10, <2>1, <2>2, <2>3 DEF Started, Pinned
  <2>5. TextStart(doc) <= Passed => doc'[Passed] = doc[Passed]  BY <1>4, <1>5
  <2>6. Passed < Len(doc) => doc'[Passed + 1] = doc[Passed + 1] /\ Passed < Len(doc')  BY <1>4, <1>5
  <2>7. CRSeen'  BY <1>2, <1>7, <2>2, <2>5, <2>6 DEF CRSeen, Pinned
  <2>8. Spot' = Spot
    <3> DEFINE n == Passed - Pending
    <3>1. n \in Nat /\ n <= Len(doc)  BY <1>5, <2>1
    <3>2. Spot' = Position(doc', TextStart(doc), n)  BY <1>7, <2>2, SpotAfter
    <3>3. Spot = Position(doc, TextStart(doc), n)  BY PositionIs DEF Spot
    <3> HIDE DEF n
    <3> QED  BY <1>1, <1>3, <1>5, <3>1, <3>2, <3>3, PositionGrows
  <2> QED  BY <1>2, <1>9, <2>4, <2>7, <2>8 DEF Pinned
<1>11. CASE ~parser.live
  <2>1. Passed = 0 /\ Pending = 0 /\ loc = NewLocator  BY <1>11, BeforeStart DEF Pinned, Started
  <2>2. Started'
    <3>1. \A i \in 0 - 0 + 1 .. 0 : doc'[i] \in FigureBytes  OBVIOUS
    <3> QED  BY <1>2, <1>7, <1>11, <2>1, <3>1 DEF Started, Pinned
  <2>3. TextStart(doc') \in Nat /\ 1 <= TextStart(doc')  BY DEF TextStart
  <2>4. CRSeen'  BY <1>2, <1>7, <1>11, <2>1, <2>3 DEF CRSeen, Pinned, Started
  <2>5. Position(doc', TextStart(doc'), 0 - 0) = NewLocator  BY <2>3, PositionFirst
  <2>6. loc' = Spot'  BY <1>2, <1>7, <2>1, <2>5, SpotAfter
  <2> QED  BY <1>9, <2>2, <2>4, <2>6 DEF Pinned
<1> QED  BY <1>10, <1>11

\* What was consumed is released, and that does not move the spot.
LEMMA ReleasePinned ==
  ASSUME TypeOK, Pinned, FeedReturns  PROVE Pinned' /\ (loc = Spot => loc' = Spot')
<1> DEFINE c == call.consumed
<1>1. ring' = Slice(ring, c, Len(ring)) /\ UNCHANGED <<tok, loc, doc>>  BY DEF FeedReturns, Total
<1>2. call'.consumed = 0  BY DEF FeedReturns, Returned
<1>3. parser'.live = parser.live /\ parser'.checked_bom = parser.checked_bom
  BY CallerFacts, Zenon DEF FeedReturns, Parsers
<1>4. /\ Released \in Nat /\ c \in Nat /\ c <= Len(ring) /\ Len(ring) \in Nat /\ Len(doc) \in Nat
      /\ Released + Len(ring) = Len(doc) /\ Passed = Released + c
  BY PinnedFacts DEF Passed
<1>5. ring \in Seq(Alphabet)  BY CallerFacts
<1>6. \A i \in 1 .. Len(ring) : ring[i] = doc[Released + i]  BY DEF Pinned, Placed
<1> DEFINE R == Released
<1>7. R \in Nat /\ R + Len(ring) = Len(doc)  BY <1>4
<1> HIDE DEF c, R
<1>8. Len(ring') = Len(ring) - c /\ \A i \in 0 .. Len(ring) - c - 1 : Byte(ring', i) = Byte(ring, c + i)
  <2> DEFINE t == Slice(ring, c, Len(ring))
  <2>1. Len(t) = Len(ring) - c /\ \A i \in 0 .. Len(ring) - c - 1 : Byte(t, i) = Byte(ring, c + i)
    <3>1. c \in Nat /\ Len(ring) \in Nat /\ c <= Len(ring) /\ Len(ring) <= Len(ring)  BY <1>4
    <3> QED  BY <1>5, <3>1, SliceFacts, Zenon
  <2>2. ring' = t  BY <1>1
  <2> HIDE DEF t
  <2> QED  BY <2>1, <2>2, Zenon DEF Byte
<1>9. Released' = R + c
  <2>1. Released' = Len(doc) - (Len(ring) - c)  BY <1>1, <1>8 DEF Released
  <2> QED  BY <1>4, <1>7, <2>1
<1>10. Passed' = Passed /\ Pending' = Pending
  <2>1. Passed' = (R + c) + 0  BY <1>2, <1>9 DEF Passed
  <2> QED  BY <1>1, <1>4, <1>7, <2>1 DEF Pending, R
<1>11. Placed'
  <2>1. ASSUME NEW i \in 1 .. Len(ring) - c  PROVE ring'[i] = doc[(R + c) + i]
    <3>1. /\ i - 1 \in 0 .. Len(ring) - c - 1 /\ (i - 1) + 1 = i
          /\ (c + (i - 1)) + 1 = c + i /\ c + i \in 1 .. Len(ring) /\ (R + c) + i = R + (c + i)
      BY <1>4, <1>7
    <3>2. ring'[i] = ring[c + i]  BY <1>8, <3>1, Zenon DEF Byte
    <3> QED  BY <1>6, <3>1, <3>2 DEF R
  <2>2. \A i \in 1 .. Len(ring') : ring'[i] = doc'[Released' + i]  BY <1>1, <1>8, <1>9, <2>1
  <2> QED  BY <1>2, <1>4, <1>7, <1>9, <2>2 DEF Placed
<1>12. Started'  BY <1>1, <1>3, <1>10 DEF Started, Pinned
<1>13. CRSeen'  BY <1>1, <1>10 DEF CRSeen, Pinned
<1>14. Spot' = Spot  BY <1>1, <1>10 DEF Spot, PositionAt
<1> QED  BY <1>1, <1>11, <1>12, <1>13, <1>14 DEF Pinned

\* A reset begins a document with what is kept of the ring.
LEMMA ResetPinned ==
  ASSUME TypeOK, TypeOK', Reset  PROVE Pinned' /\ loc' = Spot'
<1>1. ring' = doc' /\ loc' = NewLocator /\ call' = Returned("none", "none")  BY DEF Reset
<1>2. tok'.stage = "None" /\ ~tok'.after_cr  BY DEF Reset, NewTokenizer
<1>3. ~parser'.live /\ ~parser'.checked_bom  BY DEF Reset, NewParser
<1>4. call'.consumed = 0  BY <1>1 DEF Returned
<1>5. Len(doc') \in Nat  BY LenProperties DEF TypeOK, CallerTypeOK
<1>6. Released' = 0 /\ Passed' = 0 /\ Pending' = 0
  <2>1. Released' = Len(doc') - Len(doc')  BY <1>1 DEF Released
  <2>2. Released' = 0  BY <1>5, <2>1
  <2> QED  BY <1>2, <1>4, <2>2 DEF Passed, Pending
<1>7. TextStart(doc') \in Nat /\ 1 <= TextStart(doc')  BY DEF TextStart
<1>8. Placed'  BY <1>1, <1>4, <1>6 DEF Placed
<1>9. Started'
  <2>1. \A i \in 0 - 0 + 1 .. 0 : doc'[i] \in FigureBytes  OBVIOUS
  <2> QED  BY <1>1, <1>2, <1>3, <1>6, <2>1 DEF Started
<1>10. CRSeen'  BY <1>2, <1>6, <1>7 DEF CRSeen
<1>11. Position(doc', TextStart(doc'), 0 - 0) = NewLocator  BY <1>7, PositionFirst
<1> QED  BY <1>1, <1>6, <1>8, <1>9, <1>10, <1>11, SpotAfter DEF Pinned

\* Where the text begins is settled once the mark is skipped or found missing.
LEMMA MarkSettled ==
  ASSUME NEW S, NEW s \in Seq(S), s # <<>>, ByteOrderMark(s) \in {0, 3}
  PROVE  Settled(s) /\ TextStart(s) = ByteOrderMark(s) + 1
<1> DEFINE Mark == Len(s) >= 3 /\ SubSeq(s, 1, 3) = <<"EF", "BB", "BF">>
<1>0. Len(s) \in Nat /\ Len(s) # 0  BY LenProperties, EmptySeq
<1>1. CASE s[1] = "EF"
  <2>1. Len(<<"EF", "BB", "BF">>) = 3  OBVIOUS
  <2>2. ByteOrderMark(s) = IF Mark THEN 3
                           ELSE IF Len(s) = 1 \/ (Len(s) = 2 /\ s[2] = "BB") THEN More ELSE 0
    BY <1>1, <2>1 DEF ByteOrderMark
  <2>3. TextStart(s) = IF Mark THEN 4 ELSE 1  BY Zenon DEF TextStart
  <2> HIDE DEF Mark
  <2>4. Mark \/ ~(Len(s) = 1 \/ (Len(s) = 2 /\ s[2] = "BB"))  BY <2>2 DEF More
  <2>5. Len(s) >= 3 \/ (Len(s) = 2 /\ s[2] # "BB")
    <3>1. CASE ~Mark
      <4>1. ~(Len(s) = 1) /\ ~(Len(s) = 2 /\ s[2] = "BB")  BY <2>4, <3>1
      <4>2. Len(s) >= 3 \/ Len(s) = 1 \/ Len(s) = 2
        <5>1. \A n \in Nat : n # 0 => n >= 3 \/ n = 1 \/ n = 2  OBVIOUS
        <5> QED  BY <1>0, <5>1
      <4> QED  BY <4>1, <4>2
    <3> QED  BY <3>1 DEF Mark
  <2> QED  BY <2>2, <2>3, <2>4, <2>5 DEF Settled
<1>2. CASE s[1] # "EF"
  <2>1. ~Mark
    <3>1. Mark => s[1] = "EF"
      <4>1. Mark => <<s[1], s[2], s[3]>> = <<"EF", "BB", "BF">>  BY FirstThree
      <4> QED  BY <4>1
    <3> QED  BY <1>2, <3>1
  <2>2. TextStart(s) = 1  BY <2>1, Zenon DEF TextStart
  <2>3. ByteOrderMark(s) # 3
    <3>1. CASE s[1] = "FE"  BY <3>1 DEF ByteOrderMark, More, Bad
    <3>2. CASE s[1] = "FF"  BY <3>2 DEF ByteOrderMark, More, Bad
    <3>3. CASE s[1] = "00"  BY <3>3 DEF ByteOrderMark, More, Bad
    <3>4. CASE s[1] \notin {"EF", "FE", "FF", "00"}  BY <3>4 DEF ByteOrderMark
    <3> QED  BY <1>2, <3>1, <3>2, <3>3, <3>4
  <2> QED  BY <1>2, <2>2, <2>3 DEF Settled
<1> QED  BY <1>1, <1>2

\* A call begins: there is a tokenizer already or none yet, or there is one
\* from now on, at the first byte behind the mark.
LEMMA FeedPinned ==
  ASSUME TypeOK, TypeOK', Pinned, NEW op \in {"receive", "close"}, Idle, ring # <<>>, Feed(op)
  PROVE  /\ Pinned'
         /\ \/ tok' = tok /\ (loc = Spot => loc' = Spot')
            \/ ~parser.live /\ loc' = Spot'
<1> DEFINE counted == [parser EXCEPT !.document_length = DocumentLength]
           bom == IF parser.checked_bom THEN 0 ELSE ByteOrderMark(ring)
           skipped == IF bom < 0 \/ DocumentTooLong THEN 0 ELSE bom
           live == ~DocumentTooLong /\ bom >= 0
<1>1. /\ UNCHANGED <<doc, ring, loc>>
      /\ parser' = IF live THEN [counted EXCEPT !.checked_bom = TRUE, !.live = TRUE,
                                                !.closed = @ \/ op = "close"]
                   ELSE [counted EXCEPT !.closed = @ \/ op = "close"]
      /\ tok' = IF live /\ ~parser.live
                  THEN NewTokenizer(parser.reject_duplicate_keys, parser.string_chunk_size)
                  ELSE tok
  BY DEF Feed
<1>2. call'.consumed = skipped /\ call'.pc \in {"loop", "fed"}  BY DEF Feed, Returned
<1>3. /\ live => parser'.live /\ parser'.checked_bom
      /\ ~live => parser'.live = parser.live /\ parser'.checked_bom = parser.checked_bom
  <2>1. DocumentLength \in Nat  BY CallerFacts DEF DocumentLength, FreshBytes
  <2>2. counted \in Parsers /\ counted.live = parser.live /\ counted.checked_bom = parser.checked_bom
    BY <2>1, CallerFacts, Zenon DEF Parsers
  <2> HIDE DEF counted, live
  <2>3. CASE live
    <3>1. parser' = [counted EXCEPT !.checked_bom = TRUE, !.live = TRUE, !.closed = @ \/ op = "close"]
      BY <1>1, <2>3
    <3>2. parser'.live = TRUE /\ parser'.checked_bom = TRUE  BY <2>2, <3>1, Zenon DEF Parsers
    <3> QED  BY <2>3, <3>2
  <2>4. CASE ~live
    <3>1. parser' = [counted EXCEPT !.closed = @ \/ op = "close"]  BY <1>1, <2>4
    <3>2. parser'.live = counted.live /\ parser'.checked_bom = counted.checked_bom
      BY <2>2, <3>1, Zenon DEF Parsers
    <3> QED  BY <2>2, <2>4, <3>2
  <2> QED  BY <2>3, <2>4
<1>4. call.consumed = 0 /\ (parser.live <=> parser.checked_bom)
  BY DEF Idle, Pinned, Placed, Started
<1>5. CASE parser.live \/ ~live
  <2>1. call'.consumed = 0
    <3>1. parser.live => bom = 0  BY <1>4
    <3>2. ~live => skipped = 0
      <4>1. bom \in {0, 3, More, Bad}  BY MarkInRing, CallerFacts
      <4> QED  BY <4>1 DEF More, Bad
    <3> QED  BY <1>2, <1>5, <3>1, <3>2
  <2>2. parser'.live = parser.live /\ parser'.checked_bom = parser.checked_bom
    BY <1>3, <1>4, <1>5, CallerFacts DEF Parsers
  <2>3. tok' = tok  BY <1>1, <1>5
  <2>4. Resting  BY <1>1, <1>4, <2>1, <2>2, <2>3 DEF Resting
  <2> QED  BY <2>3, <2>4, RestsPinned
<1>6. CASE ~parser.live /\ live
  <2>1. Passed = 0 /\ loc = NewLocator  BY <1>6 DEF Pinned, Started
  <2>2. Released = 0 /\ Released' = Released
    <3>1. Released \in Nat /\ Released + 0 = Passed  BY <1>4, PinnedFacts DEF Passed
    <3> QED  BY <1>1, <2>1, <3>1 DEF Released
  <2>3. ring = doc
    <3>1. ring \in Seq(Alphabet) /\ doc \in Seq(Alphabet)  BY CallerFacts
    <3>2. Len(ring) \in Nat /\ Len(doc) \in Nat /\ Released + Len(ring) = Len(doc)  BY PinnedFacts
    <3>3. Len(ring) = Len(doc)  BY <2>2, <3>2
    <3>4. \A i \in 1 .. Len(ring) : ring[i] = doc[Released + i]  BY DEF Pinned, Placed
    <3>5. \A i \in 1 .. Len(ring) : ring[i] = doc[i]  BY <2>2, <3>2, <3>4
    <3> QED  BY <3>1, <3>3, <3>5, SeqEqual
  <2>4. bom = ByteOrderMark(ring) /\ bom \in {0, 3} /\ skipped = bom
    <3>1. bom = ByteOrderMark(ring)  BY <1>4, <1>6
    <3>2. bom \in {0, 3, More, Bad}  BY <3>1, MarkInRing, CallerFacts
    <3>3. bom >= 0 /\ ~DocumentTooLong  BY <1>6
    <3> QED  BY <3>1, <3>2, <3>3 DEF More, Bad
  <2>5. Settled(doc) /\ TextStart(doc) = bom + 1
    <3>1. ByteOrderMark(doc) = bom /\ bom \in {0, 3}  BY <2>3, <2>4
    <3> HIDE DEF bom
    <3>2. doc \in Seq(Alphabet) /\ doc # <<>>  BY <2>3, CallerFacts
    <3> QED  BY <3>1, <3>2, MarkSettled
  <2>6. call'.consumed = bom  BY <1>2, <2>4
  <2> HIDE DEF bom, live, skipped, counted
  <2>7. tok' = NewTokenizer(parser.reject_duplicate_keys, parser.string_chunk_size)  BY <1>1, <1>6
  <2>8. tok'.stage = "None" /\ ~tok'.after_cr  BY <2>7 DEF NewTokenizer
  <2>9. Passed' = bom /\ Pending' = 0
    <3>1. Passed' = 0 + bom  BY <2>2, <2>6 DEF Passed
    <3> QED  BY <2>4, <2>8, <3>1 DEF Pending
  <2>10. Placed'
    <3>1. \A i \in 1 .. Len(ring) : ring[i] = doc[Released + i]  BY DEF Pinned, Placed
    <3> QED  BY <1>1, <1>2, <2>2, <3>1 DEF Placed
  <2>11. Started'
    <3>1. \A i \in bom - 0 + 1 .. bom : doc[i] \in FigureBytes  BY <2>4
    <3>2. TextStart(doc) <= bom - 0 + 1  BY <2>4, <2>5
    <3> QED  BY <1>1, <1>3, <1>6, <2>5, <2>9, <3>1, <3>2 DEF Started
  <2>12. CRSeen'
    <3>1. ~(TextStart(doc) <= bom)  BY <2>4, <2>5
    <3> QED  BY <1>1, <2>8, <2>9, <3>1 DEF CRSeen
  <2>13. Position(doc, TextStart(doc), bom - 0) = NewLocator  BY <2>4, <2>5, PositionFirst
  <2>14. loc' = Spot'  BY <1>1, <2>1, <2>9, <2>13, SpotAfter
  <2> QED  BY <1>6, <2>10, <2>11, <2>12, <2>14 DEF Pinned
<1> QED  BY <1>5, <1>6

\* The end of the input ends a number.
LEMMA NumberEndPinned ==
  ASSUME TypeOK, TypeOK', Pinned, AtLineStart, CloseAfterNumber
  PROVE  Pinned' /\ (loc = Spot => loc' = Spot')
<1>1. /\ call.pc = "finish" /\ parser.live /\ tok.stage # "None" /\ loc' = Right(tok.length)
      /\ tok' = [tok EXCEPT !.stage = "None", !.state = "AfterValue"]
      /\ UNCHANGED <<ring, parser, doc>>
  BY DEF CloseAfterNumber, Unfinished
<1>2. call'.consumed = 0  BY DEF CloseAfterNumber, Judge, Returned
<1>3. call.consumed = 0  BY <1>1 DEF Pinned, Placed
<1>4. ~tok.after_cr  BY <1>1 DEF AtLineStart, Between
<1>5. tok'.stage = "None" /\ tok'.after_cr = tok.after_cr  BY <1>1, TypeFacts, Zenon DEF Tokenizers
<1>6. Ended  BY <1>1, <1>2, <1>3, <1>4, <1>5 DEF Ended
<1>7. Released' = Released  BY <1>1 DEF Released
<1>8. Placed'  BY <1>1, <1>2, <1>7 DEF Placed, Pinned
<1> QED  BY <1>1, <1>6, <1>8, EndedPinned

\* The steps that only return, or only change a setting.
LEMMA SettingPinned ==
  ASSUME TypeOK, Pinned,
         \/ ReceiveNothing \/ CloseEmpty \/ CloseAgain \/ CloseUnfinished \/ CloseReturns
         \/ SetLimits \/ SetStringChunkSize \/ SetRejectDuplicateKeys \/ UNCHANGED vars
  PROVE  /\ Pinned' /\ (loc = Spot => loc' = Spot')
         /\ tok'.reject_duplicate_keys = tok.reject_duplicate_keys
<1>1. CASE \/ ReceiveNothing \/ CloseEmpty \/ CloseAgain \/ CloseUnfinished \/ CloseReturns
  <2>1. UNCHANGED <<ring, doc, loc, tok>>
    BY <1>1 DEF ReceiveNothing, CloseEmpty, CloseAgain, CloseUnfinished, CloseReturns
  <2>2. call'.consumed = 0
    BY <1>1 DEF ReceiveNothing, CloseEmpty, CloseAgain, CloseUnfinished, CloseReturns, Returned, Judge
  <2>3. call.pc \in {"idle", "finish"}
    BY <1>1 DEF ReceiveNothing, CloseEmpty, CloseAgain, CloseUnfinished, CloseReturns, Idle
  <2>4. parser'.live = parser.live /\ parser'.checked_bom = parser.checked_bom
    BY <1>1, CallerFacts, Zenon
    DEF ReceiveNothing, CloseEmpty, CloseAgain, CloseUnfinished, CloseReturns, Parsers
  <2>5. call.consumed = 0  BY <2>3 DEF Pinned, Placed
  <2>6. Resting  BY <2>1, <2>2, <2>4, <2>5 DEF Resting
  <2> QED  BY <2>1, <2>6, RestsPinned
<1>2. CASE \/ SetLimits \/ SetStringChunkSize \/ SetRejectDuplicateKeys \/ UNCHANGED vars
  <2>1. UNCHANGED <<ring, doc, loc, call>>
    BY <1>2 DEF SetLimits, SetStringChunkSize, SetRejectDuplicateKeys, vars
  <2>2. parser'.live = parser.live /\ parser'.checked_bom = parser.checked_bom
    BY <1>2, CallerFacts, Zenon DEF SetLimits, SetStringChunkSize, SetRejectDuplicateKeys, vars, Parsers
  <2>3. /\ tok'.stage = tok.stage /\ tok'.length = tok.length /\ tok'.after_cr = tok.after_cr
        /\ tok'.reject_duplicate_keys = tok.reject_duplicate_keys
    <3>1. tok' = tok \/ \E n : tok' = [tok EXCEPT !.chunk_size = n]
      BY <1>2 DEF SetLimits, SetStringChunkSize, SetRejectDuplicateKeys, vars
    <3>2. \A n : LET t == [tok EXCEPT !.chunk_size = n]
                 IN  /\ t.stage = tok.stage /\ t.length = tok.length /\ t.after_cr = tok.after_cr
                     /\ t.reject_duplicate_keys = tok.reject_duplicate_keys
      BY TypeFacts, Zenon DEF Tokenizers
    <3> QED  BY <3>1, <3>2
  <2>4. Resting  BY <2>1, <2>2, <2>3 DEF Resting, Pinned, Placed
  <2> QED  BY <2>3, <2>4, RestsPinned
<1> QED  BY <1>1, <1>2

\* The steps outside the tokenizer keep track of where the call is; the
\* locator stays right, or is set to where a document begins.
LEMMA OutsidePinned ==
  ASSUME TypeOK, TypeOK', Pinned, AtLineStart,
         \/ FeedReturns \/ CloseUnfinished \/ CloseReturns \/ CloseAfterNumber \/ CallerStep
         \/ UNCHANGED vars
  PROVE  /\ Pinned'
         /\ \/ loc' = Spot'
            \/ /\ loc = Spot => loc' = Spot'
               /\ tok'.reject_duplicate_keys = tok.reject_duplicate_keys
<1>1. CASE Receive \/ Close
  <2>1. PICK op \in {"receive", "close"} : Idle /\ ring # <<>> /\ Feed(op)  BY <1>1 DEF Receive, Close
  <2>2. /\ Pinned'
        /\ \/ tok' = tok /\ (loc = Spot => loc' = Spot')
           \/ ~parser.live /\ loc' = Spot'
    BY <2>1, FeedPinned
  <2> QED  BY <2>2
<1>2. CASE Write  BY <1>2, WritePinned DEF Write
<1>3. CASE FeedReturns  BY <1>3, ReleasePinned DEF FeedReturns
<1>4. CASE CloseAfterNumber
  <2>1. tok' = [tok EXCEPT !.stage = "None", !.state = "AfterValue"]  BY <1>4 DEF CloseAfterNumber
  <2>2. tok'.reject_duplicate_keys = tok.reject_duplicate_keys  BY <2>1, TypeFacts, Carried DEF Carries
  <2> QED  BY <1>4, <2>2, NumberEndPinned
<1>5. CASE Reset  BY <1>5, ResetPinned
<1>6. CASE \/ ReceiveNothing \/ CloseEmpty \/ CloseAgain \/ CloseUnfinished \/ CloseReturns
           \/ SetLimits \/ SetStringChunkSize \/ SetRejectDuplicateKeys \/ UNCHANGED vars
  BY <1>6, SettingPinned
<1> QED  BY <1>1, <1>2, <1>3, <1>4, <1>5, <1>6 DEF CallerStep

\* They scan nothing.
LEMMA OutsideScans ==
  ASSUME TypeOK, TypeOK', Scanned,
         \/ FeedReturns \/ CloseUnfinished \/ CloseReturns \/ CloseAfterNumber \/ CallerStep
         \/ UNCHANGED vars
  PROVE  Scanned'
<1>0. CallInRing(call) /\ CallInRing(call)'  BY TypeFacts DEF TypeOK, TokenizerTypeOK
<1>1. CASE UNCHANGED vars
  BY <1>1, Zenon DEF vars, Scanned, ScansRight, Decoded, OneLine, UnitsAt
<1>2. CASE ~UNCHANGED vars
  <2>1. (UNCHANGED call /\ call.pc \in {"idle", "fed", "finish"}) \/ call'.pc \in {"idle", "finish", "loop", "fed"}
    <3>1. CASE Receive \/ Close
      <4>1. PICK op : Feed(op)  BY <3>1 DEF Receive, Close
      <4> QED  BY <4>1 DEF Feed, Returned
    <3>2. CASE FeedReturns \/ CloseUnfinished \/ CloseReturns \/ CloseAfterNumber
      BY <3>2 DEF FeedReturns, CloseUnfinished, CloseReturns, CloseAfterNumber, Judge, Returned
    <3>3. CASE Write \/ SetLimits \/ SetStringChunkSize \/ SetRejectDuplicateKeys
      BY <3>3 DEF Write, SetLimits, SetStringChunkSize, SetRejectDuplicateKeys, Idle
    <3>4. CASE ReceiveNothing \/ CloseEmpty \/ CloseAgain \/ Reset
      BY <3>4 DEF ReceiveNothing, CloseEmpty, CloseAgain, Reset, Returned
    <3> QED  BY <1>2, <3>1, <3>2, <3>3, <3>4 DEF CallerStep
  <2>2. call'.pc \in {"idle", "finish", "loop", "fed"}  BY <2>1
  <2>3. call'.key = "none"  BY <1>0, <2>2 DEF CallInRing
  <2> QED  BY <2>2, <2>3 DEF Scanned, ScansRight
<1> QED  BY <1>1, <1>2

-----------------------------------------------------------------------------
(* The locator is exact                                                    *)

\* What becomes of the calls that close the parser.
Closing ==
  /\ verdict = "accepted" => Idle /\ parser.closed
  /\ ~Idle /\ call.op = "close" => parser.closed
  /\ call.pc = "finish" => call.op = "close"

\* Every step keeps Closing.
LEMMA ClosingKept ==
  ASSUME TypeOK, Closing, [Next]_vars  PROVE Closing'
<1>0. call \in Calls /\ CallInRing(call) /\ parser \in Parsers /\ call.error \in Errors
  BY TypeFacts, CallFields, CallerFacts
<1>1. CASE TokenizerStep /\ UNCHANGED <<parser, doc, verdict>>
  <2>1. call.pc \in InTokenizer /\ SameCall(call')  BY <1>0, <1>1, TokenizerSteps
  <2>2. call'.op = call.op /\ call'.pc \notin {"idle", "finish"} /\ call.pc \notin {"idle", "finish"}
    BY <2>1 DEF SameCall, InTokenizer
  <2> QED  BY <1>1, <2>2 DEF Closing, Idle
<1>2. CASE FeedReturns
  <2>1. parser'.closed = parser.closed  BY <1>0, <1>2, Zenon DEF FeedReturns, Parsers
  <2>2. ~Idle /\ verdict # "accepted"  BY <1>2 DEF FeedReturns, Idle, Closing
  <2>3. verdict' # "accepted"  BY <1>0, <1>2, <2>2 DEF FeedReturns, Judged, Errors
  <2>4. call'.pc = "idle" \/ (call'.op = "close" /\ call.op = "close")
    BY <1>2 DEF FeedReturns, Returned
  <2> QED  BY <2>1, <2>2, <2>3, <2>4 DEF Closing, Idle
<1>3. CASE CloseUnfinished \/ CloseReturns \/ CloseAfterNumber
  <2>1. call.pc = "finish" /\ UNCHANGED parser /\ \E result : Judge(result)
    BY <1>3 DEF CloseUnfinished, CloseReturns, CloseAfterNumber
  <2>2. call'.pc = "idle" /\ parser.closed  BY <2>1 DEF Judge, Returned, Closing, Idle
  <2> QED  BY <2>1, <2>2 DEF Closing, Idle
<1>4. CASE Receive \/ Close
  <2>1. PICK op \in {"receive", "close"} : Idle /\ ~parser.closed /\ Feed(op)  BY <1>4 DEF Receive, Close
  <2>2. /\ parser'.closed = (parser.closed \/ op = "close")
        /\ call'.op = op /\ call'.pc \in {"loop", "fed"}
    BY <2>1, FeedParser
  <2>3. UNCHANGED verdict  BY <2>1 DEF Feed
  <2> QED  BY <2>1, <2>2, <2>3 DEF Closing
<1>5. CASE CloseEmpty
  <2>1. call'.op = "close" /\ UNCHANGED verdict /\ ~parser.closed  BY <1>5 DEF CloseEmpty, Returned
  <2>2. parser'.closed = TRUE  BY <1>0, <1>5, Zenon DEF CloseEmpty, Parsers
  <2> QED  BY <2>1, <2>2 DEF Closing
<1>6. CASE ReceiveNothing \/ CloseAgain
  <2>1. UNCHANGED <<parser, verdict>> /\ call'.pc = "idle"
    BY <1>6 DEF ReceiveNothing, CloseAgain, Returned
  <2> QED  BY <2>1 DEF Closing, Idle
<1>7. CASE Reset
  <2>1. call' = Returned("none", "none") /\ verdict' = "open"  BY <1>7 DEF Reset
  <2> QED  BY <2>1 DEF Closing, Idle, Returned
<1>8. CASE Write \/ SetLimits \/ SetStringChunkSize \/ SetRejectDuplicateKeys \/ UNCHANGED vars
  <2>1. parser'.closed = parser.closed
    BY <1>8, CallerFacts, Zenon
    DEF Write, SetLimits, SetStringChunkSize, SetRejectDuplicateKeys, vars, Parsers
  <2>2. UNCHANGED <<call, verdict>>
    BY <1>8 DEF Write, SetLimits, SetStringChunkSize, SetRejectDuplicateKeys, vars
  <2> QED  BY <2>1, <2>2 DEF Closing, Idle
<1> QED
  BY <1>1, <1>2, <1>3, <1>4, <1>5, <1>6, <1>7, <1>8 DEF Next, CallStep, CallerStep

\* No key of the document was refused as a duplicate.
Trusted ==
  tok.reject_duplicate_keys => verdict \in {"open", "accepted"} /\ (~Idle => call.error # "duplicate")

\* Then the locator is at the spot.
AtSpot == Trusted => loc = Spot

\* A step outside the tokenizer does not undo that a key was refused.
LEMMA TrustedBefore ==
  ASSUME TypeOK, CallState, Closing, Trusted',
         tok'.reject_duplicate_keys = tok.reject_duplicate_keys,
         \/ FeedReturns \/ CloseUnfinished \/ CloseReturns \/ CloseAfterNumber
         \/ (CallerStep /\ ~Reset) \/ UNCHANGED vars
  PROVE  Trusted
<1>0. call \in Calls /\ call.error \in Errors  BY TypeFacts, CallFields
<1>1. CASE ~tok.reject_duplicate_keys  BY <1>1 DEF Trusted
<1>2. CASE tok.reject_duplicate_keys
  <2>1. verdict' \in {"open", "accepted"}  BY <1>2 DEF Trusted
  <2>2. CASE FeedReturns
    <3>1. ~Idle /\ verdict # "accepted"  BY <2>2 DEF FeedReturns, Idle, Closing
    <3>2. verdict' \in {Judged(call.error), Judged("small"), verdict}
          /\ (call.error # "none" => verdict' = Judged(call.error))
      BY <2>2 DEF FeedReturns
    <3>3. verdict = "open" /\ call.error = "none"
      BY <1>0, <2>1, <3>1, <3>2 DEF Judged, Errors
    <3> QED  BY <3>3 DEF Trusted
  <2>3. CASE CloseUnfinished \/ CloseReturns \/ CloseAfterNumber
    <3>1. call.pc = "finish" /\ \E result : verdict' = Judged(result)
      BY <2>3 DEF CloseUnfinished, CloseReturns, CloseAfterNumber, Judge
    <3>2. verdict # "accepted" /\ call.error = "none"  BY <3>1 DEF Closing, Idle, CallState
    <3>3. verdict = "open"  BY <2>1, <3>1, <3>2 DEF Judged
    <3> QED  BY <3>2, <3>3 DEF Trusted
  <2>4. CASE CallerStep /\ ~Reset
    <3>1. Idle /\ UNCHANGED verdict
      BY <2>4 DEF CallerStep, Write, Receive, ReceiveNothing, Close, CloseEmpty, CloseAgain, Feed,
         SetLimits, SetStringChunkSize, SetRejectDuplicateKeys
    <3> QED  BY <2>1, <3>1 DEF Trusted
  <2>5. CASE UNCHANGED vars  BY <2>5 DEF vars, Trusted, Idle
  <2> QED  BY <2>2, <2>3, <2>4, <2>5
<1> QED  BY <1>1, <1>2

\* A key that is refused is consumed, but the locator does not move past it
\* and nothing is reported.
LEMMA RepeatsRefused ==
  ASSUME TypeOK, Repeats
  PROVE  /\ UNCHANGED <<loc, events>> /\ call'.error = "duplicate" /\ call'.pc = "fed"
         /\ tok.reject_duplicate_keys
<1>1. Duplicate(KeyText) /\ UNCHANGED <<loc, events>> /\ \E n : call' = Failed(n, "duplicate")
  BY DEF Repeats, KeyDone
<1>2. call'.error = "duplicate" /\ call'.pc = "fed"  BY <1>1, TypeFacts, Zenon DEF Failed, Calls
<1> QED  BY <1>1, <1>2 DEF Duplicate

\* Every step of the tokenizer keeps the setting.
LEMMA SettingCarried ==
  ASSUME TypeOK, Lengthy, TokenizerStep
  PROVE  tok'.reject_duplicate_keys = tok.reject_duplicate_keys
<1>1. CASE QuietStep  BY <1>1, QuietCarries DEF Carries
<1>2. CASE TokenStep  BY <1>2, TokenCarries
<1> QED  BY <1>1, <1>2, StepKinds

\* The locator stays at the spot.
LEMMA AtSpotKept ==
  ASSUME TypeOK, TypeOK', CallState, Fresh, Reading, Advancing, Closing, Pinned, Scanned, AtSpot,
         [Next]_vars
  PROVE  Pinned' /\ Scanned' /\ AtSpot'
<1>0. call \in Calls /\ CallInRing(call)  BY TypeFacts
<1>1. CASE TokenizerStep /\ UNCHANGED <<parser, doc, verdict>>
  <2>1. call.pc \in InTokenizer /\ SameCall(call')  BY <1>0, <1>1, TokenizerSteps
  <2>2. parser.live /\ call'.pc \in InTokenizer \cup {"fed"}  BY <2>1 DEF Fresh, SameCall
  <2>3. Pinned' /\ Scanned' /\ (loc = Spot => loc' = Spot' \/ Repeats)
    BY <1>1, <2>2, TokenizerPinned DEF Advancing
  <2>4. ASSUME Trusted'  PROVE Trusted /\ ~Repeats
    <3>1. call.error = "none"  BY <2>1 DEF CallState, InTokenizer
    <3>2. tok'.reject_duplicate_keys = tok.reject_duplicate_keys  BY <1>1, SettingCarried DEF Advancing
    <3>3. Trusted  BY <1>1, <2>4, <3>1, <3>2 DEF Trusted
    <3>4. ~Repeats
      <4>1. Repeats => call'.error = "duplicate" /\ call'.pc # "idle" /\ tok'.reject_duplicate_keys
        BY <3>2, RepeatsRefused
      <4> QED  BY <2>4, <4>1 DEF Trusted, Idle
    <3> QED  BY <3>3, <3>4
  <2> QED  BY <2>3, <2>4 DEF AtSpot
<1>2. CASE \/ FeedReturns \/ CloseUnfinished \/ CloseReturns \/ CloseAfterNumber \/ CallerStep
           \/ UNCHANGED vars
  <2>1. /\ Pinned'
        /\ \/ loc' = Spot'
           \/ /\ loc = Spot => loc' = Spot'
              /\ tok'.reject_duplicate_keys = tok.reject_duplicate_keys
    BY <1>2, OutsidePinned DEF Advancing
  <2>2. Scanned'  BY <1>2, OutsideScans
  <2>3. Reset => loc' = Spot'  BY ResetPinned
  <2>4. AtSpot'  BY <1>2, <2>1, <2>3, TrustedBefore DEF AtSpot
  <2> QED  BY <2>1, <2>2, <2>4
<1> QED  BY <1>1, <1>2 DEF Next, CallStep

\* Where a call is in the document, and where the locator is.
Located == Closing /\ Pinned /\ Scanned /\ AtSpot

\* They are right in every state.
LEMMA LocatedHolds == Spec => []Located
<1>1. Init => Located
  <2> SUFFICES ASSUME Init  PROVE Located  OBVIOUS
  <2>1. /\ ring = <<>> /\ doc = <<>> /\ loc = NewLocator /\ call = Returned("none", "none")
        /\ verdict = "open"
        /\ \E reject, chunk : parser = NewParser(reject, chunk) /\ tok = NewTokenizer(reject, chunk)
    BY DEF Init
  <2>2. /\ call.pc = "idle" /\ call.consumed = 0 /\ call.key = "none"
        /\ ~parser.live /\ ~parser.checked_bom /\ tok.stage = "None" /\ ~tok.after_cr
    BY <2>1 DEF Returned, NewParser, NewTokenizer
  <2>3. Closing  BY <2>1, <2>2 DEF Closing, Idle
  <2>4. Scanned  BY <2>2 DEF Scanned, ScansRight
  <2>5. Released = 0 /\ Passed = 0 /\ Pending = 0  BY <2>1, <2>2 DEF Released, Passed, Pending
  <2>6. TextStart(doc) \in Nat /\ 1 <= TextStart(doc)  BY DEF TextStart
  <2>7. Placed  BY <2>1, <2>2, <2>5 DEF Placed
  <2>8. Started
    <3>1. \A i \in 0 - 0 + 1 .. 0 : doc[i] \in FigureBytes  OBVIOUS
    <3> QED  BY <2>1, <2>2, <2>5, <3>1 DEF Started
  <2>9. CRSeen  BY <2>2, <2>5, <2>6 DEF CRSeen
  <2>10. Position(doc, TextStart(doc), 0 - 0) = NewLocator  BY <2>6, PositionFirst
  <2>11. AtSpot  BY <2>1, <2>5, <2>10, PositionIs DEF AtSpot, Spot
  <2> QED  BY <2>3, <2>4, <2>7, <2>8, <2>9, <2>11 DEF Located, Pinned
<1>2. TypeOK /\ TypeOK' /\ CallState /\ Fresh /\ Reading /\ Advancing /\ Located /\ [Next]_vars => Located'
  BY ClosingKept, AtSpotKept DEF Located
<1> QED
  BY <1>1, <1>2, TypeCorrect, CallStateHolds, ReadingHolds, AdvancingHolds, PTL DEF Spec

\* Between calls the locator is where the lines and UTF-16 units of everything
\* consumed so far put it, a number that has not ended left out: wherever calls
\* and spans cut the document (between a CR and its LF, in a character, in an
\* escape, in the byte order mark), whatever the handler refuses and however
\* often the caller goes on, unless a key was refused as a duplicate
\* (locator.rs; after_cr in tokenizer.rs).
THEOREM LocatorIsExact == Spec => []LocatorExact
<1>1. TypeOK /\ Located => LocatorExact
  <2> SUFFICES ASSUME TypeOK, Located, Idle, tok.reject_duplicate_keys => verdict \in {"open", "accepted"}
               PROVE  loc = PositionAt(Len(doc) - Len(ring) - IF tok.stage = "None" THEN 0 ELSE tok.length)
    BY DEF LocatorExact
  <2>1. loc = Spot  BY DEF Located, AtSpot, Trusted
  <2>2. call.consumed = 0  BY DEF Located, Pinned, Placed, Idle
  <2>3. Released \in Nat /\ Passed = Released  BY <2>2, PinnedFacts DEF Located, Passed
  <2>4. Spot = PositionAt(Released - Pending)  BY <2>3 DEF Spot
  <2> QED  BY <2>1, <2>4 DEF Released, Pending
<1> QED  BY <1>1, LocatedHolds, TypeCorrect, PTL

-----------------------------------------------------------------------------
(* What the callbacks read is exact                                        *)

\* A step whose last callback, if it is about a token, reads where that ends.
EventExact ==
  \/ events' = events \/ events' = <<>>
  \/ LET e == events'[Len(events')]
     IN  \/ e.ev \in {"string_value_content", "whitespace"}
         \/ [line |-> e.line, column |-> e.column] = PositionAt(Len(doc) - Len(ring) + call'.consumed)

\* Where the locator is right again, what is read there is.
LEMMA ReadAtSpot ==
  ASSUME TypeOK, TypeOK', UNCHANGED <<doc, ring>>, Pinned, tok'.stage = "None", loc' = Spot',
         NEW ev, NEW text, Notify(ev, text, loc')
  PROVE  EventExact
<1> DEFINE e == [ev |-> ev, text |-> text, line |-> loc'.line, column |-> loc'.column]
<1>1. events' = Append(events, e) /\ events \in Seq(Events)
  BY DEF Notify, TypeOK, TokenizerTypeOK
<1>2. events'[Len(events')] = e  BY <1>1
<1>3. loc' = [line |-> loc'.line, column |-> loc'.column]
  BY DEF TypeOK, TokenizerTypeOK, Locators
<1>4. Released' = Released /\ Released \in Nat  BY PinnedFacts DEF Released
<1>5. call'.consumed \in Nat /\ Pending' = 0  BY DEF Pending, TypeOK, TokenizerTypeOK, Calls
<1>6. Passed' - Pending' = Released + call'.consumed  BY <1>4, <1>5 DEF Passed
<1>7. Spot' = Position(doc, TextStart(doc), Released + call'.consumed)  BY <1>6, SpotAfter
<1>8. loc' = PositionAt(Len(doc) - Len(ring) + call'.consumed)  BY <1>7, PositionIs DEF Released
<1>9. [line |-> e.line, column |-> e.column] = loc'  BY <1>3
<1> HIDE DEF e
<1> QED  BY <1>2, <1>8, <1>9, Zenon DEF EventExact

\* No step of the tokenizer reports a token anywhere else than where it ends.
LEMMA TokenizerExact ==
  ASSUME TypeOK, TypeOK', Fresh, Reading, Advancing, Pinned, Scanned, loc = Spot,
         TokenizerStep, UNCHANGED <<parser, doc, verdict>>
  PROVE  EventExact
<1>0. call \in Calls /\ CallInRing(call) /\ loc \in Locators /\ events \in Seq(Events)
  BY TypeFacts DEF TypeOK, TokenizerTypeOK
<1>1. call.pc \in InTokenizer /\ SameCall(call')  BY <1>0, TokenizerSteps
<1>2. parser.live /\ call'.pc \in InTokenizer \cup {"fed"}  BY <1>1 DEF Fresh, SameCall
<1>3. loc' = Spot' \/ Repeats  BY <1>2, TokenizerPinned DEF Advancing
<1>4. CASE QuietStep
  <2>1. CASE UNCHANGED events  BY <2>1 DEF EventExact
  <2>2. ASSUME NEW ev \in {"string_value_content", "whitespace"}, Reports(ev)  PROVE EventExact
    <3>1. PICK text, at : Notify(ev, text, at)  BY <2>2 DEF Reports
    <3> DEFINE e == [ev |-> ev, text |-> text, line |-> at.line, column |-> at.column]
    <3>2. events' = Append(events, e)  BY <3>1 DEF Notify
    <3>3. events'[Len(events')] = e  BY <1>0, <3>2
    <3>4. e.ev \in {"string_value_content", "whitespace"}  OBVIOUS
    <3> HIDE DEF e
    <3> QED  BY <3>3, <3>4 DEF EventExact
  <2> QED  BY <1>4, <2>1, <2>2, QuietTells
<1>5. CASE TokenStep
  <2>1. CASE UNCHANGED events  BY <2>1 DEF EventExact
  <2>2. CASE ~UNCHANGED events
    <3>1. \E ev, text : Notify(ev, text, loc')  BY <1>5, <2>2, TokenEvents
    <3>2. loc' # loc
      <4>1. PICK n \in Nat : 1 <= n /\ loc' = Right(n)  BY <1>5, <2>2, TokenLoc DEF Advancing
      <4>2. Before(loc, loc')  BY <1>0, <4>1, RightOf
      <4> QED  BY <1>0, <4>2 DEF Before, Locators
    <3>3. loc' = Spot'  BY <1>3, <3>2, RepeatsRefused
    <3>4. tok'.stage = "None"
      <4>1. Ended \/ \E m \in Nat : Takes(m) \/ GrowsBy(m)  BY <1>5, TokenMovesOn DEF Advancing
      <4> QED  BY <3>2, <4>1 DEF Ended, Takes, GrowsBy
    <3> QED  BY <3>1, <3>3, <3>4, ReadAtSpot DEF TokenizerStep
  <2> QED  BY <2>1, <2>2
<1> QED  BY <1>4, <1>5, StepKinds

\* Duplicate keys are rejected only where the caller may ask for it.
Asked == {tok.reject_duplicate_keys, parser.reject_duplicate_keys} \subseteq Rejecting

\* Every step keeps Asked.
LEMMA AskedKept ==
  ASSUME TypeOK, Lengthy, Asked, [Next]_vars  PROVE Asked'
<1>0. tok \in Tokenizers /\ parser \in Parsers  BY TypeFacts, CallerFacts
<1>1. CASE TokenizerStep /\ UNCHANGED <<parser, doc, verdict>>
  BY <1>1, SettingCarried DEF Asked
<1>2. CASE Receive \/ Close
  <2>1. PICK op : Feed(op)  BY <1>2 DEF Receive, Close
  <2> DEFINE counted == [parser EXCEPT !.document_length = DocumentLength]
  <2>2. \/ parser' = [counted EXCEPT !.closed = @ \/ op = "close"]
        \/ parser' = [counted EXCEPT !.checked_bom = TRUE, !.live = TRUE, !.closed = @ \/ op = "close"]
    BY <2>1 DEF Feed
  <2>3. parser'.reject_duplicate_keys = parser.reject_duplicate_keys
    <3>1. DocumentLength \in Nat  BY CallerFacts DEF DocumentLength, FreshBytes
    <3>2. counted \in Parsers /\ counted.reject_duplicate_keys = parser.reject_duplicate_keys
      BY <1>0, <3>1, Zenon DEF Parsers
    <3> HIDE DEF counted
    <3> QED  BY <2>2, <3>2, Zenon DEF Parsers
  <2>4. tok' \in {tok, NewTokenizer(parser.reject_duplicate_keys, parser.string_chunk_size)}
    BY <2>1 DEF Feed
  <2>5. tok'.reject_duplicate_keys \in {tok.reject_duplicate_keys, parser.reject_duplicate_keys}
    BY <2>4 DEF NewTokenizer
  <2> QED  BY <2>3, <2>5 DEF Asked
<1>3. CASE Reset
  <2>1. /\ parser' = NewParser(parser.reject_duplicate_keys, parser.string_chunk_size)
        /\ tok' = NewTokenizer(parser.reject_duplicate_keys, parser.string_chunk_size)
    BY <1>3 DEF Reset
  <2> QED  BY <2>1 DEF Asked, NewParser, NewTokenizer
<1>4. CASE \/ FeedReturns \/ CloseUnfinished \/ CloseReturns \/ CloseAfterNumber
           \/ Write \/ ReceiveNothing \/ CloseEmpty \/ CloseAgain
           \/ SetLimits \/ SetStringChunkSize \/ SetRejectDuplicateKeys \/ UNCHANGED vars
  <2>1. \/ tok' = tok \/ \E n : tok' = [tok EXCEPT !.chunk_size = n]
        \/ tok' = [tok EXCEPT !.stage = "None", !.state = "AfterValue"]
    BY <1>4 DEF FeedReturns, CloseUnfinished, CloseReturns, CloseAfterNumber, Write, ReceiveNothing,
       CloseEmpty, CloseAgain, SetLimits, SetStringChunkSize, SetRejectDuplicateKeys, vars
  <2>2. tok'.reject_duplicate_keys = tok.reject_duplicate_keys  BY <1>0, <2>1, Zenon DEF Tokenizers
  <2>3. CASE SetRejectDuplicateKeys
    <3>1. PICK reject \in Rejecting : parser' = [parser EXCEPT !.reject_duplicate_keys = reject]
      BY <2>3 DEF SetRejectDuplicateKeys
    <3>2. parser'.reject_duplicate_keys = reject  BY <1>0, <3>1, Zenon DEF Parsers
    <3> QED  BY <2>2, <3>2 DEF Asked
  <2>4. CASE ~SetRejectDuplicateKeys
    <3>1. parser'.reject_duplicate_keys = parser.reject_duplicate_keys
      BY <1>0, <1>4, <2>4, Zenon
      DEF FeedReturns, CloseUnfinished, CloseReturns, CloseAfterNumber, Write, ReceiveNothing,
         CloseEmpty, CloseAgain, SetLimits, SetStringChunkSize, vars, Parsers
    <3> QED  BY <2>2, <3>1 DEF Asked
  <2> QED  BY <2>3, <2>4
<1> QED  BY <1>1, <1>2, <1>3, <1>4 DEF Next, CallStep, CallerStep

\* And so it stays.
LEMMA AskedHolds == Spec => []Asked
<1>1. Init => Asked
  <2> SUFFICES ASSUME Init  PROVE Asked  OBVIOUS
  <2>1. \E reject \in Rejecting, chunk \in ChunkSizes :
          parser = NewParser(reject, chunk) /\ tok = NewTokenizer(reject, chunk)
    BY DEF Init
  <2> QED  BY <2>1 DEF Asked, NewParser, NewTokenizer
<1>2. TypeOK /\ Advancing /\ Asked /\ [Next]_vars => Asked'  BY AskedKept DEF Advancing
<1> QED  BY <1>1, <1>2, TypeCorrect, AdvancingHolds, PTL DEF Spec

\* While a call is in progress no key has been refused as a duplicate, if
\* nobody goes on after an error or if duplicates are not rejected.
LEMMA TrustedInCall ==
  ASSUME ~RetryAfterError \/ TRUE \notin Rejecting, TypeOK, CallState, Asked, ~Idle,
         call.pc # "fed"
  PROVE  Trusted
<1>1. CASE ~RetryAfterError
  <2>1. verdict = "open" /\ call.error = "none"  BY <1>1 DEF CallState, Idle
  <2> QED  BY <2>1 DEF Trusted
<1>2. CASE TRUE \notin Rejecting
  <2>1. tok.reject_duplicate_keys \in BOOLEAN  BY TypeFacts DEF Tokenizers
  <2> QED  BY <1>2, <2>1 DEF Asked, Trusted
<1> QED  BY <1>1, <1>2

\* A callback about a token reads the position where the token ends, also for
\* the number that close ends: the locator is moved before the handler is
\* called, past the whole token, and no earlier step left it behind.
THEOREM EventsAreExact ==
  ASSUME ~RetryAfterError \/ TRUE \notin Rejecting
  PROVE  Spec => EventsExact
<1>1. ASSUME TypeOK, TypeOK', CallState, Fresh, Reading, Advancing, Located, Asked, [Next]_vars
      PROVE  EventExact
  <2>0. call \in Calls /\ CallInRing(call)  BY <1>1, TypeFacts
  <2>1. CASE TokenizerStep /\ UNCHANGED <<parser, doc, verdict>>
    <3>1. call.pc \in InTokenizer  BY <2>0, <2>1, TokenizerSteps
    <3>2. Trusted  BY <1>1, <3>1, TrustedInCall DEF InTokenizer, Idle
    <3> QED  BY <1>1, <2>1, <3>2, TokenizerExact DEF Located, AtSpot
  <2>2. CASE CloseAfterNumber
    <3>1. call.pc = "finish" /\ UNCHANGED <<doc, ring>> /\ Notify("number_value", tok.number, loc')
      BY <2>2 DEF CloseAfterNumber
    <3>2. Trusted  BY <1>1, <3>1, TrustedInCall DEF Idle
    <3>3. loc' = Spot'  BY <1>1, <2>2, <3>2, NumberEndPinned DEF Located, AtSpot, Advancing
    <3>4. tok'.stage = "None"  BY <2>2, TypeFacts, <1>1, Zenon DEF CloseAfterNumber, Tokenizers
    <3> QED  BY <1>1, <3>1, <3>3, <3>4, ReadAtSpot DEF Located
  <2>3. CASE FeedReturns \/ CloseUnfinished \/ CloseReturns \/ CallerStep \/ UNCHANGED vars
    <3>1. events' = events \/ events' = <<>>  BY <1>1, <2>3, OutsidePlace DEF Outside
    <3> QED  BY <3>1 DEF EventExact
  <2> QED  BY <1>1, <2>1, <2>2, <2>3 DEF Next, CallStep
<1>2. Spec => [][EventExact]_vars
  BY <1>1, TypeCorrect, CallStateHolds, ReadingHolds, AdvancingHolds, LocatedHolds, AskedHolds, PTL
  DEF Spec
<1> QED  BY <1>2 DEF EventExact, EventsExact

-----------------------------------------------------------------------------
(* parse() as a caller of the parser                                       *)

\* Every step of parse is one of the parser's caller, of a call, or none at
\* all for the parser.
LEMMA ParseStepIsCallers ==
  ASSUME [ParseNext]_loopVars  PROVE [Next]_vars
BY DEF ParseNext, Parse, Configure, CallRuns, LoopRuns, ReadByte, ReadReturns, ReceiveReturns,
   ReadEnds, CloseReturned, ReadFails, Next, CallerStep, loopVars

\* Under parse, too, every variable keeps its type and every call stays inside
\* its ring (the properties of TypeCorrect, for parser.rs 339-368).
THEOREM ParseTypeCorrect == ParseSpec => []TypeOK
<1>1. ParseInit => TypeOK  BY InitType DEF ParseInit
<1>2. TypeOK /\ [ParseNext]_loopVars => TypeOK'  BY ParseStepIsCallers, NextType
<1> QED  BY <1>1, <1>2, PTL DEF ParseSpec

\* Under parse, too, the three stacks agree, one document after another.
THEOREM ParseStacksAgree == ParseSpec => []StacksAgree
<1>1. StacksAgree <=> Agree(tok)  BY DEF StacksAgree, Agree
<1>2. StacksAgree' <=> Agree(tok')  BY DEF StacksAgree, Agree
<1>3. ParseInit => StacksAgree  BY <1>1, NewAgrees DEF ParseInit, Init
<1>4. TypeOK /\ StacksAgree /\ [ParseNext]_loopVars => StacksAgree'
  BY <1>1, <1>2, ParseStepIsCallers, NextAgrees
<1> QED  BY <1>3, <1>4, ParseTypeCorrect, PTL DEF ParseSpec

-----------------------------------------------------------------------------
(* The room in the ring                                                    *)

\* Between reads no call runs; while receive runs, and after it has returned
\* without an error, the ring is not left full.
RoomInv ==
  /\ Len(ring) <= Capacity
  /\ stage \in {"out", "read", "filling"} => Idle
  /\ stage = "read" => Len(ring) < Capacity
  /\ stage = "receiving" =>
       /\ call.op = "receive" /\ call.pc # "finish"
       /\ Idle /\ call.error = "none" => Len(ring) < Capacity

\* What feed leaves in the ring is no more than was there, and less when it
\* consumed something (parser.rs 208-229).
LEMMA RingReleased ==
  ASSUME TypeOK, FeedReturns
  PROVE  /\ Len(ring') = Len(ring) - call.consumed
         /\ Len(ring) \in Nat /\ call.consumed \in Nat
<1>1. call.consumed \in Nat /\ call.consumed <= Len(ring) /\ ring \in Seq(Alphabet)
  BY TypeFacts, CallFields DEF CallInRing
<1>2. Len(ring) \in Nat  BY TypeFacts
<1>3. ring' = SubSeq(ring, call.consumed + 1, Len(ring))  BY DEF FeedReturns, Slice, Total
<1> QED  BY <1>1, <1>2, <1>3

\* receive does not return Ok with a full ring (parser.rs 218-227).
LEMMA FeedLeavesRoom ==
  ASSUME TypeOK, RoomInv, FeedReturns, UNCHANGED stage
  PROVE  RoomInv'
<1>1. Len(ring') <= Len(ring) /\ Len(ring) <= Capacity /\ Capacity \in Nat
  BY RingReleased, SizesAssumption DEF RoomInv
<1>2. stage \notin {"out", "read", "filling"}  BY DEF FeedReturns, RoomInv, Idle
<1>3. ASSUME stage = "receiving"
      PROVE  /\ call'.op = "receive" /\ call'.pc # "finish"
             /\ call'.error = "none" => Len(ring') < Capacity
  <2>1. call.op = "receive"  BY <1>3 DEF RoomInv
  <2>2. CASE call.error # "none" /\ call' = Returned(call.op, call.error)
    BY <2>1, <2>2 DEF Returned
  <2>3. CASE TooSmall /\ call' = Returned("receive", "small")  BY <2>3 DEF Returned
  <2>4. CASE ~TooSmall /\ call' = Returned("receive", "none")
    <3>1. call.consumed # 0 \/ Len(ring) # Capacity  BY <2>1, <2>4 DEF TooSmall
    <3>2. Len(ring') < Capacity  BY <1>1, <3>1, RingReleased
    <3> QED  BY <2>4, <3>2 DEF Returned
  <2> QED  BY <2>1, <2>2, <2>3, <2>4 DEF FeedReturns
<1> QED  BY <1>1, <1>2, <1>3 DEF RoomInv

\* Every step of parse keeps the room.
LEMMA RoomKept ==
  ASSUME TypeOK, RoomInv, [ParseNext]_loopVars
  PROVE  RoomInv'
<1>0. Len(ring) \in Nat /\ Capacity \in Nat /\ Capacity > 0 /\ call \in Calls /\ CallInRing(call)
  BY TypeFacts, SizesAssumption
<1>1. CASE Parse
  <2>1. ring' = <<>> /\ stage' = "read" /\ call' = Returned("none", "none")
    BY <1>1 DEF Parse, Reset
  <2> QED  BY <1>0, <2>1 DEF RoomInv, Idle, Returned
<1>2. CASE ReadByte
  <2>1. PICK b \in Alphabet : ring' = Append(ring, b)  BY <1>2 DEF ReadByte, Write
  <2>2. Len(ring') = Len(ring) + 1  BY <2>1, TypeFacts
  <2>3. Len(ring) < Capacity /\ Idle /\ call' = call /\ stage' = "filling"
    BY <1>2 DEF ReadByte, Write
  <2> QED  BY <1>0, <2>2, <2>3 DEF RoomInv, Idle
<1>3. CASE ReadReturns
  <2>1. UNCHANGED ring /\ stage' = "receiving" /\ Feed("receive")
    BY <1>3 DEF ReadReturns, Receive, Feed
  <2>2. call'.op = "receive" /\ call'.pc \in {"loop", "fed"}  BY <2>1 DEF Feed, Returned
  <2> QED  BY <2>1, <2>2 DEF RoomInv, Idle
<1>4. CASE ReceiveReturns
  BY <1>4 DEF ReceiveReturns, RoomInv, Idle, vars
<1>5. CASE ReadEnds
  <2>1. UNCHANGED ring /\ stage' = "closing"
    BY <1>5 DEF ReadEnds, Close, CloseEmpty, Feed
  <2> QED  BY <2>1 DEF RoomInv
<1>6. CASE ReadFails \/ CloseReturned
  BY <1>6 DEF ReadFails, CloseReturned, RoomInv, Idle, vars
<1>7. CASE Configure
  BY <1>7 DEF Configure, SetLimits, SetStringChunkSize, SetRejectDuplicateKeys, RoomInv, Idle
<1>8. CASE CallRuns
  <2>1. CASE TokenizerStep
    <3>1. UNCHANGED ring  BY <2>1 DEF TokenizerStep
    <3>2. call.pc \in InTokenizer /\ SameCall(call')
      BY <1>0, <2>1, TokenizerSteps
    <3>3. UNCHANGED stage  BY <1>8 DEF CallRuns
    <3> QED  BY <3>1, <3>2, <3>3 DEF RoomInv, Idle, SameCall, InTokenizer
  <2>2. CASE FeedReturns  BY <1>8, <2>2, FeedLeavesRoom DEF CallRuns
  <2>3. CASE CloseUnfinished \/ CloseReturns \/ CloseAfterNumber
    <3>1. UNCHANGED <<ring, stage>> /\ call.pc = "finish"
      BY <1>8, <2>3 DEF CallRuns, CloseUnfinished, CloseReturns, CloseAfterNumber
    <3>2. stage \notin {"out", "read", "filling", "receiving"}  BY <3>1 DEF RoomInv, Idle
    <3> QED  BY <3>1, <3>2 DEF RoomInv
  <2> QED  BY <1>8, <2>1, <2>2, <2>3 DEF CallRuns, CallStep
<1>9. CASE UNCHANGED loopVars
  BY <1>9 DEF loopVars, vars, RoomInv, Idle
<1> QED
  BY <1>1, <1>2, <1>3, <1>4, <1>5, <1>6, <1>7, <1>8, <1>9 DEF ParseNext, LoopRuns

\* Whatever the source delivers, there is room for another byte whenever parse
\* comes to read: its own check for a full ring never reports anything
\* (parser.rs 352-360), and a read of no bytes is the end of the source.
THEOREM ParseHasRoom == ParseSpec => []RingHasSpare
<1>1. ParseInit => RoomInv
  <2> SUFFICES ASSUME ParseInit  PROVE RoomInv
    OBVIOUS
  <2>1. ring = <<>> /\ stage = "out" /\ call = Returned("none", "none")
    BY DEF ParseInit, Init
  <2> QED  BY <2>1, SizesAssumption DEF RoomInv, Idle, Returned
<1>2. TypeOK /\ RoomInv /\ [ParseNext]_loopVars => RoomInv'  BY RoomKept
<1>3. RoomInv => RingHasSpare  BY DEF RoomInv, RingHasSpare
<1> QED  BY <1>1, <1>2, <1>3, ParseTypeCorrect, PTL DEF ParseSpec
=============================================================================
