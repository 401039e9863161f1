----------------------------- MODULE TextProofs ------------------------------
(***************************************************************************)
(* The text of strings and keys: the character buffer never holds more     *)
(* than it may, what it holds is whole UTF-8 characters, what is left in   *)
(* it is delivered before a call returns, and the symbol table gets only   *)
(* keys that are their own bytes.                                          *)
(***************************************************************************)
EXTENDS StackProofs

-----------------------------------------------------------------------------
(* Whole characters                                                        *)

\* A character of n bytes at i, whatever follows it.
Char(s, i, n) ==
  \/ Ascii(Byte(s, i)) /\ n = 1
  \/ /\ Byte(s, i) \in Leads /\ n = LeadLength[Byte(s, i)]
     /\ \A k \in 1 .. n - 1 : Byte(s, i + k) \in Continuations
     /\ Byte(s, i) = "F0" => Byte(s, i + 1) \notin OverlongSeconds

\* The classes of bytes do not overlap.
LEMMA LeadFacts ==
  /\ \A b \in Leads : ~Ascii(b) /\ LeadLength[b] \in 2 .. 4
  /\ LeadLength["F0"] = 4 /\ ~Ascii("F0")
  /\ \A b \in Continuations : ~Ascii(b) /\ b \notin Leads
BY DEF Leads, LeadLength, Ascii, Continuations

\* CharLength finds a character of n bytes when there is one and it is all there.
LEMMA CharIs ==
  ASSUME NEW s, NEW i \in Nat, NEW end \in Nat, NEW n \in Nat, n > 0
  PROVE  CharLength(s, i, end) = n /\ i < end <=> Char(s, i, n) /\ i + n <= end
<1> DEFINE b == Byte(s, i)
<1>0. ~(Bad > 0) /\ ~(More > 0) /\ Bad # n /\ More # n  BY DEF Bad, More
<1>1. CASE Ascii(b)
  <2>1. ~OverlongAt(s, i, end)  BY <1>1, LeadFacts DEF OverlongAt
  <2>2. CharLength(s, i, end) = 1  BY <1>1, <2>1 DEF CharLength, SequenceLength
  <2>3. Char(s, i, n) <=> n = 1  BY <1>1, LeadFacts DEF Char
  <2> QED  BY <2>2, <2>3
<1>2. CASE ~Ascii(b) /\ b \notin Leads
  <2>1. CharLength(s, i, end) # n  BY <1>0, <1>2 DEF CharLength, SequenceLength
  <2> QED  BY <1>2, <2>1 DEF Char
<1>3. CASE b \in Leads
  <2> DEFINE m == LeadLength[b]
             present == {k \in 1 .. m - 1 : i + k < end}
  <2>1. ~Ascii(b) /\ m \in 2 .. 4  BY <1>3, LeadFacts
  <2>2. SequenceLength(s, i, end) =
          IF \E k \in present : Byte(s, i + k) \notin Continuations THEN Bad
          ELSE IF i + m > end THEN More ELSE m
    BY <1>3, <2>1 DEF SequenceLength
  <2>3. CASE i + m > end
    <3>1. CharLength(s, i, end) # n  BY <1>0, <2>2, <2>3 DEF CharLength
    <3>2. ~(Char(s, i, n) /\ i + n <= end)  BY <1>3, <2>1, <2>3 DEF Char
    <3> QED  BY <3>1, <3>2
  <2>4. CASE i + m <= end
    <3>1. present = 1 .. m - 1 /\ i < end  BY <2>1, <2>4
    <3>2. OverlongAt(s, i, end) <=> b = "F0" /\ Byte(s, i + 1) \in OverlongSeconds
      BY <2>1, <2>4 DEF OverlongAt
    <3> HIDE DEF present, m
    <3>3. SequenceLength(s, i, end) =
            IF \A k \in 1 .. m - 1 : Byte(s, i + k) \in Continuations THEN m ELSE Bad
      BY <2>1, <2>2, <2>4, <3>1
    <3>4. CharLength(s, i, end) = n <=>
            /\ n = m /\ \A k \in 1 .. m - 1 : Byte(s, i + k) \in Continuations
            /\ ~(b = "F0" /\ Byte(s, i + 1) \in OverlongSeconds)
      BY <1>0, <2>1, <3>2, <3>3 DEF CharLength
    <3>5. Char(s, i, n) <=>
            /\ n = m /\ \A k \in 1 .. m - 1 : Byte(s, i + k) \in Continuations
            /\ ~(b = "F0" /\ Byte(s, i + 1) \in OverlongSeconds)
      BY <1>3, <2>1 DEF Char, m
    <3> QED  BY <2>4, <3>1, <3>4, <3>5
  <2> QED  BY <2>1, <2>3, <2>4
<1> QED  BY <1>1, <1>2, <1>3

\* A character has one to four bytes.
LEMMA CharSize ==
  ASSUME NEW s, NEW i, NEW n, Char(s, i, n)  PROVE n \in 1 .. 4
BY LeadFacts DEF Char

\* A character is one wherever its bytes are.
LEMMA CharMoved ==
  ASSUME NEW s, NEW u, NEW i \in Nat, NEW j \in Nat, NEW n, Char(s, i, n),
         \A k \in 0 .. n - 1 : Byte(u, j + k) = Byte(s, i + k)
  PROVE  Char(u, j, n)
<1>1. n \in 1 .. 4  BY CharSize
<1>2. Byte(u, j) = Byte(s, i)
  <2>1. 0 \in 0 .. n - 1 /\ j + 0 = j /\ i + 0 = i  BY <1>1
  <2> QED  BY <2>1
<1>3. CASE Ascii(Byte(s, i)) /\ n = 1  BY <1>2, <1>3 DEF Char
<1>4. CASE /\ Byte(s, i) \in Leads /\ n = LeadLength[Byte(s, i)]
           /\ \A k \in 1 .. n - 1 : Byte(s, i + k) \in Continuations
           /\ Byte(s, i) = "F0" => Byte(s, i + 1) \notin OverlongSeconds
  <2>1. \A k \in 1 .. n - 1 : Byte(u, j + k) = Byte(s, i + k)  BY <1>1
  <2>2. Byte(s, i) = "F0" => Byte(u, j + 1) = Byte(s, i + 1)  BY <1>4, <2>1, LeadFacts
  <2> QED  BY <1>2, <1>4, <2>1, <2>2 DEF Char
<1> QED  BY <1>3, <1>4 DEF Char

\* Byte i belongs to a whole character in [from, to).
Legible(s, i, from, to) ==
  \/ Ascii(Byte(s, i))
  \/ \E n \in 1 .. 4 : Char(s, i, n) /\ i + n <= to
  \/ /\ Byte(s, i) \in Continuations
     /\ \E k \in 1 .. 3, n \in 1 .. 4 :
          i - k >= from /\ Byte(s, i - k) \in Leads /\ Char(s, i - k, n) /\ n > k /\ i - k + n <= to

\* Valid text, said of each of its bytes.
LEMMA ValidIsLegible ==
  ASSUME NEW s, NEW from \in Nat, NEW to \in Nat
  PROVE  ValidUtf8(s, from, to) <=> \A i \in from .. to - 1 : Legible(s, i, from, to)
<1>1. ASSUME NEW i \in from .. to - 1
      PROVE  CharLength(s, i, to) > 0 <=> \E n \in 1 .. 4 : Char(s, i, n) /\ i + n <= to
  <2>1. i \in Nat /\ i < to  OBVIOUS
  <2>2. CharLength(s, i, to) \in {Bad, More, 1} \cup {LeadLength[b] : b \in Leads}
    BY DEF CharLength, SequenceLength
  <2>3. CharLength(s, i, to) > 0 => CharLength(s, i, to) \in 1 .. 4
    BY <2>2, LeadFacts DEF Bad, More
  <2>4. \A n \in 1 .. 4 : CharLength(s, i, to) = n <=> Char(s, i, n) /\ i + n <= to
    BY <2>1, CharIs
  <2> QED  BY <2>3, <2>4
<1>2. ASSUME NEW i \in from .. to - 1, NEW k \in 1 .. 3, i - k >= from
      PROVE  CharLength(s, i - k, to) > k
               <=> \E n \in 1 .. 4 : Char(s, i - k, n) /\ n > k /\ i - k + n <= to
  <2>1. i - k \in Nat /\ i - k < to  BY <1>2
  <2>2. CharLength(s, i - k, to) \in {Bad, More, 1} \cup {LeadLength[b] : b \in Leads}
    BY DEF CharLength, SequenceLength
  <2>3. CharLength(s, i - k, to) > k => CharLength(s, i - k, to) \in 1 .. 4
    BY <2>2, LeadFacts DEF Bad, More
  <2>4. \A n \in 1 .. 4 : CharLength(s, i - k, to) = n <=> Char(s, i - k, n) /\ i - k + n <= to
    BY <2>1, CharIs
  <2> QED  BY <2>3, <2>4
<1>3. ASSUME NEW i \in from .. to - 1
      PROVE  (\E k \in 1 .. 3 : i - k >= from /\ Byte(s, i - k) \in Leads /\ CharLength(s, i - k, to) > k)
             <=> \E k \in 1 .. 3, n \in 1 .. 4 :
                   /\ i - k >= from /\ Byte(s, i - k) \in Leads /\ Char(s, i - k, n)
                   /\ n > k /\ i - k + n <= to
  BY <1>2
<1> QED  BY <1>1, <1>3 DEF ValidUtf8, Legible

\* What is legible in one text is so in another that has its bytes.
LEMMA LegibleMoved ==
  ASSUME NEW s, NEW u, NEW from \in Nat, NEW to \in Nat, NEW i \in from .. to - 1,
         NEW d \in Int, NEW lo \in Nat, NEW hi \in Nat, lo <= from + d, to + d <= hi,
         \A j \in from .. to - 1 : Byte(u, j + d) = Byte(s, j),
         Legible(s, i, from, to)
  PROVE  Legible(u, i + d, lo, hi)
<1>1. i \in Nat /\ i + d \in Nat /\ Byte(u, i + d) = Byte(s, i)  OBVIOUS
<1>2. ASSUME NEW j \in from .. to - 1, NEW n \in 1 .. 4, Char(s, j, n), j + n <= to
      PROVE  Char(u, j + d, n) /\ j + d + n <= hi
  <2>1. j \in Nat /\ j + d \in Nat  OBVIOUS
  <2>2. ASSUME NEW k \in 0 .. n - 1  PROVE Byte(u, (j + d) + k) = Byte(s, j + k)
    <3>1. j + k \in from .. to - 1 /\ (j + d) + k = (j + k) + d  BY <1>2
    <3> QED  BY <3>1
  <2> QED  BY <1>2, <2>1, <2>2, CharMoved
<1>3. CASE Ascii(Byte(s, i))  BY <1>1, <1>3 DEF Legible
<1>4. CASE \E n \in 1 .. 4 : Char(s, i, n) /\ i + n <= to  BY <1>2, <1>4 DEF Legible
<1>5. CASE /\ Byte(s, i) \in Continuations
           /\ \E k \in 1 .. 3, n \in 1 .. 4 :
                /\ i - k >= from /\ Byte(s, i - k) \in Leads /\ Char(s, i - k, n)
                /\ n > k /\ i - k + n <= to
  <2>1. PICK k \in 1 .. 3, n \in 1 .. 4 :
          /\ i - k >= from /\ Byte(s, i - k) \in Leads /\ Char(s, i - k, n)
          /\ n > k /\ i - k + n <= to
    BY <1>5
  <2>2. i - k \in from .. to - 1 /\ (i - k) + d = (i + d) - k  BY <2>1
  <2>3. Char(u, (i + d) - k, n) /\ (i + d) - k + n <= hi  BY <1>2, <2>1, <2>2
  <2>4. (i + d) - k >= lo /\ Byte(u, (i + d) - k) \in Leads  BY <2>1, <2>2
  <2> QED  BY <1>1, <1>5, <2>1, <2>3, <2>4 DEF Legible
<1> QED  BY <1>3, <1>4, <1>5 DEF Legible

\* A text of whole characters.
Valid(text) == ValidUtf8(text, 0, Len(text))

\* The bytes of a slice.
LEMMA SliceFacts ==
  ASSUME NEW S, NEW s \in Seq(S), NEW from \in Nat, NEW to \in Nat, from <= to, to <= Len(s)
  PROVE  /\ Slice(s, from, to) \in Seq(S) /\ Len(Slice(s, from, to)) = to - from
         /\ \A i \in 0 .. to - from - 1 : Byte(Slice(s, from, to), i) = Byte(s, from + i)
<1>1. Slice(s, from, to) \in Seq(S) /\ Len(Slice(s, from, to)) = to - from  BY DEF Slice
<1>2. ASSUME NEW i \in 0 .. to - from - 1
      PROVE  Byte(Slice(s, from, to), i) = Byte(s, from + i)
  <2>1. i + 1 \in 1 .. to - from /\ (from + 1) + (i + 1) - 1 = (from + i) + 1  OBVIOUS
  <2> QED  BY <2>1 DEF Slice, Byte
<1> QED  BY <1>1, <1>2

\* A slice that was valid where it stood is valid by itself.
LEMMA SliceValid ==
  ASSUME NEW S, NEW s \in Seq(S), NEW from \in Nat, NEW to \in Nat, from <= to, to <= Len(s),
         ValidUtf8(s, from, to)
  PROVE  Valid(Slice(s, from, to))
<1> DEFINE u == Slice(s, from, to)
<1>1. Len(u) = to - from /\ \A i \in 0 .. to - from - 1 : Byte(u, i) = Byte(s, from + i)
  BY SliceFacts
<1> HIDE DEF u
<1>2. \A j \in from .. to - 1 : Byte(u, j + (-from)) = Byte(s, j)
  <2> TAKE j \in from .. to - 1
  <2>1. j - from \in 0 .. to - from - 1 /\ from + (j - from) = j /\ j + (-from) = j - from  OBVIOUS
  <2> QED  BY <1>1, <2>1
<1>3. ASSUME NEW i \in 0 .. to - from - 1  PROVE Legible(u, i, 0, to - from)
  <2>1. from + i \in from .. to - 1 /\ (from + i) + (-from) = i /\ -from \in Int
        /\ to - from \in Nat /\ 0 <= from + (-from) /\ to + (-from) <= to - from
    OBVIOUS
  <2>2. Legible(s, from + i, from, to)  BY <2>1, ValidIsLegible
  <2>3. Legible(u, (from + i) + (-from), 0, to - from)  BY <1>2, <2>1, <2>2, LegibleMoved
  <2> QED  BY <2>1, <2>3
<1>4. Valid(u)
  <2>1. Len(u) \in Nat  BY <1>1
  <2> QED  BY <1>1, <1>3, <2>1, ValidIsLegible DEF Valid
<1> QED  BY <1>4 DEF u

\* Two valid texts make one.
LEMMA JoinedValid ==
  ASSUME NEW s \in Bytes, NEW t \in Bytes, Valid(s), Valid(t)
  PROVE  Valid(s \o t)
<1> DEFINE u == s \o t
           m == Len(s)
           n == Len(t)
<1>1. /\ m \in Nat /\ n \in Nat /\ Len(u) = m + n
      /\ \A i \in 0 .. m - 1 : Byte(u, i + 0) = Byte(s, i)
      /\ \A i \in 0 .. n - 1 : Byte(u, i + m) = Byte(t, i)
  <2>1. m \in Nat /\ n \in Nat /\ Len(u) = m + n
        /\ \A k \in 1 .. m + n : u[k] = IF k <= m THEN s[k] ELSE t[k - m]
    BY ConcatProperties DEF Bytes
  <2> HIDE DEF u, m, n
  <2>2. ASSUME NEW i \in 0 .. m - 1  PROVE Byte(u, i + 0) = Byte(s, i)
    BY <2>1 DEF Byte
  <2>3. ASSUME NEW i \in 0 .. n - 1  PROVE Byte(u, i + m) = Byte(t, i)
    <3>1. (i + m) + 1 \in 1 .. m + n /\ ~((i + m) + 1 <= m) /\ ((i + m) + 1) - m = i + 1  BY <2>1
    <3> QED  BY <2>1, <3>1 DEF Byte
  <2> QED  BY <2>1, <2>2, <2>3
<1> HIDE DEF u, m, n
<1>2. ASSUME NEW i \in 0 .. m - 1  PROVE Legible(u, i, 0, m + n)
  <2>1. Legible(s, i, 0, m)  BY <1>1, ValidIsLegible DEF Valid, m
  <2>2. 0 \in Int /\ 0 \in Nat /\ m + n \in Nat /\ 0 <= 0 + 0 /\ m + 0 <= m + n /\ i + 0 = i
    BY <1>1
  <2>3. Legible(u, i + 0, 0, m + n)  BY <1>1, <2>1, <2>2, LegibleMoved
  <2> QED  BY <2>2, <2>3
<1>3. ASSUME NEW i \in m .. m + n - 1  PROVE Legible(u, i, 0, m + n)
  <2>1. i - m \in 0 .. n - 1 /\ (i - m) + m = i  BY <1>1
  <2>2. Legible(t, i - m, 0, n)  BY <1>1, <2>1, ValidIsLegible DEF Valid, n
  <2>3. m \in Int /\ 0 \in Nat /\ m + n \in Nat /\ 0 <= 0 + m /\ n + m <= m + n
    BY <1>1
  <2>4. Legible(u, (i - m) + m, 0, m + n)  BY <1>1, <2>1, <2>2, <2>3, LegibleMoved
  <2> QED  BY <2>1, <2>4
<1>4. \A i \in 0 .. (m + n) - 1 : Legible(u, i, 0, m + n)
  <2> TAKE i \in 0 .. (m + n) - 1
  <2>1. i \in 0 .. m - 1 \/ i \in m .. m + n - 1  BY <1>1
  <2> QED  BY <1>2, <1>3, <2>1
<1>5. m + n \in Nat /\ Len(u) = m + n  BY <1>1
<1>6. Valid(u)  BY <1>4, <1>5, ValidIsLegible DEF Valid
<1> QED  BY <1>6 DEF u

\* One character is a valid text.
LEMMA CharValid ==
  ASSUME NEW s \in Bytes, Char(s, 0, Len(s))  PROVE Valid(s)
<1> DEFINE n == Len(s)
<1>1. n \in 1 .. 4 /\ Char(s, 0, n)  BY CharSize
<1> HIDE DEF n
<1>2. ASSUME NEW i \in 0 .. n - 1  PROVE Legible(s, i, 0, n)
  <2>1. CASE i = 0
    <3>1. 0 + n <= n  BY <1>1
    <3> QED  BY <1>1, <2>1, <3>1 DEF Legible
  <2>2. CASE i > 0
    <3>1. \A k \in 1 .. n - 1 : Byte(s, 0 + k) \in Continuations  BY <1>1 DEF Char
    <3>2. n # 1  BY <1>1, <2>2
    <3>3. Byte(s, 0) \in Leads  BY <1>1, <3>2 DEF Char
    <3>4. i \in 1 .. n - 1 /\ i \in 1 .. 3 /\ i - i = 0 /\ 0 + i = i /\ 0 + n <= n /\ n > i
      BY <1>1, <2>2
    <3>5. Byte(s, i) \in Continuations  BY <3>1, <3>4
    <3> QED  BY <1>1, <3>3, <3>4, <3>5 DEF Legible
  <2> QED  BY <2>1, <2>2
<1>3. n \in Nat /\ 0 \in Nat  BY <1>1
<1> QED  BY <1>2, <1>3, ValidIsLegible DEF Valid, n

\* So is no text at all.
LEMMA NothingValid == Valid(<<>>)
BY DEF Valid, ValidUtf8

-----------------------------------------------------------------------------
(* What the steps do to the character buffer                               *)

\* The tokenizers t and u hold the same text in the same buffer, and u is not
\* inside a string if t is not.
SameText(t, u) ==
  /\ u.chars = t.chars /\ u.chars_cap = t.chars_cap /\ u.chunk_size = t.chunk_size
  /\ u.in_string => t.in_string

\* SameText is transitive.
LEMMA SameTextTransitive ==
  ASSUME NEW t, NEW u, NEW v, SameText(t, u), SameText(u, v)  PROVE SameText(t, v)
BY DEF SameText

\* The updates that leave the text in progress alone.
LEMMA TextKept ==
  ASSUME NEW t \in Tokenizers
  PROVE  /\ SameText(t, t) /\ SameText(t, Counted(t)) /\ SameText(t, Disabled(t))
         /\ SameText(t, ObjectEntered(t)) /\ SameText(t, ArrayEntered(t))
         /\ SameText(t, ObjectLeft(t)) /\ SameText(t, ArrayLeft(t))
         /\ \A x : /\ SameText(t, Seen(t, x)) /\ SameText(t, [t EXCEPT !.in_string = FALSE, !.state = x])
                   /\ SameText(t, [t EXCEPT !.after_cr = x])
                   /\ SameText(t, [t EXCEPT !.string_bytes = x])
         /\ \A x, y : /\ SameText(t, [t EXCEPT !.state = x, !.after_comma = y])
                      /\ SameText(t, [t EXCEPT !.after_comma = x, !.state = y])
                      /\ SameText(t, [t EXCEPT !.stage = x, !.state = y])
         /\ \A x, y, z : /\ SameText(t, [t EXCEPT !.stage = x, !.number = y, !.length = z])
                         /\ SameText(t, [t EXCEPT !.stage = x, !.length = y, !.number = z])
<1>1. /\ SameText(t, t) /\ SameText(t, Counted(t)) /\ SameText(t, Disabled(t))
      /\ \A x : SameText(t, Seen(t, x))
  BY Zenon DEF SameText, Counted, Disabled, Seen, Tokenizers
<1>2. /\ SameText(t, ObjectEntered(t)) /\ SameText(t, ArrayEntered(t))
      /\ SameText(t, ObjectLeft(t)) /\ SameText(t, ArrayLeft(t))
  BY Zenon DEF SameText, ObjectEntered, ArrayEntered, ObjectLeft, ArrayLeft, Tokenizers
<1>3. ASSUME NEW x, NEW y, NEW z
      PROVE  /\ SameText(t, [t EXCEPT !.after_cr = x]) /\ SameText(t, [t EXCEPT !.string_bytes = x])
             /\ SameText(t, [t EXCEPT !.state = x, !.after_comma = y])
             /\ SameText(t, [t EXCEPT !.after_comma = x, !.state = y])
             /\ SameText(t, [t EXCEPT !.stage = x, !.state = y])
             /\ SameText(t, [t EXCEPT !.in_string = FALSE, !.state = x])
             /\ SameText(t, [t EXCEPT !.stage = x, !.number = y, !.length = z])
             /\ SameText(t, [t EXCEPT !.stage = x, !.length = y, !.number = z])
  BY Zenon DEF SameText, Tokenizers
<1> QED  BY <1>1, <1>2, <1>3

\* So does token_done.
LEMMA DoneText ==
  ASSUME NEW t \in Tokenizers, NEW n, NEW state, NEW afterComma, TokenDone(t, n, state, afterComma)
  PROVE  SameText(t, tok')
<1>1. Counted(t) \in Tokenizers /\ SameText(t, Counted(t))  BY CountedType, TextKept
<1>2. SameText(Counted(t), [Counted(t) EXCEPT !.state = state, !.after_comma = afterComma])
  BY <1>1, TextKept
<1> QED  BY <1>1, <1>2, SameTextTransitive DEF TokenDone

\* The buffer made ready for a text that begins or goes on: it has the size
\* that is set now, and is empty if it had another.
Prepared ==
  /\ tok'.chunk_size = tok.chunk_size /\ tok'.chars_cap = tok.chunk_size
  /\ tok'.chars = <<>> \/ (tok'.chars = tok.chars /\ tok.chars_cap = tok.chunk_size)

\* Making the buffer, and emptying it, for a string or key that begins.
LEMMA PreparedText ==
  ASSUME NEW t \in Tokenizers, SameText(tok, t)
  PROVE  LET made == EnsureChars(t)
             empty == [made EXCEPT !.chars = <<>>]
         IN  /\ made \in Tokenizers /\ empty \in Tokenizers
             /\ tok' = made => Prepared
             /\ (tok'.chars = empty.chars /\ tok'.chars_cap = empty.chars_cap /\ tok'.chunk_size = empty.chunk_size
                   => Prepared /\ tok'.chars = <<>>)
<1> DEFINE made == EnsureChars(t)
           empty == [made EXCEPT !.chars = <<>>]
<1>1. <<>> \in Bytes  BY DEF Bytes
<1>2. made \in Tokenizers  BY <1>1, BufferType
<1>3. empty \in Tokenizers  BY <1>1, <1>2, BufferType
<1>4. /\ made.chunk_size = t.chunk_size /\ made.chars_cap = t.chunk_size
      /\ made.chars = <<>> \/ (made.chars = t.chars /\ t.chars_cap = t.chunk_size)
  <2>1. [t EXCEPT !.chars = <<>>, !.chars_cap = t.chunk_size].chunk_size = t.chunk_size
        /\ [t EXCEPT !.chars = <<>>, !.chars_cap = t.chunk_size].chars_cap = t.chunk_size
        /\ [t EXCEPT !.chars = <<>>, !.chars_cap = t.chunk_size].chars = <<>>
    BY Zenon DEF Tokenizers
  <2> QED  BY <2>1 DEF EnsureChars
<1> HIDE DEF made
<1>5. empty.chunk_size = made.chunk_size /\ empty.chars_cap = made.chars_cap /\ empty.chars = <<>>
  BY <1>2, Zenon DEF Tokenizers
<1> HIDE DEF empty
<1>6. /\ made \in Tokenizers /\ empty \in Tokenizers
      /\ tok' = made => Prepared
      /\ (tok'.chars = empty.chars /\ tok'.chars_cap = empty.chars_cap /\ tok'.chunk_size = empty.chunk_size
            => Prepared /\ tok'.chars = <<>>)
  BY <1>2, <1>3, <1>4, <1>5 DEF SameText, Prepared
<1> QED  BY <1>6 DEF made, empty

\* A token leaves the buffer alone; only the quote that begins a string value
\* makes it ready, and empty.
LEMMA TokenText ==
  ASSUME TypeOK, TokenStep
  PROVE  \/ SameText(tok, tok') /\ ~StringStart
         \/ StringStart /\ Prepared /\ tok'.chars = <<>>
<1>1. /\ tok \in Tokenizers /\ call \in Calls /\ Here \in Tokenizers /\ SameText(tok, Here)
  BY TypeFacts, HereType, TextKept DEF Here
<1>2. ASSUME NEW b, NEW ev, NEW t \in Tokenizers, SameText(Here, t), NEW state, Bracket(b, ev, t, state)
      PROVE  SameText(tok, tok')
  <2>1. HandlerFails(ev, Here, 1) \/ TokenDone(t, 1, state, FALSE)  BY <1>2 DEF Bracket
  <2>2. CASE HandlerFails(ev, Here, 1)  BY <1>1, <2>2 DEF HandlerFails
  <2>3. CASE TokenDone(t, 1, state, FALSE)
    BY <1>1, <1>2, <2>3, DoneText, SameTextTransitive
  <2> QED  BY <2>1, <2>2, <2>3
<1>3. ASSUME StartObject \/ StartArray \/ EndObject \/ EndArray  PROVE SameText(tok, tok')
  <2>1. /\ ObjectEntered(Here) \in Tokenizers /\ ArrayEntered(Here) \in Tokenizers
        /\ ObjectLeft(Here) \in Tokenizers /\ ArrayLeft(Here) \in Tokenizers
    BY <1>1, NestType
  <2>2. /\ SameText(Here, ObjectEntered(Here)) /\ SameText(Here, ArrayEntered(Here))
        /\ SameText(Here, ObjectLeft(Here)) /\ SameText(Here, ArrayLeft(Here))
    BY <1>1, TextKept
  <2> QED  BY <1>2, <1>3, <2>1, <2>2 DEF StartObject, StartArray, EndObject, EndArray
<1>4. ASSUME Comma \/ Colon  PROVE SameText(tok, tok')
  BY <1>1, <1>4, DoneText, SameTextTransitive DEF Comma, Colon
<1>5. ASSUME NEW b \in DOMAIN Literals, Literal(b)  PROVE SameText(tok, tok')
  <2>1. SameText(tok, Counted(Here)) /\ Counted(Here) \in Tokenizers
    BY <1>1, CountedType, TextKept, SameTextTransitive
  <2>2. SameText(tok, [Counted(Here) EXCEPT !.after_comma = FALSE, !.state = "AfterValue"])
    BY <2>1, TextKept, SameTextTransitive
  <2>3. tok' \in {Counted(Here), [Counted(Here) EXCEPT !.after_comma = FALSE, !.state = "AfterValue"]}
    BY <1>5 DEF Literal, HandlerFails
  <2> QED  BY <2>1, <2>2, <2>3
<1>6. ASSUME NumberStep  PROVE SameText(tok, tok')
  <2>1. ASSUME NEW b \in Digits \cup {"-"}, NumberStart(b)  PROVE SameText(tok, tok')
    <3> DEFINE t == [Here EXCEPT !.stage = FirstStage(b), !.number = <<b>>, !.length = 1]
    <3>1. SameText(Here, t)  BY <1>1, TextKept
    <3>2. FirstStage(b) \in NumStages /\ <<b>> \in Bytes /\ 1 \in Nat
      <4>1. b \in Symbols  BY DEF Digits, Symbols
      <4> QED  BY <4>1 DEF FirstStage, NumStages, Bytes
    <3>3. t \in Tokenizers  BY <1>1, <3>2, Zenon DEF Tokenizers
    <3>4. TokenDone(t, 1, tok.state, FALSE)  BY <2>1 DEF NumberStart
    <3> HIDE DEF t
    <3> QED  BY <1>1, <3>1, <3>3, <3>4, DoneText, SameTextTransitive
  <2>2. ASSUME NEW n, NEW stage, TakeNumber(n, stage)  PROVE SameText(tok, tok')
    <3>1. PICK length, number :
            tok' = [tok EXCEPT !.stage = stage, !.length = length, !.number = number]
      BY <2>2 DEF TakeNumber
    <3> QED  BY <1>1, <3>1, TextKept
  <2>3. ASSUME NumberEnd  PROVE SameText(tok, tok')
    <3>1. tok' = [tok EXCEPT !.stage = "None", !.state = "AfterValue"]
      BY <2>3, Zenon DEF NumberEnd, EmitNumber, HandlerFails
    <3> QED  BY <1>1, <3>1, TextKept
  <2>4. ASSUME NumberRun \/ NumberByte  PROVE SameText(tok, tok')
    BY <2>2, <2>4 DEF NumberRun, NumberByte
  <2>5. NumberWrong => SameText(tok, tok')  BY <1>1, TextKept DEF NumberWrong
  <2> QED  BY <1>6, <2>1, <2>3, <2>4, <2>5 DEF NumberStep
<1>7. ASSUME StringEnd  PROVE SameText(tok, tok')
  <2>1. tok' = [tok EXCEPT !.in_string = FALSE, !.state = "AfterValue"]
    BY <1>7, Zenon DEF StringEnd, HandlerFails
  <2> QED  BY <1>1, <2>1, TextKept
<1>8. ASSUME KeyDone  PROVE SameText(tok, tok')
  <2>1. call.pc = "key"  BY <1>8 DEF KeyDone
  <2>2. Seen(tok, KeyText) \in Tokenizers /\ SameText(tok, Seen(tok, KeyText))
    BY <1>1, <2>1, KeyTextType, SeenType, TextKept
  <2>3. SameText(tok, Disabled(Seen(tok, KeyText))) /\ SameText(tok, Disabled(tok))
    BY <1>1, <2>2, TextKept, SameTextTransitive
  <2>4. \/ tok' = Disabled(tok)
        \/ \E n : HandlerFails("key", Disabled(Seen(tok, KeyText)), n)
        \/ \E n : TokenDone(Disabled(Seen(tok, KeyText)), n, "ExpectColon", FALSE)
    BY <1>8 DEF KeyDone
  <2>5. Disabled(Seen(tok, KeyText)) \in Tokenizers
    BY <1>1, <2>1, <2>2, KeyTextType, SeenType
  <2> DEFINE t == Disabled(Seen(tok, KeyText))
  <2>6. \A n : TokenDone(t, n, "ExpectColon", FALSE) => SameText(t, tok')
    BY <2>5, DoneText
  <2> HIDE DEF t
  <2>7. \/ tok' = Disabled(tok) \/ tok' = t \/ SameText(t, tok')
    BY <2>4, <2>6 DEF HandlerFails, t
  <2>8. SameText(tok, t) /\ SameText(tok, Disabled(tok))  BY <2>3 DEF t
  <2> QED  BY <2>7, <2>8, SameTextTransitive
<1>9. CASE StringStart
  <2> DEFINE made == EnsureChars(Here)
             empty == [made EXCEPT !.chars = <<>>]
             t == [empty EXCEPT !.in_string = TRUE, !.string_bytes = 0]
  <2> DEFINE Same == /\ tok'.chars = empty.chars /\ tok'.chars_cap = empty.chars_cap
                     /\ tok'.chunk_size = empty.chunk_size
  <2>1. empty \in Tokenizers /\ (Same => Prepared /\ tok'.chars = <<>>)
    BY <1>1, PreparedText
  <2>2. HandlerFails("start_string_value", empty, 1) \/ TokenDone(t, 1, tok.state, FALSE)
    BY <1>9 DEF StringStart
  <2>7. empty \in Tokenizers /\ (Same => Prepared /\ tok'.chars = <<>>)  BY <2>1
  <2> HIDE DEF empty
  <2>3. t \in Tokenizers  BY <2>7, Zenon DEF Tokenizers
  <2>4. t.chars = empty.chars /\ t.chars_cap = empty.chars_cap /\ t.chunk_size = empty.chunk_size
    BY <2>7, Zenon DEF Tokenizers
  <2> HIDE DEF t
  <2>5. \/ tok' = empty
        \/ tok'.chars = t.chars /\ tok'.chars_cap = t.chars_cap /\ tok'.chunk_size = t.chunk_size
    <3>1. TokenDone(t, 1, tok.state, FALSE) => SameText(t, tok')  BY <2>3, DoneText
    <3> QED  BY <2>2, <3>1 DEF HandlerFails, SameText
  <2> QED  BY <1>9, <2>4, <2>5, <2>7
<1>10. CASE ~StringStart  BY <1>3, <1>4, <1>5, <1>6, <1>7, <1>8, <1>10 DEF TokenStep
<1> QED  BY <1>9, <1>10

\* Inside a string the only token is its end.
LEMMA StringsStop ==
  ASSUME TypeOK, Reading, TokenStep, tok.in_string  PROVE ~tok'.in_string
<1>1. ~BetweenTokens /\ ~InNumber /\ (call.pc = "key" => FALSE)
  BY TypeFacts DEF BetweenTokens, InNumber, Reading, ReadingKey, CallInRing
<1>2. StringEnd
  BY <1>1 DEF TokenStep, Comma, Colon, StartObject, StartArray, EndObject, EndArray, Bracket,
     Literal, NumberStep, NumberStart, NumberRun, NumberByte, NumberEnd, NumberWrong, StringStart,
     KeyDone, Looking
<1>3. tok' = [tok EXCEPT !.in_string = FALSE, !.state = "AfterValue"]
  BY <1>2, Zenon DEF StringEnd, HandlerFails
<1> QED  BY <1>3, TypeFacts, Zenon DEF Tokenizers

\* The call c decodes text.
Decoding(c) == c.pc \in {"string", "run", "char", "pause", "key"}

\* A call that failed or stopped decodes no more.
LEMMA CallEnds ==
  ASSUME call \in Calls
  PROVE  \A n, error : /\ ~Decoding(Failed(n, error)) /\ Failed(n, error).error = error
                       /\ ~Decoding(Stopped)
<1>1. \A n, error : /\ Failed(n, error).pc = "fed" /\ Failed(n, error).error = error
                    /\ Stopped.pc = "fed"
  BY Zenon DEF Failed, Stopped, Calls
<1> QED  BY <1>1 DEF Decoding

\* Text that is put into the buffer fits it, and is whole characters.
Grows ==
  /\ Decoding(call) /\ (Decoding(call') \/ call'.error # "none")
  /\ tok'.chars_cap = tok.chars_cap /\ tok'.chunk_size = tok.chunk_size
  /\ tok'.in_string => tok.in_string
  /\ \E text \in Bytes : tok'.chars = tok.chars \o text /\ Len(text) <= Free /\ Valid(text)

\* Whole characters that fit into what is free may be pushed.
LEMMA PushedGrows ==
  ASSUME tok \in Tokenizers, Decoding(call), Decoding(call') \/ call'.error # "none",
         NEW text \in Bytes, Len(text) <= Free, Valid(text), NEW x,
         tok' \in {Pushed(tok, text), [Pushed(tok, text) EXCEPT !.string_bytes = x]}
  PROVE  Grows
<1>1. Pushed(tok, text) \in Tokenizers  BY BufferType
<1>2. /\ Pushed(tok, text).chars = tok.chars \o text /\ Pushed(tok, text).chars_cap = tok.chars_cap
      /\ Pushed(tok, text).chunk_size = tok.chunk_size /\ Pushed(tok, text).in_string = tok.in_string
  BY Zenon DEF Pushed, Tokenizers
<1> DEFINE t == [Pushed(tok, text) EXCEPT !.string_bytes = x]
<1>3. /\ t.chars = Pushed(tok, text).chars /\ t.chars_cap = Pushed(tok, text).chars_cap
      /\ t.chunk_size = Pushed(tok, text).chunk_size /\ t.in_string = Pushed(tok, text).in_string
  BY <1>1, Zenon DEF Tokenizers
<1> HIDE DEF t
<1>4. /\ tok'.chars = tok.chars \o text /\ tok'.chars_cap = tok.chars_cap
      /\ tok'.chunk_size = tok.chunk_size /\ tok'.in_string = tok.in_string
  BY <1>2, <1>3 DEF t
<1> QED  BY <1>4 DEF Grows

\* decode_run pushes as much of a slice as fits, whole characters only.
LEMMA SliceGrows ==
  ASSUME TypeOK, DecodeSlice  PROVE Grows
<1>1. /\ tok \in Tokenizers /\ call \in Calls /\ CallInRing(call)
      /\ call.p \in Nat /\ call.to \in Nat /\ call.to <= Len(ring) /\ call.p < call.to
      /\ ring \in Seq(Alphabet) /\ Len(ring) \in Nat
  BY TypeFacts, CallFields DEF CallInRing, DecodeSlice
<1>2. Free \in Int  BY <1>1, TokenizerFields, LenProperties DEF Free, Bytes
<1>3. SpanEnd(call.p) \in Nat  BY <1>1, SpanEndType
<1> DEFINE stop == AtMost(AtMost(call.to, SpanEnd(call.p)), call.p + Free)
<1>4. stop \in Int /\ stop <= call.to /\ stop <= call.p + Free  BY <1>1, <1>2, <1>3 DEF AtMost
<1>5. PICK q \in call.p .. stop :
        ValidUpTo(ring, call.p, q, stop) /\ tok' = Pushed(tok, Slice(ring, call.p, q))
  BY Zenon DEF DecodeSlice
<1> HIDE DEF stop
<1>6. q \in Nat /\ call.p <= q /\ q <= Len(ring) /\ q - call.p <= Free  BY <1>1, <1>2, <1>4, <1>5
<1>7. ValidUtf8(ring, call.p, q)
  <2>1. -q \in {-r : r \in {r \in call.p .. stop : ValidUtf8(ring, call.p, r)}}
    BY <1>5 DEF ValidUpTo, IsMin
  <2>2. PICK r \in call.p .. stop : ValidUtf8(ring, call.p, r) /\ -q = -r  BY <2>1
  <2>3. r = q  BY <1>1, <1>4, <1>6, <2>2
  <2> QED  BY <2>2, <2>3
<1>8. Valid(Slice(ring, call.p, q))  BY <1>1, <1>6, <1>7, SliceValid
<1>9. Slice(ring, call.p, q) \in Bytes /\ Len(Slice(ring, call.p, q)) = q - call.p
  BY <1>1, <1>6, RingText, SliceFacts
<1>10. Decoding(call)  BY DEF DecodeSlice, Decoding
<1>11. Decoding(call') \/ call'.error # "none"
  <2>1. PICK p, units, pc :
          \/ call' = Failed(0, "syntax")
          \/ pc \in {"run", "char"} /\ call' = [call EXCEPT !.p = p, !.units = units, !.pc = pc]
    BY DEF DecodeSlice
  <2>2. CASE call' = Failed(0, "syntax")  BY <1>1, <2>2, CallEnds
  <2>3. CASE pc \in {"run", "char"} /\ call' = [call EXCEPT !.p = p, !.units = units, !.pc = pc]
    <3>1. call'.pc = pc  BY <1>1, <2>3, Zenon DEF Calls
    <3> QED  BY <2>3, <3>1 DEF Decoding
  <2> QED  BY <2>1, <2>2, <2>3
<1>12. Len(Slice(ring, call.p, q)) <= Free  BY <1>6, <1>9
<1>13. tok' \in {Pushed(tok, Slice(ring, call.p, q)),
                 [Pushed(tok, Slice(ring, call.p, q)) EXCEPT !.string_bytes = 0]}
  BY <1>5
<1> QED  BY <1>1, <1>8, <1>9, <1>10, <1>11, <1>12, <1>13, PushedGrows

\* It pushes a character that is cut by the end of the slice whole.
LEMMA CharGrows ==
  ASSUME TypeOK, PushChar  PROVE Grows
<1> DEFINE n == CharLength(ring, call.p, Len(ring))
<1>1. /\ tok \in Tokenizers /\ call.p \in Nat /\ call.p < Len(ring)
      /\ ring \in Seq(Alphabet) /\ Len(ring) \in Nat
  BY TypeFacts, CallFields DEF CallInRing, PushChar
<1>2. n > 0 /\ n = CutChar /\ n <= Free
  BY DEF PushChar, CutChar, CharLengthWhole, More
<1>3. n \in Nat /\ call.p + n <= Len(ring) /\ tok' = Pushed(tok, Slice(ring, call.p, call.p + n))
  BY <1>1, <1>2, CharInInput DEF PushChar
<1>4. Char(ring, call.p, n)  BY <1>1, <1>2, <1>3, CharIs
<1> HIDE DEF n
<1> DEFINE text == Slice(ring, call.p, call.p + n)
<1>5. /\ text \in Bytes /\ Len(text) = n
      /\ \A k \in 0 .. n - 1 : Byte(text, k) = Byte(ring, call.p + k)
  <2> DEFINE q == call.p + n
  <2>1. q \in Nat /\ call.p <= q /\ q <= Len(ring) /\ q - call.p = n  BY <1>1, <1>3
  <2> HIDE DEF q
  <2>2. /\ Slice(ring, call.p, q) \in Bytes /\ Len(Slice(ring, call.p, q)) = n
        /\ \A k \in 0 .. n - 1 : Byte(Slice(ring, call.p, q), k) = Byte(ring, call.p + k)
    BY <1>1, <2>1, RingText, SliceFacts
  <2> QED  BY <2>2 DEF q
<1> HIDE DEF text
<1>6. Char(text, 0, n)
  <2>1. \A k \in 0 .. n - 1 : Byte(text, 0 + k) = Byte(ring, call.p + k)  BY <1>5
  <2> QED  BY <1>1, <1>4, <2>1, CharMoved
<1>7. Valid(text)  BY <1>5, <1>6, CharValid
<1>8. Decoding(call)  BY DEF PushChar, Decoding
<1>9. Decoding(call')
  <2>1. PICK p, units : call' = [call EXCEPT !.p = p, !.units = units, !.pc = "run"]
    BY DEF PushChar
  <2>2. call'.pc = "run"  BY <2>1, TypeFacts, Zenon DEF Calls
  <2> QED  BY <2>2 DEF Decoding
<1>10. Len(text) <= Free /\ tok' \in {Pushed(tok, text), [Pushed(tok, text) EXCEPT !.string_bytes = 0]}
  BY <1>2, <1>3, <1>5 DEF text
<1> QED  BY <1>1, <1>5, <1>7, <1>8, <1>9, <1>10, PushedGrows

\* An escape stands for one character.
LEMMA EscapeValid ==
  ASSUME TypeOK, NEW i \in Nat, i < Len(ring), EscapeLength(ring, i) > 0
  PROVE  Valid(EscapeText(ring, i, EscapeLength(ring, i)))
<1> DEFINE n == EscapeLength(ring, i)
<1>1. n = 2 => Byte(ring, i + 1) \in SimpleEscapes
  <2>1. ~HighSurrogateAt(ring, i) \/ n # 2
    <3>1. LowSurrogateFollows(ring, i + 3) \in {"NeedMore", "Not", "Low"}
      BY DEF LowSurrogateFollows
    <3> QED  BY <3>1 DEF EscapeLength, More
  <2>2. UnitLength(ring, i) = 2 => Byte(ring, i + 1) \in SimpleEscapes
    BY DEF UnitLength, More, Bad
  <2> QED  BY <2>1, <2>2 DEF EscapeLength
<1>2. ASSUME NEW b, Ascii(b)  PROVE Valid(<<b>>)
  BY <1>2 DEF Valid, ValidUtf8, Byte
<1>3. Ascii("00") /\ \A b \in SimpleEscapes : Ascii(Unescaped(b))
  BY DEF Ascii, Leads, Continuations, NeverUtf8, SimpleEscapes, Unescaped, Quote, Backslash
<1>4. ASSUME NEW text \in {<<"F0", "9F", "98", "80">>, <<"E2", "82", "AC">>, <<"EF", "BF", "BD">>}
      PROVE  Valid(text)
  <2>1. Char(text, 0, Len(text))
    <3>1. \A k \in 1 .. Len(text) - 1 : Byte(text, 0 + k) \in Continuations
      BY <1>4 DEF Byte, Continuations
    <3>2. Byte(text, 0) \in Leads /\ Len(text) = LeadLength[Byte(text, 0)]
      BY <1>4 DEF Byte, Leads, LeadLength
    <3>3. Byte(text, 0) = "F0" => Byte(text, 0 + 1) \notin OverlongSeconds
      BY <1>4 DEF Byte, OverlongSeconds
    <3> QED  BY <3>1, <3>2, <3>3 DEF Char
  <2>2. text \in Bytes
    <3>1. {"F0", "9F", "98", "80", "E2", "82", "AC", "EF", "BF", "BD"} \subseteq Symbols
      BY DEF Symbols, Leads, Continuations
    <3>2. /\ <<"F0", "9F", "98", "80">> \in Bytes
          /\ <<"E2", "82", "AC">> \in Bytes /\ <<"EF", "BF", "BD">> \in Bytes
      BY <3>1 DEF Bytes
    <3> QED  BY <1>4, <3>2
  <2> QED  BY <2>1, <2>2, CharValid
<1> QED  BY <1>1, <1>2, <1>3, <1>4 DEF EscapeText

\* An escape is decoded to one character, for which room is made first.
LEMMA EscapeGrows ==
  ASSUME TypeOK, StringEscape \/ KeyEscape  PROVE Grows
<1>1. /\ tok \in Tokenizers /\ call \in Calls /\ CallInRing(call) /\ Len(ring) \in Nat
      /\ call.p \in Nat /\ call.consumed \in Nat
  BY TypeFacts, CallFields
<1>2. CASE StringEscape
  <2>1. /\ call.consumed < Len(ring) /\ EscapeLength(ring, call.consumed) > 0 /\ Len(Escaped) <= Free
        /\ call.pc = "string"
    BY <1>2 DEF StringEscape, AtEscape, AtStringStop, Escaped, Total
  <2>3. PICK x : tok' = [Pushed(tok, Escaped) EXCEPT !.string_bytes = x]
    BY <1>2, Zenon DEF StringEscape
  <2>2. Escaped \in Bytes /\ Valid(Escaped)  BY <1>1, <2>1, EscapeInRing, EscapeValid DEF Escaped
  <2>4. tok' \in {Pushed(tok, Escaped), [Pushed(tok, Escaped) EXCEPT !.string_bytes = x]}
    BY <2>3, Zenon
  <2>5. Decoding(call)  BY <2>1 DEF Decoding
  <2>6. PICK n : call' = Failed(n, "limit") \/ call' = [call EXCEPT !.consumed = @ + n]
    BY <1>2 DEF StringEscape
  <2>7. Decoding(call') \/ call'.error # "none"
    <3>1. CASE call' = Failed(n, "limit")  BY <1>1, <3>1, CallEnds
    <3>2. CASE call' = [call EXCEPT !.consumed = @ + n]
      <4>1. call'.pc = call.pc  BY <1>1, <3>2, Zenon DEF Calls
      <4> QED  BY <2>5, <4>1 DEF Decoding
    <3> QED  BY <2>6, <3>1, <3>2
  <2> QED  BY <1>1, <2>1, <2>2, <2>4, <2>5, <2>7, PushedGrows
<1>3. CASE KeyEscape
  <2> DEFINE text == EscapeText(ring, call.p, EscapeLength(ring, call.p))
  <2>1. /\ EscapeLength(ring, call.p) > 0 /\ Len(text) <= Free /\ call.pc = "key"
        /\ call.p < call.end /\ tok' = Pushed(tok, text)
    BY <1>3 DEF KeyEscape, AtKeyEscape
  <2>2. call.p < Len(ring)  BY <1>1, <2>1, KeyInRing
  <2>3. text \in Bytes /\ Valid(text)  BY <1>1, <2>1, <2>2, EscapeInRing, EscapeValid
  <2> HIDE DEF text
  <2>4. Decoding(call)  BY <2>1 DEF Decoding
  <2>5. Decoding(call')
    <3>1. PICK n : call' = [call EXCEPT !.p = @ + n, !.units = @ + n]  BY <1>3 DEF KeyEscape
    <3>2. call'.pc = call.pc  BY <1>1, <3>1, Zenon DEF Calls
    <3> QED  BY <2>4, <3>2 DEF Decoding
  <2>6. tok' \in {Pushed(tok, text), [Pushed(tok, text) EXCEPT !.string_bytes = 0]}  BY <2>1
  <2> QED  BY <1>1, <2>1, <2>3, <2>4, <2>5, <2>6, PushedGrows
<1> QED  BY <1>2, <1>3

\* The buffer is emptied in the middle of a text.
Empties ==
  /\ Decoding(call) /\ tok.chars # <<>>
  /\ tok'.chars_cap = tok.chars_cap /\ tok'.chunk_size = tok.chunk_size /\ tok'.chars = <<>>
  /\ tok'.in_string => tok.in_string

\* Decoding begins, with the buffer made ready for it.
Begins == Prepared /\ ~Decoding(call) /\ Decoding(call') /\ (tok'.in_string => tok.in_string)

\* Decoding goes on, or ends with nothing left in the buffer, or fails.
Keeps ==
  /\ SameText(tok, tok')
  /\ Decoding(call') => Decoding(call)
  /\ Decoding(call) => Decoding(call') \/ tok.chars = <<>> \/ call'.error # "none"

\* What the steps that are not tokens do to the text.
LEMMA QuietText ==
  ASSUME TypeOK, QuietStep  PROVE Keeps \/ Grows \/ Empties \/ Begins
<1>1. /\ tok \in Tokenizers /\ call \in Calls /\ Here \in Tokenizers
      /\ SameText(tok, Here) /\ SameText(tok, tok)
  BY TypeFacts, HereType, TextKept DEF Here
<1>2. \A n, error : /\ ~Decoding(Failed(n, error)) /\ Failed(n, error).error = error
                    /\ ~Decoding(Stopped)
  BY <1>1, CallEnds
<1>3. CASE \/ Refuse \/ OpenTooDeep \/ LoopEnd \/ KeyIncomplete \/ KeyRefused \/ NumberWrong
           \/ \E b \in DOMAIN Literals : LiteralIncomplete(b) \/ LiteralWrong(b)
  <2>1. call.pc = "loop"
    BY <1>3 DEF Refuse, OpenTooDeep, LoopEnd, KeyIncomplete, KeyRefused, NumberWrong, InNumber,
       LiteralIncomplete, LiteralWrong, AtKey, Looking, BetweenTokens
  <2>2. tok' \in {tok, Here} /\ (call' = Stopped \/ \E error : call' = Failed(0, error))
    BY <1>3 DEF Refuse, OpenTooDeep, LoopEnd, KeyIncomplete, KeyRefused, NumberWrong,
       LiteralIncomplete, LiteralWrong
  <2> QED  BY <1>1, <1>2, <2>1, <2>2 DEF Keeps, Decoding
<1>4. CASE MalformedChar \/ StringWrong \/ KeyEscapeWrong \/ KeyDoesNotFit
  <2>1. tok' = tok /\ \E error \in {"syntax", "limit"} : call' = Failed(0, error)
    BY <1>4 DEF MalformedChar, StringWrong, KeyEscapeWrong, KeyDoesNotFit
  <2> QED  BY <1>1, <1>2, <2>1 DEF Keeps
<1>5. CASE Whitespace
  <2>1. PICK x : tok' = [tok EXCEPT !.after_cr = x]  BY <1>5 DEF Whitespace
  <2>2. PICK to : call' = [call EXCEPT !.consumed = to, !.p = call.consumed, !.to = to,
                                       !.pc = IF NeedsWhitespace THEN "space" ELSE "loop"]
    BY <1>5 DEF Whitespace
  <2>3. call'.pc \in {"space", "loop"}  BY <1>1, <2>2, Zenon DEF Calls
  <2>4. call.pc = "loop"  BY <1>5 DEF Whitespace, BetweenTokens
  <2> QED  BY <1>1, <2>1, <2>3, <2>4, TextKept DEF Keeps, Decoding
<1>6. CASE ReportWhitespace
  <2>1. ASSUME NEW q, call' = [call EXCEPT !.p = q, !.pc = IF q = call.to THEN "loop" ELSE "space"]
        PROVE  ~Decoding(call')
    <3>1. call'.pc \in {"space", "loop"}  BY <1>1, <2>1, Zenon DEF Calls
    <3> QED  BY <3>1 DEF Decoding
  <2>3. PICK q : \/ call' = Failed(0, "handler")
                 \/ call' = [call EXCEPT !.p = q, !.pc = IF q = call.to THEN "loop" ELSE "space"]
    BY <1>6, Zenon DEF ReportWhitespace, HandlerFails
  <2>4. tok' = tok /\ call.pc = "space"  BY <1>6 DEF ReportWhitespace, HandlerFails
  <2>2. tok' = tok /\ ~Decoding(call') /\ call.pc = "space"
    <3>1. ~Decoding(Failed(0, "handler"))  BY <1>2
    <3> QED  BY <2>1, <2>3, <2>4, <3>1, Zenon
  <2> QED  BY <1>1, <2>2 DEF Keeps, Decoding
<1>7. CASE DecodeSlice \/ PushChar \/ StringEscape \/ KeyEscape
  BY <1>7, SliceGrows, CharGrows, EscapeGrows
<1>8. CASE FlushChars
  <2>1. Decoding(call) /\ tok.chars # <<>>
    BY <1>8 DEF FlushChars, FlushDue, AtStringEnd, AtEscape, AtStringStop, Decoding
  <2>2. CASE HandlerFails("string_value_content", tok, 0)
    BY <1>1, <1>2, <2>2 DEF HandlerFails, Keeps
  <2>3. CASE tok' = [tok EXCEPT !.chars = <<>>]
    <3>1. /\ tok'.chars = <<>> /\ tok'.chars_cap = tok.chars_cap
          /\ tok'.chunk_size = tok.chunk_size /\ tok'.in_string = tok.in_string
      BY <1>1, <2>3, Zenon DEF Tokenizers
    <3> QED  BY <2>1, <3>1 DEF Empties
  <2> QED  BY <1>8, <2>2, <2>3 DEF FlushChars
<1>9. CASE StringRun \/ StringRunDone \/ StringPause \/ KeyRun \/ KeyRunDone
  <2>1. Decoding(call)
    BY <1>9 DEF StringRun, StringRunDone, StringPause, KeyRun, KeyRunDone, RunDecoded, RunCutShort,
       AtStringStop, Decoding
  <2>2. \A x : SameText(tok, [tok EXCEPT !.string_bytes = x])  BY <1>1, TextKept
  <2>3. SameText(tok, tok')
    BY <1>1, <1>9, <2>2 DEF StringRun, StringRunDone, StringPause, KeyRun, KeyRunDone
  <2>4. ASSUME NEW pc \in {"string", "run", "char", "pause", "key"}, call'.pc = pc
        PROVE  Decoding(call')
    BY <2>4 DEF Decoding
  <2>5. Decoding(call') \/ call'.error # "none"
    <3>1. CASE StringRun
      <4>1. PICK to : \/ call' = Failed(0, "limit")
                      \/ call' = [call EXCEPT !.pc = "run", !.p = call.consumed, !.to = to, !.units = 0]
        BY <3>1, Zenon DEF StringRun
      <4>2. call' = [call EXCEPT !.pc = "run", !.p = call.consumed, !.to = to, !.units = 0]
              => call'.pc = "run"
        BY <1>1, Zenon DEF Calls
      <4> QED  BY <1>2, <2>4, <4>1, <4>2
    <3>2. CASE StringRunDone
      <4>1. PICK p, pc : pc \in {"string", "pause"} /\ call' = [call EXCEPT !.consumed = p, !.pc = pc]
        BY <3>2 DEF StringRunDone
      <4>2. call'.pc = pc  BY <1>1, <4>1, Zenon DEF Calls
      <4> QED  BY <2>4, <4>1, <4>2
    <3>3. CASE StringPause \/ KeyRun \/ KeyRunDone
      <4>1. PICK to : \/ call' = Failed(0, "syntax") \/ call' = [call EXCEPT !.pc = "pause"]
                      \/ call' = [call EXCEPT !.pc = "key"] \/ call' = [call EXCEPT !.pc = "run", !.to = to]
        BY <3>3, Zenon DEF StringPause, KeyRun, KeyRunDone
      <4>2. \/ call' = Failed(0, "syntax")
            \/ call'.pc \in {"pause", "key", "run"}
        BY <1>1, <4>1, Zenon DEF Calls
      <4> QED  BY <1>2, <2>4, <4>2
    <3> QED  BY <1>9, <3>1, <3>2, <3>3
  <2> QED  BY <2>1, <2>3, <2>5 DEF Keeps
<1>10. CASE StringPaused
  BY <1>1, <1>2, <1>10 DEF StringPaused, Keeps
<1>11. CASE ContinueString
  <2>1. Prepared  BY <1>1, <1>11, PreparedText DEF ContinueString
  <2>2. call' = [call EXCEPT !.pc = "string"] /\ call.pc = "loop"  BY <1>11 DEF ContinueString
  <2>3. call'.pc = "string"  BY <1>1, <2>2, Zenon DEF Calls
  <2>4. tok'.in_string => tok.in_string  BY <1>11 DEF ContinueString
  <2> QED  BY <2>1, <2>2, <2>3, <2>4 DEF Begins, Decoding
<1>12. CASE KeyFound
  <2>1. call.pc = "loop"  BY <1>12 DEF KeyFound, AtKey, Looking, BetweenTokens
  <2> DEFINE empty == [EnsureChars(Here) EXCEPT !.chars = <<>>]
             Same == /\ tok'.chars = empty.chars /\ tok'.chars_cap = empty.chars_cap
                     /\ tok'.chunk_size = empty.chunk_size
  <2>2. empty \in Tokenizers /\ (Same => Prepared)  BY <1>1, PreparedText
  <2>3. PICK x, y : tok' = [empty EXCEPT !.attempts = x, !.hits = y]
    BY <1>12, Zenon DEF KeyFound
  <2>4. empty.in_string => tok.in_string
    <3>1. EnsureChars(Here) \in Tokenizers  BY <1>1, TypeFacts, BufferType
    <3>2. empty.in_string = EnsureChars(Here).in_string  BY <3>1, Zenon DEF Tokenizers
    <3>3. EnsureChars(Here).in_string = Here.in_string  BY <1>1, Zenon DEF EnsureChars, Tokenizers
    <3> QED  BY <1>1, <3>2, <3>3 DEF SameText
  <2> HIDE DEF empty
  <2>5. Same /\ tok'.in_string = empty.in_string  BY <2>2, <2>3, Zenon DEF Tokenizers
  <2>6. PICK key, end :
          call' = [call EXCEPT !.pc = "key", !.key = key, !.end = end,
                               !.p = IF key = "hit" THEN end ELSE KeyStart,
                               !.units = IF key = "hit" THEN Units(Slice(ring, KeyStart, end)) ELSE 0]
    BY <1>12, Zenon DEF KeyFound
  <2>7. call'.pc = "key"  BY <1>1, <2>6, Zenon DEF Calls
  <2> QED  BY <2>1, <2>2, <2>4, <2>5, <2>7 DEF Begins, Decoding
<1> QED
  BY <1>3, <1>4, <1>5, <1>6, <1>7, <1>8, <1>9, <1>10, <1>11, <1>12
  DEF QuietStep, WhitespaceStep, DecodeStep

-----------------------------------------------------------------------------
(* The character buffer                                                    *)

\* The buffer as it was, with no call decoding.
Rests ==
  /\ ~Decoding(call) /\ ~Decoding(call')
  /\ \/ tok'.chars = <<>> /\ tok'.chars_cap = 0
     \/ tok'.chars = tok.chars /\ tok'.chars_cap = tok.chars_cap

\* The steps outside Tokenizer::receive leave the buffer alone, or a new
\* tokenizer begins with an empty one.
LEMMA OutsideText ==
  ASSUME TypeOK, FeedReturns \/ CloseUnfinished \/ CloseReturns \/ CloseAfterNumber \/ CallerStep
  PROVE  Rests
<1>0. tok \in Tokenizers /\ call \in Calls  BY TypeFacts
<1>1. ~Decoding(call)
  BY DEF FeedReturns, CloseUnfinished, CloseReturns, CloseAfterNumber, CallerStep, Write, Receive,
     ReceiveNothing, Close, CloseEmpty, CloseAgain, SetLimits, SetStringChunkSize,
     SetRejectDuplicateKeys, Reset, Idle, Decoding
<1>2. UNCHANGED call \/ call'.pc \in {"idle", "finish", "loop", "fed"}
  <2>1. CASE Receive \/ Close
    <3>1. PICK op : Feed(op)  BY <2>1 DEF Receive, Close
    <3> QED  BY <3>1 DEF Feed, Returned
  <2>2. CASE FeedReturns \/ CloseUnfinished \/ CloseReturns \/ CloseAfterNumber
    BY <2>2 DEF FeedReturns, CloseUnfinished, CloseReturns, CloseAfterNumber, Judge, Returned
  <2>3. CASE Write \/ SetLimits \/ SetStringChunkSize \/ SetRejectDuplicateKeys
    BY <2>3 DEF Write, SetLimits, SetStringChunkSize, SetRejectDuplicateKeys
  <2>4. CASE ReceiveNothing \/ CloseEmpty \/ CloseAgain \/ Reset
    BY <2>4 DEF ReceiveNothing, CloseEmpty, CloseAgain, Reset, Returned
  <2> QED  BY <2>1, <2>2, <2>3, <2>4 DEF CallerStep
<1>3. ~Decoding(call')  BY <1>1, <1>2 DEF Decoding
<1>4. \/ tok'.chars = <<>> /\ tok'.chars_cap = 0
      \/ tok'.chars = tok.chars /\ tok'.chars_cap = tok.chars_cap
  <2>1. CASE Receive \/ Close \/ Reset
    <3>1. tok' = tok \/ \E reject, chunk : tok' = NewTokenizer(reject, chunk)
      BY <2>1 DEF Receive, Close, Feed, Reset
    <3> QED  BY <3>1 DEF NewTokenizer
  <2>2. CASE SetStringChunkSize
    <3>1. tok' = tok \/ \E n : tok' = [tok EXCEPT !.chunk_size = n]
      BY <2>2 DEF SetStringChunkSize
    <3> QED  BY <1>0, <3>1, Zenon DEF Tokenizers
  <2>3. CASE CloseAfterNumber
    <3>1. tok' = [tok EXCEPT !.stage = "None", !.state = "AfterValue"]
      BY <2>3 DEF CloseAfterNumber
    <3> QED  BY <1>0, <3>1, Zenon DEF Tokenizers
  <2>4. CASE \/ FeedReturns \/ CloseUnfinished \/ CloseReturns \/ Write \/ ReceiveNothing
             \/ CloseEmpty \/ CloseAgain \/ SetLimits \/ SetRejectDuplicateKeys
    BY <2>4 DEF FeedReturns, CloseUnfinished, CloseReturns, Write, ReceiveNothing, CloseEmpty,
       CloseAgain, SetLimits, SetRejectDuplicateKeys
  <2> QED  BY <2>1, <2>2, <2>3, <2>4 DEF CallerStep
<1> QED  BY <1>1, <1>3, <1>4 DEF Rests

\* The buffer holds whole characters, no more than it was made for, and has
\* the size that is set now while a call decodes.  Inside a string, when
\* nothing is being decoded, all of it has been delivered.
Buffer ==
  /\ Len(tok.chars) <= tok.chars_cap /\ Valid(tok.chars)
  /\ Decoding(call) => tok.chars_cap = tok.chunk_size
  /\ Running /\ tok.in_string => Decoding(call) \/ tok.chars = <<>>

\* Every step keeps what is said of the buffer.
LEMMA BufferKept ==
  ASSUME TypeOK, CallState, Fresh, Reading, Buffer, [Next]_vars
  PROVE  Buffer'
<1>0. /\ tok \in Tokenizers /\ tok.chars \in Bytes /\ tok.chunk_size \in Nat /\ tok.chars_cap \in Nat
      /\ Len(tok.chars) \in Nat /\ Len(<<>>) = 0 /\ Valid(<<>>)
      /\ call \in Calls /\ CallInRing(call)
  <2>1. tok \in Tokenizers /\ call \in Calls /\ CallInRing(call)  BY TypeFacts
  <2>2. tok.chars \in Bytes /\ tok.chunk_size \in Nat  BY <2>1, TokenizerFields
  <2>4. tok.chars_cap \in Nat  BY <2>1 DEF Tokenizers
  <2>3. Len(tok.chars) \in Nat /\ Len(<<>>) = 0  BY <2>2, LenProperties DEF Bytes
  <2> QED  BY <2>1, <2>2, <2>3, <2>4, NothingValid
<1>1. CASE TokenizerStep /\ UNCHANGED <<parser, doc, verdict>>
  <2>1. Running' => Running
    <3>1. call.pc \in InTokenizer  BY <1>0, <1>1, TokenizerSteps
    <3> QED  BY <1>1, <3>1 DEF CallState, Running, InTokenizer
  <2>2. CASE QuietStep
    <3>1. CASE Keeps
      BY <1>0, <2>1, <3>1 DEF Keeps, SameText, Buffer, Running
    <3>2. CASE Grows
      <4>1. PICK text \in Bytes : tok'.chars = tok.chars \o text /\ Len(text) <= Free /\ Valid(text)
        BY <3>2 DEF Grows
      <4>2. Len(tok'.chars) = Len(tok.chars) + Len(text) /\ Len(text) \in Nat
        BY <1>0, <4>1, ConcatProperties DEF Bytes
      <4>3. Valid(tok'.chars)  BY <1>0, <4>1, JoinedValid DEF Buffer
      <4>4. tok'.chars_cap = tok.chars_cap /\ tok'.chunk_size = tok.chunk_size
            /\ tok.chars_cap = tok.chunk_size
        BY <3>2 DEF Grows, Buffer
      <4>5. Decoding(call') \/ ~Running'  BY <3>2 DEF Grows, Running
      <4> QED  BY <1>0, <4>1, <4>2, <4>3, <4>4, <4>5 DEF Buffer, Free
    <3>3. CASE Empties  BY <1>0, <3>3 DEF Empties, Buffer
    <3>4. CASE Begins  BY <1>0, <3>4 DEF Begins, Prepared, Buffer
    <3> QED  BY <2>2, <3>1, <3>2, <3>3, <3>4, QuietText
  <2>3. CASE TokenStep
    <3>1. ~Decoding(call')
      <4>1. GoesOn \/ Fails  BY <2>3, TokenMoves DEF ComesOut
      <4> QED  BY <4>1 DEF GoesOn, Fails, Decoding
    <3>2. CASE SameText(tok, tok') /\ ~StringStart
      <4>1. ~tok'.in_string  BY <2>3, <3>2, StringsStop DEF SameText
      <4> QED  BY <1>0, <3>1, <3>2, <4>1 DEF SameText, Buffer
    <3>3. CASE Prepared /\ tok'.chars = <<>>
      BY <1>0, <3>1, <3>3 DEF Prepared, Buffer
    <3> QED  BY <2>3, <3>2, <3>3, TokenText
  <2> QED  BY <1>1, <2>2, <2>3, StepKinds
<1>2. CASE FeedReturns \/ CloseUnfinished \/ CloseReturns \/ CallerStep
  <2>1. Rests  BY <1>2, OutsideText
  <2>2. Outside  BY <1>2, OutsidePlace
  <2>3. AtStart(tok') => ~tok'.in_string  BY DEF AtStart, SamePlace, NewTokenizer
  <2> QED  BY <1>0, <2>1, <2>2, <2>3 DEF Rests, Outside, SamePlace, Buffer
<1>3. CASE CloseAfterNumber
  <2>1. Rests  BY <1>3, OutsideText
  <2>2. tok' = [tok EXCEPT !.stage = "None", !.state = "AfterValue"] /\ ~tok.in_string
    BY <1>3 DEF CloseAfterNumber, Unfinished
  <2>3. ~tok'.in_string  BY <1>0, <2>2, Zenon DEF Tokenizers
  <2> QED  BY <1>0, <2>1, <2>3 DEF Rests, Buffer
<1>4. CASE UNCHANGED vars
  BY <1>4 DEF vars, Buffer, Running, Decoding
<1> QED  BY <1>1, <1>2, <1>3, <1>4 DEF Next, CallStep

\* So it always holds.
LEMMA BufferAlways == Spec => []Buffer
<1>1. Init => Buffer
  <2> SUFFICES ASSUME Init  PROVE Buffer  OBVIOUS
  <2>1. PICK reject, chunk : tok = NewTokenizer(reject, chunk)  BY DEF Init
  <2>2. tok.chars = <<>> /\ tok.chars_cap = 0 /\ ~tok.in_string  BY <2>1 DEF NewTokenizer
  <2>3. ~Decoding(call)  BY DEF Init, Returned, Decoding
  <2>4. Len(<<>>) <= 0  OBVIOUS
  <2> QED  BY <2>2, <2>3, <2>4, NothingValid DEF Buffer
<1> QED
  BY <1>1, BufferKept, TypeCorrect, CallStateHolds, ReadingHolds, PTL DEF Spec

\* While text is decoded there is room for what is free: the length of the
\* buffer never exceeds the chunk size, though set_string_chunk_size may be
\* called between any two calls and a failed call may leave text behind
\* (decode_run computes the room that is left by an unchecked subtraction).
THEOREM RoomIsLeft == Spec => []RoomToDecode
<1>1. TypeOK /\ Buffer => RoomToDecode
  BY TypeFacts DEF Buffer, RoomToDecode, Decoding
<1> QED  BY <1>1, BufferAlways, TypeCorrect, PTL

\* The text not yet delivered fits the buffer, and inside a string nothing is
\* held back between two calls: what receive returned on has been delivered.
THEOREM NothingHeldBack == Spec => []BufferHolds
<1>1. CallState /\ Buffer => BufferHolds
  BY DEF Buffer, BufferHolds, CallState, Running, Idle, Decoding
<1> QED  BY <1>1, BufferAlways, CallStateHolds, PTL

\* Whatever the document is and however it is cut into calls and spans, and
\* whatever the chunk size, a handler gets the text of a string in pieces
\* that are valid UTF-8 on their own, not empty, and within the chunk size.
THEOREM ContentIsText == Spec => ContentInWholeCharacters
<1> DEFINE Step ==
      events' # events /\ events' # <<>> /\ LastEvent'.ev = "string_value_content" =>
        /\ LastEvent'.text # <<>> /\ Len(LastEvent'.text) <= tok.chunk_size
        /\ ValidUtf8(LastEvent'.text, 0, Len(LastEvent'.text))
<1>1. ASSUME TypeOK, Buffer, Next  PROVE Step
  <2>0. events \in Seq(Events)  BY <1>1, TypeFacts
  <2>1. ASSUME NEW ev, NEW text, NEW at, Notify(ev, text, at)
        PROVE  LastEvent'.ev = ev /\ LastEvent'.text = text
    <3> DEFINE e == [ev |-> ev, text |-> text, line |-> at.line, column |-> at.column]
    <3>1. events' = Append(events, e)  BY <2>1 DEF Notify
    <3>2. Len(events') = Len(events) + 1 /\ events'[Len(events) + 1] = e
      BY <2>0, <3>1, AppendProperties
    <3>3. LastEvent' = e  BY <3>2 DEF LastEvent
    <3> QED  BY <3>3
  <2>2. CASE TokenizerStep
    <3>1. CASE TokenStep
      <4>1. ASSUME NEW ev \in TokenNames, NEW text, Notify(ev, text, loc')  PROVE Step
        BY <2>1, <4>1 DEF TokenNames
      <4> QED  BY <3>1, <4>1, TokenEvents
    <3>2. CASE FlushChars
      <4>1. /\ Notify("string_value_content", tok.chars, loc) /\ tok.chars # <<>> /\ Decoding(call)
        BY <3>2 DEF FlushChars, FlushDue, AtStringEnd, AtEscape, AtStringStop, Decoding
      <4>2. Len(tok.chars) <= tok.chunk_size /\ Valid(tok.chars)  BY <1>1, <4>1 DEF Buffer
      <4> QED  BY <2>1, <4>1, <4>2 DEF Valid
    <3>3. CASE ReportWhitespace
      <4>1. PICK text : Notify("whitespace", text, loc)  BY <3>3 DEF ReportWhitespace
      <4> QED  BY <2>1, <4>1
    <3> QED  BY <2>2, <3>1, <3>2, <3>3, StepKinds, QuietEvents
  <2>3. CASE FeedReturns \/ CloseUnfinished \/ CloseReturns \/ CallerStep
    <3>1. events' \in {events, <<>>}
      BY <2>3 DEF FeedReturns, CloseUnfinished, CloseReturns, CallerStep, Write, Receive,
         ReceiveNothing, Close, CloseEmpty, CloseAgain, SetLimits, SetStringChunkSize,
         SetRejectDuplicateKeys, Reset, Feed
    <3> QED  BY <3>1
  <2>4. CASE CloseAfterNumber
    BY <2>1, <2>4 DEF CloseAfterNumber
  <2> QED  BY <1>1, <2>2, <2>3, <2>4 DEF Next, CallStep
<1>2. TypeOK /\ Buffer /\ [Next]_vars => [Step]_vars
  BY <1>1
<1> QED  BY <1>2, BufferAlways, TypeCorrect, PTL DEF Spec, ContentInWholeCharacters

-----------------------------------------------------------------------------
(* The keys in the symbol table                                            *)

\* Two slices side by side are one.
LEMMA SliceJoined ==
  ASSUME NEW S, NEW s \in Seq(S), NEW a \in Nat, NEW b \in Nat, NEW c \in Nat,
         a <= b, b <= c, c <= Len(s)
  PROVE  Slice(s, a, b) \o Slice(s, b, c) = Slice(s, a, c)
<1>1. ASSUME NEW m \in Nat, NEW n \in Nat, m <= n, n <= Len(s)
      PROVE  /\ Slice(s, m, n) \in Seq(S) /\ Len(Slice(s, m, n)) = n - m
             /\ \A i \in 1 .. n - m : Slice(s, m, n)[i] = s[m + i]
  <2>1. /\ Slice(s, m, n) \in Seq(S) /\ Len(Slice(s, m, n)) = n - m
        /\ \A i \in 0 .. n - m - 1 : Byte(Slice(s, m, n), i) = Byte(s, m + i)
    BY <1>1, SliceFacts
  <2>2. ASSUME NEW i \in 1 .. n - m  PROVE Slice(s, m, n)[i] = s[m + i]
    <3>1. i - 1 \in 0 .. n - m - 1 /\ (i - 1) + 1 = i /\ (m + (i - 1)) + 1 = m + i  BY <1>1
    <3>2. Byte(Slice(s, m, n), i - 1) = Byte(s, m + (i - 1))  BY <2>1, <3>1
    <3> QED  BY <3>1, <3>2 DEF Byte
  <2> QED  BY <2>1, <2>2
<1> DEFINE u == Slice(s, a, b)
           v == Slice(s, b, c)
           w == Slice(s, a, c)
<1>2. /\ u \in Seq(S) /\ Len(u) = b - a /\ \A i \in 1 .. b - a : u[i] = s[a + i]
      /\ v \in Seq(S) /\ Len(v) = c - b /\ \A i \in 1 .. c - b : v[i] = s[b + i]
      /\ w \in Seq(S) /\ Len(w) = c - a /\ \A i \in 1 .. c - a : w[i] = s[a + i]
  <2>1. Len(s) \in Nat  BY LenProperties
  <2>2. b <= Len(s) /\ a <= c  BY <2>1
  <2>3. u \in Seq(S) /\ Len(u) = b - a /\ \A i \in 1 .. b - a : u[i] = s[a + i]  BY <1>1, <2>2
  <2>4. v \in Seq(S) /\ Len(v) = c - b /\ \A i \in 1 .. c - b : v[i] = s[b + i]  BY <1>1, <2>2
  <2>5. w \in Seq(S) /\ Len(w) = c - a /\ \A i \in 1 .. c - a : w[i] = s[a + i]  BY <1>1, <2>2
  <2> QED  BY <2>3, <2>4, <2>5
<1> HIDE DEF u, v, w
<1>3. /\ u \o v \in Seq(S) /\ Len(u \o v) = c - a
      /\ \A i \in 1 .. c - a : (u \o v)[i] = IF i <= b - a THEN u[i] ELSE v[i - (b - a)]
  <2>1. u \in Seq(S) /\ v \in Seq(S) /\ Len(u) = b - a /\ Len(v) = c - b  BY <1>2
  <2>2. Len(u) + Len(v) = c - a  BY <2>1
  <2>3. /\ u \o v \in Seq(S) /\ Len(u \o v) = Len(u) + Len(v)
        /\ \A i \in 1 .. Len(u) + Len(v) : (u \o v)[i] = IF i <= Len(u) THEN u[i] ELSE v[i - Len(u)]
    BY <2>1, ConcatProperties
  <2> QED  BY <2>1, <2>2, <2>3
<1>4. ASSUME NEW i \in 1 .. c - a  PROVE (u \o v)[i] = w[i]
  <2>1. (u \o v)[i] = IF i <= b - a THEN u[i] ELSE v[i - (b - a)]
    BY <1>3
  <2>2. CASE i <= b - a  BY <1>2, <2>1, <2>2
  <2>3. CASE ~(i <= b - a)
    <3>1. i - (b - a) \in 1 .. c - b /\ b + (i - (b - a)) = a + i  BY <2>3
    <3> QED  BY <1>2, <2>1, <2>3, <3>1
  <2> QED  BY <2>2, <2>3
<1>5. u \o v = w  BY <1>2, <1>3, <1>4, SeqEqual
<1> QED  BY <1>5 DEF u, v, w

\* A key that was looked up and not found needs no unescaping, is short, and
\* the buffer holds its bytes up to where it has been read.
Missed ==
  call.key = "miss" =>
    /\ call.end - KeyStart <= MaxKeyBytes /\ KeyStart <= call.p
    /\ \A i \in KeyStart .. call.end - 1 : Plain(At(i))
    /\ tok.chars = Slice(ring, KeyStart, call.p)

\* The next q - p bytes of a run go into the buffer.
Copies(q) ==
  /\ q \in Nat /\ call.p <= q /\ q <= Len(ring) /\ call'.p = q
  /\ tok'.chars = tok.chars \o Slice(ring, call.p, q)

\* How a call goes on that reads a key.
KeyGoesOn ==
  /\ ReadingKey /\ call'.key = call.key /\ call'.consumed = call.consumed /\ call'.end = call.end
  /\ \/ tok'.chars = tok.chars /\ call'.p = call.p
     \/ \E q : Copies(q)
     \/ KeyEscape

\* A step that leaves a key being read found it or goes on with it.
LEMMA KeyReads ==
  ASSUME TypeOK, QuietStep, call'.key # "none"  PROVE KeyFound \/ KeyGoesOn
<1>0. /\ call \in Calls /\ CallInRing(call) /\ tok \in Tokenizers
      /\ call.p \in Nat /\ call.to \in Nat /\ Len(ring) \in Nat /\ call.p <= Len(ring) /\ call.to <= Len(ring)
  BY TypeFacts, CallFields DEF CallInRing
<1>1. \A n, error : Failed(n, error).key = "none" /\ Stopped.key = "none"
  BY <1>0, Zenon DEF Failed, Stopped, Calls
<1>2. call.pc \notin {"key", "run", "char"} => call.key = "none"  BY <1>0 DEF CallInRing
<1>3. CASE \/ Refuse \/ OpenTooDeep \/ NumberWrong \/ LoopEnd
           \/ \E b \in DOMAIN Literals : LiteralIncomplete(b) \/ LiteralWrong(b)
           \/ MalformedChar \/ StringPaused \/ StringWrong
           \/ KeyIncomplete \/ KeyRefused \/ KeyEscapeWrong \/ KeyDoesNotFit
  BY <1>1, <1>3 DEF Refuse, OpenTooDeep, NumberWrong, LoopEnd, LiteralIncomplete, LiteralWrong,
     MalformedChar, StringPaused, StringWrong, KeyIncomplete, KeyRefused, KeyEscapeWrong, KeyDoesNotFit
<1>4. CASE WhitespaceStep
  <2>1. call.key = "none"  BY <1>2, <1>4 DEF WhitespaceStep, Whitespace, ReportWhitespace, BetweenTokens
  <2>2. PICK to, q, pc :
          \/ call' = Failed(0, "handler")
          \/ call' = [call EXCEPT !.p = q, !.pc = pc]
          \/ call' = [call EXCEPT !.consumed = to, !.p = call.consumed, !.to = to, !.pc = pc]
    BY <1>4 DEF WhitespaceStep, Whitespace, ReportWhitespace, HandlerFails
  <2>3. call' = Failed(0, "handler") \/ call'.key = call.key  BY <1>0, <2>2, Zenon DEF Calls
  <2> QED  BY <1>1, <2>1, <2>3
<1>5. CASE FlushChars
  <2>1. ~ReadingKey
    BY <1>2, <1>5 DEF FlushChars, FlushDue, AtStringEnd, AtEscape, AtStringStop, ReadingKey
  <2> QED  BY <1>1, <1>5, <2>1 DEF FlushChars, HandlerFails, ReadingKey
<1>6. CASE ContinueString \/ StringRun \/ StringPause \/ StringEscape \/ StringRunDone
  <2>1. call.key = "none"
    BY <1>2, <1>6 DEF ContinueString, StringRun, StringPause, StringEscape, StringRunDone, AtEscape,
       AtStringStop, ReadingKey
  <2>2. CASE ContinueString \/ StringPause \/ StringEscape \/ StringRunDone
    <3>1. PICK n, p, pc : \/ call' = Failed(n, "limit") \/ call' = [call EXCEPT !.pc = pc]
                          \/ call' = [call EXCEPT !.consumed = @ + n]
                          \/ call' = [call EXCEPT !.consumed = p, !.pc = pc]
      BY <2>2 DEF ContinueString, StringPause, StringEscape, StringRunDone
    <3>2. call' = Failed(n, "limit") \/ call'.key = call.key  BY <1>0, <3>1, Zenon DEF Calls
    <3> QED  BY <1>1, <2>1, <3>2
  <2>3. CASE StringRun
    <3>1. PICK to : \/ call' = Failed(0, "limit")
                    \/ call' = [call EXCEPT !.pc = "run", !.p = call.consumed, !.to = to, !.units = 0]
      BY <2>3, Zenon DEF StringRun
    <3>2. call' = Failed(0, "limit") \/ call'.key = call.key  BY <1>0, <3>1, Zenon DEF Calls
    <3> QED  BY <1>1, <2>1, <3>2
  <2> QED  BY <1>6, <2>2, <2>3
<1>7. CASE KeyRun \/ KeyRunDone
  <2>1. PICK to : \/ call' = Failed(0, "syntax") \/ call' = [call EXCEPT !.pc = "key"]
                  \/ call' = [call EXCEPT !.pc = "run", !.to = to]
    BY <1>7, Zenon DEF KeyRun, KeyRunDone
  <2>2. \/ call' = Failed(0, "syntax")
        \/ /\ call'.key = call.key /\ call'.consumed = call.consumed /\ call'.end = call.end
           /\ call'.p = call.p
    BY <1>0, <2>1, Zenon DEF Calls
  <2>3. tok' = tok /\ ReadingKey  BY <1>0, <1>7 DEF KeyRun, KeyRunDone, ReadingKey, CallInRing
  <2> QED  BY <1>1, <2>2, <2>3 DEF KeyGoesOn
<1>8. CASE KeyEscape
  <2>1. PICK n : call' = [call EXCEPT !.p = @ + n, !.units = @ + n]  BY <1>8 DEF KeyEscape
  <2>2. call'.key = call.key /\ call'.consumed = call.consumed /\ call'.end = call.end
    BY <1>0, <2>1, Zenon DEF Calls
  <2> QED  BY <1>8, <2>2 DEF KeyGoesOn, ReadingKey
<1>9. CASE DecodeSlice
  <2> DEFINE stop == AtMost(AtMost(call.to, SpanEnd(call.p)), call.p + Free)
  <2>1. stop \in Int /\ stop <= call.to
    <3>1. Free \in Int  BY <1>0, TokenizerFields, LenProperties DEF Free, Bytes
    <3>2. SpanEnd(call.p) \in Nat  BY <1>0, SpanEndType
    <3> QED  BY <1>0, <3>1, <3>2 DEF AtMost
  <2>2. PICK q \in call.p .. stop :
          /\ tok' = Pushed(tok, Slice(ring, call.p, q))
          /\ call' = IF q < stop /\ CharLength(ring, q, stop) = Bad THEN Failed(0, "syntax")
                     ELSE [call EXCEPT !.p = q, !.units = @ + Units(Slice(ring, call.p, q)),
                                       !.pc = IF q = stop THEN "run" ELSE "char"]
    BY <1>9, Zenon DEF DecodeSlice
  <2> HIDE DEF stop
  <2>3. q \in Nat /\ call.p <= q /\ q <= Len(ring)  BY <1>0, <2>1, <2>2
  <2>4. tok'.chars = tok.chars \o Slice(ring, call.p, q)  BY <1>0, <2>2, Zenon DEF Pushed, Tokenizers
  <2>5. \/ call' = Failed(0, "syntax")
        \/ /\ call'.key = call.key /\ call'.consumed = call.consumed /\ call'.end = call.end
           /\ call'.p = q
    BY <1>0, <2>2, Zenon DEF Calls
  <2>6. call' # Failed(0, "syntax")  BY <1>1
  <2> QED  BY <2>3, <2>4, <2>5, <2>6 DEF KeyGoesOn, Copies, ReadingKey
<1>10. CASE PushChar
  <2> DEFINE q == call.p + CutChar
  <2>1. q \in Nat /\ call.p <= q /\ q <= Len(ring)
    <3>1. CharLength(ring, call.p, Len(ring)) > 0 /\ CutChar = CharLength(ring, call.p, Len(ring))
      BY <1>10 DEF PushChar, CutChar, CharLengthWhole, More
    <3>2. call.p < Len(ring)  BY <1>0, <1>10 DEF PushChar, CallInRing
    <3> QED  BY <1>0, <3>1, <3>2, CharInInput
  <2>2. PICK units : /\ tok' = Pushed(tok, Slice(ring, call.p, q))
                     /\ call' = [call EXCEPT !.p = q, !.units = units, !.pc = "run"]
    BY <1>10, Zenon DEF PushChar
  <2> HIDE DEF q
  <2>3. tok'.chars = tok.chars \o Slice(ring, call.p, q)  BY <1>0, <2>2, Zenon DEF Pushed, Tokenizers
  <2>4. /\ call'.key = call.key /\ call'.consumed = call.consumed /\ call'.end = call.end
        /\ call'.p = q
    BY <1>0, <2>2, Zenon DEF Calls
  <2> QED  BY <2>1, <2>3, <2>4 DEF KeyGoesOn, Copies, ReadingKey
<1> QED
  BY <1>3, <1>4, <1>5, <1>6, <1>7, <1>8, <1>9, <1>10 DEF QuietStep, DecodeStep

\* A key that is looked up has no byte that needs unescaping.
LEMMA FoundIsPlain ==
  ASSUME TypeOK, AtKey, NEW end \in KeyStart .. Total - 1, KeyScanned(end), Internable(end)
  PROVE  \A i \in KeyStart .. end - 1 : Plain(At(i))
<1>1. KeyStart \in Nat /\ Total \in Nat  BY TypeFacts, CallFields DEF KeyStart, Total
<1>2. ASSUME NEW i \in KeyStart .. end - 1  PROVE Plain(At(i))
  <2>1. i \in KeyStart .. Total - 1 /\ i < end  BY <1>1
  <2>2. i \notin KeyStops
    <3>1. i \in KeyStops => end <= i  BY DEF KeyScanned, IsMin
    <3> QED  BY <1>1, <2>1, <3>1
  <2>3. \A j \in KeyStart .. i : At(j) # Backslash  BY <1>1 DEF Internable
  <2>4. ~Skipped(ring, KeyStart, i)
    <3> DEFINE run == {j \in KeyStart .. i - 1 : \A k \in j .. i - 1 : Byte(ring, k) = Backslash}
    <3>1. run = {}
      <4>1. ASSUME NEW j \in KeyStart .. i - 1  PROVE \E k \in j .. i - 1 : Byte(ring, k) # Backslash
        <5>1. j \in KeyStart .. i /\ j \in j .. i - 1  BY <1>1
        <5> QED  BY <2>3, <5>1 DEF At
      <4> QED  BY <4>1
    <3>2. Cardinality(run) % 2 = 0  BY <3>1, FS_EmptySet
    <3> HIDE DEF run
    <3> QED  BY <3>2 DEF Skipped, run
  <2>5. At(i) \notin {Quote} \cup Controls  BY <2>1, <2>2, <2>4 DEF KeyStops
  <2>6. At(i) # Backslash
    <3>1. i \in KeyStart .. i  BY <1>1
    <3> QED  BY <2>3, <3>1
  <2> QED  BY <2>5, <2>6 DEF Plain
<1> QED  BY <1>2

\* What was decoded of a missed key stays what its raw bytes are.
LEMMA MissedKept ==
  ASSUME TypeOK, Missed, QuietStep, UNCHANGED ring  PROVE Missed'
<1>0. /\ call \in Calls /\ tok \in Tokenizers /\ ring \in Seq(Alphabet)
      /\ call.consumed \in Nat /\ call.end \in Nat /\ call.p \in Nat /\ KeyStart \in Nat
      /\ MaxKeyBytes \in Nat
  BY TypeFacts, CallFields, SizesAssumption DEF KeyStart
<1>1. CASE call'.key = "none"  BY <1>1 DEF Missed
<1>2. CASE KeyFound
  <2>1. PICK end \in KeyStart .. Total - 1 :
          /\ KeyScanned(end)
          /\ LET raw == Slice(ring, KeyStart, end)
                 empty == [EnsureChars(Here) EXCEPT !.chars = <<>>]
                 key == IF ~Internable(end) THEN "verbatim"
                        ELSE IF raw \in interned THEN "hit" ELSE "miss"
             IN  /\ tok' = [empty EXCEPT !.attempts = IF key = "verbatim" THEN @ ELSE @ + 1,
                                         !.hits = IF key = "hit" THEN @ + 1 ELSE @]
                 /\ call' = [call EXCEPT !.pc = "key", !.key = key, !.end = end,
                                         !.p = IF key = "hit" THEN end ELSE KeyStart,
                                         !.units = IF key = "hit" THEN Units(raw) ELSE 0]
    BY <1>2 DEF KeyFound
  <2> DEFINE empty == [EnsureChars(Here) EXCEPT !.chars = <<>>]
             key == IF ~Internable(end) THEN "verbatim"
                    ELSE IF Slice(ring, KeyStart, end) \in interned THEN "hit" ELSE "miss"
  <2>2. PICK x, y, p, units :
          /\ tok' = [empty EXCEPT !.attempts = x, !.hits = y]
          /\ call' = [call EXCEPT !.pc = "key", !.key = key, !.end = end, !.p = p, !.units = units]
          /\ p = IF key = "hit" THEN end ELSE KeyStart
    BY <2>1
  <2>3. key = "miss" => Internable(end)  OBVIOUS
  <2>4. empty \in Tokenizers /\ empty.chars = <<>>
    <3>1. Here \in Tokenizers /\ <<>> \in Bytes  BY <1>0, HereType DEF Bytes
    <3>2. EnsureChars(Here) \in Tokenizers  BY <3>1, BufferType
    <3> QED  BY <3>1, <3>2, Zenon DEF Tokenizers
  <2> HIDE DEF empty, key
  <2>5. tok'.chars = <<>>  BY <2>2, <2>4, Zenon DEF Tokenizers
  <2>6. call'.key = key /\ call'.end = end /\ call'.p = p /\ call'.consumed = call.consumed
    BY <1>0, <2>2, Zenon DEF Calls
  <2>7. KeyStart' = KeyStart  BY <2>6 DEF KeyStart
  <2>8. CASE key = "miss"
    <3>1. Internable(end) /\ \A i \in KeyStart .. end - 1 : Plain(At(i))
      BY <1>2, <2>1, <2>3, <2>8, FoundIsPlain DEF KeyFound
    <3>2. p = KeyStart /\ end - KeyStart <= MaxKeyBytes  BY <2>2, <2>8, <3>1 DEF Internable
    <3>3. Slice(ring, KeyStart, KeyStart) = <<>>
      BY <1>0 DEF Slice
    <3>4. \A i : At(i)' = At(i)  BY DEF At
    <3> QED  BY <1>0, <2>5, <2>6, <2>7, <3>1, <3>2, <3>3, <3>4 DEF Missed
  <2> QED  BY <2>6, <2>8 DEF Missed
<1>3. CASE KeyGoesOn /\ call.key = "miss"
  <2>1. KeyStart' = KeyStart /\ call'.end = call.end /\ \A i : At(i)' = At(i)
    BY <1>3 DEF KeyGoesOn, KeyStart, At
  <2>2. /\ call.end - KeyStart <= MaxKeyBytes /\ KeyStart <= call.p
        /\ \A i \in KeyStart .. call.end - 1 : Plain(At(i))
        /\ tok.chars = Slice(ring, KeyStart, call.p)
    BY <1>3 DEF Missed
  <2>3. ~KeyEscape
    <3> SUFFICES ASSUME KeyEscape  PROVE FALSE  OBVIOUS
    <3>1. call.p < call.end /\ At(call.p) = Backslash  BY DEF KeyEscape, AtKeyEscape
    <3>2. call.p \in KeyStart .. call.end - 1  BY <1>0, <2>2, <3>1
    <3>3. Plain(At(call.p))  BY <2>2, <3>2
    <3> QED  BY <3>1, <3>3 DEF Plain
  <2>4. CASE tok'.chars = tok.chars /\ call'.p = call.p
    BY <2>1, <2>2, <2>4 DEF Missed
  <2>5. ASSUME NEW q, Copies(q)  PROVE Missed'
    <3>1. q \in Nat /\ call.p <= q /\ q <= Len(ring) /\ KeyStart <= call.p  BY <2>2, <2>5 DEF Copies
    <3>2. Slice(ring, KeyStart, call.p) \o Slice(ring, call.p, q) = Slice(ring, KeyStart, q)
      BY <1>0, <3>1, SliceJoined
    <3>3. KeyStart <= call'.p  BY <1>0, <3>1, <2>5 DEF Copies
    <3> QED  BY <2>1, <2>2, <2>5, <3>2, <3>3 DEF Missed, Copies
  <2> QED  BY <1>3, <2>3, <2>4, <2>5 DEF KeyGoesOn
<1>4. CASE KeyGoesOn /\ call.key # "miss"  BY <1>4 DEF KeyGoesOn, Missed
<1> QED  BY <1>1, <1>2, <1>3, <1>4, KeyReads

\* The symbol table changes only when a key is complete.
LEMMA TableChanges ==
  ASSUME TokenizerStep  PROVE UNCHANGED interned \/ KeyDone
<1>1. CASE StructureStep \/ LiteralStep \/ LoopEnd
  BY <1>1, Zenon DEF StructureStep, LiteralStep, LoopEnd, Refuse, OpenTooDeep, Comma, Colon,
     StartObject, StartArray, EndObject, EndArray, Bracket, Literal, LiteralIncomplete, LiteralWrong
<1>2. CASE NumberStep \/ WhitespaceStep \/ DecodeStep
  BY <1>2 DEF NumberStep, NumberStart, NumberRun, NumberByte, NumberEnd, TakeNumber, NumberWrong,
     WhitespaceStep, Whitespace, ReportWhitespace, DecodeStep, DecodeSlice, PushChar,
     MalformedChar, FlushChars
<1>3. CASE StringStep
  BY <1>3, Zenon DEF StringStep, StringStart, ContinueString, StringRun, StringRunDone, StringPause,
     StringPaused, StringEscape, StringEnd, StringWrong
<1>4. CASE KeyStep
  BY <1>4, Zenon DEF KeyStep, KeyIncomplete, KeyRefused, KeyFound, KeyRun, KeyRunDone, KeyEscape,
     KeyEscapeWrong, KeyDoesNotFit
<1> QED  BY <1>1, <1>2, <1>3, <1>4 DEF TokenizerStep

\* The text of a key that was looked up and not found.
LEMMA MissedText ==
  ASSUME TypeOK, Buffer, Missed, KeyDone, call.key = "miss"
  PROVE  /\ Len(KeyText) <= MaxKeyBytes /\ ValidUtf8(KeyText, 0, Len(KeyText))
         /\ \A i \in DOMAIN KeyText : Plain(KeyText[i])
<1>1. /\ KeyStart \in Nat /\ call.end \in Nat /\ KeyStart <= call.end /\ call.end <= Len(ring)
      /\ call.p = call.end /\ ring \in Seq(Alphabet)
  <2>1. call.pc = "key" /\ call.p = call.end  BY DEF KeyDone
  <2>2. /\ call.consumed \in Nat /\ call.end \in Nat /\ call.consumed < call.end
        /\ call.end <= Len(ring)
    BY <2>1, KeyInRing
  <2> QED  BY <2>1, <2>2, TypeFacts DEF KeyStart
<1>2. /\ KeyText = Slice(ring, KeyStart, call.end) /\ KeyText = tok.chars
      /\ call.end - KeyStart <= MaxKeyBytes
      /\ \A i \in KeyStart .. call.end - 1 : Plain(At(i))
  BY <1>1 DEF Missed, KeyText
<1>3. /\ KeyText \in Seq(Alphabet) /\ Len(KeyText) = call.end - KeyStart
      /\ \A i \in 0 .. call.end - KeyStart - 1 : Byte(KeyText, i) = Byte(ring, KeyStart + i)
  <2> DEFINE text == Slice(ring, KeyStart, call.end)
  <2>1. /\ text \in Seq(Alphabet) /\ Len(text) = call.end - KeyStart
        /\ \A i \in 0 .. call.end - KeyStart - 1 : Byte(text, i) = Byte(ring, KeyStart + i)
    BY <1>1, SliceFacts
  <2>2. KeyText = text  BY <1>2
  <2> HIDE DEF text
  <2> QED  BY <2>1, <2>2
<1>4. ASSUME NEW i \in DOMAIN KeyText  PROVE Plain(KeyText[i])
  <2>1. i \in 1 .. call.end - KeyStart  BY <1>3, LenProperties
  <2>2. /\ i - 1 \in 0 .. call.end - KeyStart - 1 /\ (i - 1) + 1 = i
        /\ KeyStart + (i - 1) \in KeyStart .. call.end - 1
    BY <1>1, <2>1
  <2>3. KeyText[i] = At(KeyStart + (i - 1))  BY <1>3, <2>2 DEF Byte, At
  <2> QED  BY <1>2, <2>2, <2>3
<1>5. Valid(KeyText)  BY <1>2 DEF Buffer
<1> QED  BY <1>2, <1>3, <1>4, <1>5 DEF Valid

\* The keys in the table, with what it takes to count them.
Interned == IsFiniteSet(interned) /\ InternedKeysAreText

\* Every step keeps the table a set of short, plain, whole texts.
LEMMA InternedKept ==
  ASSUME TypeOK, CallState, Fresh, Reading, Buffer, Missed, Interned, [Next]_vars
  PROVE  Missed' /\ Interned'
<1>0. MaxEntries \in Nat  BY SizesAssumption
<1>1. ASSUME UNCHANGED interned  PROVE Interned'
  BY <1>1 DEF Interned, InternedKeysAreText
<1>2. CASE TokenizerStep /\ UNCHANGED <<parser, doc, verdict>>
  <2>1. Missed'
    <3>1. UNCHANGED ring  BY <1>2 DEF TokenizerStep
    <3>2. CASE TokenStep
      <4>1. GoesOn \/ Fails  BY <3>2, TokenMoves DEF ComesOut
      <4> QED  BY <4>1 DEF GoesOn, Fails, Missed
    <3> QED  BY <1>2, <3>1, <3>2, MissedKept, StepKinds
  <2>2. ASSUME KeyDone  PROVE Interned'
    <3>1. CASE call.key = "miss" /\ Cardinality(interned) < MaxEntries
      <4>1. interned' = interned \cup {KeyText}  BY <2>2, <3>1 DEF KeyDone, Put
      <4>2. IsFiniteSet(interned') /\ Cardinality(interned') <= MaxEntries
        <5>1. IsFiniteSet(interned) /\ Cardinality(interned) \in Nat
          BY FS_CardinalityType DEF Interned
        <5>2. /\ IsFiniteSet(interned \cup {KeyText})
              /\ \/ Cardinality(interned \cup {KeyText}) = Cardinality(interned)
                 \/ Cardinality(interned \cup {KeyText}) = Cardinality(interned) + 1
          BY <5>1, FS_AddElement
        <5> QED  BY <1>0, <3>1, <4>1, <5>1, <5>2
      <4>3. /\ Len(KeyText) <= MaxKeyBytes /\ ValidUtf8(KeyText, 0, Len(KeyText))
            /\ \A i \in DOMAIN KeyText : Plain(KeyText[i])
        BY <2>2, <3>1, MissedText
      <4> HIDE DEF KeyText
      <4> QED  BY <4>1, <4>2, <4>3 DEF Interned, InternedKeysAreText
    <3>2. CASE ~(call.key = "miss" /\ Cardinality(interned) < MaxEntries)
      BY <1>1, <2>2, <3>2 DEF KeyDone, Put
    <3> QED  BY <3>1, <3>2
  <2> QED  BY <1>1, <1>2, <2>1, <2>2, TableChanges
<1>3. CASE FeedReturns \/ CloseUnfinished \/ CloseReturns \/ CallerStep \/ UNCHANGED vars
  <2>1. UNCHANGED interned
    BY <1>3 DEF FeedReturns, CloseUnfinished, CloseReturns, CallerStep, Write, Receive,
       ReceiveNothing, Close, CloseEmpty, CloseAgain, SetLimits, SetStringChunkSize,
       SetRejectDuplicateKeys, Reset, Feed, vars
  <2>2. UNCHANGED call \/ call'.key = "none"  BY <1>3, OutsidePlace DEF Outside
  <2>3. call.key # "none" => call.pc \in {"key", "run", "char"}  BY TypeFacts DEF CallInRing
  <2>4. UNCHANGED vars => Missed'  BY DEF vars, Missed, KeyStart, At
  <2>5. UNCHANGED call /\ call.key = "none" => Missed'  BY DEF Missed
  <2>6. call'.key = "none" => Missed'  BY DEF Missed
  <2>7. UNCHANGED vars \/ call.pc \in {"idle", "fed", "finish"}
    BY <1>3 DEF FeedReturns, CloseUnfinished, CloseReturns, CallerStep, Write, Receive,
       ReceiveNothing, Close, CloseEmpty, CloseAgain, SetLimits, SetStringChunkSize,
       SetRejectDuplicateKeys, Reset, Idle
  <2> QED  BY <1>1, <2>1, <2>2, <2>3, <2>4, <2>5, <2>6, <2>7
<1>4. CASE CloseAfterNumber
  <2>1. UNCHANGED interned /\ call'.key = "none"
    BY <1>4 DEF CloseAfterNumber, Judge, Returned
  <2> QED  BY <1>1, <2>1 DEF Missed
<1> QED  BY <1>2, <1>3, <1>4 DEF Next, CallStep

\* However a document is cut into spans and calls, and whatever limit, chunk
\* size or option is changed between two calls, a key in the symbol table is
\* whole, valid UTF-8 text that needs no unescaping: a key that is found by
\* its raw bytes is the text that decoding them would give.
THEOREM KeysInTheTable == Spec => []InternedKeysAreText
<1>1. Init => Missed /\ Interned
  <2> SUFFICES ASSUME Init  PROVE Missed /\ Interned  OBVIOUS
  <2>1. interned = {} /\ call.key = "none"  BY DEF Init, Returned
  <2>2. IsFiniteSet({}) /\ Cardinality({}) = 0 /\ 0 <= MaxEntries
    BY FS_EmptySet, SizesAssumption
  <2> QED  BY <2>1, <2>2 DEF Missed, Interned, InternedKeysAreText
<1>2. Interned => InternedKeysAreText  BY DEF Interned
<1> QED
  BY <1>1, <1>2, InternedKept, BufferAlways, TypeCorrect, CallStateHolds, ReadingHolds, PTL DEF Spec
==============================================================================
