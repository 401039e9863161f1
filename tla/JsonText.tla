------------------------------ MODULE JsonText ------------------------------
(***************************************************************************)
(* What the parser promises, written without it: the JSON documents of at  *)
(* most MaxText bytes over TextBytes, generated from the grammar of RFC 8259 *)
(* together with the events a reader of each should see.  A document is a  *)
(* pair <<bytes, events>>; an event is <<name, text>>.                     *)
(***************************************************************************)
EXTENDS Lexemes, Functions

CONSTANTS
  TextBytes,    \* the bytes documents are made of
  BodyBytes,    \* the bytes strings and keys are made of, outside escapes
  EscapeBytes,  \* the bytes escapes are made of
  MaxText       \* bound: the length of the longest document

\* The texts of length n whose bytes are all in B.
Words(B, n) == [1 .. n -> B \cap TextBytes]

Silent(texts) == {<<t, <<>>>> : t \in texts}
Reports(ev, texts) == {<<t, <<<<ev, t>>>>>> : t \in texts}
Mark(b, seen) == IF b \in TextBytes THEN {<<<<b>>, seen>>} ELSE {}

Then(A, B) == {<<a[1] \o b[1], a[2] \o b[2]>> : a \in A, b \in B}

-----------------------------------------------------------------------------
Spaces(n) == Silent(Words(Whitespaces, n))

AllIn(s, S) == \A i \in DOMAIN s : s[i] \in S
NonZero == Digits \ {"0"}

IsInteger(s) == s = <<"0">> \/ (s # <<>> /\ s[1] \in NonZero /\ AllIn(s, Digits))
IsFraction(s) == s = <<>> \/ (Len(s) > 1 /\ s[1] = "." /\ AllIn(Tail(s), Digits))
IsExponent(s) ==
  \/ s = <<>>
  \/ s[1] = "e" /\ LET t == IF Len(s) > 1 /\ s[2] \in {"+", "-"} THEN SubSeq(s, 3, Len(s)) ELSE Tail(s)
                   IN  t # <<>> /\ AllIn(t, Digits)

IsNumber(s) ==
  LET t == IF s # <<>> /\ s[1] = "-" THEN Tail(s) ELSE s
  IN  \E i \in 1 .. Len(t), j \in 1 .. Len(t) :
        /\ i <= j
        /\ IsInteger(SubSeq(t, 1, i))
        /\ IsFraction(SubSeq(t, i + 1, j))
        /\ IsExponent(SubSeq(t, j + 1, Len(t)))

Numbers(n) ==
  Reports("number_value", {s \in Words(Digits \cup {"-", "+", ".", "e"}, n) : IsNumber(s)})

LiteralTexts(n) ==
  {<<<<b>> \o Literals[b], <<<<"literal", <<b>>>>>>>> :
     b \in {c \in DOMAIN Literals \cap TextBytes : Len(Literals[c]) = n - 1}}

-----------------------------------------------------------------------------
\* The items of a string body: the bytes of one character or escape, with the
\* UTF-8 it stands for.  A surrogate without its partner stands for U+FFFD.
Characters ==
  {<<<<b>>, <<b>>>> : b \in {c \in BodyBytes : Plain(c) /\ Ascii(c)}}
  \cup {<<s, s>> : s \in UNION {{w \in Words(BodyBytes \cap (Leads \cup Continuations), n) :
                                   /\ w[1] \in Leads /\ LeadLength[w[1]] = n
                                   /\ \A k \in 2 .. n : w[k] \in Continuations
                                   /\ ~OverlongAt(w, 0, n)} : n \in 2 .. 4}}

Escapes ==
  LET U(h) == <<Backslash, "u", h>>
      pair == U("D83D") \o U("DE00")
      all == {<<<<Backslash, c>>, <<Unescaped(c)>>>> : c \in SimpleEscapes}
             \cup {<<U("20AC"), <<"E2", "82", "AC">>>>, <<U("0000"), <<"00">>>>, <<pair, <<"F0", "9F", "98", "80">>>>,
                   <<U("D83D"), <<"EF", "BF", "BD">>>>, <<U("DE00"), <<"EF", "BF", "BD">>>>}
  IN  {e \in all : AllIn(e[1], EscapeBytes)}

EndsInHigh(s) == Len(s) > 2 /\ SubSeq(s, Len(s) - 2, Len(s)) = <<Backslash, "u", "D83D">>
BeginsWithLow(s) == Len(s) > 2 /\ SubSeq(s, 1, 3) = <<Backslash, "u", "DE00">>

\* The bodies of length n, from the sequence of the sets of shorter ones: those
\* that leave room for two quotes.  An escaped pair is one item, never two.  U+FFFD for the first half is told
\* from the pair by what follows it.
Bodies(shorter, n) ==
  IF n > MaxText - 2 THEN {} ELSE
  UNION {{<<b[1] \o i[1], b[2] \o i[2]>> :
            b \in {c \in shorter[n - Len(i[1]) + 1] : ~(EndsInHigh(c[1]) /\ BeginsWithLow(i[1]))}} :
         i \in {j \in Characters \cup Escapes : Len(j[1]) <= n}}

\* The bodies in quotes, reported as `ev'.
Quoted(ev, bodies) ==
  IF Quote \notin TextBytes THEN {}
  ELSE {<<<<Quote>> \o b[1] \o <<Quote>>, <<<<ev, b[2]>>>>>> : b \in bodies}

-----------------------------------------------------------------------------
(* Values, and lists of them, by length.                                   *)

Lookup(S, i) == IF i \in 0 .. Len(S) - 1 THEN S[i + 1] ELSE {}

Padded(g, n) ==
  UNION {UNION {Then(Then(Lookup(g.spaces, i), Lookup(g.values, j)), Lookup(g.spaces, n - i - j)) :
                j \in 0 .. n - i} : i \in 0 .. n}

\* One more item of length n - 1 - i after a comma, or the first.
Listed(items, lists, n) ==
  Lookup(items, n) \cup
  UNION {Then(Then(Lookup(lists, i), Mark(",", <<>>)), Lookup(items, n - 1 - i)) : i \in 0 .. n - 1}

Member(g, n) ==
  UNION {UNION {UNION {Then(Then(Then(Then(Lookup(g.spaces, i), Lookup(g.keys, j)), Lookup(g.spaces, k)),
                                 Mark(":", <<>>)),
                            Lookup(g.element, n - 1 - i - j - k)) : k \in 0 .. n - 1 - i - j} :
                j \in 0 .. n - 1 - i} : i \in 0 .. n - 1}

Nest(left, right, opened, closed, contents) ==
  Then(Then(Mark(left, <<<<opened, <<>>>>>>), contents), Mark(right, <<<<closed, <<>>>>>>))

Arrays(g, n) ==
  Nest("[", "]", "start_array", "end_array", Lookup(g.spaces, n - 2) \cup Lookup(g.elements, n - 2))

Objects(g, n) ==
  Nest("{", "}", "start_object", "end_object", Lookup(g.spaces, n - 2) \cup Lookup(g.members, n - 2))

\* The sets of texts of length 0, 1, ..., n, in sequences: an element is a
\* padded value, elements and members are lists.
Generated[n \in 0 .. MaxText] ==
  IF n = 0
    THEN [name \in {"spaces", "bodies", "keys", "values", "element", "member", "elements", "members"} |->
            IF name \in {"spaces", "bodies"} THEN <<{<<<<>>, <<>>>>}>> ELSE <<{}>>]
  ELSE LET shorter == Generated[n - 1]
           quoted == Lookup(shorter.bodies, n - 2)
           values == Numbers(n) \cup LiteralTexts(n) \cup Quoted("string", quoted)
                     \cup Arrays(shorter, n) \cup Objects(shorter, n)
           words == [shorter EXCEPT !.spaces = Append(@, Spaces(n)),
                                    !.bodies = Append(@, Bodies(@, n)),
                                    !.keys = Append(@, Quoted("key", quoted)),
                                    !.values = Append(@, values)]
           items == [words EXCEPT !.element = Append(@, Padded(words, n)),
                                  !.member = Append(@, Member(words, n))]
       IN  [items EXCEPT !.elements = Append(@, Listed(items.element, @, n)),
                         !.members = Append(@, Listed(items.member, @, n))]

\* A byte order mark may come first.
JsonDocuments ==
  LET texts == UNION Range(Generated[MaxText].element)
      mark == <<"EF", "BB", "BF">>
  IN  texts \cup {<<mark \o d[1], d[2]>> :
                    d \in {t \in texts : AllIn(mark, TextBytes) /\ Len(t[1]) + 3 <= MaxText}}

\* The beginnings of documents.
Beginnings == UNION {{SubSeq(d[1], 1, n) : n \in 0 .. Len(d[1])} : d \in JsonDocuments}

\* Whatever can still become a document, and one byte more.
NearlyJson == {Append(text, b) : text \in {t \in Beginnings : Len(t) < MaxText}, b \in TextBytes}
==============================================================================
