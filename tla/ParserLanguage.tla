--------------------------- MODULE ParserLanguage ---------------------------
(***************************************************************************)
(* What the parser accepts and reports, against the grammar of JsonText.   *)
(***************************************************************************)
EXTENDS ParserProperties, SequencesExt

CONSTANT Documents  \* the JSON documents the caller may write: pairs <<bytes, events>>

Texts == {d[1] : d \in Documents}
BeginningsOfTexts == UNION {{SubSeq(t, 1, n) : n \in 0 .. Len(t)} : t \in Texts}

\* The handler's view of its callbacks: the pieces of a string value joined
\* into one event, whitespace left out.
Observe(log, e) ==
  IF e.ev = "start_string_value" THEN Append(log, <<"string", <<>>>>)
  ELSE IF e.ev = "string_value_content"
    THEN [log EXCEPT ![Len(log)] = <<@[1], @[2] \o e.text>>]
  ELSE IF e.ev \in {"end_string_value", "whitespace"} THEN log
  ELSE Append(log, <<e.ev, e.text>>)

Observed == FoldLeft(Observe, <<>>, events)

\* However the document was cut into calls and whatever spans the ring made
\* of it: what close accepts is a JSON document, and the handler saw exactly
\* what is in it (tokenizer.rs receive, parser.rs close).
AcceptedIsJson ==
  verdict = "accepted" => <<doc, Observed>> \in Documents

\* A document is only refused for its syntax when it really is not JSON; by
\* receive, only when nothing written after it could make it JSON.
RefusedIsNotJson ==
  verdict = "syntax" => doc \notin (IF parser.closed THEN Texts ELSE BeginningsOfTexts)

-----------------------------------------------------------------------------
(* What the limits allow, measured on a document d = <<bytes, events>>.  No *)
(* comma or colon is used inside strings.                                  *)

Numbered(d, names) == {i \in DOMAIN d[2] : d[2][i][1] \in names}

Depth(d, n) ==
  Cardinality({i \in Numbered(d, {"start_object", "start_array"}) : i <= n})
  - Cardinality({i \in Numbered(d, {"end_object", "end_array"}) : i <= n})

TokenCount(d) == Len(d[2]) + Cardinality({i \in DOMAIN d[1] : d[1][i] \in {",", ":"}})

\* The raw bytes between the quotes of the k-th string or key of the text.
QuotedLength(text, k) ==
  LET quotes == {i \in DOMAIN text : text[i] = Quote /\ ~Skipped(text, 0, i - 1)}
      Nth(n) == CHOOSE i \in quotes : Cardinality({j \in quotes : j <= i}) = n
  IN  Nth(2 * k) - Nth(2 * k - 1) - 1

\* The length of the token of callback i.
TokenLength(d, i) ==
  IF d[2][i][1] = "number_value" THEN Len(d[2][i][2])
  ELSE QuotedLength(d[1], Cardinality({j \in Numbered(d, {"string", "key"}) : j <= i}))

Allows(name, n) == limits[name] = NoLimit \/ n <= limits[name]

\* The one length that no limit is compared with: the first byte of a number is
\* taken without a check (process_token), so a number of one byte passes even
\* a max_number_length of 0.
NumberAllowed(length) == length = 1 \/ Allows("max_number_length", length)

WithinLimits(d) ==
  /\ Allows("max_document_length", Len(d[1]))
  /\ Allows("max_token_count", TokenCount(d))
  /\ \A i \in DOMAIN d[2] : Allows("max_nesting_depth", Depth(d, i))
  /\ \A i \in Numbered(d, {"string"}) : Allows("max_string_length", TokenLength(d, i))
  /\ \A i \in Numbered(d, {"key"}) : Allows("max_name_length", TokenLength(d, i))
  /\ \A i \in Numbered(d, {"number_value"}) : NumberAllowed(TokenLength(d, i))

\* No document passes that exceeds a limit, however it is cut into calls; only
\* a number of one byte passes a max_number_length of 0 (limits.rs speaks of
\* "the most characters in one number token").
AcceptedIsWithinLimits == verdict = "accepted" => WithinLimits(<<doc, Observed>>)

\* A limit refuses a document only once no way to go on with it is within the
\* limits: an early refusal, before a token is complete, is never wrong, nor is
\* one of a number for which 0 characters are allowed and one is let through.
LimitRefusesOnlyExcess ==
  verdict = "limit" =>
    \A d \in Documents :
      Len(d[1]) >= Len(doc) /\ SubSeq(d[1], 1, Len(doc)) = doc => ~WithinLimits(d)
==============================================================================
