--------------------------- MODULE ParseProperties ---------------------------
(***************************************************************************)
(* What the caller of parse() may rely on.                                 *)
(***************************************************************************)
EXTENDS ParseLoop, ParserLanguage

\* When parse comes to read, the ring has room: the loop's own check for a
\* ring without any never reports anything (parser.rs: "this is not reached").
RingHasSpare == stage = "read" => Len(ring) < Capacity

\* parse says Ok of a source exactly when all of it is a JSON document, and
\* the handler has then seen what is in it; it blames the syntax only of bytes
\* that begin no document, or are none at the end of the source, whatever the
\* earlier documents left behind.
ParseIsExact ==
  stage = "out" =>
    /\ outcome = "ok" => <<doc, Observed>> \in Documents
    /\ outcome = "syntax" => doc \notin (IF parser.closed THEN Texts ELSE BeginningsOfTexts)
    /\ outcome = "small" => Len(ring) = Capacity
    /\ outcome # "closed"

\* parse returns, whatever the sizes of the reads are (fairness: a read
\* returns, and a call that has begun runs).
ParseEnds == stage # "out" ~> stage = "out"
==============================================================================
