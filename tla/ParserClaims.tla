---------------------------- MODULE ParserClaims ----------------------------
(***************************************************************************)
(* A sentence of the documentation that the code does not keep in every    *)
(* case, stated here as it is written there; its run finds the case.       *)
(***************************************************************************)
EXTENDS ParserProperties

\* The locator, read in a callback, is where the event ends (locator.rs), for
\* a piece of a string value too: after the bytes decoded into the piece.
ContentEndsAtLocator ==
  [][ events' # events /\ events' # <<>> /\ events'[Len(events')].ev = "string_value_content"
      => LET e == events'[Len(events')]
             decoded == IF call.pc \in {"run", "char"} THEN call.p ELSE call.consumed
         IN  [line |-> e.line, column |-> e.column] = PositionAt(Len(doc) - Len(ring) + decoded) ]_vars
==============================================================================
