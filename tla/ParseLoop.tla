------------------------------ MODULE ParseLoop ------------------------------
(***************************************************************************)
(* parser.rs parse(): the caller of receive and close that the library     *)
(* itself provides.  It reads from a source into a ring of its own, which  *)
(* may deliver as few bytes as it likes and fail at any read, and hands    *)
(* the ring to receive after each of them, until the source ends.  Each    *)
(* step of the loop is one of the caller in Parser, under the control of   *)
(* `stage'.                                                                *)
(***************************************************************************)
EXTENDS Parser

VARIABLES
  stage,    \* where parse is: "out" of it, or
            \* "read", "filling", "receiving", "closing" in it
  outcome   \* what it returned: "none" yet, "ok", "io", or an error of the parser

loopVars == <<vars, stage, outcome>>

ParseInit == Init /\ stage = "out" /\ outcome = "none"

\* parse begins: the parser is reset, the ring is new.
Parse ==
  /\ stage = "out"
  /\ Reset /\ ring' = <<>>
  /\ stage' = "read" /\ outcome' = "none"

\* The source delivers one more byte of a read into the spare capacity.
ReadByte ==
  /\ stage \in {"read", "filling"}
  /\ Write
  /\ stage' = "filling" /\ UNCHANGED outcome

\* The read returns the bytes it has got.
ReadReturns ==
  /\ stage = "filling"
  /\ Receive
  /\ stage' = "receiving" /\ UNCHANGED outcome

\* An error ends parse at once: close is not called, nothing more is read.
ReceiveReturns ==
  /\ stage = "receiving" /\ Idle
  /\ \/ call.error = "none" /\ stage' = "read" /\ UNCHANGED outcome
     \/ call.error # "none" /\ stage' = "out" /\ outcome' = call.error
  /\ UNCHANGED vars

\* Mutant: the end of the source is the end of parse.
ReadEndsParse ==
  /\ stage = "read" /\ Len(ring) < Capacity
  /\ stage' = "out" /\ outcome' = "ok"
  /\ UNCHANGED vars

\* A read of no bytes is the end of the source, if there was room for any.
ReadEnds ==
  /\ stage = "read" /\ Len(ring) < Capacity
  /\ Close \/ CloseEmpty
  /\ stage' = "closing" /\ UNCHANGED outcome

ReadFails ==
  /\ stage = "read"
  /\ stage' = "out" /\ outcome' = "io"
  /\ UNCHANGED vars

CloseReturned ==
  /\ stage = "closing" /\ Idle
  /\ stage' = "out"
  /\ outcome' = IF call.error = "none" THEN "ok" ELSE call.error
  /\ UNCHANGED vars

\* Between two calls of parse the settings may change.
Configure ==
  /\ stage = "out"
  /\ SetLimits \/ SetStringChunkSize \/ SetRejectDuplicateKeys
  /\ UNCHANGED <<stage, outcome>>

CallRuns == CallStep /\ UNCHANGED <<stage, outcome>>

\* What parse does by itself with a source whose reads return.
LoopRuns == ReadByte \/ ReadReturns \/ ReceiveReturns \/ ReadEnds \/ CloseReturned

ParseNext == Parse \/ Configure \/ CallRuns \/ LoopRuns \/ ReadFails

\* parse runs on until it returns; whether it is called is up to the caller,
\* and no read has to fail.
ParseSpec ==
  ParseInit /\ [][ParseNext]_loopVars /\ WF_loopVars(CallRuns) /\ WF_loopVars(LoopRuns)
==============================================================================
