------------------------------- MODULE Parser -------------------------------
(***************************************************************************)
(* parser.rs: the push parser and the caller of its API.  The caller owns  *)
(* the ring: it writes bytes into it, calls receive, and in the end close. *)
(* A call is one step that sets it going (Receive, Close), the steps of    *)
(* the tokenizer (Tokenizer.tla), and one that returns (FeedReturns,       *)
(* CloseReturns).  Between calls the caller may change the settings or     *)
(* reset the parser.                                                       *)
(***************************************************************************)
EXTENDS Tokenizer

CONSTANTS
  Capacity,         \* the ring's capacity
  MaxDoc,           \* bound: the length of the longest document written
  Written,          \* bound: the documents the caller may write, and their beginnings
  MayWrap,          \* whether the ring may hand its bytes over as two spans
  LimitChoices,     \* set_limits arguments
  ChunkSizes,       \* set_string_chunk_size arguments, the default included
  Rejecting,        \* set_reject_duplicate_keys arguments
  MayReconfigure,   \* whether the settings may change once they are chosen
  MayReset,         \* whether the caller may reset the parser
  RetryAfterError   \* whether the caller goes on after a call returned Err

ASSUME SizesAssumption ==
  /\ Capacity \in Nat \ {0} /\ MaxDoc \in Nat
  /\ MinRoom \in Nat /\ MinRoom >= 4
  /\ ChunkSizes \subseteq Nat /\ ChunkSizes # {} /\ \A n \in ChunkSizes : n >= MinRoom
  /\ MaxKeyBytes \in Nat /\ MaxEntries \in Nat /\ InternThreshold \in Nat

ASSUME BytesAssumption ==
  /\ Alphabet \subseteq Symbols
  /\ DOMAIN Literals \subseteq {"t", "f", "n"}
  /\ \A b \in DOMAIN Literals : Literals[b] \in Seq({"r", "u", "e", "a", "l", "s"})

ASSUME ChoicesAssumption ==
  /\ {NeedsWhitespace, MayWrap, MayReconfigure, MayReset, RetryAfterError} \subseteq BOOLEAN
  /\ Refusable \subseteq Callbacks
  /\ Rejecting \subseteq BOOLEAN /\ Rejecting # {}

VARIABLES
  parser,   \* the other fields of struct Parser
  doc,      \* history: the bytes written since the parser was last reset
  verdict   \* history: "open", "accepted" by close, or the first error

vars == <<ring, tok, loc, call, limits, interned, events, parser, doc, verdict>>

LimitNames == {"max_nesting_depth", "max_number_length", "max_string_length",
               "max_name_length", "max_document_length", "max_token_count"}

Unlimited == [name \in LimitNames |-> NoLimit]

ASSUME LimitsAssumption == LimitChoices \subseteq [LimitNames -> Nat \cup {NoLimit}]

NewParser(reject, chunk) ==
  [checked_bom |-> FALSE, closed |-> FALSE, document_length |-> 0, unconsumed |-> 0,
   underflow |-> FALSE, live |-> FALSE,  \* whether there is a tokenizer
   reject_duplicate_keys |-> reject, string_chunk_size |-> chunk]

Init ==
  /\ ring = <<>> /\ doc = <<>> /\ events = <<>>
  /\ loc = NewLocator
  /\ call = Returned("none", "none")
  /\ limits \in LimitChoices
  /\ interned = {}
  /\ verdict = "open"
  /\ \E reject \in Rejecting, chunk \in ChunkSizes :
       /\ parser = NewParser(reject, chunk)
       /\ tok = NewTokenizer(reject, chunk)

Idle == call.pc = "idle"
MayGoOn == verdict = "open" \/ RetryAfterError

-----------------------------------------------------------------------------
(* The caller                                                              *)

\* The caller writes one byte into the ring's spare capacity.
Write ==
  /\ Idle /\ MayGoOn /\ ~parser.closed
  /\ Len(ring) < Capacity /\ Len(doc) < MaxDoc
  /\ \E b \in Alphabet :
       /\ Append(doc, b) \in Written
       /\ ring' = Append(ring, b) /\ doc' = Append(doc, b)
  /\ UNCHANGED <<tok, loc, call, limits, interned, events, parser, verdict>>

SetLimits ==
  /\ Idle /\ MayReconfigure
  /\ limits' \in LimitChoices
  /\ UNCHANGED <<ring, tok, loc, call, interned, events, parser, doc, verdict>>

\* The tokenizer, if there is one, is told at once.
SetStringChunkSize ==
  /\ Idle /\ MayReconfigure
  /\ \E n \in ChunkSizes :
       /\ parser' = [parser EXCEPT !.string_chunk_size = n]
       /\ tok' = IF parser.live THEN [tok EXCEPT !.chunk_size = n] ELSE tok
  /\ UNCHANGED <<ring, loc, call, limits, interned, events, doc, verdict>>

\* Mutant: the setting reaches a tokenizer that is in use.
SetRejectAtOnce ==
  /\ Idle /\ MayReconfigure
  /\ \E reject \in Rejecting :
       /\ parser' = [parser EXCEPT !.reject_duplicate_keys = reject]
       /\ tok' = [tok EXCEPT !.reject_duplicate_keys = reject]
  /\ UNCHANGED <<ring, loc, call, limits, interned, events, doc, verdict>>

\* The tokenizer, if there is one, keeps the setting it was created with.
SetRejectDuplicateKeys ==
  /\ Idle /\ MayReconfigure
  /\ \E reject \in Rejecting : parser' = [parser EXCEPT !.reject_duplicate_keys = reject]
  /\ UNCHANGED <<ring, tok, loc, call, limits, interned, events, doc, verdict>>

\* The ring is the caller's: what it keeps in it begins the next document.
Reset ==
  /\ Idle /\ MayReset
  /\ parser' = NewParser(parser.reject_duplicate_keys, parser.string_chunk_size)
  /\ tok' = NewTokenizer(parser.reject_duplicate_keys, parser.string_chunk_size)
  /\ loc' = NewLocator
  /\ call' = Returned("none", "none")
  /\ events' = <<>> /\ verdict' = "open"
  /\ \E kept \in {ring, <<>>} : ring' = kept /\ doc' = kept
  /\ UNCHANGED <<limits, interned>>

-----------------------------------------------------------------------------
(* feed and process                                                        *)

\* Mutant: bytes presented again are counted again.
FreshBytesAll == Len(ring)

\* The bytes of the ring that no earlier call has counted.
FreshBytes == IF Len(ring) > parser.unconsumed THEN Len(ring) - parser.unconsumed ELSE 0

DocumentLength ==
  IF limits.max_document_length = NoLimit THEN parser.document_length
  ELSE parser.document_length + FreshBytes

DocumentTooLong ==
  limits.max_document_length # NoLimit /\ DocumentLength > limits.max_document_length

\* feed up to the tokenizer: count the new bytes, check for the byte order
\* mark, create the tokenizer, and hand it the ring as two spans.
Feed(op) ==
  LET counted == [parser EXCEPT !.document_length = DocumentLength]
      bom == IF parser.checked_bom THEN 0 ELSE ByteOrderMark(ring)
      skipped == IF bom < 0 \/ DocumentTooLong THEN 0 ELSE bom
      started == [Returned(op, "none") EXCEPT !.pc = "loop", !.consumed = skipped]
      live == ~DocumentTooLong /\ bom >= 0
  IN  /\ parser' = IF live THEN [counted EXCEPT !.checked_bom = TRUE, !.live = TRUE,
                                              !.closed = @ \/ op = "close"]
                   ELSE [counted EXCEPT !.closed = @ \/ op = "close"]
      /\ tok' = IF live /\ ~parser.live
                  THEN NewTokenizer(parser.reject_duplicate_keys, parser.string_chunk_size)
                  ELSE tok
      /\ \E wrap \in IF MayWrap THEN 1 .. Len(ring) ELSE {Len(ring)} :
           call' = IF DocumentTooLong THEN [started EXCEPT !.pc = "fed", !.error = "limit"]
                   ELSE IF bom = Bad THEN [started EXCEPT !.pc = "fed", !.error = "syntax"]
                   ELSE IF bom = More THEN [started EXCEPT !.pc = "fed"]
                   ELSE [started EXCEPT !.wrap = wrap]
      /\ UNCHANGED <<ring, loc, limits, interned, events, doc, verdict>>

\* The first error decides the verdict on the document.
Judged(error) == IF verdict = "open" THEN error ELSE verdict

Receive == Idle /\ MayGoOn /\ ~parser.closed /\ ring # <<>> /\ Feed("receive")

\* Nothing to feed, or nothing may be fed any more.
ReceiveNothing ==
  /\ Idle /\ MayGoOn
  /\ \/ parser.closed /\ call' = Returned("receive", "closed")
     \/ ~parser.closed /\ ring = <<>> /\ call' = Returned("receive", "none")
  /\ UNCHANGED <<ring, tok, loc, limits, interned, events, parser, doc, verdict>>

\* Mutants: a full ring is too small even when some of it was consumed; the
\* ring would have to hold more than it can.
TooSmallWhenFull == call.op = "receive" /\ Len(ring) = Capacity
TooSmallWhenFuller == call.op = "receive" /\ call.consumed = 0 /\ Len(ring) > Capacity

TooSmall == call.op = "receive" /\ call.consumed = 0 /\ Len(ring) = Capacity

\* Mutant: nothing is released from the ring when the call fails.
FeedReturnsUnreleased ==
  /\ call.pc = "fed"
  /\ LET left == Total - call.consumed
     IN  \/ /\ call.error # "none"
            /\ call' = Returned(call.op, call.error)
            /\ verdict' = Judged(call.error)
            /\ UNCHANGED <<parser, ring>>
         \/ /\ call.error = "none"
            /\ parser' = [parser EXCEPT !.unconsumed = left, !.underflow = left > 0]
            /\ call' = Returned(call.op, "none")
            /\ ring' = Slice(ring, call.consumed, Total)
            /\ UNCHANGED verdict
  /\ UNCHANGED <<tok, loc, limits, interned, events, doc>>

\* What was consumed is released, even after an error.  unconsumed and
\* underflow are brought up to date only without one.
FeedReturns ==
  /\ call.pc = "fed"
  /\ ring' = Slice(ring, call.consumed, Total)
  /\ LET left == Total - call.consumed
     IN  \/ /\ call.error # "none"
            /\ call' = Returned(call.op, call.error)
            /\ verdict' = Judged(call.error)
            /\ UNCHANGED parser
         \/ /\ call.error = "none"
            /\ parser' = [parser EXCEPT !.unconsumed = left, !.underflow = left > 0]
            /\ \/ TooSmall /\ call' = Returned("receive", "small") /\ verdict' = Judged("small")
               \/ ~TooSmall /\ call.op = "receive" /\ call' = Returned("receive", "none")
                  /\ UNCHANGED verdict
               \/ call.op = "close" /\ call' = [Returned("close", "none") EXCEPT !.pc = "finish"]
                  /\ UNCHANGED verdict
  /\ UNCHANGED <<tok, loc, limits, interned, events, doc>>

-----------------------------------------------------------------------------
(* close                                                                   *)

\* Bytes in the ring are given their chance first.
Close == Idle /\ MayGoOn /\ ~parser.closed /\ ring # <<>> /\ Feed("close")

CloseEmpty ==
  /\ Idle /\ MayGoOn /\ ~parser.closed /\ ring = <<>>
  /\ parser' = [parser EXCEPT !.closed = TRUE]
  /\ call' = [Returned("close", "none") EXCEPT !.pc = "finish"]
  /\ UNCHANGED <<ring, tok, loc, limits, interned, events, doc, verdict>>

\* A second close reports success, whatever the first one did.
CloseAgain ==
  /\ Idle /\ parser.closed
  /\ call' = Returned("close", "none")
  /\ UNCHANGED <<ring, tok, loc, limits, interned, events, parser, doc, verdict>>

Unfinished ==
  ~parser.live \/ ring # <<>> \/ tok.in_string \/ tok.stage \notin CompleteStages \cup {"None"}

Judge(result) ==
  /\ call' = Returned("close", IF result = "accepted" THEN "none" ELSE result)
  /\ verdict' = Judged(result)

CloseUnfinished ==
  /\ call.pc = "finish" /\ Unfinished
  /\ Judge("syntax")
  /\ UNCHANGED <<ring, tok, loc, limits, interned, events, parser, doc>>

\* What end_of_input leaves is a document if it has a token and no open nest.
Complete == IF tok.seen_any_token /\ tok.depth_stack = <<>> THEN "accepted" ELSE "syntax"

CloseReturns ==
  /\ call.pc = "finish" /\ ~Unfinished /\ tok.stage = "None"
  /\ Judge(Complete)
  /\ UNCHANGED <<ring, tok, loc, limits, interned, events, parser, doc>>

\* A number that the end of the input ends is reported first.
CloseAfterNumber ==
  /\ call.pc = "finish" /\ ~Unfinished /\ tok.stage # "None"
  /\ loc' = Right(tok.length)
  /\ Notify("number_value", tok.number, loc')
  /\ tok' = [tok EXCEPT !.stage = "None", !.state = "AfterValue"]
  /\ \/ "number_value" \in Refusable /\ Judge("handler")
     \/ Judge(Complete)
  /\ UNCHANGED <<ring, limits, interned, parser, doc>>

-----------------------------------------------------------------------------
CallStep ==
  \/ TokenizerStep /\ UNCHANGED <<parser, doc, verdict>>
  \/ FeedReturns \/ CloseUnfinished \/ CloseReturns \/ CloseAfterNumber

CallerStep ==
  \/ Write \/ Receive \/ ReceiveNothing \/ Close \/ CloseEmpty \/ CloseAgain
  \/ SetLimits \/ SetStringChunkSize \/ SetRejectDuplicateKeys \/ Reset

Next == CallStep \/ CallerStep

\* A call that has begun runs until it returns; the caller may stop anywhere.
Spec == Init /\ [][Next]_vars /\ WF_vars(CallStep)
==============================================================================
