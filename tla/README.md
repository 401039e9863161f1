# Verification of rjsonparser

TLA+ specifications of rjsonparser's streaming JSON parser, checked with TLC on small instances, and
theorems about them proved with TLAPS. Paths below are relative to the repository; `tokenizer.rs` is
`src/tokenizer.rs`, and so on.

## The system

rjsonparser is a push parser. The caller owns a ring buffer (`loopbuf::LoopBuf`), writes bytes into it,
and calls `Parser::receive`; the tokenizer scans the ring and calls a `ContentHandler`; what it cannot
use yet stays in the ring for the next call. `close` ends the document. There are no threads: what is
hard is that **any byte may be the last one of a call**, that the ring hands its bytes over in two pieces
that part anywhere, that the text of a string goes through one small buffer that is flushed in the
middle of things, that any callback may return an error, and that the caller may change settings, go on
after an error, or reset, between any two calls.

| component | source | state | operations | interacts with | what makes it correct |
|---|---|---|---|---|---|
| Push parser | `parser.rs` | `checked_bom`, `closed`, `document_length`, `unconsumed`, `underflow`, settings, the tokenizer if there is one | `receive`, `close`, `reset`, setters, `parse` | calls the tokenizer, releases consumed bytes from the ring | a document is accepted iff it is JSON and within the limits, however it is cut; bytes counted once; every leftover is one unfinished token |
| Tokenizer | `tokenizer.rs` | grammar state, context / depth / duplicate-key stacks, number in progress, string in progress, character buffer, key interning counters | `receive` (one step per token), `end_of_input` | calls the handler, moves the locator, uses the symbol table and the limits | the three stacks agree; text is decoded right across every cut; callbacks in order; every loop ends |
| Limits | `limits.rs` | six optional numbers | read by parser and tokenizer | | nothing beyond a limit is accepted (a number of one byte apart), nothing within it refused |
| Locator | `locator.rs` | line, column | set by the tokenizer, read by the handler | shared with the handler | between calls and in callbacks, the position of the end of the token |
| Content handler | `handler.rs` | the application's | twelve callbacks, each may fail | called by the tokenizer | (its contract) callbacks nest and alternate legally |
| Key symbol table | `keys.rs` | `slots`, `mask`, `size`; kept over `reset` | `lookup`, `put`, `grow` | used by the tokenizer for keys | it is the set of its keys, whatever their hashes; no probe goes round for ever |
| Number values | `tokenizer.rs` 60-310, `number.rs` | `NumberState`: mantissa, shift, digits, exponent | digit by digit in two paths, `emit_number` | tokenizer | no overflow; exact integers in the right kind; the nearest decimal for reals |
| `parse` | `parser.rs` 339-368 | a ring of its own | read, `receive`, `close` | `Read` source | every byte is fed, the first error ends it, it returns |
| Writer | `writer.rs` | `state`, `depth`, `indent` | eleven `write_*` calls on a bounded ring, `reset` | the caller's ring; a handler may drive it | a write appends a whole token or nothing, so the application may drain and repeat it |
| Input ring | crate `loopbuf` | bytes, capacity | write, `spans`, `advance` | caller, parser, writer | external |
| Errors, crate surface | `error.rs`, `lib.rs` | none | | | |

The hazards this code is exposed to, with the line where each one bites and the properties that guard it,
are listed in `PROJECT.json` under `hazards`, with the reason where none does.

## The modules

    Lexemes            bytes, characters, escapes, numbers' stages, byte order marks
      ├ Tokenizer      struct Tokenizer and its receive, step by step
      │   └ Parser     struct Parser, the calls, and the caller of the API: Init, Next, Spec
      │       ├ ParserProperties   types, invariants, action properties, liveness
      │       │   ├ ParserLanguage     what is accepted, against JsonText
      │       │   ├ ParserClaims       a sentence of the documentation that does not always hold
      │       │   └ ParserProofs → StackProofs → TextProofs → HandlerProofs   theorems
      │       └ ParseLoop          parse() as Parser's caller: ParseSpec
      │           └ ParseProperties      (with HandlerProofs →) CallerProofs   theorems
      └ Writer         struct Writer, its ring and an application: Spec
          └ WriterProperties → WriterProofs   theorems
    ContentHandler     the abstract callback protocol; Parser implements it, Writer's application keeps to it
    JsonText           RFC 8259 as a generator of documents, independent of the code
    InternedKeys       what the tokenizer relies on of the symbol table: a set
      ↑ implemented by
    KeySymbolTable     the hash table, probe by probe
      └ KeyTableProperties → KeyTableProofs    theorems
    NumberValue        NumberState digit by digit, the Number reported, integers written
      └ NumberProperties → NumberProofs        theorems
    MC*                instances for TLC

**Lexemes** (`tokenizer.rs` 1287-1479, `parser.rs` `check_bom`) has the pure functions. A byte is a symbol, one per class
the code tells apart: `C3`, `E2`, `F0` stand for lead bytes of two, three and four bytes, `82`, `9F`,
`98`, `80`, ... for continuation bytes, `20AC`, `D83D`, `DE00` for the four hex digits of an escape.
A group of hex digits is one symbol, and counts as one byte in lengths, positions and the ring's capacity;
only the wait for a low surrogate, which the code decides on six bytes, counts it as four. A lone hex
digit after `\u` does not occur in the documents. `CharLength` is what `str::from_utf8` says of a
character, `CharLengthWhole` what `decode_char_at` says: they differ in when an overlong form is found.

**Tokenizer** has one action per token, per piece of a token between two callbacks, and per turn of an inner
loop; `call.pc` says where in `Tokenizer::receive` the call is.

| `call.pc` | in the code |
|---|---|
| `loop` | head of `Tokenizer::receive`'s loop: `process_token`, `process_literal`, `continue_number`, `process_whitespace` |
| `space` | `process_whitespace`, reporting a run span by span |
| `string` | `continue_string`: a run, an escape, the closing quote, or a pause |
| `key` | `process_key`, and `report_key` at its end |
| `run`, `char` | `decode_run`, for both; `char` when a character is cut by the end of the slice |
| `pause` | `continue_string` about to return, flushing first |
| `fed`, `finish` | back in `Parser::feed`, and in `Parser::close` |

The order of effects in an action is the code's: for a bracket the byte is consumed and the locator moved,
then the callback, then, if it did not fail, the stacks; for a literal the state changes before the
callback; for a number `stage` is cleared first. Each callback action has a disjunct in which
the handler returns an error, and it leaves exactly what the code leaves. A token over `max_token_count` is
found after its callback, as in `token_done`. The number's accumulators are abstracted to the bytes read;
since the fast path `take_digit_run` stops when the mantissa nears overflow, `NumberRun` may stop at
any digit. Spans part at `call.wrap`, chosen anew by every call.

**Parser** has `Receive`/`Close` (the checks before the tokenizer is called: document length, byte order
mark, creating the tokenizer), `FeedReturns` (bytes released even after an error, `unconsumed` and
`underflow` updated only without one, the full ring reported), `CloseUnfinished`, `CloseReturns`,
`CloseAfterNumber`, and the caller's own steps: `Write` (one byte), the setters, `Reset`. One byte is written per step, and
`Receive` may but need not follow, so pieces of every length arise. `doc`, `verdict` and `events` are history variables.

**ContentHandler** is the promise to the handler, stated on two variables (the nests that are open and
the last callback) and nothing of the tokenizer; `HandlerProtocol` instantiates it with `open <- tok.depth_stack`
and the last callback that is not whitespace, and TLC checks that the parser implements it.

**ParseLoop** composes `parse()` with Parser: it has no state of the parser's own, only `stage` (where the
loop is) and `outcome` (what `parse` returned), and each of its steps is one of Parser's caller or a return
to the loop. A read of n bytes is n steps `ReadByte` and then `ReadReturns`, so reads come in all
lengths; `ReadFails` may happen at any read; `Parse` may be called again on the same parser, after a
document or an error, with other settings. The ring of one call is dropped with it.

**Writer** has one action per `write_*` call, tried as a whole: `Accepted` when prefix and token have room,
else `Rejected`, which changes nothing but the result. `Prefix` and `PrefixLen`, `EscapedText` and
`EscapedLen` are kept apart as they are in the code, because the room is computed with the one and used
by the other. The application decides on a call (any that `ContentHandler` allows next), attempts it,
may drain any part of the ring at any moment, and repeats or gives up a call that was refused. `text` is everything
written since `reset`, `log` the calls that succeeded. What it writes is any text of UTF-8 characters, in which LF stands for every control
character with a short escape (`PlainBytes`). `IndentConfig` of no characters is the same as none here; it differs
only in the line ends.

**KeySymbolTable** is `keys.rs` with one action per probe. It shares no state with the model of the tokenizer, which
has the set of interned keys (`interned`): `InternedKeys` states what that set is, and the refinement
`ImplementsSet` maps the slots (and, while the table grows, the old slots still to be moved) to it. Hashes are
given by `HashOf`, so that collisions are chosen and not hoped for.

**NumberValue** has `NumberState` with its two ways of taking a digit: `RunDigit` (`take_digit_run`, allowed only
while any digit fits) and `Digit` (`take_digit`, which checks, and begins to drop digits). Either may take any
digit of a run where both are possible, since spans part anywhere. The stages are those of Tokenizer, which
leaves the value out. A double is kept as the decimal handed to `decimal_to_f64`. `WrittenInteger` is the
loop of `write_i64`. `ValueOf` is the number that digits stand for, `TenTo` a power of ten.

**JsonText** generates every document up to a length over a set of bytes, with the events in it. It shares
only byte classes and the well-formedness of UTF-8 with the model of the code.

## What is checked

`tlc -workers 2 -config MCx.cfg MCx`. All runs use `CHECK_DEADLOCK FALSE`: the caller may stop for good when
its document has been closed or refused, and every bounded document ends.

| run | states | shows |
|---|---|---|
| MCGrammar | 1.9 M | `AcceptedIsJson`, `RefusedIsNotJson`, `HandlerProtocol` for all texts that are one byte from the beginning of a document: arrays with literals and whitespace to 7 bytes, objects to 11, numbers to 6, and every text of five bytes over those of byte order marks |
| MCText | 2.8 M | the first two, `BufferHolds` and, of every step, `ContentInWholeCharacters`, for strings of escapes to 9 bytes, strings of any four bytes (truncated, stray and overlong characters too) and longer well-formed ones, keys of any three bytes and of half an escaped pair (the chunk size stays as it is here: `BufferHolds` with changed settings is a theorem, and MCFailures has `RoomToDecode`) |
| MCStream | 0.3 M | `LocatorExact`, `EventsExact`, `LeftoverIsOneToken`, `TooSmallOnlyForOneToken`, `BytesCountedOnce` on ten documents, in every cut, with `reset` at any moment |
| MCLimits | 1.2 M | `AcceptedIsWithinLimits`, `LimitRefusesOnlyExcess` for each of the six limits from 0 on, on every beginning of a document to 8 bytes |
| MCKeys | 2.2 M | `NoDuplicateKeyDelivered`, `DuplicatesAreDuplicates`, `InternedKeysAreText` for all pairs (and some triples) of eight spellings of keys, side by side and nested |
| MCFailures | 3.8 M | `StacksAgree`, `LocatorExact`, `TokensAdvance`, `KeysOnlyInObjects`, `RoomToDecode` with a handler that refuses any callback but string content, settings changed between any two calls, and a caller that goes on after any error |
| MCParse | 0.35 M | `TypeOK`, `RingHasSpare`, `ParseIsExact` and, under fairness, `ParseEnds`, for `parse` over 18 sources with every kind of token, malformed ones included, in reads of every length, with failing reads, a handler that may refuse any callback, several limits, and any number of documents on one parser |
| MCWriter | 0.29 M | `PlaceIsKept`, `NeverBeyondTheRing`, `WrittenIsJson`, `IndentFollowsNesting`, `InvalidMeansNever`, `TakesAllThatFits` and, under fairness, `BlockedCallEnds`, for every document an application can write with a few keys, strings and numbers, whole or in pieces |
| MCKeyTable | 0.4 M | `ImplementsSet`, `SlotIsFree` and, under fairness, `CallsEnd`, for eight keys looked up and stored in any order |
| MCNumber | 1.0 M | `NoOverflow`, `IntegersExact`, `RealsNearest`, `WrittenAsRead` for every number of up to five digits and every pair of two in a row |

`ParseEnds` includes that every call of `receive` and `close` inside `parse` returns.

In the parser's runs the caller may call `receive` after every byte, or only after several, and `close` at any time; with
`MayWrap` the spans part anywhere. So a token of n bytes is tried in all its cuts, with up to n
pieces, which is where the code's paths differ: no path looks at more than the present call, the byte before it
(`after_cr`), and the tokenizer's state.

**Bounds.** For the parser, `MaxDoc` (length of the document), `Written` (which documents), `Capacity` (of the ring) and the
small values of the library's constants: the buffer's minimum is 4 bytes instead of 16 (the longest character is 4
bytes, so the same cases happen: a character or escape that just does or does not fit), keys
of 2 or 3 bytes instead of 64 and 2 entries instead of 10,000 in the symbol table, and a threshold of 2
instead of its real value for giving up interning. `MCKeys` fills the table, misses it and hits it.

For the writer a ring of 7 bytes: a string with a two-byte character and a six-byte escape does not fit at once, a key with
indentation fits only into an almost empty ring, and a number at depth 2 with indentation is at the
edge. `MaxWritten` (7) is where the application begins to close what it opened; with `Longest` (11) the documents compared are
complete. For the table a capacity of 4 and `MaxEntries` 7: two growths (at 3 and 6 entries), then the limit; two keys with one hash,
and homes in the last slot of each size. For numbers `MaxI64` 127 and `MaxI32` 15 with digits on both sides of
the last one that fits (7 and 8) and of rounding (5): five digits are two beyond the mantissa. `ExponentCap` is 10, so that
two-digit exponents go past it.

**Fairness.** `WF_vars(CallStep)`: a call of `receive` or `close` that has begun goes on. It is a
function running on the caller's thread, with nothing to wait for. No fairness is assumed of the caller. `ParseSpec` adds the loop
of `parse`, which is such a function too as long as the source's reads return: that is assumed; a read that fails
is not assumed (nor excluded). In KeySymbolTable the loops of a call run. In Writer nothing is assumed but what the
documentation tells the application to do when a call would block (`writer.rs:161`): it drains some of the ring, and it attempts the call again.

Between them the runs take every action and every disjunct of one, each limit and each failure of a callback
included. Each property has a mutant of the code in the modules (the
definitions marked *Mutant*), one plausible slip in the translated function, under which its run reports a violation.

### Where the documentation and the code part

Each of these runs is expected to end with a violation.

| run | what the text says | what happens |
|---|---|---|
| MCContentPosition | `locator.rs:6`: the position is where the current event ends | a piece of a string delivered because the buffer is full reads the position before its own text: the column is added only when the whole run is decoded |
| MCSmallestInteger | `number.rs:12`: `BigInt` is an integer too large for i64 | `i64::MIN` is one: the magnitude is kept in an i64 without the sign, and does not fit |

Smaller observations, not the subject of a run:

- `underflow` and `unconsumed` are not updated when `receive` returns an error (`parser.rs:170`, `216`): bytes left
  in the ring are then counted again against `max_document_length`. `BytesCountedOnce` speaks only of documents without an error.
- A new chunk size takes effect in the string being read, at the next call, and not only in the next string (`parser.rs:153`,
  `tokenizer.rs:815`).
- A second `close` returns `Ok` for a document the first one rejected (`parser.rs:276`, `282`).
- With `max_number_length` 0 a number of one digit is accepted (`tokenizer.rs:673`: the first byte is taken without a check), though
  `limits.rs:8` calls it the most characters in one number. `AcceptedIsWithinLimits` holds with this one exception, which `NumberAllowed` states;
  MCLimits has the limit at 0, and finds the document `1` without the exception.
- "Always empty between calls" (`tokenizer.rs:330`) does not hold after a key, whose text stays in the buffer until the next
  key or string.
- A string piece that the handler refuses is delivered again by the next call.
- A key refused as a duplicate is consumed without moving the locator (`LocatorExact` excludes it).
- An interned key is accepted even when the chunk size has since been made smaller than it.
- `write_string_content` with a ring of less than six bytes is refused as invalid even when the next character
  would fit after a drain (`writer.rs:316`); the run has a ring of seven.
- An exponent of more than 100,000 stops growing (`tokenizer.rs:200`), which is right only for numbers whose digits do not move the
  point as far; `RealsNearest` says what it says below the cap.

## What is proved

`tlapm` proves the theorems below for every value of the constants: every alphabet, ring capacity, buffer size, set of limits, setting
and handler. The assumptions on the constants are named in the modules that declare them: `SizesAssumption`, `BytesAssumption`, `ChoicesAssumption` and `LimitsAssumption` of `Parser` (sizes are
natural numbers, chunk sizes are at least `MinRoom`, which is at least the longest character, literals begin with `t`, `f` or `n` and go on with letters of `true`, `false` and `null`), `TableAssumption`,
`NumberAssumption`, `WriterAssumption` and `TextAssumption` (what the application writes is made of characters of one to four bytes). A
theorem that needs more says so in its `ASSUME`, and the table gives the reason.

| theorem | property | needs besides | inductive invariant |
|---|---|---|---|
| `ParserProofs!TypeCorrect` | `TypeOK` | | itself |
| `ParserProofs!BytesAreCountedOnce` | `BytesCountedOnce` | the limit is not switched on in the middle of a document | `ByteCount`, `CallState` |
| `StackProofs!StacksAlwaysAgree` | `StacksAgree` | | itself, with `TypeOK` |
| `StackProofs!KeysInObjects` | `KeysOnlyInObjects` | | itself, with `Fresh`, `Reading`, `CallState` |
| `TextProofs!RoomIsLeft`, `NothingHeldBack`, `ContentIsText` | `RoomToDecode`, `BufferHolds`, `ContentInWholeCharacters` | | `Buffer` |
| `TextProofs!KeysInTheTable` | `InternedKeysAreText` | | `Missed`, `Interned` |
| `HandlerProofs!HandlerIsServed` | `HandlerProtocol` | a handler that refuses nothing, a caller that stops at an error | `Told` |
| `HandlerProofs!TokensAreReportedOnce` | `TokensAdvance` | | `Advancing` |
| `HandlerProofs!KeysAreDeliveredOnce`, `OnlyDuplicatesAreRefused` | `NoDuplicateKeyDelivered`, `DuplicatesAreDuplicates` | a caller that stops at an error | `Remembered` |
| `CallerProofs!OnlyATokenIsTooLarge` | `TooSmallOnlyForOneToken` | | `Waits`, `Found` |
| `CallerProofs!OneTokenIsLeft` | `LeftoverIsOneToken` | a caller that stops at an error | `Waits`, `Found` |
| `CallerProofs!LocatorIsExact` | `LocatorExact` | | `Located`, with `Advancing` |
| `CallerProofs!EventsAreExact` | `EventsExact` | a caller that stops at an error, or duplicate keys allowed | `Located`, `Asked` |
| `CallerProofs!ParseTypeCorrect`, `ParseStacksAgree` | `TypeOK`, `StacksAgree` under `ParseSpec` | | the same |
| `CallerProofs!ParseHasRoom` | `RingHasSpare` | | `RoomInv` |
| `KeyTableProofs!TableImplementsSet` | `ImplementsSet` | | `TableInv` |
| `KeyTableProofs!AFreeSlotIsLeft` | `SlotIsFree` | a first capacity of at least 4 | `HasSpare`, `TableInv` |
| `NumberProofs!NumbersNeverOverflow` | `NoOverflow` | | `IsNumberState(n)` |
| `NumberProofs!IntegersAreExact`, `RealsAreNearest`, `WrittenIsAsRead` | `IntegersExact`, `RealsNearest`, `WrittenAsRead` | | `NumberInv`, with the properties themselves |
| `WriterProofs!PlaceAlwaysKept` | `PlaceIsKept` | | `PlaceInv` |
| `WriterProofs!InvalidIsForGood` | `InvalidMeansNever` | a ring of at least 6 bytes | itself |
| `WriterProofs!RingIsNeverOverrun`, `ContentTakesAllThatFits` | `NeverBeyondTheRing`, `TakesAllThatFits` | | `RingInv` |
| `WriterProofs!IndentIsNesting` | `IndentFollowsNesting` | no brackets in the application's own texts | `RingInv`, `Laid` |

The additional conditions:

- *A caller that stops at an error* (`~RetryAfterError`). A bracket, and a key, are reported before the stacks and the sets of keys follow, so
  that a refused callback has been heard of by the handler and not by the tokenizer; a call made after it goes on from the older place.
  The documentation gives such a caller no promise about order. What is left after a call is cut off by `unconsumed`, which an error leaves
  as it was (`parser.rs:216`), and so says nothing of the ring once a call has failed. The other properties of the parser hold for such a caller, too.
- *Duplicate keys allowed* (`TRUE \notin Rejecting`): the position stays before a key that is refused as a duplicate while its bytes
  are consumed, so whoever goes on after that reads positions that are too small. No other error does that.
- *A handler that refuses nothing* (`Refusable = {}`) is what `ContentHandler` is about: it has no action for a callback that failed.
  With one that refuses, the order is the same up to the refused callback, as `MovesTell` says step by step.
- *The limit is not switched on in the middle of a document*: without a limit on the document's length `DocumentLength` counts nothing
  (`parser.rs:203`), so that what came before is not counted, and cannot be.
- *A first capacity of at least 4*: `keys.rs:6` has 64. `Crowded` leaves a quarter of the table free, rounded down: in a table of
  less than four slots that is none.
- *No brackets in the application's own texts* (`Unbracketed`): `IndentFollowsNesting` counts every bracket in the output, and one inside a string
  opens nothing. Numbers and literals have no bracket, line end or leading space anyway; strings may have line ends, which are escaped, and spaces.
  The instance of `MCWriter` is such a one.
- *A ring of at least 6 bytes*: `write_string_content` refuses for good unless the longest escape fits (`writer.rs:316`).

**The modules of the proof.** `ParserProofs` ← `StackProofs` ← `TextProofs` ← `HandlerProofs` ← `CallerProofs` each build on the one before,
the others on their own component. In each there is one lemma per group of actions, on lemmas about
the pieces that actions share (`TokenDoneType`, `TakeNumberType`, `DoneCarries`, ...). What a property does not speak of is got out of the way by
relations between the tokenizer before and after a step (`SamePlace`, `SameStacks`, `SameText`, `Carries`, `NothingNew`): most actions keep most of them,
which one lemma says for each, and only the few that do not are looked at for themselves. `QuietStep` and `TokenStep` divide the
tokenizer's actions, `Moves` and `Tells` list what the second kind does to the stacks, the state and the handler: the theorems about
the order of callbacks, the keys and the grammar argue from that list and not from the actions.

**Types and the ring.** `TypeOK` says more than types, in `CallInRing`: a call consumes and looks at no more than the ring holds, is inside its run
while it decodes, and while a key is read the whole key with its closing quote is in front of it. Without
these the text handed to a callback could reach past the ring and would not be a sequence of bytes.

**Bytes counted.** While a call is in progress `document_length` is the length of what was written, between two calls it lacks the bytes
written since (`ByteCount`). It needs that `unconsumed` is not more than what is in the ring, which holds until a call fails,
and `CallState`: an error ends its call, and an open verdict means that there was none.

**Stacks, and the place in the grammar.** The heart of `StacksAgree` is counting: opening an object
adds one to the objects open (`ObjectsOpened`), popping one takes it away (`ObjectsClosed`), so the
duplicate-key stack has one set per open object. `KeysOnlyInObjects` needs to know that nothing but a token moves
the place: that a call reads a string only inside one and a key only where one is due (`Reading`), and that without a
tokenizer there is a new one's place (`Fresh`).

**The handler.** `Told` relates the place (`state`, the innermost nest, whether a string is being read) to the last callback. With it every
step that reports something does so where `ContentHandler` allows it, and every other is a stutter: each step of `Spec` is one of
`ProtocolSpec` or leaves its variables alone (`AllLegal`). `Advancing` says that all callbacks for tokens so far lie at or before the locator, and
that a step which reports one moves it on first; a CR just seen means that the locator is at the beginning of a line, so that
an LF that belongs to it takes nothing back.

**Keys.** `Remembered` relates the sets of keys to the history of callbacks, both ways: each key whose object is still open is in the set
at the rank of that object among the open ones, and each text in a set is that of such a key (`Recalls`). The depth at the handler is the
number of open nests (`Level`). That a key read from the symbol table has the text of the raw bytes is `Missed`: what has been decoded of a
key that was looked up in vain is, so far, what its raw bytes are. So the table has whole texts, which need no unescaping.

**Text.** `Buffer`: the buffer holds whole characters, at most as many bytes as it was made for, and that size is the one set now whenever a call
decodes, because each call that goes on in a string makes the buffer anew if the setting has changed. Inside a string that
is not being decoded it is empty. That joined texts and slices of whole
characters are whole characters is shown byte by byte: each is in a character that is all there (`ValidIsLegible`, `JoinedValid`).

**What is left of an input.** A call pauses only where an escape or a character is incomplete, or where a token has begun and its end is not
in the ring (`Waits`, by cases over the steps that stop); what it has seen of the token in the ring, it has seen of the rest (`Suffix`), since
up to the end of the token no step consumes any of it. So the rest begins one token and ends none, and a full ring that
nothing was taken from is one token that does not fit (`Found`).

**Positions.** `PositionAt` counts lines and UTF-16 units from the beginning of the document, the tokenizer adds as it goes; nothing keeps the
bytes that were released. `Pinned` ties the two: the ring is the end of the document (`Placed`); a tokenizer exists once it is settled where the text
starts, the bytes of a number that has not ended are digits and signs (`Started`), one unit each; and `after_cr` says whether the last byte consumed is
a CR, unless the byte behind it is known not to be an LF (`CRSeen`). `Scanned` says what a call knows of the bytes between `consumed` and
`p`: they are in one line and have `units` units, so that a string or a key may be passed over in one go. Each step of the tokenizer
does one of five things: it stays, passes bytes of a token, of a number, ends a number, or takes whitespace (`TokenizerPinned`), and for each there
is a lemma about counting (`PositionRight`, `PositionSpace`). The locator is at the `Spot` from the first byte on, and leaves it only when a key is
refused (`AtSpot`, `Trusted`). Outside the tokenizer, what matters is that releasing bytes shifts the ring and not the spot, that what is written later does
not change an earlier position (`PositionGrows`), and that three bytes settle whether there is a byte order mark (`MarkSettled`).

**The symbol table.** Every key in the table can be reached: from its home slot, going round, no slot before
it is free. A lookup that has come to slot `idx` has seen no free slot and not the key on the way, so a free slot means that it is
not there, and as many probes as slots too. While the table grows the same holds of the new slots, and each old one is moved or
still to be. `size` is the number of keys (`TableInv`), of which there are fewer than slots (`HasSpare`), so there is a free slot for whoever
is looking for one.

**Numbers.** The bound of the fast path and the test of the general one both leave room for the digit that is taken, so that a digit in a run does
what it would do by itself (`TakesDigit`). `Reading` says of a number in progress what it has of its text: the mantissa is the value of all
digits so far, or of all but the last k, and then the point has moved by k, the first digit dropped is what the rest begins with and there is a rest if and only if
it was noticed (`Leaves`). One more digit multiplies the rest by ten and moves the point on (`LeavesMore`). The long digits are those of the
text, because those of the mantissa were written out when it was full. So an integer is exact at its end, and the end of the interval that the first dropped digit
points to is the nearer one (`NearestEnd`). The digits are written in pairs, which are the decimal digits one by one (`PairsAreDecimal`), and these
are the digits read, as none but a single one is a zero in front.

**`parse`.** Every step of `parse` is one of Parser's or leaves the parser alone (`ParseStepIsCallers`). `RoomInv` follows
the loop: while `receive` runs the ring may be full, but when it has returned without an error it is not
(`FeedLeavesRoom`: either it consumed something, or the ring was not full, or the error is the full ring). It needs that
no step of the tokenizer ends the call or turns it into another (`TokenSteps`, `TextSteps`).

**The writer.** `PlaceIsKept` needs that the application only closes what is open. For the ring, the length computed before a token is written
is compared with what is then written: `Size`, which counts a group of hex digits as four bytes, of joined texts is the sum of theirs (`SizeAdds`),
that of a prefix is `PrefixLen`, and that of the escaped text `EscapedLen` (`SizeOfEscapedText`). No escape is shorter than
its character (`EscapedIsLonger`), so that content cut to what is free unescaped has lost nothing that could have been written
(`TakenFits`).

**Indentation.** Brackets are counted in the text itself (`Net`): their number is the writer's depth, because a token is one bracket or has none. `Laid` says
that and how every line stands (`Lines`): behind each line end there is a place with nothing but spaces before it, as many as `indent` for every bracket open around what
begins there. There is only one such place, so it is the one `IndentFollowsNesting` chooses. A token appended behind a break adds one line (`LinesGrow`), any other
none (`LinesStay`), and what is behind a line's beginning does not change how it stands.

**Recursive definitions.** What a recursive function computes is proved here where it is needed, from the least number for which it would be otherwise
(`NatLeast`, `Least`): `Total`, the sum of a sequence, has its steps (`TotalSteps`), and so has the library's `FlattenSeq` (`JoinExists`). In `NumberProofs` this is done once
for all functions of a number that go back to a smaller one (`Recursive`, `FollowsExists`); `ValueOf`, `TenTo`, `Decimal` and `PairDigits` are such functions.

### What is only model-checked

- Liveness (`ParseEnds`, `CallsEnd`, `BlockedCallEnds`): the prover has no rule for fairness.
- `AcceptedIsJson`, `RefusedIsNotJson`, `AcceptedIsWithinLimits`, `LimitRefusesOnlyExcess` and `WrittenIsJson` compare with the documents of `JsonText`, a recursive
  generator, of which the prover can be told nothing.
- `ParseIsExact` compares what `parse` returns with the documents of its sources, one by one.

## What is not modelled

- **Correct rounding** of doubles: `decimal_to_f64` (the exact product of two doubles where that is possible, else `str::parse`)
  needs real arithmetic. The decimal it is given is modelled. The `as_*` conversions and `Display` of `Number` have no state.
- **The text of doubles** in `write_f64` (`write!` of the standard library): one of the formatted numbers.
- **FNV-1a** (`keys.rs` `hash`): any function from keys to hashes; the proof needs nothing else of it.
- **`loopbuf`**, an external crate: a sequence of bounded length that parts in two anywhere.
- **`error.rs`, `lib.rs`** and the forwarding implementations of `ContentHandler`: no state. Errors are kinds.
- A handler that refuses **string content** and a caller that goes on after it: whether the piece should be delivered again is said
  nowhere in the repository.
- Documents in which `\u` is followed by fewer than four hex digits and then the end of the call are cut only at the
  group (see Lexemes).
