-------------------------- MODULE NumberProperties --------------------------
(***************************************************************************)
(* What a handler may rely on of the numbers it is given.                   *)
(***************************************************************************)
EXTENDS NumberValue

\* The number that digits stand for, and the powers of ten.
ValueOf(digits) ==
  LET upTo[k \in 0 .. Len(digits)] == IF k = 0 THEN 0 ELSE 10 * upTo[k - 1] + digits[k]
  IN  upTo[Len(digits)]

TenTo[k \in Nat] == IF k = 0 THEN 1 ELSE 10 * TenTo[k - 1]

Reported == n.stage = "None" /\ value # NoNumber
TextValue == IF text.negative THEN -ValueOf(text.whole) ELSE ValueOf(text.whole)

\* No digit makes the mantissa overflow, in a run or by itself, and the exponent
\* stays within one digit of its cap (tokenizer.rs:71, 173).
NoOverflow == n.mantissa \in 0 .. MaxI64 /\ n.exponent \in 0 .. 10 * ExponentCap

\* An integer is reported with its exact value, however many digits it has and
\* whatever the number before it was; in 32 bits exactly if it fits them.
IntegersExact ==
  Reported =>
    CASE value.kind = "I32" -> value.value = TextValue
      [] value.kind = "I64" -> value.value = TextValue /\ value.value \notin -MaxI32 - 1 .. MaxI32
      [] value.kind = "BigInt" -> /\ value.digits = text.whole /\ value.negative = text.negative
                                  /\ ValueOf(text.whole) > MaxI64
      [] value.kind = "F64" -> TRUE

\* The decimal that a fraction or a number with an exponent is rounded from is
\* the number itself, or what is left of it is at most half a unit of the last
\* digit kept; only at the edge of an i64 it is the lower end in any case.
RealsNearest ==
  Reported /\ value.kind = "F64" =>
    LET exponent == IF text.down THEN -n.exponent ELSE n.exponent
        digits == text.whole \o text.fraction
        dropped == value.e10 - exponent + Len(text.fraction)
        rest == ValueOf(digits) - value.mantissa * TenTo[dropped]
    IN  /\ value.negative = text.negative
        /\ n.exponent < ExponentCap => n.exponent = ValueOf(text.exponent)
        /\ n.exponent <= ValueOf(text.exponent)
        /\ dropped \in 0 .. Len(digits)
        /\ \/ 2 * rest \in -TenTo[dropped] .. TenTo[dropped]
           \/ value.mantissa = MaxI64 /\ rest \in 0 .. TenTo[dropped]

\* An integer that was read and is written again is the same text, save the
\* sign of a zero (writer.rs 367-392).
WrittenAsRead ==
  Reported /\ value.kind \in {"I32", "I64"} =>
    WrittenInteger(value.value) = [negative |-> text.negative /\ value.value # 0, digits |-> text.whole]

\* What number.rs:12 says of BigInt: it is for integers too large for an i64.
BigIsTooLarge ==
  Reported /\ value.kind = "BigInt" => TextValue \notin -MaxI64 - 1 .. MaxI64
=============================================================================
