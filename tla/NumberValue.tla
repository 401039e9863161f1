---------------------------- MODULE NumberValue -----------------------------
(***************************************************************************)
(* NumberState of tokenizer.rs: the value of a number, kept digit by digit  *)
(* while it is read, and the kind of Number it is reported as.  Tokenizer   *)
(* has the bytes and stages of the same numbers.  Words are as wide as the  *)
(* constants say, a digit is 0 .. 9, and a double is the decimal it is      *)
(* rounded from (decimal_to_f64 rounds correctly).                          *)
(***************************************************************************)
EXTENDS Integers, Sequences

CONSTANTS
  Digits,       \* the digits numbers are made of
  MaxI64,       \* i64::MAX
  MaxI32,       \* i32::MAX
  ExponentCap,  \* no digit is added to an exponent of this or more
  MaxDigits     \* bound: digits in a number

ASSUME NumberAssumption ==
  /\ Digits \subseteq 0 .. 9
  /\ MaxI64 \in Nat /\ MaxI64 >= 19
  /\ MaxI32 \in Nat /\ MaxI32 < MaxI64
  /\ ExponentCap \in Nat /\ MaxDigits \in Nat

VARIABLES
  n,      \* struct NumberState
  text,   \* history: the parts of the number read so far
  value   \* the Number reported, until the next one begins

nvars == <<n, text, value>>

Signs == {"+", "-"}
NoText == [negative |-> FALSE, whole |-> <<>>, fraction |-> <<>>, down |-> FALSE, exponent |-> <<>>]
NoNumber == [kind |-> "none"]

NewNumber ==
  [stage |-> "None", negative |-> FALSE, is_real |-> FALSE, mantissa |-> 0,
   mantissa_full |-> FALSE, decimal_shift |-> 0, dropped_non_zero |-> FALSE, first_dropped |-> -1,
   exponent_negative |-> FALSE, exponent |-> 0, big_digits |-> <<>>]

Init == n = NewNumber /\ text = NoText /\ value = NoNumber

-----------------------------------------------------------------------------
(* Digits                                                                  *)

\* The digits of a natural number (to_string).
Decimal[k \in Nat] == IF k < 10 THEN <<k>> ELSE Append(Decimal[k \div 10], k % 10)

\* Mutant: any digit is taken to fit a little longer than it does.
AlwaysFitsLonger == MaxI64 \div 10

\* While the mantissa is at most this, any next digit fits.
AlwaysFits == MaxI64 \div 10 - 1

\* Mutant: the last digit dropped is remembered, not the first.
DroppedLast(s, d) == [s EXCEPT !.first_dropped = d, !.dropped_non_zero = @ \/ d # 0]

Dropped(s, d) ==
  [s EXCEPT !.first_dropped = IF @ < 0 THEN d ELSE @, !.dropped_non_zero = @ \/ d # 0]

\* One more digit, of the integer part or the fraction.
TakeDigit(s, d, fraction) ==
  IF ~s.mantissa_full /\ s.mantissa <= (MaxI64 - d) \div 10
    THEN [s EXCEPT !.mantissa = 10 * @ + d, !.decimal_shift = IF fraction THEN @ - 1 ELSE @]
  ELSE
    LET digits == IF s.mantissa_full \/ fraction THEN s.big_digits ELSE Decimal[s.mantissa]
        full == IF s.mantissa_full THEN s
                ELSE [s EXCEPT !.mantissa_full = TRUE, !.dropped_non_zero = FALSE, !.first_dropped = -1]
    IN  Dropped([full EXCEPT !.decimal_shift = IF fraction THEN @ ELSE @ + 1,
                             !.big_digits = IF fraction THEN digits ELSE Append(digits, d)], d)

\* One turn of the loop of take_digit_run.
TakeInRun(s, d) ==
  [s EXCEPT !.mantissa = 10 * @ + d,
            !.decimal_shift = IF s.stage = "Fraction" THEN @ - 1 ELSE @]

TakeExponentDigit(s, d) == IF s.exponent < ExponentCap THEN [s EXCEPT !.exponent = 10 * @ + d] ELSE s

-----------------------------------------------------------------------------
(* What is reported                                                        *)

Signed(s, k) == IF s.negative THEN -k ELSE k

IntegerValue(s) ==
  LET v == Signed(s, s.mantissa)
  IN  IF s.big_digits # <<>> THEN [kind |-> "BigInt", negative |-> s.negative, digits |-> s.big_digits]
      ELSE IF v \in -MaxI32 - 1 .. MaxI32 THEN [kind |-> "I32", value |-> v]
      ELSE [kind |-> "I64", value |-> v]

\* The end of the interval of one unit that the number lies in which is nearer,
\* judged by the first dropped digit; there is no higher one at the edge.
RealValue(s) ==
  LET e10 == s.decimal_shift + IF s.exponent_negative THEN -s.exponent ELSE s.exponent
      up == s.mantissa_full /\ s.dropped_non_zero /\ s.first_dropped >= 5 /\ s.mantissa < MaxI64
  IN  [kind |-> "F64", negative |-> s.negative,
       mantissa |-> IF up THEN s.mantissa + 1 ELSE s.mantissa, e10 |-> e10]

-----------------------------------------------------------------------------
(* Reading a number                                                        *)

DigitsRead == Len(text.whole) + Len(text.fraction) + Len(text.exponent)
MoreDigits == DigitsRead < MaxDigits

Minus ==
  /\ n.stage = "None"
  /\ n' = [NewNumber EXCEPT !.stage = "AfterMinus", !.negative = TRUE]
  /\ text' = [NoText EXCEPT !.negative = TRUE]
  /\ value' = NoNumber

\* Mutant: the digits of the last number are not cleared.
StartDigitStale(d) ==
  /\ n.stage = "None"
  /\ n' = [NewNumber EXCEPT !.stage = IF d = 0 THEN "Zero" ELSE "Integer", !.mantissa = d,
                            !.big_digits = n.big_digits]
  /\ text' = [NoText EXCEPT !.whole = <<d>>]
  /\ value' = NoNumber

StartDigit(d) ==
  /\ n.stage = "None"
  /\ n' = [NewNumber EXCEPT !.stage = IF d = 0 THEN "Zero" ELSE "Integer", !.mantissa = d]
  /\ text' = [NoText EXCEPT !.whole = <<d>>]
  /\ value' = NoNumber

\* A digit in a run of them, read without looking at the stage.
RunDigit(d) ==
  /\ ~n.mantissa_full /\ n.mantissa <= AlwaysFits
  /\ \/ n.stage = "Integer" /\ text' = [text EXCEPT !.whole = Append(@, d)]
     \/ n.stage = "Fraction" /\ text' = [text EXCEPT !.fraction = Append(@, d)]
  /\ n' = TakeInRun(n, d)

\* A digit by itself: the first of a span, or where a run stopped.
Digit(d) ==
  \/ /\ n.stage = "AfterMinus"
     /\ n' = IF d = 0 THEN [n EXCEPT !.stage = "Zero"] ELSE [TakeDigit(n, d, FALSE) EXCEPT !.stage = "Integer"]
     /\ text' = [text EXCEPT !.whole = <<d>>]
  \/ /\ n.stage = "Integer"
     /\ n' = TakeDigit(n, d, FALSE)
     /\ text' = [text EXCEPT !.whole = Append(@, d)]
  \/ /\ n.stage \in {"FractionDot", "Fraction"}
     /\ n' = [TakeDigit(n, d, TRUE) EXCEPT !.stage = "Fraction"]
     /\ text' = [text EXCEPT !.fraction = Append(@, d)]
  \/ /\ n.stage \in {"ExponentMark", "ExponentSign", "Exponent"}
     /\ n' = [TakeExponentDigit(n, d) EXCEPT !.stage = "Exponent"]
     /\ text' = [text EXCEPT !.exponent = Append(@, d)]

Dot ==
  /\ n.stage \in {"Zero", "Integer"}
  /\ n' = [n EXCEPT !.stage = "FractionDot", !.is_real = TRUE]
  /\ UNCHANGED <<text, value>>

Mark ==
  /\ n.stage \in {"Zero", "Integer", "Fraction"}
  /\ n' = [n EXCEPT !.stage = "ExponentMark", !.is_real = TRUE]
  /\ UNCHANGED <<text, value>>

Sign(b) ==
  /\ n.stage = "ExponentMark"
  /\ n' = [n EXCEPT !.stage = "ExponentSign", !.exponent_negative = b = "-"]
  /\ text' = [text EXCEPT !.down = b = "-"]
  /\ UNCHANGED value

\* emit_number
End ==
  /\ n.stage \in {"Zero", "Integer", "Fraction", "Exponent"}
  /\ n' = [n EXCEPT !.stage = "None"]
  /\ value' = IF n.is_real THEN RealValue(n) ELSE IntegerValue(n)
  /\ UNCHANGED text

Next ==
  \/ Minus \/ Dot \/ Mark \/ End
  \/ \E b \in Signs : Sign(b)
  \/ MaxDigits > 0 /\ \E d \in Digits : StartDigit(d)
  \/ MoreDigits /\ UNCHANGED value /\ \E d \in Digits : RunDigit(d) \/ Digit(d)

Spec == Init /\ [][Next]_nvars

-----------------------------------------------------------------------------
(* Writing an integer: write_i64                                           *)

Pair(p) == <<p \div 10, p % 10>>

\* Mutant: the loop stops at a hundred.
TwoPairsAbove(rest) == rest > 100

TwoPairs(rest) == rest >= 100

\* The digits of |v|, two at a time from the end.
PairDigits[rest \in Nat] ==
  IF TwoPairs(rest) THEN PairDigits[rest \div 100] \o Pair(rest % 100)
  ELSE IF rest >= 10 THEN Pair(rest) ELSE <<rest>>

WrittenInteger(v) == [negative |-> v < 0, digits |-> PairDigits[IF v < 0 THEN -v ELSE v]]
=============================================================================
