---------------------------- MODULE NumberProofs ----------------------------
(***************************************************************************)
(* No digit makes the mantissa overflow, and what is reported of a number is *)
(* what was read: an integer exactly, a double from the nearest decimal the *)
(* mantissa can hold, for words of any width and numbers of any length.     *)
(***************************************************************************)
EXTENDS NumberProperties, TLAPS, SequenceTheorems, WellFoundedInduction

\* What every action keeps of a number in progress.
IsNumberState(s) ==
  /\ {"mantissa", "exponent"} \subseteq DOMAIN s
  /\ s.mantissa \in 0 .. MaxI64 /\ s.exponent \in 0 .. 10 * ExponentCap

\* A new number fits.
LEMMA NewNumberState == IsNumberState(NewNumber)
  BY NumberAssumption DEF IsNumberState, NewNumber

\* A digit taken with the check fits, or is dropped.
LEMMA TakeDigitKeeps ==
  ASSUME NEW s, IsNumberState(s), NEW d \in 0 .. 9, NEW fraction \in BOOLEAN
  PROVE  IsNumberState(TakeDigit(s, d, fraction))
<1>1. CASE ~s.mantissa_full /\ s.mantissa <= (MaxI64 - d) \div 10
  <2>1. 10 * s.mantissa + d \in 0 .. MaxI64
    BY <1>1, NumberAssumption DEF IsNumberState
  <2> QED
    BY <1>1, <2>1 DEF IsNumberState, TakeDigit
<1>2. CASE ~(~s.mantissa_full /\ s.mantissa <= (MaxI64 - d) \div 10)
  BY <1>2 DEF IsNumberState, TakeDigit, Dropped
<1> QED
  BY <1>1, <1>2

\* Below the bound of the fast path any digit fits.
LEMMA TakeInRunKeeps ==
  ASSUME NEW s, IsNumberState(s), NEW d \in 0 .. 9, s.mantissa <= AlwaysFits
  PROVE  IsNumberState(TakeInRun(s, d))
<1>1. 10 * s.mantissa + d \in 0 .. MaxI64
  BY NumberAssumption DEF IsNumberState, AlwaysFits
<1> QED
  BY <1>1 DEF IsNumberState, TakeInRun

\* An exponent digit is taken only below the cap.
LEMMA TakeExponentKeeps ==
  ASSUME NEW s, IsNumberState(s), NEW d \in 0 .. 9
  PROVE  IsNumberState(TakeExponentDigit(s, d))
<1>1. s.exponent < ExponentCap => 10 * s.exponent + d \in 0 .. 10 * ExponentCap
  BY NumberAssumption DEF IsNumberState
<1> QED
  BY <1>1 DEF IsNumberState, TakeExponentDigit

\* Every step keeps it so.
LEMMA NumberStep == ASSUME IsNumberState(n), Next PROVE IsNumberState(n')
<1>1. CASE Minus
  BY <1>1, NumberAssumption DEF Minus, IsNumberState, NewNumber
<1>2. ASSUME NEW d \in Digits, StartDigit(d) PROVE IsNumberState(n')
  BY <1>2, NumberAssumption DEF StartDigit, IsNumberState, NewNumber
<1>3. CASE Dot \/ Mark \/ End
  BY <1>3 DEF Dot, Mark, End, IsNumberState
<1>4. ASSUME NEW b \in Signs, Sign(b) PROVE IsNumberState(n')
  BY <1>4 DEF Sign, IsNumberState
<1>5. ASSUME NEW d \in Digits, RunDigit(d) PROVE IsNumberState(n')
  BY <1>5, TakeInRunKeeps, NumberAssumption DEF RunDigit
<1>6. ASSUME NEW d \in Digits, Digit(d) PROVE IsNumberState(n')
  <2> d \in 0 .. 9
    BY NumberAssumption
  <2>1. IsNumberState(n) /\ IsNumberState(TakeDigit(n, d, FALSE))
        /\ IsNumberState(TakeDigit(n, d, TRUE)) /\ IsNumberState(TakeExponentDigit(n, d))
    BY TakeDigitKeeps, TakeExponentKeeps
  <2>2. ASSUME NEW s, IsNumberState(s), NEW stage \in {"Zero", "Integer", "Fraction", "Exponent"}
        PROVE  IsNumberState([s EXCEPT !.stage = stage])
    BY <2>2 DEF IsNumberState
  <2>3. \/ n' = [n EXCEPT !.stage = "Zero"]
        \/ n' = [TakeDigit(n, d, FALSE) EXCEPT !.stage = "Integer"]
        \/ n' = TakeDigit(n, d, FALSE)
        \/ n' = [TakeDigit(n, d, TRUE) EXCEPT !.stage = "Fraction"]
        \/ n' = [TakeExponentDigit(n, d) EXCEPT !.stage = "Exponent"]
    BY <1>6, Zenon DEF Digit
  <2> QED
    BY <2>1, <2>2, <2>3
<1> QED
  BY <1>1, <1>2, <1>3, <1>4, <1>5, <1>6 DEF Next

\* However many digits a number has, in runs or one by one, its mantissa and
\* its exponent stay in their words.
THEOREM NumbersNeverOverflow == Spec => []NoOverflow
<1> DEFINE Inv == IsNumberState(n)
<1>1. Init => Inv
  BY NewNumberState DEF Init
<1>2. Inv /\ [Next]_nvars => Inv'
  BY NumberStep DEF nvars, IsNumberState
<1>3. Inv => NoOverflow
  BY DEF IsNumberState, NoOverflow
<1> QED
  BY <1>1, <1>2, <1>3, PTL DEF Spec

-----------------------------------------------------------------------------
(* Recursion on natural numbers                                            *)

\* Every set of natural numbers that is not empty has a least member.
LEMMA Least ==
  ASSUME NEW T, T \subseteq Nat, T # {}
  PROVE  \E x \in T : \A y \in T : x <= y
<1>1. IsWellFoundedOn(OpToRel(<, Nat), Nat)
  BY NatLessThanWellFounded
<1>2. PICK x \in T : \A y \in T : ~(<<y, x>> \in OpToRel(<, Nat))
  BY <1>1, WFMin
<1>3. \A y \in T : y \in Nat /\ ~(y < x) /\ x \in Nat
  BY <1>2 DEF OpToRel
<1>4. \A y \in T : x <= y
  BY <1>3
<1> QED
  BY <1>4

\* What a recursion needs: a value of its own for some numbers, and for each of
\* the others a smaller number and what to do with its value.
Recursive(D, V, known, base, back, step) ==
  /\ D \subseteq Nat
  /\ \A k \in D : k \in known => base[k] \in V
  /\ \A k \in D : k \notin known => back[k] \in D /\ back[k] < k
  /\ \A k \in D : k \notin known => \A v \in V : step[k][v] \in V

\* A function that follows it.
Follows(h, D, known, base, back, step) ==
  \A k \in D : h[k] = IF k \in known THEN base[k] ELSE step[k][h[back[k]]]

\* Two such functions agree where both are defined.
LEMMA FollowsAgree ==
  ASSUME NEW D, NEW V, NEW known, NEW base, NEW back, NEW step, Recursive(D, V, known, base, back, step),
         NEW A, NEW B, NEW g, NEW h,
         A \subseteq D, B \subseteq D,
         \A k \in A : k \notin known => back[k] \in A, \A k \in B : k \notin known => back[k] \in B,
         Follows(g, A, known, base, back, step), Follows(h, B, known, base, back, step)
  PROVE  \A k \in A \cap B : g[k] = h[k]
<1> DEFINE bad == {k \in A \cap B : g[k] # h[k]}
<1> SUFFICES ASSUME bad # {}  PROVE FALSE
  OBVIOUS
<1>1. bad \subseteq Nat
  BY DEF Recursive
<1> HIDE DEF bad
<1>2. PICK m \in bad : \A y \in bad : m <= y
  BY <1>1, Least
<1>3. m \in A /\ m \in B /\ m \in D /\ m \in Nat /\ g[m] # h[m]
  BY <1>1 DEF bad
<1>4. m \notin known
  BY <1>3 DEF Follows
<1>5. back[m] \in A /\ back[m] \in B /\ back[m] \in Nat /\ back[m] < m
  BY <1>3, <1>4 DEF Recursive
<1>6. back[m] \notin bad
  BY <1>1, <1>2, <1>5
<1>7. g[back[m]] = h[back[m]]
  BY <1>5, <1>6 DEF bad
<1> QED
  BY <1>3, <1>4, <1>7 DEF Follows

\* There is one up to any number.
LEMMA FollowsUpTo ==
  ASSUME NEW D, NEW V, NEW known, NEW base, NEW back, NEW step, Recursive(D, V, known, base, back, step),
         NEW limit \in Nat
  PROVE  \E h \in [{k \in D : k <= limit} -> V] : Follows(h, {k \in D : k <= limit}, known, base, back, step)
<1> DEFINE UpTo(i) == {k \in D : k <= i}
           Good(h, i) == h \in [UpTo(i) -> V] /\ Follows(h, UpTo(i), known, base, back, step)
           bad == {i \in Nat : ~\E h : Good(h, i)}
<1> SUFFICES ASSUME bad # {}  PROVE FALSE
  <2>1. bad = {} => \E h : Good(h, limit)
    OBVIOUS
  <2> QED
    BY <2>1
<1>1. bad \subseteq Nat
  OBVIOUS
<1> HIDE DEF bad
<1>2. PICK m \in bad : \A y \in bad : m <= y
  BY <1>1, Least
<1>3. m \in Nat /\ ~\E h : Good(h, m)
  BY DEF bad
<1>4. m # 0 => \E h : Good(h, m - 1)
  <2>1. m # 0 => m - 1 \in Nat /\ ~(m <= m - 1)
    BY <1>3
  <2>2. m # 0 => m - 1 \notin bad
    BY <1>2, <2>1
  <2> QED
    BY <2>1, <2>2 DEF bad
<1>5. PICK h : m # 0 => Good(h, m - 1)
  BY <1>4
<1>6. D \subseteq Nat
  BY DEF Recursive
<1>7. ASSUME NEW k \in D, k < m  PROVE k \in UpTo(m - 1) /\ m # 0
  BY <1>3, <1>6, <1>7
<1> HIDE DEF UpTo
<1>8. ASSUME NEW k \in D, k < m
      PROVE  h[k] \in V /\ h[k] = IF k \in known THEN base[k] ELSE step[k][h[back[k]]]
  BY <1>5, <1>7, <1>8 DEF Follows
<1> DEFINE Chosen(k) == IF k \in known THEN base[k] ELSE step[k][h[back[k]]]
           g == [k \in UpTo(m) |-> Chosen(k)]
<1>9. ASSUME NEW k \in UpTo(m)
      PROVE  /\ k \in D /\ k <= m
             /\ k \notin known => back[k] \in D /\ back[k] < m /\ back[k] < k /\ back[k] \in UpTo(m)
  <2>1. k \in D /\ k <= m /\ k \in Nat
    BY <1>6 DEF UpTo
  <2>2. k \notin known => back[k] \in D /\ back[k] < k /\ back[k] \in Nat
    BY <1>6, <2>1 DEF Recursive
  <2> QED
    BY <1>3, <2>1, <2>2 DEF UpTo
<1>10. ASSUME NEW k \in UpTo(m)  PROVE Chosen(k) \in V
  <2>1. k \notin known => h[back[k]] \in V
    BY <1>8, <1>9
  <2> QED
    BY <1>9, <2>1 DEF Recursive
<1>11. ASSUME NEW k \in UpTo(m), k < m  PROVE g[k] = h[k]
  BY <1>8, <1>9, <1>11
<1>12. ASSUME NEW k \in UpTo(m)  PROVE g[k] = IF k \in known THEN base[k] ELSE step[k][g[back[k]]]
  <2>1. k \notin known => g[back[k]] = h[back[k]]
    BY <1>9, <1>11
  <2> QED
    BY <2>1
<1>13. g \in [UpTo(m) -> V]
  BY <1>10
<1> HIDE DEF g
<1>14. Follows(g, UpTo(m), known, base, back, step)
  BY <1>12 DEF Follows
<1>15. Good(g, m)
  BY <1>13, <1>14
<1> QED
  BY <1>3, <1>15

\* And so one for all of them.
LEMMA FollowsExists ==
  ASSUME NEW D, NEW V, NEW known, NEW base, NEW back, NEW step, Recursive(D, V, known, base, back, step)
  PROVE  \E f \in [D -> V] : Follows(f, D, known, base, back, step)
<1> DEFINE UpTo(i) == {k \in D : k <= i}
           Good(h, i) == h \in [UpTo(i) -> V] /\ Follows(h, UpTo(i), known, base, back, step)
           part(i) == CHOOSE h : Good(h, i)
           f == [k \in D |-> part(k)[k]]
<1>1. D \subseteq Nat
  BY DEF Recursive
<1>2. ASSUME NEW i \in D  PROVE Good(part(i), i)
  <2>1. \E h : Good(h, i)
    BY <1>1, FollowsUpTo
  <2> QED
    BY <2>1
<1> HIDE DEF part
<1>3. ASSUME NEW i \in D
      PROVE  /\ UpTo(i) \subseteq D /\ i \in UpTo(i)
             /\ \A k \in UpTo(i) : k \notin known => back[k] \in UpTo(i) /\ back[k] \in D
  <2>1. ASSUME NEW k \in UpTo(i), k \notin known  PROVE back[k] \in UpTo(i) /\ back[k] \in D
    <3>1. k \in D /\ k <= i /\ back[k] \in D /\ back[k] < k
      BY <2>1 DEF Recursive
    <3>2. k \in Nat /\ i \in Nat /\ back[k] \in Nat
      BY <1>1, <3>1
    <3> QED
      BY <3>1, <3>2
  <2>2. UpTo(i) \subseteq D /\ i \in UpTo(i)
    BY <1>1
  <2> QED
    BY <2>1, <2>2
<1>4. ASSUME NEW i \in D, NEW k \in UpTo(i)  PROVE part(i)[k] = f[k]
  <2>1. k \in D /\ k \in UpTo(k)
    BY <1>3
  <2> DEFINE A == UpTo(i)
             B == UpTo(k)
             g == part(i)
             h == part(k)
  <2>2. /\ A \subseteq D /\ B \subseteq D /\ k \in A \cap B
        /\ \A j \in A : j \notin known => back[j] \in A
        /\ \A j \in B : j \notin known => back[j] \in B
    BY <1>3, <2>1
  <2>3. Follows(g, A, known, base, back, step) /\ Follows(h, B, known, base, back, step)
    BY <1>2, <2>1
  <2> HIDE DEF A, B, g, h
  <2>4. g[k] = h[k]
    BY <2>2, <2>3, FollowsAgree
  <2> QED
    BY <2>1, <2>4 DEF g, h
<1>5. f \in [D -> V]
  <2>1. ASSUME NEW k \in D  PROVE part(k)[k] \in V
    BY <1>2, <1>3
  <2> QED
    BY <2>1
<1>6. ASSUME NEW k \in D  PROVE f[k] = IF k \in known THEN base[k] ELSE step[k][f[back[k]]]
  <2>1. part(k)[k] = IF k \in known THEN base[k] ELSE step[k][part(k)[back[k]]]
    BY <1>2, <1>3 DEF Follows
  <2>2. k \notin known => part(k)[back[k]] = f[back[k]]
    <3>1. k \notin known => back[k] \in UpTo(k)
      BY <1>3
    <3> QED
      BY <1>4, <3>1
  <2>3. f[k] = part(k)[k]
    OBVIOUS
  <2> HIDE DEF f
  <2> QED
    BY <2>1, <2>2, <2>3
<1> HIDE DEF f
<1> QED
  BY <1>5, <1>6 DEF Follows

-----------------------------------------------------------------------------
(* Digits and what they stand for                                          *)

\* There is a function that reads digits one by one.
LEMMA ValueRuns ==
  ASSUME NEW s \in Seq(Nat)
  PROVE  \E f \in [0 .. Len(s) -> Nat] : f[0] = 0 /\ \A k \in 1 .. Len(s) : f[k] = 10 * f[k - 1] + s[k]
<1> DEFINE D == 0 .. Len(s)
           known == {0}
           base == [k \in D |-> 0]
           back == [k \in D |-> k - 1]
           step == [k \in D |-> [v \in Nat |-> 10 * v + s[k]]]
<1>1. Len(s) \in Nat /\ \A k \in 1 .. Len(s) : s[k] \in Nat /\ k \in D /\ k \notin known /\ k - 1 \in D /\ k - 1 < k
  OBVIOUS
<1>2. \A k \in D : k \in Nat /\ (k \notin known => k \in 1 .. Len(s)) /\ 0 \in D
  OBVIOUS
<1>3. \A k \in D : base[k] = 0 /\ back[k] = k - 1 /\ \A v \in Nat : step[k][v] = 10 * v + s[k]
  OBVIOUS
<1>4. 0 \in Nat /\ \A v, d \in Nat : 10 * v + d \in Nat
  OBVIOUS
<1> HIDE DEF D, known, base, back, step
<1>5. Recursive(D, Nat, known, base, back, step)
  <2>1. D \subseteq Nat
    BY <1>2
  <2>2. \A k \in D : k \in known => base[k] \in Nat
    BY <1>3, <1>4
  <2>3. \A k \in D : k \notin known => back[k] \in D /\ back[k] < k
    BY <1>1, <1>2, <1>3
  <2>4. \A k \in D : k \notin known => \A v \in Nat : step[k][v] \in Nat
    <3>1. ASSUME NEW k \in D, k \notin known, NEW v \in Nat  PROVE step[k][v] \in Nat
      <4>1. s[k] \in Nat
        BY <1>1, <1>2, <3>1
      <4>2. 10 * v + s[k] \in Nat
        BY <1>4, <4>1
      <4> QED
        BY <1>3, <4>2
    <3> QED
      BY <3>1
  <2> QED
    BY <2>1, <2>2, <2>3, <2>4, Zenon DEF Recursive
<1>6. PICK f \in [D -> Nat] : Follows(f, D, known, base, back, step)
  BY <1>5, FollowsExists
<1>7. \A k \in 1 .. Len(s) : f[k] = 10 * f[k - 1] + s[k]
  <2>1. ASSUME NEW k \in 1 .. Len(s)  PROVE f[k] = 10 * f[k - 1] + s[k]
    <3>1. k \in D /\ k - 1 \in D /\ f[k - 1] \in Nat
      BY <1>1, <1>6
    <3>2. f[k] = step[k][f[k - 1]]
      BY <1>1, <1>3, <1>6, <3>1 DEF Follows
    <3> QED
      BY <1>3, <3>1, <3>2
  <2> QED
    BY <2>1
<1>8. f[0] = 0
  <2>1. 0 \in D /\ 0 \in known
    BY <1>1 DEF D, known
  <2> QED
    BY <1>3, <1>6, <2>1 DEF Follows
<1> QED
  BY <1>6, <1>7, <1>8 DEF D

\* Any such function ends with their value.
LEMMA ValueIs ==
  ASSUME NEW s \in Seq(Nat), NEW h, h[0] = 0, \A k \in 1 .. Len(s) : h[k] = 10 * h[k - 1] + s[k]
  PROVE  ValueOf(s) = h[Len(s)]
<1> DEFINE g == CHOOSE upTo : upTo = [k \in 0 .. Len(s) |-> IF k = 0 THEN 0 ELSE 10 * upTo[k - 1] + s[k]]
           bad == {k \in 0 .. Len(s) : g[k] # h[k]}
<1>0. Len(s) \in Nat
  OBVIOUS
<1>1. g = [k \in 0 .. Len(s) |-> IF k = 0 THEN 0 ELSE 10 * g[k - 1] + s[k]]
  <2>1. PICK f \in [0 .. Len(s) -> Nat] : f[0] = 0 /\ \A k \in 1 .. Len(s) : f[k] = 10 * f[k - 1] + s[k]
    BY ValueRuns
  <2>2. \A k \in 0 .. Len(s) : f[k] = IF k = 0 THEN 0 ELSE 10 * f[k - 1] + s[k]
    <3>1. \A k \in 0 .. Len(s) : k = 0 \/ k \in 1 .. Len(s)
      BY <1>0
    <3> QED
      BY <2>1, <3>1
  <2>3. f = [k \in 0 .. Len(s) |-> f[k]]
    BY <2>1
  <2>4. f = [k \in 0 .. Len(s) |-> IF k = 0 THEN 0 ELSE 10 * f[k - 1] + s[k]]
    <3>1. [k \in 0 .. Len(s) |-> f[k]] = [k \in 0 .. Len(s) |-> IF k = 0 THEN 0 ELSE 10 * f[k - 1] + s[k]]
      BY <2>2, Zenon
    <3> QED
      BY <2>3, <3>1, Zenon
  <2>5. \E u : u = [k \in 0 .. Len(s) |-> IF k = 0 THEN 0 ELSE 10 * u[k - 1] + s[k]]
    BY <2>4, Zenon
  <2> QED
    BY <2>5
<1>2. ValueOf(s) = g[Len(s)]
  BY DEF ValueOf
<1> HIDE DEF g
<1> SUFFICES ASSUME bad # {}  PROVE FALSE
  BY <1>0, <1>2
<1>4. bad \subseteq Nat
  OBVIOUS
<1> HIDE DEF bad
<1>5. PICK m \in bad : \A y \in bad : m <= y
  BY <1>4, Least
<1>6. m \in 0 .. Len(s) /\ g[m] # h[m]
  BY DEF bad
<1>7. m # 0
  BY <1>1, <1>6
<1>8. m - 1 \in 0 .. Len(s) /\ ~(m <= m - 1) /\ m \in 1 .. Len(s)
  BY <1>0, <1>6, <1>7
<1>9. g[m - 1] = h[m - 1]
  BY <1>5, <1>8 DEF bad
<1>10. g[m] = 10 * g[m - 1] + s[m]
  BY <1>1, <1>6, <1>7
<1> QED
  BY <1>6, <1>8, <1>9, <1>10

\* What a digit more does to the value.
LEMMA ValueSteps ==
  ASSUME NEW s \in Seq(Nat)
  PROVE  /\ ValueOf(s) \in Nat /\ ValueOf(<<>>) = 0
         /\ \A d \in Nat : Append(s, d) \in Seq(Nat) /\ ValueOf(Append(s, d)) = 10 * ValueOf(s) + d
<1>1. ValueOf(<<>>) = 0
  <2> DEFINE e == <<>>
             h == [k \in {0} |-> 0]
  <2>1. e \in Seq(Nat) /\ Len(e) = 0 /\ h[0] = 0
    OBVIOUS
  <2> HIDE DEF e, h
  <2>2. \A k \in 1 .. Len(e) : h[k] = 10 * h[k - 1] + e[k]
    BY <2>1
  <2>3. ValueOf(e) = h[Len(e)]
    BY <2>1, <2>2, ValueIs
  <2> QED
    BY <2>1, <2>3 DEF e
<1>2. ValueOf(s) \in Nat
  <2>1. PICK f \in [0 .. Len(s) -> Nat] : f[0] = 0 /\ \A k \in 1 .. Len(s) : f[k] = 10 * f[k - 1] + s[k]
    BY ValueRuns
  <2>2. ValueOf(s) = f[Len(s)]
    BY <2>1, ValueIs
  <2>3. Len(s) \in 0 .. Len(s)
    OBVIOUS
  <2> QED
    BY <2>1, <2>2, <2>3
<1>3. ASSUME NEW d \in Nat
      PROVE  Append(s, d) \in Seq(Nat) /\ ValueOf(Append(s, d)) = 10 * ValueOf(s) + d
  <2> DEFINE t == Append(s, d)
  <2>1. t \in Seq(Nat) /\ Len(t) = Len(s) + 1 /\ Len(s) \in Nat /\ t[Len(s) + 1] = d
        /\ \A k \in 1 .. Len(s) : t[k] = s[k] /\ k \in 1 .. Len(s) + 1
    OBVIOUS
  <2> HIDE DEF t
  <2>2. PICK f \in [0 .. Len(t) -> Nat] : f[0] = 0 /\ \A k \in 1 .. Len(t) : f[k] = 10 * f[k - 1] + t[k]
    BY <2>1, ValueRuns
  <2>3. ValueOf(t) = f[Len(s) + 1]
    BY <2>1, <2>2, ValueIs
  <2>4. \A k \in 1 .. Len(s) : f[k] = 10 * f[k - 1] + s[k]
    BY <2>1, <2>2
  <2>5. ValueOf(s) = f[Len(s)]
    BY <2>2, <2>4, ValueIs
  <2>6. f[Len(s) + 1] = 10 * f[Len(s)] + d
    <3>1. Len(s) + 1 \in 1 .. Len(t) /\ Len(s) + 1 - 1 = Len(s)
      BY <2>1
    <3> QED
      BY <2>1, <2>2, <3>1
  <2> QED
    BY <2>1, <2>3, <2>5, <2>6 DEF t
<1> QED
  BY <1>1, <1>2, <1>3

\* The powers of ten.
LEMMA TenToSteps ==
  TenTo[0] = 1 /\ \A k \in Nat : TenTo[k] \in Nat /\ TenTo[k] > 0 /\ TenTo[k + 1] = 10 * TenTo[k]
<1> DEFINE V == Nat \ {0}
           known == {0}
           base == [k \in Nat |-> 1]
           back == [k \in Nat |-> k - 1]
           step == [k \in Nat |-> [v \in V |-> 10 * v]]
<1>1. /\ \A k \in Nat : base[k] = 1 /\ back[k] = k - 1 /\ \A v \in V : step[k][v] = 10 * v
      /\ \A k \in Nat : k \notin known <=> k # 0
      /\ \A k \in Nat : k # 0 => k - 1 \in Nat /\ k - 1 < k
      /\ 1 \in V /\ \A v \in V : 10 * v \in V
  OBVIOUS
<1> HIDE DEF V, known, base, back, step
<1>2. Recursive(Nat, V, known, base, back, step)
  BY <1>1 DEF Recursive
<1>3. PICK f \in [Nat -> V] : Follows(f, Nat, known, base, back, step)
  BY <1>2, FollowsExists
<1>4. \A k \in Nat : f[k] = IF k = 0 THEN 1 ELSE 10 * f[k - 1]
  <2>1. ASSUME NEW k \in Nat  PROVE f[k] = IF k = 0 THEN 1 ELSE 10 * f[k - 1]
    <3>1. f[k] = IF k \in known THEN 1 ELSE step[k][f[k - 1]]
      BY <1>1, <1>3 DEF Follows
    <3>2. k # 0 => f[k - 1] \in V
      BY <1>1, <1>3
    <3> QED
      BY <1>1, <3>1, <3>2
  <2> QED
    BY <2>1
<1>5. TenTo = [k \in Nat |-> IF k = 0 THEN 1 ELSE 10 * TenTo[k - 1]]
  <2>1. f = [k \in Nat |-> f[k]]
    BY <1>3
  <2>2. [k \in Nat |-> f[k]] = [k \in Nat |-> IF k = 0 THEN 1 ELSE 10 * f[k - 1]]
    BY <1>4, Zenon
  <2>3. \E g : g = [k \in Nat |-> IF k = 0 THEN 1 ELSE 10 * g[k - 1]]
    BY <2>1, <2>2, Zenon
  <2> QED
    BY <2>3 DEF TenTo
<1>6. \A k \in Nat : TenTo[k] \in Nat /\ TenTo[k] > 0
  <2> DEFINE bad == {k \in Nat : ~(TenTo[k] \in Nat /\ TenTo[k] > 0)}
  <2> SUFFICES ASSUME bad # {}  PROVE FALSE
    OBVIOUS
  <2>1. bad \subseteq Nat
    OBVIOUS
  <2> HIDE DEF bad
  <2>2. PICK m \in bad : \A y \in bad : m <= y
    BY <2>1, Least
  <2>3. m \in Nat /\ ~(TenTo[m] \in Nat /\ TenTo[m] > 0)
    BY DEF bad
  <2>4. m # 0
    BY <1>5, <2>3
  <2>5. m - 1 \in Nat /\ m - 1 \notin bad
    BY <2>2, <2>3, <2>4
  <2>6. TenTo[m - 1] \in Nat /\ TenTo[m - 1] > 0
    BY <2>5 DEF bad
  <2>7. TenTo[m] = 10 * TenTo[m - 1]
    BY <1>5, <2>3, <2>4
  <2> QED
    BY <2>3, <2>6, <2>7
<1>7. \A k \in Nat : TenTo[k + 1] = 10 * TenTo[k]
  <2>1. ASSUME NEW k \in Nat  PROVE TenTo[k + 1] = 10 * TenTo[k]
    <3>1. k + 1 \in Nat /\ k + 1 # 0 /\ k + 1 - 1 = k
      OBVIOUS
    <3> QED
      BY <1>5, <3>1
  <2> QED
    BY <2>1
<1>8. TenTo[0] = 1
  BY <1>5
<1> QED
  BY <1>6, <1>7, <1>8

\* The decimal digits of a number.
LEMMA DecimalSteps ==
  /\ \A k \in Nat : Decimal[k] \in Seq(0 .. 9)
  /\ \A k \in Nat : Decimal[k] = IF k < 10 THEN <<k>> ELSE Append(Decimal[k \div 10], k % 10)
<1> DEFINE V == Seq(0 .. 9)
           known == 0 .. 9
           base == [k \in Nat |-> <<k>>]
           back == [k \in Nat |-> k \div 10]
           step == [k \in Nat |-> [v \in V |-> Append(v, k % 10)]]
<1>1. /\ \A k \in Nat : base[k] = <<k>> /\ back[k] = k \div 10 /\ \A v \in V : step[k][v] = Append(v, k % 10)
      /\ \A k \in Nat : k \in known <=> k < 10
      /\ \A k \in Nat : k \notin known => k \div 10 \in Nat /\ k \div 10 < k
  OBVIOUS
<1>2. (\A k \in Nat : k % 10 \in 0 .. 9) /\ \A v \in V : \A d \in 0 .. 9 : Append(v, d) \in V
  OBVIOUS
<1>3. \A k \in known : <<k>> \in V
  OBVIOUS
<1> HIDE DEF V, known, base, back, step
<1>4. Recursive(Nat, V, known, base, back, step)
  BY <1>1, <1>2, <1>3 DEF Recursive
<1>5. PICK f \in [Nat -> V] : Follows(f, Nat, known, base, back, step)
  BY <1>4, FollowsExists
<1>6. \A k \in Nat : f[k] = IF k < 10 THEN <<k>> ELSE Append(f[k \div 10], k % 10)
  <2>1. ASSUME NEW k \in Nat  PROVE f[k] = IF k < 10 THEN <<k>> ELSE Append(f[k \div 10], k % 10)
    <3>1. f[k] = IF k \in known THEN <<k>> ELSE step[k][f[k \div 10]]
      BY <1>1, <1>5 DEF Follows
    <3>2. k \notin known => f[k \div 10] \in V
      BY <1>1, <1>5
    <3> QED
      BY <1>1, <3>1, <3>2
  <2> QED
    BY <2>1
<1>7. Decimal = [k \in Nat |-> IF k < 10 THEN <<k>> ELSE Append(Decimal[k \div 10], k % 10)]
  <2>1. f = [k \in Nat |-> f[k]]
    BY <1>5
  <2>2. [k \in Nat |-> f[k]] = [k \in Nat |-> IF k < 10 THEN <<k>> ELSE Append(f[k \div 10], k % 10)]
    BY <1>6, Zenon
  <2>3. \E g : g = [k \in Nat |-> IF k < 10 THEN <<k>> ELSE Append(g[k \div 10], k % 10)]
    BY <2>1, <2>2, Zenon
  <2> QED
    BY <2>3 DEF Decimal
<1>8. \A k \in Nat : Decimal[k] = IF k < 10 THEN <<k>> ELSE Append(Decimal[k \div 10], k % 10)
  BY <1>7
<1>9. \A k \in Nat : Decimal[k] \in V
  <2> DEFINE bad == {k \in Nat : Decimal[k] \notin V}
  <2> SUFFICES ASSUME bad # {}  PROVE FALSE
    OBVIOUS
  <2>1. bad \subseteq Nat
    OBVIOUS
  <2> HIDE DEF bad
  <2>2. PICK m \in bad : \A y \in bad : m <= y
    BY <2>1, Least
  <2>3. m \in Nat /\ Decimal[m] \notin V
    BY DEF bad
  <2>4. m \notin known
    BY <1>1, <1>3, <1>8, <2>3
  <2>5. m \div 10 \in Nat /\ m \div 10 \notin bad
    BY <1>1, <2>2, <2>3, <2>4
  <2>6. Decimal[m \div 10] \in V
    BY <2>5 DEF bad
  <2>7. Decimal[m] = Append(Decimal[m \div 10], m % 10)
    BY <1>1, <1>8, <2>3, <2>4
  <2> QED
    BY <1>2, <2>3, <2>6, <2>7
<1> QED
  BY <1>8, <1>9 DEF V

\* A digit more, behind a number that is not zero.
LEMMA DecimalAppends ==
  ASSUME NEW m \in Nat, NEW d \in 0 .. 9, m > 0
  PROVE  Decimal[10 * m + d] = Append(Decimal[m], d)
<1> DEFINE k == 10 * m + d
<1>1. k \in Nat /\ ~(k < 10) /\ k \div 10 = m /\ k % 10 = d
  OBVIOUS
<1> HIDE DEF k
<1>2. Decimal[k] = Append(Decimal[k \div 10], k % 10)
  BY <1>1, DecimalSteps
<1> QED
  BY <1>1, <1>2 DEF k

\* The digits of a number two at a time.
LEMMA PairSteps ==
  \A k \in Nat : PairDigits[k] = IF k >= 100 THEN PairDigits[k \div 100] \o Pair(k % 100)
                                 ELSE IF k >= 10 THEN Pair(k) ELSE <<k>>
<1> DEFINE V == Seq(0 .. 99)
           known == 0 .. 99
           base == [k \in Nat |-> IF k >= 10 THEN Pair(k) ELSE <<k>>]
           back == [k \in Nat |-> k \div 100]
           step == [k \in Nat |-> [v \in V |-> v \o Pair(k % 100)]]
<1>1. /\ \A k \in Nat : /\ base[k] = IF k >= 10 THEN Pair(k) ELSE <<k>>
                        /\ back[k] = k \div 100 /\ \A v \in V : step[k][v] = v \o Pair(k % 100)
      /\ \A k \in Nat : k \in known <=> ~(k >= 100)
      /\ \A k \in Nat : k \notin known => k \div 100 \in Nat /\ k \div 100 < k
  OBVIOUS
<1>2. ASSUME NEW p \in 0 .. 99  PROVE Pair(p) \in V
  <2>1. p \div 10 \in 0 .. 99 /\ p % 10 \in 0 .. 99
    OBVIOUS
  <2> QED
    BY <2>1 DEF Pair
<1>3. (\A k \in Nat : k % 100 \in 0 .. 99) /\ \A k \in known : <<k>> \in V
  OBVIOUS
<1>4. \A v, w \in V : v \o w \in V
  BY ConcatProperties
<1> HIDE DEF V, known, base, back, step
<1>5. Recursive(Nat, V, known, base, back, step)
  <2>1. \A k \in Nat : k \in known => base[k] \in V
    BY <1>1, <1>2, <1>3 DEF known
  <2>2. ASSUME NEW k \in Nat, NEW v \in V  PROVE step[k][v] \in V
    <3>1. Pair(k % 100) \in V
      BY <1>2, <1>3
    <3>2. v \o Pair(k % 100) \in V
      BY <1>4, <3>1, Zenon
    <3>3. step[k][v] = v \o Pair(k % 100)
      BY <1>1, Zenon
    <3> QED
      BY <3>2, <3>3, Zenon
  <2>3. Nat \subseteq Nat /\ \A k \in Nat : k \notin known => back[k] \in Nat /\ back[k] < k
    <3>1. ASSUME NEW k \in Nat, k \notin known  PROVE back[k] \in Nat /\ back[k] < k
      <4>1. back[k] = k \div 100 /\ k \div 100 \in Nat /\ k \div 100 < k
        BY <1>1, <3>1, Zenon
      <4> QED
        BY <4>1, Zenon
    <3> QED
      BY <3>1, Zenon
  <2> QED
    BY <2>1, <2>2, <2>3, Zenon DEF Recursive
<1>6. PICK f \in [Nat -> V] : Follows(f, Nat, known, base, back, step)
  BY <1>5, FollowsExists
<1> DEFINE Chosen(k, v) == IF k >= 100 THEN v \o Pair(k % 100) ELSE IF k >= 10 THEN Pair(k) ELSE <<k>>
<1>7. \A k \in Nat : f[k] = Chosen(k, f[k \div 100])
  <2>1. ASSUME NEW k \in Nat  PROVE f[k] = Chosen(k, f[k \div 100])
    <3>1. f[k] = IF k \in known THEN base[k] ELSE step[k][f[back[k]]]
      BY <1>6, Zenon DEF Follows
    <3>2. /\ back[k] = k \div 100 /\ (k \in known <=> ~(k >= 100))
          /\ base[k] = IF k >= 10 THEN Pair(k) ELSE <<k>>
          /\ k \notin known => k \div 100 \in Nat
      BY <1>1
    <3>3. f[k] = IF k \in known THEN base[k] ELSE step[k][f[k \div 100]]
      BY <3>1, <3>2, Zenon
    <3>4. k \notin known => step[k][f[k \div 100]] = f[k \div 100] \o Pair(k % 100)
      <4>1. k \notin known => f[k \div 100] \in V
        BY <1>6, <3>2
      <4> QED
        BY <1>1, <4>1, Zenon
    <3>5. CASE k >= 100
      BY <3>2, <3>3, <3>4, <3>5, Zenon
    <3>6. CASE ~(k >= 100)
      BY <3>2, <3>3, <3>6, Zenon
    <3> QED
      BY <3>5, <3>6
  <2> QED
    BY <2>1
<1>8. PairDigits = [k \in Nat |-> Chosen(k, PairDigits[k \div 100])]
  <2>1. f = [k \in Nat |-> f[k]]
    BY <1>6
  <2> HIDE DEF Chosen
  <2>2. [k \in Nat |-> f[k]] = [k \in Nat |-> Chosen(k, f[k \div 100])]
    BY <1>7, Zenon
  <2>3. \E g : g = [k \in Nat |-> Chosen(k, g[k \div 100])]
    BY <2>1, <2>2, Zenon
  <2> QED
    BY <2>3 DEF PairDigits, TwoPairs, Chosen
<1> HIDE DEF Chosen
<1>9. \A k \in Nat : PairDigits[k] = Chosen(k, PairDigits[k \div 100])
  BY <1>8
<1> QED
  BY <1>9 DEF Chosen

\* A digit behind a digit.
LEMMA TwoDigits == ASSUME NEW a \in Nat, NEW b \in Nat  PROVE Append(<<a>>, b) = <<a, b>>
<1> DEFINE s == Append(<<a>>, b)
           t == <<a, b>>
<1>1. s \in Seq(Nat) /\ Len(s) = 2 /\ s[1] = a /\ s[2] = b
  OBVIOUS
<1>2. t \in Seq(Nat) /\ Len(t) = 2 /\ t[1] = a /\ t[2] = b
  OBVIOUS
<1> HIDE DEF s, t
<1>3. \A i \in 1 .. Len(s) : s[i] = t[i]
  <2>1. \A i \in 1 .. 2 : i = 1 \/ i = 2
    OBVIOUS
  <2> QED
    BY <1>1, <1>2, <2>1
<1>4. s = t
  BY <1>1, <1>2, <1>3, SeqEqual
<1> QED
  BY <1>4 DEF s, t

\* They are its decimal digits.
LEMMA PairsAreDecimal == \A k \in Nat : PairDigits[k] = Decimal[k]
<1> DEFINE bad == {k \in Nat : PairDigits[k] # Decimal[k]}
<1> SUFFICES ASSUME bad # {}  PROVE FALSE
  OBVIOUS
<1>1. bad \subseteq Nat
  OBVIOUS
<1> HIDE DEF bad
<1>2. PICK m \in bad : \A y \in bad : m <= y
  BY <1>1, Least
<1>3. m \in Nat /\ PairDigits[m] # Decimal[m]
  BY DEF bad
<1>4. m >= 10
  <2>1. ASSUME ~(m >= 10)  PROVE FALSE
    <3>1. m < 10 /\ ~(m >= 100)
      BY <1>3, <2>1
    <3>2. PairDigits[m] = <<m>> /\ Decimal[m] = <<m>>
      BY <1>3, <2>1, <3>1, PairSteps, DecimalSteps
    <3> QED
      BY <1>3, <3>2
  <2> QED
    BY <2>1
<1> DEFINE q == m \div 10
<1>5. q \in Nat /\ q > 0 /\ ~(m < 10) /\ m % 10 \in 0 .. 9
  BY <1>3, <1>4
<1>6. Decimal[m] = Append(Decimal[q], m % 10)
  BY <1>3, <1>5, DecimalSteps
<1>7. CASE m < 100
  <2>1. q < 10 /\ ~(m >= 100)
    BY <1>3, <1>7
  <2>2. Decimal[q] = <<q>>
    BY <1>5, <2>1, DecimalSteps
  <2>3. PairDigits[m] = Pair(m)
    BY <1>3, <1>4, <2>1, PairSteps
  <2>4. Pair(m) = <<q, m % 10>>
    BY DEF Pair
  <2> HIDE DEF q
  <2>5. Append(<<q>>, m % 10) = <<q, m % 10>>
    <3>1. m % 10 \in Nat
      BY <1>5
    <3> QED
      BY <1>5, <3>1, TwoDigits, Zenon
  <2> QED
    BY <1>3, <1>6, <2>2, <2>3, <2>4, <2>5
<1>8. CASE m >= 100
  <2> DEFINE r == m \div 100
             p == m % 100
  <2>1. /\ r \in Nat /\ r < m /\ ~(q < 10) /\ q \div 10 = r /\ q % 10 = p \div 10 /\ m % 10 = p % 10
        /\ q % 10 \in 0 .. 9 /\ ~(m <= r)
    BY <1>3, <1>8
  <2>2. PairDigits[m] = PairDigits[r] \o <<q % 10, m % 10>>
    <3>1. PairDigits[m] = PairDigits[r] \o Pair(p)
      BY <1>3, <1>8, PairSteps
    <3> QED
      BY <2>1, <3>1 DEF Pair
  <2> HIDE DEF r, p
  <2>3. Decimal[q] = Append(Decimal[r], q % 10)
    BY <1>5, <2>1, DecimalSteps
  <2>4. PairDigits[r] = Decimal[r] /\ Decimal[r] \in Seq(0 .. 9)
    BY <1>2, <2>1, DecimalSteps DEF bad
  <2> DEFINE s == Decimal[r]
             a == q % 10
             b == m % 10
  <2>5. s \in Seq(0 .. 9) /\ a \in 0 .. 9 /\ b \in 0 .. 9
    BY <1>5, <2>1, <2>4
  <2>6. PairDigits[m] = s \o <<a, b>> /\ Decimal[m] = Append(Append(s, a), b)
    BY <1>6, <2>2, <2>3, <2>4
  <2> HIDE DEF s, a, b
  <2>7. s \o <<a, b>> = Append(Append(s, a), b)
    BY <2>5
  <2> QED
    BY <1>3, <2>6, <2>7
<1> QED
  BY <1>3, <1>7, <1>8

-----------------------------------------------------------------------------
(* What a number in progress stands for                                    *)

\* The stages of the code, and its number and text with the types they keep.
Stages == {"None", "AfterMinus", "Zero", "Integer", "FractionDot", "Fraction",
           "ExponentMark", "ExponentSign", "Exponent"}

Numbers ==
  [stage : Stages, negative : BOOLEAN, is_real : BOOLEAN, mantissa : Nat, mantissa_full : BOOLEAN,
   decimal_shift : Int, dropped_non_zero : BOOLEAN, first_dropped : -1 .. 9,
   exponent_negative : BOOLEAN, exponent : Nat, big_digits : Seq(0 .. 9)]

Texts ==
  [negative : BOOLEAN, whole : Seq(0 .. 9), fraction : Seq(0 .. 9), down : BOOLEAN, exponent : Seq(0 .. 9)]

\* m is v without its last k digits; what they leave begins with the digit first
\* and is something at all if there is a rest.
Leaves(m, k, first, rest, v) ==
  LET r == v - m * TenTo[k]
  IN  /\ first \in 0 .. 9
      /\ first * TenTo[k - 1] <= r
      /\ r < (first + 1) * TenTo[k - 1]
      /\ rest <=> r # 0

\* The mantissa is v, of so many digits and so many of them behind the dot, or
\* the beginning of it.
Approximates(s, v, places, count) ==
  /\ ~s.mantissa_full => s.mantissa = v /\ s.decimal_shift = -places
  /\ s.mantissa_full =>
       \E k \in 1 .. count : /\ s.decimal_shift = k - places
                             /\ Leaves(s.mantissa, k, s.first_dropped, s.dropped_non_zero, v)

\* The exponent is that of the text, unless that is too large.
ExponentKept(s, t) ==
  /\ s.exponent <= ValueOf(t.exponent)
  /\ s.exponent < ExponentCap => s.exponent = ValueOf(t.exponent)

\* The mantissa has the digits of an integer, or the long digits have them.
WholeKept(s, t) ==
  /\ ~s.mantissa_full => s.big_digits = <<>> /\ Decimal[s.mantissa] = t.whole
  /\ s.mantissa_full => s.big_digits = t.whole /\ ValueOf(t.whole) > MaxI64

\* What each stage says of the number.
StageFits(s, t) ==
  /\ s.is_real <=> s.stage \notin {"AfterMinus", "Zero", "Integer"}
  /\ ~s.is_real => t.fraction = <<>>
  /\ s.stage = "AfterMinus" => ~s.mantissa_full /\ s.mantissa = 0 /\ s.big_digits = <<>> /\ t.whole = <<>>
  /\ s.stage \in {"Zero", "Integer"} => WholeKept(s, t)
  /\ s.stage = "Integer" /\ ~s.mantissa_full => s.mantissa > 0

\* The mantissa stands for the digits on both sides of the dot.
DigitsKept(s, t) ==
  Approximates(s, ValueOf(t.whole \o t.fraction), Len(t.fraction), Len(t.whole \o t.fraction))

\* The number and the text are of their types and have the same signs.
Typed(s, t) ==
  /\ s \in Numbers /\ t \in Texts /\ s.mantissa <= MaxI64
  /\ s.negative = t.negative /\ s.exponent_negative = t.down

\* A number in progress stands for the text read so far.
Reading(s, t) == Typed(s, t) /\ DigitsKept(s, t) /\ ExponentKept(s, t) /\ StageFits(s, t)

\* The first digit that is dropped.
LEMMA LeavesOne ==
  ASSUME NEW m \in Nat, NEW d \in 0 .. 9
  PROVE  Leaves(m, 1, d, d # 0, 10 * m + d)
<1>1. TenTo[0] = 1 /\ TenTo[1] = 10
  <2>1. 0 \in Nat /\ 0 + 1 = 1 /\ 10 * 1 = 10
    OBVIOUS
  <2>2. TenTo[0 + 1] = 10 * TenTo[0]
    BY <2>1, TenToSteps
  <2> QED
    BY <2>1, <2>2, TenToSteps
<1>2. 1 - 1 = 0 /\ (10 * m + d) - m * 10 = d /\ d * 1 <= d /\ d < (d + 1) * 1
  OBVIOUS
<1> QED
  BY <1>1, <1>2 DEF Leaves

\* Every further one.
LEMMA LeavesMore ==
  ASSUME NEW m \in Nat, NEW k \in Nat \ {0}, NEW first, NEW rest \in BOOLEAN, NEW v \in Nat, NEW d \in 0 .. 9,
         Leaves(m, k, first, rest, v)
  PROVE  Leaves(m, k + 1, first, rest \/ d # 0, 10 * v + d)
<1> DEFINE p == TenTo[k]
           q == TenTo[k - 1]
           a == m * p
           b == first * q
           r == v - a
<1>1. /\ first \in 0 .. 9 /\ b <= r /\ r < (first + 1) * q /\ (rest <=> r # 0)
  BY DEF Leaves
<1>2. p \in Nat /\ q \in Nat /\ p = 10 * q /\ TenTo[k + 1] = 10 * p /\ k + 1 - 1 = k
  <2>1. k \in Nat /\ k - 1 \in Nat /\ k - 1 + 1 = k /\ k + 1 - 1 = k
    OBVIOUS
  <2> QED
    BY <2>1, TenToSteps
<1> HIDE DEF p, q
<1>3. /\ m * (10 * p) = 10 * a /\ a \in Nat
      /\ first * p = 10 * b /\ b \in Nat /\ (first + 1) * q = b + q /\ (first + 1) * p = 10 * b + 10 * q
  <2>1. \A x, y \in Nat : x * y \in Nat /\ x * (10 * y) = 10 * (x * y) /\ (x + 1) * y = x * y + y
    OBVIOUS
  <2>2. first \in Nat /\ first + 1 \in Nat
    BY <1>1
  <2>3. first * (10 * q) = 10 * b /\ (first + 1) * (10 * q) = first * (10 * q) + 10 * q /\ 10 * q \in Nat
    BY <1>2, <2>1, <2>2
  <2>4. m * (10 * p) = 10 * a /\ a \in Nat /\ b \in Nat /\ (first + 1) * q = b + q
    BY <1>2, <2>1, <2>2
  <2> QED
    BY <1>2, <2>3, <2>4
<1> HIDE DEF a, b
<1> DEFINE r2 == (10 * v + d) - m * TenTo[k + 1]
<1>4. r2 = 10 * r + d /\ r \in Int
  BY <1>2, <1>3
<1>5. first * p <= r2 /\ r2 < (first + 1) * p /\ (rest \/ d # 0 <=> r2 # 0)
  <2>1. r < b + q /\ b <= r
    BY <1>1, <1>3
  <2>2. r \in Nat
    BY <1>3, <1>4, <2>1
  <2>3. rest \/ d # 0 <=> r2 # 0
    BY <1>1, <1>4, <2>2
  <2> HIDE DEF r, r2
  <2>4. 10 * b <= r2 /\ r2 < 10 * b + 10 * q
    BY <1>2, <1>3, <1>4, <2>1
  <2> QED
    BY <1>3, <2>3, <2>4
<1> HIDE DEF r2
<1>6. first * TenTo[k + 1 - 1] <= r2 /\ r2 < (first + 1) * TenTo[k + 1 - 1]
  BY <1>2, <1>5 DEF p
<1> QED
  BY <1>1, <1>5, <1>6 DEF Leaves, r2

\* What taking a digit does, in a run or by itself.
TakesDigit(s, u, d, fraction) ==
  LET fits == ~s.mantissa_full /\ 10 * s.mantissa + d <= MaxI64
  IN  /\ u \in Numbers
      /\ u.negative = s.negative /\ u.is_real = s.is_real
      /\ u.exponent_negative = s.exponent_negative /\ u.exponent = s.exponent
      /\ fits => /\ ~u.mantissa_full /\ u.mantissa = 10 * s.mantissa + d /\ u.big_digits = s.big_digits
                 /\ u.decimal_shift = IF fraction THEN s.decimal_shift - 1 ELSE s.decimal_shift
      /\ ~fits => /\ u.mantissa_full /\ u.mantissa = s.mantissa
                  /\ u.decimal_shift = IF fraction THEN s.decimal_shift ELSE s.decimal_shift + 1
                  /\ ~fraction =>
                       u.big_digits = Append(IF s.mantissa_full THEN s.big_digits ELSE Decimal[s.mantissa], d)
      /\ ~fits /\ ~s.mantissa_full => u.first_dropped = d /\ (u.dropped_non_zero <=> d # 0)
      /\ s.mantissa_full /\ s.first_dropped >= 0 =>
           u.first_dropped = s.first_dropped /\ (u.dropped_non_zero <=> s.dropped_non_zero \/ d # 0)

\* The fields of a number in progress are what they are said to be.
LEMMA NumberFields ==
  ASSUME NEW s \in Numbers
  PROVE  /\ s.stage \in Stages /\ s.mantissa \in Nat /\ s.decimal_shift \in Int /\ s.first_dropped \in -1 .. 9
         /\ s.exponent \in Nat /\ s.big_digits \in Seq(0 .. 9)
         /\ s.negative \in BOOLEAN /\ s.is_real \in BOOLEAN /\ s.mantissa_full \in BOOLEAN
         /\ s.dropped_non_zero \in BOOLEAN /\ s.exponent_negative \in BOOLEAN
BY DEF Numbers

\* The test before a digit is added is exact, and the one before a run is safe.
LEMMA FitTests ==
  ASSUME NEW m \in Nat, NEW d \in 0 .. 9
  PROVE  /\ m <= (MaxI64 - d) \div 10 <=> 10 * m + d <= MaxI64
         /\ m <= AlwaysFits => 10 * m + d <= MaxI64
BY NumberAssumption DEF AlwaysFits

\* A digit by itself.
LEMMA TakeDigitTakes ==
  ASSUME NEW s \in Numbers, NEW d \in 0 .. 9, NEW fraction \in BOOLEAN
  PROVE  TakesDigit(s, TakeDigit(s, d, fraction), d, fraction) /\ TakeDigit(s, d, fraction).stage = s.stage
<1> DEFINE u == TakeDigit(s, d, fraction)
<1>0. 10 * s.mantissa + d \in Nat /\ s.decimal_shift - 1 \in Int /\ s.decimal_shift + 1 \in Int
  BY NumberFields
<1>1. CASE ~s.mantissa_full /\ s.mantissa <= (MaxI64 - d) \div 10
  <2>1. 10 * s.mantissa + d <= MaxI64
    BY <1>1, FitTests, NumberFields
  <2>2. u = [s EXCEPT !.mantissa = 10 * @ + d, !.decimal_shift = IF fraction THEN @ - 1 ELSE @]
    BY <1>1 DEF TakeDigit
  <2> HIDE DEF u
  <2>3. /\ u \in Numbers /\ u.stage = s.stage
        /\ u.negative = s.negative /\ u.is_real = s.is_real
        /\ u.exponent_negative = s.exponent_negative /\ u.exponent = s.exponent
        /\ u.mantissa = 10 * s.mantissa + d /\ u.big_digits = s.big_digits /\ ~u.mantissa_full
        /\ u.decimal_shift = IF fraction THEN s.decimal_shift - 1 ELSE s.decimal_shift
    BY <1>0, <1>1, <2>2 DEF Numbers
  <2>4. TakesDigit(s, u, d, fraction)
    BY <1>1, <2>1, <2>3, Zenon DEF TakesDigit
  <2> QED
    BY <2>3, <2>4 DEF u
<1>2. CASE ~(~s.mantissa_full /\ s.mantissa <= (MaxI64 - d) \div 10)
  <2> DEFINE digits == IF s.mantissa_full \/ fraction THEN s.big_digits ELSE Decimal[s.mantissa]
             full == IF s.mantissa_full THEN s
                     ELSE [s EXCEPT !.mantissa_full = TRUE, !.dropped_non_zero = FALSE, !.first_dropped = -1]
             shift == IF fraction THEN s.decimal_shift ELSE s.decimal_shift + 1
             big == IF fraction THEN digits ELSE Append(digits, d)
             held == [full EXCEPT !.decimal_shift = shift, !.big_digits = big]
  <2>1. ~(~s.mantissa_full /\ 10 * s.mantissa + d <= MaxI64)
    BY <1>2, FitTests, NumberFields
  <2>2. digits \in Seq(0 .. 9)
    BY NumberFields, DecimalSteps
  <2>3. big \in Seq(0 .. 9) /\ shift \in Int
    <3>1. \A z \in Seq(0 .. 9) : Append(z, d) \in Seq(0 .. 9)
      OBVIOUS
    <3>2. s.decimal_shift \in Int /\ s.decimal_shift + 1 \in Int
      BY NumberFields
    <3> HIDE DEF digits
    <3> QED
      BY <2>2, <3>1, <3>2, Zenon
  <2>4. /\ full \in Numbers /\ full.stage = s.stage /\ full.decimal_shift = s.decimal_shift
        /\ full.negative = s.negative /\ full.is_real = s.is_real
        /\ full.exponent_negative = s.exponent_negative /\ full.exponent = s.exponent
        /\ full.mantissa = s.mantissa /\ full.mantissa_full
        /\ s.mantissa_full => full.first_dropped = s.first_dropped /\ full.dropped_non_zero = s.dropped_non_zero
        /\ ~s.mantissa_full => full.first_dropped = -1 /\ full.dropped_non_zero = FALSE
    <3>1. CASE s.mantissa_full
      <4>1. full = s
        BY <3>1
      <4> HIDE DEF full
      <4> QED
        BY <3>1, <4>1, Zenon DEF Numbers
    <3>2. CASE ~s.mantissa_full
      <4>1. full = [s EXCEPT !.mantissa_full = TRUE, !.dropped_non_zero = FALSE, !.first_dropped = -1]
        BY <3>2
      <4>2. -1 \in -1 .. 9 /\ TRUE \in BOOLEAN /\ FALSE \in BOOLEAN
        OBVIOUS
      <4> HIDE DEF full
      <4>3. full \in Numbers
        BY <4>1, <4>2 DEF Numbers
      <4> QED
        BY <3>2, <4>1, <4>3 DEF Numbers
    <3> QED
      BY <3>1, <3>2
  <2>5. u = Dropped(held, d)
    BY <1>2, <2>4 DEF TakeDigit
  <2> HIDE DEF full, big, shift
  <2>6. /\ held \in Numbers /\ held.stage = s.stage /\ held.decimal_shift = shift /\ held.big_digits = big
        /\ held.negative = s.negative /\ held.is_real = s.is_real
        /\ held.exponent_negative = s.exponent_negative /\ held.exponent = s.exponent
        /\ held.mantissa = s.mantissa /\ held.mantissa_full
        /\ held.first_dropped = full.first_dropped /\ held.dropped_non_zero = full.dropped_non_zero
    BY <2>3, <2>4 DEF Numbers
  <2> HIDE DEF held, u
  <2>7. /\ u \in Numbers /\ u.stage = s.stage /\ u.decimal_shift = shift /\ u.big_digits = big
        /\ u.negative = s.negative /\ u.is_real = s.is_real
        /\ u.exponent_negative = s.exponent_negative /\ u.exponent = s.exponent
        /\ u.mantissa = s.mantissa /\ u.mantissa_full
        /\ u.first_dropped = (IF held.first_dropped < 0 THEN d ELSE held.first_dropped)
        /\ u.dropped_non_zero = (held.dropped_non_zero \/ d # 0)
    <3> DEFINE first == IF held.first_dropped < 0 THEN d ELSE held.first_dropped
               rest == held.dropped_non_zero \/ d # 0
    <3>1. first \in -1 .. 9 /\ rest \in BOOLEAN
      BY <2>6, NumberFields
    <3>2. u = [held EXCEPT !.first_dropped = first, !.dropped_non_zero = rest]
      BY <2>5, <2>6 DEF Dropped
    <3> HIDE DEF first, rest
    <3>3. /\ u \in Numbers /\ u.stage = held.stage /\ u.decimal_shift = held.decimal_shift
          /\ u.big_digits = held.big_digits
          /\ u.negative = held.negative /\ u.is_real = held.is_real
          /\ u.exponent_negative = held.exponent_negative /\ u.exponent = held.exponent
          /\ u.mantissa = held.mantissa /\ u.mantissa_full = held.mantissa_full
          /\ u.first_dropped = first /\ u.dropped_non_zero = rest
      BY <2>6, <3>1, <3>2 DEF Numbers
    <3> QED
      BY <2>6, <3>3, Zenon DEF first, rest
  <2>8. ~s.mantissa_full => u.first_dropped = d /\ (u.dropped_non_zero <=> d # 0)
    <3>1. ASSUME ~s.mantissa_full  PROVE held.first_dropped = -1 /\ held.dropped_non_zero = FALSE
      BY <2>4, <2>6, <3>1
    <3>2. -1 < 0
      OBVIOUS
    <3>3. ASSUME ~s.mantissa_full  PROVE u.first_dropped = d
      BY <2>7, <3>1, <3>2, <3>3
    <3>4. ASSUME ~s.mantissa_full  PROVE u.dropped_non_zero <=> d # 0
      <4>1. u.dropped_non_zero = (FALSE \/ d # 0)
        BY <2>7, <3>1, <3>4, Zenon
      <4> QED
        BY <4>1, Zenon
    <3> QED
      BY <3>3, <3>4, Zenon
  <2>9. s.mantissa_full /\ s.first_dropped >= 0 =>
          u.first_dropped = s.first_dropped /\ (u.dropped_non_zero <=> s.dropped_non_zero \/ d # 0)
    BY <2>4, <2>6, <2>7, NumberFields
  <2>10. ~fraction => u.big_digits = Append(IF s.mantissa_full THEN s.big_digits ELSE Decimal[s.mantissa], d)
    BY <2>7, Zenon DEF big
  <2>11. u.decimal_shift = IF fraction THEN s.decimal_shift ELSE s.decimal_shift + 1
    BY <2>7, Zenon DEF shift
  <2>12. TakesDigit(s, u, d, fraction)
    BY <2>1, <2>7, <2>8, <2>9, <2>10, <2>11, Zenon DEF TakesDigit
  <2> QED
    BY <2>7, <2>12 DEF u
<1> QED
  BY <1>1, <1>2

\* A digit in a run is taken as one by itself would be.
LEMMA TakeInRunTakes ==
  ASSUME NEW s \in Numbers, NEW d \in 0 .. 9, NEW fraction \in BOOLEAN,
         ~s.mantissa_full, s.mantissa <= AlwaysFits, fraction <=> s.stage = "Fraction"
  PROVE  TakesDigit(s, TakeInRun(s, d), d, fraction) /\ TakeInRun(s, d).stage = s.stage
<1> DEFINE u == TakeInRun(s, d)
<1>1. 10 * s.mantissa + d \in Nat /\ s.decimal_shift - 1 \in Int /\ 10 * s.mantissa + d <= MaxI64
  <2>1. s.mantissa \in Nat /\ s.decimal_shift \in Int
    BY NumberFields
  <2>2. 10 * s.mantissa + d <= MaxI64
    BY <2>1, FitTests
  <2> QED
    BY <2>1, <2>2
<1>2. u = [s EXCEPT !.mantissa = 10 * @ + d, !.decimal_shift = IF s.stage = "Fraction" THEN @ - 1 ELSE @]
  BY DEF TakeInRun
<1> HIDE DEF u
<1>3. /\ u \in Numbers /\ u.stage = s.stage
      /\ u.negative = s.negative /\ u.is_real = s.is_real
      /\ u.exponent_negative = s.exponent_negative /\ u.exponent = s.exponent
      /\ u.mantissa = 10 * s.mantissa + d /\ u.big_digits = s.big_digits /\ ~u.mantissa_full
      /\ u.decimal_shift = IF fraction THEN s.decimal_shift - 1 ELSE s.decimal_shift
  BY <1>1, <1>2 DEF Numbers
<1>4. TakesDigit(s, u, d, fraction)
  BY <1>1, <1>3, Zenon DEF TakesDigit
<1> QED
  BY <1>3, <1>4 DEF u

\* The stage is set besides.
LEMMA StageAside ==
  ASSUME NEW s \in Numbers, NEW u, NEW d \in 0 .. 9, NEW fraction \in BOOLEAN, NEW stage \in Stages,
         TakesDigit(s, u, d, fraction)
  PROVE  /\ TakesDigit(s, [u EXCEPT !.stage = stage], d, fraction)
         /\ [u EXCEPT !.stage = stage].stage = stage
<1> DEFINE w == [u EXCEPT !.stage = stage]
<1>1. u \in Numbers
  BY DEF TakesDigit
<1>2. w \in Numbers /\ w.stage = stage
      /\ w.negative = u.negative /\ w.is_real = u.is_real /\ w.mantissa = u.mantissa
      /\ w.mantissa_full = u.mantissa_full /\ w.decimal_shift = u.decimal_shift
      /\ w.dropped_non_zero = u.dropped_non_zero /\ w.first_dropped = u.first_dropped
      /\ w.exponent_negative = u.exponent_negative /\ w.exponent = u.exponent /\ w.big_digits = u.big_digits
  BY <1>1, Zenon DEF Numbers
<1> HIDE DEF w
<1>3. TakesDigit(s, w, d, fraction)
  BY <1>2, Zenon DEF TakesDigit
<1> QED
  BY <1>2, <1>3 DEF w

\* The mantissa goes on standing for the digits.
LEMMA TakesApproximates ==
  ASSUME NEW s \in Numbers, NEW u, NEW d \in 0 .. 9, NEW fraction \in BOOLEAN, TakesDigit(s, u, d, fraction),
         NEW v \in Nat, NEW places \in Nat, NEW count \in Nat, Approximates(s, v, places, count)
  PROVE  Approximates(u, 10 * v + d, IF fraction THEN places + 1 ELSE places, count + 1)
<1> DEFINE there == IF fraction THEN places + 1 ELSE places
<1>1. there \in Nat
  OBVIOUS
<1>2. CASE ~s.mantissa_full /\ 10 * s.mantissa + d <= MaxI64
  <2>1. s.mantissa = v /\ s.decimal_shift = -places
    BY <1>2 DEF Approximates
  <2>2. ~u.mantissa_full /\ u.mantissa = 10 * s.mantissa + d
        /\ u.decimal_shift = IF fraction THEN s.decimal_shift - 1 ELSE s.decimal_shift
    BY <1>2, Zenon DEF TakesDigit
  <2>3. u.mantissa = 10 * v + d /\ u.decimal_shift = -there
    BY <2>1, <2>2
  <2> QED
    BY <2>2, <2>3 DEF Approximates
<1>3. CASE ~s.mantissa_full /\ ~(10 * s.mantissa + d <= MaxI64)
  <2>1. s.mantissa = v /\ s.decimal_shift = -places
    BY <1>3 DEF Approximates
  <2>2. /\ u.mantissa_full /\ u.mantissa = s.mantissa /\ u.first_dropped = d /\ (u.dropped_non_zero <=> d # 0)
        /\ u.decimal_shift = IF fraction THEN s.decimal_shift ELSE s.decimal_shift + 1
    BY <1>3, Zenon DEF TakesDigit
  <2>3. Leaves(v, 1, d, d # 0, 10 * v + d)
    BY LeavesOne
  <2>4. Leaves(u.mantissa, 1, u.first_dropped, u.dropped_non_zero, 10 * v + d)
    BY <2>1, <2>2, <2>3 DEF Leaves
  <2>5. u.decimal_shift = 1 - there /\ 1 \in 1 .. count + 1
    BY <2>1, <2>2
  <2> QED
    BY <2>2, <2>4, <2>5 DEF Approximates
<1>4. CASE s.mantissa_full
  <2>1. PICK k \in 1 .. count : /\ s.decimal_shift = k - places
                                /\ Leaves(s.mantissa, k, s.first_dropped, s.dropped_non_zero, v)
    BY <1>4 DEF Approximates
  <2>2. s.first_dropped \in 0 .. 9 /\ s.first_dropped >= 0
    BY <2>1 DEF Leaves
  <2>3. /\ u.mantissa_full /\ u.mantissa = s.mantissa
        /\ u.first_dropped = s.first_dropped /\ (u.dropped_non_zero <=> s.dropped_non_zero \/ d # 0)
        /\ u.decimal_shift = IF fraction THEN s.decimal_shift ELSE s.decimal_shift + 1
    BY <1>4, <2>2, Zenon DEF TakesDigit
  <2>4. Leaves(s.mantissa, k + 1, s.first_dropped, s.dropped_non_zero \/ d # 0, 10 * v + d)
    <3>1. k \in Nat \ {0} /\ s.mantissa \in Nat /\ s.dropped_non_zero \in BOOLEAN
      BY NumberFields
    <3> QED
      BY <2>1, <3>1, LeavesMore
  <2>5. Leaves(u.mantissa, k + 1, u.first_dropped, u.dropped_non_zero, 10 * v + d)
    BY <2>3, <2>4 DEF Leaves
  <2>6. u.decimal_shift = (k + 1) - there /\ k + 1 \in 1 .. count + 1
    BY <2>1, <2>3, NumberFields
  <2> QED
    BY <2>3, <2>5, <2>6 DEF Approximates
<1> QED
  BY <1>2, <1>3, <1>4, NumberFields

\* Digits put together are digits, and each is worth ten times the one behind it.
LEMMA DigitTexts ==
  /\ <<>> \in Seq(0 .. 9) /\ Len(<<>>) = 0 /\ ValueOf(<<>>) = 0
  /\ \A z \in Seq(0 .. 9) : Len(z) \in Nat /\ z \o <<>> = z /\ ValueOf(z) \in Nat
  /\ \A z \in Seq(0 .. 9) : \A d \in 0 .. 9 :
       /\ Append(z, d) \in Seq(0 .. 9) /\ Len(Append(z, d)) = Len(z) + 1
       /\ ValueOf(Append(z, d)) = 10 * ValueOf(z) + d
  /\ \A z, w \in Seq(0 .. 9) : z \o w \in Seq(0 .. 9) /\ \A d \in 0 .. 9 : z \o Append(w, d) = Append(z \o w, d)
<1>1. <<>> \in Seq(0 .. 9) /\ <<>> \in Seq(Nat) /\ Len(<<>>) = 0
  OBVIOUS
<1>2. ASSUME NEW z \in Seq(0 .. 9)
      PROVE  /\ z \in Seq(Nat) /\ Len(z) \in Nat /\ z \o <<>> = z
             /\ \A d \in 0 .. 9 : d \in Nat /\ Append(z, d) \in Seq(0 .. 9) /\ Len(Append(z, d)) = Len(z) + 1
  <2>1. z \in Seq(Nat)
    <3>1. \A i \in 1 .. Len(z) : z[i] \in Nat
      OBVIOUS
    <3> QED
      BY <3>1
  <2>2. z \o <<>> = z
    OBVIOUS
  <2> QED
    BY <2>1, <2>2
<1>3. ASSUME NEW z \in Seq(0 .. 9), NEW w \in Seq(0 .. 9)
      PROVE  z \o w \in Seq(0 .. 9) /\ \A d \in 0 .. 9 : z \o Append(w, d) = Append(z \o w, d)
  <2>1. z \o w \in Seq(0 .. 9)
    BY ConcatProperties
  <2>2. \A d \in 0 .. 9 : z \o Append(w, d) = Append(z \o w, d)
    OBVIOUS
  <2> QED
    BY <2>1, <2>2
<1>4. ValueOf(<<>>) = 0
  BY <1>1, ValueSteps
<1>5. \A z \in Seq(0 .. 9) : ValueOf(z) \in Nat
  BY <1>2, ValueSteps
<1>6. \A z \in Seq(0 .. 9) : \A d \in 0 .. 9 : ValueOf(Append(z, d)) = 10 * ValueOf(z) + d
  BY <1>2, ValueSteps
<1>7. \A z \in Seq(0 .. 9) : Len(z) \in Nat /\ z \o <<>> = z
  BY <1>2
<1>8. \A z \in Seq(0 .. 9) : \A d \in 0 .. 9 : Append(z, d) \in Seq(0 .. 9) /\ Len(Append(z, d)) = Len(z) + 1
  BY <1>2
<1> QED
  BY <1>1, <1>3, <1>4, <1>5, <1>6, <1>7, <1>8, Zenon

\* One digit by itself.
LEMMA DigitAlone ==
  ASSUME NEW d \in 0 .. 9
  PROVE  /\ <<d>> \in Seq(0 .. 9) /\ <<d>> = Append(<<>>, d) /\ Len(<<d>>) = 1
         /\ ValueOf(<<d>>) = d /\ Decimal[d] = <<d>>
<1>1. <<d>> \in Seq(0 .. 9) /\ <<d>> = Append(<<>>, d) /\ Len(<<d>>) = 1
  OBVIOUS
<1>2. ValueOf(Append(<<>>, d)) = 10 * ValueOf(<<>>) + d
  BY DigitTexts, Zenon
<1>3. 10 * 0 + d = d /\ d \in Nat /\ d < 10
  OBVIOUS
<1>4. ValueOf(<<d>>) = d
  BY <1>1, <1>2, <1>3, DigitTexts
<1>5. Decimal[d] = <<d>>
  BY <1>3, DecimalSteps
<1> QED
  BY <1>1, <1>4, <1>5

\* The fields of a text are digits and signs.
LEMMA TextFields ==
  ASSUME NEW t \in Texts
  PROVE  /\ t.whole \in Seq(0 .. 9) /\ t.fraction \in Seq(0 .. 9) /\ t.exponent \in Seq(0 .. 9)
         /\ t.negative \in BOOLEAN /\ t.down \in BOOLEAN
BY DEF Texts

\* What a number in progress says of its mantissa.
LEMMA ReadingFields ==
  ASSUME NEW s, NEW t, Reading(s, t)
  PROVE  /\ s \in Numbers /\ t \in Texts /\ s.mantissa <= MaxI64
         /\ s.negative = t.negative /\ s.exponent_negative = t.down
         /\ StageFits(s, t) /\ ExponentKept(s, t) /\ DigitsKept(s, t)
BY DEF Reading, Typed

\* A number that does not fit is too large, and so it is with another digit.
LEMMA TooLarge ==
  ASSUME NEW k \in Nat, NEW d \in 0 .. 9
  PROVE  /\ ~(10 * k + d <= MaxI64) => 10 * k + d > MaxI64
         /\ k > MaxI64 => 10 * k + d > MaxI64
BY NumberAssumption

\* A digit of the integer part.
LEMMA WholeDigit ==
  ASSUME NEW s, NEW t, NEW u, NEW w, NEW d \in 0 .. 9, Reading(s, t),
         s.stage = "Integer" \/ (s.stage = "AfterMinus" /\ d # 0),
         TakesDigit(s, u, d, FALSE), u.stage = "Integer", w = [t EXCEPT !.whole = Append(@, d)]
  PROVE  Reading(u, w)
<1>0. /\ s \in Numbers /\ t \in Texts /\ s.mantissa <= MaxI64
      /\ s.negative = t.negative /\ s.exponent_negative = t.down
      /\ StageFits(s, t) /\ ExponentKept(s, t) /\ DigitsKept(s, t)
  BY ReadingFields
<1> USE <1>0
<1>1. s \in Numbers /\ t \in Texts /\ u \in Numbers
  BY DEF TakesDigit
<1>2. /\ s.mantissa \in Nat /\ s.mantissa_full \in BOOLEAN /\ u.mantissa_full \in BOOLEAN
      /\ t.whole \in Seq(0 .. 9) /\ Append(t.whole, d) \in Seq(0 .. 9)
      /\ ValueOf(t.whole) \in Nat /\ ValueOf(Append(t.whole, d)) = 10 * ValueOf(t.whole) + d
  BY <1>1, NumberFields, TextFields, DigitTexts
<1>3. /\ w \in Texts /\ w.whole = Append(t.whole, d) /\ w.fraction = t.fraction
      /\ w.exponent = t.exponent /\ w.negative = t.negative /\ w.down = t.down
  BY <1>1, <1>2 DEF Texts
<1>4. ~s.is_real /\ t.fraction = <<>>
  BY DEF StageFits
<1>5. /\ u.negative = s.negative /\ u.is_real = s.is_real
      /\ u.exponent_negative = s.exponent_negative /\ u.exponent = s.exponent
  BY DEF TakesDigit
<1>6. /\ ~s.mantissa_full /\ 10 * s.mantissa + d <= MaxI64 =>
           ~u.mantissa_full /\ u.mantissa = 10 * s.mantissa + d /\ u.big_digits = s.big_digits
      /\ ~(~s.mantissa_full /\ 10 * s.mantissa + d <= MaxI64) =>
           /\ u.mantissa_full /\ u.mantissa = s.mantissa
           /\ u.big_digits = Append(IF s.mantissa_full THEN s.big_digits ELSE Decimal[s.mantissa], d)
  BY Zenon DEF TakesDigit
<1>7. Typed(u, w)
  <2>1. s.mantissa <= MaxI64 /\ u.mantissa <= MaxI64
    BY <1>6
  <2> QED
    BY <1>1, <1>3, <1>5, <2>1 DEF Typed
<1>8. ExponentKept(u, w)
  BY <1>3, <1>5 DEF ExponentKept
<1>9. Approximates(s, ValueOf(t.whole), 0, Len(t.whole))
  <2>1. t.whole \o <<>> = t.whole /\ Len(<<>>) = 0
    BY <1>2, DigitTexts
  <2> QED
    BY <1>4, <2>1, Zenon DEF DigitsKept
<1>10. DigitsKept(u, w)
  <2>1. Approximates(u, 10 * ValueOf(t.whole) + d, 0, Len(t.whole) + 1)
    <3>1. Len(t.whole) \in Nat /\ 0 \in Nat /\ FALSE \in BOOLEAN
      BY <1>2
    <3>2. Approximates(u, 10 * ValueOf(t.whole) + d, IF FALSE THEN 0 + 1 ELSE 0, Len(t.whole) + 1)
      BY <1>1, <1>2, <1>9, <3>1, TakesApproximates
    <3> QED
      BY <3>2
  <2>2. w.whole \o w.fraction = w.whole /\ Len(w.whole) = Len(t.whole) + 1 /\ Len(w.fraction) = 0
    BY <1>2, <1>3, <1>4, DigitTexts
  <2> QED
    BY <1>2, <1>3, <2>1, <2>2 DEF DigitsKept
<1>11. ASSUME s.stage = "AfterMinus"
       PROVE  ~s.mantissa_full /\ s.mantissa = 0 /\ s.big_digits = <<>> /\ t.whole = <<>> /\ d # 0
  BY <1>11 DEF StageFits
<1>12. ASSUME s.stage = "Integer"
       PROVE  WholeKept(s, t) /\ (~s.mantissa_full => s.mantissa > 0)
  BY <1>12 DEF StageFits
<1>13. ASSUME ~u.mantissa_full
       PROVE  u.big_digits = <<>> /\ Decimal[u.mantissa] = w.whole /\ u.mantissa > 0
  <2>1. ~s.mantissa_full /\ u.mantissa = 10 * s.mantissa + d /\ u.big_digits = s.big_digits
    BY <1>6, <1>13
  <2>2. CASE s.stage = "AfterMinus"
    <3>1. u.mantissa = d /\ u.mantissa > 0 /\ w.whole = <<d>>
      <4>1. 10 * 0 + d = d /\ (d # 0 => d > 0) /\ <<d>> = Append(<<>>, d)
        BY DigitAlone
      <4> QED
        BY <1>3, <1>11, <2>1, <2>2, <4>1
    <3> QED
      BY <1>11, <2>1, <2>2, <3>1, DigitAlone
  <2>3. CASE s.stage = "Integer"
    <3>1. s.mantissa > 0 /\ Decimal[s.mantissa] = t.whole /\ s.big_digits = <<>>
      BY <1>12, <2>1, <2>3 DEF WholeKept
    <3>2. Decimal[10 * s.mantissa + d] = Append(Decimal[s.mantissa], d)
      BY <1>2, <3>1, DecimalAppends
    <3>3. 10 * s.mantissa + d > 0
      BY <1>2, <3>1
    <3> QED
      BY <1>3, <2>1, <3>1, <3>2, <3>3
  <2> QED
    BY <2>2, <2>3
<1>14. ASSUME u.mantissa_full
       PROVE  u.big_digits = w.whole /\ ValueOf(w.whole) > MaxI64
  <2>1. /\ ~(~s.mantissa_full /\ 10 * s.mantissa + d <= MaxI64)
        /\ u.big_digits = Append(IF s.mantissa_full THEN s.big_digits ELSE Decimal[s.mantissa], d)
    BY <1>6, <1>14
  <2>2. s.stage = "Integer"
    <3>1. ASSUME s.stage = "AfterMinus"  PROVE FALSE
      <4>1. 10 * 0 + d <= MaxI64
        BY NumberAssumption
      <4> QED
        BY <1>11, <2>1, <3>1, <4>1
    <3> QED
      BY <3>1
  <2>3. CASE s.mantissa_full
    <3>1. s.big_digits = t.whole /\ ValueOf(t.whole) > MaxI64
      BY <1>12, <2>2, <2>3 DEF WholeKept
    <3>2. 10 * ValueOf(t.whole) + d > MaxI64
      <4>1. \A k \in Nat : k > MaxI64 => 10 * k + d > MaxI64
        BY TooLarge
      <4> QED
        BY <1>2, <3>1, <4>1, Zenon
    <3> QED
      BY <1>2, <1>3, <2>1, <2>3, <3>1, <3>2
  <2>4. CASE ~s.mantissa_full
    <3>1. Decimal[s.mantissa] = t.whole
      BY <1>12, <2>2, <2>4 DEF WholeKept
    <3>2. s.mantissa = ValueOf(t.whole)
      BY <1>9, <2>4 DEF Approximates
    <3>3. 10 * ValueOf(t.whole) + d > MaxI64
      <4>1. \A k \in Nat : ~(10 * k + d <= MaxI64) => 10 * k + d > MaxI64
        BY TooLarge
      <4>2. ~(10 * ValueOf(t.whole) + d <= MaxI64)
        BY <2>1, <2>4, <3>2, Zenon
      <4> QED
        BY <1>2, <4>1, <4>2, Zenon
    <3> QED
      BY <1>2, <1>3, <2>1, <2>4, <3>1, <3>3
  <2> QED
    BY <2>3, <2>4
<1>15. StageFits(u, w)
  <2>1. WholeKept(u, w)
    BY <1>13, <1>14 DEF WholeKept
  <2>2. ~u.is_real /\ w.fraction = <<>>
    BY <1>3, <1>4, <1>5
  <2> QED
    BY <1>13, <2>1, <2>2 DEF StageFits
<1> QED
  BY <1>7, <1>8, <1>10, <1>15 DEF Reading

\* A digit of the fraction.
LEMMA FractionDigit ==
  ASSUME NEW s, NEW t, NEW u, NEW w, NEW d \in 0 .. 9, Reading(s, t), s.stage \in {"FractionDot", "Fraction"},
         TakesDigit(s, u, d, TRUE), u.stage = "Fraction", w = [t EXCEPT !.fraction = Append(@, d)]
  PROVE  Reading(u, w)
<1>0. /\ s \in Numbers /\ t \in Texts /\ s.mantissa <= MaxI64
      /\ s.negative = t.negative /\ s.exponent_negative = t.down
      /\ StageFits(s, t) /\ ExponentKept(s, t) /\ DigitsKept(s, t)
  BY ReadingFields
<1>1. u \in Numbers
  BY DEF TakesDigit
<1> DEFINE z == t.whole \o t.fraction
<1>2. /\ t.whole \in Seq(0 .. 9) /\ t.fraction \in Seq(0 .. 9) /\ Append(t.fraction, d) \in Seq(0 .. 9)
      /\ Len(t.fraction) \in Nat /\ Len(Append(t.fraction, d)) = Len(t.fraction) + 1
  BY <1>0, TextFields, DigitTexts
<1>3. /\ w \in Texts /\ w.whole = t.whole /\ w.fraction = Append(t.fraction, d)
      /\ w.exponent = t.exponent /\ w.negative = t.negative /\ w.down = t.down
  BY <1>0, <1>2 DEF Texts
<1>4. z \in Seq(0 .. 9) /\ t.whole \o Append(t.fraction, d) = Append(z, d)
  BY <1>2, DigitTexts, Zenon
<1>5. ValueOf(z) \in Nat /\ ValueOf(Append(z, d)) = 10 * ValueOf(z) + d /\ Len(z) \in Nat
      /\ Len(Append(z, d)) = Len(z) + 1
  BY <1>4, DigitTexts, Zenon
<1>6. Approximates(s, ValueOf(z), Len(t.fraction), Len(z))
  BY <1>0 DEF DigitsKept
<1> HIDE DEF z
<1>7. /\ u.negative = s.negative /\ u.is_real = s.is_real
      /\ u.exponent_negative = s.exponent_negative /\ u.exponent = s.exponent
  BY DEF TakesDigit
<1>8. Typed(u, w)
  <2>1. u.mantissa <= MaxI64
    <3>1. /\ ~s.mantissa_full /\ 10 * s.mantissa + d <= MaxI64 => u.mantissa = 10 * s.mantissa + d
          /\ ~(~s.mantissa_full /\ 10 * s.mantissa + d <= MaxI64) => u.mantissa = s.mantissa
      BY Zenon DEF TakesDigit
    <3> QED
      BY <1>0, <3>1
  <2> QED
    BY <1>0, <1>1, <1>3, <1>7, <2>1 DEF Typed
<1>9. ExponentKept(u, w)
  BY <1>0, <1>3, <1>7 DEF ExponentKept
<1>10. DigitsKept(u, w)
  <2>1. Approximates(u, 10 * ValueOf(z) + d, IF TRUE THEN Len(t.fraction) + 1 ELSE Len(t.fraction), Len(z) + 1)
    <3>1. TRUE \in BOOLEAN
      OBVIOUS
    <3> QED
      BY <1>0, <1>2, <1>5, <1>6, <3>1, TakesApproximates
  <2>2. w.whole \o w.fraction = Append(z, d) /\ Len(w.fraction) = Len(t.fraction) + 1
    BY <1>2, <1>3, <1>4
  <2> QED
    BY <1>5, <2>1, <2>2 DEF DigitsKept
<1>11. StageFits(u, w)
  <2>1. s.is_real
    BY <1>0 DEF StageFits
  <2> QED
    BY <1>7, <2>1 DEF StageFits
<1> QED
  BY <1>8, <1>9, <1>10, <1>11 DEF Reading

\* A digit of the exponent.
LEMMA ExponentDigit ==
  ASSUME NEW s, NEW t, NEW u, NEW w, NEW d \in 0 .. 9, Reading(s, t),
         s.stage \in {"ExponentMark", "ExponentSign", "Exponent"},
         u = [TakeExponentDigit(s, d) EXCEPT !.stage = "Exponent"], w = [t EXCEPT !.exponent = Append(@, d)]
  PROVE  Reading(u, w)
<1>0. /\ s \in Numbers /\ t \in Texts /\ s.mantissa <= MaxI64
      /\ s.negative = t.negative /\ s.exponent_negative = t.down
      /\ StageFits(s, t) /\ ExponentKept(s, t) /\ DigitsKept(s, t)
  BY ReadingFields
<1> DEFINE e == IF s.exponent < ExponentCap THEN 10 * s.exponent + d ELSE s.exponent
<1>1. s.exponent \in Nat /\ e \in Nat
  BY <1>0, NumberFields
<1>2. u = [s EXCEPT !.exponent = e, !.stage = "Exponent"]
  <2>1. CASE s.exponent < ExponentCap
    BY <2>1 DEF TakeExponentDigit
  <2>2. CASE ~(s.exponent < ExponentCap)
    <3>1. u = [s EXCEPT !.stage = "Exponent"] /\ e = s.exponent
      BY <2>2 DEF TakeExponentDigit
    <3>2. s = [s EXCEPT !.exponent = s.exponent]
      BY <1>0, Zenon DEF Numbers
    <3> HIDE DEF e
    <3> QED
      BY <1>0, <1>1, <3>1, <3>2 DEF Numbers
  <2> QED
    BY <2>1, <2>2
<1>3. /\ t.exponent \in Seq(0 .. 9) /\ Append(t.exponent, d) \in Seq(0 .. 9)
      /\ ValueOf(t.exponent) \in Nat /\ ValueOf(Append(t.exponent, d)) = 10 * ValueOf(t.exponent) + d
  BY <1>0, TextFields, DigitTexts
<1>4. /\ w \in Texts /\ w.whole = t.whole /\ w.fraction = t.fraction
      /\ w.exponent = Append(t.exponent, d) /\ w.negative = t.negative /\ w.down = t.down
  BY <1>0, <1>3 DEF Texts
<1>5. ExponentKept(u, w)
  <2>1. u.exponent = e
    <3> HIDE DEF e
    <3> QED
      BY <1>0, <1>1, <1>2 DEF Numbers
  <2> DEFINE v == ValueOf(t.exponent)
  <2>2. s.exponent <= v /\ (s.exponent < ExponentCap => s.exponent = v)
    BY <1>0 DEF ExponentKept
  <2>3. v \in Nat
    BY <1>3
  <2> HIDE DEF v
  <2>4. e <= 10 * v + d /\ (e < ExponentCap => e = 10 * v + d)
    <3>1. CASE s.exponent < ExponentCap
      <4>1. e = 10 * v + d
        BY <2>2, <3>1
      <4> HIDE DEF e
      <4> QED
        BY <1>1, <4>1
    <3>2. CASE ~(s.exponent < ExponentCap)
      <4>1. e = s.exponent
        BY <3>2
      <4> HIDE DEF e
      <4> QED
        BY <1>1, <2>2, <2>3, <3>2, <4>1
    <3> QED
      BY <3>1, <3>2
  <2> HIDE DEF e
  <2> QED
    BY <1>3, <1>4, <2>1, <2>4 DEF ExponentKept, v
<1> HIDE DEF e
<1>6. /\ u \in Numbers /\ u.stage = "Exponent" /\ u.negative = s.negative /\ u.is_real = s.is_real
      /\ u.mantissa = s.mantissa /\ u.mantissa_full = s.mantissa_full /\ u.decimal_shift = s.decimal_shift
      /\ u.dropped_non_zero = s.dropped_non_zero /\ u.first_dropped = s.first_dropped
      /\ u.exponent_negative = s.exponent_negative
  BY <1>0, <1>1, <1>2 DEF Numbers, Stages
<1>7. Typed(u, w)
  BY <1>0, <1>4, <1>6 DEF Typed
<1>8. DigitsKept(u, w)
  BY <1>0, <1>4, <1>6, Zenon DEF DigitsKept, Approximates
<1>9. StageFits(u, w)
  <2>1. s.is_real
    BY <1>0 DEF StageFits
  <2> QED
    BY <1>6, <2>1 DEF StageFits
<1> QED
  BY <1>5, <1>7, <1>8, <1>9 DEF Reading

\* The dot, or the mark of an exponent.
LEMMA BecomesReal ==
  ASSUME NEW s, NEW t, NEW u, Reading(s, t), NEW stage \in {"FractionDot", "ExponentMark"},
         u = [s EXCEPT !.stage = stage, !.is_real = TRUE]
  PROVE  Reading(u, t)
<1>0. /\ s \in Numbers /\ t \in Texts /\ s.mantissa <= MaxI64
      /\ s.negative = t.negative /\ s.exponent_negative = t.down
      /\ StageFits(s, t) /\ ExponentKept(s, t) /\ DigitsKept(s, t)
  BY ReadingFields
<1>1. stage \in Stages /\ TRUE \in BOOLEAN
  BY DEF Stages
<1>2. /\ u \in Numbers /\ u.stage = stage /\ u.negative = s.negative /\ u.is_real
      /\ u.mantissa = s.mantissa /\ u.mantissa_full = s.mantissa_full /\ u.decimal_shift = s.decimal_shift
      /\ u.dropped_non_zero = s.dropped_non_zero /\ u.first_dropped = s.first_dropped
      /\ u.exponent_negative = s.exponent_negative /\ u.exponent = s.exponent
  BY <1>0, <1>1 DEF Numbers
<1>3. Typed(u, t)
  BY <1>0, <1>2 DEF Typed
<1>4. DigitsKept(u, t)
  BY <1>0, <1>2, Zenon DEF DigitsKept, Approximates
<1>5. StageFits(u, t)
  BY <1>2 DEF StageFits
<1>6. ExponentKept(u, t)
  BY <1>0, <1>2 DEF ExponentKept
<1> QED
  BY <1>3, <1>4, <1>5, <1>6 DEF Reading

\* The sign of an exponent.
LEMMA SignRead ==
  ASSUME NEW s, NEW t, NEW u, NEW w, Reading(s, t), s.stage = "ExponentMark", NEW down \in BOOLEAN,
         u = [s EXCEPT !.stage = "ExponentSign", !.exponent_negative = down], w = [t EXCEPT !.down = down]
  PROVE  Reading(u, w)
<1>0. /\ s \in Numbers /\ t \in Texts /\ s.mantissa <= MaxI64
      /\ s.negative = t.negative /\ s.exponent_negative = t.down
      /\ StageFits(s, t) /\ ExponentKept(s, t) /\ DigitsKept(s, t)
  BY ReadingFields
<1>1. "ExponentSign" \in Stages
  BY DEF Stages
<1>2. /\ u \in Numbers /\ u.stage = "ExponentSign" /\ u.negative = s.negative /\ u.is_real = s.is_real
      /\ u.mantissa = s.mantissa /\ u.mantissa_full = s.mantissa_full /\ u.decimal_shift = s.decimal_shift
      /\ u.dropped_non_zero = s.dropped_non_zero /\ u.first_dropped = s.first_dropped
      /\ u.exponent_negative = down /\ u.exponent = s.exponent
  BY <1>0, <1>1 DEF Numbers
<1>3. /\ w \in Texts /\ w.whole = t.whole /\ w.fraction = t.fraction /\ w.exponent = t.exponent
      /\ w.negative = t.negative /\ w.down = down
  BY <1>0 DEF Texts
<1>4. Typed(u, w)
  BY <1>0, <1>2, <1>3 DEF Typed
<1>5. DigitsKept(u, w)
  BY <1>0, <1>2, <1>3, Zenon DEF DigitsKept, Approximates
<1>6. StageFits(u, w)
  <2>1. s.is_real
    BY <1>0 DEF StageFits
  <2> QED
    BY <1>2, <2>1 DEF StageFits
<1>7. ExponentKept(u, w)
  BY <1>0, <1>2, <1>3 DEF ExponentKept
<1> QED
  BY <1>4, <1>5, <1>6, <1>7 DEF Reading

\* A new number and its text are of their types.
LEMMA NewTyped == NewNumber \in Numbers /\ NoText \in Texts
<1>1. <<>> \in Seq(0 .. 9)
  BY DigitTexts
<1>2. 0 \in Nat /\ 0 \in Int /\ -1 \in -1 .. 9
  OBVIOUS
<1>3. "None" \in Stages /\ FALSE \in BOOLEAN
  BY DEF Stages
<1>4. NewNumber \in Numbers
  BY <1>1, <1>2, <1>3, Zenon DEF NewNumber, Numbers
<1>5. NoText \in Texts
  BY <1>1, <1>3, Zenon DEF NoText, Texts
<1> QED
  BY <1>4, <1>5

\* No digits have no places.
LEMMA NoPlaces == Len(<<>>) = 0 /\ -Len(<<>>) = 0
<1>1. Len(<<>>) = 0
  OBVIOUS
<1> DEFINE k == Len(<<>>)
<1>2. k \in Int /\ k = 0
  BY <1>1
<1> HIDE DEF k
<1>3. -k <= 0 /\ -k >= 0 /\ -k \in Int
  BY <1>2
<1> DEFINE j == -k
<1>4. j \in Int /\ j <= 0 /\ j >= 0
  BY <1>3
<1> HIDE DEF j
<1>5. j = 0
  BY <1>4
<1> QED
  BY <1>1, <1>5 DEF j, k

\* A number that begins with a minus.
LEMMA MinusRead ==
  Reading([NewNumber EXCEPT !.stage = "AfterMinus", !.negative = TRUE], [NoText EXCEPT !.negative = TRUE])
<1> DEFINE s == [NewNumber EXCEPT !.stage = "AfterMinus", !.negative = TRUE]
           t == [NoText EXCEPT !.negative = TRUE]
<1>1. /\ s.stage = "AfterMinus" /\ s.negative = TRUE /\ s.is_real = FALSE /\ s.mantissa = 0
      /\ s.mantissa_full = FALSE /\ s.decimal_shift = 0 /\ s.exponent_negative = FALSE /\ s.exponent = 0
      /\ s.big_digits = <<>>
  BY DEF NewNumber
<1>2. t.negative = TRUE /\ t.whole = <<>> /\ t.fraction = <<>> /\ t.exponent = <<>> /\ t.down = FALSE
  BY DEF NoText
<1>3. s \in Numbers /\ t \in Texts
  <2>1. "AfterMinus" \in Stages
    BY DEF Stages
  <2> QED
    BY <2>1, NewTyped DEF Numbers, Texts
<1> HIDE DEF s, t
<1>4. Typed(s, t)
  <2>1. 0 <= MaxI64
    BY NumberAssumption
  <2> QED
    BY <1>1, <1>2, <1>3, <2>1, Zenon DEF Typed
<1>5. DigitsKept(s, t)
  <2>1. t.whole \o t.fraction = <<>> /\ ValueOf(<<>>) = 0
    BY <1>2, DigitTexts, Zenon
  <2>2. s.mantissa = ValueOf(<<>>) /\ s.decimal_shift = -Len(<<>>)
    BY <1>1, <2>1, NoPlaces
  <2> QED
    BY <1>1, <1>2, <2>1, <2>2, Zenon DEF DigitsKept, Approximates
<1>6. ExponentKept(s, t)
  BY <1>1, <1>2, DigitTexts DEF ExponentKept
<1>7. StageFits(s, t)
  BY <1>1, <1>2 DEF StageFits
<1>8. Reading(s, t)
  BY <1>4, <1>5, <1>6, <1>7 DEF Reading
<1> QED
  BY <1>8 DEF s, t

\* A number whose digits are one so far.
OneDigit(s, t, d) ==
  /\ s \in Numbers /\ t \in Texts /\ s.stage = (IF d = 0 THEN "Zero" ELSE "Integer")
  /\ s.negative = t.negative /\ s.exponent_negative = t.down /\ ~s.is_real
  /\ s.mantissa = d /\ ~s.mantissa_full /\ s.decimal_shift = 0 /\ s.big_digits = <<>>
  /\ t.whole = <<d>> /\ t.fraction = <<>> /\ ExponentKept(s, t)

\* It stands for that digit.
LEMMA OneDigitRead ==
  ASSUME NEW s, NEW t, NEW d \in 0 .. 9, OneDigit(s, t, d)  PROVE Reading(s, t)
<1>1. Typed(s, t)
  BY NumberAssumption DEF Typed, OneDigit
<1>2. DigitsKept(s, t)
  <2>1. ValueOf(<<d>>) = d /\ <<d>> \o <<>> = <<d>>
    BY DigitTexts, DigitAlone
  <2>2. t.whole = <<d>> /\ t.fraction = <<>> /\ s.mantissa = d /\ ~s.mantissa_full /\ s.decimal_shift = 0
    BY DEF OneDigit
  <2>3. s.decimal_shift = -Len(t.fraction)
    BY <2>2, NoPlaces
  <2> QED
    BY <2>1, <2>2, <2>3, Zenon DEF DigitsKept, Approximates
<1>3. StageFits(s, t)
  <2>1. WholeKept(s, t)
    BY DigitAlone DEF WholeKept, OneDigit
  <2>2. d # 0 => d > 0
    OBVIOUS
  <2> QED
    BY <2>1, <2>2 DEF StageFits, OneDigit
<1> QED
  BY <1>1, <1>2, <1>3 DEF Reading, OneDigit

\* A number that begins with a digit.
LEMMA FirstDigit ==
  ASSUME NEW d \in 0 .. 9
  PROVE  Reading([NewNumber EXCEPT !.stage = IF d = 0 THEN "Zero" ELSE "Integer", !.mantissa = d],
                 [NoText EXCEPT !.whole = <<d>>])
<1> DEFINE stage == IF d = 0 THEN "Zero" ELSE "Integer"
           s == [NewNumber EXCEPT !.stage = stage, !.mantissa = d]
           t == [NoText EXCEPT !.whole = <<d>>]
<1>1. stage \in Stages /\ d \in Nat
  BY DEF Stages
<1> HIDE DEF stage
<1>2. /\ s.stage = stage /\ s.negative = FALSE /\ s.is_real = FALSE /\ s.mantissa = d
      /\ s.mantissa_full = FALSE /\ s.decimal_shift = 0 /\ s.exponent_negative = FALSE /\ s.exponent = 0
      /\ s.big_digits = <<>>
  BY DEF NewNumber
<1>3. t.negative = FALSE /\ t.whole = <<d>> /\ t.fraction = <<>> /\ t.exponent = <<>> /\ t.down = FALSE
  BY DEF NoText
<1>4. s \in Numbers
  BY <1>1, NewTyped DEF Numbers
<1>5. t \in Texts
  <2>1. <<d>> \in Seq(0 .. 9)
    BY DigitAlone
  <2> QED
    BY <2>1, NewTyped DEF Texts
<1> HIDE DEF s, t
<1>6. ExponentKept(s, t)
  BY <1>2, <1>3, DigitTexts DEF ExponentKept
<1>7. OneDigit(s, t, d)
  BY <1>2, <1>3, <1>4, <1>5, <1>6 DEF OneDigit, stage
<1>8. Reading(s, t)
  BY <1>7, OneDigitRead
<1> QED
  BY <1>8 DEF s, t, stage

\* A zero behind the minus.
LEMMA MinusZero ==
  ASSUME NEW s, NEW t, Reading(s, t), s.stage = "AfterMinus"
  PROVE  Reading([s EXCEPT !.stage = "Zero"], [t EXCEPT !.whole = <<0>>])
<1>0. /\ s \in Numbers /\ t \in Texts /\ s.mantissa <= MaxI64
      /\ s.negative = t.negative /\ s.exponent_negative = t.down
      /\ StageFits(s, t) /\ ExponentKept(s, t) /\ DigitsKept(s, t)
  BY ReadingFields
<1> DEFINE u == [s EXCEPT !.stage = "Zero"]
           w == [t EXCEPT !.whole = <<0>>]
<1>1. ~s.is_real /\ t.fraction = <<>> /\ ~s.mantissa_full /\ s.mantissa = 0 /\ s.big_digits = <<>> /\ t.whole = <<>>
  BY <1>0 DEF StageFits
<1>2. s.decimal_shift = 0
  <2>1. s.decimal_shift = -Len(t.fraction)
    BY <1>0, <1>1 DEF DigitsKept, Approximates
  <2> QED
    BY <1>1, <2>1, NoPlaces
<1>3. u \in Numbers /\ u.stage = "Zero" /\ u.negative = s.negative /\ u.is_real = s.is_real
      /\ u.mantissa = s.mantissa /\ u.mantissa_full = s.mantissa_full /\ u.decimal_shift = s.decimal_shift
      /\ u.exponent_negative = s.exponent_negative /\ u.exponent = s.exponent /\ u.big_digits = s.big_digits
  BY <1>0 DEF Numbers, Stages
<1>4. 0 \in 0 .. 9 /\ <<0>> \in Seq(0 .. 9)
  BY DigitAlone
<1>5. /\ w \in Texts /\ w.whole = <<0>> /\ w.fraction = t.fraction /\ w.exponent = t.exponent
      /\ w.negative = t.negative /\ w.down = t.down
  BY <1>0, <1>4 DEF Texts
<1> HIDE DEF u, w
<1>6. ExponentKept(u, w)
  BY <1>0, <1>3, <1>5 DEF ExponentKept
<1>7. OneDigit(u, w, 0)
  BY <1>0, <1>1, <1>2, <1>3, <1>5, <1>6 DEF OneDigit
<1>8. Reading(u, w)
  BY <1>4, <1>7, OneDigitRead
<1> QED
  BY <1>8 DEF u, w

\* The end of the interval that is reported.
Rounded(m, first, rest) == IF rest /\ first >= 5 /\ m < MaxI64 THEN m + 1 ELSE m

\* It is the nearest number of so many digits less, or the lower one at the edge.
Nearest(v, kept, k) ==
  \/ 2 * (v - kept * TenTo[k]) \in -TenTo[k] .. TenTo[k]
  \/ kept = MaxI64 /\ v - kept * TenTo[k] \in 0 .. TenTo[k]

\* What is left of a number behind the digits kept is at most half a unit of the
\* last of them once it is rounded, or all of a unit at the edge.
LEMMA NearestEnd ==
  ASSUME NEW m \in Nat, NEW k \in Nat \ {0}, NEW first, NEW rest \in BOOLEAN, NEW v \in Nat,
         Leaves(m, k, first, rest, v), m <= MaxI64
  PROVE  Nearest(v, Rounded(m, first, rest), k)
<1> DEFINE kept == Rounded(m, first, rest)
           p == TenTo[k]
           q == TenTo[k - 1]
           a == m * p
           b == first * q
           r == v - a
<1>1. /\ first \in 0 .. 9 /\ b <= r /\ r < (first + 1) * q /\ (rest <=> r # 0)
  BY DEF Leaves
<1>2. p \in Nat /\ q \in Nat /\ q > 0 /\ p = 10 * q
  <2>1. k \in Nat /\ k - 1 \in Nat /\ k - 1 + 1 = k
    OBVIOUS
  <2> QED
    BY <2>1, TenToSteps
<1>0. kept = (IF rest /\ first >= 5 /\ m < MaxI64 THEN m + 1 ELSE m)
  BY DEF Rounded
<1> HIDE DEF p, q, kept
<1>3. /\ a \in Nat /\ (m + 1) * p = a + p /\ b \in Nat /\ (first + 1) * q = b + q
      /\ b <= 9 * q /\ (first >= 5 => b >= 5 * q) /\ (~(first >= 5) => b <= 4 * q)
  <2>1. \A x, y \in Nat : x * y \in Nat /\ (x + 1) * y = x * y + y
    OBVIOUS
  <2>2. first \in Nat
    BY <1>1
  <2>3. \A i \in 0 .. 9 : i * q <= 9 * q /\ (i >= 5 => i * q >= 5 * q) /\ (~(i >= 5) => i * q <= 4 * q)
    <3>1. \A i \in 0 .. 9 : i = 0 \/ i = 1 \/ i = 2 \/ i = 3 \/ i = 4 \/ i = 5 \/ i = 6 \/ i = 7 \/ i = 8 \/ i = 9
      OBVIOUS
    <3> QED
      BY <1>2, <3>1
  <2>4. a \in Nat /\ (m + 1) * p = a + p
    BY <1>2, <2>1
  <2>5. b \in Nat /\ (first + 1) * q = b + q
    BY <1>2, <2>1, <2>2
  <2> QED
    BY <1>1, <2>3, <2>4, <2>5
<1> HIDE DEF a, b
<1>4. r \in Nat /\ r < 10 * q
  BY <1>1, <1>2, <1>3
<1>5. v - m * p = r /\ v - (m + 1) * p = r - p
  BY <1>2, <1>3 DEF a
<1> HIDE DEF r
<1>6. CASE rest /\ first >= 5 /\ m < MaxI64
  <2>1. r >= 5 * q /\ kept = m + 1
    BY <1>0, <1>1, <1>2, <1>3, <1>4, <1>6
  <2>2. 2 * (r - p) \in -p .. p
    BY <1>2, <1>4, <2>1
  <2> QED
    BY <1>5, <2>1, <2>2 DEF p, kept, Nearest
<1>7. CASE ~rest \/ ~(first >= 5)
  <2>1. kept = m /\ r < 5 * q
    BY <1>0, <1>1, <1>2, <1>3, <1>4, <1>7
  <2>2. 2 * r \in -p .. p
    BY <1>2, <1>4, <2>1
  <2> QED
    BY <1>5, <2>1, <2>2 DEF p, kept, Nearest
<1>8. CASE ~(m < MaxI64)
  <2>1. kept = MaxI64 /\ kept = m
    BY <1>0, <1>8, NumberAssumption
  <2>2. r \in 0 .. p
    BY <1>2, <1>4
  <2> QED
    BY <1>5, <2>1, <2>2 DEF p, kept, Nearest
<1> QED
  BY <1>6, <1>7, <1>8

\* A number in progress is what was read of it.
NumberInv == n.stage # "None" => Reading(n, text)

\* A step that is not the end of a number leaves one in progress.
LEMMA ReadingStep ==
  ASSUME NumberInv, Next  PROVE End \/ (n'.stage # "None" /\ Reading(n', text'))
<1>1. ASSUME n.stage # "None"  PROVE Reading(n, text) /\ n \in Numbers /\ text \in Texts
  BY <1>1, ReadingFields DEF NumberInv
<1>2. CASE Minus
  <2>1. n'.stage = "AfterMinus"
    BY <1>2 DEF Minus, NewNumber
  <2> QED
    BY <1>2, <2>1, MinusRead DEF Minus
<1>3. ASSUME NEW d \in Digits, StartDigit(d)  PROVE n'.stage # "None" /\ Reading(n', text')
  <2>1. n'.stage # "None"
    BY <1>3 DEF StartDigit, NewNumber
  <2>2. d \in 0 .. 9
    BY NumberAssumption
  <2> QED
    BY <1>3, <2>1, <2>2, FirstDigit DEF StartDigit
<1>4. CASE Dot \/ Mark
  <2>1. n.stage # "None"
    BY <1>4 DEF Dot, Mark
  <2>2. PICK stage \in {"FractionDot", "ExponentMark"} : n' = [n EXCEPT !.stage = stage, !.is_real = TRUE]
    BY <1>4 DEF Dot, Mark
  <2>3. n'.stage = stage
    BY <1>1, <2>1, <2>2 DEF Numbers
  <2>4. Reading(n', text)
    BY <1>1, <2>1, <2>2, BecomesReal
  <2> QED
    BY <1>4, <2>3, <2>4 DEF Dot, Mark
<1>5. ASSUME NEW b \in Signs, Sign(b)  PROVE n'.stage # "None" /\ Reading(n', text')
  <2>1. n.stage = "ExponentMark" /\ n.stage # "None"
    BY <1>5 DEF Sign
  <2> DEFINE down == b = "-"
  <2>2. down \in BOOLEAN
    OBVIOUS
  <2>3. n' = [n EXCEPT !.stage = "ExponentSign", !.exponent_negative = down] /\ text' = [text EXCEPT !.down = down]
    BY <1>5 DEF Sign
  <2> HIDE DEF down
  <2>4. n'.stage = "ExponentSign"
    BY <1>1, <2>1, <2>3 DEF Numbers
  <2>5. Reading(n', text')
    BY <1>1, <2>1, <2>2, <2>3, SignRead
  <2> QED
    BY <2>4, <2>5
<1>6. ASSUME NEW d \in Digits, RunDigit(d)  PROVE n'.stage # "None" /\ Reading(n', text')
  <2>1. d \in 0 .. 9 /\ ~n.mantissa_full /\ n.mantissa <= AlwaysFits /\ n' = TakeInRun(n, d)
    BY <1>6, NumberAssumption DEF RunDigit
  <2>2. CASE n.stage = "Integer" /\ text' = [text EXCEPT !.whole = Append(@, d)]
    <3>1. FALSE \in BOOLEAN /\ (FALSE <=> n.stage = "Fraction")
      BY <2>2
    <3>2. TakesDigit(n, n', d, FALSE) /\ n'.stage = "Integer"
      BY <1>1, <2>1, <2>2, <3>1, TakeInRunTakes
    <3>3. Reading(n', text')
      BY <1>1, <2>1, <2>2, <3>2, WholeDigit
    <3> QED
      BY <3>2, <3>3
  <2>3. CASE n.stage = "Fraction" /\ text' = [text EXCEPT !.fraction = Append(@, d)]
    <3>1. TRUE \in BOOLEAN /\ (TRUE <=> n.stage = "Fraction")
      BY <2>3
    <3>2. TakesDigit(n, n', d, TRUE) /\ n'.stage = "Fraction"
      BY <1>1, <2>1, <2>3, <3>1, TakeInRunTakes
    <3>3. Reading(n', text')
      BY <1>1, <2>1, <2>3, <3>2, FractionDigit
    <3> QED
      BY <3>2, <3>3
  <2> QED
    BY <1>6, <2>2, <2>3 DEF RunDigit
<1>7. ASSUME NEW d \in Digits, Digit(d)  PROVE n'.stage # "None" /\ Reading(n', text')
  <2>1. d \in 0 .. 9 /\ FALSE \in BOOLEAN /\ TRUE \in BOOLEAN
        /\ "Integer" \in Stages /\ "Fraction" \in Stages
    BY NumberAssumption DEF Stages
  <2>2. n.stage # "None"
    BY <1>7 DEF Digit
  <2>3. TakesDigit(n, TakeDigit(n, d, FALSE), d, FALSE) /\ TakeDigit(n, d, FALSE).stage = n.stage
        /\ TakesDigit(n, TakeDigit(n, d, TRUE), d, TRUE)
    BY <1>1, <2>1, <2>2, TakeDigitTakes
  <2>4. CASE /\ n.stage = "AfterMinus" /\ d = 0
             /\ n' = [n EXCEPT !.stage = "Zero"] /\ text' = [text EXCEPT !.whole = <<d>>]
    <3>1. n'.stage = "Zero"
      BY <1>1, <2>4 DEF Numbers
    <3> QED
      BY <1>1, <2>4, <3>1, MinusZero
  <2>5. CASE /\ n.stage = "AfterMinus" /\ d # 0 /\ n' = [TakeDigit(n, d, FALSE) EXCEPT !.stage = "Integer"]
             /\ text' = [text EXCEPT !.whole = <<d>>]
    <3>1. TakesDigit(n, n', d, FALSE) /\ n'.stage = "Integer"
      <4> DEFINE u == TakeDigit(n, d, FALSE)
      <4>1. TakesDigit(n, u, d, FALSE) /\ n \in Numbers /\ n' = [u EXCEPT !.stage = "Integer"]
        BY <1>1, <2>2, <2>3, <2>5
      <4> HIDE DEF u
      <4>2. TakesDigit(n, [u EXCEPT !.stage = "Integer"], d, FALSE) /\ [u EXCEPT !.stage = "Integer"].stage = "Integer"
        BY <2>1, <4>1, StageAside
      <4> QED
        BY <4>1, <4>2
    <3>2. text.whole = <<>> /\ <<d>> = Append(<<>>, d)
      <4>1. StageFits(n, text)
        BY <1>1, <2>2, ReadingFields
      <4> QED
        BY <2>1, <2>5, <4>1, DigitAlone DEF StageFits
    <3>3. text' = [text EXCEPT !.whole = Append(@, d)]
      BY <2>5, <3>2
    <3>4. Reading(n', text')
      BY <1>1, <2>1, <2>5, <3>1, <3>3, WholeDigit
    <3> QED
      BY <3>1, <3>4
  <2>6. CASE n.stage = "Integer" /\ n' = TakeDigit(n, d, FALSE) /\ text' = [text EXCEPT !.whole = Append(@, d)]
    <3>1. TakesDigit(n, n', d, FALSE) /\ n'.stage = "Integer"
      BY <2>3, <2>6
    <3>2. Reading(n', text')
      BY <1>1, <2>1, <2>6, <3>1, WholeDigit
    <3> QED
      BY <3>1, <3>2
  <2>7. CASE /\ n.stage \in {"FractionDot", "Fraction"} /\ n' = [TakeDigit(n, d, TRUE) EXCEPT !.stage = "Fraction"]
             /\ text' = [text EXCEPT !.fraction = Append(@, d)]
    <3>1. TakesDigit(n, n', d, TRUE) /\ n'.stage = "Fraction"
      <4> DEFINE u == TakeDigit(n, d, TRUE)
      <4>1. TakesDigit(n, u, d, TRUE) /\ n \in Numbers /\ n' = [u EXCEPT !.stage = "Fraction"]
        BY <1>1, <2>2, <2>3, <2>7
      <4> HIDE DEF u
      <4>2. TakesDigit(n, [u EXCEPT !.stage = "Fraction"], d, TRUE)
            /\ [u EXCEPT !.stage = "Fraction"].stage = "Fraction"
        BY <2>1, <4>1, StageAside
      <4> QED
        BY <4>1, <4>2
    <3>2. Reading(n', text')
      BY <1>1, <2>1, <2>2, <2>7, <3>1, FractionDigit
    <3> QED
      BY <3>1, <3>2
  <2>8. CASE /\ n.stage \in {"ExponentMark", "ExponentSign", "Exponent"}
             /\ n' = [TakeExponentDigit(n, d) EXCEPT !.stage = "Exponent"]
             /\ text' = [text EXCEPT !.exponent = Append(@, d)]
    <3>1. Reading(n', text')
      BY <1>1, <2>1, <2>2, <2>8, ExponentDigit
    <3>2. n'.stage = "Exponent"
      BY <1>1, <2>2, <2>8 DEF Numbers, TakeExponentDigit
    <3> QED
      BY <3>1, <3>2
  <2> QED
    BY <1>7, <2>4, <2>5, <2>6, <2>7, <2>8, Zenon DEF Digit
<1> QED
  BY <1>2, <1>3, <1>4, <1>5, <1>6, <1>7 DEF Next

\* What a number in progress says at its end.
LEMMA EndFields ==
  ASSUME NumberInv, End
  PROVE  /\ Reading(n, text) /\ n \in Numbers /\ text \in Texts /\ n'.stage = "None" /\ text' = text
         /\ n'.exponent = n.exponent
         /\ value' = IF n.is_real THEN RealValue(n) ELSE IntegerValue(n)
<1>1. n.stage # "None"
  BY DEF End
<1>2. Reading(n, text) /\ n \in Numbers /\ text \in Texts
  BY <1>1, ReadingFields DEF NumberInv
<1>3. n'.stage = "None" /\ n'.exponent = n.exponent
  BY <1>2 DEF End, Numbers
<1> QED
  BY <1>2, <1>3 DEF End

\* An integer at its end.
LEMMA IntegerAtEnd ==
  ASSUME NumberInv, End, ~n.is_real
  PROVE  /\ n.mantissa_full =>
              value' = [kind |-> "BigInt", negative |-> text.negative, digits |-> text.whole]
              /\ ValueOf(text.whole) > MaxI64
         /\ ~n.mantissa_full =>
              /\ value' = [kind |-> IF TextValue \in -MaxI32 - 1 .. MaxI32 THEN "I32" ELSE "I64", value |-> TextValue]
              /\ Decimal[ValueOf(text.whole)] = text.whole
<1>1. /\ n \in Numbers /\ text \in Texts /\ n.negative = text.negative
      /\ StageFits(n, text) /\ DigitsKept(n, text) /\ value' = IntegerValue(n)
  BY EndFields, ReadingFields
<1>2. n.stage \in {"Zero", "Integer"} /\ WholeKept(n, text) /\ text.fraction = <<>>
  BY <1>1 DEF StageFits, End
<1>3. text.whole \in Seq(0 .. 9) /\ n.mantissa_full \in BOOLEAN /\ text.whole \o <<>> = text.whole /\ MaxI64 >= 0
      /\ ValueOf(<<>>) = 0 /\ MaxI64 \in Nat
  BY <1>1, TextFields, NumberFields, DigitTexts, NumberAssumption
<1>4. ASSUME n.mantissa_full
      PROVE  value' = [kind |-> "BigInt", negative |-> text.negative, digits |-> text.whole]
             /\ ValueOf(text.whole) > MaxI64
  <2>1. n.big_digits = text.whole /\ ValueOf(text.whole) > MaxI64
    BY <1>2, <1>4 DEF WholeKept
  <2>2. n.big_digits # <<>>
    <3>1. ~(0 > MaxI64)
      BY <1>3
    <3> QED
      BY <1>3, <2>1, <3>1
  <2> QED
    BY <1>1, <2>1, <2>2 DEF IntegerValue
<1>5. ASSUME ~n.mantissa_full
      PROVE  /\ value' = [kind |-> IF TextValue \in -MaxI32 - 1 .. MaxI32 THEN "I32" ELSE "I64", value |-> TextValue]
             /\ Decimal[ValueOf(text.whole)] = text.whole
  <2>1. n.big_digits = <<>> /\ Decimal[n.mantissa] = text.whole
    BY <1>2, <1>5 DEF WholeKept
  <2>2. n.mantissa = ValueOf(text.whole \o text.fraction)
    BY <1>1, <1>5 DEF DigitsKept, Approximates
  <2>3. n.mantissa = ValueOf(text.whole)
    BY <1>2, <1>3, <2>2
  <2>4. Signed(n, n.mantissa) = TextValue
    BY <1>1, <2>3 DEF Signed, TextValue
  <2> QED
    BY <1>1, <2>1, <2>3, <2>4 DEF IntegerValue
<1> QED
  BY <1>4, <1>5

\* It is exact.
LEMMA ExactAtEnd == ASSUME NumberInv, End  PROVE IntegersExact'
<1>1. text' = text /\ TextValue' = TextValue
  BY EndFields DEF TextValue
<1>2. CASE n.is_real
  <2>1. value'.kind = "F64"
    BY <1>2, EndFields DEF RealValue
  <2> QED
    BY <2>1 DEF IntegersExact
<1>3. CASE ~n.is_real /\ n.mantissa_full
  <2>1. /\ value' = [kind |-> "BigInt", negative |-> text.negative, digits |-> text.whole]
        /\ ValueOf(text.whole) > MaxI64
    BY <1>3, IntegerAtEnd
  <2>2. value'.kind = "BigInt" /\ value'.negative = text.negative /\ value'.digits = text.whole
    BY <2>1
  <2> QED
    BY <1>1, <2>1, <2>2 DEF IntegersExact
<1>4. CASE ~n.is_real /\ ~n.mantissa_full
  <2>1. value' = [kind |-> IF TextValue \in -MaxI32 - 1 .. MaxI32 THEN "I32" ELSE "I64", value |-> TextValue]
    BY <1>4, IntegerAtEnd
  <2>2. /\ value'.value = TextValue
        /\ value'.kind = IF TextValue \in -MaxI32 - 1 .. MaxI32 THEN "I32" ELSE "I64"
    BY <2>1
  <2> QED
    BY <1>1, <2>2 DEF IntegersExact
<1> QED
  BY <1>2, <1>3, <1>4, EndFields, NumberFields

\* It is written as it was read.
LEMMA WrittenAtEnd == ASSUME NumberInv, End  PROVE WrittenAsRead'
<1>1. text' = text /\ TextValue' = TextValue /\ text \in Texts
  BY EndFields DEF TextValue
<1>2. CASE n.is_real
  <2>1. value'.kind = "F64"
    BY <1>2, EndFields DEF RealValue
  <2> QED
    BY <2>1 DEF WrittenAsRead
<1>3. CASE ~n.is_real /\ n.mantissa_full
  <2>1. value' = [kind |-> "BigInt", negative |-> text.negative, digits |-> text.whole]
    BY <1>3, IntegerAtEnd
  <2>2. value'.kind = "BigInt"
    BY <2>1
  <2> QED
    BY <2>2 DEF WrittenAsRead
<1>4. CASE ~n.is_real /\ ~n.mantissa_full
  <2>1. value' = [kind |-> IF TextValue \in -MaxI32 - 1 .. MaxI32 THEN "I32" ELSE "I64", value |-> TextValue]
        /\ Decimal[ValueOf(text.whole)] = text.whole
    BY <1>4, IntegerAtEnd
  <2>2. value'.value = TextValue
    BY <2>1
  <2> DEFINE m == ValueOf(text.whole)
             v == TextValue
  <2>3. m \in Nat /\ Decimal[m] = text.whole /\ text.negative \in BOOLEAN /\ v = IF text.negative THEN -m ELSE m
    <3>1. m \in Nat /\ text.negative \in BOOLEAN
      BY <1>1, TextFields, DigitTexts
    <3> QED
      BY <2>1, <3>1 DEF TextValue
  <2>4. PairDigits[m] = text.whole
    BY <2>3, PairsAreDecimal
  <2> HIDE DEF m, v
  <2>5. (v < 0 <=> text.negative /\ v # 0) /\ (IF v < 0 THEN -v ELSE v) = m
    BY <2>3
  <2>6. WrittenInteger(v) = [negative |-> text.negative /\ v # 0, digits |-> text.whole]
    <3>1. (v < 0) = (text.negative /\ v # 0)
      BY <2>3, <2>5
    <3>2. PairDigits[IF v < 0 THEN -v ELSE v] = text.whole
      BY <2>4, <2>5
    <3> QED
      BY <3>1, <3>2, Zenon DEF WrittenInteger
  <2>7. WrittenInteger(TextValue) = [negative |-> text.negative /\ TextValue # 0, digits |-> text.whole]
    BY <2>6 DEF v
  <2> QED
    BY <1>1, <2>2, <2>7 DEF WrittenAsRead
<1> QED
  BY <1>2, <1>3, <1>4, EndFields, NumberFields

\* A number with a fraction or an exponent is the nearest.
LEMMA NearestAtEnd == ASSUME NumberInv, End  PROVE RealsNearest'
<1>1. text' = text /\ text \in Texts /\ n \in Numbers /\ n'.exponent = n.exponent
  BY EndFields
<1>2. CASE ~n.is_real
  <2>1. value'.kind # "F64"
    <3>1. ASSUME n.mantissa_full  PROVE value'.kind = "BigInt"
      BY <1>2, <3>1, IntegerAtEnd
    <3>2. ASSUME ~n.mantissa_full  PROVE value'.kind \in {"I32", "I64"}
      BY <1>2, <3>2, IntegerAtEnd
    <3> QED
      BY <1>1, <3>1, <3>2, NumberFields
  <2> QED
    BY <2>1 DEF RealsNearest
<1>3. CASE n.is_real
  <2> DEFINE up == n.mantissa_full /\ n.dropped_non_zero /\ n.first_dropped >= 5 /\ n.mantissa < MaxI64
             kept == IF up THEN n.mantissa + 1 ELSE n.mantissa
             e == IF n.exponent_negative THEN -n.exponent ELSE n.exponent
             z == text.whole \o text.fraction
             v == ValueOf(z)
             places == Len(text.fraction)
  <2>1. value' = [kind |-> "F64", negative |-> n.negative, mantissa |-> kept, e10 |-> n.decimal_shift + e]
    BY <1>3, EndFields DEF RealValue
  <2>2. n.negative = text.negative /\ n.exponent_negative = text.down /\ n.mantissa <= MaxI64
        /\ ExponentKept(n, text) /\ Approximates(n, v, places, Len(z))
    BY EndFields, ReadingFields DEF DigitsKept
  <2>3. v \in Nat /\ places \in Nat /\ Len(z) \in Nat
    <3>1. text.whole \in Seq(0 .. 9) /\ text.fraction \in Seq(0 .. 9)
      BY <1>1, TextFields
    <3>2. z \in Seq(0 .. 9) /\ Len(text.fraction) \in Nat
      BY <3>1, DigitTexts, Zenon
    <3> HIDE DEF z
    <3> QED
      BY <3>2, DigitTexts
  <2>4. /\ n.mantissa \in Nat /\ n.decimal_shift \in Int /\ n.exponent \in Nat /\ n.first_dropped \in -1 .. 9
        /\ n.mantissa_full \in BOOLEAN /\ n.dropped_non_zero \in BOOLEAN
    BY <1>1, NumberFields
  <2>5. e \in Int
    BY <2>4
  <2> DEFINE dropped == n.decimal_shift + e - e + places
  <2>6. /\ dropped \in 0 .. Len(z)
        /\ \/ 2 * (v - kept * TenTo[dropped]) \in -TenTo[dropped] .. TenTo[dropped]
           \/ kept = MaxI64 /\ v - kept * TenTo[dropped] \in 0 .. TenTo[dropped]
    <3>1. dropped = n.decimal_shift + places
      <4> HIDE DEF e, places
      <4> QED
        BY <2>3, <2>4, <2>5
    <3>2. CASE ~n.mantissa_full
      <4>1. kept = v /\ n.decimal_shift = -places
        BY <2>2, <3>2 DEF Approximates
      <4> HIDE DEF e, places, v, kept, z
      <4>2. n.decimal_shift + places = 0
        BY <2>3, <4>1
      <4>3. dropped = 0 /\ TenTo[0] = 1
        BY <3>1, <4>2, TenToSteps
      <4> HIDE DEF dropped
      <4>4. v - kept * 1 = 0
        BY <2>3, <4>1
      <4>5. 2 * 0 \in -1 .. 1 /\ 0 \in 0 .. Len(z)
        BY <2>3
      <4> QED
        BY <4>3, <4>4, <4>5
    <3>3. CASE n.mantissa_full
      <4>1. PICK k \in 1 .. Len(z) : /\ n.decimal_shift = k - places
                                     /\ Leaves(n.mantissa, k, n.first_dropped, n.dropped_non_zero, v)
        BY <2>2, <3>3 DEF Approximates
      <4>2. up \in BOOLEAN /\ (up <=> n.dropped_non_zero /\ n.first_dropped >= 5 /\ n.mantissa < MaxI64)
        BY <3>3
      <4>3. kept \in Nat
        BY <2>4
      <4>4. kept = IF up THEN n.mantissa + 1 ELSE n.mantissa
        OBVIOUS
      <4> HIDE DEF e, places, v, kept, z, up
      <4>5. k \in Nat \ {0} /\ k \in 0 .. Len(z) /\ n.decimal_shift + places = k
        BY <2>3, <4>1
      <4>6. dropped = k
        BY <3>1, <4>5
      <4> HIDE DEF dropped
      <4>7. \/ 2 * (v - kept * TenTo[k]) \in -TenTo[k] .. TenTo[k]
            \/ kept = MaxI64 /\ v - kept * TenTo[k] \in 0 .. TenTo[k]
        <5> DEFINE m == n.mantissa
                   first == n.first_dropped
                   rest == n.dropped_non_zero
        <5>1. m \in Nat /\ rest \in BOOLEAN /\ m <= MaxI64 /\ Leaves(m, k, first, rest, v)
          BY <2>2, <2>4, <4>1
        <5>2. kept = Rounded(m, first, rest)
          BY <4>2, <4>4 DEF Rounded
        <5> HIDE DEF m, first, rest
        <5>3. k \in Nat \ {0} /\ v \in Nat
          BY <2>3, <4>5
        <5>4. Nearest(v, Rounded(m, first, rest), k)
          BY <5>1, <5>3, NearestEnd
        <5> QED
          BY <5>2, <5>4 DEF Nearest
      <4> QED
        BY <4>5, <4>6, <4>7
    <3> QED
      BY <2>4, <3>2, <3>3
  <2>7. /\ value'.negative = text.negative /\ value'.mantissa = kept /\ value'.e10 = n.decimal_shift + e
        /\ e = IF text.down THEN -n.exponent ELSE n.exponent
    BY <2>1, <2>2
  <2>8. n.exponent <= ValueOf(text.exponent) /\ (n.exponent < ExponentCap => n.exponent = ValueOf(text.exponent))
    BY <2>2 DEF ExponentKept
  <2>9. value'.e10 - e + places = dropped
    <3>1. value'.e10 = n.decimal_shift + e
      BY <2>7
    <3> HIDE DEF e, places, z, v, kept, up
    <3>2. \A a, b, c \in Int : (a + b) - b + c = a + b - b + c
      OBVIOUS
    <3>3. n.decimal_shift \in Int /\ e \in Int /\ places \in Int
      BY <2>3, <2>4, <2>5
    <3>4. (n.decimal_shift + e) - e + places = dropped
      BY <3>2, <3>3
    <3> HIDE DEF dropped
    <3> QED
      BY <3>1, <3>4, Zenon
  <2> HIDE DEF kept, dropped, e, v
  <2>10. (IF text'.down THEN -n'.exponent ELSE n'.exponent) = e
    BY <1>1, <2>7
  <2>11. value'.e10 - (IF text'.down THEN -n'.exponent ELSE n'.exponent) + Len(text'.fraction) = dropped
    BY <1>1, <2>9, <2>10, Zenon
  <2>12. /\ value'.negative = text'.negative
         /\ n'.exponent < ExponentCap => n'.exponent = ValueOf(text'.exponent)
         /\ n'.exponent <= ValueOf(text'.exponent)
         /\ dropped \in 0 .. Len(text'.whole \o text'.fraction)
         /\ ValueOf(text'.whole \o text'.fraction) - value'.mantissa * TenTo[dropped] = v - kept * TenTo[dropped]
    BY <1>1, <2>6, <2>7, <2>8, Zenon DEF v
  <2> QED
    BY <2>6, <2>7, <2>11, <2>12, Zenon DEF RealsNearest
<1> QED
  BY <1>1, <1>2, <1>3, NumberFields

\* What holds of the number reported holds until the next one.
LEMMA ReportedStep ==
  ASSUME NumberInv, [Next]_nvars, IntegersExact /\ RealsNearest /\ WrittenAsRead
  PROVE  (NumberInv /\ IntegersExact /\ RealsNearest /\ WrittenAsRead)'
<1>1. CASE End
  <2>1. NumberInv'
    BY <1>1, EndFields DEF NumberInv
  <2> QED
    BY <1>1, <2>1, ExactAtEnd, NearestAtEnd, WrittenAtEnd
<1>2. CASE n'.stage # "None" /\ Reading(n', text')
  <2>1. ~Reported'
    BY <1>2 DEF Reported
  <2> QED
    BY <1>2, <2>1 DEF NumberInv, IntegersExact, RealsNearest, WrittenAsRead
<1>3. CASE UNCHANGED nvars
  <2>1. n' = n /\ text' = text /\ value' = value
    BY <1>3 DEF nvars
  <2> QED
    BY <2>1 DEF NumberInv, IntegersExact, RealsNearest, WrittenAsRead, Reported, TextValue
<1> QED
  BY <1>1, <1>2, <1>3, ReadingStep

\* All three hold from the first number on.
LEMMA NumbersAreExact == Spec => [](IntegersExact /\ RealsNearest /\ WrittenAsRead)
<1> DEFINE Inv == NumberInv /\ IntegersExact /\ RealsNearest /\ WrittenAsRead
<1>1. Init => Inv
  BY DEF Init, NumberInv, NewNumber, IntegersExact, RealsNearest, WrittenAsRead, Reported
<1>2. Inv /\ [Next]_nvars => Inv'
  BY ReportedStep
<1> QED
  BY <1>1, <1>2, PTL DEF Spec

\* An integer is reported with its exact value, in the narrowest kind it fits,
\* or with all its digits, whatever was read before it.
THEOREM IntegersAreExact == Spec => []IntegersExact
BY NumbersAreExact, PTL

\* A fraction or a number with an exponent is rounded from the nearest decimal
\* the mantissa can hold, however many digits are dropped.
THEOREM RealsAreNearest == Spec => []RealsNearest
BY NumbersAreExact, PTL

\* An integer that is written again has the digits that were read.
THEOREM WrittenIsAsRead == Spec => []WrittenAsRead
BY NumbersAreExact, PTL
=============================================================================
