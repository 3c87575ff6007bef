---------------------------- MODULE FdlibmProofs ----------------------------
(***************************************************************************)
(* Proofs about Fdlibm: rounding, square roots, scaling and remainders do  *)
(* what is said of them for every double of every format, in both builds:  *)
(* the one the Makefile makes, where the words are exchanged on a machine  *)
(* whose low word comes first, and the one that readme:84 asks for.        *)
(*                                                                         *)
(* A double is taken as Of(sign, field of the exponent, fraction).  Powers *)
(* of two go by the name Pow: to the provers it is an operator about which *)
(* they know the lemmas, and nothing else.                                 *)
(***************************************************************************)
EXTENDS Fdlibm, TLAPS, FiniteSetTheorems, FunctionTheorems

\* Induction over the numbers that a set holds.
LEMMA NatSetInduction ==
  ASSUME NEW S, 0 \in S, \A n \in Nat : n \in S => n + 1 \in S
  PROVE \A n \in Nat : n \in S
<1> SUFFICES ASSUME NEW a \in Nat, a \notin S PROVE FALSE
  OBVIOUS
<1>1. PICK f : f = [x_ \in 0 .. a |-> IF x_ \in S THEN x_ + 1 ELSE x_]
  OBVIOUS
<1>2. f \in [0 .. a -> 0 .. a]
  <2>1. ASSUME NEW x_ \in 0 .. a PROVE (IF x_ \in S THEN x_ + 1 ELSE x_) \in 0 .. a
    OBVIOUS
  <2> QED BY <1>1, <2>1
<1>3. ASSUME NEW x_ \in 0 .. a, NEW y \in 0 .. a, f[x_] = f[y] PROVE x_ = y
  BY <1>1, <1>3
<1>4. f \in Injection(0 .. a, 0 .. a)
  BY <1>2, <1>3, Fun_IsInj
<1>5. f \in Surjection(0 .. a, 0 .. a)
  <2>1. IsFiniteSet(0 .. a) BY FS_Interval
  <2> QED BY <1>4, <2>1, FS_Injection
<1>6. \A t \in 0 .. a : \E x_ \in 0 .. a : f[x_] = t
  BY <1>5 DEF Surjection
<1>7. 0 \in 0 .. a OBVIOUS
<1> QED BY <1>1, <1>6, <1>7

\* 2^n.
Pow(n) == 2 ^ n

\* Of the subsets of 1 .. n + 1 half have n + 1.
LEMMA PowSubsets ==
  ASSUME NEW n \in Nat
  PROVE  Pow(n) \in Nat /\ Pow(n + 1) = Pow(n) + Pow(n)
<1> DEFINE A == SUBSET (1 .. n)
           B == {T \in SUBSET (1 .. n + 1) : n + 1 \in T}
           f == [T \in A |-> T \cup {n + 1}]
<1>1. IsFiniteSet(1 .. n) /\ Cardinality(1 .. n) = n
  BY FS_Interval
<1>2. IsFiniteSet(1 .. n + 1) /\ Cardinality(1 .. n + 1) = n + 1
  BY FS_Interval
<1>3. IsFiniteSet(A) /\ Cardinality(A) = 2 ^ n
  BY <1>1, FS_SUBSET
<1>4. Cardinality(SUBSET (1 .. n + 1)) = 2 ^ (n + 1)
  BY <1>2, FS_SUBSET
<1>5. f \in Bijection(A, B)
  <2>1. ASSUME NEW T \in A PROVE T \cup {n + 1} \in B /\ n + 1 \notin T
    OBVIOUS
  <2>2. ASSUME NEW T \in B PROVE T \ {n + 1} \in A /\ (T \ {n + 1}) \cup {n + 1} = T
    OBVIOUS
  <2>3. f \in Surjection(A, B)
    <3>1. f \in [A -> B] BY <2>1
    <3>2. \A T \in B : \E R \in A : f[R] = T BY <2>2
    <3> QED BY <3>1, <3>2, Fun_IsSurj
  <2>4. f \in Injection(A, B)
    <3>1. f \in [A -> B] BY <2>1
    <3>2. ASSUME NEW Q \in A, NEW R \in A, f[Q] = f[R] PROVE Q = R
      <4>1. Q \cup {n + 1} = R \cup {n + 1} BY <3>2
      <4>2. n + 1 \notin Q /\ n + 1 \notin R BY <2>1
      <4> QED BY <4>1, <4>2
    <3> QED BY <3>1, <3>2, Fun_IsInj
  <2> QED BY <2>3, <2>4 DEF Bijection
<1>6. IsFiniteSet(B) /\ Cardinality(B) = Cardinality(A)
  <2>1. ExistsBijection(A, B)
    BY <1>5 DEF ExistsBijection
  <2> HIDE DEF A, B, f
  <2> QED BY <1>3, <2>1, FS_Bijection
<1>7. SUBSET (1 .. n + 1) = A \cup B /\ A \cap B = {}
  <2>1. ASSUME NEW T \in SUBSET (1 .. n + 1), n + 1 \notin T PROVE T \in A
    BY <2>1
  <2>2. \A T \in A : T \in SUBSET (1 .. n + 1) /\ n + 1 \notin T
    OBVIOUS
  <2> QED BY <2>1, <2>2
<1>8. Cardinality(A) \in Nat /\ Cardinality({}) = 0
  BY <1>3, FS_CardinalityType, FS_EmptySet
<1>9. Cardinality(A \cup B) = Cardinality(A) + Cardinality(B) - Cardinality(A \cap B)
  <2> HIDE DEF A, B, f
  <2> QED BY <1>3, <1>6, FS_Union
<1> QED
  <2> HIDE DEF A, B, f
  <2>0. Cardinality(A \cap B) = 0 BY <1>7, <1>8
  <2>1. Cardinality(A \cup B) = Cardinality(A) + Cardinality(A)
    BY <2>0, <1>6, <1>8, <1>9
  <2>2. Pow(n) = Cardinality(A) /\ Pow(n + 1) = Cardinality(A \cup B)
    BY <1>3, <1>4, <1>7 DEF Pow
  <2> QED BY <2>1, <2>2, <1>8

\* The powers of two are positive numbers, each twice the one before.
LEMMA PowType ==
  ASSUME NEW n \in Nat
  PROVE  Pow(n) \in Nat /\ Pow(n) > 0 /\ Pow(0) = 1 /\ Pow(1) = 2 /\ Pow(n + 1) = 2 * Pow(n)
<1> DEFINE S == {m \in Nat : Pow(m) > 0}
<1>1. Pow(0) = 1 /\ Pow(1) = 2 BY DEF Pow
<1>2. ASSUME NEW m \in Nat, m \in S PROVE m + 1 \in S
  BY <1>2, PowSubsets
<1>3. n \in S
  <2> HIDE DEF S
  <2>1. 0 \in S BY <1>1 DEF S
  <2> QED BY <2>1, <1>2, NatSetInduction
<1> QED BY <1>1, <1>3, PowSubsets

\* Exponents are added.
LEMMA PowSum ==
  ASSUME NEW m \in Nat, NEW n \in Nat
  PROVE  Pow(m + n) = Pow(m) * Pow(n)
<1> DEFINE S == {k \in Nat : Pow(m + k) = Pow(m) * Pow(k)}
<1>1. 0 \in S BY PowType
<1>2. ASSUME NEW k \in Nat, k \in S PROVE k + 1 \in S
  <2>1. Pow(m + k) = Pow(m) * Pow(k) BY <1>2
  <2>2. Pow(k + 1) = 2 * Pow(k) /\ Pow(k) \in Nat /\ Pow(m) \in Nat
    BY PowType
  <2>3. Pow((m + k) + 1) = 2 * Pow(m + k) BY PowType
  <2>4. Pow(m + (k + 1)) = 2 * (Pow(m) * Pow(k))
    BY <2>1, <2>3
  <2>5. Pow(m) * Pow(k + 1) = 2 * (Pow(m) * Pow(k))
    BY <2>2
  <2> QED BY <2>4, <2>5
<1>3. n \in S
  <2> HIDE DEF S
  <2> QED BY <1>1, <1>2, NatSetInduction
<1> QED BY <1>3

\* A larger exponent.
LEMMA PowOrder ==
  ASSUME NEW m \in Nat, NEW n \in Nat, m < n
  PROVE  Pow(m) < Pow(n) /\ 2 * Pow(m) <= Pow(n)
<1>1. n - (m + 1) \in Nat /\ n = (m + 1) + (n - (m + 1))
  OBVIOUS
<1>2. Pow(n) = Pow(m + 1) * Pow(n - (m + 1))
  BY <1>1, PowSum
<1>3. Pow(n - (m + 1)) \in Nat /\ Pow(n - (m + 1)) >= 1
  BY <1>1, PowType
<1>4. Pow(m) \in Nat /\ Pow(m) > 0 /\ Pow(m + 1) = 2 * Pow(m) /\ Pow(m + 1) \in Nat
  BY PowType
<1>5. \A a \in Nat, b \in Nat : b >= 1 => a * b >= a
  OBVIOUS
<1>6. Pow(n) >= Pow(m + 1) BY <1>2, <1>3, <1>4, <1>5
<1> QED BY <1>2, <1>3, <1>4, <1>6

-----------------------------------------------------------------------------
\* Quotient and remainder.
LEMMA DivMod ==
  ASSUME NEW a \in Int, NEW b \in Nat, b > 0
  PROVE  /\ a = b * (a \div b) + (a % b) /\ a \div b \in Int
         /\ a % b \in Nat /\ 0 <= a % b /\ a % b < b
         /\ a >= 0 => a \div b \in Nat /\ a \div b <= a /\ a % b <= a
OBVIOUS

\* No other quotient and remainder will do.
LEMMA DivModUnique ==
  ASSUME NEW a \in Int, NEW b \in Nat, b > 0, NEW q \in Int, NEW r \in Int,
         0 <= r, r < b, a = b * q + r
  PROVE  a \div b = q /\ a % b = r
OBVIOUS

\* Quotients are in the order of what is divided.
LEMMA DivLess ==
  ASSUME NEW a \in Int, NEW b \in Nat, b > 0, NEW c \in Int
  PROVE  /\ a < b * c <=> a \div b < c
         /\ b * c <= a <=> c <= a \div b
OBVIOUS

\* The numbers of the format, named so that the provers see no power.
Hi == Pow(HighBits)

\* The number of fractions: the bits behind the leading one.
Fr == Pow(FracBits)

\* The sizes of a format, from FormatAssumption: a high word is the sign, the field
\* of the exponent and the high bits of the fraction.
LEMMA Format ==
  /\ HighBits \in Nat /\ HighBits >= 2 /\ WordBits \in Nat /\ ExpBits \in Nat /\ ExpBits >= 3
  /\ WordBits = HighBits + ExpBits + 1
  /\ FracBits \in Nat /\ FracBits = HighBits + WordBits
  /\ Bias \in Nat /\ Bias > FracBits
  /\ SignBit \in Nat /\ SignBit > 0 /\ Word \in Nat /\ Word = 2 * SignBit
  /\ Hi \in Nat /\ Hi >= 4 /\ Fr \in Nat /\ Fr = Hi * Word
  /\ SignBit = (2 * Bias + 2) * Hi
<1>1. WordBits \in Nat /\ ExpBits \in Nat /\ HighBits = WordBits - 1 - ExpBits /\ HighBits > 0
      /\ Bias > FracBits /\ HighBits + 3 < WordBits
  BY FormatAssumption DEF HighBits
<1>2. HighBits \in Nat /\ ExpBits >= 3 /\ WordBits = HighBits + ExpBits + 1
  BY <1>1
<1>3. FracBits = HighBits + WordBits /\ FracBits \in Nat
  BY <1>1, <1>2 DEF FracBits
<1>4. Bias = Pow(ExpBits - 1) - 1 /\ Word = Pow(WordBits) /\ SignBit = Pow(WordBits - 1)
  BY DEF Bias, Word, SignBit, Pow
<1>5. ExpBits - 1 \in Nat /\ WordBits - 1 \in Nat
  BY <1>1, <1>2
<1>6. Bias \in Nat /\ Pow(ExpBits) = 2 * Bias + 2
  <2>1. Pow(ExpBits - 1) \in Nat /\ Pow(ExpBits - 1) > 0 /\ Pow((ExpBits - 1) + 1) = 2 * Pow(ExpBits - 1)
    BY <1>5, PowType
  <2>2. (ExpBits - 1) + 1 = ExpBits BY <1>1
  <2> QED BY <2>1, <2>2, <1>4
<1>7. SignBit \in Nat /\ SignBit > 0 /\ Word = 2 * SignBit /\ Word \in Nat
  <2>1. SignBit \in Nat /\ SignBit > 0 /\ Pow((WordBits - 1) + 1) = 2 * SignBit
    BY <1>4, <1>5, PowType
  <2>2. (WordBits - 1) + 1 = WordBits BY <1>1
  <2> QED BY <2>1, <2>2, <1>4
<1>8. Hi \in Nat /\ Fr \in Nat
  BY <1>2, <1>3, PowType DEF Hi, Fr
<1>9. Fr = Hi * Word
  BY <1>1, <1>2, <1>3, <1>4, PowSum DEF Hi, Fr
<1>10. SignBit = (2 * Bias + 2) * Hi
  <2>1. WordBits - 1 = ExpBits + HighBits
    BY <1>1, <1>2
  <2> QED BY <2>1, <1>1, <1>2, <1>4, <1>6, PowSum DEF Hi
<1>11. HighBits >= 2
  <2>1. Far \in Nat /\ Far > Pow(ExpBits) + 2 * FracBits /\ Far + Pow(ExpBits) < SignBit
    BY FarAssumption DEF Pow
  <2>2. 2 * Pow(ExpBits) < SignBit
    BY <2>1, <1>3, <1>6, <1>7
  <2>3. SUFFICES ASSUME HighBits = 1 PROVE FALSE
    BY <1>1, <1>2
  <2>4. Hi = 2 BY <2>3, PowType DEF Hi
  <2>5. SignBit = 2 * Pow(ExpBits)
    BY <2>4, <1>10, <1>6
  <2> QED BY <2>2, <2>5, <1>6
<1>12. Hi >= 4
  <2>1. Pow(2) = 4 BY PowType, 1 \in Nat, 1 + 1 = 2
  <2>2. HighBits = 2 \/ 2 < HighBits BY <1>2, <1>11
  <2>3. CASE 2 < HighBits
    BY <2>1, <2>3, <1>2, <1>8, PowOrder DEF Hi
  <2> QED BY <2>1, <2>2, <2>3 DEF Hi
<1> QED BY <1>1, <1>2, <1>3, <1>6, <1>7, <1>8, <1>9, <1>10, <1>11, <1>12

\* What the definitions of Doubles say in these terms.
LEMMA PowersAre ==
  /\ 2 ^ HighBits = Hi /\ 2 ^ FracBits = Fr /\ 2 ^ WordBits = Word /\ 2 ^ (WordBits - 1) = SignBit
  /\ 2 ^ ExpBits = 2 * Bias + 2
  /\ Infinity = (2 * Bias + 1) * Fr
<1>1. 2 ^ HighBits = Hi /\ 2 ^ FracBits = Fr /\ 2 ^ WordBits = Word /\ 2 ^ (WordBits - 1) = SignBit
  BY DEF Hi, Fr, Pow, Word, SignBit
<1>2. ExpBits - 1 \in Nat /\ (ExpBits - 1) + 1 = ExpBits
  BY Format
<1>3. Pow((ExpBits - 1) + 1) = 2 * Pow(ExpBits - 1) /\ Pow(ExpBits - 1) \in Nat
  BY <1>2, PowType
<1>4. 2 ^ ExpBits = Pow(ExpBits) /\ Bias = Pow(ExpBits - 1) - 1
  BY DEF Pow, Bias
<1>5. 2 ^ ExpBits = 2 * Bias + 2 BY <1>2, <1>3, <1>4
<1>6. Infinity = (2 * Bias + 1) * Fr
  <2>1. Infinity = (2 ^ ExpBits - 1) * Fr
    BY <1>1 DEF Infinity
  <2>2. 2 ^ ExpBits - 1 = 2 * Bias + 1
    BY <1>5, Format
  <2> QED BY <2>1, <2>2
<1> QED BY <1>1, <1>5, <1>6

\* All magnitudes.
All == SignBit * Word

\* The magnitudes of the doubles that are not finite are the last Fr of them.
LEMMA AllIs == All \in Nat /\ All = (2 * Bias + 2) * Fr /\ Infinity \in Nat /\ Infinity < All
<1>1. All \in Nat /\ All = (2 * Bias + 2) * (Hi * Word)
  <2> DEFINE q == 2 * Bias + 2
  <2>1. q \in Nat /\ Hi \in Nat /\ Word \in Nat /\ SignBit = q * Hi
    BY Format
  <2> HIDE DEF q
  <2>2. (q * Hi) * Word = q * (Hi * Word) /\ (q * Hi) * Word \in Nat
    BY <2>1
  <2> QED BY <2>1, <2>2 DEF All, q
<1>2. Fr \in Nat /\ Fr > 0 /\ Fr = Hi * Word
  <2>1. \A a \in Nat, b \in Nat : a >= 4 /\ b > 0 => a * b > 0
    OBVIOUS
  <2> QED BY <2>1, Format
<1>3. All = (2 * Bias + 2) * Fr BY <1>1, <1>2
<1>4. (2 * Bias + 2) * Fr = (2 * Bias + 1) * Fr + Fr /\ (2 * Bias + 1) * Fr \in Nat
  BY <1>2, Format
<1> QED BY <1>1, <1>2, <1>3, <1>4, PowersAre

\* A word is its sign and the rest.
LEMMA SignIs ==
  ASSUME NEW i \in 0 .. Word - 1
  PROVE  /\ i % SignBit \in 0 .. SignBit - 1
         /\ Negative(i) => Sign(i) = SignBit /\ i % SignBit = i - SignBit
         /\ ~Negative(i) => Sign(i) = 0 /\ i % SignBit = i
         /\ i = Sign(i) + (i % SignBit)
         /\ Negative(i) <=> i >= SignBit
<1>1. SignBit \in Nat /\ SignBit > 0 /\ i \in Nat /\ i < 2 * SignBit
  BY Format
<1>2. i = SignBit * (i \div SignBit) + (i % SignBit) /\ i % SignBit \in Nat /\ i % SignBit < SignBit
  BY <1>1, DivMod
<1>3. ASSUME i >= SignBit PROVE i % SignBit = i - SignBit
  BY <1>1, <1>3, DivModUnique, i = SignBit * 1 + (i - SignBit)
<1>4. ASSUME i < SignBit PROVE i % SignBit = i
  BY <1>1, <1>4, DivModUnique, i = SignBit * 0 + i
<1> QED BY <1>1, <1>2, <1>3, <1>4 DEF Sign, Negative

\* Double(negative, m) is the double with this sign and magnitude.
LEMMA DoubleIs ==
  ASSUME NEW n \in BOOLEAN, NEW m \in 0 .. All - 1
  PROVE  /\ Double(n, m) \in AllDoubles
         /\ Magnitude(Double(n, m)) = m
         /\ Negative(Double(n, m).hi) <=> n
         /\ Double(n, m).hi % SignBit = m \div Word
         /\ Double(n, m).lo = m % Word
         /\ m \div Word \in 0 .. SignBit - 1
<1> DEFINE h == m \div Word
           s == IF n THEN SignBit ELSE 0
<1>1. Word \in Nat /\ Word > 0 /\ SignBit \in Nat /\ SignBit > 0 /\ Word = 2 * SignBit
  BY Format
<1>2. m \in Nat /\ m < Word * SignBit
  BY AllIs, <1>1 DEF All
<1>3. m = Word * h + (m % Word) /\ h \in Nat /\ m % Word \in 0 .. Word - 1
  BY <1>1, <1>2, DivMod
<1>4. h < SignBit BY <1>1, <1>2, DivLess
<1>5. Double(n, m) = [hi |-> h + s, lo |-> m % Word]
  BY DEF Double
<1> HIDE DEF h
<1>6. h + s \in 0 .. Word - 1 /\ (h + s >= SignBit <=> n)
  BY <1>1, <1>3, <1>4
<1>7. (h + s) % SignBit = h
  BY <1>6, <1>3, <1>4, <1>1, SignIs
<1>8. Magnitude(Double(n, m)) = h * Word + (m % Word)
  BY <1>5, <1>7 DEF Magnitude
<1> QED BY <1>1, <1>3, <1>4, <1>5, <1>6, <1>7, <1>8 DEF AllDoubles, Negative, h

\* There are no others.
LEMMA DoubleOf ==
  ASSUME NEW d \in AllDoubles
  PROVE  /\ d = Double(Negative(d.hi), Magnitude(d))
         /\ Magnitude(d) \in 0 .. All - 1
         /\ d.hi \in 0 .. Word - 1 /\ d.lo \in 0 .. Word - 1
         /\ d.hi % SignBit = Magnitude(d) \div Word /\ d.lo = Magnitude(d) % Word
         /\ Negative(d.hi) \in BOOLEAN
<1> DEFINE h == d.hi % SignBit
           l == d.lo
<1>1. Word \in Nat /\ Word > 0 /\ SignBit \in Nat /\ SignBit > 0 /\ Word = 2 * SignBit
  BY Format
<1>2. d.hi \in 0 .. Word - 1 /\ l \in 0 .. Word - 1 /\ d = [hi |-> d.hi, lo |-> l]
  BY DEF AllDoubles
<1>3. h \in 0 .. SignBit - 1 /\ d.hi = h + (IF Negative(d.hi) THEN SignBit ELSE 0)
  BY <1>1, <1>2, SignIs
<1>4. Magnitude(d) = h * Word + l BY DEF Magnitude
<1> HIDE DEF h, l
<1>5. Magnitude(d) \in Int /\ Magnitude(d) = Word * h + l
  BY <1>1, <1>2, <1>3, <1>4
<1>6. Magnitude(d) \div Word = h /\ Magnitude(d) % Word = l
  BY <1>1, <1>2, <1>3, <1>5, DivModUnique
<1>7. Magnitude(d) \in 0 .. All - 1
  <2>1. \A a \in Nat, b \in Nat, c \in Nat, e \in Nat : a < c /\ b < e => a * e + b < c * e
    <3> SUFFICES ASSUME NEW a \in Nat, NEW b \in Nat, NEW c \in Nat, NEW e \in Nat, a < c, b < e
                 PROVE  a * e + b < c * e
      OBVIOUS
    <3>1. (a + 1) * e <= c * e
      <4>1. \A p \in Nat, q \in Nat, r \in Nat : p <= q => p * r <= q * r
        OBVIOUS
      <4> QED BY <4>1
    <3>2. (a + 1) * e = a * e + e OBVIOUS
    <3> QED BY <3>1, <3>2
  <2>2. h * Word + l < SignBit * Word
    BY <2>1, <1>1, <1>2, <1>3
  <2> QED BY <2>2, <1>1, <1>2, <1>3, <1>4, AllIs DEF All
<1>8. d = Double(Negative(d.hi), Magnitude(d))
  BY <1>2, <1>3, <1>6 DEF Double
<1> QED BY <1>2, <1>6, <1>7, <1>8 DEF Negative, h, l

\* A multiple of the divisor only counts in the quotient.
LEMMA ModSum ==
  ASSUME NEW a \in Int, NEW b \in Nat, b > 0, NEW c \in Int
  PROVE  (a + b * c) % b = a % b /\ (a + b * c) \div b = (a \div b) + c
<1>1. a = b * (a \div b) + (a % b) /\ a \div b \in Int /\ a % b \in Nat /\ a % b < b
  BY DivMod
<1>2. a + b * c = b * ((a \div b) + c) + (a % b) /\ a + b * c \in Int /\ (a \div b) + c \in Int
  BY <1>1
<1> HIDE <1>1
<1>3. a % b \in Nat /\ a % b < b BY <1>1
<1> QED BY <1>2, <1>3, DivModUnique

\* Products of numbers are ordered like the numbers.
LEMMA Products ==
  /\ \A a \in Nat, b \in Nat : a > 0 /\ b > 0 => a * b > 0
  /\ \A a \in Nat, b \in Nat, c \in Nat : a <= b => a * c <= b * c
  /\ \A a \in Nat, b \in Nat, c \in Nat, e \in Nat : a < c /\ b < e => a * e + b < c * e
<1>1. \A a \in Nat, b \in Nat : a > 0 /\ b > 0 => a * b > 0
  OBVIOUS
<1>2. \A a \in Nat, b \in Nat, c \in Nat : a <= b => a * c <= b * c
  OBVIOUS
<1>3. ASSUME NEW a \in Nat, NEW b \in Nat, NEW c \in Nat, NEW e \in Nat, a < c, b < e
      PROVE  a * e + b < c * e
  <2>1. (a + 1) * e <= c * e BY <1>3, <1>2
  <2>2. (a + 1) * e = a * e + e OBVIOUS
  <2> QED BY <1>3, <2>1, <2>2
<1> QED BY <1>1, <1>2, <1>3

\* Of two words.
LEMMA WordPair ==
  ASSUME NEW h \in Nat, NEW w \in Nat, NEW l \in Nat, l < w
  PROVE  (h * w + l) % w = l /\ (h * w + l) \div w = h
<1>1. h * w + l = w * h + l /\ h * w + l \in Nat /\ w > 0
  BY Products
<1> QED BY <1>1, DivModUnique

\* Divided by words.
LEMMA TwoWords ==
  ASSUME NEW h \in Nat, NEW w \in Nat, NEW l \in Nat, l < w, NEW u \in Nat, u > 0
  PROVE  /\ (h * w + l) % (u * w) = (h % u) * w + l
         /\ (h * w + l) \div (u * w) = h \div u
<1>1. h = u * (h \div u) + (h % u) /\ h \div u \in Nat /\ h % u \in Nat /\ h % u < u
  BY DivMod
<1> DEFINE q == h \div u
           r == h % u
<1>2. q \in Nat /\ r \in Nat /\ r < u /\ h = u * q + r
  BY <1>1
<1> HIDE DEF q, r
<1>3. h * w + l = (u * w) * q + (r * w + l)
  <2>1. h * w = (u * q + r) * w BY <1>2
  <2>2. (u * q + r) * w = (u * w) * q + r * w
    BY <1>2
  <2>3. h * w \in Nat /\ (u * w) * q \in Nat /\ r * w \in Nat
    BY <1>2
  <2> QED BY <2>1, <2>2, <2>3
<1>4. r * w + l < u * w BY <1>2, Products
<1>5. u * w \in Nat /\ u * w > 0 /\ r * w + l \in Nat /\ h * w + l \in Nat /\ w > 0 /\ h * w \in Nat
  BY <1>2, Products
<1>6. (h * w + l) \div (u * w) = q /\ (h * w + l) % (u * w) = r * w + l
  <2> DEFINE a == h * w + l
             b == u * w
             c == r * w + l
  <2>1. a \in Int /\ b \in Nat /\ b > 0 /\ c \in Int /\ 0 <= c /\ c < b /\ a = b * q + c /\ q \in Int
    BY <1>2, <1>3, <1>4, <1>5
  <2> HIDE DEF a, b, c
  <2>2. a \div b = q /\ a % b = c
    BY <2>1, DivModUnique
  <2> QED BY <2>2 DEF a, b, c
<1> QED BY <1>6 DEF q, r

\* The double with sign n, field k and fraction f.
Of(n, k, f) == Double(n, k * Fr + f)

\* The fields of the exponent; the last is that of infinity and of NaN.
Fields == 0 .. 2 * Bias + 1

\* The bits of a mantissa behind the leading one.
Fractions == 0 .. Fr - 1

\* The magnitude of a field and a fraction, divided again, and its two words.
LEMMA FieldsAre ==
  ASSUME NEW k \in Fields, NEW f \in Fractions
  PROVE  /\ k * Fr + f \in 0 .. All - 1
         /\ (k * Fr + f) \div Fr = k /\ (k * Fr + f) % Fr = f
         /\ (k * Fr + f) \div Word = k * Hi + (f \div Word)
         /\ (k * Fr + f) % Word = f % Word
         /\ f \div Word \in 0 .. Hi - 1 /\ f % Word \in 0 .. Word - 1
         /\ f = (f \div Word) * Word + (f % Word)
<1>1. Fr \in Nat /\ Fr > 0 /\ Hi \in Nat /\ Hi > 0 /\ Word \in Nat /\ Word > 0 /\ Fr = Hi * Word
      /\ Bias \in Nat /\ SignBit > 0
  BY Format, Products
<1>2. k \in Nat /\ k < 2 * Bias + 2 /\ f \in Nat /\ f < Fr
  BY <1>1 DEF Fields, Fractions
<1>3. k * Fr + f < (2 * Bias + 2) * Fr /\ k * Fr \in Nat
  <2>1. 2 * Bias + 2 \in Nat BY <1>1
  <2> QED BY <2>1, <1>1, <1>2, Products
<1>4. (k * Fr + f) \div Fr = k /\ (k * Fr + f) % Fr = f
  <2>1. k \in Nat /\ f \in Nat /\ Fr \in Nat /\ f < Fr
    BY <1>1, <1>2
  <2> QED BY ONLY <2>1, WordPair
<1>5. f = Word * (f \div Word) + (f % Word) /\ f \div Word \in Nat /\ f % Word \in Nat
      /\ f % Word < Word
  BY <1>1, <1>2, DivMod
<1>6. f \div Word < Hi
  <2>1. f < Word * Hi /\ Hi \in Int /\ f \in Int
    BY <1>1, <1>2
  <2> QED BY <2>1, <1>1, DivLess
<1>7. (k * Fr + f) \div Word = k * Hi + (f \div Word) /\ (k * Fr + f) % Word = f % Word
  <2>1. k * Fr = Word * (k * Hi) /\ k * Hi \in Int /\ f \in Int
    BY <1>1, <1>2
  <2>2. k * Fr + f = f + Word * (k * Hi)
    <3>1. k * Fr \in Int BY <1>3
    <3> QED BY <2>1, <3>1
  <2>3. (f + Word * (k * Hi)) % Word = f % Word /\ (f + Word * (k * Hi)) \div Word = (f \div Word) + k * Hi
    BY <2>1, <1>1, ModSum
  <2> QED BY <2>1, <2>2, <2>3, <1>5
<1> QED BY <1>1, <1>2, <1>3, <1>4, <1>5, <1>6, <1>7, AllIs

\* Every double has a sign, a field and a fraction.
LEMMA PartsOf ==
  ASSUME NEW d \in AllDoubles
  PROVE  \E n \in BOOLEAN, k \in Fields, f \in Fractions : d = Of(n, k, f)
<1> DEFINE m == Magnitude(d)
<1>1. d = Double(Negative(d.hi), m) /\ m \in 0 .. All - 1 /\ Negative(d.hi) \in BOOLEAN
  BY DoubleOf
<1>2. Fr \in Nat /\ Fr > 0 /\ Bias \in Nat
  BY Format, Products
<1> HIDE DEF m
<1>3. m = Fr * (m \div Fr) + (m % Fr) /\ m \div Fr \in Nat /\ m % Fr \in Nat /\ m % Fr < Fr
  BY <1>1, <1>2, DivMod
<1>4. m \div Fr < 2 * Bias + 2
  <2>1. m < Fr * (2 * Bias + 2) /\ 2 * Bias + 2 \in Int /\ m \in Int
    BY <1>1, <1>2, AllIs
  <2> QED BY <2>1, <1>2, DivLess
<1>5. m \div Fr \in Fields /\ m % Fr \in Fractions
  BY <1>2, <1>3, <1>4 DEF Fields, Fractions
<1>6. m = (m \div Fr) * Fr + (m % Fr) BY <1>2, <1>3
<1> QED BY <1>1, <1>5, <1>6 DEF Of

\* What the operators of Doubles say of it.
LEMMA ValuesOf ==
  ASSUME NEW n \in BOOLEAN, NEW k \in Fields, NEW f \in Fractions
  PROVE  /\ Of(n, k, f) \in AllDoubles
         /\ Magnitude(Of(n, k, f)) = k * Fr + f
         /\ Negative(Of(n, k, f).hi) <=> n
         /\ IsNaN(Of(n, k, f)) <=> k = 2 * Bias + 1 /\ f > 0
         /\ Finite(Of(n, k, f)) <=> k < 2 * Bias + 1
         /\ Mantissa(Of(n, k, f)) = (IF k = 0 THEN f ELSE f + Fr)
         /\ Scale(Of(n, k, f)) = (IF k = 0 THEN 1 ELSE k) - Bias - FracBits
         /\ Exponent(Of(n, k, f).hi) = k - Bias
         /\ Of(n, k, f).hi \in 0 .. Word - 1
         /\ Of(n, k, f).hi % SignBit = k * Hi + (f \div Word)
         /\ Of(n, k, f).lo = f % Word
<1> DEFINE d == Of(n, k, f)
           m == k * Fr + f
<1>1. m \in 0 .. All - 1 /\ m \div Fr = k /\ m % Fr = f
  BY FieldsAre
<1>2. m \div Word = k * Hi + (f \div Word) /\ m % Word = f % Word /\ f \div Word \in 0 .. Hi - 1
  BY FieldsAre
<1>3. d \in AllDoubles /\ Magnitude(d) = m /\ (Negative(d.hi) <=> n)
      /\ d.hi % SignBit = m \div Word /\ d.lo = m % Word
  BY <1>1, DoubleIs DEF Of
<1>4. Fr \in Nat /\ Fr > 0 /\ Hi \in Nat /\ Hi > 0 /\ Bias \in Nat /\ FracBits \in Nat
  BY Format, Products
<1>5. k \in Nat /\ k <= 2 * Bias + 1 /\ f \in Nat /\ f < Fr
  BY <1>4 DEF Fields, Fractions
<1>6. k < 2 * Bias + 1 => m < (2 * Bias + 1) * Fr
  <2>1. 2 * Bias + 1 \in Nat BY <1>4
  <2> QED BY <2>1, <1>4, <1>5, Products
<1>7. Infinity = (2 * Bias + 1) * Fr /\ 2 ^ FracBits = Fr /\ 2 ^ HighBits = Hi
  BY PowersAre
<1>8. m < Fr <=> k = 0 BY <1>4, <1>5, DivLess, <1>1
<1>9. k = 0 => m = f BY <1>4, <1>5
<1>10. k = 2 * Bias + 1 => m = (2 * Bias + 1) * Fr + f /\ (2 * Bias + 1) * Fr \in Nat
  BY <1>4, <1>5
<1>11. (k * Hi + (f \div Word)) \div Hi = k
  <2>1. f \div Word \in Nat /\ f \div Word < Hi
    BY <1>2, <1>4
  <2> QED BY <2>1, <1>4, <1>5, WordPair
<1>12. IsNaN(d) <=> k = 2 * Bias + 1 /\ f > 0
  <2>1. m \in Nat BY <1>1, AllIs
  <2> QED BY <2>1, <1>3, <1>4, <1>5, <1>6, <1>7, <1>10 DEF IsNaN
<1>13. Finite(d) <=> k < 2 * Bias + 1
  <2>1. m \in Nat BY <1>1, AllIs
  <2> QED BY <2>1, <1>3, <1>4, <1>5, <1>6, <1>7, <1>10 DEF Finite
<1>14. Mantissa(d) = (IF k = 0 THEN f ELSE f + Fr)
  <2> HIDE DEF m, d
  <2> QED BY <1>1, <1>3, <1>7, <1>8, <1>9 DEF Mantissa
<1>15. Scale(d) = (IF k = 0 THEN 1 ELSE k) - Bias - FracBits
  <2> HIDE DEF m, d
  <2> QED BY <1>1, <1>3, <1>7 DEF Scale
<1>16. Exponent(d.hi) = k - Bias
  <2> HIDE DEF m, d
  <2> QED BY <1>2, <1>3, <1>7, <1>11 DEF Exponent
<1>17. d.hi \in 0 .. Word - 1 BY <1>3 DEF AllDoubles
<1> QED BY <1>2, <1>3, <1>12, <1>13, <1>14, <1>15, <1>16, <1>17

\* A double from its words.
LEMMA WordsAre ==
  ASSUME NEW n \in BOOLEAN, NEW h \in 0 .. SignBit - 1, NEW l \in 0 .. Word - 1
  PROVE  /\ Words((IF n THEN SignBit ELSE 0) + h, l) = Double(n, h * Word + l)
         /\ h * Word + l \in 0 .. All - 1
<1>1. Word \in Nat /\ Word > 0 /\ SignBit \in Nat /\ SignBit > 0
  BY Format
<1>2. h \in Nat /\ h < SignBit /\ l \in Nat /\ l < Word
  BY <1>1
<1>3. (h * Word + l) \div Word = h /\ (h * Word + l) % Word = l
  BY <1>1, <1>2, WordPair
<1>4. h * Word + l < SignBit * Word /\ h * Word \in Nat
  BY <1>1, <1>2, Products
<1>5. (IF n THEN SignBit ELSE 0) + h = h + (IF n THEN SignBit ELSE 0)
  BY <1>1, <1>2
<1> QED BY <1>1, <1>2, <1>3, <1>4, <1>5, AllIs DEF Words, Double, All

\* The library sees a double in one way, and every double is seen.
LEMMA ViewIs ==
  ASSUME NEW d \in AllDoubles
  PROVE  View(d) \in AllDoubles /\ View(View(d)) = d
BY DEF View, AllDoubles

\* In the build for a machine whose low word comes first, arithmetic is what it says.
LEMMA ViewIsSame ==
  ASSUME LittleEndian
  PROVE  /\ \A d : View(d) = d
         /\ \A d, n : Scaled(d, n) = Times(d, n)
         /\ \A v, d : Arith(v, d) = v
<1>1. \A d : View(d) = d BY DEF View
<1>2. \A d, n : Scaled(d, n) = Times(d, n)
  BY <1>1, Zenon DEF Scaled
<1>3. \A v, d : Arith(v, d) = v BY DEF Arith
<1> QED BY <1>1, <1>2, <1>3

\* What the build takes for the result of an operation is a double.
LEMMA ArithIsDouble ==
  ASSUME NEW v \in AllDoubles, NEW d \in AllDoubles
  PROVE  Arith(v, d) \in AllDoubles
<1>1. View(Misread(d)) \in AllDoubles
  BY ViewIs, MisreadAssumption
<1> QED BY <1>1 DEF Arith

\* The unit of the last place before the point, in units of the last place of all.
LEMMA UnitIs ==
  ASSUME NEW j \in 0 .. FracBits - 1
  PROVE  /\ Pow(FracBits - j) \in Nat /\ Pow(FracBits - j) >= 2
         /\ Pow(j) \in Nat /\ Pow(j) >= 1 /\ Fr = Pow(FracBits - j) * Pow(j)
         /\ Pow(FracBits - j) <= Fr
         /\ j < HighBits => /\ Pow(HighBits - j) \in Nat /\ Pow(HighBits - j) >= 2
                            /\ Pow(FracBits - j) = Pow(HighBits - j) * Word
                            /\ Hi = Pow(HighBits - j) * Pow(j)
         /\ j >= HighBits => /\ Word = Pow(FracBits - j) * Pow(j - HighBits)
                             /\ Pow(j - HighBits) \in Nat /\ Pow(j - HighBits) >= 1
<1>1. FracBits \in Nat /\ HighBits \in Nat /\ WordBits \in Nat /\ FracBits = HighBits + WordBits
  BY Format
<1>2. j \in Nat /\ FracBits - j \in Nat /\ FracBits - j - 1 \in Nat /\ j < FracBits
  BY <1>1
<1>3. Pow(FracBits - j) \in Nat /\ Pow(FracBits - j) >= 2
  <2>1. Pow((FracBits - j - 1) + 1) = 2 * Pow(FracBits - j - 1) /\ Pow(FracBits - j - 1) \in Nat
        /\ Pow(FracBits - j - 1) > 0
    BY <1>2, PowType
  <2>2. (FracBits - j - 1) + 1 = FracBits - j
    BY <1>1, <1>2
  <2> QED BY <2>1, <2>2
<1>4. Pow(j) \in Nat /\ Pow(j) >= 1 /\ Fr = Pow(FracBits - j) * Pow(j)
  <2>1. FracBits = (FracBits - j) + j BY <1>1, <1>2
  <2>2. Pow((FracBits - j) + j) = Pow(FracBits - j) * Pow(j)
    BY <1>2, PowSum
  <2> QED BY <2>1, <2>2, <1>2, PowType DEF Fr
<1>5. Pow(FracBits - j) <= Fr
  <2>1. \A a \in Nat, b \in Nat : b >= 1 => a <= a * b
    OBVIOUS
  <2> QED BY <2>1, <1>3, <1>4
<1>6. ASSUME j < HighBits
      PROVE  /\ Pow(HighBits - j) \in Nat /\ Pow(HighBits - j) >= 2
             /\ Pow(FracBits - j) = Pow(HighBits - j) * Word
             /\ Hi = Pow(HighBits - j) * Pow(j)
  <2>1. HighBits - j \in Nat /\ HighBits - j - 1 \in Nat
    BY <1>1, <1>2, <1>6
  <2>2. FracBits - j = (HighBits - j) + WordBits /\ HighBits = (HighBits - j) + j
        /\ (HighBits - j - 1) + 1 = HighBits - j
    BY <1>1, <1>2
  <2>3. Pow((HighBits - j) + WordBits) = Pow(HighBits - j) * Pow(WordBits)
        /\ Pow((HighBits - j) + j) = Pow(HighBits - j) * Pow(j)
    BY <2>1, <1>1, <1>2, PowSum
  <2>4. Pow((HighBits - j - 1) + 1) = 2 * Pow(HighBits - j - 1) /\ Pow(HighBits - j - 1) \in Nat
        /\ Pow(HighBits - j - 1) > 0
    BY <2>1, PowType
  <2>5. Pow(WordBits) = Word BY DEF Pow, Word
  <2> QED BY <2>2, <2>3, <2>4, <2>5 DEF Hi
<1>7. ASSUME j >= HighBits
      PROVE  /\ Word = Pow(FracBits - j) * Pow(j - HighBits)
             /\ Pow(j - HighBits) \in Nat /\ Pow(j - HighBits) >= 1
  <2>1. j - HighBits \in Nat /\ WordBits = (FracBits - j) + (j - HighBits)
    BY <1>1, <1>2, <1>7
  <2>2. Pow((FracBits - j) + (j - HighBits)) = Pow(FracBits - j) * Pow(j - HighBits)
    BY <2>1, <1>2, PowSum
  <2>3. Pow(WordBits) = Word BY DEF Pow, Word
  <2> QED BY <2>1, <2>2, <2>3, PowType
<1> QED BY <1>3, <1>4, <1>5, <1>6, <1>7

\* Products distribute over sums.
LEMMA Spread ==
  /\ \A a \in Int, b \in Int, c \in Int : a * (b + c) = a * b + a * c /\ a * b \in Int
  /\ \A a \in Nat, b \in Nat : a * b \in Nat
OBVIOUS

\* A multiple is not changed, and other numbers lose their remainder.
LEMMA ClearedIs ==
  ASSUME NEW a \in Nat, NEW b \in Nat, b > 0, NEW c \in Nat
  PROVE  /\ Cleared(a + b * c, b) = Cleared(a, b) + b * c
         /\ Cleared(a, b) \in Nat /\ Cleared(a, b) = b * (a \div b) /\ Cleared(a, b) <= a
         /\ a < b * c => Cleared(a, b) + b <= b * c
<1>1. (a + b * c) % b = a % b
  <2>1. a \in Int /\ c \in Int OBVIOUS
  <2> QED BY ONLY <2>1, b \in Nat, b > 0, ModSum
<1>2. a = b * (a \div b) + (a % b) /\ a \div b \in Nat /\ a % b \in Nat /\ b * c \in Nat
  BY DivMod
<1> DEFINE q == a \div b
<1>3. a < b * c => q < c BY DivLess
<1>4. q \in Nat /\ b * q \in Nat BY <1>2
<1> HIDE DEF q
<1>5. q < c => b * q + b <= b * c
  <2> SUFFICES ASSUME q < c PROVE b * q + b <= b * c
    OBVIOUS
  <2>1. q + 1 <= c /\ q + 1 \in Nat BY <1>4
  <2>2. (q + 1) * b <= c * b BY <2>1, Products
  <2> QED BY <2>2, <1>4
<1> QED BY <1>1, <1>2, <1>3, <1>4, <1>5 DEF Cleared, q

\* The point is in the high word.
LEMMA HighPlace ==
  ASSUME NEW n \in BOOLEAN, NEW k \in Fields, NEW f \in Fractions,
         NEW away \in BOOLEAN, NEW j \in 0 .. HighBits - 1, j = k - Bias
  PROVE  /\ Of(n, k, f).hi % Pow(HighBits - j) = 0 /\ Of(n, k, f).lo = 0
               <=> f % Pow(FracBits - j) = 0
         /\ Words(Cleared(Of(n, k, f).hi + (IF away THEN Pow(HighBits - j) ELSE 0), Pow(HighBits - j)), 0)
              = Double(n, k * Fr + Cleared(f, Pow(FracBits - j))
                            + (IF away THEN Pow(FracBits - j) ELSE 0))
<1> DEFINE d == Of(n, k, f)
           u == Pow(HighBits - j)
           g == f \div Word
           l == f % Word
           h == k * Hi + g
           s == IF n THEN SignBit ELSE 0
           up == IF away THEN u ELSE 0
<1>1. /\ FracBits \in Nat /\ HighBits \in Nat /\ HighBits < FracBits /\ Bias \in Nat /\ Bias >= FracBits
      /\ Word \in Nat /\ Word > 0 /\ SignBit \in Nat /\ SignBit > 0 /\ Word = 2 * SignBit
      /\ Hi \in Nat /\ Hi >= 4 /\ Fr \in Nat /\ Fr = Hi * Word /\ SignBit = (2 * Bias + 2) * Hi
  BY Format
<1>2. j \in 0 .. FracBits - 1 /\ j \in Nat /\ j < HighBits /\ k = Bias + j /\ k \in Nat
      /\ k < 2 * Bias /\ k + 1 <= 2 * Bias + 2
  <2>1. k \in Nat BY <1>1 DEF Fields
  <2> QED BY <2>1, <1>1
<1>3. /\ u \in Nat /\ u >= 2 /\ Pow(FracBits - j) = u * Word /\ Hi = u * Pow(j) /\ Pow(j) \in Nat
      /\ Pow(j) >= 1
  BY <1>2, UnitIs
<1>4. /\ d.hi \in 0 .. Word - 1 /\ d.hi % SignBit = h /\ d.lo = l /\ Exponent(d.hi) = j
      /\ (Negative(d.hi) <=> n)
  BY <1>2, ValuesOf
<1>5. g \in Nat /\ g < Hi /\ l \in Nat /\ l < Word /\ f = g * Word + l
  BY FieldsAre, <1>1
<1>6. h \in Nat /\ h < SignBit /\ h + u <= SignBit
  <2>1. (k + 1) * Hi <= (2 * Bias + 2) * Hi
    <3>1. k + 1 \in Nat /\ 2 * Bias + 2 \in Nat
      BY <1>1, <1>2
    <3> QED BY <3>1, <1>1, <1>2, Products
  <2>2. (k + 1) * Hi = k * Hi + Hi /\ k * Hi \in Nat
    BY <1>1, <1>2
  <2>3. h \in 0 .. SignBit - 1 BY <1>4, <1>1, SignIs
  <2>4. h + u <= SignBit
    <3>1. (k + 2) * Hi <= (2 * Bias + 2) * Hi
      <4>1. k + 2 \in Nat /\ 2 * Bias + 2 \in Nat /\ k + 2 <= 2 * Bias + 2
        BY <1>1, <1>2
      <4> QED BY <4>1, <1>1, Products
    <3>2. (k + 2) * Hi = k * Hi + 2 * Hi
      BY <1>1, <1>2
    <3>3. u <= Hi
      <4>1. \A a \in Nat, b \in Nat : b >= 1 => a <= a * b
        OBVIOUS
      <4> QED BY <4>1, <1>3
    <3> QED BY <3>1, <3>2, <3>3, <2>2, <1>1, <1>3, <1>5
  <2> QED BY <2>3, <2>4, <1>1
<1>7. d.hi = s + h BY <1>1, <1>4, SignIs
<1>8. SignBit = u * (Pow(j) * (2 * Bias + 2)) /\ k * Hi = u * (Pow(j) * k)
  BY <1>1, <1>2, <1>3
<1>9. Pow(j) * (2 * Bias + 2) \in Nat /\ Pow(j) * k \in Nat
  BY <1>1, <1>2, <1>3
<1> DEFINE A == Pow(j) * (2 * Bias + 2)
           B == Pow(j) * k
           S == IF n THEN A ELSE 0
<1>10. A \in Nat /\ B \in Nat /\ S \in Nat /\ s = u * S /\ k * Hi = u * B /\ SignBit = u * A
  BY <1>8, <1>9, <1>3
<1> HIDE DEF A, B, S, u, g, l
<1>11. \A c \in {0, u} : Cleared(s + h + c, u) = s + k * Hi + Cleared(g, u) + c
  <2> SUFFICES ASSUME NEW c \in {0, u}
               PROVE  Cleared(s + h + c, u) = s + k * Hi + Cleared(g, u) + c
    OBVIOUS
  <2>1. PICK e \in Nat : c = u * e
    <3>1. 0 = u * 0 /\ u = u * 1 BY <1>3
    <3> QED BY <3>1
  <2> DEFINE T == S + B + e
  <2>2. u * T = u * S + u * B + u * e /\ T \in Nat
    <3>1. u \in Int /\ S \in Int /\ B \in Int /\ e \in Int /\ S + B \in Int
      BY <1>3, <1>10
    <3>2. u * ((S + B) + e) = u * (S + B) + u * e /\ u * (S + B) = u * S + u * B
      BY ONLY <3>1, Spread
    <3> QED BY <3>2, <1>10
  <2> HIDE DEF T
  <2>3. s \in Nat /\ k * Hi \in Nat /\ c \in Nat
    BY <1>1, <1>2, <1>3
  <2>4. u * T = s + k * Hi + c BY <2>1, <2>2, <1>10
  <2>5. s + h + c = g + u * T BY <2>3, <2>4, <1>5
  <2>6. Cleared(g + u * T, u) = Cleared(g, u) + u * T /\ Cleared(g, u) \in Nat
    <3>1. u \in Nat /\ u > 0 /\ g \in Nat
      BY <1>3, <1>5
    <3> QED BY ONLY <3>1, <2>2, ClearedIs, Zenon
  <2> QED BY <2>3, <2>4, <2>5, <2>6
<1>12. (s + h) % u = g % u
  <2> DEFINE T == S + B
  <2>1. u * T = u * S + u * B /\ T \in Int
    <3>1. u \in Int /\ S \in Int /\ B \in Int
      BY <1>3, <1>10
    <3> QED BY ONLY <3>1, Spread
  <2> HIDE DEF T
  <2>2. s \in Nat /\ k * Hi \in Nat BY <1>1, <1>2
  <2>3. s + h = g + u * T BY <2>1, <2>2, <1>5, <1>10
  <2>4. u \in Nat /\ u > 0 /\ g \in Int
    BY <1>3, <1>5
  <2>5. (g + u * T) % u = g % u
    BY ONLY <2>1, <2>4, ModSum
  <2> QED BY <2>3, <2>5
<1>13. f % (u * Word) = (g % u) * Word + l /\ g % u \in Nat
  <2>1. f % (u * Word) = (g % u) * Word + l
    <3>1. u \in Nat /\ u > 0 /\ g \in Nat /\ l \in Nat /\ Word \in Nat /\ l < Word
      BY <1>1, <1>3, <1>5
    <3>2. (g * Word + l) % (u * Word) = (g % u) * Word + l
      BY ONLY <3>1, TwoWords
    <3> QED BY <3>2, <1>5
  <2> QED BY <2>1, <1>3, <1>5, DivMod
<1>14. f % (u * Word) = 0 <=> g % u = 0 /\ l = 0
  <2>1. g % u > 0 => (g % u) * Word > 0
    BY <1>1, <1>13, Products
  <2>2. (g % u) * Word \in Nat /\ (g % u = 0 => (g % u) * Word = 0)
    BY <1>1, <1>13
  <2> QED BY <2>1, <2>2, <1>13, <1>5
<1>15. Cleared(f, u * Word) = Cleared(g, u) * Word
  <2>1. g % u <= g /\ g % u \in Nat
    BY <1>3, <1>5, DivMod
  <2>2. (g - (g % u)) * Word = g * Word - (g % u) * Word
    BY <2>1, <1>1, <1>5
  <2>3. g * Word \in Nat /\ (g % u) * Word \in Nat
    BY <2>1, <1>1, <1>5
  <2> QED BY <2>2, <2>3, <1>5, <1>13 DEF Cleared
<1>16. Cleared(g, u) \in Nat /\ Cleared(g, u) <= g /\ Cleared(g, u) + u <= Hi
  <2>1. g < u * Pow(j) /\ g \in Nat /\ u \in Nat /\ u > 0 /\ Pow(j) \in Nat
    BY <1>3, <1>5
  <2>2. Cleared(g, u) \in Nat /\ Cleared(g, u) <= g /\ Cleared(g, u) + u <= u * Pow(j)
    BY ONLY <2>1, ClearedIs
  <2> QED BY <2>2, <1>3
<1>18. Words(Cleared(s + h + up, u), 0) = Double(n, (k * Hi + Cleared(g, u) + up) * Word)
  <2>1. Cleared(s + h + up, u) = s + (k * Hi + Cleared(g, u) + up)
    <3>1. up \in {0, u} OBVIOUS
    <3>2. k * Hi \in Nat /\ s \in Nat /\ up \in Nat
      BY <1>1, <1>2, <1>3
    <3> QED BY <3>1, <3>2, <1>11, <1>16
  <2>2. k * Hi + Cleared(g, u) + up \in 0 .. SignBit - 1
    <3>1. (k + 2) * Hi <= (2 * Bias + 2) * Hi
      <4>1. k + 2 \in Nat /\ 2 * Bias + 2 \in Nat /\ k + 2 <= 2 * Bias + 2
        BY <1>1, <1>2
      <4> QED BY <4>1, <1>1, Products
    <3>2. (k + 2) * Hi = k * Hi + 2 * Hi /\ k * Hi \in Nat
      BY <1>1, <1>2
    <3>3. up \in Nat /\ up <= u BY <1>3
    <3> HIDE DEF up
    <3> QED BY <3>1, <3>2, <3>3, <1>1, <1>3, <1>16
  <2>3. 0 \in 0 .. Word - 1 BY <1>1
  <2> DEFINE a == k * Hi + Cleared(g, u) + up
  <2>4. Words(s + a, 0) = Double(n, a * Word + 0)
    <3> HIDE DEF a
    <3>1. a \in 0 .. SignBit - 1 BY <2>2 DEF a
    <3> QED BY <3>1, <2>3, WordsAre
  <2>5. a * Word + 0 = a * Word BY <1>1, <2>2
  <2> QED BY <2>1, <2>4, <2>5
<1>19. (k * Hi + Cleared(g, u) + up) * Word = k * Fr + Cleared(f, u * Word) + (IF away THEN u * Word ELSE 0)
  <2>1. up * Word = IF away THEN u * Word ELSE 0
    BY <1>1
  <2>2. up \in Nat /\ Cleared(g, u) \in Nat /\ k \in Nat /\ Hi \in Nat /\ Word \in Nat
    BY <1>1, <1>2, <1>3, <1>16
  <2> DEFINE c == Cleared(g, u)
             e == up
  <2> HIDE DEF c, up
  <2>3. (k * Hi + c + e) * Word = k * (Hi * Word) + c * Word + e * Word
    <3>1. c \in Nat /\ e \in Nat BY <2>2 DEF c
    <3> QED BY <3>1, <2>2
  <2> QED BY <2>1, <2>3, <1>1, <1>15 DEF c
<1>17. d.hi % u = 0 /\ d.lo = 0 <=> f % (u * Word) = 0
  BY <1>4, <1>7, <1>12, <1>14
<1>20. Words(Cleared(d.hi + up, u), 0)
         = Double(n, k * Fr + Cleared(f, u * Word) + (IF away THEN u * Word ELSE 0))
  BY <1>7, <1>18, <1>19
<1> QED BY <1>3, <1>17, <1>20 DEF u

\* ToInteger with the point in the high word clears the fraction behind it.
LEMMA ToIntegerHigh ==
  ASSUME NEW n \in BOOLEAN, NEW k \in Fields, NEW f \in Fractions,
         NEW small, NEW away \in BOOLEAN, NEW j \in 0 .. HighBits - 1, j = k - Bias
  PROVE  ToInteger(Of(n, k, f), small, away) =
           IF f % Pow(FracBits - j) = 0 \/ ~HugePlusIsPositive(Of(n, k, f)) THEN Of(n, k, f)
           ELSE Double(n, k * Fr + Cleared(f, Pow(FracBits - j))
                            + (IF away THEN Pow(FracBits - j) ELSE 0))
<1> DEFINE d == Of(n, k, f)
           u == Pow(HighBits - j)
           up == IF away THEN u ELSE 0
<1>1. k < 2 * Bias /\ j \in 0 .. 2 * Bias
  BY Format DEF Fields
<1>2. HI(d) = d.hi /\ LO(d) = d.lo BY DEF HI, LO
<1>3. Exponent(d.hi) = j BY <1>1, ValuesOf
<1>4. 2 ^ (HighBits - j) = u BY DEF Pow
<1>5. j # Bias + 1 /\ j \notin FracBits .. Bias /\ ~(j < 0) /\ j \in 0 .. HighBits - 1 /\ j < HighBits
      /\ j \notin HighBits .. FracBits - 1
  BY Format
<1>6. ToInteger(d, small, away) =
         IF (d.hi % u = 0 /\ d.lo = 0) \/ ~HugePlusIsPositive(d) THEN d ELSE Words(Cleared(d.hi + up, u), 0)
  <2> HIDE DEF d, u
  <2> QED BY <1>2, <1>3, <1>4, <1>5 DEF ToInteger
<1>7. d.hi % u = 0 /\ d.lo = 0 <=> f % Pow(FracBits - j) = 0
  BY HighPlace
<1>8. Words(Cleared(d.hi + up, u), 0)
        = Double(n, k * Fr + Cleared(f, Pow(FracBits - j)) + (IF away THEN Pow(FracBits - j) ELSE 0))
  BY HighPlace
<1> QED BY <1>6, <1>7, <1>8

\* The point is in the low word: the addition may carry into the high one.
LEMMA LowPlace ==
  ASSUME NEW n \in BOOLEAN, NEW k \in Fields, NEW f \in Fractions,
         NEW away \in BOOLEAN, NEW j \in HighBits .. FracBits - 1, j = k - Bias,
         NEW up, up = IF away THEN Pow(FracBits - j) ELSE 0
  PROVE  /\ Of(n, k, f).lo % Pow(FracBits - j) = 0 <=> f % Pow(FracBits - j) = 0
         /\ Words(Of(n, k, f).hi + (Of(n, k, f).lo + up) \div Word,
                  Cleared((Of(n, k, f).lo + up) % Word, Pow(FracBits - j)))
              = Double(n, k * Fr + Cleared(f, Pow(FracBits - j)) + up)
<1> DEFINE d == Of(n, k, f)
           u == Pow(FracBits - j)
           v == Pow(j - HighBits)
           g == f \div Word
           l == f % Word
           h == k * Hi + g
           s == IF n THEN SignBit ELSE 0
           c == (l + up) \div Word
           r == (l + up) % Word
<1>1. /\ FracBits \in Nat /\ HighBits \in Nat /\ HighBits < FracBits /\ Bias \in Nat /\ Bias >= FracBits
      /\ Word \in Nat /\ Word > 0 /\ SignBit \in Nat /\ SignBit > 0 /\ Word = 2 * SignBit
      /\ Hi \in Nat /\ Hi >= 4 /\ Fr \in Nat /\ Fr = Hi * Word /\ SignBit = (2 * Bias + 2) * Hi
  BY Format
<1>2. j \in 0 .. FracBits - 1 /\ j \in Nat /\ j >= HighBits /\ k = Bias + j /\ k \in Nat
      /\ k < 2 * Bias /\ j < FracBits
  <2>1. k \in Nat BY <1>1 DEF Fields
  <2> QED BY <2>1, <1>1
<1>3. u \in Nat /\ u >= 2 /\ Word = u * v /\ v \in Nat /\ v >= 1
  BY <1>2, UnitIs
<1>4. /\ d.hi \in 0 .. Word - 1 /\ d.hi % SignBit = h /\ d.lo = l /\ Exponent(d.hi) = j
      /\ (Negative(d.hi) <=> n)
  BY <1>2, ValuesOf
<1>5. g \in Nat /\ g < Hi /\ l \in Nat /\ l < Word /\ f = g * Word + l
  BY FieldsAre, <1>1
<1>6. h \in Nat /\ h + 1 < SignBit
  <2>1. (k + 2) * Hi <= (2 * Bias + 2) * Hi
    <3>1. k + 2 \in Nat /\ 2 * Bias + 2 \in Nat /\ k + 2 <= 2 * Bias + 2
      BY <1>1, <1>2
    <3> QED BY <3>1, <1>1, Products
  <2>2. (k + 2) * Hi = k * Hi + 2 * Hi /\ k * Hi \in Nat
    BY <1>1, <1>2
  <2> QED BY <2>1, <2>2, <1>1, <1>5
<1>7. d.hi = s + h BY <1>1, <1>4, SignIs
<1>8. u <= Word
  <2>1. \A a \in Nat, b \in Nat : b >= 1 => a <= a * b
    OBVIOUS
  <2> QED BY <2>1, <1>3
<1>9. up \in Nat /\ up <= u /\ (up = 0 \/ up = u)
  BY <1>3
<1> HIDE DEF u, v, g, l
<1>10. l + up = Word * c + r /\ c \in Nat /\ r \in Nat /\ r < Word
  <2>1. l + up \in Int /\ l + up >= 0 BY <1>5, <1>9
  <2> QED BY <2>1, <1>1, DivMod
<1>11. c \in {0, 1}
  <2>1. l + up < Word * 2 /\ l + up \in Int /\ 2 \in Int
    BY <1>1, <1>3, <1>5, <1>8, <1>9
  <2>2. c < 2 BY ONLY <2>1, <1>1, DivLess
  <2> QED BY <2>2, <1>10
<1>12. f % u = l % u
  <2>1. f = l + u * (g * v)
    <3>1. g * (u * v) = u * (g * v) /\ u * (g * v) \in Nat
      BY <1>3, <1>5
    <3> QED BY <3>1, <1>3, <1>5
  <2>2. g * v \in Int /\ l \in Int /\ u > 0
    BY <1>3, <1>5
  <2>3. (l + u * (g * v)) % u = l % u
    BY ONLY <2>2, <1>3, ModSum
  <2> QED BY <2>1, <2>3
<1>13. up = 0 \/ up = u BY <1>9
<1>14. r % u = l % u
  <2>1. PICK e \in Int : up = u * e
    <3>1. 0 = u * 0 /\ u = u * 1 BY <1>3
    <3> QED BY <3>1, <1>13
  <2>2. l \in Int /\ r \in Int /\ u \in Nat /\ u > 0 /\ e \in Int /\ v * c \in Int
    BY <1>3, <1>5, <1>10
  <2>3. (l + u * e) % u = l % u /\ (r + u * (v * c)) % u = r % u
    BY ONLY <2>2, ModSum
  <2>4. Word * c = u * (v * c) BY <1>3, <1>10
  <2>5. l + u * e = r + u * (v * c)
    <3> HIDE DEF c, r
    <3>1. l + up = Word * c + r /\ Word * c \in Int
      BY <1>1, <1>10
    <3>2. l + up = u * (v * c) + r /\ u * (v * c) \in Int
      BY <3>1, <2>4
    <3> QED BY <3>2, <2>1, <2>2
  <2> QED BY <2>3, <2>5
<1>16. r % u \in Nat /\ r % u <= r
  BY <1>3, <1>10, DivMod
<1>17. Words(s + h + c, Cleared(r, u)) = Double(n, (h + c) * Word + Cleared(r, u))
  <2>1. h + c \in 0 .. SignBit - 1 /\ Cleared(r, u) \in 0 .. Word - 1
    <3>1. h + c < SignBit /\ h + c \in Nat
      <4> HIDE DEF c, h
      <4> QED BY <1>1, <1>6, <1>11
    <3>2. Cleared(r, u) \in Nat /\ Cleared(r, u) <= r
      BY <1>10, <1>16 DEF Cleared
    <3> HIDE DEF c, h, r
    <3> QED BY <3>1, <3>2, <1>1, <1>10
  <2> DEFINE a == h + c
  <2>2. Words(s + a, Cleared(r, u)) = Double(n, a * Word + Cleared(r, u))
    <3> HIDE DEF a
    <3>1. a \in 0 .. SignBit - 1 /\ Cleared(r, u) \in 0 .. Word - 1
      BY <2>1 DEF a
    <3> QED BY <3>1, WordsAre
  <2>3. s + h + c = s + a BY <1>1, <1>6, <1>11
  <2> QED BY <2>2, <2>3
<1>18. (h + c) * Word + Cleared(r, u) = k * Fr + Cleared(f, u) + up
  <2>1. Cleared(r, u) = r - (l % u) /\ Cleared(f, u) = f - (l % u) /\ l % u \in Nat
    BY <1>12, <1>14, <1>16 DEF Cleared
  <2>2. (h + c) * Word = k * (Hi * Word) + g * Word + Word * c /\ k * (Hi * Word) \in Nat
        /\ g * Word \in Nat /\ Word * c \in Nat
    <3>1. k \in Nat /\ Hi \in Nat /\ g \in Nat /\ c \in Nat /\ Word \in Nat
      BY <1>1, <1>2, <1>5, <1>10
    <3> HIDE DEF c
    <3> QED BY <3>1
  <2> DEFINE p == l % u
  <2> HIDE DEF p, c, r
  <2>3. (h + c) * Word + (r - p) = k * Fr + (f - p) + up
    <3>1. p \in Nat BY <2>1 DEF p
    <3>2. f \in Nat /\ f = g * Word + l
      BY <2>2, <1>5
    <3> QED BY <3>1, <3>2, <2>2, <1>1, <1>5, <1>9, <1>10
  <2> QED BY <2>1, <2>3 DEF p
<1>19. d.lo % u = 0 <=> f % u = 0 BY <1>4, <1>12
<1>20. Words(d.hi + (d.lo + up) \div Word, Cleared((d.lo + up) % Word, u))
         = Double(n, k * Fr + Cleared(f, u) + up)
  BY <1>4, <1>7, <1>17, <1>18
<1> QED BY <1>19, <1>20 DEF u

\* ToInteger with the point in the low word clears the fraction behind it.
LEMMA ToIntegerLow ==
  ASSUME NEW n \in BOOLEAN, NEW k \in Fields, NEW f \in Fractions,
         NEW small, NEW away \in BOOLEAN, NEW j \in HighBits .. FracBits - 1, j = k - Bias
  PROVE  ToInteger(Of(n, k, f), small, away) =
           IF f % Pow(FracBits - j) = 0 \/ ~HugePlusIsPositive(Of(n, k, f)) THEN Of(n, k, f)
           ELSE Double(n, k * Fr + Cleared(f, Pow(FracBits - j))
                            + (IF away THEN Pow(FracBits - j) ELSE 0))
<1> DEFINE d == Of(n, k, f)
           u == Pow(FracBits - j)
           up == IF away THEN u ELSE 0
<1>1. k < 2 * Bias /\ j \in 0 .. 2 * Bias
  BY Format DEF Fields
<1>2. HI(d) = d.hi /\ LO(d) = d.lo BY DEF HI, LO
<1>3. Exponent(d.hi) = j BY <1>1, ValuesOf
<1>4. 2 ^ (FracBits - j) = u BY DEF Pow
<1>5. j # Bias + 1 /\ j \notin FracBits .. Bias /\ ~(j < 0) /\ j \notin 0 .. HighBits - 1
      /\ ~(j < HighBits) /\ j \in HighBits .. FracBits - 1
  BY Format
<1>6. ToInteger(d, small, away) =
         IF d.lo % u = 0 \/ ~HugePlusIsPositive(d) THEN d
         ELSE Words(d.hi + (d.lo + up) \div Word, Cleared((d.lo + up) % Word, u))
  <2> HIDE DEF d, u
  <2> QED BY <1>2, <1>3, <1>4, <1>5 DEF ToInteger
<1>7. d.lo % u = 0 <=> f % u = 0 BY LowPlace
<1>8. Words(d.hi + (d.lo + up) \div Word, Cleared((d.lo + up) % Word, u))
        = Double(n, k * Fr + Cleared(f, u) + up)
  BY LowPlace
<1> QED BY <1>6, <1>7, <1>8

\* ToInteger (s_floor.c, s_ceil.c) with the point among the bits: the fraction behind it is
\* cleared, and a unit added when the result is away from zero.
LEMMA ToIntegerIs ==
  ASSUME NEW n \in BOOLEAN, NEW k \in Fields, NEW f \in Fractions,
         NEW small, NEW away \in BOOLEAN, NEW j \in 0 .. FracBits - 1, j = k - Bias
  PROVE  ToInteger(Of(n, k, f), small, away) =
           IF f % Pow(FracBits - j) = 0 \/ ~HugePlusIsPositive(Of(n, k, f)) THEN Of(n, k, f)
           ELSE Double(n, k * Fr + Cleared(f, Pow(FracBits - j))
                            + (IF away THEN Pow(FracBits - j) ELSE 0))
<1>1. FracBits \in Nat /\ HighBits \in Nat BY Format
<1>2. j \in 0 .. HighBits - 1 \/ j \in HighBits .. FracBits - 1
  BY <1>1
<1> QED BY <1>2, ToIntegerHigh, ToIntegerLow

\* Every number has a highest bit.
LEMMA TopExists ==
  ASSUME NEW m \in Nat, NEW i \in Nat, 0 < i, i < Pow(m)
  PROVE  \E t \in 0 .. m - 1 : Pow(t) <= i /\ i < Pow(t + 1)
<1> DEFINE S == {p \in Nat : i < Pow(p) => \E t \in 0 .. p - 1 : Pow(t) <= i /\ i < Pow(t + 1)}
<1>1. 0 \in S BY PowType
<1>2. ASSUME NEW p \in Nat, p \in S PROVE p + 1 \in S
  <2> SUFFICES ASSUME i < Pow(p + 1) PROVE \E t \in 0 .. (p + 1) - 1 : Pow(t) <= i /\ i < Pow(t + 1)
    OBVIOUS
  <2>1. Pow(p) \in Nat BY PowType
  <2>2. CASE i < Pow(p) BY <1>2, <2>2
  <2>3. CASE Pow(p) <= i
    BY <2>3, p \in 0 .. (p + 1) - 1
  <2> QED BY <2>1, <2>2, <2>3
<1> HIDE DEF S
<1>3. m \in S BY <1>1, <1>2, NatSetInduction
<1> QED BY <1>3 DEF S

\* Top finds the highest bit.
LEMMA TopIs ==
  ASSUME NEW t \in Nat, t <= 2 * WordBits, NEW i \in Nat, Pow(t) <= i, i < Pow(t + 1)
  PROVE  Top(i) = t
<1>1. WordBits \in Nat /\ t \in 0 .. 2 * WordBits
  BY Format
<1>2. ASSUME NEW p \in 0 .. 2 * WordBits, Pow(p) <= i, i < Pow(p + 1) PROVE p = t
  <2>1. p \in Nat /\ Pow(p) \in Nat /\ Pow(t) \in Nat /\ Pow(p + 1) = 2 * Pow(p)
        /\ Pow(t + 1) = 2 * Pow(t)
    BY <1>1, PowType
  <2>2. ~(p < t)
    <3> SUFFICES ASSUME p < t PROVE FALSE OBVIOUS
    <3>1. 2 * Pow(p) <= Pow(t) BY <2>1, PowOrder
    <3> QED BY <3>1, <2>1, <1>2
  <2>3. ~(t < p)
    <3> SUFFICES ASSUME t < p PROVE FALSE OBVIOUS
    <3>1. 2 * Pow(t) <= Pow(p) BY <2>1, PowOrder
    <3> QED BY <3>1, <2>1, <1>2
  <2> QED BY <2>1, <2>2, <2>3
<1>3. Top(i) = CHOOSE p \in 0 .. 2 * WordBits : Pow(p) <= i /\ i < Pow(p + 1)
  BY DEF Top, Pow
<1> QED BY <1>1, <1>2, <1>3

\* The highest bit of a mantissa.
LEMMA TopOf ==
  ASSUME NEW m \in Nat, 0 < m, m < 2 * Fr
  PROVE  \E t \in 0 .. FracBits : Pow(t) <= m /\ m < Pow(t + 1) /\ Top(m) = t
<1>1. FracBits \in Nat /\ WordBits \in Nat /\ FracBits <= 2 * WordBits
  BY Format
<1>2. Pow(FracBits + 1) = 2 * Fr
  BY <1>1, PowType DEF Fr
<1>3. \E t \in 0 .. (FracBits + 1) - 1 : Pow(t) <= m /\ m < Pow(t + 1)
  BY <1>1, <1>2, TopExists
<1>4. PICK t \in 0 .. FracBits : Pow(t) <= m /\ m < Pow(t + 1)
  BY <1>1, <1>3
<1>5. t \in Nat /\ t <= 2 * WordBits BY <1>1
<1>6. Top(m) = t BY <1>4, <1>5, TopIs
<1> QED BY <1>4, <1>6

\* The scale of subnormal numbers.
Least0 == 1 - Bias - FracBits

\* Rounded without powers: to the nearest number, the even one of two.
LEMMA RoundedIs ==
  ASSUME NEW i \in Nat, NEW n \in Nat
  PROVE  /\ Rounded(i, n) = IF n > FracBits + 2 THEN 0
                            ELSE IF 2 * (i % Pow(n)) > Pow(n)
                                      \/ (2 * (i % Pow(n)) = Pow(n) /\ (i \div Pow(n)) % 2 = 1)
                                 THEN i \div Pow(n) + 1 ELSE i \div Pow(n)
         /\ Rounded(i, n) \in Nat
         /\ \A c \in Nat : i < Pow(n) * c => Rounded(i, n) <= c
<1>1. Rounded(i, n) = IF n > FracBits + 2 THEN 0
                            ELSE IF 2 * (i % Pow(n)) > Pow(n)
                                      \/ (2 * (i % Pow(n)) = Pow(n) /\ (i \div Pow(n)) % 2 = 1)
                                 THEN i \div Pow(n) + 1 ELSE i \div Pow(n)
  BY DEF Rounded, Pow
<1>2. Pow(n) \in Nat /\ Pow(n) > 0 BY PowType
<1>3. i \div Pow(n) \in Nat BY <1>2, DivMod
<1>4. ASSUME NEW c \in Nat, i < Pow(n) * c PROVE i \div Pow(n) < c
  BY <1>2, <1>4, DivLess
<1>5. Rounded(i, n) \in {0, i \div Pow(n), i \div Pow(n) + 1}
  BY <1>1
<1> QED BY <1>1, <1>3, <1>4, <1>5

\* Zero is composed of no bits, whatever their scale.
LEMMA ComposedZero ==
  ASSUME NEW n \in BOOLEAN, NEW s \in Int
  PROVE  Composed(n, 0, s) = Of(n, 0, 0)
<1>1. Fr \in Nat /\ 0 * Fr + 0 = 0 BY Format
<1> QED BY <1>1 DEF Composed, Of

\* The double next to m * 2^s, where t is the highest bit of m.
LEMMA ComposedIs ==
  ASSUME NEW n \in BOOLEAN, NEW m \in Nat, m < 2 * Fr, NEW s \in Int,
         NEW t \in 0 .. FracBits, Pow(t) <= m, m < Pow(t + 1)
  PROVE  /\ s + t > Bias => Composed(n, m, s) = Of(n, 2 * Bias + 1, 0)
         /\ s + t \in 1 - Bias .. Bias =>
              /\ Composed(n, m, s) = Of(n, s + t + Bias, m * Pow(FracBits - t) - Fr)
              /\ m * Pow(FracBits - t) - Fr \in Fractions
         /\ s + t < 1 - Bias /\ s >= Least0 =>
              /\ Composed(n, m, s) = Of(n, 0, m * Pow(s - Least0))
              /\ m * Pow(s - Least0) \in Fractions
         /\ s + t < 1 - Bias /\ s < Least0 =>
              /\ Composed(n, m, s) = Double(n, Rounded(m, Least0 - s))
              /\ Rounded(m, Least0 - s) \in 0 .. Fr
<1>1. FracBits \in Nat /\ WordBits \in Nat /\ FracBits <= 2 * WordBits /\ Bias \in Nat /\ Fr \in Nat
      /\ Bias >= FracBits
  BY Format
<1>2. t \in Nat /\ t <= 2 * WordBits /\ t + 1 \in Nat /\ FracBits - t \in Nat
  BY <1>1
<1>3. Top(m) = t BY <1>2, TopIs
<1>4. Pow(t) \in Nat /\ Pow(t) > 0 /\ Pow(t + 1) = 2 * Pow(t) /\ m > 0
  BY <1>2, PowType
<1>5. Composed(n, m, s) =
        Double(n, CASE m = 0 -> 0
                    [] m > 0 /\ s + t > Bias -> Infinity
                    [] m > 0 /\ s + t \in 1 - Bias .. Bias ->
                         (s + t + Bias - 1) * Fr + m * Pow(FracBits - t)
                    [] m > 0 /\ s + t < 1 - Bias ->
                         IF s >= Least0 THEN m * Pow(s - Least0) ELSE Rounded(m, Least0 - s))
  BY <1>3 DEF Composed, Pow, Fr, Least0
<1>6. ASSUME s + t > Bias PROVE Composed(n, m, s) = Of(n, 2 * Bias + 1, 0)
  <2>1. s + t \notin 1 - Bias .. Bias /\ ~(s + t < 1 - Bias)
    BY <1>1, <1>2, <1>6
  <2>2. Infinity = (2 * Bias + 1) * Fr + 0
    BY PowersAre, AllIs
  <2> QED BY <1>4, <1>5, <1>6, <2>1, <2>2 DEF Of
<1>7. ASSUME s + t \in 1 - Bias .. Bias
      PROVE  /\ Composed(n, m, s) = Of(n, s + t + Bias, m * Pow(FracBits - t) - Fr)
             /\ m * Pow(FracBits - t) - Fr \in Fractions
  <2>1. ~(s + t > Bias) /\ ~(s + t < 1 - Bias)
    BY <1>1, <1>2, <1>7
  <2>2. Composed(n, m, s) = Double(n, (s + t + Bias - 1) * Fr + m * Pow(FracBits - t))
    BY <1>4, <1>5, <1>7, <2>1
  <2> DEFINE p == Pow(FracBits - t)
  <2>3. p \in Nat /\ p > 0 /\ Fr = Pow(t) * p /\ 2 * Fr = Pow(t + 1) * p
    <3>1. p \in Nat /\ p > 0 BY <1>2, PowType
    <3>2. FracBits = t + (FracBits - t)
      BY <1>1, <1>2
    <3>3. Fr = Pow(t) * p
      BY <3>2, <1>2, PowSum DEF Fr
    <3> QED BY <3>1, <3>3, <1>4
  <2> HIDE DEF p
  <2>4. Pow(t) * p <= m * p BY <2>3, <1>4, Products
  <2>5. m * p < Pow(t + 1) * p
    <3>1. (m + 1) * p <= Pow(t + 1) * p
      <4>1. m + 1 \in Nat /\ m + 1 <= Pow(t + 1) /\ Pow(t + 1) \in Nat
        BY <1>4
      <4> QED BY <4>1, <2>3, Products
    <3>2. (m + 1) * p = m * p + p /\ m * p \in Nat
      BY <2>3
    <3> QED BY <3>1, <3>2, <2>3, <1>4
  <2>6. m * p - Fr \in Fractions
    <3>1. m * p \in Nat BY <2>3
    <3> QED BY <3>1, <2>3, <2>4, <2>5, <1>1 DEF Fractions
  <2>7. (s + t + Bias - 1) * Fr + m * p = (s + t + Bias) * Fr + (m * p - Fr)
    <3> DEFINE a == s + t + Bias
    <3>1. a \in Int /\ m * p \in Nat /\ Fr \in Nat
      BY <1>1, <1>2, <2>3
    <3> HIDE DEF a
    <3>2. (a - 1) * Fr = a * Fr - Fr /\ a * Fr \in Int
      BY <3>1
    <3> DEFINE b == m * p
    <3>3. b \in Int BY <3>1
    <3> HIDE DEF b
    <3>4. (a - 1) * Fr + b = a * Fr + (b - Fr)
      BY <3>1, <3>2, <3>3
    <3>5. s + t + Bias - 1 = a - 1
      BY <1>1, <1>2 DEF a
    <3> QED BY <3>4, <3>5 DEF a, b
  <2> QED BY <2>2, <2>6, <2>7 DEF Of, p
<1>8. ASSUME s + t < 1 - Bias, s >= Least0
      PROVE  /\ Composed(n, m, s) = Of(n, 0, m * Pow(s - Least0))
             /\ m * Pow(s - Least0) \in Fractions
  <2>1. ~(s + t > Bias) /\ s + t \notin 1 - Bias .. Bias
    BY <1>1, <1>2, <1>8
  <2>2. Composed(n, m, s) = Double(n, m * Pow(s - Least0))
    BY <1>4, <1>5, <1>8, <2>1
  <2> DEFINE c == s - Least0
  <2>3. c \in Nat /\ t + 1 + c <= FracBits
    BY <1>1, <1>2, <1>8 DEF Least0
  <2> HIDE DEF c
  <2>4. Pow(c) \in Nat /\ Pow(c) > 0 /\ Pow((t + 1) + c) = Pow(t + 1) * Pow(c)
    BY <2>3, <1>2, PowType, PowSum
  <2>5. Pow((t + 1) + c) <= Fr
    <3>1. (t + 1) + c \in Nat /\ ((t + 1) + c = FracBits \/ (t + 1) + c < FracBits)
      BY <2>3, <1>1, <1>2
    <3>2. CASE (t + 1) + c < FracBits
      BY <3>1, <3>2, <1>1, PowOrder, PowType DEF Fr
    <3> QED BY <3>1, <3>2, <1>1 DEF Fr
  <2>6. m * Pow(c) < Pow(t + 1) * Pow(c)
    <3>1. (m + 1) * Pow(c) <= Pow(t + 1) * Pow(c)
      <4>1. m + 1 \in Nat /\ m + 1 <= Pow(t + 1) /\ Pow(t + 1) \in Nat
        BY <1>4
      <4> QED BY <4>1, <2>4, Products
    <3>2. (m + 1) * Pow(c) = m * Pow(c) + Pow(c) /\ m * Pow(c) \in Nat
      BY <2>4
    <3> QED BY <3>1, <3>2, <2>4, <1>4
  <2>7. m * Pow(c) \in Fractions
    <3>1. m * Pow(c) \in Nat /\ Pow(t + 1) * Pow(c) \in Nat
      BY <2>4, <1>4
    <3> QED BY <3>1, <2>4, <2>5, <2>6, <1>1 DEF Fractions
  <2>8. 0 * Fr + m * Pow(c) = m * Pow(c)
    <3>1. m * Pow(c) \in Nat BY <2>4
    <3> QED BY <3>1, <1>1
  <2> QED BY <2>2, <2>7, <2>8 DEF Of, c
<1>9. ASSUME s + t < 1 - Bias, s < Least0
      PROVE  /\ Composed(n, m, s) = Double(n, Rounded(m, Least0 - s))
             /\ Rounded(m, Least0 - s) \in 0 .. Fr
  <2>1. ~(s + t > Bias) /\ s + t \notin 1 - Bias .. Bias /\ ~(s >= Least0)
    BY <1>1, <1>2, <1>9 DEF Least0
  <2>2. Composed(n, m, s) = Double(n, Rounded(m, Least0 - s))
    BY <1>4, <1>5, <1>9, <2>1
  <2> DEFINE p == Least0 - s
  <2>3. p \in Nat /\ t + 1 <= FracBits + p
    BY <1>1, <1>2, <1>9 DEF Least0
  <2> HIDE DEF p
  <2>4. Pow(FracBits + p) = Pow(p) * Fr
    <3>1. Pow(p + FracBits) = Pow(p) * Pow(FracBits)
      BY <2>3, <1>1, PowSum
    <3> QED BY <3>1, <2>3, <1>1, p + FracBits = FracBits + p DEF Fr
  <2>5. Pow(t + 1) <= Pow(FracBits + p)
    <3>1. FracBits + p \in Nat /\ (t + 1 = FracBits + p \/ t + 1 < FracBits + p)
      BY <2>3, <1>1, <1>2
    <3>2. CASE t + 1 < FracBits + p
      BY <3>1, <3>2, <1>2, PowOrder, PowType
    <3>3. Pow(t + 1) \in Nat BY <1>4
    <3> QED BY <3>1, <3>2, <3>3
  <2>6. m < Pow(p) * Fr
    <3>1. Pow(p) * Fr \in Nat BY <2>3, <1>1, PowType
    <3> QED BY <3>1, <2>4, <2>5, <1>4
  <2>7. Rounded(m, p) \in Nat /\ Rounded(m, p) <= Fr
    BY <2>3, <2>6, <1>1, RoundedIs
  <2> QED BY <2>2, <2>7, <1>1 DEF p
<1> QED BY <1>6, <1>7, <1>8, <1>9

\* A power is at most a later one.
LEMMA PowBelow ==
  ASSUME NEW m \in Nat, NEW n \in Nat, m <= n
  PROVE  Pow(m) <= Pow(n)
<1>1. m = n \/ m < n OBVIOUS
<1>2. Pow(n) \in Nat /\ Pow(m) \in Nat BY PowType
<1>3. m < n => Pow(m) < Pow(n) BY PowOrder
<1> QED BY <1>1, <1>2, <1>3

\* The highest bit of a product with a power of two.
LEMMA PowTops ==
  ASSUME NEW m \in Nat, NEW t \in Nat, NEW c \in Nat, Pow(t) <= m, m < Pow(t + 1)
  PROVE  /\ m * Pow(c) \in Nat
         /\ Pow(t + c) <= m * Pow(c) /\ m * Pow(c) < Pow((t + c) + 1)
<1>1. Pow(c) \in Nat /\ Pow(c) > 0 /\ Pow(t) \in Nat /\ Pow(t + 1) = 2 * Pow(t) /\ Pow(t + c) \in Nat
  BY PowType
<1>2. Pow(t + c) = Pow(t) * Pow(c) /\ Pow((t + c) + 1) = 2 * Pow(t + c)
  <2>1. t + c \in Nat OBVIOUS
  <2>2. Pow((t + c) + 1) = 2 * Pow(t + c)
    BY ONLY <2>1, PowType
  <2> QED BY <2>2, PowSum
<1>3. Pow(t) * Pow(c) <= m * Pow(c)
  BY <1>1, Products
<1>4. (m + 1) * Pow(c) <= Pow(t + 1) * Pow(c)
  <2>1. m + 1 \in Nat /\ m + 1 <= Pow(t + 1) /\ Pow(t + 1) \in Nat
    BY <1>1
  <2> QED BY <2>1, <1>1, Products
<1>5. (m + 1) * Pow(c) = m * Pow(c) + Pow(c) /\ m * Pow(c) \in Nat
  BY <1>1
<1>6. Pow(t + 1) * Pow(c) = 2 * (Pow(t) * Pow(c))
  BY <1>1
<1> QED BY <1>1, <1>2, <1>3, <1>4, <1>5, <1>6

\* Scales can be exchanged for bits of the mantissa.
LEMMA ComposedShift ==
  ASSUME NEW n \in BOOLEAN, NEW m \in Nat, NEW c \in Nat, m * Pow(c) < 2 * Fr, NEW s \in Int
  PROVE  Composed(n, m * Pow(c), s) = Composed(n, m, s + c)
<1>1. FracBits \in Nat /\ Bias \in Nat /\ Fr \in Nat /\ Fr > 0 /\ Bias >= FracBits
  BY Format, Products
<1>2. Pow(c) \in Nat /\ Pow(c) >= 1 /\ m * Pow(c) \in Nat /\ m <= m * Pow(c)
  <2>1. Pow(c) \in Nat /\ Pow(c) >= 1 BY PowType
  <2>2. \A a \in Nat, b \in Nat : b >= 1 => a <= a * b /\ a * b \in Nat
    OBVIOUS
  <2> QED BY <2>1, <2>2
<1>3. CASE m = 0 BY <1>2, <1>3, ComposedZero
<1>4. CASE m > 0
  <2>0. m < 2 * Fr BY <1>1, <1>2
  <2>1. PICK t \in 0 .. FracBits : Pow(t) <= m /\ m < Pow(t + 1)
    BY <1>4, <2>0, TopOf
  <2>2. t \in Nat /\ t <= FracBits BY <1>1
  <2> DEFINE w == m * Pow(c)
             e == (s + c) + t
             u == t + c
  <2>3. Pow(u) <= w /\ w < Pow(u + 1) /\ w \in Nat /\ u \in Nat
    BY <2>1, <2>2, PowTops
  <2>4. u <= FracBits
    <3> SUFFICES ASSUME u > FracBits PROVE FALSE
      BY <1>1, <2>3
    <3>1. FracBits + 1 \in Nat /\ FracBits + 1 <= u
      BY <1>1, <2>3
    <3>2. Pow(FracBits + 1) <= Pow(u) /\ Pow(FracBits + 1) = 2 * Fr /\ Pow(u) \in Nat
      BY <3>1, <2>3, <1>1, PowBelow, PowType DEF Fr
    <3> QED BY <3>2, <2>3, <1>1
  <2>5. u \in 0 .. FracBits /\ s + u = e /\ s + c \in Int /\ e \in Int
    BY <2>2, <2>3, <2>4
  <2>6. FracBits - t \in Nat /\ FracBits - u \in Nat /\ FracBits - t = c + (FracBits - u)
    BY <1>1, <2>2, <2>4
  <2>7. m * Pow(FracBits - t) = w * Pow(FracBits - u)
    <3>1. Pow(c + (FracBits - u)) = Pow(c) * Pow(FracBits - u) /\ Pow(FracBits - u) \in Nat
      BY <2>6, PowSum, PowType
    <3>2. m * (Pow(c) * Pow(FracBits - u)) = (m * Pow(c)) * Pow(FracBits - u)
      BY <3>1, <1>2
    <3> QED BY <3>1, <3>2, <2>6
  <2> HIDE DEF w
  <2>8. CASE e > Bias
    <3>1. Composed(n, m, s + c) = Of(n, 2 * Bias + 1, 0)
      BY <2>0, <2>1, <2>5, <2>8, ComposedIs
    <3>2. Composed(n, w, s) = Of(n, 2 * Bias + 1, 0)
      <4> HIDE DEF u, e
      <4>1. w < 2 * Fr BY DEF w
      <4> QED BY <4>1, <2>3, <2>5, <2>8, ComposedIs
    <3> QED BY <3>1, <3>2 DEF w
  <2>9. CASE e \in 1 - Bias .. Bias
    <3>1. Composed(n, m, s + c) = Of(n, e + Bias, m * Pow(FracBits - t) - Fr)
      BY <2>0, <2>1, <2>5, <2>9, ComposedIs
    <3>2. Composed(n, w, s) = Of(n, e + Bias, w * Pow(FracBits - u) - Fr)
      <4> HIDE DEF u, e
      <4>1. w < 2 * Fr BY DEF w
      <4>2. s + u \in 1 - Bias .. Bias BY <2>5, <2>9
      <4>3. Composed(n, w, s) = Of(n, s + u + Bias, w * Pow(FracBits - u) - Fr)
        BY <4>1, <4>2, <2>3, <2>5, ComposedIs
      <4> QED BY <4>3, <2>5
    <3> QED BY <3>1, <3>2, <2>7 DEF w
  <2>10. CASE e < 1 - Bias
    <3>1. w < 2 * Fr BY DEF w
    <3>2. s + u < 1 - Bias BY <2>5, <2>10
    <3> DEFINE a == s + c
    <3>3. a \in Int /\ Least0 \in Int /\ a + t < 1 - Bias
      BY <1>1, <2>10 DEF Least0
    <3>4. CASE s >= Least0
      <4>1. Composed(n, w, s) = Of(n, 0, w * Pow(s - Least0))
        <5> HIDE DEF u, e, a
        <5> QED BY <3>1, <3>2, <3>4, <2>3, <2>5, ComposedIs
      <4>2. Composed(n, m, a) = Of(n, 0, m * Pow(a - Least0))
        <5>1. a >= Least0 BY <3>3, <3>4
        <5> HIDE DEF u, e, a
        <5> QED BY <5>1, <3>3, <2>0, <2>1, ComposedIs
      <4>3. a - Least0 = c + (s - Least0) /\ s - Least0 \in Nat
        BY <3>3, <3>4
      <4>4. Pow(c + (s - Least0)) = Pow(c) * Pow(s - Least0) /\ Pow(s - Least0) \in Nat
        BY <4>3, PowSum, PowType
      <4>5. m * (Pow(c) * Pow(s - Least0)) = (m * Pow(c)) * Pow(s - Least0)
        BY <4>4, <1>2
      <4> QED BY <4>1, <4>2, <4>3, <4>4, <4>5 DEF w
    <3>5. CASE s < Least0 /\ a >= Least0
      <4>1. Composed(n, w, s) = Double(n, Rounded(w, Least0 - s))
        <5> HIDE DEF u, e, a
        <5> QED BY <3>1, <3>2, <3>5, <2>3, <2>5, ComposedIs
      <4>2. Composed(n, m, a) = Of(n, 0, m * Pow(a - Least0)) /\ m * Pow(a - Least0) \in Fractions
        <5> HIDE DEF u, e, a
        <5> QED BY <3>3, <3>5, <2>0, <2>1, ComposedIs
      <4> DEFINE p == Least0 - s
                 q == m * Pow(a - Least0)
      <4>3. p \in Nat /\ p <= c /\ a - Least0 \in Nat /\ c = (a - Least0) + p
        BY <3>3, <3>5
      <4>4. p <= FracBits + 2
        <5>1. c <= FracBits BY <1>1, <2>2, <2>4
        <5> HIDE DEF p
        <5> QED BY <5>1, <4>3, <1>1
      <4>5. w = Pow(p) * q /\ q \in Nat
        <5>1. Pow((a - Least0) + p) = Pow(a - Least0) * Pow(p) /\ Pow(a - Least0) \in Nat /\ Pow(p) \in Nat
          BY <4>3, PowSum, PowType
        <5>2. m * (Pow(a - Least0) * Pow(p)) = Pow(p) * (m * Pow(a - Least0))
              /\ m * Pow(a - Least0) \in Nat
          <6> HIDE DEF p, a
          <6> QED BY <5>1
        <5> QED BY <5>1, <5>2, <4>3 DEF w
      <4> HIDE DEF p, q
      <4>6. w % Pow(p) = 0 /\ w \div Pow(p) = q
        <5>1. Pow(p) \in Nat /\ Pow(p) > 0 /\ w = Pow(p) * q + 0 /\ w \in Int
          BY <4>3, <4>5, <2>3, PowType
        <5> QED BY <5>1, <4>5, DivModUnique
      <4>7. Rounded(w, p) = q
        <5>1. Pow(p) \in Nat /\ Pow(p) > 0
          BY <4>3, PowType
        <5>2. ~(p > FracBits + 2) /\ ~(2 * 0 > Pow(p)) /\ 2 * 0 # Pow(p)
          BY <5>1, <4>3, <4>4, <1>1
        <5>3. Rounded(w, p) = IF p > FracBits + 2 THEN 0
                            ELSE IF 2 * (w % Pow(p)) > Pow(p)
                                      \/ (2 * (w % Pow(p)) = Pow(p) /\ (w \div Pow(p)) % 2 = 1)
                                 THEN w \div Pow(p) + 1 ELSE w \div Pow(p)
          BY <4>3, <2>3, RoundedIs
        <5> QED BY <5>2, <5>3, <4>6
      <4>8. 0 * Fr + q = q BY <1>1, <4>5
      <4> QED BY <4>1, <4>2, <4>7, <4>8 DEF w, Of, p, q
    <3>6. CASE a < Least0
      <4>0. s < Least0 BY <3>3, <3>6
      <4>1. Composed(n, w, s) = Double(n, Rounded(w, Least0 - s))
        <5> HIDE DEF u, e, a
        <5> QED BY <3>1, <3>2, <4>0, <2>3, <2>5, ComposedIs
      <4>2. Composed(n, m, a) = Double(n, Rounded(m, Least0 - a))
        <5> HIDE DEF u, e, a
        <5> QED BY <3>3, <3>6, <2>0, <2>1, ComposedIs
      <4> DEFINE p == Least0 - a
                 q == Least0 - s
      <4>3. p \in Nat /\ q \in Nat /\ q = p + c
        BY <3>3, <3>6, <4>0
      <4> HIDE DEF p, q
      <4>4. Pow(q) = Pow(p) * Pow(c) /\ Pow(p) \in Nat /\ Pow(p) > 0 /\ Pow(q) \in Nat /\ Pow(q) > 0
        BY <4>3, PowSum, PowType
      <4>5. w % Pow(q) = (m % Pow(p)) * Pow(c) /\ w \div Pow(q) = m \div Pow(p)
        <5>0. PICK z \in Nat : z = 0 OBVIOUS
        <5>1. z < Pow(c) /\ Pow(c) \in Nat /\ Pow(p) \in Nat /\ Pow(p) > 0
          BY <1>2, <4>4, <5>0
        <5>2. (m * Pow(c) + z) % (Pow(p) * Pow(c)) = (m % Pow(p)) * Pow(c) + z
              /\ (m * Pow(c) + z) \div (Pow(p) * Pow(c)) = m \div Pow(p)
          <6>1. PICK c1 \in Nat, p1 \in Nat : c1 = Pow(c) /\ p1 = Pow(p)
            BY ONLY <5>1
          <6>2. z < c1 /\ p1 > 0 /\ z \in Nat /\ c1 \in Nat /\ p1 \in Nat /\ m \in Nat
            BY ONLY <5>1, <6>1, m \in Nat
          <6>3. (m * c1 + z) % (p1 * c1) = (m % p1) * c1 + z
            BY ONLY <6>2, TwoWords
          <6>4. (m * c1 + z) \div (p1 * c1) = m \div p1
            BY ONLY <6>2, TwoWords
          <6> QED BY ONLY <6>3, <6>4, <6>1
        <5>3. m * Pow(c) + z = m * Pow(c)
          BY <1>2, <5>0
        <5>4. (m % Pow(p)) * Pow(c) + z = (m % Pow(p)) * Pow(c)
          <6>1. m % Pow(p) \in Nat BY <4>4, DivMod
          <6> QED BY <6>1, <1>2, <5>0
        <5> QED BY <5>2, <5>3, <5>4, <4>4 DEF w
      <4>6. m % Pow(p) \in Nat /\ m \div Pow(p) \in Nat
        BY <4>4, DivMod
      <4>7. /\ 2 * (w % Pow(q)) > Pow(q) <=> 2 * (m % Pow(p)) > Pow(p)
            /\ 2 * (w % Pow(q)) = Pow(q) <=> 2 * (m % Pow(p)) = Pow(p)
        <5> DEFINE x1 == 2 * (m % Pow(p))
                   y1 == Pow(p)
                   z1 == Pow(c)
        <5>1. x1 \in Nat /\ y1 \in Nat /\ z1 \in Nat /\ z1 > 0
          BY <4>4, <4>6, <1>2
        <5>2. 2 * (w % Pow(q)) = x1 * z1 /\ Pow(q) = y1 * z1
          BY <4>4, <4>5, <4>6, <1>2
        <5> HIDE DEF x1, y1, z1
        <5>3. (x1 * z1 > y1 * z1 <=> x1 > y1) /\ (x1 * z1 = y1 * z1 <=> x1 = y1)
          BY ONLY <5>1
        <5> QED BY <5>2, <5>3 DEF x1, y1
      <4>8. CASE q <= FracBits + 2
        <5>1. p <= FracBits + 2 BY <4>3, <4>8, <1>1
        <5>2. ~(q > FracBits + 2) /\ ~(p > FracBits + 2)
          BY <4>3, <4>8, <5>1, <1>1
        <5>3. Rounded(w, q) = IF 2 * (w % Pow(q)) > Pow(q)
                                   \/ (2 * (w % Pow(q)) = Pow(q) /\ (w \div Pow(q)) % 2 = 1)
                              THEN w \div Pow(q) + 1 ELSE w \div Pow(q)
          BY <5>2, <4>3, <2>3, RoundedIs
        <5>4. Rounded(m, p) = IF 2 * (m % Pow(p)) > Pow(p)
                                   \/ (2 * (m % Pow(p)) = Pow(p) /\ (m \div Pow(p)) % 2 = 1)
                              THEN m \div Pow(p) + 1 ELSE m \div Pow(p)
          BY <5>2, <4>3, RoundedIs
        <5>5. w \div Pow(q) = m \div Pow(p) BY <4>5
        <5>6. Rounded(w, q) = Rounded(m, p)
          BY ONLY <5>3, <5>4, <5>5, <4>7
        <5> QED BY <5>6, <4>1, <4>2 DEF w, p, q
      <4>9. CASE q > FracBits + 2
        <5>1. Rounded(w, q) = 0
          BY <4>3, <4>9, <2>3, RoundedIs
        <5>2. Rounded(m, p) = 0
          <6>1. CASE p > FracBits + 2
            BY <6>1, <4>3, RoundedIs
          <6>2. CASE ~(p > FracBits + 2)
            <7>1. t + 2 <= p
              BY <4>3, <4>9, <2>2, <2>4, <1>1
            <7>2. Pow(t + 1) < Pow(p) /\ 2 * Pow(t + 1) <= Pow(p) /\ Pow(t + 1) \in Nat
              <8>1. t + 1 \in Nat /\ t + 1 < p
                BY <7>1, <2>2, <4>3
              <8> QED BY <8>1, <4>3, PowOrder, PowType
            <7>3. m = Pow(p) * 0 + m /\ m < Pow(p) /\ 2 * m < Pow(p)
              BY <7>2, <2>1, <4>4
            <7>4. m % Pow(p) = m /\ m \div Pow(p) = 0
              BY <7>3, <4>4, DivModUnique
            <7>5. ~(2 * m > Pow(p)) /\ 2 * m # Pow(p)
              BY <7>3, <4>4
            <7> QED BY <7>4, <7>5, <6>2, <4>3, RoundedIs
          <6> QED BY <6>1, <6>2
        <5> QED BY <5>1, <5>2, <4>1, <4>2 DEF w, p, q
      <4> QED BY <4>3, <4>8, <4>9, <1>1
    <3> QED BY <3>3, <3>4, <3>5, <3>6
  <2>11. e > Bias \/ e \in 1 - Bias .. Bias \/ e < 1 - Bias
    <3>1. e \in Int BY <2>5
    <3> HIDE DEF e
    <3> QED BY <3>1, <1>1
  <2> HIDE DEF e, u
  <2> QED BY ONLY <2>8, <2>9, <2>10, <2>11
<1> QED BY <1>3, <1>4

\* What fits in a double is composed without rounding.
LEMMA ComposedExact ==
  ASSUME NEW n \in BOOLEAN, NEW m \in Nat, m < 2 * Fr, NEW s \in Int, s >= Least0,
         NEW t \in 0 .. FracBits, m > 0 => Pow(t) <= m /\ m < Pow(t + 1), s + t <= Bias,
         NEW z, z = Composed(n, m, s)
  PROVE  /\ z \in AllDoubles /\ Finite(z) /\ (Negative(z.hi) <=> n)
         /\ Scale(z) \in Int /\ Least0 <= Scale(z) /\ Scale(z) <= s
         /\ Mantissa(z) = m * Pow(s - Scale(z))
<1>1. FracBits \in Nat /\ Bias \in Nat /\ Fr \in Nat /\ Fr > 0 /\ Bias >= FracBits /\ FracBits > 0
  BY Format, Products
<1>2. Least0 \in Int /\ Least0 = 1 - Bias - FracBits /\ s - Least0 \in Nat
  BY <1>1 DEF Least0
<1>3. Pow(s - Least0) \in Nat BY <1>2, PowType
<1>4. 0 \in Fields /\ 0 \in Fractions
  BY <1>1 DEF Fields, Fractions
<1>5. CASE m = 0
  <2>1. z = Of(n, 0, 0) BY <1>5, ComposedZero
  <2>2. z \in AllDoubles /\ Finite(z) /\ (Negative(z.hi) <=> n) /\ Scale(z) = Least0 /\ Mantissa(z) = 0
    BY <2>1, <1>1, <1>2, <1>4, ValuesOf
  <2> QED BY <2>2, <1>2, <1>3, <1>5
<1>6. CASE m > 0 /\ s + t \in 1 - Bias .. Bias
  <2> DEFINE k == s + t + Bias
             f == m * Pow(FracBits - t) - Fr
  <2>1. z = Of(n, k, f) /\ f \in Fractions
    BY <1>6, ComposedIs
  <2>2. k \in Fields /\ k > 0 /\ k < 2 * Bias + 1 /\ k - Bias - FracBits = s - (FracBits - t)
    BY <1>1, <1>6 DEF Fields
  <2>3. FracBits - t \in Nat /\ Pow(FracBits - t) \in Nat
    BY <1>1, PowType
  <2> HIDE DEF k
  <2>4. z \in AllDoubles /\ Finite(z) /\ (Negative(z.hi) <=> n)
    BY <2>1, <2>2, ValuesOf
  <2>5. Scale(z) = s - (FracBits - t) /\ Mantissa(z) = f + Fr
    BY <2>1, <2>2, ValuesOf
  <2>6. f + Fr = m * Pow(FracBits - t) BY <1>1, <2>3
  <2>7. s - Scale(z) = FracBits - t BY <1>1, <2>5
  <2>8. Least0 <= Scale(z) BY <1>1, <1>2, <1>6, <2>5
  <2> HIDE DEF f
  <2> QED BY <2>3, <2>4, <2>5, <2>6, <2>7, <2>8, <1>1
<1>7. CASE m > 0 /\ s + t < 1 - Bias
  <2> DEFINE f == m * Pow(s - Least0)
  <2>1. z = Of(n, 0, f) /\ f \in Fractions
    BY <1>7, ComposedIs
  <2> HIDE DEF f
  <2>2. z \in AllDoubles /\ Finite(z) /\ (Negative(z.hi) <=> n)
    BY <2>1, <1>4, <1>1, ValuesOf
  <2>3. Scale(z) = Least0 /\ Mantissa(z) = f
    BY <2>1, <1>1, <1>2, <1>4, ValuesOf
  <2> QED BY <2>2, <2>3, <1>2 DEF f
<1> QED BY <1>1, <1>5, <1>6, <1>7

\* Taken apart and put together.
LEMMA RoundTrip ==
  ASSUME NEW d \in AllDoubles, Finite(d)
  PROVE  /\ Composed(Negative(d.hi), Mantissa(d), Scale(d)) = d
         /\ Mantissa(d) \in Nat /\ Mantissa(d) < 2 * Fr
         /\ Scale(d) \in Int /\ Least0 <= Scale(d) /\ Scale(d) + FracBits <= Bias
         /\ Scale(d) > Least0 => Mantissa(d) >= Fr
<1>1. PICK n \in BOOLEAN, k \in Fields, f \in Fractions : d = Of(n, k, f)
  BY PartsOf
<1>2. FracBits \in Nat /\ Bias \in Nat /\ Fr \in Nat /\ Fr > 0 /\ Bias >= FracBits /\ FracBits > 0
  BY Format, Products
<1>3. Least0 = 1 - Bias - FracBits /\ k \in Nat /\ f \in Nat /\ f < Fr /\ k < 2 * Bias + 1 /\ k <= 2 * Bias
  BY <1>1, <1>2, ValuesOf DEF Least0, Fields, Fractions
<1>4. Negative(d.hi) = n
  <2>1. Negative(d.hi) \in BOOLEAN /\ (Negative(d.hi) <=> n)
    BY <1>1, ValuesOf DEF Negative
  <2>2. CASE n = TRUE BY <2>1, <2>2, Zenon
  <2>3. CASE n = FALSE BY <2>1, <2>3, Zenon
  <2> QED BY <2>2, <2>3, Zenon
<1>5. Mantissa(d) = (IF k = 0 THEN f ELSE f + Fr) /\ Scale(d) = (IF k = 0 THEN 1 ELSE k) - Bias - FracBits
  BY <1>1, ValuesOf
<1>6. Pow(0) = 1 BY PowType, 0 \in Nat
<1>7. CASE k = 0
  <2>1. Mantissa(d) = f /\ Scale(d) = Least0
    BY <1>3, <1>5, <1>7
  <2>2. CASE f = 0
    <3>1. Composed(n, f, Least0) = Of(n, 0, 0)
      BY <2>2, <1>2, ComposedZero DEF Least0
    <3> QED BY <3>1, <2>1, <2>2, <1>1, <1>2, <1>3, <1>4, <1>7
  <2>3. CASE f > 0
    <3>1. PICK t \in 0 .. FracBits : Pow(t) <= f /\ f < Pow(t + 1)
      BY <2>3, <1>2, <1>3, TopOf
    <3>2. t < FracBits
      <4> SUFFICES ASSUME t = FracBits PROVE FALSE
        BY <1>2
      <4> QED BY <3>1, <1>2, <1>3 DEF Fr
    <3>3. Least0 + t < 1 - Bias /\ Least0 \in Int /\ Least0 - Least0 = 0 /\ f < 2 * Fr /\ Least0 >= Least0
      BY <3>2, <1>2, <1>3
    <3>4. Composed(n, f, Least0) = Of(n, 0, f * Pow(Least0 - Least0))
      BY <3>1, <3>3, <1>3, ComposedIs
    <3> QED BY <3>3, <3>4, <2>1, <1>1, <1>2, <1>3, <1>4, <1>6, <1>7
  <2> QED BY <2>2, <2>3, <1>3
<1>8. CASE k > 0
  <2> DEFINE m == f + Fr
             s == k - Bias - FracBits
  <2>1. Mantissa(d) = m /\ Scale(d) = s /\ m \in Nat /\ s \in Int /\ m < 2 * Fr /\ m >= Fr
    BY <1>2, <1>3, <1>5, <1>8
  <2>2. Pow(FracBits + 1) = 2 * Fr /\ Pow(FracBits) = Fr
    BY <1>2, PowType DEF Fr
  <2>3. s + FracBits = k - Bias /\ s + FracBits \in 1 - Bias .. Bias /\ s + FracBits + Bias = k
    BY <1>2, <1>3, <1>8
  <2>4. FracBits \in 0 .. FracBits /\ FracBits - FracBits = 0 /\ m * 1 - Fr = f
    BY <1>2, <1>3
  <2> HIDE DEF m, s
  <2>5. Composed(n, m, s) = Of(n, s + FracBits + Bias, m * Pow(FracBits - FracBits) - Fr)
    BY <2>1, <2>2, <2>3, <2>4, ComposedIs
  <2>6. Least0 <= s /\ s + FracBits <= Bias
    BY <1>2, <1>3, <1>8 DEF s
  <2> QED BY <2>1, <2>3, <2>4, <2>5, <2>6, <1>1, <1>4, <1>6
<1> QED BY <1>3, <1>7, <1>8

\* A product by a power of two.
LEMMA TimesIs ==
  ASSUME NEW d \in AllDoubles
  PROVE  /\ ~Finite(d) => \A n \in Int : Times(d, n) = d
         /\ Times(d, 0) = d
<1>1. Finite(d) => Scale(d) + 0 = Scale(d)
  BY RoundTrip
<1> QED BY <1>1, RoundTrip DEF Times

\* The integers among doubles.
LEMMA IntegerValues ==
  ASSUME NEW n \in BOOLEAN, NEW k \in Fields, NEW f \in Fractions, NEW z, z = Of(n, k, f)
  PROVE  /\ k >= Bias + FracBits => Large(z) /\ Integral(z)
         /\ k \in Bias .. Bias + FracBits =>
              /\ -Scale(z) = FracBits + Bias - k
              /\ Integral(z) <=> f % Pow(FracBits + Bias - k) = 0
              /\ Whole(z) = (f \div Pow(FracBits + Bias - k)) + Pow(k - Bias)
         /\ k < Bias => /\ Integral(z) <=> k = 0 /\ f = 0
                        /\ Whole(z) = 0 /\ -Scale(z) > FracBits
<1>1. FracBits \in Nat /\ Bias \in Nat /\ Fr \in Nat /\ Fr > 0 /\ Bias >= FracBits /\ FracBits > 1
  BY Format, Products
<1>2. k \in Nat /\ f \in Nat /\ f < Fr
  BY <1>1 DEF Fields, Fractions
<1>3. Mantissa(z) = (IF k = 0 THEN f ELSE f + Fr) /\ Scale(z) = (IF k = 0 THEN 1 ELSE k) - Bias - FracBits
  BY ValuesOf
<1>5. CASE k \in Bias .. Bias + FracBits
  <2> DEFINE j == k - Bias
             u == FracBits + Bias - k
  <2>1. j \in Nat /\ u \in Nat /\ u + j = FracBits /\ k > 0 /\ u <= FracBits
    BY <1>1, <1>2, <1>5
  <2>2. Mantissa(z) = f + Fr /\ -Scale(z) = u
    BY <1>1, <1>2, <1>3, <2>1
  <2> HIDE DEF j, u
  <2>3. Pow(j) \in Nat /\ Pow(u) \in Nat /\ Pow(u) > 0 /\ Fr = Pow(u) * Pow(j)
    BY <2>1, PowType, PowSum DEF Fr
  <2>4. (f + Pow(j) * Pow(u)) % Pow(u) = f % Pow(u) /\ (f + Pow(j) * Pow(u)) \div Pow(u) = (f \div Pow(u)) + Pow(j)
    BY <2>3, <1>2, ModSum
  <2>5. Pow(u) * Pow(j) = Pow(j) * Pow(u) BY <2>3
  <2>6. Mantissa(z) % Pow(u) = f % Pow(u) /\ Mantissa(z) \div Pow(u) = (f \div Pow(u)) + Pow(j)
    BY <2>2, <2>3, <2>4, <2>5
  <2>7. Whole(z) = (f \div Pow(u)) + Pow(j)
    BY <2>1, <2>2, <2>6, <1>1 DEF Whole, Pow
  <2>8. Integral(z) <=> f % Pow(u) = 0
    <3>1. CASE Large(z)
      <4>1. u = 0
        BY <3>1, <2>1, <2>2, <1>3, <1>1, <1>2 DEF Large
      <4>2. Pow(u) = 1 BY <4>1, PowType, 0 \in Nat
      <4> QED BY <4>2, <3>1, <1>2 DEF Integral
    <3>2. CASE ~Large(z)
      <4>1. Mantissa(z) # 0 BY <2>2, <1>1, <1>2
      <4> QED BY <4>1, <3>2, <2>1, <2>2, <2>6 DEF Integral, Pow
    <3> QED BY <3>1, <3>2
  <2>9. u = FracBits + Bias - k /\ j = k - Bias
    BY DEF u, j
  <2>10. k >= Bias + FracBits => Large(z) /\ Integral(z)
    BY <1>1, <1>2, <1>3 DEF Large, Integral
  <2> QED BY <2>2, <2>7, <2>8, <2>9, <2>10, <1>1, <1>2, <1>5
<1>6. CASE k < Bias
  <2>1. -Scale(z) > FracBits /\ Scale(z) \in Int
    BY <1>1, <1>2, <1>3, <1>6
  <2>2. Whole(z) = 0 BY <2>1 DEF Whole
  <2>3. ~Large(z) /\ ~(-Scale(z) <= FracBits)
    BY <2>1, <1>1 DEF Large
  <2>4. Integral(z) <=> Mantissa(z) = 0
    BY <2>3 DEF Integral
  <2>5. Mantissa(z) = 0 <=> k = 0 /\ f = 0
    BY <1>1, <1>2, <1>3
  <2> QED BY <2>1, <2>2, <2>4, <2>5, <1>1, <1>2, <1>6
<1>7. k >= Bias + FracBits => Large(z) /\ Integral(z)
  BY <1>1, <1>2, <1>3 DEF Large, Integral
<1>8. ~(k \in Bias .. Bias + FracBits /\ k < Bias)
  BY <1>1, <1>2
<1>9. k < Bias => ~(k >= Bias + FracBits)
  BY <1>1, <1>2
<1> QED BY ONLY <1>5, <1>6, <1>7, <1>8, <1>9

\* The sign of a double, and zero.
LEMMA SignOf ==
  ASSUME NEW n \in BOOLEAN, NEW k \in Fields, NEW f \in Fractions, NEW d, d = Of(n, k, f)
  PROVE  /\ Negative(d.hi) = n
         /\ Sign(d.hi) = IF n THEN SignBit ELSE 0
         /\ IsZero(d.hi, d.lo) <=> k = 0 /\ f = 0
         /\ d.hi = 0 => ~n /\ k = 0
<1>1. Negative(d.hi) \in BOOLEAN /\ (Negative(d.hi) <=> n) /\ d.hi \in 0 .. Word - 1
  BY ValuesOf DEF Negative
<1>2. Negative(d.hi) = n
  <2>2. CASE n = TRUE BY <1>1, <2>2, Zenon
  <2>3. CASE n = FALSE BY <1>1, <2>3, Zenon
  <2> QED BY <2>2, <2>3, Zenon
<1>3. Sign(d.hi) = IF n THEN SignBit ELSE 0
  BY <1>1, SignIs
<1>4. d.hi % SignBit = k * Hi + (f \div Word) /\ d.lo = f % Word
  BY ValuesOf
<1>5. k \in Nat /\ f \in Nat /\ Hi \in Nat /\ Hi > 0 /\ Word \in Nat /\ Word > 0 /\ SignBit \in Nat /\ SignBit > 0
  BY Format DEF Fields, Fractions
<1>6. f = (f \div Word) * Word + (f % Word) /\ f \div Word \in Nat /\ f % Word \in Nat
  <2>1. f = (f \div Word) * Word + (f % Word) /\ f \div Word \in 0 .. Hi - 1 /\ f % Word \in 0 .. Word - 1
    BY FieldsAre
  <2> QED BY <2>1, <1>5
<1>7. k > 0 => k * Hi > 0 BY <1>5, Products
<1>8. k * Hi \in Nat /\ (k = 0 => k * Hi = 0)
  BY <1>5
<1>9. d.hi % SignBit = 0 <=> k = 0 /\ f \div Word = 0
  BY <1>4, <1>5, <1>6, <1>7, <1>8
<1>10. f = 0 <=> f \div Word = 0 /\ f % Word = 0
  <2>1. f \div Word = 0 /\ f % Word = 0 => f = 0
    BY <1>5, <1>6
  <2>2. f = 0 => f \div Word = 0 /\ f % Word = 0
    BY <1>5
  <2> QED BY <2>1, <2>2
<1>11. IsZero(d.hi, d.lo) <=> k = 0 /\ f = 0
  BY <1>4, <1>9, <1>10 DEF IsZero
<1>12. d.hi = 0 => ~n /\ k = 0
  <2>1. d.hi = 0 => ~(d.hi >= SignBit) /\ d.hi % SignBit = 0
    BY <1>5
  <2> QED BY <2>1, <1>1, <1>9 DEF Negative
<1> QED BY <1>2, <1>3, <1>11, <1>12

\* Zeros and ones, by their words.
LEMMA SmallDoubles ==
  /\ \A n \in BOOLEAN : Words(IF n THEN SignBit ELSE 0, 0) = Of(n, 0, 0)
  /\ Words(0, 0) = Of(FALSE, 0, 0) /\ Words(SignBit, 0) = Of(TRUE, 0, 0)
  /\ Words(One, 0) = Of(FALSE, Bias, 0) /\ Words(SignBit + One, 0) = Of(TRUE, Bias, 0)
<1>1. Bias \in Nat /\ Hi \in Nat /\ Hi > 0 /\ Word \in Nat /\ Word > 0 /\ SignBit \in Nat /\ SignBit > 0
      /\ Fr \in Nat /\ Fr = Hi * Word /\ SignBit = (2 * Bias + 2) * Hi
  BY Format
<1>2. One = Bias * Hi /\ One \in Nat
  BY <1>1, PowersAre DEF One
<1>3. One < SignBit
  <2>1. (2 * Bias + 2) * Hi = Bias * Hi + Bias * Hi + 2 * Hi /\ Bias * Hi \in Nat
    BY <1>1
  <2> QED BY <2>1, <1>1, <1>2
<1>4. One * Word = Bias * Fr BY <1>1, <1>2
<1>5. One \in 0 .. SignBit - 1 /\ 0 \in 0 .. SignBit - 1 /\ 0 \in 0 .. Word - 1
  BY <1>1, <1>2, <1>3
<1>6. \A n \in BOOLEAN : Words((IF n THEN SignBit ELSE 0) + One, 0) = Double(n, One * Word + 0)
  BY <1>5, WordsAre
<1>7. \A n \in BOOLEAN : Words((IF n THEN SignBit ELSE 0) + 0, 0) = Double(n, 0 * Word + 0)
  BY <1>5, WordsAre
<1>8. 0 * Word + 0 = 0 /\ 0 * Fr + 0 = 0 /\ One * Word + 0 = Bias * Fr + 0 /\ SignBit + 0 = SignBit /\ 0 + 0 = 0 /\ 0 + One = One
  BY <1>1, <1>2, <1>4
<1>9. \A n \in BOOLEAN : (IF n THEN SignBit ELSE 0) + 0 = IF n THEN SignBit ELSE 0
  BY <1>1
<1>10. \A n \in BOOLEAN : Words(IF n THEN SignBit ELSE 0, 0) = Of(n, 0, 0)
  BY <1>7, <1>8, <1>9 DEF Of
<1>11. Words(0, 0) = Of(FALSE, 0, 0) /\ Words(SignBit, 0) = Of(TRUE, 0, 0)
  BY <1>10
<1>12. Words(SignBit + One, 0) = Of(TRUE, Bias, 0)
  BY <1>6, <1>8 DEF Of
<1>13. Words(One, 0) = Of(FALSE, Bias, 0)
  BY <1>6, <1>8 DEF Of
<1> QED BY <1>10, <1>11, <1>12, <1>13

\* floor and ceil where the point is not among the bits.
LEMMA ToIntegerOutside ==
  ASSUME NEW n \in BOOLEAN, NEW k \in Fields, NEW f \in Fractions,
         NEW small, NEW away \in BOOLEAN, NEW d, d = Of(n, k, f)
  PROVE  /\ k >= Bias + FracBits /\ (k < 2 * Bias + 1 \/ LittleEndian) => ToInteger(d, small, away) = d
         /\ k < Bias => ToInteger(d, small, away) = IF HugePlusIsPositive(d) THEN small ELSE d
<1> DEFINE j == k - Bias
<1>1. FracBits \in Nat /\ Bias \in Nat /\ HighBits \in Nat /\ Bias >= FracBits /\ FracBits > HighBits /\ k \in Nat
      /\ k <= 2 * Bias + 1 /\ j \in Int
  BY Format DEF Fields
<1>2. HI(d) = d.hi /\ LO(d) = d.lo /\ Exponent(HI(d)) = j /\ d \in AllDoubles
  BY ValuesOf DEF HI, LO
<1>3. CASE k = 2 * Bias + 1 /\ LittleEndian
  <2>1. Scaled(d, 1) = d
    <3>1. ~Finite(d) BY <1>3, ValuesOf
    <3>2. Times(d, 1) = d BY <3>1, <1>2, TimesIs
    <3> QED BY <3>2, <1>3, ViewIsSame
  <2>2. j = Bias + 1 /\ j \notin FracBits .. Bias /\ ~(j < 0) /\ j \notin 0 .. HighBits - 1
        /\ j \notin HighBits .. FracBits - 1
    BY <1>1, <1>3
  <2>3. ToInteger(d, small, away) = d
    <3> HIDE DEF j
    <3> QED BY <1>2, <2>1, <2>2 DEF ToInteger
  <2> QED BY <2>3, <1>1, <1>3
<1>4. CASE k # 2 * Bias + 1 /\ k >= Bias + FracBits
  <2>2. j # Bias + 1 /\ j \in FracBits .. Bias /\ ~(j < 0) /\ j \notin 0 .. HighBits - 1
        /\ j \notin HighBits .. FracBits - 1
    BY <1>1, <1>4
  <2>3. ToInteger(d, small, away) = d
    <3> HIDE DEF j
    <3> QED BY <1>2, <2>2 DEF ToInteger
  <2> QED BY <2>3, <1>1, <1>4
<1>5. CASE k < Bias
  <2>2. j # Bias + 1 /\ j \notin FracBits .. Bias /\ j < 0 /\ j \notin 0 .. HighBits - 1
        /\ j \notin HighBits .. FracBits - 1
    BY <1>1, <1>5
  <2>3. ToInteger(d, small, away) = IF HugePlusIsPositive(d) THEN small ELSE d
    <3> HIDE DEF j
    <3> QED BY <1>2, <2>2 DEF ToInteger
  <2> QED BY <2>3, <1>1, <1>5
<1> QED BY <1>3, <1>4, <1>5, <1>1

\* What floor and ceil return of a number below 1, and whether ceil adds a unit.
Below(n, k, f) == IF ~n THEN Of(FALSE, 0, 0) ELSE IF k = 0 /\ f = 0 THEN Of(n, k, f) ELSE Of(TRUE, Bias, 0)

\* What ceil returns of a number below 1.
Above(n, k, f) == IF n THEN Of(TRUE, 0, 0) ELSE IF k = 0 /\ f = 0 THEN Of(n, k, f) ELSE Of(FALSE, Bias, 0)

\* Whether ceil adds a unit.
Upwards(n, d) == ~n /\ d.hi # 0

\* floor and ceil in terms of ToInteger.
LEMMA FloorCalls ==
  ASSUME NEW n \in BOOLEAN, NEW k \in Fields, NEW f \in Fractions, NEW d, d = Of(n, k, f)
  PROVE  /\ floor(d) = ToInteger(d, Below(n, k, f), n) /\ ceil(d) = ToInteger(d, Above(n, k, f), Upwards(n, d))
         /\ Upwards(n, d) \in BOOLEAN /\ (k > 0 => (Upwards(n, d) <=> ~n))
<1>1. HI(d) = d.hi /\ LO(d) = d.lo BY DEF HI, LO
<1>2. Negative(d.hi) = n /\ (IsZero(d.hi, d.lo) <=> k = 0 /\ f = 0) /\ (d.hi = 0 => ~n /\ k = 0)
  BY SignOf
<1>3. floor(d) = ToInteger(d, Below(n, k, f), n)
  BY <1>1, <1>2, SmallDoubles, Zenon DEF floor, Below
<1>4. ceil(d) = ToInteger(d, Above(n, k, f), Upwards(n, d))
  BY <1>1, <1>2, SmallDoubles, Zenon DEF ceil, Above, Upwards
<1>5. Upwards(n, d) \in BOOLEAN /\ (k > 0 => (Upwards(n, d) <=> ~n))
  BY <1>2 DEF Upwards
<1> QED BY <1>3, <1>4, <1>5

\* floor and ceil, by where the point is.
LEMMA FloorLarge ==
  ASSUME NEW n \in BOOLEAN, NEW k \in Fields, NEW f \in Fractions, NEW d, d = Of(n, k, f),
         k >= Bias + FracBits, k < 2 * Bias + 1 \/ LittleEndian
  PROVE  floor(d) = d /\ ceil(d) = d
<1>1. /\ floor(d) = ToInteger(d, Below(n, k, f), n) /\ ceil(d) = ToInteger(d, Above(n, k, f), Upwards(n, d))
      /\ Upwards(n, d) \in BOOLEAN
  BY FloorCalls
<1> QED BY <1>1, ToIntegerOutside

\* floor and ceil of a number with bits on both sides of the point.
LEMMA FloorAt ==
  ASSUME NEW n \in BOOLEAN, NEW k \in Fields, NEW f \in Fractions, NEW d, d = Of(n, k, f),
         NEW j \in 0 .. FracBits - 1, j = k - Bias
  PROVE  /\ floor(d) = IF f % Pow(FracBits - j) = 0 \/ ~HugePlusIsPositive(d) THEN d
                       ELSE Double(n, k * Fr + Cleared(f, Pow(FracBits - j))
                                        + (IF n THEN Pow(FracBits - j) ELSE 0))
         /\ ceil(d) = IF f % Pow(FracBits - j) = 0 \/ ~HugePlusIsPositive(d) THEN d
                      ELSE Double(n, k * Fr + Cleared(f, Pow(FracBits - j))
                                        + (IF ~n THEN Pow(FracBits - j) ELSE 0))
<1>1. /\ floor(d) = ToInteger(d, Below(n, k, f), n) /\ ceil(d) = ToInteger(d, Above(n, k, f), Upwards(n, d))
      /\ Upwards(n, d) \in BOOLEAN /\ (k > 0 => (Upwards(n, d) <=> ~n))
  BY FloorCalls
<1>2. k > 0 BY Format DEF Fields
<1>3. ToInteger(d, Below(n, k, f), n) = IF f % Pow(FracBits - j) = 0 \/ ~HugePlusIsPositive(d) THEN d
                            ELSE Double(n, k * Fr + Cleared(f, Pow(FracBits - j))
                                             + (IF n THEN Pow(FracBits - j) ELSE 0))
  BY ToIntegerIs
<1>4. ToInteger(d, Above(n, k, f), Upwards(n, d)) = IF f % Pow(FracBits - j) = 0 \/ ~HugePlusIsPositive(d) THEN d
                            ELSE Double(n, k * Fr + Cleared(f, Pow(FracBits - j))
                                             + (IF Upwards(n, d) THEN Pow(FracBits - j) ELSE 0))
  BY <1>1, ToIntegerIs
<1> QED BY <1>1, <1>2, <1>3, <1>4

\* floor and ceil of a number below 1.
LEMMA FloorSmall ==
  ASSUME NEW n \in BOOLEAN, NEW k \in Fields, NEW f \in Fractions, NEW d, d = Of(n, k, f),
         k < Bias
  PROVE  /\ (k = 0 /\ f = 0) \/ ~HugePlusIsPositive(d) => floor(d) = d /\ ceil(d) = d
         /\ ~(k = 0 /\ f = 0) /\ HugePlusIsPositive(d) =>
                                 /\ n => floor(d) = Of(TRUE, Bias, 0) /\ ceil(d) = Of(TRUE, 0, 0)
                                 /\ ~n => floor(d) = Of(FALSE, 0, 0) /\ ceil(d) = Of(FALSE, Bias, 0)
<1>1. /\ floor(d) = ToInteger(d, Below(n, k, f), n) /\ ceil(d) = ToInteger(d, Above(n, k, f), Upwards(n, d))
      /\ Upwards(n, d) \in BOOLEAN
  BY FloorCalls
<1>2. /\ floor(d) = IF HugePlusIsPositive(d) THEN Below(n, k, f) ELSE d
      /\ ceil(d) = IF HugePlusIsPositive(d) THEN Above(n, k, f) ELSE d
  BY <1>1, ToIntegerOutside
<1>3. n = TRUE => (k = 0 /\ f = 0 => Of(TRUE, 0, 0) = d)
  OBVIOUS
<1>4. n = FALSE => (k = 0 /\ f = 0 => Of(FALSE, 0, 0) = d)
  OBVIOUS
<1>5. n = TRUE \/ n = FALSE BY Zenon
<1> QED BY <1>2, <1>3, <1>4, <1>5 DEF Below, Above

\* The bits before the point.
LEMMA IntIs ==
  ASSUME NEW n \in BOOLEAN, NEW k \in Fields, NEW f \in Fractions, NEW d, d = Of(n, k, f),
         NEW j \in 0 .. FracBits - 1, j = k - Bias
  PROVE  (IF j < HighBits THEN Words(Cleared(d.hi, 2 ^ (HighBits - j)), 0)
          ELSE Words(d.hi, Cleared(d.lo, 2 ^ (FracBits - j)))) = Of(n, k, Cleared(f, Pow(FracBits - j)))
<1>1. HighBits \in Nat /\ FracBits \in Nat /\ Word \in Nat /\ Word > 0 /\ Fr \in Nat /\ k \in Nat /\ f \in Nat
      /\ Bias \in Nat
  BY Format DEF Fields, Fractions
<1>2. d.hi \in 0 .. Word - 1 /\ d.lo \in 0 .. Word - 1
  <2>1. d \in AllDoubles BY ValuesOf
  <2> QED BY <2>1 DEF AllDoubles
<1>3. Pow(FracBits - j) \in Nat /\ Pow(FracBits - j) > 0
  BY UnitIs
<1>4. Cleared(f, Pow(FracBits - j)) \in Nat
  BY <1>1, <1>3, ClearedIs, 0 \in Nat
<1>5. k * Fr + Cleared(f, Pow(FracBits - j)) + 0 = k * Fr + Cleared(f, Pow(FracBits - j))
  BY <1>1, <1>4
<1>6. CASE j < HighBits
  <2>1. j \in 0 .. HighBits - 1 /\ FALSE \in BOOLEAN
    BY <1>1, <1>6
  <2>2. Words(Cleared(d.hi + (IF FALSE THEN Pow(HighBits - j) ELSE 0), Pow(HighBits - j)), 0)
              = Double(n, k * Fr + Cleared(f, Pow(FracBits - j)) + (IF FALSE THEN Pow(FracBits - j) ELSE 0))
    BY <2>1, HighPlace
  <2>3. d.hi + 0 = d.hi BY <1>2
  <2>4. Words(Cleared(d.hi, Pow(HighBits - j)), 0) = Double(n, k * Fr + Cleared(f, Pow(FracBits - j)))
    BY <2>2, <2>3, <1>5
  <2> QED BY <2>4, <1>6 DEF Of, Pow
<1>7. CASE ~(j < HighBits)
  <2>1. j \in HighBits .. FracBits - 1 /\ FALSE \in BOOLEAN
    BY <1>1, <1>7
  <2>2. ASSUME NEW away \in BOOLEAN, NEW up, up = IF away THEN Pow(FracBits - j) ELSE 0
        PROVE  Words(d.hi + (d.lo + up) \div Word, Cleared((d.lo + up) % Word, Pow(FracBits - j)))
              = Double(n, k * Fr + Cleared(f, Pow(FracBits - j)) + up)
    BY <2>1, <2>2, LowPlace
  <2>3. Words(d.hi + (d.lo + 0) \div Word, Cleared((d.lo + 0) % Word, Pow(FracBits - j)))
              = Double(n, k * Fr + Cleared(f, Pow(FracBits - j)) + 0)
    BY <2>1, <2>2
  <2>4. d.lo + 0 = d.lo /\ d.lo \div Word = 0 /\ d.lo % Word = d.lo /\ d.hi + 0 = d.hi
    BY <1>1, <1>2
  <2>5. Words(d.hi, Cleared(d.lo, Pow(FracBits - j))) = Double(n, k * Fr + Cleared(f, Pow(FracBits - j)))
    BY <2>3, <2>4, <1>5
  <2> QED BY <2>5, <1>7 DEF Of, Pow
<1> QED BY <1>6, <1>7

\* modf (s_modf.c), by where the point is: the cleared double, and the difference to it.
LEMMA ModfIs ==
  ASSUME NEW n \in BOOLEAN, NEW k \in Fields, NEW f \in Fractions, NEW d, d = Of(n, k, f)
  PROVE  /\ k < Bias => modf(d) = [int |-> Of(n, 0, 0), rest |-> d]
         /\ k >= Bias + FracBits => modf(d) = [int |-> d, rest |-> Of(n, 0, 0)]
         /\ \A j \in 0 .. FracBits - 1 : j = k - Bias =>
              modf(d) = IF f % Pow(FracBits - j) = 0 THEN [int |-> d, rest |-> Of(n, 0, 0)]
                        ELSE [int |-> Of(n, k, Cleared(f, Pow(FracBits - j))),
                              rest |-> Arith(Composed(n, f % Pow(FracBits - j), Scale(d)), d)]
<1>1. HighBits \in Nat /\ FracBits \in Nat /\ Bias \in Nat /\ FracBits > HighBits /\ k \in Nat /\ f \in Nat
      /\ Fr \in Nat /\ f < Fr
  BY Format DEF Fields, Fractions
<1>2. HI(d) = d.hi /\ LO(d) = d.lo /\ d \in AllDoubles /\ Exponent(d.hi) = k - Bias
  BY ValuesOf DEF HI, LO
<1>3. Negative(d.hi) = n /\ Words(Sign(d.hi), 0) = Of(n, 0, 0)
  BY SignOf, SmallDoubles
<1>4. CASE k < Bias
  <2> DEFINE e == k - Bias
  <2>1. e < 0 /\ ~(e >= FracBits) /\ e \notin 0 .. FracBits - 1
    BY <1>1, <1>4
  <2>2. modf(d) = [int |-> Of(n, 0, 0), rest |-> d]
    <3>1. Exponent(d.hi) = e BY <1>2
    <3> HIDE DEF e
    <3> QED BY <1>2, <1>3, <2>1, <3>1 DEF modf
  <2> QED BY <2>2, <1>1, <1>4
<1>5. CASE k >= Bias + FracBits
  <2> DEFINE e == k - Bias
  <2>1. ~(e < 0) /\ e >= FracBits /\ e \notin 0 .. FracBits - 1
    BY <1>1, <1>5
  <2>2. modf(d) = [int |-> d, rest |-> Of(n, 0, 0)]
    <3>1. Exponent(d.hi) = e BY <1>2
    <3> HIDE DEF e
    <3> QED BY <1>2, <1>3, <2>1, <3>1 DEF modf
  <2> QED BY <2>2, <1>1, <1>5
<1>6. ASSUME NEW j \in 0 .. FracBits - 1, j = k - Bias
      PROVE  modf(d) = IF f % Pow(FracBits - j) = 0 THEN [int |-> d, rest |-> Of(n, 0, 0)]
                       ELSE [int |-> Of(n, k, Cleared(f, Pow(FracBits - j))),
                             rest |-> Arith(Composed(n, f % Pow(FracBits - j), Scale(d)), d)]
  <2> DEFINE u == Pow(FracBits - j)
             c == Of(n, k, Cleared(f, u))
             int == IF j < HighBits THEN Words(Cleared(d.hi, 2 ^ (HighBits - j)), 0)
                    ELSE Words(d.hi, Cleared(d.lo, 2 ^ (FracBits - j)))
  <2>1. int = c BY <1>6, IntIs
  <2>2. ~(j < 0) /\ ~(j >= FracBits) /\ Exponent(d.hi) = j /\ j \in 0 .. FracBits - 1
    BY <1>1, <1>2, <1>6
  <2>3. modf(d) = IF int = d THEN [int |-> d, rest |-> Of(n, 0, 0)]
                  ELSE [int |-> int, rest |-> Arith(Composed(n, Mantissa(d) - Mantissa(int), Scale(d)), d)]
    BY <1>2, <1>3, <2>2 DEF modf
  <2>4. modf(d) = IF c = d THEN [int |-> d, rest |-> Of(n, 0, 0)]
                  ELSE [int |-> c, rest |-> Arith(Composed(n, Mantissa(d) - Mantissa(c), Scale(d)), d)]
    BY <2>1, <2>3
  <2>5. u \in Nat /\ u > 0 BY UnitIs
  <2>6. Cleared(f, u) \in Nat /\ Cleared(f, u) <= f /\ Cleared(f, u) = f - (f % u) /\ f % u \in Nat
    BY <1>1, <2>5, ClearedIs, 0 \in Nat DEF Cleared
  <2>7. Cleared(f, u) \in Fractions
    BY <1>1, <2>6 DEF Fractions
  <2>8. Magnitude(c) = k * Fr + Cleared(f, u) /\ Magnitude(d) = k * Fr + f
    BY <2>7, ValuesOf
  <2>9. c = d <=> f % u = 0
    <3>1. k * Fr \in Nat BY <1>1
    <3>2. f % u = 0 => Cleared(f, u) = f
      BY <1>1, <2>6
    <3>3. f % u # 0 => k * Fr + Cleared(f, u) # k * Fr + f
      BY <3>1, <1>1, <2>6
    <3> QED BY <3>2, <3>3, <2>8
  <2>10. Mantissa(d) - Mantissa(c) = f % u
    <3>1. k # 0 BY <1>6, Format
    <3>2. Mantissa(d) = f + Fr BY <3>1, ValuesOf
    <3>3. Mantissa(c) = Cleared(f, u) + Fr
      BY <3>1, <2>7, ValuesOf
    <3> QED BY <3>2, <3>3, <1>1, <2>6
  <2> QED BY <2>4, <2>9, <2>10
<1> QED BY <1>1, <1>4, <1>5, <1>6

\* The high word h of a fraction, divided by a power of two below the exponent, and
\* put together with the low one.
HighParts(n, k, d, h) ==
  \A u \in Nat, v \in Nat : u > 0 /\ Hi = u * v =>
     /\ d.hi % u = h % u
     /\ \A e \in Nat, l \in 0 .. Word - 1 : \A i, g : i = Cleared(d.hi, u) + e /\ g = Cleared(h, u) + e /\ g < Hi =>
          Words(i, l) = Of(n, k, g * Word + l) /\ g * Word + l \in Fractions

\* What the words of a double hold.
LEMMA HighWord ==
  ASSUME NEW n \in BOOLEAN, NEW k \in Fields, NEW f \in Fractions, NEW d, d = Of(n, k, f),
         NEW h, h = f \div Word
  PROVE  /\ h \in 0 .. Hi - 1 /\ d.lo = f % Word /\ f = h * Word + d.lo /\ d.lo \in 0 .. Word - 1
         /\ HighParts(n, k, d, h)
<1> DEFINE sgn == IF n THEN SignBit ELSE 0
<1>1. Hi \in Nat /\ Word \in Nat /\ Word > 0 /\ SignBit \in Nat /\ Fr \in Nat /\ Fr = Hi * Word
      /\ SignBit = (2 * Bias + 2) * Hi /\ Bias \in Nat /\ k \in Nat /\ k <= 2 * Bias + 1
  BY Format DEF Fields
<1>2. h \in 0 .. Hi - 1 /\ f % Word \in 0 .. Word - 1 /\ f = h * Word + (f % Word) /\ h \in Nat
  BY FieldsAre, <1>1
<1>3. d.lo = f % Word /\ d.hi \in 0 .. Word - 1 /\ d.hi % SignBit = k * Hi + h /\ (Negative(d.hi) <=> n)
  BY ValuesOf
<1> SUFFICES ASSUME NEW u \in Nat, NEW v \in Nat, u > 0, Hi = u * v
               PROVE  /\ d.hi % u = h % u
                      /\ \A e \in Nat, l \in 0 .. Word - 1 : \A i, g : i = Cleared(d.hi, u) + e /\ g = Cleared(h, u) + e /\ g < Hi =>
                           Words(i, l) = Of(n, k, g * Word + l) /\ g * Word + l \in Fractions
  BY <1>2, <1>3 DEF HighParts
<1>4. d.hi = sgn + (k * Hi + h) BY <1>3, SignIs
<1> DEFINE c == (IF n THEN 2 * Bias + 2 ELSE 0) + k
<1>5. c \in Nat BY <1>1
<1>6. d.hi = h + (c * v) * u /\ c * v \in Nat
  <2>1. sgn + (k * Hi + h) = h + c * Hi
    <3>1. CASE n
      <4>1. (2 * Bias + 2) * Hi + k * Hi = (2 * Bias + 2 + k) * Hi
        BY <1>1
      <4>2. k * Hi \in Nat /\ (2 * Bias + 2 + k) * Hi \in Nat
        BY <1>1
      <4> QED BY <4>1, <4>2, <3>1, <1>1, <1>2
    <3>2. CASE ~n
      <4>1. k * Hi \in Nat /\ 0 + k = k BY <1>1
      <4> QED BY <4>1, <3>2, <1>1, <1>2
    <3> QED BY <3>1, <3>2
  <2> HIDE DEF c, sgn
  <2>2. c * (u * v) = (c * v) * u /\ c * v \in Nat
    BY ONLY <1>5, u \in Nat, v \in Nat
  <2> QED BY <2>1, <2>2, <1>4
<1> HIDE DEF c
<1>10. PICK y \in Nat : y = c * v BY <1>6
<1>11. d.hi = h + u * y
  BY ONLY <1>6, <1>10, u \in Nat
<1>7. d.hi % u = h % u
  BY ONLY <1>2, <1>11, ModSum, u \in Nat, u > 0, y \in Nat
<1>8. Cleared(d.hi, u) = Cleared(h, u) + (c * v) * u /\ Cleared(h, u) \in Nat /\ Cleared(h, u) <= h
  <2>1. u * y = (c * v) * u
    BY ONLY <1>10, u \in Nat, y \in Nat
  <2>2. Cleared(d.hi, u) = (h + u * y) - (h % u) /\ Cleared(h, u) = h - (h % u)
    BY <1>7, <1>11 DEF Cleared
  <2>3. h % u \in Nat /\ h % u <= h /\ u * y \in Nat
    BY <1>2
  <2> QED BY <2>1, <2>2, <2>3, <1>2
<1>9. ASSUME NEW e \in Nat, NEW l \in 0 .. Word - 1, Cleared(h, u) + e < Hi
      PROVE  /\ Words(Cleared(d.hi, u) + e, l) = Of(n, k, (Cleared(h, u) + e) * Word + l)
             /\ (Cleared(h, u) + e) * Word + l \in Fractions
  <2> DEFINE g == Cleared(h, u) + e
  <2>1. g \in Nat /\ g < Hi BY <1>8, <1>9
  <2>2. Cleared(d.hi, u) + e = sgn + (k * Hi + g)
    <3>1. d.hi = h + (c * v) * u /\ (c * v) * u \in Nat /\ k * Hi \in Nat /\ sgn \in Nat
      BY <1>1, <1>6
    <3> DEFINE w == (c * v) * u
               w2 == k * Hi
               g0 == Cleared(h, u)
    <3>2. g0 + w + e = sgn + (w2 + (g0 + e))
      <4>1. h + w = sgn + (w2 + h) /\ w \in Nat /\ w2 \in Nat /\ sgn \in Nat /\ g0 \in Nat /\ h \in Nat
        BY <1>2, <1>4, <1>8, <3>1
      <4> HIDE DEF w, w2, sgn, g0
      <4> QED BY <4>1
    <3> QED BY <3>2, <1>8
  <2> HIDE DEF g
  <2>3. k * Hi + g \in 0 .. SignBit - 1
    <3>1. k * Hi + g < (2 * Bias + 2) * Hi
      <4>1. k * Hi + Hi = (k + 1) * Hi /\ (k + 1) * Hi <= (2 * Bias + 2) * Hi /\ k * Hi \in Nat
        <5>1. k + 1 \in Nat /\ 2 * Bias + 2 \in Nat /\ k + 1 <= 2 * Bias + 2
          BY <1>1
        <5>2. (k + 1) * Hi <= (2 * Bias + 2) * Hi
          BY <5>1, <1>1, Products
        <5> QED BY <5>2, <1>1
      <4>2. (2 * Bias + 2) * Hi \in Nat BY <1>1
      <4> QED BY <4>1, <4>2, <2>1, <1>1
    <3>2. k * Hi \in Nat BY <1>1
    <3> QED BY <3>1, <3>2, <2>1, <1>1
  <2>4. Words(sgn + (k * Hi + g), l) = Double(n, (k * Hi + g) * Word + l)
    BY <2>3, WordsAre
  <2>5. (k * Hi + g) * Word + l = k * Fr + (g * Word + l)
    BY <1>1, <2>1
  <2>6. g * Word + l < Hi * Word /\ g * Word + l \in Nat
    BY <1>1, <2>1, Products
  <2> QED BY <2>2, <2>4, <2>5, <2>6, <1>1 DEF Of, Fractions, g
<1> QED BY <1>7, <1>9

\* The remainder and the quotient by a unit in the high word.
LEMMA HighUnit ==
  ASSUME NEW g \in Nat, NEW l \in Nat, l < Word, NEW u \in Nat, u > 0
  PROVE  /\ (g * Word + l) % (u * Word) = (g % u) * Word + l
         /\ (g * Word + l) \div (u * Word) = g \div u
         /\ (g * Word + l) % (u * Word) = 0 <=> g % u = 0 /\ l = 0
<1>1. Word \in Nat /\ Word > 0 BY Format
<1>2. g \in Nat /\ l \in Nat /\ u \in Nat /\ u > 0 /\ Word \in Nat /\ l < Word
  BY <1>1
<1>3. (g * Word + l) % (u * Word) = (g % u) * Word + l
  BY ONLY <1>2, TwoWords
<1>4. (g * Word + l) \div (u * Word) = g \div u
  <2>1. PICK w \in Nat : w = Word BY <1>1
  <2>2. g \in Nat /\ l \in Nat /\ u \in Nat /\ u > 0 /\ w \in Nat /\ l < w
    BY <2>1
  <2>3. (g * w + l) \div (u * w) = g \div u
    <3>1. PICK q \in Nat, r \in Nat : q = g \div u /\ r = g % u /\ g = u * q + r /\ r < u
      BY DivMod
    <3>2. g * w + l = (u * w) * q + (r * w + l)
      <4>1. (u * q + r) * w = (u * w) * q + r * w
        BY ONLY u \in Nat, q \in Nat, r \in Nat, w \in Nat
      <4>2. (u * w) * q \in Nat /\ r * w \in Nat
        BY ONLY u \in Nat, q \in Nat, r \in Nat, w \in Nat
      <4> QED BY <4>1, <4>2, <3>1
    <3>3. r * w + l < u * w /\ r * w + l \in Nat /\ u * w \in Nat /\ u * w > 0 /\ g * w + l \in Nat
      <4>1. r * w + l < u * w
        BY <2>2, <3>1, Products
      <4>2. w > 0 BY <2>2
      <4>3. u * w > 0 BY <2>2, <4>2, Products
      <4> QED BY <4>1, <4>3
    <3> DEFINE a == g * w + l
               b == u * w
               e == r * w + l
    <3> HIDE DEF a, b, e
    <3>4. a \in Int /\ b \in Nat /\ b > 0 /\ e \in Int /\ 0 <= e /\ e < b /\ a = b * q + e /\ q \in Int
      BY <3>2, <3>3 DEF a, b, e
    <3>5. a \div b = q BY ONLY <3>4, DivModUnique
    <3> QED BY <3>1, <3>5 DEF a, b
  <2> QED BY <2>1, <2>3
<1>5. g % u \in Nat BY DivMod
<1>6. PICK a \in Nat : a = g % u BY <1>5
<1>7. a * Word + l = 0 <=> a = 0 /\ l = 0
  <2>1. a > 0 => a * Word > 0 BY <1>1, Products
  <2>2. a * Word \in Nat /\ (a = 0 => a * Word = 0)
    BY <1>1
  <2> QED BY <2>1, <2>2
<1> QED BY <1>3, <1>4, <1>6, <1>7

\* What is rounded: a quotient with one bit more, and whether anything is left.
LEMMA RoundedBy ==
  ASSUME NEW i \in Nat, NEW n \in Nat, n + 1 <= FracBits + 2, NEW g, g = i \div Pow(n)
  PROVE  /\ Rounded(i, n + 1) = IF g % 2 = 1 /\ (i % Pow(n) # 0 \/ (g \div 2) % 2 = 1)
                                THEN g \div 2 + 1 ELSE g \div 2
         /\ i \div Pow(n + 1) = g \div 2
<1>1. Pow(n) \in Nat /\ Pow(n) > 0 /\ Pow(n + 1) = 2 * Pow(n) /\ Pow(n + 1) \in Nat /\ Pow(n + 1) > 0 /\ n + 1 \in Nat
  BY PowType
<1>2. PICK p \in Nat, r \in Nat : p = Pow(n) /\ r = i % Pow(n) /\ p > 0 /\ r < p /\ i = p * g + r /\ g \in Nat
  <2>1. i % Pow(n) \in Nat /\ i % Pow(n) < Pow(n) /\ g \in Nat
    BY <1>1, DivMod
  <2>2. i = Pow(n) * g + (i % Pow(n))
    BY <1>1, DivMod
  <2> QED BY <1>1, <2>1, <2>2
<1>3. PICK b \in 0 .. 1, c \in Nat : g = 2 * c + b /\ b = g % 2 /\ c = g \div 2
  <2>0. g \in Int /\ g >= 0 BY <1>2
  <2>1. g = 2 * (g \div 2) + (g % 2) /\ g % 2 \in 0 .. 1 /\ g \div 2 \in Nat
    BY ONLY <2>0
  <2> QED BY <2>1
<1>11. b * p = (IF b = 1 THEN p ELSE 0)
  BY ONLY p \in Nat, b \in 0 .. 1
<1>4. i = (2 * p) * c + (b * p + r) /\ b * p + r \in Nat /\ b * p + r < 2 * p
  <2>1. p * (2 * c + b) = (2 * p) * c + b * p
    BY ONLY p \in Nat, c \in Nat, b \in 0 .. 1
  <2>3. (2 * p) * c \in Nat
    BY ONLY p \in Nat, c \in Nat
  <2>4. i = (2 * p) * c + b * p + r
    BY ONLY <2>1, <1>2, <1>3
  <2>5. \A y \in Nat, e \in Nat : i = y + e + r => i = y + (e + r) /\ e + r \in Nat
    OBVIOUS
  <2>6. b * p \in Nat /\ b * p + r < 2 * p
    BY ONLY <1>11, <1>2, p \in Nat, r \in Nat
  <2> QED BY ONLY <2>3, <2>4, <2>5, <2>6
<1>5. i \div Pow(n + 1) = c /\ i % Pow(n + 1) = b * p + r
  <2>0. PICK e \in Nat : e = b * p + r BY <1>4
  <2>1. 2 * p \in Nat /\ 2 * p > 0 /\ i \in Int /\ c \in Int /\ e \in Int /\ 0 <= e
    BY ONLY <1>2, p \in Nat, i \in Nat, c \in Nat, e \in Nat
  <2>2. i = (2 * p) * c + e /\ e < 2 * p
    BY ONLY <1>4, <2>0
  <2>3. i \div (2 * p) = c /\ i % (2 * p) = e
    BY ONLY <2>1, <2>2, DivModUnique
  <2> QED BY <2>0, <2>3, <1>1, <1>2
<1>6. /\ 2 * (i % Pow(n + 1)) > Pow(n + 1) <=> b = 1 /\ r # 0
      /\ 2 * (i % Pow(n + 1)) = Pow(n + 1) <=> b = 1 /\ r = 0
  <2>1. 2 * (i % Pow(n + 1)) = 2 * (IF b = 1 THEN p + r ELSE r) /\ Pow(n + 1) = 2 * p
    <3>1. i % Pow(n + 1) = (IF b = 1 THEN p ELSE 0) + r
      BY ONLY <1>5, <1>11
    <3> QED BY ONLY <3>1, <1>1, <1>2, p \in Nat, r \in Nat
  <2> QED BY ONLY <2>1, <1>2, p \in Nat, r \in Nat
<1>7. ~(n + 1 > FracBits + 2) BY Format
<1>8. Rounded(i, n + 1) = IF 2 * (i % Pow(n + 1)) > Pow(n + 1)
                                \/ (2 * (i % Pow(n + 1)) = Pow(n + 1) /\ (i \div Pow(n + 1)) % 2 = 1)
                           THEN i \div Pow(n + 1) + 1 ELSE i \div Pow(n + 1)
  BY <1>1, <1>7, RoundedIs
<1>9. r = i % Pow(n) /\ b = g % 2 /\ c = g \div 2
  BY <1>2, <1>3
<1>10. Rounded(i, n + 1) = IF b = 1 /\ (r # 0 \/ c % 2 = 1) THEN c + 1 ELSE c
  BY <1>5, <1>6, <1>8
<1> QED BY <1>5, <1>9, <1>10

\* Where the point is in the high word, and a half is too.
LEMMA StickyHigh ==
  ASSUME NEW n \in BOOLEAN, NEW k \in Fields, NEW f \in Fractions, NEW d, d = Of(n, k, f),
         NEW j \in 0 .. HighBits - 1, j = k - Bias
  PROVE  \E e \in Fractions :
           /\ Sticky(d) = Of(n, k, e)
           /\ e \div Pow(FracBits - j - 1) = f \div Pow(FracBits - j - 1)
           /\ ~LastFourth(d) => (e % Pow(FracBits - j - 1) = 0 <=> f % Pow(FracBits - j - 1) = 0)
<1> DEFINE u == Pow(HighBits - j - 1)
           h == f \div Word
           l == d.lo
<1>1. HighBits \in Nat /\ HighBits >= 2 /\ FracBits \in Nat /\ FracBits = HighBits + WordBits /\ WordBits \in Nat
      /\ WordBits >= 2 /\ j \in Nat
      /\ Bias \in Nat /\ Word \in Nat /\ Word > 0 /\ Fr \in Nat /\ k \in Nat /\ f \in Nat
  BY Format DEF Fields, Fractions
<1>2. HighBits - j - 1 \in Nat /\ FracBits - j - 1 = (HighBits - j - 1) + WordBits /\ j + 1 \in Nat
      /\ HighBits = (HighBits - j - 1) + (j + 1)
  BY <1>1
<1>3. u \in Nat /\ u > 0 /\ Pow(j + 1) \in Nat /\ Pow(j + 1) > 0 /\ Hi = u * Pow(j + 1)
      /\ Pow(FracBits - j - 1) = u * Word
  <2>1. Pow(WordBits) = Word BY PowersAre DEF Pow
  <2>2. Pow((HighBits - j - 1) + WordBits) = u * Pow(WordBits)
    BY <1>1, <1>2, PowSum
  <2>3. Pow((HighBits - j - 1) + (j + 1)) = u * Pow(j + 1)
    BY <1>1, <1>2, PowSum
  <2> QED BY <2>1, <2>2, <2>3, <1>2, PowType DEF Hi
<1>4. /\ d.hi % u = h % u /\ h \in 0 .. Hi - 1 /\ f = h * Word + l /\ l \in 0 .. Word - 1
      /\ \A e \in Nat, m \in 0 .. Word - 1 : \A i, g : i = Cleared(d.hi, u) + e /\ g = Cleared(h, u) + e /\ g < Hi =>
                   Words(i, m) = Of(n, k, g * Word + m) /\ g * Word + m \in Fractions
  <2>1. PICK v \in Nat : v = Pow(j + 1) BY <1>3
  <2>2. u \in Nat /\ u > 0 /\ Hi = u * v /\ h = f \div Word
    BY <1>3, <2>1
  <2>3. h \in 0 .. Hi - 1 /\ f = h * Word + d.lo /\ d.lo \in 0 .. Word - 1
    BY HighWord
  <2>4. HighParts(n, k, d, h) BY HighWord
  <2> HIDE DEF u, h
  <2> QED BY <2>2, <2>3, <2>4 DEF HighParts
<1>5. h \in Nat /\ l \in Nat /\ l < Word /\ Hi \in Nat
  BY <1>4, Format
<1>6. /\ f % (u * Word) = 0 <=> h % u = 0 /\ l = 0
      /\ f \div (u * Word) = h \div u
  <2>1. u \in Nat /\ u > 0 /\ h \in Nat /\ l \in Nat /\ l < Word /\ f = h * Word + l
    BY <1>3, <1>4, <1>5
  <2> HIDE DEF u, h, l
  <2>2. (h * Word + l) % (u * Word) = 0 <=> h % u = 0 /\ l = 0
    BY <2>1, HighUnit
  <2>3. (h * Word + l) \div (u * Word) = h \div u
    BY <2>1, HighUnit
  <2> QED BY <2>1, <2>2, <2>3
<1>7. Cleared(h, u) \in Nat /\ Cleared(h, u) = u * (h \div u) /\ Cleared(h, u) + u <= Hi /\ h \div u \in Nat
      /\ h % u \in Nat /\ h % u < u
  <2>1. h \in Nat /\ u \in Nat /\ u > 0 /\ Pow(j + 1) \in Nat /\ h < u * Pow(j + 1)
    BY <1>3, <1>4, <1>5
  <2> HIDE DEF h, u
  <2>2. Cleared(h, u) \in Nat /\ Cleared(h, u) = u * (h \div u) /\ Cleared(h, u) + u <= u * Pow(j + 1)
    BY ONLY <2>1, ClearedIs
  <2>3. h \div u \in Nat /\ h % u \in Nat /\ h % u < u
    BY ONLY <2>1, DivMod
  <2> QED BY <2>2, <2>3, <1>3
<1>8. HI(d) = d.hi /\ LO(d) = d.lo /\ Exponent(d.hi) = j
  BY ValuesOf DEF HI, LO
\* A sticky double: what has been put behind the half.
<1>9. ASSUME NEW e \in Nat, NEW i \in Nat, i < Word, e < u, ~LastFourth(d) => (e = 0 /\ i = 0 <=> h % u = 0 /\ l = 0),
             Sticky(d) = Words(Cleared(d.hi, u) + e, i)
      PROVE  \E y \in Fractions :
               /\ Sticky(d) = Of(n, k, y)
               /\ y \div (u * Word) = f \div (u * Word)
               /\ ~LastFourth(d) => (y % (u * Word) = 0 <=> f % (u * Word) = 0)
  <2> DEFINE g == Cleared(h, u) + e
             y == g * Word + i
  <2>1. g \in Nat /\ g < Hi /\ i \in 0 .. Word - 1
    BY <1>1, <1>3, <1>5, <1>7, <1>9
  <2>2. Sticky(d) = Of(n, k, y) /\ y \in Fractions
    BY <2>1, <1>4, <1>9
  <2>3. g \div u = h \div u /\ g % u = e
    <3>1. h \div u \in Int /\ e \in Int /\ 0 <= e /\ e < u /\ g \in Int
      BY <1>7, <1>9, <2>1
    <3>2. g = u * (h \div u) + e BY <1>7
    <3> HIDE DEF g, h, u
    <3>3. u \in Nat /\ u > 0 BY <1>3
    <3> QED BY ONLY <3>1, <3>2, <3>3, DivModUnique
  <2>4. y \div (u * Word) = g \div u /\ (y % (u * Word) = 0 <=> g % u = 0 /\ i = 0)
    <3>1. u \in Nat /\ u > 0 /\ g \in Nat
      BY <1>3, <2>1
    <3> HIDE DEF u, g
    <3>2. i \in Nat /\ i < Word BY <1>9
    <3>3. (g * Word + i) % (u * Word) = 0 <=> g % u = 0 /\ i = 0
      BY ONLY <3>1, <3>2, HighUnit
    <3>4. (g * Word + i) \div (u * Word) = g \div u
      BY ONLY <3>1, <3>2, HighUnit
    <3> QED BY ONLY <3>3, <3>4 DEF y
  <2> HIDE DEF y, g
  <2> QED BY <2>2, <2>3, <2>4, <1>6, <1>9
<1>10. \E e \in Nat, i \in Nat : i < Word /\ e < u
         /\ (~LastFourth(d) => (e = 0 /\ i = 0 <=> h % u = 0 /\ l = 0))
         /\ Sticky(d) = Words(Cleared(d.hi, u) + e, i)
  <2>1. 2 ^ (HighBits - j - 1) = u /\ j < HighBits
    BY <1>1 DEF Pow
  <2>2. ~(j < 0) /\ j \in 0 .. HighBits - 1 /\ j \notin HighBits .. FracBits - 1
    BY <1>1
  <2>3. d = Words(d.hi, l) /\ d.hi \in Nat
    <3>1. d \in AllDoubles BY ValuesOf
    <3>2. d = [hi |-> d.hi, lo |-> d.lo] /\ d.hi \in Nat
      BY <3>1, Format DEF AllDoubles
    <3> QED BY <3>2 DEF Words
  <2>4. CASE d.hi % u = 0 /\ l = 0
    <3>1. Sticky(d) = d
      <4> HIDE DEF u
      <4> QED BY <2>1, <2>2, <2>4, <1>8 DEF Sticky
    <3>2. Cleared(d.hi, u) + 0 = d.hi
      BY <2>3, <2>4 DEF Cleared
    <3>3. Sticky(d) = Words(Cleared(d.hi, u) + 0, l)
      BY <3>1, <3>2, <2>3
    <3>4. 0 = 0 /\ l = 0 <=> h % u = 0 /\ l = 0
      BY <2>4, <1>4
    <3> QED BY <3>3, <3>4, <1>3, <1>5, 0 \in Nat
  <2>5. CASE ~(d.hi % u = 0 /\ l = 0) /\ j = HighBits - 1
    <3>1. u = 1
      <4>1. HighBits - j - 1 = 0 BY <1>1, <2>5
      <4> QED BY <4>1, PowType, 0 \in Nat
    <3>2. d.hi % u = 0 /\ l # 0
      <4>1. d.hi % 1 = 0 BY <2>3
      <4> QED BY <3>1, <4>1, <2>5
    <3>3. Sticky(d) = Words(d.hi, 2 ^ (WordBits - 2))
      <4>1. ~(d.hi % u = 0 /\ l = 0) /\ j = HighBits - 1 /\ d.lo # 0 /\ ~(j < HighBits - 1)
        BY <2>5, <3>2, <1>1
      <4> HIDE DEF u
      <4> QED BY <2>1, <2>2, <4>1, <1>8 DEF Sticky
    <3>4. Pow(WordBits - 2) \in Nat /\ Pow(WordBits - 2) > 0 /\ Pow(WordBits - 2) < Word
      <4>1. WordBits - 2 \in Nat /\ WordBits - 2 < WordBits
        BY <1>1
      <4>2. Pow(WordBits - 2) < Pow(WordBits)
        BY <4>1, <1>1, PowOrder
      <4>3. Pow(WordBits) = Word
        BY PowersAre DEF Pow
      <4> QED BY <4>1, <4>2, <4>3, PowType
    <3>5. Cleared(d.hi, u) + 0 = d.hi
      BY <2>3, <3>2 DEF Cleared
    <3>6. Sticky(d) = Words(Cleared(d.hi, u) + 0, Pow(WordBits - 2))
      BY <3>3, <3>5 DEF Pow
    <3>7. 0 = 0 /\ Pow(WordBits - 2) = 0 <=> h % u = 0 /\ l = 0
      BY <3>2, <3>4
    <3> HIDE DEF u, h, l
    <3> QED BY <3>4, <3>6, <3>7, <1>3, 0 \in Nat
  <2>6. CASE ~(d.hi % u = 0 /\ l = 0) /\ j # HighBits - 1
    <3> DEFINE w == (2 ^ HighBits \div 8) \div 2 ^ j
    <3>1. Sticky(d) = Words(Cleared(d.hi, u) + w, l)
      <4>1. ~(d.hi % u = 0 /\ d.lo = 0) /\ j < HighBits - 1 /\ ~(j = HighBits - 1 /\ d.lo # 0)
            /\ (d.hi % u # 0 \/ d.lo # 0)
        BY <2>6, <1>1
      <4>2. Sticky(d) = Words(Cleared(d.hi, u) + w, d.lo)
        <5> HIDE DEF u
        <5> QED BY <2>1, <2>2, <4>1, <1>8 DEF Sticky
      <4> QED BY <4>2
    <3>2. w = (Hi \div 8) \div Pow(j) /\ Pow(j) \in Nat /\ Pow(j) > 0
      BY <1>1, PowersAre, PowType DEF Pow
    <3>3. CASE j <= HighBits - 3
      <4> DEFINE v == Pow(HighBits - 3 - j)
      <4>1. HighBits - 3 - j \in Nat /\ HighBits - 3 - j + 1 \in Nat /\ HighBits - j - 1 = HighBits - 3 - j + 1 + 1
            /\ HighBits = (HighBits - j - 1) + (j + 1)
        BY <3>3, <1>1
      <4>2. v \in Nat /\ v > 0 /\ u = 4 * v
        <5>1. Pow(HighBits - 3 - j + 1) = 2 * v /\ v \in Nat /\ v > 0
          BY <4>1, PowType
        <5>2. u = 2 * Pow(HighBits - 3 - j + 1)
          BY <4>1, PowType
        <5> QED BY <5>1, <5>2
      <4>3. Pow(j + 1) = 2 * Pow(j) BY <1>1, PowType
      <4> HIDE DEF u, v
      <4>4. Hi = 8 * (Pow(j) * v) /\ Pow(j) * v \in Nat
        BY <4>2, <4>3, <3>2, <1>3
      <4>5. Hi \div 8 = Pow(j) * v
        <5>1. Hi = 8 * (Pow(j) * v) + 0 /\ Hi \in Int /\ 8 \in Nat /\ 8 > 0
          BY <4>4
        <5>2. PICK y \in Nat : y = Pow(j) * v
          BY <4>4
        <5> QED BY <5>1, <5>2
      <4>6. (Pow(j) * v) \div Pow(j) = v
        <5>1. PICK y \in Nat : y = Pow(j) * v
          BY <4>4
        <5>2. y = Pow(j) * v + 0 BY <5>1
        <5>3. y \div Pow(j) = v
          BY <5>2, <3>2, <4>2, DivModUnique
        <5> QED BY <5>1, <5>3
      <4>7. w = v BY <3>2, <4>5, <4>6
      <4>8. w \in Nat /\ w > 0 /\ w < u
        BY <4>2, <4>7
      <4>9. w = 0 /\ l = 0 <=> h % u = 0 /\ l = 0
        BY <4>8, <2>6, <1>4
      <4> HIDE DEF w, h, l
      <4> QED BY <3>1, <4>8, <4>9, <1>5
    <3>4. CASE j = HighBits - 2
      <4>1. u = 2 /\ Hi = 4 * Pow(j)
        <5>1. HighBits - j - 1 = 1 /\ Pow(j + 1) = 2 * Pow(j)
          BY <3>4, <1>1, PowType
        <5>2. u = 2 BY <5>1, PowType, 1 \in Nat
        <5>3. Hi = 2 * (2 * Pow(j))
          BY <5>1, <5>2, <1>3
        <5> QED BY <5>2, <5>3, <3>2
      <4>2. w = 0
        <5>1. PICK p \in Nat : p = Pow(j) /\ p > 0
          BY <3>2
        <5>2. Hi = 4 * p BY <4>1, <5>1
        <5>3. Hi \div 8 \in Nat /\ Hi \div 8 < p
          BY ONLY <5>1, <5>2, p \in Nat
        <5>4. Hi \div 8 = p * 0 + (Hi \div 8) /\ Hi \div 8 \in Int /\ 0 <= Hi \div 8
          BY ONLY <5>1, <5>3
        <5>5. (Hi \div 8) \div p = 0
          BY ONLY <5>1, <5>3, <5>4, DivModUnique, p \in Nat, 0 \in Int
        <5> QED BY <5>1, <5>5, <3>2
      <4>3. ~LastFourth(d) => (w = 0 /\ l = 0 <=> h % u = 0 /\ l = 0)
        <5>1. ASSUME ~LastFourth(d), l = 0 PROVE h % u = 0
          <6>1. d.hi % 2 # 1
            BY <5>1, <1>8, <3>4 DEF LastFourth
          <6>2. d.hi % 2 \in 0 .. 1 BY <2>3
          <6> QED BY <6>1, <6>2, <4>1, <1>4
        <5> QED BY <5>1, <4>2
      <4> HIDE DEF w, h, l
      <4>4. w \in Nat /\ w < u BY <4>1, <4>2
      <4> QED BY <3>1, <4>3, <4>4, <1>5
    <3> QED BY <3>3, <3>4, <2>6, <1>1
  <2> QED BY <2>4, <2>5, <2>6
<1>11. \E y \in Fractions :
               /\ Sticky(d) = Of(n, k, y)
               /\ y \div (u * Word) = f \div (u * Word)
               /\ ~LastFourth(d) => (y % (u * Word) = 0 <=> f % (u * Word) = 0)
  <2> HIDE DEF u, h, l
  <2> QED BY <1>9, <1>10
<1> QED BY <1>3, <1>11

\* Where the half is in the low word.
LEMMA StickyLow ==
  ASSUME NEW n \in BOOLEAN, NEW k \in Fields, NEW f \in Fractions, NEW d, d = Of(n, k, f),
         NEW j \in HighBits .. FracBits - 1, j = k - Bias
  PROVE  \E e \in Fractions :
           /\ Sticky(d) = Of(n, k, e)
           /\ e \div Pow(FracBits - j - 1) = f \div Pow(FracBits - j - 1)
           /\ e % Pow(FracBits - j - 1) = 0 <=> f % Pow(FracBits - j - 1) = 0
<1> DEFINE u == Pow(FracBits - j - 1)
           h == f \div Word
           l == d.lo
           q == f \div u
           r == f % u
<1>1. HighBits \in Nat /\ FracBits \in Nat /\ FracBits = HighBits + WordBits /\ WordBits \in Nat
      /\ Bias \in Nat /\ Word \in Nat /\ Word > 0 /\ Fr \in Nat /\ k \in Nat /\ f \in Nat /\ f < Fr /\ Hi \in Nat
      /\ Hi > 0
  BY Format DEF Fields, Fractions
<1>2. FracBits - j - 1 \in Nat /\ j - HighBits + 1 \in Nat /\ WordBits = (FracBits - j - 1) + (j - HighBits + 1)
  BY <1>1
<1>3. u \in Nat /\ u > 0 /\ Pow(j - HighBits + 1) \in Nat /\ Word = u * Pow(j - HighBits + 1)
  <2>1. Pow(WordBits) = Word BY PowersAre DEF Pow
  <2>2. Pow((FracBits - j - 1) + (j - HighBits + 1)) = u * Pow(j - HighBits + 1)
    BY <1>2, PowSum
  <2> QED BY <2>1, <2>2, <1>2, PowType
<1>4. h \in 0 .. Hi - 1 /\ f = h * Word + l /\ l \in 0 .. Word - 1 /\ h \in Nat /\ l \in Nat
  <2>1. h \in 0 .. Hi - 1 /\ f = h * Word + d.lo /\ d.lo \in 0 .. Word - 1
    BY HighWord
  <2> QED BY <2>1, <1>1
<1>5. f = u * q + r /\ q \in Nat /\ r \in Nat /\ r < u
  <2>1. u \in Nat /\ u > 0 /\ f \in Int /\ f >= 0
    BY <1>1, <1>3
  <2> HIDE DEF u
  <2> QED BY ONLY <2>1, DivMod
<1>6. l % u = r
  <2>1. PICK v \in Nat : v = Pow(j - HighBits + 1)
    BY <1>3
  <2>2. PICK y \in Nat : y = h * v BY <2>1, <1>4
  <2>3. h * Word = u * y
    <3> HIDE DEF u, h
    <3>1. h * (u * v) = u * (h * v)
      BY ONLY <1>3, <1>4, <2>1
    <3> QED BY <3>1, <2>1, <2>2, <1>3
  <2>4. (l + u * y) % u = l % u
    <3>1. l \in Int /\ u \in Nat /\ u > 0 /\ y \in Int
      BY <1>3, <1>4
    <3> HIDE DEF u, l
    <3> QED BY ONLY <3>1, ModSum
  <2>5. f = l + u * y BY <2>3, <1>4, <1>1
  <2> QED BY <2>4, <2>5
<1>7. HI(d) = d.hi /\ LO(d) = d.lo /\ Exponent(d.hi) = j /\ d \in AllDoubles
  BY ValuesOf DEF HI, LO
<1>8. Sticky(d) = IF l % u = 0 THEN d ELSE Words(d.hi, Cleared(l, u) + u \div 2)
  <2>1. ~(j < 0) /\ j \notin 0 .. HighBits - 1 /\ j \in HighBits .. FracBits - 1 /\ ~(j < HighBits)
    BY <1>1
  <2>2. 2 ^ (FracBits - j - 1) = u BY DEF Pow
  <2> HIDE DEF u
  <2> QED BY <2>1, <2>2, <1>7 DEF Sticky
<1>9. CASE r = 0
  <2>1. Sticky(d) = Of(n, k, f) BY <1>6, <1>8, <1>9
  <2> QED BY <2>1
<1>10. CASE r # 0
  <2> DEFINE c == u \div 2
             m == Cleared(l, u) + c
             y == h * Word + m
  <2>1. c \in Nat /\ c > 0 /\ c < u
    <3> HIDE DEF u, r
    <3>1. u >= 2 BY ONLY <1>5, <1>10, <1>3
    <3> QED BY ONLY <3>1, <1>3
  <2>2. Cleared(l, u) = l - r /\ r <= l /\ Cleared(l, u) + u <= Word
    <3>1. l \in Nat /\ u \in Nat /\ u > 0 /\ Pow(j - HighBits + 1) \in Nat /\ l < u * Pow(j - HighBits + 1)
      BY <1>3, <1>4
    <3> HIDE DEF u, l, r
    <3>2. Cleared(l, u) + u <= u * Pow(j - HighBits + 1)
      BY ONLY <3>1, ClearedIs
    <3>3. l % u <= l BY ONLY <3>1, DivMod
    <3> QED BY <3>2, <3>3, <1>3, <1>6 DEF Cleared
  <2>3. m \in 0 .. Word - 1
    <3> HIDE DEF c, u, l, r
    <3> QED BY <2>1, <2>2, <1>1, <1>3, <1>4, <1>5
  <2>4. y = u * q + c
    <3> DEFINE hw == h * Word
               uq == u * q
    <3>1. hw \in Nat /\ uq \in Nat
      <4>1. h \in Nat /\ u \in Nat /\ q \in Nat /\ Word \in Nat
        BY <1>1, <1>3, <1>4, <1>5
      <4> HIDE DEF h, u, q
      <4> QED BY ONLY <4>1, Spread
    <3>2. hw + l = uq + r /\ y = hw + m /\ m = l - r + c
      BY <1>4, <1>5, <2>2
    <3>3. l \in Nat /\ r \in Nat /\ c \in Nat
      BY <1>4, <1>5, <2>1
    <3> HIDE DEF hw, uq, c, y, m, l, r
    <3>4. y = uq + c BY ONLY <3>1, <3>2, <3>3
    <3> QED BY <3>4 DEF uq
  <2>5. Words(d.hi, m) = Of(n, k, y) /\ y \in Fractions
    <3>1. HighParts(n, k, d, h) BY HighWord
    <3>2. Hi = 1 * Hi /\ 1 \in Nat /\ 1 > 0 BY <1>1
    <3>3. d.hi = Cleared(d.hi, 1) + 0 /\ h = Cleared(h, 1) + 0 /\ h < Hi /\ 0 \in Nat
      <4>1. d.hi \in Nat
        BY <1>7, Format DEF AllDoubles
      <4>2. h \in Nat /\ h < Hi BY <1>1, <1>4
      <4>3. \A i \in Nat : i = Cleared(i, 1) + 0
        BY DEF Cleared
      <4> HIDE DEF h
      <4> QED BY ONLY <4>1, <4>2, <4>3
    <3> HIDE DEF h, m
    <3> QED BY <3>1, <3>2, <3>3, <2>3, <1>1 DEF HighParts
  <2>6. y \div u = q /\ y % u = c
    <3>1. y \in Int /\ c \in Int /\ 0 <= c /\ q \in Int
      BY <2>1, <2>5, <1>1, <1>5 DEF Fractions
    <3> HIDE DEF y, c, u, q
    <3> QED BY ONLY <3>1, <2>4, <2>1, <1>3, DivModUnique
  <2>7. Sticky(d) = Of(n, k, y)
    BY <2>5, <1>6, <1>8, <1>10
  <2> HIDE DEF y, c
  <2> QED BY <2>1, <2>5, <2>6, <2>7, <1>10
<1> QED BY <1>9, <1>10

\* Where all bits are behind the point.
LEMMA StickySmall ==
  ASSUME NEW n \in BOOLEAN, NEW k \in Fields, NEW f \in Fractions, NEW d, d = Of(n, k, f),
         k < Bias
  PROVE  \E e \in Fractions : Sticky(d) = Of(n, k, e) /\ (e = 0 <=> f = 0)
<1> DEFINE u == IF HighBits > 3 THEN Pow(HighBits - 3) ELSE 1
           first == Pow(HighBits - 1)
           h == f \div Word
           l == d.lo
           kept == Cleared(d.hi, u)
           c == Cleared(h, u)
<1>1. HighBits \in Nat /\ HighBits >= 2 /\ Bias \in Nat /\ Word \in Nat /\ Word > 0 /\ k \in Nat /\ Hi \in Nat /\ Hi > 0
      /\ k - Bias \in Int /\ k - Bias < 0 /\ FracBits \in Nat
  BY Format DEF Fields
<1>2. u \in Nat /\ u > 0 /\ \E v \in Nat : Hi = u * v
  <2>1. CASE HighBits > 3
    <3>1. HighBits - 3 \in Nat /\ HighBits = (HighBits - 3) + 3 /\ 3 \in Nat
      BY <1>1, <2>1
    <3>2. Pow((HighBits - 3) + 3) = Pow(HighBits - 3) * Pow(3) /\ Pow(3) \in Nat
      BY <3>1, PowSum, PowType
    <3>3. Hi = u * Pow(3) BY <3>1, <3>2, <2>1 DEF Hi
    <3> QED BY <3>1, <3>2, <3>3, <2>1, PowType
  <2>2. CASE ~(HighBits > 3)
    <3>1. u = 1 /\ Hi = 1 * Hi BY <1>1, <2>2
    <3> QED BY <3>1, <1>1
  <2> QED BY <2>1, <2>2
<1>3. first \in Nat /\ first > 0 /\ Hi = 2 * first
  <2>1. HighBits - 1 \in Nat /\ HighBits = (HighBits - 1) + 1
    BY <1>1
  <2>2. Pow((HighBits - 1) + 1) = 2 * first /\ first \in Nat /\ first > 0
    BY <2>1, PowType
  <2> QED BY <2>1, <2>2 DEF Hi
<1>4. h \in 0 .. Hi - 1 /\ f = h * Word + l /\ l \in 0 .. Word - 1 /\ h \in Nat /\ l \in Nat
  <2>1. h \in 0 .. Hi - 1 /\ f = h * Word + d.lo /\ d.lo \in 0 .. Word - 1
    BY HighWord
  <2> QED BY <2>1, <1>1
<1>5. HighParts(n, k, d, h) BY HighWord
<1>6. PICK v \in Nat : Hi = u * v BY <1>2
<1>7. /\ d.hi % u = h % u
      /\ \A e \in Nat, m \in 0 .. Word - 1 : \A i, g : i = kept + e /\ g = c + e /\ g < Hi =>
                   Words(i, m) = Of(n, k, g * Word + m) /\ g * Word + m \in Fractions
  <2> HIDE DEF u, h
  <2> QED BY <1>2, <1>5, <1>6 DEF HighParts
<1>8. d.hi % Hi = h /\ d.hi \in Nat
  <2>1. Hi = Hi * 1 /\ 1 \in Nat BY <1>1
  <2>2. d.hi % Hi = h % Hi
    BY <2>1, <1>1, <1>5 DEF HighParts
  <2>3. d \in AllDoubles BY ValuesOf
  <2> HIDE DEF h
  <2> QED BY <2>2, <2>3, <1>1, <1>4, Format DEF AllDoubles
<1>9. c \in Nat /\ c <= h /\ c = h - (h % u) /\ h % u \in Nat
  <2> HIDE DEF u, h
  <2>1. h % u \in Nat /\ h % u <= h
    BY <1>2, <1>4, DivMod
  <2> QED BY <2>1, <1>4 DEF Cleared
<1>10. kept % Hi = c /\ kept \in Nat
  <2>1. PICK q \in Nat : d.hi = Hi * q + h
    <3>0. PICK i \in Nat : i = d.hi BY <1>8
    <3>2. i \div Hi \in Nat /\ i = Hi * (i \div Hi) + (i % Hi)
      BY ONLY <1>1, <3>0, DivMod
    <3>1. d.hi \div Hi \in Nat /\ d.hi = Hi * (d.hi \div Hi) + (d.hi % Hi)
      BY <3>0, <3>2
    <3> QED BY <3>1, <1>8
  <2>2. kept = Hi * q + c
    <3>1. Hi * q \in Nat BY <1>1
    <3>2. kept = d.hi - (h % u) BY <1>7 DEF Cleared
    <3> HIDE DEF kept, c, h, u
    <3> QED BY <2>1, <3>1, <3>2, <1>4, <1>9
  <2>3. Hi * q \in Nat BY <1>1
  <2>4. c \in Nat /\ c < Hi /\ kept \in Nat
    <3> HIDE DEF kept, c, h
    <3> QED BY <2>2, <2>3, <1>1, <1>4, <1>9
  <2>5. kept \in Int /\ Hi \in Nat /\ Hi > 0 /\ q \in Int /\ c \in Int /\ 0 <= c
    BY <2>4, <1>1
  <2> HIDE DEF kept, c
  <2>6. kept % Hi = c
    BY ONLY <2>2, <2>4, <2>5, DivModUnique
  <2> QED BY <2>4, <2>6
<1>11. HI(d) = d.hi /\ LO(d) = d.lo /\ Exponent(d.hi) = k - Bias
  BY ValuesOf DEF HI, LO
<1> DEFINE e == IF (h # 0 \/ l # 0) /\ c < first THEN first ELSE 0
<1>12. Sticky(d) = Words(kept + e, l)
  <2> DEFINE j == k - Bias
  <2>1. j < 0 /\ j \notin 0 .. HighBits - 1 /\ j \notin HighBits .. FracBits - 1 /\ Exponent(d.hi) = j
    BY <1>1, <1>11
  <2>2. (IF HighBits > 3 THEN 2 ^ (HighBits - 3) ELSE 1) = u /\ 2 ^ (HighBits - 1) = first /\ 2 ^ HighBits = Hi
    BY PowersAre DEF Pow
  <2> HIDE DEF j, u, first
  <2>3. Sticky(d) = Words(IF (d.hi % Hi # 0 \/ d.lo # 0) /\ kept % Hi < first THEN kept + first ELSE kept, d.lo)
    BY <2>1, <2>2, <1>11 DEF Sticky
  <2>4. kept + 0 = kept BY <1>10
  <2> HIDE DEF kept, c, h
  <2> QED BY <2>3, <2>4, <1>8, <1>10
<1>13. c + e \in Nat /\ c + e < Hi /\ e \in Nat
  <2> HIDE DEF c, h, l, first
  <2> QED BY <1>1, <1>3, <1>4, <1>9
<1>14. Sticky(d) = Of(n, k, (c + e) * Word + l) /\ (c + e) * Word + l \in Fractions
  <2> HIDE DEF c, e, h, l, kept
  <2> QED BY <1>4, <1>7, <1>12, <1>13
<1>15. (c + e) * Word + l = 0 <=> f = 0
  <2>1. \A a \in Nat : a * Word + l = 0 <=> a = 0 /\ l = 0
    <3>1. \A a \in Nat : (a > 0 => a * Word > 0) /\ a * Word \in Nat /\ (a = 0 => a * Word = 0)
      BY <1>1, Products
    <3> HIDE DEF l
    <3> QED BY <3>1, <1>4
  <2>2. h \in Nat BY <1>4
  <2>3. f = 0 <=> h = 0 /\ l = 0 BY <2>1, <2>2, <1>4
  <2>4. (c + e) * Word + l = 0 <=> c + e = 0 /\ l = 0
    BY <2>1, <1>13
  <2>5. l = 0 => (c + e = 0 <=> h = 0)
    <3> HIDE DEF c, h, l, first
    <3> QED BY <1>3, <1>9, <1>4
  <2> HIDE DEF c, e, h, l
  <2> QED BY <2>3, <2>4, <2>5
<1> QED BY <1>14, <1>15

\* A number that fits in a mantissa is an integer among doubles.
LEMMA WholeDouble ==
  ASSUME NEW n \in BOOLEAN, NEW i \in Nat, i < 2 * Fr, NEW z, z = Composed(n, i, 0)
  PROVE  z \in AllDoubles /\ (Negative(z.hi) <=> n) /\ Integral(z) /\ Whole(z) = i
<1>1. FracBits \in Nat /\ Bias \in Nat /\ Fr \in Nat /\ Fr > 0 /\ Bias >= FracBits /\ 0 \in Int /\ Bias > 0
  BY Format, Products
<1>2. CASE i = 0
  <2>1. z = Of(n, 0, 0) /\ 0 \in Fields /\ 0 \in Fractions
    BY <1>1, <1>2, ComposedZero DEF Fields, Fractions
  <2>2. Integral(z) /\ Whole(z) = 0
    <3>1. 0 < Bias BY <1>1
    <3> QED BY <2>1, <3>1, IntegerValues
  <2> QED BY <2>1, <2>2, <1>2, ValuesOf
<1>3. CASE i > 0
  <2>1. PICK t \in 0 .. FracBits : Pow(t) <= i /\ i < Pow(t + 1)
    BY <1>3, TopOf
  <2> DEFINE p == Pow(FracBits - t)
             f == i * p - Fr
             k == 0 + t + Bias
  <2>2. FracBits - t \in Nat /\ t \in Nat /\ p \in Nat /\ p > 0 /\ Pow(t) \in Nat /\ Fr = p * Pow(t)
    <3>1. FracBits - t \in Nat /\ t \in Nat /\ (FracBits - t) + t = FracBits
      BY <1>1
    <3> QED BY <3>1, PowType, PowSum DEF Fr
  <2>3. 0 + t \in 1 - Bias .. Bias BY <1>1, <2>2
  <2>4. z = Of(n, k, f) /\ f \in Fractions
    BY <1>1, <2>1, <2>3, ComposedIs
  <2>5. k \in Fields /\ k \in Bias .. Bias + FracBits /\ k - Bias = t /\ FracBits + Bias - k = FracBits - t
    BY <1>1, <2>2 DEF Fields
  <2>6. f = p * (i - Pow(t)) + 0 /\ i - Pow(t) \in Nat
    <3> HIDE DEF p
    <3>1. p * (i - Pow(t)) = i * p - p * Pow(t)
      BY ONLY <2>2, i \in Nat
    <3>2. i * p \in Nat /\ p * Pow(t) \in Nat
      BY ONLY <2>2, i \in Nat
    <3>3. i - Pow(t) \in Nat BY <2>1, <2>2
    <3> QED BY <3>1, <3>2, <3>3, <2>2
  <2>7. f % p = 0 /\ f \div p = i - Pow(t)
    <3> DEFINE q == i - Pow(t)
    <3>1. f \in Int /\ q \in Int /\ f = p * q + 0 /\ p \in Nat /\ p > 0 /\ 0 \in Int /\ 0 < p
      BY <1>1, <2>2, <2>4, <2>6 DEF Fractions
    <3> HIDE DEF f, p, q
    <3>2. f % p = 0 /\ f \div p = q
      BY ONLY <3>1, DivModUnique
    <3> QED BY <3>2 DEF q
  <2> HIDE DEF f, k
  <2>8. Integral(z) /\ Whole(z) = (f \div p) + Pow(t)
    BY <2>4, <2>5, <2>7, IntegerValues
  <2>9. Whole(z) = i BY <2>2, <2>7, <2>8
  <2> QED BY <2>4, <2>5, <2>8, <2>9, ValuesOf
<1> QED BY <1>2, <1>3

\* The sum and the difference with TWO52.
LEMMA ByTWO52Is ==
  ASSUME NEW n \in BOOLEAN, NEW k \in Fields, NEW f \in Fractions, NEW i,
         i = Rounded(IF k = 0 THEN f ELSE f + Fr, FracBits + Bias - (IF k = 0 THEN 1 ELSE k))
  PROVE  ByTWO52(Of(n, k, f)) = Composed(n /\ i > 0, i, 0)
<1> DEFINE d == Of(n, k, f)
<1>1. Negative(d.hi) = n BY SignOf
<1>2. Mantissa(d) = (IF k = 0 THEN f ELSE f + Fr) /\ Scale(d) = (IF k = 0 THEN 1 ELSE k) - Bias - FracBits
  BY ValuesOf
<1>3. -Scale(d) = FracBits + Bias - (IF k = 0 THEN 1 ELSE k)
  BY <1>2, Format DEF Fields
<1>4. i = Rounded(Mantissa(d), -Scale(d))
  BY <1>2, <1>3
<1> HIDE DEF d
<1>5. ByTWO52(d) = Composed(Negative(d.hi) /\ i > 0, i, 0)
  BY <1>4 DEF ByTWO52
<1> QED BY <1>1, <1>5 DEF d

\* Doubles whose bits are the same as far as the half, and which have both something
\* behind it or nothing, are rounded alike.
LEMMA RoundedAlike ==
  ASSUME NEW f \in Fractions, NEW e \in Fractions, NEW j \in 0 .. FracBits - 1,
         e \div Pow(FracBits - j - 1) = f \div Pow(FracBits - j - 1)
  PROVE  /\ (e % Pow(FracBits - j - 1) = 0 <=> f % Pow(FracBits - j - 1) = 0) =>
              Rounded(e + Fr, FracBits - j) = Rounded(f + Fr, FracBits - j)
         /\ Rounded(e + Fr, FracBits - j) \in 1 .. Fr
<1> DEFINE p == FracBits - j - 1
           u == Pow(p)
           v == Pow(j + 1)
           g == f \div u + v
<1>1. FracBits \in Nat /\ Fr \in Nat /\ f \in Nat /\ e \in Nat /\ e < Fr /\ j \in Nat
  BY Format DEF Fractions
<1>2. p \in Nat /\ p + 1 = FracBits - j /\ p + 1 <= FracBits + 2 /\ p + (j + 1) = FracBits /\ j + 1 \in Nat
  BY <1>1
<1>3. u \in Nat /\ u > 0 /\ v \in Nat /\ v >= 2 /\ Fr = u * v
  <2>1. v = 2 * Pow(j) /\ Pow(j) \in Nat /\ Pow(j) > 0
    BY <1>1, PowType
  <2>2. Pow(p + (j + 1)) = u * v BY <1>2, PowSum
  <2> QED BY <2>1, <2>2, <1>2, PowType DEF Fr
<1>4. /\ (f + Fr) % u = f % u /\ (f + Fr) \div u = g
      /\ (e + Fr) % u = e % u /\ (e + Fr) \div u = e \div u + v
  <2>1. Fr = u * v /\ f \in Int /\ e \in Int /\ u \in Nat /\ u > 0 /\ v \in Int
    BY <1>1, <1>3
  <2> HIDE DEF u, v
  <2>2. (f + u * v) % u = f % u /\ (f + u * v) \div u = (f \div u) + v
    BY ONLY <2>1, ModSum
  <2>3. (e + u * v) % u = e % u /\ (e + u * v) \div u = (e \div u) + v
    BY ONLY <2>1, ModSum
  <2> QED BY <2>1, <2>2, <2>3
<1>5. e \div u = f \div u /\ e \div u \in Nat
  <2>1. e \div u = f \div u OBVIOUS
  <2> HIDE DEF u
  <2>2. e \div u \in Nat BY <1>1, <1>3, DivMod
  <2> QED BY <2>1, <2>2
<1>6. g \in Nat /\ g >= 2 /\ (e + Fr) \div u = g
  <2> HIDE DEF u, v
  <2> QED BY <1>3, <1>4, <1>5
<1>7. /\ Rounded(f + Fr, p + 1) = IF g % 2 = 1 /\ ((f + Fr) % u # 0 \/ (g \div 2) % 2 = 1)
                                  THEN g \div 2 + 1 ELSE g \div 2
      /\ Rounded(e + Fr, p + 1) = IF g % 2 = 1 /\ ((e + Fr) % u # 0 \/ (g \div 2) % 2 = 1)
                                  THEN g \div 2 + 1 ELSE g \div 2
  <2>1. f + Fr \in Nat /\ e + Fr \in Nat /\ g = (f + Fr) \div Pow(p) /\ g = (e + Fr) \div Pow(p)
    BY <1>1, <1>4, <1>6
  <2> HIDE DEF g, p
  <2> QED BY <2>1, <1>2, RoundedBy
<1>8. Rounded(e + Fr, p + 1) >= 1
  <2> HIDE DEF g, p, u
  <2>1. g \div 2 >= 1 /\ g \div 2 \in Nat BY <1>6
  <2> QED BY <2>1, <1>7
<1>9. Rounded(e + Fr, p + 1) <= Fr /\ Rounded(e + Fr, p + 1) \in Nat
  <2>1. Pow(p + 1) = 2 * u /\ p + 1 \in Nat
    BY <1>2, PowType
  <2>2. v <= Fr /\ e + Fr < Pow(p + 1) * v /\ e + Fr \in Nat
    <3> HIDE DEF u, v, p
    <3>1. 1 * v <= u * v BY <1>3, Products
    <3>2. (2 * u) * v = 2 * (u * v) BY <1>3
    <3> QED BY <3>1, <3>2, <2>1, <1>1, <1>3
  <2>3. Rounded(e + Fr, p + 1) <= v /\ Rounded(e + Fr, p + 1) \in Nat
    <3> HIDE DEF v, p
    <3> QED BY <2>1, <2>2, <1>3, RoundedIs
  <2> HIDE DEF v, p
  <2> QED BY <2>2, <2>3, <1>1, <1>3
<1> HIDE DEF g
<1>10. (e % u = 0 <=> f % u = 0) => Rounded(e + Fr, p + 1) = Rounded(f + Fr, p + 1)
  BY <1>4, <1>7
<1> QED BY <1>1, <1>2, <1>8, <1>9, <1>10

\* The sign and the magnitude of two doubles put together.
LEMMA SignedAs ==
  ASSUME NEW n \in BOOLEAN, NEW z \in AllDoubles
  PROVE  Words((z.hi % SignBit) + (IF n THEN SignBit ELSE 0), z.lo) = Double(n, Magnitude(z))
<1>1. z.hi % SignBit = Magnitude(z) \div Word /\ z.lo = Magnitude(z) % Word /\ Magnitude(z) \in Nat
  BY DoubleOf
<1>2. z.hi \in Nat /\ SignBit \in Nat /\ SignBit > 0
  BY DoubleOf, Format
<1>3. (z.hi % SignBit) + 0 = z.hi % SignBit BY <1>2
<1>4. CASE n BY <1>1, <1>3, <1>4 DEF Words, Double
<1>5. CASE ~n
  <2>1. (Magnitude(z) \div Word) + 0 = z.hi % SignBit
    BY <1>1, <1>3
  <2> QED BY <2>1, <1>1, <1>3, <1>5 DEF Words, Double
<1> QED BY <1>4, <1>5

\* rint, where the point is.
LEMMA RintSame ==
  ASSUME NEW n \in BOOLEAN, NEW k \in Fields, NEW f \in Fractions, NEW d, d = Of(n, k, f)
  PROVE  /\ k >= Bias + FracBits /\ (k < 2 * Bias + 1 \/ LittleEndian) => rint(d) = d
         /\ k < Bias => rint(d) = IF k = 0 /\ f = 0 THEN d
                                  ELSE LET t == Arith(ByTWO52(Sticky(d)), d)
                                       IN  Words((t.hi % SignBit) + (IF n THEN SignBit ELSE 0), t.lo)
         /\ \A j \in 0 .. FracBits - 1 : j = k - Bias =>
              rint(d) = IF f % Pow(FracBits - j) = 0 THEN d ELSE Arith(ByTWO52(Sticky(d)), d)
<1> DEFINE e == k - Bias
<1>1. HighBits \in Nat /\ FracBits \in Nat /\ Bias \in Nat /\ FracBits > HighBits /\ k \in Nat /\ Bias >= FracBits
      /\ k <= 2 * Bias + 1
  BY Format DEF Fields
<1>2. HI(d) = d.hi /\ LO(d) = d.lo /\ Exponent(d.hi) = k - Bias /\ d \in AllDoubles
  BY ValuesOf DEF HI, LO
<1>3. Sign(d.hi) = (IF n THEN SignBit ELSE 0) /\ (IsZero(d.hi, d.lo) <=> k = 0 /\ f = 0)
  BY SignOf
<1>4. CASE k = 2 * Bias + 1 /\ LittleEndian
  <2>1. e = Bias + 1 /\ e \notin FracBits .. Bias /\ ~(e < 0) /\ e \notin 0 .. HighBits - 1
        /\ e \notin HighBits .. FracBits - 1 /\ Exponent(d.hi) = e
    BY <1>1, <1>2, <1>4
  <2>2. Scaled(d, 1) = d
    <3>1. ~Finite(d) BY <1>4, ValuesOf
    <3>2. Times(d, 1) = d BY <3>1, <1>2, TimesIs
    <3> QED BY <3>2, <1>4, ViewIsSame
  <2> HIDE DEF e
  <2>3. rint(d) = d BY <2>1, <2>2, <1>2 DEF rint
  <2> QED BY <2>3, <1>1, <1>4
<1>5. CASE k >= Bias + FracBits /\ k # 2 * Bias + 1
  <2>1. e # Bias + 1 /\ e \in FracBits .. Bias /\ ~(e < 0) /\ e \notin 0 .. HighBits - 1
        /\ e \notin HighBits .. FracBits - 1 /\ Exponent(d.hi) = e
    BY <1>1, <1>2, <1>5
  <2> HIDE DEF e
  <2>3. rint(d) = d BY <2>1, <1>2 DEF rint
  <2> QED BY <2>3, <1>1, <1>5
<1>6. CASE k < Bias
  <2>1. e # Bias + 1 /\ e \notin FracBits .. Bias /\ e < 0 /\ e \notin 0 .. HighBits - 1
        /\ e \notin HighBits .. FracBits - 1 /\ Exponent(d.hi) = e
    BY <1>1, <1>2, <1>6
  <2>2. \A y : HI(y) = y.hi /\ LO(y) = y.lo
    BY DEF HI, LO
  <2> HIDE DEF e
  <2> DEFINE t == Arith(ByTWO52(Sticky(d)), d)
  <2> HIDE DEF t
  <2>3. rint(d) = IF IsZero(d.hi, d.lo) THEN d ELSE Words((t.hi % SignBit) + Sign(d.hi), t.lo)
    BY <2>1, <2>2 DEF rint, t
  <2> USE DEF t
  <2> QED BY <2>3, <1>1, <1>3, <1>6
<1>7. ASSUME NEW j \in 0 .. FracBits - 1, j = k - Bias
      PROVE  rint(d) = IF f % Pow(FracBits - j) = 0 THEN d ELSE Arith(ByTWO52(Sticky(d)), d)
  <2>1. j # Bias + 1 /\ j \notin FracBits .. Bias /\ ~(j < 0) /\ Exponent(d.hi) = j
    BY <1>1, <1>2, <1>7
  <2>2. CASE j \in 0 .. HighBits - 1
    <3>1. j \notin HighBits .. FracBits - 1 /\ j < HighBits /\ 2 ^ (HighBits - j) = Pow(HighBits - j)
      BY <1>1, <2>2 DEF Pow
    <3>2. rint(d) = IF d.hi % Pow(HighBits - j) = 0 /\ d.lo = 0 THEN d ELSE Arith(ByTWO52(Sticky(d)), d)
      BY <2>1, <2>2, <3>1, <1>2 DEF rint
    <3>3. d.hi % Pow(HighBits - j) = 0 /\ d.lo = 0 <=> f % Pow(FracBits - j) = 0
      BY <1>7, <2>2, HighPlace, TRUE \in BOOLEAN
    <3> QED BY <3>2, <3>3
  <2>3. CASE j \in HighBits .. FracBits - 1
    <3>1. j \notin 0 .. HighBits - 1 /\ ~(j < HighBits) /\ 2 ^ (FracBits - j) = Pow(FracBits - j)
      BY <1>1, <2>3 DEF Pow
    <3>2. rint(d) = IF d.lo % Pow(FracBits - j) = 0 THEN d ELSE Arith(ByTWO52(Sticky(d)), d)
      BY <2>1, <2>3, <3>1, <1>2 DEF rint
    <3>3. d.lo % Pow(FracBits - j) = 0 <=> f % Pow(FracBits - j) = 0
      <4>1. \A up : up = (IF TRUE THEN Pow(FracBits - j) ELSE 0) =>
              (d.lo % Pow(FracBits - j) = 0 <=> f % Pow(FracBits - j) = 0)
        BY <1>7, <2>3, LowPlace, TRUE \in BOOLEAN
      <4> QED BY <4>1
    <3> QED BY <3>2, <3>3
  <2> QED BY <2>2, <2>3, <1>1
<1> QED BY <1>1, <1>4, <1>5, <1>6, <1>7

\* What is not an integer is rounded to one.
LEMMA RintIs ==
  ASSUME LittleEndian, NEW n \in BOOLEAN, NEW k \in Fields, NEW f \in Fractions, NEW d, d = Of(n, k, f),
         NEW z, z = rint(d)
  PROVE  /\ \A j \in 0 .. FracBits - 1 : j = k - Bias /\ f % Pow(FracBits - j) # 0 =>
              /\ z \in AllDoubles /\ (Negative(z.hi) <=> n) /\ Integral(z)
              /\ ~LastFourth(d) => Whole(z) = Rounded(f + Fr, FracBits - j)
         /\ k < Bias /\ ~(k = 0 /\ f = 0) =>
              /\ z \in AllDoubles /\ (Negative(z.hi) <=> n) /\ Integral(z)
              /\ Whole(z) = Rounded(IF k = 0 THEN f ELSE f + Fr, FracBits + Bias - (IF k = 0 THEN 1 ELSE k))
<1>1. HighBits \in Nat /\ FracBits \in Nat /\ Bias \in Nat /\ FracBits > HighBits /\ k \in Nat /\ Bias >= FracBits
      /\ Fr \in Nat /\ Fr >= 2 /\ f \in Nat /\ f < Fr /\ Bias >= 3
  <2>1. Fr >= 2 BY Format, Products
  <2> QED BY <2>1, Format DEF Fields, Fractions
<1>0. Arith(ByTWO52(Sticky(d)), d) = ByTWO52(Sticky(d))
  BY ViewIsSame
<1>2. ASSUME NEW j \in 0 .. FracBits - 1, j = k - Bias, f % Pow(FracBits - j) # 0
      PROVE  /\ z \in AllDoubles /\ (Negative(z.hi) <=> n) /\ Integral(z)
             /\ ~LastFourth(d) => Whole(z) = Rounded(f + Fr, FracBits - j)
  <2>1. PICK e \in Fractions :
           /\ Sticky(d) = Of(n, k, e)
           /\ e \div Pow(FracBits - j - 1) = f \div Pow(FracBits - j - 1)
           /\ ~LastFourth(d) => (e % Pow(FracBits - j - 1) = 0 <=> f % Pow(FracBits - j - 1) = 0)
    <3>1. CASE j \in 0 .. HighBits - 1
      BY <3>1, <1>2, StickyHigh
    <3>2. CASE j \in HighBits .. FracBits - 1
      BY <3>2, <1>2, StickyLow
    <3> QED BY <3>1, <3>2, <1>1
  <2> DEFINE i == Rounded(e + Fr, FracBits - j)
  <2>2. i \in 1 .. Fr /\ (~LastFourth(d) => i = Rounded(f + Fr, FracBits - j))
    BY <2>1, RoundedAlike
  <2>3. k # 0 /\ FracBits + Bias - k = FracBits - j
    BY <1>1, <1>2
  <2>4. ByTWO52(Of(n, k, e)) = Composed(n /\ i > 0, i, 0)
    <3>1. i = Rounded(IF k = 0 THEN e ELSE e + Fr, FracBits + Bias - (IF k = 0 THEN 1 ELSE k))
      BY <2>3
    <3> HIDE DEF i
    <3> QED BY <3>1, ByTWO52Is
  <2> HIDE DEF i
  <2>5. (n /\ i > 0) = n BY <2>2, <1>1
  <2>6. z = Composed(n, i, 0)
    BY <1>0, <2>1, <2>4, <2>5, <1>2, RintSame
  <2>7. i \in Nat /\ i < 2 * Fr BY <2>2, <1>1
  <2> QED BY <2>2, <2>6, <2>7, WholeDouble
<1>3. ASSUME k < Bias, ~(k = 0 /\ f = 0)
      PROVE  /\ z \in AllDoubles /\ (Negative(z.hi) <=> n) /\ Integral(z)
             /\ Whole(z) = Rounded(IF k = 0 THEN f ELSE f + Fr, FracBits + Bias - (IF k = 0 THEN 1 ELSE k))
  <2> DEFINE p == FracBits + Bias - (IF k = 0 THEN 1 ELSE k)
  <2>1. PICK e \in Fractions : Sticky(d) = Of(n, k, e) /\ (e = 0 <=> f = 0)
    BY <1>3, StickySmall
  <2>2. p \in Nat /\ p > FracBits /\ (p = FracBits + 1 => k # 0)
    BY <1>1, <1>3
  <2>3. ASSUME NEW y \in Fractions
        PROVE  Rounded(IF k = 0 THEN y ELSE y + Fr, p) = IF p = FracBits + 1 /\ y > 0 THEN 1 ELSE 0
    <3> DEFINE m == IF k = 0 THEN y ELSE y + Fr
    <3>1. m \in Nat /\ m < 2 * Fr /\ y \in Nat
      BY <1>1 DEF Fractions
    <3>2. Rounded(m, p) = IF p > FracBits + 2 THEN 0
                            ELSE IF 2 * (m % Pow(p)) > Pow(p)
                                      \/ (2 * (m % Pow(p)) = Pow(p) /\ (m \div Pow(p)) % 2 = 1)
                                 THEN m \div Pow(p) + 1 ELSE m \div Pow(p)
      <4> HIDE DEF p, m
      <4> QED BY <2>2, <3>1, RoundedIs
    <3>3. Pow(FracBits + 1) = 2 * Fr /\ Pow(FracBits + 1 + 1) = 4 * Fr /\ FracBits + 1 + 1 = FracBits + 2
      <4>1. FracBits + 1 \in Nat BY <1>1
      <4>2. Pow(FracBits + 1) = 2 * Fr /\ Pow(FracBits + 1 + 1) = 2 * Pow(FracBits + 1)
        BY <4>1, <1>1, PowType DEF Fr
      <4> QED BY <4>2, <1>1
    <3>4. ASSUME p = FracBits + 1 \/ p = FracBits + 2
          PROVE  m % Pow(p) = m /\ m \div Pow(p) = 0 /\ Pow(p) \in Nat
      <4>1. Pow(p) \in Nat /\ m < Pow(p)
        BY <3>1, <3>3, <3>4, <1>1
      <4> HIDE DEF p, m
      <4> QED BY <4>1, <3>1
    <3>5. CASE p > FracBits + 2
      <4>1. p # FracBits + 1 BY <3>5, <1>1
      <4> QED BY <4>1, <3>2, <3>5
    <3>6. CASE p = FracBits + 2
      <4>1. Pow(p) = 4 * Fr /\ ~(p > FracBits + 2) /\ p # FracBits + 1
        BY <3>3, <3>6, <1>1
      <4>2. ~(2 * m > Pow(p)) /\ 2 * m # Pow(p)
        BY <4>1, <3>1, <1>1
      <4> HIDE DEF p, m
      <4>3. Rounded(m, p) = 0
        BY <4>1, <4>2, <3>2, <3>4, <3>6
      <4> QED BY <4>1, <4>3 DEF p, m
    <3>7. CASE p = FracBits + 1
      <4>1. Pow(p) = 2 * Fr /\ ~(p > FracBits + 2) /\ k # 0
        BY <3>3, <3>7, <2>2, <1>1
      <4>2. 2 * m > Pow(p) <=> y > 0
        BY <4>1, <3>1, <1>1
      <4>3. 0 % 2 # 1 /\ 0 + 1 = 1 OBVIOUS
      <4> HIDE DEF p, m
      <4>4. Rounded(m, p) = IF y > 0 THEN 1 ELSE 0
        BY <4>1, <4>2, <4>3, <3>2, <3>4, <3>7
      <4> QED BY <4>4, <3>7 DEF p, m
    <3> QED BY <3>5, <3>6, <3>7, <2>2, <1>1
  <2> DEFINE i == Rounded(IF k = 0 THEN e ELSE e + Fr, p)
  <2>4. i = Rounded(IF k = 0 THEN f ELSE f + Fr, p) /\ i \in 0 .. 1
    <3>1. e \in Nat /\ (e > 0 <=> f > 0)
      BY <2>1, <1>1 DEF Fractions
    <3> HIDE DEF p
    <3> QED BY <3>1, <2>3
  <2>5. ByTWO52(Of(n, k, e)) = Composed(n /\ i > 0, i, 0)
    BY ByTWO52Is
  <2> DEFINE t == Composed(n /\ i > 0, i, 0)
  <2> HIDE DEF i, p
  <2>6. t \in AllDoubles /\ Integral(t) /\ Whole(t) = i
    <3>1. (n /\ i > 0) \in BOOLEAN /\ i \in Nat /\ i < 2 * Fr
      BY <2>4, <1>1
    <3> QED BY <3>1, WholeDouble
  <2>7. z = Words((t.hi % SignBit) + (IF n THEN SignBit ELSE 0), t.lo)
    BY <1>0, <2>1, <2>5, <1>3, RintSame
  <2> HIDE DEF t
  <2>8. z = Double(n, Magnitude(t))
    BY <2>6, <2>7, SignedAs
  <2>9. Magnitude(t) \in 0 .. All - 1
    BY <2>6, DoubleOf
  <2>10. z \in AllDoubles /\ Magnitude(z) = Magnitude(t) /\ (Negative(z.hi) <=> n)
    BY <2>8, <2>9, DoubleIs
  <2>11. Mantissa(z) = Mantissa(t) /\ Scale(z) = Scale(t)
    BY <2>10 DEF Mantissa, Scale
  <2>12. Integral(z) /\ Whole(z) = Whole(t)
    BY <2>6, <2>11 DEF Integral, Whole, Large
  <2> QED BY <2>4, <2>6, <2>10, <2>12 DEF p
<1> QED BY <1>2, <1>3

\* The integers on both sides, by the last bit before the point.
LEMMA IntegerAt ==
  ASSUME NEW n \in BOOLEAN, NEW k \in Fields, NEW j \in 0 .. FracBits - 1, j = k - Bias,
         NEW q \in 0 .. Pow(j), NEW z, z = Double(n, k * Fr + Pow(FracBits - j) * q)
  PROVE  /\ z \in AllDoubles /\ (Negative(z.hi) <=> n) /\ Integral(z) /\ Whole(z) = q + Pow(j)
         /\ Magnitude(z) = k * Fr + Pow(FracBits - j) * q
<1> DEFINE u == Pow(FracBits - j)
           v == Pow(j)
           f == u * q
<1>1. FracBits \in Nat /\ Bias \in Nat /\ Fr \in Nat /\ Fr > 0 /\ k \in Nat /\ Bias >= FracBits /\ Bias > 0
  BY Format, Products DEF Fields
<1>2. u \in Nat /\ u > 0 /\ v \in Nat /\ v > 0 /\ Fr = u * v
  BY UnitIs
<1>3. q \in Nat /\ q <= v /\ f \in Nat BY <1>2
<1>4. CASE q < v
  <2>1. f \in Fractions
    <3> HIDE DEF u, v
    <3>1. q + 1 <= v /\ q + 1 \in Nat
      BY <1>2, <1>3, <1>4
    <3>2. (q + 1) * u <= v * u
      BY <3>1, <1>2, Products
    <3>3. (q + 1) * u = u * q + u /\ v * u = u * v
      BY <1>2, <1>3
    <3> QED BY <3>2, <3>3, <1>1, <1>2, <1>3 DEF Fractions
  <2>2. z = Of(n, k, f) BY DEF Of
  <2>3. f % u = 0 /\ f \div u = q
    <3>1. f \in Int /\ q \in Int /\ f = u * q + 0 /\ u \in Nat /\ u > 0 /\ 0 \in Int /\ 0 < u
      BY <1>2, <1>3
    <3> HIDE DEF f, u
    <3> QED BY ONLY <3>1, DivModUnique
  <2>4. k \in Bias .. Bias + FracBits /\ FracBits + Bias - k = FracBits - j
    BY <1>1
  <2> HIDE DEF f
  <2>5. Integral(z) /\ Whole(z) = q + Pow(j)
    BY <2>1, <2>2, <2>3, <2>4, IntegerValues
  <2> QED BY <2>1, <2>2, <2>5, ValuesOf DEF f
<1>5. CASE q = v
  <2>1. k * Fr + f = (k + 1) * Fr + 0
    BY <1>1, <1>2, <1>5
  <2>2. k + 1 \in Fields /\ 0 \in Fractions /\ k + 1 \in Bias .. Bias + FracBits
    BY <1>1 DEF Fields, Fractions
  <2>3. z = Of(n, k + 1, 0) BY <2>1 DEF Of
  <2> DEFINE p == FracBits + Bias - (k + 1)
  <2>4. p \in Nat /\ (k + 1) - Bias = j + 1 /\ j \in Nat
    BY <1>1
  <2>5. 0 % Pow(p) = 0 /\ 0 \div Pow(p) = 0
    <3>1. Pow(p) \in Nat /\ Pow(p) > 0
      BY <2>4, PowType
    <3> HIDE DEF p
    <3> QED BY <3>1
  <2>6. Integral(z) /\ Whole(z) = 0 + Pow(j + 1)
    BY <2>2, <2>3, <2>4, <2>5, IntegerValues
  <2>7. Whole(z) = q + Pow(j)
    BY <2>4, <2>6, <1>2, <1>5, PowType
  <2>8. z \in AllDoubles /\ (Negative(z.hi) <=> n) /\ Magnitude(z) = (k + 1) * Fr + 0
    BY <2>2, <2>3, ValuesOf
  <2> QED BY <2>1, <2>6, <2>7, <2>8
<1> QED BY <1>2, <1>3, <1>4, <1>5

\* An integer, infinity and what is no number is left alone.
LEMMA IntegersStay ==
  ASSUME NEW n \in BOOLEAN, NEW k \in Fields, NEW f \in Fractions, NEW d, d = Of(n, k, f),
         (~Finite(d) /\ LittleEndian) \/ (Finite(d) /\ Integral(d))
  PROVE  floor(d) = d /\ ceil(d) = d /\ modf(d).int = d /\ rint(d) = d /\ Magnitude(modf(d).rest) = 0
<1>1. FracBits \in Nat /\ Bias \in Nat /\ k \in Nat /\ k <= 2 * Bias + 1 /\ Bias >= FracBits /\ 0 \in Fields
      /\ 0 \in Fractions /\ Fr \in Nat
  BY Format, Products DEF Fields, Fractions
<1>2. Magnitude(Of(n, 0, 0)) = 0
  <2>1. Magnitude(Of(n, 0, 0)) = 0 * Fr + 0
    BY <1>1, ValuesOf
  <2> QED BY <2>1, <1>1
<1>3. CASE k >= Bias + FracBits
  <2>0. k < 2 * Bias + 1 \/ LittleEndian
    <3>1. k = 2 * Bias + 1 => ~Finite(d) BY ValuesOf
    <3> QED BY <3>1, <1>1
  <2>1. floor(d) = d /\ ceil(d) = d
    BY <1>3, <2>0, FloorLarge
  <2>2. modf(d) = [int |-> d, rest |-> Of(n, 0, 0)]
    BY <1>3, ModfIs
  <2>3. rint(d) = d BY <1>3, <2>0, RintSame
  <2> QED BY <2>1, <2>2, <2>3, <1>2
<1>4. CASE k < Bias
  <2>1. k = 0 /\ f = 0
    <3>1. Finite(d) BY <1>1, <1>4, ValuesOf
    <3> QED BY <3>1, <1>4, IntegerValues
  <2>2. floor(d) = d /\ ceil(d) = d
    BY <2>1, <1>4, FloorSmall
  <2>3. modf(d) = [int |-> Of(n, 0, 0), rest |-> d] /\ rint(d) = d
    BY <2>1, <1>4, ModfIs, RintSame
  <2> QED BY <2>1, <2>2, <2>3, <1>2
<1>5. CASE k >= Bias /\ k < Bias + FracBits
  <2> DEFINE j == k - Bias
  <2>1. j \in 0 .. FracBits - 1 /\ FracBits + Bias - k = FracBits - j /\ k \in Bias .. Bias + FracBits
    BY <1>1, <1>5
  <2>2. f % Pow(FracBits - j) = 0
    <3>1. Finite(d) BY <1>1, <1>5, ValuesOf
    <3> HIDE DEF j
    <3> QED BY <3>1, <2>1, IntegerValues
  <2>3. floor(d) = d /\ ceil(d) = d
    <3> HIDE DEF j
    <3>1. j = k - Bias BY DEF j
    <3> QED BY <3>1, <2>1, <2>2, FloorAt
  <2>4. modf(d) = [int |-> d, rest |-> Of(n, 0, 0)] /\ rint(d) = d
    BY <2>1, <2>2, ModfIs, RintSame
  <2> QED BY <2>3, <2>4, <1>2
<1> QED BY <1>1, <1>3, <1>4, <1>5

\* A number with bits on both sides of the point.
LEMMA RoundsBetween ==
  ASSUME NEW n \in BOOLEAN, NEW k \in Fields, NEW f \in Fractions,
         NEW v, v = Of(n, k, f),
         NEW j \in 0 .. FracBits - 1, j = k - Bias, f % Pow(FracBits - j) # 0
  PROVE  (v = View(x) => RoundsToIntegers) /\ floor(v) \in AllDoubles /\ ceil(v) \in AllDoubles
<1> DEFINE u == Pow(FracBits - j)
           q == f \div u
           r == f % u
           low == Double(n, k * Fr + u * q)
           high == Double(n, k * Fr + u * (q + 1))
           s == Scale(v)
           rest == Composed(n, r, s)
<1>1. FracBits \in Nat /\ Bias \in Nat /\ Fr \in Nat /\ Fr > 0 /\ k \in Nat /\ Bias >= FracBits /\ Bias > 0
      /\ f \in Nat /\ f < Fr /\ k < 2 * Bias + 1 /\ k # 0 /\ k \in Bias .. Bias + FracBits /\ j \in Nat
  BY Format, Products DEF Fields, Fractions
<1>2. u \in Nat /\ u > 0 /\ Pow(j) \in Nat /\ Pow(j) > 0 /\ Fr = u * Pow(j) /\ u <= Fr
  BY UnitIs
<1>3. f = u * q + r /\ q \in Nat /\ r \in Nat /\ r < u /\ r > 0
  <2>1. f \in Int /\ f >= 0 BY <1>1
  <2>2. r # 0 OBVIOUS
  <2> HIDE DEF u
  <2> QED BY <1>2, <2>1, <2>2, DivMod
<1>4. q < Pow(j)
  <2>1. f \in Int /\ f < u * Pow(j) /\ Pow(j) \in Int
    BY <1>1, <1>2
  <2> HIDE DEF u
  <2> QED BY <1>2, <2>1, DivLess
<1>5. Cleared(f, u) = u * q /\ u * q + u = u * (q + 1) /\ u * q \in Nat
  <2> HIDE DEF u, q, r
  <2>1. u * q \in Nat /\ u * (q + 1) = u * q + u
    BY <1>2, <1>3
  <2>2. Cleared(f, u) = f - r BY DEF Cleared, r
  <2> QED BY <2>1, <2>2, <1>1, <1>3
<1>6. /\ low \in AllDoubles /\ (Negative(low.hi) <=> n) /\ Integral(low) /\ Whole(low) = q + Pow(j)
      /\ Magnitude(low) = k * Fr + u * q
  <2>1. q \in 0 .. Pow(j) BY <1>2, <1>3, <1>4
  <2> HIDE DEF q
  <2> QED BY <2>1, IntegerAt
<1>7. /\ high \in AllDoubles /\ (Negative(high.hi) <=> n) /\ Integral(high) /\ Whole(high) = (q + 1) + Pow(j)
      /\ Magnitude(high) = k * Fr + u * (q + 1)
  <2>1. q + 1 \in 0 .. Pow(j) BY <1>2, <1>3, <1>4
  <2> HIDE DEF q
  <2> QED BY <2>1, IntegerAt
<1>30. ~HugePlusIsPositive(v) => floor(v) = v /\ ceil(v) = v
  BY FloorAt
<1>8. ASSUME HugePlusIsPositive(v)
      PROVE  /\ n => floor(v) = high /\ ceil(v) = low
             /\ ~n => floor(v) = low /\ ceil(v) = high
  <2>1. /\ floor(v) = Double(n, k * Fr + Cleared(f, u) + (IF n THEN u ELSE 0))
        /\ ceil(v) = Double(n, k * Fr + Cleared(f, u) + (IF ~n THEN u ELSE 0))
    BY <1>8, FloorAt
  <2>2. k * Fr + u * q + 0 = k * Fr + u * q /\ k * Fr + u * q + u = k * Fr + u * (q + 1)
    <3>1. k * Fr \in Nat BY <1>1
    <3> HIDE DEF u, q
    <3> QED BY <3>1, <1>2, <1>5
  <2> HIDE DEF u, q
  <2> QED BY <2>1, <2>2, <1>5
<1>9. modf(v) = [int |-> low, rest |-> Arith(rest, v)]
  <2>1. modf(v) = [int |-> Of(n, k, Cleared(f, u)), rest |-> Arith(Composed(n, r, Scale(v)), v)]
    BY ModfIs
  <2> HIDE DEF u, q, r
  <2> QED BY <2>1, <1>5 DEF Of
<1>10. Mantissa(v) = f + Fr /\ s = k - Bias - FracBits /\ s \in Int /\ -s = FracBits - j /\ s >= Least0
       /\ Finite(v) /\ ~IsNaN(v) /\ Magnitude(v) = k * Fr + f /\ (Negative(v.hi) <=> n)
  <2>1. Mantissa(v) = f + Fr /\ s = k - Bias - FracBits
    BY <1>1, ValuesOf
  <2>2. Finite(v) /\ ~IsNaN(v) /\ Magnitude(v) = k * Fr + f /\ (Negative(v.hi) <=> n)
    BY <1>1, ValuesOf
  <2> QED BY <2>1, <2>2, <1>1 DEF Least0
<1>11. ~Integral(v)
  <2>1. FracBits + Bias - k = FracBits - j BY <1>1
  <2>2. Integral(v) <=> f % Pow(FracBits + Bias - k) = 0
    BY <1>1, IntegerValues
  <2> QED BY <2>1, <2>2
<1>12. (Negative(rest.hi) <=> n) /\ Scale(rest) \in Int /\ Scale(rest) <= s /\ Mantissa(rest) = r * Pow(s - Scale(rest))
  <2>1. r \in Nat /\ r < 2 * Fr /\ 0 < r
    <3> HIDE DEF u, r
    <3> QED BY <1>1, <1>2, <1>3
  <2> HIDE DEF r, s
  <2>2. PICK t \in 0 .. FracBits : Pow(t) <= r /\ r < Pow(t + 1)
    BY <2>1, TopOf
  <2>3. s + t <= Bias BY <1>1, <1>10
  <2> QED BY <2>1, <2>2, <2>3, <1>10, ComposedExact
<1>13. Mantissa(v) % u = r
  <2>1. f \in Int /\ u \in Nat /\ u > 0 /\ Pow(j) \in Int
    BY <1>1, <1>2
  <2> HIDE DEF u
  <2>2. (f + u * Pow(j)) % u = f % u
    BY ONLY <2>1, ModSum
  <2> QED BY <2>2, <1>2, <1>10
<1>14. Least(-s, FracBits + 1) = FracBits - j
  BY <1>1, <1>10 DEF Least
<1>15. ASSUME HugePlusIsPositive(v)
       PROVE  /\ Order(floor(v)) < Order(v) /\ Order(v) < Order(ceil(v))
              /\ IntegerOf(ceil(v)) = IntegerOf(floor(v)) + 1
  <2>1. PICK a \in Nat, b \in Nat, c \in Nat : a = Magnitude(low) /\ b = Magnitude(v) /\ c = Magnitude(high) /\ a < b /\ b < c
    <3>1. k * Fr \in Nat BY <1>1
    <3> DEFINE i == k * Fr
    <3>2. i + u * q \in Nat /\ i + f \in Nat /\ i + u * (q + 1) \in Nat /\ i + u * q < i + f /\ i + f < i + u * (q + 1)
      <4>1. i \in Nat BY <1>1
      <4> HIDE DEF i, u, q, r
      <4> QED BY <4>1, <1>1, <1>2, <1>3, <1>5
    <3> QED BY <3>2, <1>6, <1>7, <1>10
  <2>2. PICK i \in Nat : Whole(low) = i /\ Whole(high) = i + 1
    <3> HIDE DEF q, low, high
    <3>1. q + Pow(j) \in Nat /\ (q + 1) + Pow(j) = (q + Pow(j)) + 1
      BY <1>2, <1>3
    <3> QED BY <3>1, <1>6, <1>7
  <2> HIDE DEF low, high
  <2>3. CASE n
    <3>1. floor(v) = high /\ ceil(v) = low /\ Negative(low.hi) /\ Negative(high.hi) /\ Negative(v.hi)
      BY <2>3, <1>6, <1>7, <1>8, <1>10, <1>15
    <3>2. Order(floor(v)) = -c /\ Order(ceil(v)) = -a /\ Order(v) = -b
      BY <3>1, <2>1 DEF Order
    <3>3. IntegerOf(floor(v)) = -(i + 1) /\ IntegerOf(ceil(v)) = -i
      BY <3>1, <2>2 DEF IntegerOf
    <3> QED BY <3>2, <3>3, <2>1
  <2>4. CASE ~n
    <3>1. floor(v) = low /\ ceil(v) = high /\ ~Negative(low.hi) /\ ~Negative(high.hi) /\ ~Negative(v.hi)
      BY <2>4, <1>6, <1>7, <1>8, <1>10, <1>15
    <3>2. Order(floor(v)) = a /\ Order(ceil(v)) = c /\ Order(v) = b
      BY <3>1, <2>1 DEF Order
    <3>3. IntegerOf(floor(v)) = i /\ IntegerOf(ceil(v)) = i + 1
      BY <3>1, <2>2 DEF IntegerOf
    <3> QED BY <3>2, <3>3, <2>1
  <2> QED BY <2>3, <2>4
<1> DEFINE down == floor(v)
           up == ceil(v)
           next == rint(v)
<1>16. ASSUME LittleEndian PROVE (Negative(next.hi) <=> n) /\ Integral(next) /\ (~LastFourth(v) => Whole(next) = Rounded(Mantissa(v), -s))
  <2>1. (Negative(next.hi) <=> n) /\ Integral(next) /\ (~LastFourth(v) => Whole(next) = Rounded(f + Fr, FracBits - j))
    BY <1>16, RintIs
  <2> HIDE DEF next, s
  <2> QED BY <2>1, <1>10
<1>17. Mantissa(rest) = (Mantissa(v) % 2 ^ Least(-s, FracBits + 1)) * 2 ^ (s - Scale(rest))
  <2> HIDE DEF s, rest, r
  <2> QED BY <1>12, <1>13, <1>14 DEF Pow
<1> HIDE DEF low, high, rest, u, q, r, s
<1>18. ASSUME HugePlusIsPositive(v)
       PROVE  /\ Integral(down) /\ Integral(up) /\ (Negative(down.hi) <=> n) /\ (Negative(up.hi) <=> n)
              /\ (IF Negative(v.hi) THEN up ELSE down) = low
              /\ down \in AllDoubles /\ up \in AllDoubles
  <2> HIDE DEF down, up
  <2>1. (n => down = high /\ up = low) /\ (~n => down = low /\ up = high)
    BY <1>8, <1>18 DEF down, up
  <2> QED BY <2>1, <1>6, <1>7, <1>10
<1>19. modf(v).int = low /\ (LittleEndian => modf(v).rest = rest)
  <2>1. LittleEndian => Arith(rest, v) = rest
    BY ViewIsSame
  <2> QED BY <2>1, <1>9
<1> DEFINE parts == modf(v)
           towards == IF Negative(v.hi) THEN up ELSE down
<1> HIDE DEF parts, down, up, next
<1>20. ASSUME HugePlusIsPositive(v)
       PROVE  /\ Integral(down) /\ Integral(up)
              /\ Order(down) < Order(v) /\ Order(v) < Order(up)
              /\ IntegerOf(up) = IntegerOf(down) + 1
              /\ \A d \in {down, up} : Negative(d.hi) = Negative(v.hi)
              /\ parts.int = towards
  <2>1. \A d \in {down, up} : (Negative(d.hi) <=> Negative(v.hi))
    BY <1>10, <1>18, <1>20
  <2>2. \A d \in {down, up} : Negative(d.hi) = Negative(v.hi)
    BY <2>1 DEF Negative
  <2>3. /\ Order(down) < Order(v) /\ Order(v) < Order(up)
        /\ IntegerOf(up) = IntegerOf(down) + 1
    BY <1>15, <1>20 DEF down, up
  <2>4. parts.int = towards
    BY <1>18, <1>19, <1>20 DEF parts
  <2> QED BY <2>2, <2>3, <2>4, <1>18, <1>20
<1>21. ASSUME LittleEndian
       PROVE  /\ \A d \in {next, parts.rest} : Negative(d.hi) = Negative(v.hi)
              /\ Scale(parts.rest) <= Scale(v)
              /\ Mantissa(parts.rest) = (Mantissa(v) % 2 ^ Least(-Scale(v), FracBits + 1))
                                           * 2 ^ (Scale(v) - Scale(parts.rest))
              /\ Integral(next)
              /\ ~LastFourth(v) => Whole(next) = Rounded(Mantissa(v), -Scale(v))
  <2>1. \A d \in {next, parts.rest} : (Negative(d.hi) <=> Negative(v.hi))
    BY <1>10, <1>12, <1>16, <1>19, <1>21 DEF parts
  <2>2. \A d \in {next, parts.rest} : Negative(d.hi) = Negative(v.hi)
    BY <2>1 DEF Negative
  <2>3. parts.rest = rest BY <1>19, <1>21 DEF parts
  <2> QED BY <2>2, <2>3, <1>12, <1>16, <1>17, <1>21 DEF s
<1>22. ~HugePlusIsPositive(v) => {down, up} = {v} /\ down = v /\ up = v
  BY <1>30 DEF down, up
<1> HIDE DEF towards
<1>23. ASSUME v = View(x) PROVE RoundsToIntegers
  <2>1. View(x) = v /\ floor(v) = down /\ ceil(v) = up /\ rint(v) = next /\ modf(v) = parts
    BY <1>23 DEF down, up, next, parts
  <2>2. (IF Negative(v.hi) THEN up ELSE down) = towards
    BY DEF towards
  <2> QED BY <2>1, <2>2, <1>10, <1>11, <1>20, <1>21, <1>22, Zenon DEF RoundsToIntegers
<1>24. down \in AllDoubles /\ up \in AllDoubles
  <2>1. v \in AllDoubles BY ValuesOf
  <2> QED BY <2>1, <1>18, <1>22
<1> QED BY <1>23, <1>24 DEF down, up

\* Zero has no sign among the integers.
LEMMA MinusZero ==
  ASSUME NEW a \in Int, a = 0
  PROVE  -a = 0
<1>1. PICK b \in Int : b = -a OBVIOUS
<1>2. a + b = 0 BY <1>1
<1>3. b = 0 BY <1>2
<1> QED BY <1>1, <1>3

\* A number below 1.
LEMMA RoundsBelow ==
  ASSUME NEW n \in BOOLEAN, NEW k \in Fields, NEW f \in Fractions, NEW v, v = Of(n, k, f),
         k < Bias, ~(k = 0 /\ f = 0)
  PROVE  (v = View(x) => RoundsToIntegers) /\ floor(v) \in AllDoubles /\ ceil(v) \in AllDoubles
<1> DEFINE s == Scale(v)
           m == Mantissa(v)
           zero == Of(n, 0, 0)
           one == Of(n, Bias, 0)
           down == floor(v)
           up == ceil(v)
           next == rint(v)
           parts == modf(v)
<1>1. FracBits \in Nat /\ Bias \in Nat /\ Fr \in Nat /\ Fr > 0 /\ k \in Nat /\ Bias >= FracBits /\ Bias >= 3
      /\ f \in Nat /\ f < Fr /\ 0 \in Fields /\ Bias \in Fields /\ 0 \in Fractions /\ k < 2 * Bias + 1
  BY Format, Products DEF Fields, Fractions
<1>30. ~HugePlusIsPositive(v) => down = v /\ up = v
  BY FloorSmall
<1>2. ASSUME HugePlusIsPositive(v)
      PROVE  /\ n => down = one /\ up = zero
             /\ ~n => down = zero /\ up = one
  <2>1. /\ n => floor(v) = Of(TRUE, Bias, 0) /\ ceil(v) = Of(TRUE, 0, 0)
        /\ ~n => floor(v) = Of(FALSE, 0, 0) /\ ceil(v) = Of(FALSE, Bias, 0)
    BY <1>2, FloorSmall, Zenon
  <2>2. CASE n
    <3>1. n = TRUE BY <2>2
    <3> QED BY ONLY <2>1, <3>1, Zenon DEF down, up, zero, one
  <2>3. CASE ~n
    <3>1. n = FALSE BY <2>3
    <3> QED BY ONLY <2>1, <3>1, Zenon DEF down, up, zero, one
  <2> QED BY ONLY <2>2, <2>3
<1>3. zero \in AllDoubles /\ one \in AllDoubles /\ (Negative(zero.hi) <=> n) /\ (Negative(one.hi) <=> n)
      /\ Magnitude(zero) = 0 /\ Magnitude(one) = Bias * Fr
  <2>1. 0 * Fr + 0 = 0 /\ Bias * Fr + 0 = Bias * Fr
    BY <1>1
  <2> QED BY <2>1, <1>1, ValuesOf
<1>4. Integral(zero) /\ Whole(zero) = 0
  <2>1. 0 < Bias BY <1>1
  <2> QED BY <2>1, <1>1, IntegerValues
<1>5. Integral(one) /\ Whole(one) = 1
  <2>1. Bias \in Bias .. Bias + FracBits /\ FracBits + Bias - Bias = FracBits /\ Bias - Bias = 0
    BY <1>1
  <2>2. Integral(one) <=> 0 % Pow(FracBits) = 0
    BY <2>1, <1>1, IntegerValues
  <2>3. Whole(one) = (0 \div Pow(FracBits)) + Pow(0)
    BY <2>1, <1>1, IntegerValues
  <2>4. 0 % Fr = 0 /\ 0 \div Fr = 0 /\ Pow(0) = 1
    BY <1>1, PowType
  <2> QED BY <2>2, <2>3, <2>4 DEF Fr
<1>6. /\ Finite(v) /\ ~IsNaN(v) /\ (Negative(v.hi) <=> n) /\ m = (IF k = 0 THEN f ELSE f + Fr)
      /\ s = (IF k = 0 THEN 1 ELSE k) - Bias - FracBits /\ Magnitude(v) = k * Fr + f
  BY <1>1, ValuesOf
<1>7. ~Integral(v) BY IntegerValues
<1>8. Magnitude(v) \in Nat /\ 0 < Magnitude(v) /\ Magnitude(v) < Bias * Fr /\ Bias * Fr \in Nat
  <2>1. (k > 0 => k * Fr > 0) /\ k * Fr \in Nat /\ Bias * Fr \in Nat
    BY <1>1, Products
  <2>2. k * Fr + f < Bias * Fr BY <1>1, Products
  <2> QED BY <2>1, <2>2, <1>1, <1>6
<1>9. ASSUME HugePlusIsPositive(v)
      PROVE  /\ Order(down) < Order(v) /\ Order(v) < Order(up)
             /\ IntegerOf(up) = IntegerOf(down) + 1
  <2> HIDE DEF zero, one, down, up
  <2>1. CASE n
    <3>0. Negative(down.hi) /\ Negative(up.hi) /\ Negative(v.hi) /\ Magnitude(down) = Bias * Fr /\ Magnitude(up) = 0
          /\ Whole(down) = 1 /\ Whole(up) = 0
      BY <2>1, <1>2, <1>3, <1>4, <1>5, <1>6, <1>9
    <3>3. PICK w \in Nat : w = Bias * Fr BY <1>8
    <3>6. -Magnitude(up) = 0 /\ -Whole(up) = 0
      BY <3>0, 0 \in Int, MinusZero, Zenon
    <3>1. Order(down) = -w /\ Order(up) = 0 /\ Order(v) = -Magnitude(v)
      <4>1. Order(up) = -Magnitude(up)
        BY <3>0, Zenon DEF Order
      <4>2. Order(up) = 0 BY <4>1, <3>6, Zenon
      <4> QED BY <4>2, <3>0, <3>3 DEF Order
    <3>2. IntegerOf(down) = -1 /\ IntegerOf(up) = 0
      <4>1. IntegerOf(up) = -Whole(up)
        BY <3>0, Zenon DEF IntegerOf
      <4>2. IntegerOf(up) = 0 BY <4>1, <3>6, Zenon
      <4> QED BY <4>2, <3>0 DEF IntegerOf
    <3>4. PICK y \in Nat : y = Magnitude(v) /\ 0 < y /\ y < w
      BY <3>3, <1>8
    <3>5. -w < -y /\ -y < 0 /\ 0 = -1 + 1 BY <3>4
    <3> QED BY ONLY <3>1, <3>2, <3>4, <3>5
  <2>2. CASE ~n
    <3>1. Order(down) = 0 /\ Order(up) = Bias * Fr /\ Order(v) = Magnitude(v)
      BY <2>2, <1>2, <1>3, <1>6, <1>9 DEF Order
    <3>2. IntegerOf(down) = 0 /\ IntegerOf(up) = 1
      BY <2>2, <1>2, <1>3, <1>4, <1>5, <1>9 DEF IntegerOf
    <3> QED BY <3>1, <3>2, <1>8
  <2> QED BY <2>1, <2>2
<1>10. parts = [int |-> zero, rest |-> v] BY ModfIs
<1>11. ASSUME LittleEndian PROVE (Negative(next.hi) <=> n) /\ Integral(next) /\ Whole(next) = Rounded(m, -s)
  <2>1. /\ (Negative(next.hi) <=> n) /\ Integral(next)
        /\ Whole(next) = Rounded(IF k = 0 THEN f ELSE f + Fr, FracBits + Bias - (IF k = 0 THEN 1 ELSE k))
    BY <1>11, RintIs
  <2>2. -s = FracBits + Bias - (IF k = 0 THEN 1 ELSE k)
    BY <1>1, <1>6
  <2> HIDE DEF next, s, m
  <2> QED BY <2>1, <2>2, <1>6
<1>12. m = (m % 2 ^ Least(-s, FracBits + 1)) * 2 ^ (s - s)
  <2>1. Least(-s, FracBits + 1) = FracBits + 1 /\ s \in Int
    <3>1. -s >= FracBits + 1 /\ s \in Int
      BY <1>1, <1>6
    <3> HIDE DEF s
    <3> QED BY <3>1, <1>1 DEF Least
  <2>2. 2 ^ (FracBits + 1) = 2 * Fr
    BY <1>1, PowType DEF Fr, Pow
  <2>3. s - s = 0 /\ 2 ^ 0 = 1
    <3>1. Pow(0) = 1 BY PowType, 0 \in Nat
    <3> QED BY <3>1, <2>1 DEF Pow
  <2>4. m \in Nat /\ m < 2 * Fr BY <1>1, <1>6
  <2>5. m % (2 * Fr) = m /\ m * 1 = m
    <3> HIDE DEF m
    <3> QED BY <2>4, <1>1
  <2> QED BY <2>1, <2>2, <2>3, <2>5
<1> DEFINE towards == IF Negative(v.hi) THEN up ELSE down
<1> HIDE DEF zero, one, down, up, next, parts, s, m
<1>13. parts.int = zero /\ parts.rest = v BY <1>10
<1>14. ASSUME HugePlusIsPositive(v)
       PROVE  /\ down \in AllDoubles /\ up \in AllDoubles /\ Integral(down) /\ Integral(up)
              /\ Order(down) < Order(v) /\ Order(v) < Order(up)
              /\ IntegerOf(up) = IntegerOf(down) + 1
              /\ \A d \in {down, up} : Negative(d.hi) = Negative(v.hi)
              /\ parts.int = towards
  <2>1. \A d \in {down, up} : (Negative(d.hi) <=> Negative(v.hi))
    BY <1>2, <1>3, <1>6, <1>14
  <2>2. \A d \in {down, up} : Negative(d.hi) = Negative(v.hi)
    BY <2>1 DEF Negative
  <2>3. parts.int = towards
    BY <1>2, <1>6, <1>13, <1>14
  <2> QED BY <2>2, <2>3, <1>2, <1>3, <1>4, <1>5, <1>9, <1>14
<1>16. ASSUME LittleEndian
       PROVE  /\ \A d \in {next, parts.rest} : Negative(d.hi) = Negative(v.hi)
              /\ Scale(parts.rest) <= Scale(v)
              /\ Mantissa(parts.rest) = (Mantissa(v) % 2 ^ Least(-Scale(v), FracBits + 1))
                                           * 2 ^ (Scale(v) - Scale(parts.rest))
              /\ Integral(next)
              /\ Whole(next) = Rounded(Mantissa(v), -Scale(v))
  <2>1. \A d \in {next, parts.rest} : (Negative(d.hi) <=> Negative(v.hi))
    BY <1>6, <1>11, <1>13, <1>16
  <2>2. \A d \in {next, parts.rest} : Negative(d.hi) = Negative(v.hi)
    BY <2>1 DEF Negative
  <2>3. Scale(v) \in Int BY <1>1, <1>6 DEF s
  <2> QED BY <2>2, <2>3, <1>11, <1>12, <1>13, <1>16 DEF s, m
<1>17. ~HugePlusIsPositive(v) => {down, up} = {v} /\ down = v /\ up = v
  BY <1>30
<1> HIDE DEF towards
<1>18. ASSUME v = View(x) PROVE RoundsToIntegers
  <2>1. View(x) = v /\ floor(v) = down /\ ceil(v) = up /\ rint(v) = next /\ modf(v) = parts
    BY <1>18 DEF down, up, next, parts
  <2>2. (IF Negative(v.hi) THEN up ELSE down) = towards
    BY DEF towards
  <2> QED BY <2>1, <2>2, <1>6, <1>7, <1>14, <1>16, <1>17, Zenon DEF RoundsToIntegers
<1>19. down \in AllDoubles /\ up \in AllDoubles
  <2>1. v \in AllDoubles BY ValuesOf
  <2> QED BY <2>1, <1>14, <1>17
<1> QED BY <1>18, <1>19 DEF down, up

\* A number that is composed is a double, and so is a product.
LEMMA ComposedIsDouble ==
  ASSUME NEW n \in BOOLEAN, NEW m \in Nat, m < 2 * Fr, NEW s \in Int
  PROVE  Composed(n, m, s) \in AllDoubles
<1>1. FracBits \in Nat /\ Bias \in Nat /\ Fr \in Nat /\ Fr > 0 /\ 0 \in Fields /\ 0 \in Fractions
      /\ 2 * Bias + 1 \in Fields
  BY Format, Products DEF Fields, Fractions
<1>2. CASE m = 0
  BY <1>1, <1>2, ComposedZero, ValuesOf
<1>3. CASE m > 0
  <2>1. PICK t \in 0 .. FracBits : Pow(t) <= m /\ m < Pow(t + 1)
    BY <1>3, TopOf
  <2>2. CASE s + t > Bias
    <3>1. Composed(n, m, s) = Of(n, 2 * Bias + 1, 0)
      BY <2>1, <2>2, ComposedIs
    <3> QED BY <3>1, <1>1, ValuesOf
  <2>3. CASE s + t \in 1 - Bias .. Bias
    <3>1. /\ Composed(n, m, s) = Of(n, s + t + Bias, m * Pow(FracBits - t) - Fr)
          /\ m * Pow(FracBits - t) - Fr \in Fractions
      BY <2>1, <2>3, ComposedIs
    <3>2. s + t + Bias \in Fields
      BY <2>3, <1>1 DEF Fields
    <3> QED BY <3>1, <3>2, ValuesOf
  <2>4. CASE s + t < 1 - Bias /\ s >= Least0
    <3>1. Composed(n, m, s) = Of(n, 0, m * Pow(s - Least0)) /\ m * Pow(s - Least0) \in Fractions
      BY <2>1, <2>4, ComposedIs
    <3> QED BY <3>1, <1>1, ValuesOf
  <2>5. CASE s + t < 1 - Bias /\ s < Least0
    <3>1. /\ Composed(n, m, s) = Double(n, Rounded(m, Least0 - s))
          /\ Rounded(m, Least0 - s) \in 0 .. Fr
      BY <2>1, <2>5, ComposedIs
    <3>2. PICK i \in Nat : i = Rounded(m, Least0 - s) /\ i <= Fr
      BY <3>1, <1>1
    <3>3. CASE i < Fr
      <4>1. i \in Fractions /\ 0 * Fr + i = i
        BY <3>2, <3>3, <1>1 DEF Fractions
      <4> QED BY <4>1, <3>1, <3>2, <1>1, ValuesOf DEF Of
    <3>4. CASE i = Fr
      <4>1. 1 \in Fields /\ 1 * Fr + 0 = i
        BY <3>2, <3>4, <1>1, Format DEF Fields
      <4> QED BY <4>1, <3>1, <3>2, <1>1, ValuesOf DEF Of
    <3> QED BY <3>2, <3>3, <3>4, <1>1
  <2>6. s + t \in Int /\ 1 - Bias \in Int /\ Least0 \in Int
    BY <1>1 DEF Least0
  <2> QED BY <2>2, <2>3, <2>4, <2>5, <2>6, <1>1
<1> QED BY <1>2, <1>3

\* A double times a power of two is a double.
LEMMA TimesIsDouble ==
  ASSUME NEW d \in AllDoubles, NEW i \in Int
  PROVE  Times(d, i) \in AllDoubles /\ Scaled(d, i) \in AllDoubles
<1>1. ASSUME NEW e \in AllDoubles PROVE Times(e, i) \in AllDoubles
  <2>1. CASE ~Finite(e) BY <2>1, TimesIs
  <2>2. CASE Finite(e)
    <3>1. Mantissa(e) \in Nat /\ Mantissa(e) < 2 * Fr /\ Scale(e) \in Int
      BY <2>2, RoundTrip
    <3>2. Times(e, i) = Composed(Negative(e.hi), Mantissa(e), Scale(e) + i)
      BY <2>2 DEF Times
    <3>3. Negative(e.hi) \in BOOLEAN /\ Scale(e) + i \in Int
      BY <3>1 DEF Negative
    <3> QED BY <3>1, <3>2, <3>3, ComposedIsDouble
  <2> QED BY <2>1, <2>2
<1>2. View(Times(View(d), i)) \in AllDoubles
  BY <1>1, ViewIs
<1> QED BY <1>1, <1>2 DEF Scaled

\* What is not finite, where words are exchanged: of it nothing is claimed.
LEMMA RoundsMisread ==
  ASSUME NEW n \in BOOLEAN, NEW k \in Fields, NEW f \in Fractions, NEW v, v = Of(n, k, f),
         ~Finite(v), ~LittleEndian
  PROVE  (v = View(x) => RoundsToIntegers) /\ floor(v) \in AllDoubles /\ ceil(v) \in AllDoubles
<1>1. FracBits \in Nat /\ Bias \in Nat /\ k \in Nat /\ k <= 2 * Bias + 1 /\ FracBits > HighBits
      /\ HighBits \in Nat /\ FracBits <= Bias
  BY Format DEF Fields
<1>2. v = View(x) => RoundsToIntegers
  BY DEF RoundsToIntegers
<1>3. k = 2 * Bias + 1 /\ v \in AllDoubles /\ Exponent(v.hi) = Bias + 1
  <2>1. k < 2 * Bias + 1 => Finite(v) BY ValuesOf
  <2>2. v \in AllDoubles /\ Exponent(v.hi) = k - Bias
    BY ValuesOf
  <2> QED BY <2>1, <2>2, <1>1
<1>4. Scaled(v, 1) \in AllDoubles
  BY <1>3, TimesIsDouble, 1 \in Int
<1>5. ASSUME NEW small, NEW away PROVE ToInteger(v, small, away) = Scaled(v, 1)
  <2>1. PICK j : j = Bias + 1 OBVIOUS
  <2>2. Exponent(HI(v)) = j /\ j \notin FracBits .. Bias /\ ~(j < 0) /\ j \notin 0 .. HighBits - 1
        /\ j \notin HighBits .. FracBits - 1
    BY <2>1, <1>1, <1>3 DEF HI
  <2> QED BY <2>1, <2>2, Zenon DEF ToInteger
<1>6. floor(v) = Scaled(v, 1) /\ ceil(v) = Scaled(v, 1)
  BY <1>5, FloorCalls
<1> QED BY <1>2, <1>4, <1>6

\* All doubles.
LEMMA RoundsAll ==
  ASSUME x \in AllDoubles
  PROVE  RoundsToIntegers /\ floor(View(x)) \in AllDoubles /\ ceil(View(x)) \in AllDoubles
<1> DEFINE v == View(x)
<1>1. v \in AllDoubles BY ViewIs
<1> HIDE DEF v
<1>2. PICK n \in BOOLEAN, k \in Fields, f \in Fractions : v = Of(n, k, f)
  BY <1>1, PartsOf
<1>3. FracBits \in Nat /\ Bias \in Nat /\ k \in Nat /\ k <= 2 * Bias + 1
  BY Format DEF Fields
<1>4. SUFFICES (v = View(x) => RoundsToIntegers) /\ floor(v) \in AllDoubles /\ ceil(v) \in AllDoubles
  BY DEF v
<1>5. CASE ~Finite(v) /\ ~LittleEndian
  BY <1>2, <1>5, RoundsMisread
<1>6. CASE (~Finite(v) /\ LittleEndian) \/ (Finite(v) /\ Integral(v))
  <2>1. floor(v) = v /\ ceil(v) = v /\ modf(v).int = v /\ rint(v) = v /\ Magnitude(modf(v).rest) = 0
    BY <1>2, <1>6, IntegersStay
  <2>2. IsNaN(v) => ~Finite(v)
    <3>1. Magnitude(v) \in Nat /\ Infinity \in Nat
      BY <1>1, DoubleOf, AllIs
    <3> QED BY <3>1 DEF IsNaN, Finite
  <2>3. v = View(x) => RoundsToIntegers
    BY <2>1, <2>2, <1>6 DEF RoundsToIntegers
  <2> QED BY <2>1, <2>3, <1>1
<1>7. CASE Finite(v) /\ ~Integral(v)
  <2>1. CASE k < Bias
    <3>1. ~(k = 0 /\ f = 0)
      BY <1>2, <1>7, <2>1, IntegerValues
    <3> QED BY <3>1, <2>1, <1>2, RoundsBelow
  <2>2. CASE k >= Bias
    <3>1. k < Bias + FracBits
      BY <1>2, <1>3, <1>7, IntegerValues
    <3> DEFINE j == k - Bias
    <3>2. j \in 0 .. FracBits - 1 /\ FracBits + Bias - k = FracBits - j /\ k \in Bias .. Bias + FracBits
      BY <1>3, <2>2, <3>1
    <3>3. f % Pow(FracBits - j) # 0
      <4>1. Integral(v) <=> f % Pow(FracBits + Bias - k) = 0
        BY <3>2, <1>2, IntegerValues
      <4> QED BY <4>1, <3>2, <1>7
    <3> QED BY <3>2, <3>3, <1>2, RoundsBetween
  <2> QED BY <2>1, <2>2, <1>3
<1> QED BY <1>5, <1>6, <1>7

-----------------------------------------------------------------------------
\* What the local variables of sqrt hold, as numbers of two words.
Rest(a) == a.ix0 * Word + a.ix1

\* Twice the root found so far.
Twice(a) == a.s0 * Word + a.s1

\* The root found so far.
RootOf(a) == a.q * Word + a.q1

\* The local variables of sqrt.
Locals == [ix0 : Nat, ix1 : 0 .. Word - 1, s0 : Nat, s1 : 0 .. Word - 1, q : Nat, q1 : 0 .. Word - 1]

\* ShiftLeft doubles what is left.
LEMMA ShiftLeftIs ==
  ASSUME NEW a \in Locals, NEW z, z = ShiftLeft(a)
  PROVE  /\ z \in Locals /\ Rest(z) = 2 * Rest(a) /\ Twice(z) = Twice(a) /\ RootOf(z) = RootOf(a)
         /\ z.s0 = a.s0 /\ z.s1 = a.s1 /\ z.q = a.q /\ z.q1 = a.q1
<1>1. SignBit \in Nat /\ SignBit > 0 /\ Word \in Nat /\ Word > 0 /\ Word = 2 * SignBit
  BY Format
<1>2. a.ix0 \in Nat /\ a.ix1 \in Nat /\ a.ix1 < Word
  BY <1>1 DEF Locals
<1> DEFINE c == a.ix1 \div SignBit
           l == (2 * a.ix1) % Word
<1>3. z = [a EXCEPT !.ix0 = 2 * @ + c, !.ix1 = l]
  BY DEF ShiftLeft
<1>4. c \in Nat /\ l \in Nat /\ l < Word /\ 2 * a.ix1 = Word * c + l
  <2>1. a.ix1 = SignBit * c + (a.ix1 % SignBit) /\ c \in Nat /\ a.ix1 % SignBit \in Nat
        /\ a.ix1 % SignBit < SignBit
    BY <1>1, <1>2, DivMod
  <2> DEFINE v == a.ix1 % SignBit
  <2> HIDE DEF c, v
  <2>2. 2 * a.ix1 = Word * c + 2 * v
    <3>1. SignBit * c \in Nat /\ Word * c = 2 * (SignBit * c)
      BY <2>1, <1>1
    <3> QED BY <2>1, <3>1 DEF v
  <2>3. l = 2 * v
    <3>1. PICK i \in Int : i = 2 * a.ix1 BY <1>2
    <3>2. PICK r \in Int : r = 2 * v BY <2>1 DEF v
    <3>3. 0 <= r /\ r < Word
      BY <2>1, <3>2, <1>1 DEF v
    <3>4. i = Word * c + r BY <2>2, <3>1, <3>2
    <3>5. c \in Int BY <2>1
    <3>6. i % Word = r
      BY ONLY <3>3, <3>4, <3>5, <1>1, DivModUnique
    <3> QED BY <3>1, <3>2, <3>6
  <2> QED BY <2>1, <2>2, <2>3, <1>1 DEF v
<1> HIDE DEF c, l
<1>5. z.ix0 = 2 * a.ix0 + c /\ z.ix1 = l /\ z \in Locals
      /\ z.s0 = a.s0 /\ z.s1 = a.s1 /\ z.q = a.q /\ z.q1 = a.q1
  <2>1. PICK h \in Nat : h = 2 * a.ix0 + c
    BY <1>2, <1>4
  <2>2. z = [a EXCEPT !.ix0 = h, !.ix1 = l]
    BY <1>3, <2>1
  <2>3. l \in 0 .. Word - 1 BY <1>4, <1>1
  <2>4. z.ix0 = h /\ z.ix1 = l /\ z \in Locals
        /\ z.s0 = a.s0 /\ z.s1 = a.s1 /\ z.q = a.q /\ z.q1 = a.q1
    BY ONLY a \in Locals, <2>2, <2>3, h \in Nat DEF Locals
  <2> QED BY <2>1, <2>4
<1>6. (2 * a.ix0 + c) * Word + l = 2 * (a.ix0 * Word + a.ix1)
  <2>1. (2 * a.ix0 + c) * Word = 2 * (a.ix0 * Word) + Word * c
    <3>1. \A g \in Nat, e \in Nat, w \in Nat : (2 * g + e) * w = 2 * (g * w) + w * e
      OBVIOUS
    <3> QED BY <3>1, <1>1, <1>2, <1>4
  <2>2. a.ix0 * Word \in Nat /\ Word * c \in Nat
    BY <1>1, <1>2, <1>4
  <2> QED BY <2>1, <2>2, <1>4, <1>2
<1> QED BY <1>5, <1>6 DEF Rest, Twice, RootOf

\* One bit b of the root, by its definition.
Stepped(z, a, b) ==
  IF Twice(a) + b <= Rest(a)
  THEN /\ Twice(z) = Twice(a) + 2 * b /\ RootOf(z) = RootOf(a) + b
       /\ Rest(z) = 2 * (Rest(a) - Twice(a) - b)
  ELSE Twice(z) = Twice(a) /\ RootOf(z) = RootOf(a) /\ Rest(z) = 2 * Rest(a)

\* Pairs of words are in the order of the first, then of the second.
LEMMA WordOrder ==
  ASSUME NEW w \in Nat, NEW g \in Nat, NEW h \in Nat, NEW k \in 0 .. w - 1, NEW l \in 0 .. w - 1
  PROVE  /\ g * w \in Nat /\ h * w \in Nat
         /\ g * w + k <= h * w + l <=> g < h \/ (g = h /\ k <= l)
<1>1. g * w \in Nat /\ h * w \in Nat OBVIOUS
<1>2. ASSUME g < h PROVE g * w + k < h * w
  BY <1>2, Products
<1>3. ASSUME h < g PROVE h * w + l < g * w
  BY <1>3, Products
<1> QED BY <1>1, <1>2, <1>3

\* A bit of the root in the high word (e_sqrt.c, the loop over q).
LEMMA HighBitIs ==
  ASSUME NEW a \in Locals, a.s1 = 0, a.q1 = 0, NEW r \in Nat, NEW z, z = HighBit(a, r)
  PROVE  z \in Locals /\ z.s1 = 0 /\ z.q1 = 0 /\ Stepped(z, a, r * Word)
<1>1. Word \in Nat /\ Word > 0 BY Format
<1>2. a.ix0 \in Nat /\ a.ix1 \in 0 .. Word - 1 /\ a.s0 \in Nat /\ a.q \in Nat
  BY DEF Locals
<1> DEFINE t == a.s0 + r
           y == [a EXCEPT !.s0 = t + r, !.ix0 = @ - t, !.q = @ + r]
<1>3. z = ShiftLeft(IF t <= a.ix0 THEN y ELSE a)
  BY DEF HighBit
<1>4. t \in Nat /\ t * Word = a.s0 * Word + r * Word /\ r * Word \in Nat /\ a.s0 * Word \in Nat
      /\ a.ix0 * Word \in Nat /\ t * Word \in Nat /\ a.q * Word \in Nat
  BY <1>1, <1>2
<1>5. Twice(a) = a.s0 * Word /\ RootOf(a) = a.q * Word /\ Rest(a) = a.ix0 * Word + a.ix1
  BY <1>4 DEF Twice, RootOf, Rest
<1>6. t <= a.ix0 <=> Twice(a) + r * Word <= Rest(a)
  <2>1. 0 \in 0 .. Word - 1 BY <1>1
  <2>2. t * Word + 0 <= a.ix0 * Word + a.ix1 <=> t < a.ix0 \/ (t = a.ix0 /\ 0 <= a.ix1)
    <3>1. PICK g \in Nat : g = t BY <1>4
    <3>2. g * Word + 0 <= a.ix0 * Word + a.ix1 <=> g < a.ix0 \/ (g = a.ix0 /\ 0 <= a.ix1)
      BY ONLY <2>1, <1>1, <1>2, g \in Nat, WordOrder
    <3> QED BY <3>1, <3>2
  <2> HIDE DEF t
  <2> QED BY <2>2, <1>1, <1>2, <1>4, <1>5
<1>7. CASE t <= a.ix0
  <2>1. y \in Locals /\ y.s1 = 0 /\ y.q1 = 0 /\ y.s0 = t + r /\ y.ix0 = a.ix0 - t /\ y.q = a.q + r
        /\ y.ix1 = a.ix1
    <3>1. PICK g \in Nat, h \in Nat, k \in Nat : g = t + r /\ h = a.ix0 - t /\ k = a.q + r
      BY <1>2, <1>4, <1>7
    <3>2. y = [a EXCEPT !.s0 = g, !.ix0 = h, !.q = k]
      BY <3>1
    <3> HIDE DEF y, t
    <3>3. y \in Locals /\ y.s1 = a.s1 /\ y.q1 = a.q1 /\ y.s0 = g /\ y.ix0 = h /\ y.q = k /\ y.ix1 = a.ix1
      BY ONLY a \in Locals, <3>2, g \in Nat, h \in Nat, k \in Nat DEF Locals
    <3> QED BY <3>1, <3>3
  <2>2. (t + r) * Word = t * Word + r * Word /\ (a.ix0 - t) * Word = a.ix0 * Word - t * Word
        /\ (a.q + r) * Word = a.q * Word + r * Word
    <3> HIDE DEF t
    <3> QED BY <1>1, <1>2, <1>4
  <2>3. Twice(y) = Twice(a) + 2 * (r * Word) /\ RootOf(y) = RootOf(a) + r * Word
        /\ Rest(y) = Rest(a) - Twice(a) - r * Word
    <3> HIDE DEF t, y
    <3> QED BY <2>1, <2>2, <1>4, <1>5, <1>2 DEF Twice, RootOf, Rest
  <2> HIDE DEF t, y
  <2>4. z \in Locals /\ z.s1 = 0 /\ z.q1 = 0 /\ Rest(z) = 2 * Rest(y) /\ Twice(z) = Twice(y)
        /\ RootOf(z) = RootOf(y)
    BY <1>3, <1>7, <2>1, ShiftLeftIs
  <2> QED BY <1>6, <1>7, <2>3, <2>4 DEF Stepped
<1>8. CASE ~(t <= a.ix0)
  <2> HIDE DEF t, y
  <2>4. z \in Locals /\ z.s1 = 0 /\ z.q1 = 0 /\ Rest(z) = 2 * Rest(a) /\ Twice(z) = Twice(a)
        /\ RootOf(z) = RootOf(a)
    BY <1>3, <1>8, ShiftLeftIs
  <2> QED BY <1>6, <1>8, <2>4 DEF Stepped
<1> QED BY <1>7, <1>8

\* A bit of the root in the low word (the loop over q1), where t1 and ix1 carry over.
LEMMA LowBitIs ==
  ASSUME NEW a \in Locals, NEW r \in Nat, r > 0, 2 * r <= Word, a.q1 + 2 * r <= Word,
         a.s1 + 4 * r <= Word \/ (a.s1 = 0 /\ 2 * r = Word), NEW z, z = LowBit(a, r)
  PROVE  z \in Locals /\ z.s1 + 2 * r <= Word /\ z.q1 + r <= Word /\ Stepped(z, a, r)
<1>1. Word \in Nat /\ Word > 0 /\ SignBit \in Nat /\ SignBit > 0 /\ Word = 2 * SignBit
  BY Format
<1>2. a.ix0 \in Nat /\ a.ix1 \in 0 .. Word - 1 /\ a.s0 \in Nat /\ a.q \in Nat
      /\ a.s1 \in 0 .. Word - 1 /\ a.q1 \in 0 .. Word - 1
  BY DEF Locals
<1> DEFINE t == (a.s1 + r) % Word
           u == (t + r) % Word
           carry == IF Negative(t) /\ ~Negative(u) THEN 1 ELSE 0
           borrow == IF a.ix1 < t THEN 1 ELSE 0
           l == (a.ix1 - t) % Word
           less == a.s0 < a.ix0 \/ (a.s0 = a.ix0 /\ t <= a.ix1)
           y == [a EXCEPT !.s0 = @ + carry, !.s1 = u, !.ix0 = @ - a.s0 - borrow,
                          !.ix1 = l, !.q1 = @ + r]
<1>3. z = ShiftLeft(IF less THEN y ELSE a)
  BY DEF LowBit
<1>4. t = a.s1 + r /\ t \in 0 .. Word - 1
  <2>1. a.s1 + r \in 0 .. Word - 1 BY <1>1, <1>2
  <2>2. \A i \in 0 .. Word - 1 : i % Word = i
    BY <1>1
  <2> QED BY <2>1, <2>2
<1>5. u \in 0 .. Word - 1 /\ u + 2 * r <= Word /\ carry * Word + u = a.s1 + 2 * r
  <2>1. CASE a.s1 = 0 /\ 2 * r = Word
    <3>1. t = SignBit /\ t + r = Word
      BY <1>1, <1>4, <2>1
    <3>2. u = 0 BY <3>1, <1>1
    <3>3. carry = 1 BY <3>1, <3>2, <1>1 DEF Negative
    <3> QED BY <3>2, <3>3, <2>1, <1>1
  <2>2. CASE a.s1 + 4 * r <= Word
    <3>1. t + r \in 0 .. Word - 1
      BY <1>1, <1>2, <1>4, <2>2
    <3>2. \A i \in 0 .. Word - 1 : i % Word = i
      BY <1>1
    <3>3. u = a.s1 + 2 * r BY <3>1, <3>2, <1>4, <1>2
    <3>4. carry = 0
      BY <3>3, <1>4, <1>1, <1>2 DEF Negative
    <3> QED BY <3>3, <3>4, <1>1, <1>2, <2>2
  <2> QED BY <2>1, <2>2
<1>6. carry \in Nat /\ borrow \in Nat OBVIOUS
<1>7. l \in 0 .. Word - 1 /\ l = a.ix1 - t + borrow * Word
  <2>1. a.ix1 - t \in Int /\ a.ix1 - t < Word /\ a.ix1 - t + Word >= 0
    BY <1>1, <1>2, <1>4
  <2>2. CASE a.ix1 < t
    <3>1. a.ix1 - t = Word * (-1) + (a.ix1 - t + Word) /\ a.ix1 - t + Word < Word /\ a.ix1 - t + Word \in Int
      BY <2>1, <2>2, <1>1, <1>2, <1>4
    <3>2. l = a.ix1 - t + Word
      <4> HIDE DEF t
      <4>1. PICK g \in Int : g = a.ix1 - t BY <2>1
      <4>2. PICK e \in Int : e = g + Word BY <1>1
      <4>3. g % Word = e
        BY <3>1, <4>1, <4>2, <1>1, <2>1, DivModUnique, -1 \in Int
      <4> QED BY <4>1, <4>2, <4>3
    <3> QED BY <3>1, <3>2, <2>1, <2>2, <1>1
  <2>3. CASE ~(a.ix1 < t)
    <3>1. a.ix1 - t \in 0 .. Word - 1
      BY <2>1, <2>3, <1>1, <1>2, <1>4
    <3>2. \A i \in 0 .. Word - 1 : i % Word = i
      BY <1>1
    <3>3. l = a.ix1 - t BY <3>1, <3>2
    <3> QED BY <3>1, <3>3, <2>3, <1>1
  <2> QED BY <2>2, <2>3
<1>8. less <=> Twice(a) + r <= Rest(a)
  <2>1. a.s0 * Word + t <= a.ix0 * Word + a.ix1 <=> less
    <3>1. PICK g \in 0 .. Word - 1 : g = t BY <1>4
    <3>2. a.s0 * Word + g <= a.ix0 * Word + a.ix1 <=> a.s0 < a.ix0 \/ (a.s0 = a.ix0 /\ g <= a.ix1)
      BY ONLY <1>1, <1>2, g \in 0 .. Word - 1, WordOrder
    <3> QED BY <3>1, <3>2
  <2>2. Twice(a) + r = a.s0 * Word + t
    <3>1. a.s0 * Word \in Nat BY <1>1, <1>2
    <3> QED BY <1>4, <1>2, <3>1 DEF Twice
  <2> QED BY <2>1, <2>2 DEF Rest
<1> HIDE DEF t, u, carry, borrow, l
<1>9. CASE less
  <2>1. a.ix0 - a.s0 - borrow \in Nat
    BY <1>9, <1>2, <1>4 DEF borrow
  <2>2. y \in Locals /\ y.s0 = a.s0 + carry /\ y.s1 = u /\ y.ix0 = a.ix0 - a.s0 - borrow /\ y.ix1 = l
        /\ y.q = a.q /\ y.q1 = a.q1 + r
    <3>1. a.q1 + r \in 0 .. Word - 1 BY <1>1, <1>2
    <3>2. PICK g \in Nat, h \in Nat, k \in 0 .. Word - 1 :
            g = a.s0 + carry /\ h = a.ix0 - a.s0 - borrow /\ k = a.q1 + r
      BY <2>1, <3>1, <1>2, <1>6
    <3>3. y = [a EXCEPT !.s0 = g, !.s1 = u, !.ix0 = h, !.ix1 = l, !.q1 = k]
      BY <3>2
    <3> HIDE DEF y
    <3>4. y \in Locals /\ y.s0 = g /\ y.s1 = u /\ y.ix0 = h /\ y.ix1 = l /\ y.q = a.q /\ y.q1 = k
      BY ONLY a \in Locals, <3>3, g \in Nat, h \in Nat, k \in 0 .. Word - 1, <1>5, <1>7 DEF Locals
    <3> QED BY <3>2, <3>4
  <2> HIDE DEF y
  <2>3. (a.s0 + carry) * Word = a.s0 * Word + carry * Word
        /\ (a.ix0 - a.s0 - borrow) * Word = a.ix0 * Word - a.s0 * Word - borrow * Word
        /\ a.s0 * Word \in Nat /\ a.ix0 * Word \in Nat /\ carry * Word \in Nat /\ borrow * Word \in Nat
        /\ a.q * Word \in Nat
    BY <1>1, <1>2, <1>6
  <2>4. Twice(y) = Twice(a) + 2 * r
    BY <2>2, <2>3, <1>5, <1>2, <1>1 DEF Twice
  <2>5. RootOf(y) = RootOf(a) + r
    BY <2>2, <2>3, <1>2 DEF RootOf
  <2>6. Rest(y) = Rest(a) - Twice(a) - r
    BY <2>2, <2>3, <1>7, <1>4, <1>2, <1>1 DEF Rest, Twice
  <2>7. z \in Locals /\ z.s1 = u /\ z.q1 = a.q1 + r /\ Rest(z) = 2 * Rest(y) /\ Twice(z) = Twice(y)
        /\ RootOf(z) = RootOf(y)
    BY <1>3, <1>9, <2>2, ShiftLeftIs
  <2>8. z.q1 + r <= Word BY <2>7, <1>2, <1>1
  <2> QED BY <1>5, <1>8, <1>9, <2>4, <2>5, <2>6, <2>7, <2>8 DEF Stepped
<1>10. CASE ~less
  <2> HIDE DEF y
  <2>1. z \in Locals /\ z.s1 = a.s1 /\ z.q1 = a.q1 /\ Rest(z) = 2 * Rest(a) /\ Twice(z) = Twice(a)
        /\ RootOf(z) = RootOf(a)
    BY <1>3, <1>10, ShiftLeftIs
  <2>2. z.q1 + r <= Word /\ z.s1 + 2 * r <= Word
    BY <2>1, <1>1, <1>2
  <2> QED BY <1>8, <1>10, <2>1, <2>2 DEF Stepped
<1> QED BY <1>9, <1>10

\* The rest, when bits down to c have been found: R * c = 2 * (X - Q * Q), and
\* Q + c would be too much.
Found(a, X, c) ==
  /\ Twice(a) = 2 * RootOf(a)
  /\ Rest(a) * c = 2 * (X - RootOf(a) * RootOf(a))
  /\ Rest(a) < 4 * RootOf(a) + 2 * c

\* One bit keeps the invariant, with half the bit: this is the square of a sum.
LEMMA FoundStep ==
  ASSUME NEW a \in Locals, NEW z \in Locals, NEW X \in Nat, NEW b \in Nat, Found(a, X, 2 * b),
         Stepped(z, a, b)
  PROVE  Found(z, X, b)
<1> DEFINE R == Rest(a)
           Q == RootOf(a)
<1>1. R \in Nat /\ Q \in Nat /\ Rest(z) \in Nat /\ RootOf(z) \in Nat
  <2>1. Word \in Nat BY Format
  <2> QED BY <2>1 DEF Locals, Rest, RootOf
<1>2. Twice(a) = 2 * Q /\ R * (2 * b) = 2 * (X - Q * Q) /\ R < 4 * Q + 2 * (2 * b)
  BY DEF Found
<1> HIDE DEF R, Q
<1>3. R * b = X - Q * Q /\ Q * Q \in Nat /\ R * b \in Nat
  <2>1. R * (2 * b) = 2 * (R * b) /\ R * b \in Nat /\ Q * Q \in Nat
    BY <1>1
  <2> QED BY <1>2, <2>1
<1>4. CASE 2 * Q + b <= R
  <2>1. Twice(z) = 2 * Q + 2 * b /\ RootOf(z) = Q + b /\ Rest(z) = 2 * (R - 2 * Q - b)
    BY <1>2, <1>4 DEF Stepped, R, Q
  <2>2. (2 * (R - 2 * Q - b)) * b = 2 * (R * b) - 4 * (Q * b) - 2 * (b * b)
        /\ (Q + b) * (Q + b) = Q * Q + 2 * (Q * b) + b * b
        /\ Q * b \in Nat /\ b * b \in Nat
    BY <1>1
  <2>3. Rest(z) * b = 2 * (X - RootOf(z) * RootOf(z))
    BY <1>3, <2>1, <2>2
  <2>4. Rest(z) < 4 * RootOf(z) + 2 * b /\ Twice(z) = 2 * RootOf(z)
    BY <1>1, <1>2, <2>1
  <2> QED BY <2>3, <2>4 DEF Found
<1>5. CASE ~(2 * Q + b <= R)
  <2>1. Twice(z) = 2 * Q /\ RootOf(z) = Q /\ Rest(z) = 2 * R
    BY <1>2, <1>5 DEF Stepped, R, Q
  <2>2. (2 * R) * b = 2 * (R * b) BY <1>1
  <2>3. Rest(z) * b = 2 * (X - RootOf(z) * RootOf(z))
    BY <1>3, <2>1, <2>2
  <2>4. Rest(z) < 4 * RootOf(z) + 2 * b /\ Twice(z) = 2 * RootOf(z)
    BY <1>1, <1>2, <1>5, <2>1
  <2> QED BY <2>3, <2>4 DEF Found
<1> QED BY <1>4, <1>5

\* f has the local variables before each of the first n bits, and behind the last.
FindsBits(f, a, n) ==
  f = [i \in 0 .. n |->
         IF i = 0 THEN ShiftLeft(a)
         ELSE IF i <= HighBits + 2 THEN HighBit(f[i - 1], 2 ^ (HighBits + 2 - i))
         ELSE LowBit(f[i - 1], 2 ^ (HighBits + 2 + WordBits - i))]

\* There is such a function, by induction over the bits.
LEMMA FindsBitsExists ==
  ASSUME NEW a
  PROVE  \A n \in Nat : \E f : FindsBits(f, a, n)
<1> DEFINE T == {n \in Nat : \E f : FindsBits(f, a, n)}
           Next0(f, i) ==
             IF i = 0 THEN ShiftLeft(a)
             ELSE IF i <= HighBits + 2 THEN HighBit(f[i - 1], 2 ^ (HighBits + 2 - i))
             ELSE LowBit(f[i - 1], 2 ^ (HighBits + 2 + WordBits - i))
<1>0. \A f, n : FindsBits(f, a, n) <=> f = [i \in 0 .. n |-> Next0(f, i)]
  BY DEF FindsBits
<1>a. ASSUME NEW f, NEW g, NEW i \in Nat, i = 0 \/ f[i - 1] = g[i - 1] PROVE Next0(f, i) = Next0(g, i)
  <2>1. CASE i = 0 BY <2>1
  <2>2. CASE f[i - 1] = g[i - 1] BY <2>2
  <2> QED BY <1>a, <2>1, <2>2
<1> HIDE DEF Next0
<1>1. 0 \in T
  <2>1. PICK g : g = [i \in 0 .. 0 |-> Next0(0, i)]
    OBVIOUS
  <2>2. \A i \in 0 .. 0 : Next0(0, i) = Next0(g, i)
    BY <1>a
  <2>3. g = [i \in 0 .. 0 |-> Next0(g, i)]
    BY <2>1, <2>2
  <2> QED BY <2>3, <1>0
<1>2. ASSUME NEW n \in Nat, n \in T PROVE n + 1 \in T
  <2>1. PICK f : f = [i \in 0 .. n |-> Next0(f, i)]
    BY <1>2, <1>0
  <2>2. PICK g : g = [i \in 0 .. n + 1 |-> Next0(f, i)]
    OBVIOUS
  <2>3. ASSUME NEW i \in 0 .. n PROVE g[i] = f[i]
    <3>1. f[i] = Next0(f, i) BY <2>1
    <3>2. i \in 0 .. n + 1 OBVIOUS
    <3>3. g[i] = Next0(f, i) BY <2>2, <3>2
    <3> QED BY <3>1, <3>3
  <2>4. ASSUME NEW i \in 0 .. n + 1 PROVE Next0(f, i) = Next0(g, i)
    <3>1. i = 0 \/ i - 1 \in 0 .. n OBVIOUS
    <3> QED BY <2>3, <3>1, <1>a
  <2>5. g = [i \in 0 .. n + 1 |-> Next0(g, i)]
    BY <2>2, <2>4
  <2> QED BY <2>5, <1>0
<1>3. \A n \in Nat : n \in T
  <2> HIDE DEF T
  <2> QED BY <1>1, <1>2, NatSetInduction
<1> QED BY <1>3

\* Root is the last value of this function.
LEMMA RootIs ==
  ASSUME NEW a
  PROVE  \E f : FindsBits(f, a, FracBits + 2) /\ Root(a) = f[FracBits + 2]
<1>1. FracBits + 2 \in Nat /\ FracBits + 2 = HighBits + 2 + WordBits
  BY Format
<1>2. PICK c : c = CHOOSE f : FindsBits(f, a, HighBits + 2 + WordBits)
  OBVIOUS
<1>3. Root(a) = c[HighBits + 2 + WordBits]
  BY <1>2 DEF Root, FindsBits
<1>4. FindsBits(c, a, HighBits + 2 + WordBits)
  BY <1>1, <1>2, FindsBitsExists
<1> QED BY <1>1, <1>3, <1>4

\* What holds when bits down to c have been found.
Bounded(a, i) ==
  /\ i <= HighBits + 2 => a.s1 = 0 /\ a.q1 = 0
  /\ i >= HighBits + 2 =>
       /\ a.q1 + Pow(FracBits + 2 - i) <= Word
       /\ a.s1 + 2 * Pow(FracBits + 2 - i) <= Word \/ (a.s1 = 0 /\ Pow(FracBits + 2 - i) = Word)

\* Each bit keeps both.
LEMMA BitIs ==
  ASSUME NEW a \in Locals, NEW X \in Nat, NEW i \in 1 .. FracBits + 2,
         Found(a, X, Pow(FracBits + 2 - (i - 1))), Bounded(a, i - 1),
         NEW z, z = IF i <= HighBits + 2 THEN HighBit(a, Pow(HighBits + 2 - i))
                    ELSE LowBit(a, Pow(HighBits + 2 + WordBits - i))
  PROVE  z \in Locals /\ Found(z, X, Pow(FracBits + 2 - i)) /\ Bounded(z, i)
<1>1. HighBits \in Nat /\ WordBits \in Nat /\ FracBits \in Nat /\ FracBits = HighBits + WordBits /\ i \in Nat
      /\ Word \in Nat /\ WordBits > 0
  BY Format
<1>2. PICK e \in Nat : e = FracBits + 2 - i BY <1>1
<1>3. FracBits + 2 - (i - 1) = e + 1 /\ HighBits + 2 + WordBits - i = e
  BY <1>1, <1>2
<1>4. PICK b \in Nat : b = Pow(e) /\ b > 0
  BY PowType
<1>5. Pow(e + 1) = 2 * b BY <1>4, PowType
<1>6. Pow(WordBits) = Word BY DEF Pow, Word
<1>7. Found(a, X, 2 * b) BY <1>3, <1>5
<1>8. CASE i <= HighBits + 2
  <2>1. PICK r \in Nat : r = Pow(HighBits + 2 - i)
    BY <1>1, <1>8, PowType
  <2>2. b = r * Word
    <3>1. PICK g \in Nat : g = HighBits + 2 - i
      BY <1>1, <1>8
    <3>2. e = g + WordBits BY <3>1, <1>1, <1>2
    <3>3. Pow(g + WordBits) = Pow(g) * Pow(WordBits)
      BY <1>1, PowSum
    <3> QED BY <3>1, <3>2, <3>3, <2>1, <1>4, <1>6
  <2>3. a.s1 = 0 /\ a.q1 = 0
    BY <1>1, <1>8 DEF Bounded
  <2>4. z = HighBit(a, r) BY <1>8, <2>1
  <2>5. z \in Locals /\ z.s1 = 0 /\ z.q1 = 0 /\ Stepped(z, a, b)
    BY <2>2, <2>3, <2>4, HighBitIs
  <2>6. Found(z, X, b) BY <1>7, <2>5, FoundStep
  <2>7. i = HighBits + 2 => e = WordBits
    BY <1>1, <1>2
  <2>8. Bounded(z, i)
    <3>1. i >= HighBits + 2 => Pow(e) = Word
      BY <1>1, <1>6, <1>8, <2>7
    <3> QED BY <2>5, <3>1, <1>1, <1>2 DEF Bounded
  <2> QED BY <2>5, <2>6, <2>8, <1>2, <1>4
<1>9. CASE ~(i <= HighBits + 2)
  <2>1. i - 1 >= HighBits + 2 /\ i >= HighBits + 2 /\ ~(i <= HighBits + 2)
    BY <1>1, <1>9
  <2>2. a.q1 + 2 * b <= Word /\ (a.s1 + 2 * (2 * b) <= Word \/ (a.s1 = 0 /\ 2 * b = Word))
    BY <2>1, <1>3, <1>5 DEF Bounded
  <2>3. 2 * b <= Word /\ a.s1 \in Nat /\ a.q1 \in Nat
    BY <2>2, <1>1, <1>4 DEF Locals
  <2>4. z = LowBit(a, b) BY <1>9, <1>3, <1>4
  <2>5. z \in Locals /\ z.s1 + 2 * b <= Word /\ z.q1 + b <= Word /\ Stepped(z, a, b)
    <3>1. a.s1 + 4 * b <= Word \/ (a.s1 = 0 /\ 2 * b = Word)
      BY <2>2, <2>3
    <3> QED BY <3>1, <2>2, <2>3, <2>4, <1>4, LowBitIs
  <2>6. Found(z, X, b) BY <1>7, <2>5, FoundStep
  <2>7. Bounded(z, i)
    BY <2>1, <2>5, <1>2, <1>4 DEF Bounded
  <2> QED BY <2>5, <2>6, <2>7, <1>2, <1>4
<1> QED BY <1>8, <1>9

\* Root finds the last number whose square is not above X, four Fr times the number
\* that it starts with.
LEMMA RootFound ==
  ASSUME NEW a \in Locals, a.s0 = 0, a.s1 = 0, a.q = 0, a.q1 = 0, Rest(a) < 4 * Fr, NEW z, z = Root(a)
  PROVE  z \in Locals /\ Found(z, (4 * Fr) * Rest(a), 1)
<1>1. HighBits \in Nat /\ WordBits \in Nat /\ FracBits \in Nat /\ FracBits = HighBits + WordBits
      /\ Word \in Nat /\ Word > 0 /\ Fr \in Nat
  BY Format
<1>2. PICK f : FindsBits(f, a, FracBits + 2) /\ z = f[FracBits + 2]
  BY RootIs
<1>3. Rest(a) \in Nat BY <1>1 DEF Locals, Rest
<1> DEFINE X == (4 * Fr) * Rest(a)
           T == {i \in Nat : i <= FracBits + 2 =>
                   f[i] \in Locals /\ Found(f[i], X, Pow(FracBits + 2 - i)) /\ Bounded(f[i], i)}
<1>4. X \in Nat BY <1>1, <1>3
<1>5. Pow(FracBits + 2) = 4 * Fr
  <2>1. Pow(FracBits + 1) = 2 * Fr /\ FracBits + 1 \in Nat
    BY <1>1, PowType DEF Fr
  <2>2. Pow((FracBits + 1) + 1) = 2 * Pow(FracBits + 1)
    BY <2>1, PowType
  <2> QED BY <2>1, <2>2, <1>1
<1>6. 0 \in T
  <2>1. f[0] = ShiftLeft(a)
    <3>1. 0 \in 0 .. FracBits + 2 BY <1>1
    <3>2. ~(0 \in 1 .. HighBits + 2) /\ ~(0 > HighBits + 2)
      BY <1>1
    <3> QED BY <1>2, <3>1, <3>2 DEF FindsBits
  <2>2. f[0] \in Locals /\ Rest(f[0]) = 2 * Rest(a) /\ Twice(f[0]) = Twice(a)
        /\ RootOf(f[0]) = RootOf(a) /\ f[0].s1 = 0 /\ f[0].q1 = 0
    BY <2>1, ShiftLeftIs
  <2>3. Twice(a) = 0 /\ RootOf(a) = 0
    BY <1>1 DEF Twice, RootOf
  <2>4. (2 * Rest(a)) * (4 * Fr) = 2 * X
    BY <1>1, <1>3
  <2>5. Found(f[0], X, 4 * Fr)
    <3> HIDE DEF X
    <3>1. Rest(f[0]) * (4 * Fr) = 2 * (X - RootOf(f[0]) * RootOf(f[0]))
      <4>1. RootOf(f[0]) * RootOf(f[0]) = 0
        BY <2>2, <2>3
      <4>2. X - 0 = X BY <1>4
      <4> QED BY <4>1, <4>2, <2>2, <2>4
    <3>2. Twice(f[0]) = 2 * RootOf(f[0])
      BY <2>2, <2>3
    <3>3. Rest(f[0]) < 4 * RootOf(f[0]) + 2 * (4 * Fr)
      BY <2>2, <2>3, <1>1, <1>3
    <3> QED BY <3>1, <3>2, <3>3 DEF Found
  <2>6. Bounded(f[0], 0) BY <2>2, <1>1 DEF Bounded
  <2>7. FracBits + 2 - 0 = FracBits + 2 BY <1>1
  <2> QED BY <2>2, <2>5, <2>6, <2>7, <1>5
<1>7. ASSUME NEW i \in Nat, i \in T PROVE i + 1 \in T
  <2> SUFFICES ASSUME i + 1 <= FracBits + 2
               PROVE  /\ f[i + 1] \in Locals /\ Found(f[i + 1], X, Pow(FracBits + 2 - (i + 1)))
                      /\ Bounded(f[i + 1], i + 1)
    OBVIOUS
  <2>1. f[i] \in Locals /\ Found(f[i], X, Pow(FracBits + 2 - i)) /\ Bounded(f[i], i)
    BY <1>7, <1>1
  <2>2. PICK j \in 1 .. FracBits + 2 : j = i + 1
    BY <1>1
  <2>3. i = j - 1 /\ j \in 0 .. FracBits + 2
    BY <2>2, <1>1
  <2>4. f[j] = IF j <= HighBits + 2 THEN HighBit(f[j - 1], Pow(HighBits + 2 - j))
               ELSE LowBit(f[j - 1], Pow(HighBits + 2 + WordBits - j))
    <3>1. f[j] = IF j = 0 THEN ShiftLeft(a)
                 ELSE IF j <= HighBits + 2 THEN HighBit(f[j - 1], 2 ^ (HighBits + 2 - j))
                 ELSE LowBit(f[j - 1], 2 ^ (HighBits + 2 + WordBits - j))
      BY <1>2, <2>3 DEF FindsBits
    <3>2. j # 0 BY <2>2
    <3>3. CASE j <= HighBits + 2
      <4>1. j \in 1 .. HighBits + 2 /\ ~(j > HighBits + 2)
        BY <1>1, <2>2, <3>3
      <4> QED BY <3>1, <3>2, <3>3, <4>1 DEF Pow
    <3>4. CASE ~(j <= HighBits + 2)
      <4>1. ~(j \in 1 .. HighBits + 2) /\ j > HighBits + 2
        BY <1>1, <2>2, <3>4
      <4> QED BY <3>1, <3>2, <3>4, <4>1 DEF Pow
    <3> QED BY <3>3, <3>4
  <2>5. PICK y \in Locals : y = f[j - 1]
    BY <2>1, <2>3
  <2>6. Found(y, X, Pow(FracBits + 2 - (j - 1))) /\ Bounded(y, j - 1)
    BY <2>1, <2>3, <2>5
  <2>7. PICK w : w = f[j] OBVIOUS
  <2>8. w = IF j <= HighBits + 2 THEN HighBit(y, Pow(HighBits + 2 - j))
            ELSE LowBit(y, Pow(HighBits + 2 + WordBits - j))
    BY <2>4, <2>5, <2>7
  <2> HIDE DEF X
  <2>9. w \in Locals /\ Found(w, X, Pow(FracBits + 2 - j)) /\ Bounded(w, j)
    BY <1>4, <2>6, <2>8, BitIs
  <2> QED BY <2>2, <2>7, <2>9
<1>8. FracBits + 2 \in T
  <2> HIDE DEF T
  <2> QED BY <1>1, <1>6, <1>7, NatSetInduction
<1>9. FracBits + 2 \in Nat /\ FracBits + 2 - (FracBits + 2) = 0 /\ Pow(0) = 1
  BY <1>1, PowType, 0 \in Nat
<1> QED BY <1>2, <1>8, <1>9

\* Squares are ordered like the numbers.
LEMMA Squares ==
  /\ \A a \in Nat, b \in Nat : a < b => a * a < b * b
  /\ \A a \in Nat, b \in Nat : a * a < b * b => a < b
  /\ \A a \in Nat, b \in Nat : a * a <= b * b => a <= b
<1>1. ASSUME NEW a \in Nat, NEW b \in Nat, a < b PROVE a * a < b * b
  <2>1. a * a <= a * b
    <3>1. a * a <= b * a BY <1>1, Products
    <3> QED BY <3>1
  <2>2. a * b < b * b
    <3>1. (b - a) * b > 0
      <4>1. PICK c \in Nat : c = b - a /\ c > 0
        BY <1>1
      <4>2. c * b > 0 BY <1>1, <4>1, Products
      <4> QED BY <4>1, <4>2
    <3>2. (b - a) * b = b * b - a * b OBVIOUS
    <3>3. b * b \in Nat /\ a * b \in Nat OBVIOUS
    <3> QED BY <3>1, <3>2, <3>3
  <2>3. a * a \in Nat /\ a * b \in Nat /\ b * b \in Nat
    OBVIOUS
  <2> QED BY <2>1, <2>2, <2>3
<1>2. ASSUME NEW a \in Nat, NEW b \in Nat, a * a < b * b PROVE a < b
  <2>1. CASE b < a
    <3>1. b * b < a * a BY <1>1, <2>1
    <3>2. a * a \in Nat /\ b * b \in Nat OBVIOUS
    <3> QED BY <1>2, <3>1, <3>2
  <2>2. CASE b = a
    <3>1. a * a \in Nat /\ a * a = b * b BY <2>2
    <3> QED BY <1>2, <3>1
  <2> QED BY <2>1, <2>2
<1>3. ASSUME NEW a \in Nat, NEW b \in Nat, a * a <= b * b PROVE a <= b
  <2>1. CASE b < a
    <3>1. b * b < a * a BY <1>1, <2>1
    <3>2. a * a \in Nat /\ b * b \in Nat OBVIOUS
    <3> QED BY <1>3, <3>1, <3>2
  <2> QED BY <2>1
<1> QED BY <1>1, <1>2, <1>3

\* The root that Root finds.
LEMMA RootBetween ==
  ASSUME NEW A \in Nat, Fr <= A, A <= 4 * Fr - 2, NEW z \in Locals, NEW X, X = (4 * Fr) * A,
         Found(z, X, 1), NEW Q, Q = RootOf(z)
  PROVE  /\ X \in Nat /\ Q \in Nat /\ Rest(z) \in Nat /\ 2 * Fr <= Q /\ Q <= 4 * Fr - 2
         /\ Q * Q <= X /\ X < (Q + 1) * (Q + 1)
         /\ Rest(z) = 0 <=> Q * Q = X
         /\ Q * Q = X => Q % 2 = 0
<1>1. Word \in Nat /\ Word > 0 /\ Fr \in Nat /\ Fr >= 4
  <2>1. Hi \in Nat /\ Hi >= 4 /\ Fr \in Nat /\ Fr = Hi * Word /\ Word \in Nat /\ Word > 0
    BY Format
  <2>2. \A a \in Nat, b \in Nat : a >= 4 /\ b > 0 => a * b >= 4
    OBVIOUS
  <2> QED BY <2>1, <2>2
<1>2. Rest(z) \in Nat /\ Q \in Nat
  BY <1>1 DEF Locals, Rest, RootOf
<1>3. X \in Nat /\ Fr * A \in Nat /\ X = 4 * (Fr * A)
  BY <1>1
<1>4. Rest(z) = 2 * (X - Q * Q) /\ Rest(z) < 4 * Q + 2
  <2>1. Rest(z) * 1 = 2 * (X - Q * Q) /\ Rest(z) < 4 * Q + 2 * 1
    BY DEF Found
  <2> QED BY <2>1, <1>2
<1>5. Q * Q \in Nat /\ (Q + 1) * (Q + 1) = Q * Q + 2 * Q + 1
  BY <1>2
<1>6. Q * Q <= X /\ X < (Q + 1) * (Q + 1) /\ (Rest(z) = 0 <=> Q * Q = X)
  BY <1>2, <1>3, <1>4, <1>5
<1>7. 2 * Fr <= Q
  <2>1. (2 * Fr) * (2 * Fr) = 4 * (Fr * Fr) /\ Fr * Fr <= Fr * A /\ Fr * Fr \in Nat
    <3>1. \A a \in Nat, b \in Nat : a <= b => a * a <= a * b
      OBVIOUS
    <3>2. \A a \in Nat : (2 * a) * (2 * a) = 4 * (a * a) /\ a * a \in Nat
      OBVIOUS
    <3> QED BY <1>1, <3>1, <3>2
  <2>2. (2 * Fr) * (2 * Fr) <= X BY <2>1, <1>3
  <2>3. PICK g \in Nat, h \in Nat : g = 2 * Fr /\ h = Q + 1
    BY <1>1, <1>2
  <2>4. g * g <= X /\ X < h * h /\ g * g \in Nat /\ h * h \in Nat
    BY <2>2, <2>3, <1>6
  <2>5. g * g < h * h BY ONLY <2>4, <1>3
  <2>6. g < h BY <2>5, Squares
  <2> QED BY <2>3, <2>6, <1>2
<1>8. Q <= 4 * Fr - 2
  <2>1. PICK g \in Nat : g = 4 * Fr - 1 BY <1>1
  <2>2. X < g * g
    <3>1. (4 * Fr) * A <= (4 * Fr) * (g - 1)
      <4>1. \A a \in Nat, b \in Nat, c \in Nat : b <= c => a * b <= a * c
        OBVIOUS
      <4>2. 4 * Fr \in Nat /\ g - 1 \in Nat /\ A <= g - 1
        BY <1>1, <2>1
      <4> QED BY <4>1, <4>2
    <3>2. (g + 1) * (g - 1) = g * g - 1 /\ g * g \in Nat
      OBVIOUS
    <3>3. 4 * Fr = g + 1 BY <1>1, <2>1
    <3> QED BY <3>1, <3>2, <3>3, <1>3
  <2>3. Q * Q < g * g BY <2>2, <1>3, <1>5, <1>6
  <2>4. Q < g BY <2>3, <1>2, Squares
  <2> QED BY <2>1, <2>4, <1>1, <1>2
<1>9. ASSUME Q * Q = X PROVE Q % 2 = 0
  <2>1. Q = 2 * (Q \div 2) + (Q % 2) /\ Q \div 2 \in Nat /\ Q % 2 \in Nat /\ Q % 2 < 2
    BY <1>2, DivMod
  <2>2. PICK p \in Nat : p = Q \div 2 BY <2>1
  <2>3. CASE Q = 2 * p + 1
    <3>1. Q * Q = 4 * (p * p + p) + 1 /\ p * p + p \in Nat
      BY <2>3
    <3>2. PICK g \in Nat, h \in Nat : g = p * p + p /\ h = Fr * A
      BY <3>1, <1>3
    <3>3. 4 * g + 1 = 4 * h
      BY <3>1, <3>2, <1>3, <1>9
    <3>4. \A a \in Nat, b \in Nat : 4 * a + 1 # 4 * b
      OBVIOUS
    <3> QED BY <3>3, <3>4
  <2>4. PICK w \in 0 .. 1 : w = Q % 2 BY <2>1
  <2>5. w = 0 \/ w = 1 OBVIOUS
  <2>6. w = 1 => Q = 2 * p + 1 BY <2>1, <2>2, <2>4
  <2> QED BY <2>3, <2>4, <2>5, <2>6, Zenon
<1> QED BY <1>2, <1>3, <1>6, <1>7, <1>8, <1>9

\* The bit behind the last is rounded away.
LEMMA NearestIs ==
  ASSUME NEW z \in Locals, NEW y, y = Nearest(z)
  PROVE  /\ y \in Locals
         /\ Rest(z) = 0 => RootOf(y) = RootOf(z)
         /\ Rest(z) # 0 => RootOf(y) = RootOf(z) + (RootOf(z) % 2)
<1>1. SignBit \in Nat /\ SignBit > 0 /\ Word \in Nat /\ Word > 0 /\ Word = 2 * SignBit
  BY Format
<1>2. z.ix0 \in Nat /\ z.ix1 \in 0 .. Word - 1 /\ z.q \in Nat /\ z.q1 \in 0 .. Word - 1
  BY DEF Locals
<1>3. Rest(z) = 0 <=> z.ix0 = 0 /\ z.ix1 = 0
  <2>1. z.ix0 > 0 => z.ix0 * Word > 0
    BY <1>1, <1>2, Products
  <2>2. z.ix0 * Word \in Nat /\ (z.ix0 = 0 => z.ix0 * Word = 0)
    BY <1>1, <1>2
  <2> QED BY <2>1, <2>2, <1>2 DEF Rest
<1>4. CASE Rest(z) = 0
  <2>1. y = z BY <1>3, <1>4 DEF Nearest
  <2> QED BY <1>4, <2>1
<1>5. CASE Rest(z) # 0
  <2>1. y = IF z.q1 = Word - 1 THEN [z EXCEPT !.q1 = 0, !.q = @ + 1] ELSE [z EXCEPT !.q1 = @ + (@ % 2)]
    BY <1>3, <1>5 DEF Nearest
  <2>2. RootOf(z) % 2 = z.q1 % 2 /\ z.q1 % 2 \in 0 .. 1
    <3>1. RootOf(z) = z.q1 + 2 * (z.q * SignBit)
      <4>1. z.q * Word = 2 * (z.q * SignBit) /\ z.q * SignBit \in Nat
        BY <1>1, <1>2
      <4> QED BY <4>1, <1>2 DEF RootOf
    <3>2. PICK g \in Int : g = z.q * SignBit
      BY <1>1, <1>2
    <3>3. z.q1 \in Int BY <1>2
    <3>4. (z.q1 + 2 * g) % 2 = z.q1 % 2
      BY <3>3, ModSum
    <3>5. z.q1 % 2 \in Nat /\ z.q1 % 2 < 2
      BY <3>3, DivMod
    <3> QED BY <3>1, <3>2, <3>4, <3>5
  <2>3. CASE z.q1 = Word - 1
    <3>1. z.q1 % 2 = 1
      <4>1. z.q1 = 2 * (SignBit - 1) + 1
        BY <1>1, <2>3
      <4> QED BY <4>1, <1>1, DivModUnique
    <3>2. PICK h \in Nat : h = z.q + 1 BY <1>2
    <3>3. y = [z EXCEPT !.q1 = 0, !.q = h]
      BY <2>1, <2>3, <3>2
    <3>4. 0 \in 0 .. Word - 1 BY <1>1
    <3>5. y \in Locals /\ y.q = h /\ y.q1 = 0
      BY ONLY z \in Locals, <3>3, <3>4, h \in Nat DEF Locals
    <3>6. h * Word = z.q * Word + Word /\ z.q * Word \in Nat
      <4>1. \A a \in Nat, b \in Nat : (a + 1) * b = a * b + b /\ a * b \in Nat
        OBVIOUS
      <4> QED BY <4>1, <3>2, <1>1, <1>2
    <3>7. RootOf(y) = RootOf(z) + 1
      BY <3>5, <3>6, <2>3, <1>1 DEF RootOf
    <3> QED BY <3>1, <3>5, <3>7, <2>2, <1>5
  <2>4. CASE z.q1 # Word - 1
    <3>1. PICK h \in 0 .. Word - 1 : h = z.q1 + (z.q1 % 2)
      BY <2>2, <2>4, <1>1, <1>2
    <3>2. y = [z EXCEPT !.q1 = h]
      BY <2>1, <2>4, <3>1
    <3>3. y \in Locals /\ y.q = z.q /\ y.q1 = h
      BY ONLY z \in Locals, <3>2, h \in 0 .. Word - 1 DEF Locals
    <3>4. z.q * Word \in Nat BY <1>1, <1>2
    <3>5. RootOf(y) = RootOf(z) + (z.q1 % 2)
      BY <3>1, <3>3, <3>4, <2>2, <1>2 DEF RootOf
    <3> QED BY <3>3, <3>5, <2>2, <1>5
  <2> QED BY <2>3, <2>4
<1> QED BY <1>4, <1>5

\* Twice p is nearer to the root of X than half a unit of p.
LEMMA RootRounded ==
  ASSUME NEW A \in Nat, Fr <= A, A <= 4 * Fr - 2, NEW z \in Locals, NEW X, X = (4 * Fr) * A,
         Found(z, X, 1), NEW y, y = Nearest(z)
  PROVE  /\ y \in Locals
         /\ \E p \in Nat : /\ RootOf(y) = 2 * p /\ Fr <= p /\ p < 2 * Fr
                           /\ (2 * p - 1) * (2 * p - 1) < X /\ X < (2 * p + 1) * (2 * p + 1)
<1>1. PICK Q : Q = RootOf(z) OBVIOUS
<1>2. /\ X \in Nat /\ Q \in Nat /\ Rest(z) \in Nat /\ 2 * Fr <= Q /\ Q <= 4 * Fr - 2
      /\ Q * Q <= X /\ X < (Q + 1) * (Q + 1)
      /\ Rest(z) = 0 <=> Q * Q = X
      /\ Q * Q = X => Q % 2 = 0
  BY <1>1, RootBetween
<1>3. y \in Locals /\ (Rest(z) = 0 => RootOf(y) = Q) /\ (Rest(z) # 0 => RootOf(y) = Q + (Q % 2))
  BY <1>1, NearestIs
<1>4. Q = 2 * (Q \div 2) + (Q % 2) /\ Q \div 2 \in Nat /\ Q % 2 \in Nat /\ Q % 2 < 2
  BY <1>2, DivMod
<1>5. PICK g \in Nat : g = Q \div 2 BY <1>4
<1>6. Fr \in Nat /\ Fr >= 1
  <2>1. Hi \in Nat /\ Hi > 0 /\ Fr \in Nat /\ Fr = Hi * Word /\ Word \in Nat /\ Word > 0
    BY Format
  <2> QED BY <2>1, Products
<1>7. CASE Q % 2 = 0
  <2>1. RootOf(y) = 2 * g /\ Q = 2 * g
    BY <1>2, <1>3, <1>4, <1>5, <1>7
  <2>2. Fr <= g /\ g < 2 * Fr BY <2>1, <1>2, <1>6
  <2>3. (2 * g - 1) * (2 * g - 1) < X
    <3>1. PICK h \in Nat : h = 2 * g - 1
      BY <2>2, <1>6
    <3>2. h * h < Q * Q /\ h * h \in Nat /\ Q * Q \in Nat
      BY <3>1, <2>1, <1>2, Squares
    <3> QED BY <3>1, <3>2, <1>2
  <2>4. X < (2 * g + 1) * (2 * g + 1) BY <2>1, <1>2
  <2>5. /\ RootOf(y) = 2 * g /\ Fr <= g /\ g < 2 * Fr
        /\ (2 * g - 1) * (2 * g - 1) < X /\ X < (2 * g + 1) * (2 * g + 1)
    BY <2>1, <2>2, <2>3, <2>4
  <2> QED BY <1>3, <2>5, Zenon
<1>8. CASE Q % 2 = 1
  <2>0. Q * Q # X BY <1>2, <1>8
  <2>1. PICK p \in Nat : p = g + 1 OBVIOUS
  <2>2. RootOf(y) = 2 * p /\ Q = 2 * p - 1
    BY <2>0, <2>1, <1>2, <1>3, <1>4, <1>5, <1>8
  <2>3. Fr <= p /\ p < 2 * Fr BY <2>2, <1>2, <1>6
  <2>4. (2 * p - 1) * (2 * p - 1) < X
    <3>1. Q * Q \in Nat BY <1>2
    <3>2. Q * Q < X BY <3>1, <2>0, <1>2
    <3> QED BY <2>2, <3>2
  <2>5. X < (2 * p + 1) * (2 * p + 1)
    <3>1. PICK h \in Nat, k \in Nat : h = 2 * p + 1 /\ k = Q + 1 /\ k < h
      BY <2>2, <1>2
    <3>2. k * k < h * h /\ k * k \in Nat /\ h * h \in Nat
      BY <3>1, Squares
    <3>3. X < k * k BY <3>1, <1>2
    <3>4. X < h * h BY <3>2, <3>3, <1>2
    <3> QED BY <3>1, <3>4
  <2>6. /\ RootOf(y) = 2 * p /\ Fr <= p /\ p < 2 * Fr
        /\ (2 * p - 1) * (2 * p - 1) < X /\ X < (2 * p + 1) * (2 * p + 1)
    BY <2>2, <2>3, <2>4, <2>5
  <2> QED BY <1>3, <2>6, Zenon
<1>9. PICK w \in 0 .. 1 : w = Q % 2 BY <1>4
<1>10. w = 0 \/ w = 1 OBVIOUS
<1> QED BY <1>7, <1>8, <1>9, <1>10, Zenon

\* The words of half the root.
LEMMA RootWords ==
  ASSUME NEW n \in BOOLEAN, ~n, NEW y \in Locals, NEW p \in Nat, RootOf(y) = 2 * p, Fr <= p, p < 2 * Fr,
         NEW h \in Int, Bias + h \in Fields,
         NEW z, z = Words((y.q \div 2) + (Bias - 1) * Hi + h * Hi,
                          (y.q1 \div 2) + (IF y.q % 2 = 1 THEN SignBit ELSE 0))
  PROVE  z = Of(n, Bias + h, p - Fr) /\ p - Fr \in Fractions
<1>1. SignBit \in Nat /\ SignBit > 0 /\ Word \in Nat /\ Word > 0 /\ Word = 2 * SignBit
      /\ Hi \in Nat /\ Fr \in Nat /\ Fr = Hi * Word /\ Bias \in Nat /\ SignBit = (2 * Bias + 2) * Hi
  BY Format
<1>2. y.q \in Nat /\ y.q1 \in 0 .. Word - 1
  BY DEF Locals
<1>3. y.q = 2 * (y.q \div 2) + (y.q % 2) /\ y.q \div 2 \in Nat /\ y.q % 2 \in Nat /\ y.q % 2 < 2
  BY <1>2, DivMod
<1>4. y.q1 = 2 * (y.q1 \div 2) + (y.q1 % 2) /\ y.q1 \div 2 \in Nat /\ y.q1 % 2 \in Nat /\ y.q1 % 2 < 2
  BY <1>2, DivMod
<1>5. PICK u \in Nat, v \in 0 .. 1 : u = y.q \div 2 /\ v = y.q % 2
  BY <1>3
<1>6. PICK e \in Nat, w \in 0 .. 1 : e = y.q1 \div 2 /\ w = y.q1 % 2
  BY <1>4
<1>7. y.q = 2 * u + v /\ y.q1 = 2 * e + w
  BY <1>3, <1>4, <1>5, <1>6
<1>8. PICK l \in Nat : l = e + (IF v = 1 THEN SignBit ELSE 0)
  BY <1>1
<1>9. l = e + v * SignBit
  <2>1. v = 0 \/ v = 1 OBVIOUS
  <2> QED BY <1>8, <1>1, <2>1
<1>10. y.q * Word = 2 * (u * Word) + 2 * (v * SignBit) /\ u * Word \in Nat /\ v * SignBit \in Nat
  <2>1. \A a \in Nat, b \in Nat, c \in Nat : (2 * a + b) * (2 * c) = 2 * (a * (2 * c)) + 2 * (b * c)
    OBVIOUS
  <2> QED BY <2>1, <1>1, <1>7
<1>11. w = 0 /\ p = u * Word + l
  <2>1. PICK a \in Nat, b \in Nat : a = u * Word /\ b = v * SignBit
    BY <1>10
  <2>2. 2 * p = 2 * a + 2 * b + 2 * e + w
    BY <2>1, <1>10, <1>7 DEF RootOf
  <2>3. w = 0
    BY ONLY <2>2, p \in Nat, a \in Nat, b \in Nat, e \in Nat, w \in 0 .. 1
  <2>4. p = a + b + e
    BY ONLY <2>2, <2>3, p \in Nat, a \in Nat, b \in Nat, e \in Nat
  <2> QED BY <2>1, <2>3, <2>4, <1>9
<1>12. l \in 0 .. Word - 1
  <2>1. e < SignBit BY <1>1, <1>2, <1>7
  <2> QED BY <2>1, <1>1, <1>8
<1>13. Hi <= u /\ u < 2 * Hi
  <2>1. p \div Word = u
    <3>1. p = Word * u + l BY <1>11, <1>1
    <3> QED BY <3>1, <1>12, <1>1, DivModUnique
  <2>2. Word * Hi <= p /\ p < Word * (2 * Hi)
    BY <1>1
  <2>3. 2 * Hi \in Int /\ Hi \in Int /\ p \in Int
    BY <1>1
  <2> QED BY <2>1, <2>2, <2>3, <1>1, DivLess
<1>14. PICK k \in Nat : k = Bias + h /\ k <= 2 * Bias + 1
  BY <1>1 DEF Fields
<1>15. PICK g \in Nat : g = u - Hi /\ g < Hi
  BY <1>13, <1>1
<1>16. u + (Bias - 1) * Hi + h * Hi = k * Hi + g /\ k * Hi \in Nat
  <2>1. h = k - Bias /\ u = g + Hi
    BY <1>14, <1>15, <1>1
  <2>2. (Bias - 1) * Hi = Bias * Hi - Hi /\ (k - Bias) * Hi = k * Hi - Bias * Hi
        /\ Bias * Hi \in Nat /\ k * Hi \in Nat
    BY <1>1
  <2> QED BY <2>1, <2>2, <1>1
<1>17. k * Hi + g < (2 * Bias + 2) * Hi
  <2>1. 2 * Bias + 2 \in Nat /\ k < 2 * Bias + 2
    BY <1>1, <1>14
  <2> QED BY <2>1, <1>1, <1>15, Products
<1>18. PICK i \in 0 .. SignBit - 1 : i = k * Hi + g
  BY <1>1, <1>16, <1>17
<1>19. z = Words(i, l)
  BY <1>5, <1>6, <1>8, <1>16, <1>18
<1>20. z = Double(n, i * Word + l)
  <2>1. Words((IF n THEN SignBit ELSE 0) + i, l) = Double(n, i * Word + l)
    BY <1>12, WordsAre
  <2>2. (IF n THEN SignBit ELSE 0) + i = i BY <1>1
  <2> QED BY <1>19, <2>1, <2>2
<1>21. i * Word + l = k * Fr + (p - Fr) /\ p - Fr \in Fractions
  <2>1. \A a \in Nat, b \in Nat, c \in Nat, e1 \in Nat : (a * b + c) * e1 = a * (b * e1) + c * e1
    OBVIOUS
  <2>2. i * Word = k * Fr + g * Word
    BY <2>1, <1>1, <1>18
  <2>3. g * Word = u * Word - Fr
    <3>1. g = u - Hi BY <1>15
    <3>2. \A a \in Nat, b \in Nat, c \in Nat : (a - b) * c = a * c - b * c
      OBVIOUS
    <3> QED BY <3>1, <3>2, <1>1
  <2>4. k * Fr \in Nat /\ u * Word \in Nat /\ i * Word \in Nat /\ g * Word \in Nat
    BY <1>1, <1>10
  <2>5. i * Word + l = k * Fr + (p - Fr)
    BY <2>2, <2>3, <2>4, <1>1, <1>11
  <2>6. p - Fr \in Fractions BY <1>1 DEF Fractions
  <2> QED BY <2>5, <2>6
<1> QED BY <1>14, <1>20, <1>21 DEF Of

\* The words with the leading bit, of a positive number.
LEMMA NormalizedIs ==
  ASSUME NEW k \in Fields, NEW f \in Fractions, k < 2 * Bias + 1, ~(k = 0 /\ f = 0),
         NEW b \in BOOLEAN, ~b, NEW d, d = Of(b, k, f), NEW z, z = Normalized(d.hi, d.lo)
  PROVE  /\ z.m \in Int /\ Least0 <= z.m /\ z.m <= Bias /\ z.ix0 \in Nat /\ z.ix1 \in 0 .. Word - 1
         /\ Fr <= z.ix0 * Word + z.ix1 /\ z.ix0 * Word + z.ix1 < 2 * Fr
         /\ \E l \in Nat : /\ z.m = Scale(d) + FracBits - l
                           /\ z.ix0 * Word + z.ix1 = Mantissa(d) * Pow(l)
<1>1. SignBit \in Nat /\ SignBit > 0 /\ Word \in Nat /\ Word > 0 /\ Word = 2 * SignBit
      /\ Hi \in Nat /\ Hi > 0 /\ Fr \in Nat /\ Fr = Hi * Word /\ Bias \in Nat /\ FracBits \in Nat
      /\ Bias > FracBits
  BY Format
<1>2. k \in Nat /\ k <= 2 * Bias /\ f \in Nat /\ f < Fr
  BY <1>1 DEF Fields, Fractions
<1>3. PICK g \in 0 .. Hi - 1, l \in 0 .. Word - 1 : g = f \div Word /\ l = f % Word /\ f = g * Word + l
  BY FieldsAre
<1>4. d.hi = k * Hi + g /\ d.lo = l
  <2>1. d.hi \in 0 .. Word - 1 /\ d.hi % SignBit = k * Hi + g /\ d.lo = l
    <3>1. d.hi \in 0 .. Word - 1 /\ d.hi % SignBit = k * Hi + (f \div Word) /\ d.lo = f % Word
      BY ValuesOf
    <3> QED BY <3>1, <1>3
  <2>2. ~Negative(d.hi) BY SignOf
  <2> QED BY <2>1, <2>2, SignIs
<1>5. Mantissa(d) = (IF k = 0 THEN f ELSE f + Fr) /\ Scale(d) = (IF k = 0 THEN 1 ELSE k) - Bias - FracBits
  BY ValuesOf
<1>6. d.hi \div Hi = k /\ d.hi % Hi = g
  <2>1. g \in Nat /\ g < Hi /\ k \in Nat /\ Hi \in Nat
    BY <1>1, <1>2
  <2>2. (k * Hi + g) \div Hi = k /\ (k * Hi + g) % Hi = g
    BY ONLY <2>1, WordPair
  <2> QED BY <2>2, <1>4
<1>7. Least0 = 1 - Bias - FracBits BY DEF Least0
<1>8. CASE k > 0
  <2>1. z = [m |-> k - Bias, ix0 |-> g + Hi, ix1 |-> l]
    <3>1. d.hi \div 2 ^ HighBits = k /\ k # 0 /\ d.hi % 2 ^ HighBits = g /\ 2 ^ HighBits = Hi
      BY <1>2, <1>6, <1>8, PowersAre
    <3> QED BY <3>1, <1>4 DEF Normalized
  <2>2. (g + Hi) * Word + l = f + Fr
    <3>1. (g + Hi) * Word = g * Word + Hi * Word
      BY <1>1
    <3>2. g * Word \in Nat BY <1>1
    <3> QED BY <3>1, <3>2, <1>1, <1>3
  <2>3. Pow(0) = 1 /\ 0 \in Nat
    BY PowType, 0 \in Nat
  <2>4. (f + Fr) * 1 = f + Fr /\ k - Bias = k - Bias - FracBits + FracBits - 0
    BY <1>1, <1>2
  <2>5. \E e \in Nat : /\ z.m = Scale(d) + FracBits - e
                       /\ z.ix0 * Word + z.ix1 = Mantissa(d) * Pow(e)
    BY <2>1, <2>2, <2>3, <2>4, <1>5, <1>8
  <2> QED BY <2>1, <2>2, <2>5, <1>1, <1>2, <1>7, <1>8
<1>9. CASE k = 0
  <2>1. f > 0 /\ d.hi = g BY <1>1, <1>2, <1>4, <1>9
  <2>2. PICK t \in 0 .. FracBits : Pow(t) <= f /\ f < Pow(t + 1)
    BY <2>1, <1>1, <1>2, TopOf
  <2>3. PICK e \in 0 .. FracBits : e = FracBits - t
    BY <1>1
  <2>4. Fr <= f * Pow(e) /\ f * Pow(e) < 2 * Fr
    <3>1. e \in Nat /\ t \in Nat /\ t + e = FracBits
      BY <2>3, <1>1
    <3>2. Pow(FracBits + 1) = 2 * Fr
      BY <1>1, PowType DEF Fr
    <3> QED BY <2>2, <3>1, <3>2, <1>2, PowTops DEF Fr
  <2> DEFINE P(i) == Fr <= f * Pow(i) /\ f * Pow(i) < 2 * Fr
  <2>5. Leading(d.hi, d.lo) = CHOOSE i \in 0 .. FracBits : P(i)
    <3>1. d.hi * Word + d.lo = f BY <1>3, <1>4, <2>1
    <3> QED BY <3>1 DEF Leading, Pow, Fr
  <2>6. PICK i : i = CHOOSE j \in 0 .. FracBits : P(j)
    OBVIOUS
  <2>7. i \in 0 .. FracBits /\ P(i) BY <2>4, <2>6
  <2>8. PICK N : N = f * Pow(i) OBVIOUS
  <2>9. N \in Nat /\ Fr <= N /\ N < 2 * Fr
    BY <2>7, <2>8, <1>1, <1>2, PowType
  <2>10. N = Word * (N \div Word) + (N % Word) /\ N \div Word \in Nat /\ N % Word \in 0 .. Word - 1
    BY <2>9, <1>1, DivMod
  <2>11. z = [m |-> 1 - i - Bias, ix0 |-> N \div Word, ix1 |-> N % Word]
    <3>1. d.hi * Word + d.lo = f BY <1>3, <1>4, <2>1
    <3>2. d.hi \div 2 ^ HighBits = 0
      BY <1>6, <1>9, PowersAre
    <3> QED BY <2>5, <2>6, <2>8, <3>1, <3>2 DEF Normalized, Pow
  <2>12. (N \div Word) * Word + (N % Word) = N
    <3>1. PICK a \in Nat, c \in Nat : a = N \div Word /\ c = N % Word
      BY <2>10
    <3> QED BY <3>1, <2>10, <1>1
  <2>13. 1 - i - Bias = Scale(d) + FracBits - i
    BY <1>1, <1>5, <1>9, <2>7
  <2>14. \E e1 \in Nat : /\ z.m = Scale(d) + FracBits - e1
                         /\ z.ix0 * Word + z.ix1 = Mantissa(d) * Pow(e1)
    <3>1. i \in Nat BY <2>7, <1>1
    <3>2. Mantissa(d) = f BY <1>5, <1>9
    <3> QED BY <2>8, <2>11, <2>12, <2>13, <3>1, <3>2
  <2>15. z.m \in Int /\ Least0 <= z.m /\ z.m <= Bias
    <3>1. 1 - i - Bias \in Int /\ Least0 <= 1 - i - Bias /\ 1 - i - Bias <= Bias
      <4>1. i \in 0 .. FracBits BY <2>7
      <4> QED BY ONLY <4>1, <1>1, <1>7
    <3> QED BY <2>11, <3>1
  <2> QED BY <2>9, <2>10, <2>11, <2>12, <2>14, <2>15
<1> QED BY <1>2, <1>8, <1>9

\* The square root of a positive number.
LEMMA SqrtPositive ==
  ASSUME NEW k \in Fields, NEW f \in Fractions, k < 2 * Bias + 1, ~(k = 0 /\ f = 0),
         NEW b \in BOOLEAN, ~b, NEW d, d = Of(b, k, f), NEW root, root = sqrt(d), NEW e, e = Scale(d) - 2 * Scale(root) + 2
  PROVE  /\ root \in AllDoubles /\ Finite(root) /\ ~Negative(root.hi)
         /\ e \in Nat
         /\ (2 * Mantissa(root) - 1) * (2 * Mantissa(root) - 1) < Mantissa(d) * Pow(e)
         /\ Mantissa(d) * Pow(e) < (2 * Mantissa(root) + 1) * (2 * Mantissa(root) + 1)
<1>1. Word \in Nat /\ Word > 0 /\ Hi \in Nat /\ Fr \in Nat /\ Fr > 0 /\ Bias \in Nat /\ FracBits \in Nat
      /\ Bias > FracBits /\ FracBits >= 2
  BY Format, Products
<1>2. PICK n : n = Normalized(d.hi, d.lo) OBVIOUS
<1>3. /\ n.m \in Int /\ Least0 <= n.m /\ n.m <= Bias /\ n.ix0 \in Nat /\ n.ix1 \in 0 .. Word - 1
      /\ Fr <= n.ix0 * Word + n.ix1 /\ n.ix0 * Word + n.ix1 < 2 * Fr
      /\ \E l \in Nat : /\ n.m = Scale(d) + FracBits - l
                        /\ n.ix0 * Word + n.ix1 = Mantissa(d) * Pow(l)
  BY <1>2, NormalizedIs
<1>4. PICK l \in Nat : n.m = Scale(d) + FracBits - l /\ n.ix0 * Word + n.ix1 = Mantissa(d) * Pow(l)
  BY <1>3
<1>5. PICK N \in Nat : N = n.ix0 * Word + n.ix1 /\ Fr <= N /\ N < 2 * Fr
  BY <1>1, <1>3
<1>6. PICK start : start = [ix0 |-> n.ix0, ix1 |-> n.ix1, s0 |-> 0, s1 |-> 0, q |-> 0, q1 |-> 0]
  OBVIOUS
<1>7. start \in Locals /\ start.s0 = 0 /\ start.s1 = 0 /\ start.q = 0 /\ start.q1 = 0 /\ Rest(start) = N
  <2>1. 0 \in 0 .. Word - 1 BY <1>1
  <2> QED BY <2>1, <1>3, <1>5, <1>6 DEF Locals, Rest
<1>8. PICK a : a = IF n.m % 2 = 1 THEN ShiftLeft(start) ELSE start
  OBVIOUS
<1>9. n.m = 2 * (n.m \div 2) + (n.m % 2) /\ n.m \div 2 \in Int /\ n.m % 2 \in Nat /\ n.m % 2 < 2
  BY <1>3, DivMod
<1>10. PICK h \in Int, o \in 0 .. 1 : h = n.m \div 2 /\ o = n.m % 2
  BY <1>9
<1>11. n.m = 2 * h + o BY <1>9, <1>10
<1>12. PICK A \in Nat : A = N * Pow(o) BY PowType
<1>13. a \in Locals /\ a.s0 = 0 /\ a.s1 = 0 /\ a.q = 0 /\ a.q1 = 0 /\ Rest(a) = A /\ Fr <= A /\ A <= 4 * Fr - 2
  <2>1. Pow(0) = 1 /\ Pow(1) = 2
    BY PowType, 0 \in Nat
  <2>2. CASE o = 1
    <3>1. a = ShiftLeft(start) /\ A = 2 * N
      BY <1>8, <1>10, <1>12, <2>1, <2>2
    <3> QED BY <3>1, <1>1, <1>5, <1>7, ShiftLeftIs
  <2>3. CASE o = 0
    <3>1. a = start /\ A = N
      BY <1>8, <1>10, <1>12, <2>1, <2>3
    <3> QED BY <3>1, <1>1, <1>5, <1>7
  <2>4. o = 0 \/ o = 1 OBVIOUS
  <2> QED BY <2>2, <2>3, <2>4
<1>14. PICK z : z = Root(a) OBVIOUS
<1>15. PICK X : X = (4 * Fr) * A OBVIOUS
<1>16. z \in Locals /\ Found(z, X, 1)
  <2>1. Rest(a) < 4 * Fr BY <1>13, <1>1
  <2> QED BY <2>1, <1>13, <1>14, <1>15, RootFound
<1>17. PICK y : y = Nearest(z) OBVIOUS
<1>18. /\ y \in Locals
       /\ \E p \in Nat : /\ RootOf(y) = 2 * p /\ Fr <= p /\ p < 2 * Fr
                         /\ (2 * p - 1) * (2 * p - 1) < X /\ X < (2 * p + 1) * (2 * p + 1)
  BY <1>13, <1>15, <1>16, <1>17, RootRounded
<1>19. PICK p \in Nat : /\ RootOf(y) = 2 * p /\ Fr <= p /\ p < 2 * Fr
                        /\ (2 * p - 1) * (2 * p - 1) < X /\ X < (2 * p + 1) * (2 * p + 1)
  BY <1>18
<1>20. root = Words((y.q \div 2) + (Bias - 1) * Hi + h * Hi,
                    (y.q1 \div 2) + (IF y.q % 2 = 1 THEN SignBit ELSE 0))
  <2>1. HI(d) = d.hi /\ LO(d) = d.lo BY DEF HI, LO
  <2>2. Exponent(d.hi) # Bias + 1
    <3>1. Exponent(d.hi) = k - Bias BY ValuesOf
    <3>2. k \in Nat BY <1>1 DEF Fields
    <3> QED BY <3>1, <3>2, <1>1
  <2>3. ~IsZero(d.hi, d.lo) /\ ~Negative(d.hi)
    <3>1. ~Negative(d.hi) BY ValuesOf
    <3> QED BY <3>1, SignOf
  <2>4. y = Nearest(Root(IF n.m % 2 = 1 THEN ShiftLeft(start) ELSE start))
    BY <1>8, <1>14, <1>17
  <2>5. sqrt(d) = Words((y.q \div 2) + (Bias - 1) * 2 ^ HighBits + (n.m \div 2) * 2 ^ HighBits,
                        (y.q1 \div 2) + (IF y.q % 2 = 1 THEN SignBit ELSE 0))
    BY <2>1, <2>2, <2>3, <2>4, <1>2, <1>6 DEF sqrt
  <2> QED BY <2>5, <1>10, PowersAre
<1>21. Bias + h \in Fields /\ Bias + h > 0 /\ Bias + h < 2 * Bias + 1
  <2>1. n.m >= 1 - Bias - FracBits
    BY <1>3 DEF Least0
  <2>2. 2 * h + o >= 1 - Bias - FracBits /\ 2 * h + o <= Bias
    BY <2>1, <1>3, <1>11
  <2> QED BY <2>2, <1>1 DEF Fields
<1>22. PICK j \in Fields : j = Bias + h BY <1>21
<1>23. root = Of(b, j, p - Fr) /\ p - Fr \in Fractions
  BY <1>18, <1>19, <1>20, <1>21, <1>22, RootWords
<1>24. j > 0 /\ j < 2 * Bias + 1 BY <1>21, <1>22
<1>25. root \in AllDoubles /\ Finite(root) /\ ~Negative(root.hi) /\ Mantissa(root) = p
       /\ Scale(root) = j - Bias - FracBits
  <2>1. PICK g \in Fractions : g = p - Fr BY <1>23
  <2>2. root = Of(b, j, g) BY <1>23, <2>1
  <2>3. root \in AllDoubles /\ (Negative(root.hi) <=> b) /\ (Finite(root) <=> j < 2 * Bias + 1)
        /\ Mantissa(root) = (IF j = 0 THEN g ELSE g + Fr)
        /\ Scale(root) = (IF j = 0 THEN 1 ELSE j) - Bias - FracBits
    BY <2>2, ValuesOf
  <2>4. g + Fr = p BY <2>1, <1>1
  <2> QED BY <2>3, <2>4, <1>24
<1>26. e = l + o + (FracBits + 2)
  <2>1. Scale(d) \in Int
    <3>1. k \in Int /\ Scale(d) = (IF k = 0 THEN 1 ELSE k) - Bias - FracBits
      BY <1>1, ValuesOf DEF Fields
    <3> QED BY <3>1, <1>1
  <2> QED BY <2>1, <1>1, <1>4, <1>11, <1>22, <1>25
<1>27. X = Mantissa(d) * Pow(e)
  <2>1. Mantissa(d) \in Nat
    <3>1. f \in Nat /\ Mantissa(d) = (IF k = 0 THEN f ELSE f + Fr)
      BY <1>1, ValuesOf DEF Fractions
    <3> QED BY <3>1, <1>1
  <2>2. PICK M \in Nat, u \in Nat, v \in Nat, w \in Nat :
          M = Mantissa(d) /\ u = Pow(l) /\ v = Pow(o) /\ w = Pow(FracBits + 2)
    <3>1. Pow(l) \in Nat /\ Pow(o) \in Nat /\ FracBits + 2 \in Nat
      BY <1>1, PowType
    <3>2. Pow(FracBits + 2) \in Nat BY <3>1, PowType
    <3> QED BY <2>1, <3>1, <3>2
  <2>3. w = 4 * Fr
    <3>1. Pow(FracBits + 1) = 2 * Fr /\ FracBits + 1 \in Nat
      BY <1>1, PowType DEF Fr
    <3>2. Pow((FracBits + 1) + 1) = 2 * Pow(FracBits + 1)
      BY <3>1, PowType
    <3> QED BY <2>2, <3>1, <3>2, <1>1
  <2>4. Pow(e) = (u * v) * w
    <3>1. PICK i \in Nat, m \in Nat : i = l + o /\ m = FracBits + 2
      BY <1>1
    <3>2. Pow(i + m) = Pow(i) * Pow(m) BY PowSum
    <3>3. Pow(l + o) = Pow(l) * Pow(o) BY PowSum
    <3>4. e = i + m BY <3>1, <1>26
    <3> QED BY <3>1, <3>2, <3>3, <3>4, <2>2
  <2>5. X = w * ((M * u) * v)
    BY <2>2, <2>3, <1>4, <1>5, <1>12, <1>15
  <2>6. w * ((M * u) * v) = M * ((u * v) * w)
    OBVIOUS
  <2> QED BY <2>2, <2>4, <2>5, <2>6
<1>28. e \in Nat BY <1>26, <1>1
<1> QED BY <1>19, <1>25, <1>27, <1>28

\* NaN is no number.
LEMMA NaNIs == NaN \in AllDoubles /\ IsNaN(NaN)
<1>1. FracBits \in Nat /\ FracBits >= 1 /\ Fr \in Nat /\ Bias \in Nat
  BY Format
<1>2. PICK g \in Nat : g = FracBits - 1 BY <1>1
<1>3. PICK h \in Nat : h = Pow(g) /\ h > 0
  BY PowType
<1>4. Fr = 2 * h
  <2>1. Pow(g + 1) = 2 * Pow(g) /\ g + 1 = FracBits
    BY <1>1, <1>2, PowType
  <2> QED BY <2>1, <1>3 DEF Fr
<1>5. Infinity = (2 * Bias + 1) * Fr BY PowersAre
<1>6. NaN = Double(TRUE, (2 * Bias + 1) * Fr + h)
  <2>1. 2 ^ (FracBits - 1) = h BY <1>2, <1>3 DEF Pow
  <2> QED BY <1>5, <2>1, Zenon DEF NaN
<1>7. 2 * Bias + 1 \in Fields /\ h \in Fractions
  BY <1>1, <1>3, <1>4 DEF Fields, Fractions
<1>8. PICK k \in Fields : k = 2 * Bias + 1 BY <1>7
<1>9. PICK n \in BOOLEAN : n OBVIOUS
<1>10. NaN = Of(n, k, h)
  <2>1. n = TRUE BY <1>9, Zenon
  <2> QED BY <1>6, <1>8, <2>1, Zenon DEF Of
<1>11. Of(n, k, h) \in AllDoubles /\ (IsNaN(Of(n, k, h)) <=> k = 2 * Bias + 1 /\ h > 0)
  BY <1>7, ValuesOf
<1> QED BY <1>3, <1>8, <1>10, <1>11

\* The square root of any double.
LEMMA SqrtAll ==
  ASSUME x \in AllDoubles
  PROVE  SqrtCorrectlyRounded /\ sqrt(View(x)) \in AllDoubles
<1> DEFINE v == View(x)
<1>0. v \in AllDoubles /\ v = View(x) BY ViewIs
<1> HIDE DEF v
<1>30. SUFFICES (v = View(x) => SqrtCorrectlyRounded) /\ sqrt(v) \in AllDoubles
  BY <1>0
<1>1. PICK n \in BOOLEAN, k \in Fields, f \in Fractions : v = Of(n, k, f)
  BY <1>0, PartsOf
<1>2. Fr \in Nat /\ Fr > 0 /\ Bias \in Nat /\ k \in Nat /\ k <= 2 * Bias + 1 /\ f \in Nat /\ f < Fr
  BY Format, Products DEF Fields, Fractions
<1>3. /\ Magnitude(v) = k * Fr + f
      /\ IsNaN(v) <=> k = 2 * Bias + 1 /\ f > 0
      /\ Finite(v) <=> k < 2 * Bias + 1
      /\ Exponent(v.hi) = k - Bias
  BY <1>1, ValuesOf
<1>4. (Negative(v.hi) <=> n) /\ (IsZero(v.hi, v.lo) <=> k = 0 /\ f = 0)
  BY <1>1, ValuesOf, SignOf
<1>5. HI(v) = v.hi /\ LO(v) = v.lo BY DEF HI, LO
<1>6. PICK root : root = sqrt(v) OBVIOUS
<1>7. PICK m \in Nat : m = k * Fr + f BY <1>2
<1>8. m = 0 <=> k = 0 /\ f = 0
  <2>1. k > 0 => k * Fr > 0 BY <1>2, Products
  <2>2. k * Fr \in Nat /\ (k = 0 => k * Fr = 0)
    BY <1>2
  <2> QED BY <2>1, <2>2, <1>2, <1>7
<1>9. Magnitude(v) = m /\ (Order(v) = IF n THEN -m ELSE m)
  BY <1>3, <1>4, <1>7 DEF Order
<1>10. Infinity \in Nat /\ Infinity > 0
  <2>1. Infinity = (2 * Bias + 1) * Fr /\ 2 * Bias + 1 \in Nat /\ 2 * Bias + 1 > 0
    BY <1>2, PowersAre
  <2> QED BY <2>1, <1>2, Products, AllIs
<1>11. m = Infinity <=> k = 2 * Bias + 1 /\ f = 0
  <2>1. m = Infinity => ~IsNaN(v) /\ ~Finite(v)
    BY <1>9, <1>10 DEF IsNaN, Finite
  <2>2. ~IsNaN(v) /\ ~Finite(v) => m = Infinity
    BY <1>9, <1>10 DEF IsNaN, Finite
  <2> QED BY <2>1, <2>2, <1>2, <1>3
<1>12. CASE k = 0 /\ f = 0
  <2>1. Exponent(v.hi) # Bias + 1
    BY <1>2, <1>3, <1>12
  <2>2. sqrt(v) = v
    BY <2>1, <1>4, <1>5, <1>12 DEF sqrt
  <2>3. Magnitude(v) = 0 BY <1>8, <1>9, <1>12
  <2>4. Finite(v) /\ ~(Order(v) < 0)
    <3>1. Order(v) = 0
      <4>1. n => Order(v) = 0
        <5>1. m \in Int /\ m = 0 BY <1>8, <1>12
        <5>2. -m = 0 BY <5>1, MinusZero, Zenon
        <5> QED BY <5>2, <1>9
      <4> QED BY <4>1, <1>8, <1>9, <1>12
    <3> QED BY <3>1, <1>2, <1>3, <1>12
  <2>5. v = View(x) => SqrtCorrectlyRounded
    BY <2>2, <2>3, <2>4, Zenon DEF SqrtCorrectlyRounded
  <2> QED BY <2>2, <2>5, <1>0
<1>13. CASE k = 2 * Bias + 1
  <2>1. Exponent(v.hi) = Bias + 1 /\ ~IsZero(v.hi, v.lo) /\ m > 0 /\ Magnitude(v) # 0 /\ ~Finite(v)
    BY <1>2, <1>3, <1>4, <1>8, <1>9, <1>13
  <2>2. sqrt(v) = SquarePlus(v)
    BY <2>1, <1>5, Zenon DEF sqrt
  <2>3. CASE f = 0 /\ ~n
    <3>1. sqrt(v) = Arith(v, v)
      BY <2>2, <2>3, <1>3, <1>4 DEF SquarePlus
    <3>2. Order(v) = Infinity
      BY <1>3, <1>9, <1>10, <1>11, <1>13, <2>3
    <3>3. LittleEndian => sqrt(v) = v
      BY <3>1, ViewIsSame
    <3>4. v = View(x) => SqrtCorrectlyRounded
      BY <2>1, <3>2, <3>3 DEF SqrtCorrectlyRounded
    <3> QED BY <3>1, <3>4, <1>0, ArithIsDouble
  <2>4. CASE f > 0 \/ n
    <3>1. sqrt(v) = Arith(NaN, v)
      BY <2>2, <2>4, <1>3, <1>4, <1>13 DEF SquarePlus
    <3>2. Order(v) # Infinity
      <4>1. CASE f > 0 BY <4>1, <1>9, <1>10, <1>11
      <4>2. CASE f = 0 /\ n
        BY <4>2, <1>9, <1>10, <2>1
      <4> QED BY <4>1, <4>2, <1>2, <2>4
    <3>3. LittleEndian => IsNaN(sqrt(v))
      BY <3>1, ViewIsSame, NaNIs
    <3>4. v = View(x) => SqrtCorrectlyRounded
      BY <2>1, <3>2, <3>3 DEF SqrtCorrectlyRounded
    <3> QED BY <3>1, <3>4, <1>0, NaNIs, ArithIsDouble
  <2> QED BY <2>3, <2>4, <1>2
<1>14. CASE k < 2 * Bias + 1 /\ ~(k = 0 /\ f = 0) /\ n
  <2>1. Exponent(v.hi) # Bias + 1 /\ ~IsZero(v.hi, v.lo) /\ Negative(v.hi) /\ m > 0
    BY <1>2, <1>3, <1>4, <1>8, <1>14
  <2>2. sqrt(v) = View(NaN)
    BY <2>1, <1>5, Zenon DEF sqrt
  <2>3. Magnitude(v) # 0 /\ Order(v) < 0 /\ Finite(v)
    BY <2>1, <1>3, <1>9, <1>10, <1>14
  <2>4. IsNaN(View(View(NaN))) /\ View(NaN) \in AllDoubles
    BY ViewIs, NaNIs
  <2>5. v = View(x) => SqrtCorrectlyRounded
    BY <2>2, <2>3, <2>4, Zenon DEF SqrtCorrectlyRounded
  <2> QED BY <2>2, <2>4, <2>5
<1>15. CASE k < 2 * Bias + 1 /\ ~(k = 0 /\ f = 0) /\ ~n
  <2>1. PICK e : e = Scale(v) - 2 * Scale(root) + 2
    OBVIOUS
  <2>2. /\ root \in AllDoubles /\ Finite(root) /\ ~Negative(root.hi)
        /\ e \in Nat
        /\ (2 * Mantissa(root) - 1) * (2 * Mantissa(root) - 1) < Mantissa(v) * Pow(e)
        /\ Mantissa(v) * Pow(e) < (2 * Mantissa(root) + 1) * (2 * Mantissa(root) + 1)
    BY <2>1, <1>1, <1>6, <1>15, SqrtPositive
  <2>3. m > 0 /\ Magnitude(v) # 0 /\ ~(Order(v) < 0) /\ Finite(v)
    BY <1>2, <1>3, <1>8, <1>9, <1>15
  <2>4. v = View(x) => SqrtCorrectlyRounded
    BY <2>1, <2>2, <2>3, <1>6 DEF SqrtCorrectlyRounded, Squared, Pow
  <2> QED BY <2>2, <2>4, <1>6
<1> QED BY <1>2, <1>12, <1>13, <1>14, <1>15

-----------------------------------------------------------------------------
\* fabs returns a double.
LEMMA FabsType ==
  ASSUME NEW d \in AllDoubles
  PROVE  fabs(d) \in AllDoubles
<1>1. fabs(d) = [hi |-> d.hi % SignBit, lo |-> d.lo]
  BY DEF fabs, Words, HI, LO
<1>2. d.hi \in 0 .. Word - 1 /\ d.lo \in 0 .. Word - 1
  BY DEF AllDoubles
<1>3. d.hi % SignBit \in 0 .. SignBit - 1
  BY <1>2, SignIs
<1>4. SignBit \in Nat /\ Word = 2 * SignBit
  BY Format
<1>5. d.hi % SignBit \in 0 .. Word - 1 BY <1>3, <1>4
<1> QED BY <1>1, <1>2, <1>5 DEF AllDoubles

\* The caller's variable always holds a double of the format: fabs, floor, ceil and sqrt, which
\* put their results together from two words, never leave it.
THEOREM DoublesOnly ==
  Spec => [](x \in AllDoubles)
<1>1. Init => x \in AllDoubles BY DEF Init
<1>2. x \in AllDoubles /\ [Next]_x => (x \in AllDoubles)'
  <2> SUFFICES ASSUME x \in AllDoubles, [Next]_x PROVE x' \in AllDoubles
    OBVIOUS
  <2>1. CASE Arithmetic
    <3>1. PICK l \in 0 .. Word - 1 : x' = [x EXCEPT !.lo = l]
      BY <2>1 DEF Arithmetic
    <3> QED BY <3>1 DEF AllDoubles
  <2>2. CASE \E fun \in Functions : math_helper(fun)
    <3>1. PICK fun \in {"FLOOR", "CEILING", "ABS", "SQRT"} : math_helper(fun)
      BY <2>2, FunctionAssumption
    <3>2. floor(View(x)) \in AllDoubles /\ ceil(View(x)) \in AllDoubles
      BY RoundsAll
    <3>3. fabs(View(x)) \in AllDoubles /\ sqrt(View(x)) \in AllDoubles
      BY FabsType, SqrtAll, ViewIs
    <3>4. \E d \in AllDoubles : x' = View(d)
      BY <3>1, <3>2, <3>3 DEF math_helper
    <3> QED BY <3>4, ViewIs
  <2>3. CASE UNCHANGED x BY <2>3
  <2> QED BY <2>1, <2>2, <2>3 DEF Next
<1> QED BY <1>1, <1>2, PTL DEF Spec

\* floor, ceil, rint and modf give the integer they promise of every double of every format:
\* the carry from the low word into the high one and into the field of the exponent, the
\* bits cleared in either word, signed zeros, and the bit rint keeps to round by included.
THEOREM RoundsToIntegersAlways ==
  Spec => []RoundsToIntegers
<1>1. x \in AllDoubles => RoundsToIntegers
  BY RoundsAll
<1> QED BY <1>1, DoublesOnly, PTL

\* The root that sqrt finds bit by bit, in two words, and rounds by what is left is the
\* nearest double to the exact root, for every double of every format; it is NaN of NaN and of
\* negative numbers, and the same of zeros and infinity.
THEOREM SqrtCorrectlyRoundedAlways ==
  Spec => []SqrtCorrectlyRounded
<1>1. x \in AllDoubles => SqrtCorrectlyRounded
  BY SqrtAll
<1> QED BY <1>1, DoublesOnly, PTL

-----------------------------------------------------------------------------
\* A number with its leading bit in its place.
LEMMA NormalComposed ==
  ASSUME NEW n \in BOOLEAN, NEW m \in Nat, Fr <= m, m < 2 * Fr, NEW e \in Int,
         NEW s, s = e - Bias - FracBits
  PROVE  /\ e > 2 * Bias => Composed(n, m, s) = Of(n, 2 * Bias + 1, 0)
         /\ e \in 1 .. 2 * Bias => Composed(n, m, s) = Of(n, e, m - Fr)
         /\ e < -FracBits - 1 => Composed(n, m, s) = Of(n, 0, 0)
         /\ m - Fr \in Fractions
<1>1. FracBits \in Nat /\ Bias \in Nat /\ Fr \in Nat /\ Fr > 0 /\ Bias > FracBits
  BY Format, Products
<1>2. Pow(FracBits) = Fr /\ Pow(FracBits + 1) = 2 * Fr
  BY <1>1, PowType DEF Fr
<1>3. PICK t \in 0 .. FracBits : t = FracBits
  BY <1>1
<1>4. Pow(t) <= m /\ m < Pow(t + 1) /\ s \in Int /\ s + t = e - Bias
  BY <1>1, <1>2, <1>3
<1>5. ASSUME e > 2 * Bias PROVE Composed(n, m, s) = Of(n, 2 * Bias + 1, 0)
  <2>1. s + t > Bias BY <1>1, <1>4, <1>5
  <2> QED BY <2>1, <1>4, ComposedIs
<1>6. ASSUME e \in 1 .. 2 * Bias PROVE Composed(n, m, s) = Of(n, e, m - Fr)
  <2>1. s + t \in 1 - Bias .. Bias
    BY <1>1, <1>4, <1>6
  <2>2. Composed(n, m, s) = Of(n, s + t + Bias, m * Pow(FracBits - t) - Fr)
    BY <2>1, <1>4, ComposedIs
  <2>3. s + t + Bias = e /\ FracBits - t = 0
    BY <1>1, <1>3, <1>4
  <2>4. Pow(0) = 1 BY PowType, 0 \in Nat
  <2> QED BY <2>2, <2>3, <2>4
<1>7. ASSUME e < -FracBits - 1 PROVE Composed(n, m, s) = Of(n, 0, 0)
  <2>1. s + t < 1 - Bias /\ s < Least0
    BY <1>1, <1>4, <1>7 DEF Least0
  <2>2. Composed(n, m, s) = Double(n, Rounded(m, Least0 - s))
    BY <2>1, <1>4, ComposedIs
  <2>3. PICK i \in Nat : i = Least0 - s /\ i > FracBits + 2
    BY <1>1, <1>7 DEF Least0
  <2>4. Rounded(m, i) = 0 BY <2>3, RoundedIs
  <2>5. 0 * Fr + 0 = 0 BY <1>1
  <2> QED BY <2>2, <2>3, <2>4, <2>5 DEF Of
<1>8. m - Fr \in Fractions BY <1>1 DEF Fractions
<1> QED BY <1>5, <1>6, <1>7, <1>8

\* The field that a number would have if its exponent had more bits.
FieldOf(k, c) == IF k = 0 THEN 1 - c ELSE k

\* Every number but 0 can have its leading bit there.
LEMMA NormalOf ==
  ASSUME NEW n \in BOOLEAN, NEW k \in Fields, NEW f \in Fractions, k < 2 * Bias + 1, ~(k = 0 /\ f = 0),
         NEW d, d = Of(n, k, f)
  PROVE  \E c \in 0 .. FracBits, m \in Nat :
           /\ Fr <= m /\ m < 2 * Fr /\ m = Mantissa(d) * Pow(c)
           /\ k = 0 => c > 0 /\ f < Pow(FracBits - c + 1) /\ Pow(FracBits - c) <= f
           /\ k > 0 => c = 0 /\ m = f + Fr
           /\ FieldOf(k, c) \in Int /\ 1 - FracBits <= FieldOf(k, c) /\ FieldOf(k, c) <= 2 * Bias
           /\ Scale(d) = FieldOf(k, c) + c - Bias - FracBits
<1>1. FracBits \in Nat /\ Bias \in Nat /\ Fr \in Nat /\ Fr > 0 /\ Bias > FracBits /\ k \in Nat /\ k <= 2 * Bias
      /\ f \in Nat /\ f < Fr /\ FracBits >= 1
  BY Format, Products DEF Fields, Fractions
<1>2. Mantissa(d) = (IF k = 0 THEN f ELSE f + Fr) /\ Scale(d) = (IF k = 0 THEN 1 ELSE k) - Bias - FracBits
  BY ValuesOf
<1>3. CASE k > 0
  <2>1. Pow(0) = 1 /\ 0 \in 0 .. FracBits
    BY <1>1, PowType, 0 \in Nat
  <2>2. PICK m \in Nat : m = f + Fr BY <1>1
  <2>3. Fr <= m /\ m < 2 * Fr /\ m = Mantissa(d) * Pow(0)
    BY <2>1, <2>2, <1>1, <1>2, <1>3
  <2>4. FieldOf(k, 0) = k BY <1>3, <1>1 DEF FieldOf
  <2>5. Scale(d) = k + 0 - Bias - FracBits
    BY <1>1, <1>2, <1>3
  <2>6. 1 - FracBits <= k BY <1>1, <1>3
  <2> QED BY <2>1, <2>2, <2>3, <2>4, <2>5, <2>6, <1>1, <1>3
<1>4. CASE k = 0
  <2>1. f > 0 BY <1>1, <1>4
  <2>2. PICK t \in 0 .. FracBits : Pow(t) <= f /\ f < Pow(t + 1)
    BY <2>1, <1>1, TopOf
  <2>3. t # FracBits BY <2>2, <1>1 DEF Fr
  <2>4. PICK c \in 0 .. FracBits : c = FracBits - t /\ c > 0
    BY <1>1, <2>3
  <2>5. t \in Nat /\ c \in Nat /\ t + c = FracBits /\ FracBits - c = t
    BY <1>1, <2>4
  <2>6. PICK m \in Nat : m = f * Pow(c)
    BY <1>1, <2>5, PowType
  <2>7. Fr <= m /\ m < 2 * Fr
    <3>1. Pow(FracBits + 1) = 2 * Fr
      BY <1>1, PowType DEF Fr
    <3>2. Pow(t + c) <= f * Pow(c) /\ f * Pow(c) < Pow((t + c) + 1)
      BY <2>2, <2>5, <1>1, PowTops
    <3> QED BY <2>5, <2>6, <3>1, <3>2 DEF Fr
  <2>8. FieldOf(k, c) = 1 - c BY <1>4 DEF FieldOf
  <2>9. 1 - c \in Int /\ 1 - FracBits <= 1 - c /\ 1 - c <= 2 * Bias
    BY <1>1, <2>5, <2>4
  <2>10. Scale(d) = (1 - c) + c - Bias - FracBits
    BY <1>1, <1>2, <1>4, <2>5
  <2>11. m = Mantissa(d) * Pow(c)
    BY <2>6, <1>2, <1>4
  <2>12. f < Pow(FracBits - c + 1) /\ Pow(FracBits - c) <= f
    BY <2>2, <2>5
  <2> QED BY <1>4, <2>4, <2>7, <2>8, <2>9, <2>10, <2>11, <2>12
<1> QED BY <1>1, <1>3, <1>4

\* A product with a power of two.
LEMMA TimesOf ==
  ASSUME NEW n \in BOOLEAN, NEW k \in Fields, NEW f \in Fractions, k < 2 * Bias + 1,
         NEW d, d = Of(n, k, f), NEW c \in Nat, NEW m \in Nat, m = Mantissa(d) * Pow(c), m < 2 * Fr,
         NEW e \in Int, Scale(d) = e + c - Bias - FracBits, NEW i \in Int
  PROVE  Times(d, i) = Composed(n, m, e + i - Bias - FracBits)
<1>1. FracBits \in Nat /\ Bias \in Nat BY Format
<1>2. d \in AllDoubles /\ Finite(d) /\ Negative(d.hi) = n
  BY ValuesOf, SignOf
<1>3. Mantissa(d) \in Nat BY <1>2, RoundTrip
<1>4. PICK s \in Int : s = e + i - Bias - FracBits
  BY <1>1
<1>5. Scale(d) + i = s + c BY <1>1, <1>4
<1>6. Times(d, i) = Composed(n, Mantissa(d), s + c)
  BY <1>2, <1>5, Zenon DEF Times
<1>7. PICK g \in Nat : g = Mantissa(d) BY <1>3
<1>8. g * Pow(c) < 2 * Fr BY <1>7
<1>9. Composed(n, g * Pow(c), s) = Composed(n, g, s + c)
  BY <1>8, ComposedShift
<1> QED BY <1>4, <1>6, <1>7, <1>9

-----------------------------------------------------------------------------
\* What the functions do with the words of a double.
LEMMA FieldIs ==
  ASSUME NEW n \in BOOLEAN, NEW k \in Fields, NEW f \in Fractions, NEW d, d = Of(n, k, f)
  PROVE  /\ Field(HI(d)) = k /\ HI(d) = d.hi /\ LO(d) = d.lo
         /\ finite(d) <=> k < 2 * Bias + 1
         /\ isnan(d) <=> k = 2 * Bias + 1 /\ f > 0
         /\ LittleEndian => Overflow(d) = Of(n, 2 * Bias + 1, 0) /\ Underflow(d) = Of(n, 0, 0)
         /\ \A e \in Fields : WithField(d, e) = Of(n, e, f)
<1>1. HI(d) = d.hi /\ LO(d) = d.lo BY DEF HI, LO
<1>2. Hi \in Nat /\ Hi > 0 /\ Word \in Nat /\ Word > 0 /\ Bias \in Nat /\ k \in Nat /\ k <= 2 * Bias + 1
      /\ f \in Nat /\ f < Fr /\ Fr \in Nat /\ SignBit \in Nat /\ SignBit > 0
  BY Format DEF Fields, Fractions
<1>3. PICK g \in 0 .. Hi - 1, l \in 0 .. Word - 1 : g = f \div Word /\ l = f % Word /\ f = g * Word + l
  BY FieldsAre
<1>4. d.hi % SignBit = k * Hi + g /\ d.lo = l /\ d.hi \in 0 .. Word - 1
  <2>1. d.hi \in 0 .. Word - 1 /\ d.hi % SignBit = k * Hi + (f \div Word) /\ d.lo = f % Word
    BY ValuesOf
  <2> QED BY <2>1, <1>3
<1>5. (k * Hi + g) \div Hi = k /\ (k * Hi + g) % Hi = g
  <2>1. k \in Nat /\ Hi \in Nat /\ g \in Nat /\ g < Hi
    BY <1>2
  <2> QED BY ONLY <2>1, WordPair
<1>6. Field(HI(d)) = k
  BY <1>1, <1>4, <1>5, PowersAre DEF Field
<1>7. MaxExponent = 2 * Bias + 1 /\ 2 ^ HighBits = Hi
  <2>1. 2 ^ ExpBits = 2 * Bias + 2 BY PowersAre
  <2>2. (2 * Bias + 2) - 1 = 2 * Bias + 1 BY <1>2
  <2>3. MaxExponent = 2 * Bias + 1
    BY <2>1, <2>2, Zenon DEF MaxExponent
  <2>4. 2 ^ HighBits = Hi BY PowersAre
  <2> QED BY <2>3, <2>4
<1>8. PICK q \in Nat, y \in Nat, z \in Nat : q = 2 * Bias + 1 /\ y = q * Hi /\ z = k * Hi
  BY <1>2
<1>9. (k < q => z + Hi <= y) /\ (k = q => z = y)
  <2>1. k < q => (k + 1) * Hi <= q * Hi
    BY <1>2, Products
  <2>2. (k + 1) * Hi = k * Hi + Hi BY <1>2
  <2> QED BY <2>1, <2>2, <1>8
<1>10. finite(d) <=> k < q
  <2>1. finite(d) <=> z + g < y
    BY <1>1, <1>4, <1>7, <1>8 DEF finite
  <2> QED BY <2>1, <1>2, <1>8, <1>9
<1>11. f > 0 <=> g > 0 \/ l # 0
  <2>1. g > 0 => g * Word > 0 BY <1>2, Products
  <2>2. g * Word \in Nat /\ (g = 0 => g * Word = 0)
    BY <1>2
  <2> QED BY <2>1, <2>2, <1>2, <1>3
<1>12. isnan(d) <=> k = q /\ f > 0
  <2>1. isnan(d) <=> (z + g) + (IF l = 0 THEN 0 ELSE 1) > y
    BY <1>1, <1>4, <1>7, <1>8 DEF isnan
  <2> QED BY <2>1, <1>2, <1>8, <1>9, <1>11
<1>13. Sign(d.hi) = IF n THEN SignBit ELSE 0
  BY SignOf
<1>14. ASSUME NEW e \in Fields, NEW v \in 0 .. Hi - 1, NEW w \in 0 .. Word - 1, NEW h \in Fractions, h = v * Word + w
       PROVE  Words((IF n THEN SignBit ELSE 0) + (e * Hi + v), w) = Of(n, e, h)
  <2>1. e \in Nat /\ e <= 2 * Bias + 1 /\ v \in Nat /\ v < Hi
    BY <1>2 DEF Fields
  <2>2. e * Hi + v < (2 * Bias + 2) * Hi /\ e * Hi \in Nat
    <3>1. 2 * Bias + 2 \in Nat /\ e < 2 * Bias + 2
      BY <1>2, <2>1
    <3> QED BY <2>1, <3>1, <1>2, Products
  <2>3. PICK i \in 0 .. SignBit - 1 : i = e * Hi + v
    BY <2>1, <2>2, <1>2, Format
  <2>4. Words((IF n THEN SignBit ELSE 0) + i, w) = Double(n, i * Word + w)
    BY WordsAre
  <2>5. i * Word + w = e * Fr + h
    <3>1. \A a \in Nat, b \in Nat, c \in Nat, e1 \in Nat : (a * b + c) * e1 = a * (b * e1) + c * e1
      OBVIOUS
    <3>2. i * Word = e * (Hi * Word) + v * Word
      BY <3>1, <2>1, <2>3, <1>2
    <3>3. Hi * Word = Fr /\ e * Fr \in Nat /\ v * Word \in Nat
      BY <2>1, <1>2, Format
    <3> QED BY <3>2, <3>3, <1>14, <1>2
  <2> QED BY <2>3, <2>4, <2>5 DEF Of
<1>15. ASSUME NEW e \in Fields PROVE WithField(d, e) = Of(n, e, f)
  <2>1. e \in Nat /\ e * Hi \in Nat
    BY <1>2 DEF Fields
  <2>2. d.hi % Hi = g
    <3>1. d.hi = (k * Hi + g) + Hi * (IF n THEN 2 * Bias + 2 ELSE 0)
      <4>1. d.hi = Sign(d.hi) + (k * Hi + g)
        BY <1>4, SignIs
      <4>2. SignBit = Hi * (2 * Bias + 2) /\ Hi * 0 = 0 /\ k * Hi + g \in Nat
        BY <1>2, Format
      <4> QED BY <4>1, <4>2, <1>13, <1>2
    <3>2. PICK a \in Int, c \in Int : a = k * Hi + g /\ c = IF n THEN 2 * Bias + 2 ELSE 0
      BY <1>2
    <3>3. (a + Hi * c) % Hi = a % Hi BY <1>2, ModSum
    <3> QED BY <3>1, <3>2, <3>3, <1>5
  <2>3. WithField(d, e) = Words(Sign(d.hi) + e * Hi + g, l)
    BY <1>1, <1>4, <1>7, <2>2 DEF WithField
  <2>4. Sign(d.hi) + e * Hi + g = (IF n THEN SignBit ELSE 0) + (e * Hi + g)
    BY <1>2, <1>13, <2>1
  <2>5. Words((IF n THEN SignBit ELSE 0) + (e * Hi + g), l) = Of(n, e, f)
    BY <1>3, <1>14
  <2> QED BY <2>3, <2>4, <2>5, Zenon
<1>16. LittleEndian => Overflow(d) = Of(n, 2 * Bias + 1, 0)
  <2>1. q \in Fields /\ 0 \in 0 .. Hi - 1 /\ 0 \in 0 .. Word - 1 /\ 0 \in Fractions /\ 0 = 0 * Word + 0
    BY <1>2, <1>8 DEF Fields, Fractions
  <2>2. Words((IF n THEN SignBit ELSE 0) + (q * Hi + 0), 0) = Of(n, q, 0)
    BY <2>1, <1>14
  <2>3. q * Hi + 0 = MaxExponent * 2 ^ HighBits
    BY <1>7, <1>8
  <2>4. Words(Sign(HI(d)) + MaxExponent * 2 ^ HighBits, 0) = Of(n, q, 0)
    BY <2>2, <2>3, <1>1, <1>13
  <2> QED BY <2>4, <1>8, ViewIsSame, Zenon DEF Overflow
<1>17. LittleEndian => Underflow(d) = Of(n, 0, 0)
  <2>1. Words(IF n THEN SignBit ELSE 0, 0) = Of(n, 0, 0)
    BY SmallDoubles
  <2>2. Words(Sign(HI(d)), 0) = Of(n, 0, 0)
    BY <2>1, <1>1, <1>13
  <2> QED BY <2>2, ViewIsSame, Zenon DEF Underflow
<1> QED BY <1>1, <1>6, <1>8, <1>10, <1>12, <1>15, <1>16, <1>17

\* The largest field, and the largest n that scalbn does not take for an overflow.
LEMMA FarIs ==
  /\ MaxExponent = 2 * Bias + 1 /\ MaxExponent \in Nat
  /\ Far \in Nat /\ Far > 2 * Bias + 2 + 2 * FracBits /\ Far + 2 * Bias + 2 < SignBit
  /\ two54 = FracBits + 2
<1>1. 2 ^ ExpBits = 2 * Bias + 2 /\ Bias \in Nat /\ FracBits \in Nat /\ SignBit \in Nat
  BY PowersAre, Format
<1>2. (2 * Bias + 2) - 1 = 2 * Bias + 1 /\ 2 * Bias + 1 \in Nat
  BY <1>1
<1>3. MaxExponent = 2 * Bias + 1
  BY <1>1, <1>2, Zenon DEF MaxExponent
<1>4. PICK p \in Nat : p = 2 ^ ExpBits /\ p = 2 * Bias + 2
  BY <1>1
<1>5. Far \in Nat /\ Far > p + 2 * FracBits /\ Far + p < SignBit
  BY <1>4, FarAssumption, Zenon
<1>6. Far > 2 * Bias + 2 + 2 * FracBits /\ Far + 2 * Bias + 2 < SignBit
  BY ONLY <1>1, <1>4, <1>5
<1> QED BY <1>2, <1>3, <1>5, <1>6 DEF two54

\* A sum that overflows by less than a word.
LEMMA OverflowingIs ==
  ASSUME NEW i \in Int
  PROVE  /\ -SignBit <= i /\ i < SignBit => Overflowing(i) = i
         /\ SignBit <= i /\ i < SignBit + Word => Overflowing(i) = i - Word
<1>1. SignBit \in Nat /\ Word \in Nat /\ Word > 0 /\ Word = 2 * SignBit
  BY Format
<1>2. ASSUME -SignBit <= i, i < SignBit PROVE Overflowing(i) = i
  <2>1. (i + SignBit) % Word = i + SignBit
    <3>1. PICK r \in Int : r = i + SignBit BY <1>1
    <3>2. 0 <= r /\ r < Word /\ r = Word * 0 + r
      BY <3>1, <1>1, <1>2
    <3>3. r % Word = r
      BY ONLY <3>1, <3>2, <1>1, DivModUnique, 0 \in Int
    <3> QED BY <3>1, <3>3
  <2> QED BY <2>1, <1>1 DEF Overflowing
<1>3. ASSUME SignBit <= i, i < SignBit + Word PROVE Overflowing(i) = i - Word
  <2>1. (i + SignBit) % Word = i + SignBit - Word
    <3>1. PICK r \in Int : r = i + SignBit - Word
      BY <1>1
    <3>2. 0 <= r /\ r < Word /\ i + SignBit = Word * 1 + r /\ i + SignBit \in Int
      BY <3>1, <1>1, <1>3
    <3>3. (i + SignBit) % Word = r
      BY ONLY <3>1, <3>2, <1>1, DivModUnique, 1 \in Int
    <3> QED BY <3>1, <3>3
  <2> QED BY <2>1, <1>1 DEF Overflowing
<1> QED BY <1>2, <1>3

\* What scalbn does for each exponent w of the result.
LEMMA ScalbnCases ==
  ASSUME NEW d, NEW i \in Int, ~IsZero(HI(d), LO(d)), ~(Field(HI(d)) = 0 /\ i < -Far),
         NEW z, z = IF Field(HI(d)) = 0 THEN Scaled(d, two54) ELSE d,
         Field(HI(z)) # MaxExponent,
         NEW w \in Int, w = Overflowing(Field(HI(z)) - (IF Field(HI(d)) = 0 THEN two54 ELSE 0) + i)
  PROVE  /\ w > 2 * Bias => scalbn(d, i) = Overflow(z)
         /\ w \in 1 .. 2 * Bias => scalbn(d, i) = WithField(z, w)
         /\ w <= -(FracBits + 2) => scalbn(d, i) = IF i > Far THEN Overflow(z) ELSE Underflow(z)
         /\ w > -(FracBits + 2) /\ w <= 0 => scalbn(d, i) = Scaled(WithField(z, w + two54), -two54)
<1>1. MaxExponent = 2 * Bias + 1 /\ two54 = FracBits + 2 /\ Bias \in Nat /\ FracBits \in Nat /\ Far \in Nat
  BY FarIs, Format
<1>6. ~(~(Field(HI(d)) = 0) /\ Field(HI(d)) = MaxExponent)
  BY <1>1
<1>2. ASSUME w > 2 * Bias PROVE scalbn(d, i) = Overflow(z)
  <2>1. w > MaxExponent - 1 /\ ~(w \in 1 .. MaxExponent - 1) /\ ~(w <= -two54) /\ ~(w \in 1 - two54 .. 0)
    BY <1>1, <1>2
  <2> QED BY <2>1, <1>6, Zenon DEF scalbn
<1>3. ASSUME w \in 1 .. 2 * Bias PROVE scalbn(d, i) = WithField(z, w)
  <2>1. ~(w > MaxExponent - 1) /\ w \in 1 .. MaxExponent - 1 /\ ~(w <= -two54) /\ ~(w \in 1 - two54 .. 0)
    BY <1>1, <1>3
  <2> QED BY <2>1, <1>6, Zenon DEF scalbn
<1>4. ASSUME w <= -(FracBits + 2) PROVE scalbn(d, i) = IF i > Far THEN Overflow(z) ELSE Underflow(z)
  <2>1. ~(w > MaxExponent - 1) /\ ~(w \in 1 .. MaxExponent - 1) /\ w <= -two54 /\ ~(w \in 1 - two54 .. 0)
    BY <1>1, <1>4
  <2> QED BY <2>1, <1>6, Zenon DEF scalbn
<1>5. ASSUME w > -(FracBits + 2), w <= 0 PROVE scalbn(d, i) = Scaled(WithField(z, w + two54), -two54)
  <2>1. ~(w > MaxExponent - 1) /\ ~(w \in 1 .. MaxExponent - 1) /\ ~(w <= -two54) /\ w \in 1 - two54 .. 0
    BY <1>1, <1>5
  <2> QED BY <2>1, <1>6, Zenon DEF scalbn
<1> QED BY <1>2, <1>3, <1>4, <1>5

\* What scalbn and frexp go on with: z has its leading bit in its place, g behind it, and
\* the field that x would have if there were room for it is e.
LEMMA Prepared ==
  ASSUME NEW n \in BOOLEAN, NEW k \in Fields, NEW f \in Fractions, k < 2 * Bias + 1, ~(k = 0 /\ f = 0),
         k > 0 \/ LittleEndian, NEW d, d = Of(n, k, f),
         NEW z, z = IF Field(HI(d)) = 0 THEN Scaled(d, two54) ELSE d
  PROVE  \E e \in Int, g \in Fractions, v \in 1 .. 2 * Bias :
           /\ z = Of(n, v, g) /\ v \in Fields /\ Field(HI(z)) = v /\ Field(HI(d)) = k
           /\ v = e + (IF k = 0 THEN two54 ELSE 0)
           /\ 1 - FracBits <= e /\ e <= 2 * Bias
           /\ k > 0 => e = k
           /\ k = 0 => \E t \in 0 .. FracBits - 1 : e = 1 - FracBits + t /\ Pow(t) <= f /\ f < Pow(t + 1)
           /\ \A i \in Int : Times(d, i) = Composed(n, g + Fr, e + i - Bias - FracBits)
<1>1. FracBits \in Nat /\ Bias \in Nat /\ Fr \in Nat /\ Fr > 0 /\ Bias > FracBits /\ k \in Nat /\ FracBits >= 3
      /\ two54 = FracBits + 2 /\ f \in Nat
  BY Format, FarIs, Products DEF Fields, Fractions
<1>2. PICK c \in 0 .. FracBits, m \in Nat :
           /\ Fr <= m /\ m < 2 * Fr /\ m = Mantissa(d) * Pow(c)
           /\ k = 0 => c > 0 /\ f < Pow(FracBits - c + 1) /\ Pow(FracBits - c) <= f
           /\ k > 0 => c = 0 /\ m = f + Fr
           /\ FieldOf(k, c) \in Int /\ 1 - FracBits <= FieldOf(k, c) /\ FieldOf(k, c) <= 2 * Bias
           /\ Scale(d) = FieldOf(k, c) + c - Bias - FracBits
  BY NormalOf
<1>3. PICK e \in Int : e = FieldOf(k, c) BY <1>2
<1>4. PICK g \in Fractions : g = m - Fr /\ m = g + Fr
  BY <1>1, <1>2 DEF Fractions
<1>5. ASSUME NEW i \in Int PROVE Times(d, i) = Composed(n, m, e + i - Bias - FracBits)
  <2>1. c \in Nat /\ Scale(d) = e + c - Bias - FracBits /\ m = Mantissa(d) * Pow(c) /\ m < 2 * Fr
    BY <1>2, <1>3
  <2> QED BY <2>1, TimesOf
<1>6. Field(HI(d)) = k BY FieldIs
<1>7. CASE k = 0
  <2>1. e = 1 - c /\ c > 0
    BY <1>2, <1>3, <1>7 DEF FieldOf
  <2>2. PICK v \in 1 .. 2 * Bias : v = e + two54
    BY <1>1, <2>1
  <2>14. LittleEndian BY <1>7
  <2>13. z = Scaled(d, two54) BY <1>6, <1>7, Zenon
  <2>3. z = Times(d, two54)
    BY <2>13, <2>14, ViewIsSame
  <2>4. two54 \in Int /\ e + two54 - Bias - FracBits = v - Bias - FracBits /\ v \in Int
    BY <1>1, <2>2
  <2>5. z = Composed(n, m, v - Bias - FracBits)
    BY <2>3, <2>4, <1>5
  <2>6. z = Of(n, v, g)
    BY <2>4, <2>5, <1>2, <1>4, NormalComposed
  <2>7. v \in Fields BY <1>1 DEF Fields
  <2>8. Field(HI(z)) = v BY <2>6, <2>7, FieldIs
  <2>9. PICK t \in 0 .. FracBits - 1 : t = FracBits - c
    BY <1>1, <2>1
  <2>10. e = 1 - FracBits + t /\ Pow(t) <= f /\ f < Pow(t + 1)
    <3>1. e = 1 - FracBits + t BY <2>1, <2>9, <1>1
    <3>2. Pow(FracBits - c) <= f /\ f < Pow(FracBits - c + 1)
      BY <1>2, <1>7
    <3> QED BY <3>1, <3>2, <2>9
  <2>11. v = e + (IF k = 0 THEN two54 ELSE 0)
    BY <2>2, <1>7
  <2>12. 1 - FracBits <= e /\ e <= 2 * Bias /\ (k > 0 => e = k)
    BY <1>2, <1>3, <1>7
  <2> QED BY <2>6, <2>7, <2>8, <2>10, <2>11, <2>12, <1>4, <1>5, <1>6
<1>8. CASE k > 0
  <2>1. e = k /\ g = f
    <3>1. e = k /\ m = f + Fr
      BY <1>2, <1>3, <1>8, <1>1 DEF FieldOf
    <3> QED BY <3>1, <1>1, <1>4
  <2>2. z = d BY <1>1, <1>6, <1>8
  <2>3. PICK v \in 1 .. 2 * Bias : v = k
    BY <1>1, <1>8 DEF Fields
  <2>4. v = e + (IF k = 0 THEN two54 ELSE 0) /\ ~(k = 0)
    BY <2>1, <2>3, <1>1, <1>8
  <2>5. 1 - FracBits <= e /\ e <= 2 * Bias
    BY <1>2, <1>3
  <2>6. z = Of(n, v, g) /\ v \in Fields /\ Field(HI(z)) = v
    BY <2>1, <2>2, <2>3, <1>6
  <2> QED BY <2>1, <2>4, <2>5, <2>6, <1>4, <1>5, <1>6
<1> QED BY <1>1, <1>7, <1>8

\* scalbn is the product, however far n is from what an exponent can hold.
LEMMA ScalbnIs ==
  ASSUME LittleEndian, NEW n \in BOOLEAN, NEW k \in Fields, NEW f \in Fractions, NEW d, d = Of(n, k, f),
         NEW i \in -SignBit .. SignBit - 1
  PROVE  scalbn(d, i) = Times(d, i)
<1>1. FracBits \in Nat /\ Bias \in Nat /\ Fr \in Nat /\ Fr > 0 /\ Bias > FracBits /\ k \in Nat /\ FracBits >= 3
      /\ two54 = FracBits + 2 /\ MaxExponent = 2 * Bias + 1 /\ Far \in Nat /\ Far > 2 * Bias + 2 + 2 * FracBits
      /\ Far + 2 * Bias + 2 < SignBit /\ SignBit \in Nat /\ i \in Int /\ Word = 2 * SignBit /\ k <= 2 * Bias + 1
  BY Format, FarIs, Products DEF Fields
<1>2. Field(HI(d)) = k /\ (IsZero(HI(d), LO(d)) <=> k = 0 /\ f = 0)
  <2>1. Field(HI(d)) = k /\ HI(d) = d.hi /\ LO(d) = d.lo
    BY FieldIs
  <2>2. IsZero(d.hi, d.lo) <=> k = 0 /\ f = 0
    BY SignOf
  <2> QED BY <2>1, <2>2, Zenon
<1>3. d \in AllDoubles /\ (Finite(d) <=> k < 2 * Bias + 1) /\ Negative(d.hi) = n
  BY ValuesOf, SignOf
<1>4. CASE k = 0 /\ f = 0
  <2>2. Mantissa(d) = 0 BY <1>4, ValuesOf
  <2>3. Scale(d) \in Int /\ Finite(d)
    BY <1>1, <1>3, <1>4, RoundTrip
  <2>4. PICK s \in Int : s = Scale(d) + i
    BY <1>1, <2>3
  <2>5. Times(d, i) = Composed(n, 0, s)
    BY <1>3, <2>2, <2>3, <2>4, Zenon DEF Times
  <2>6. Composed(n, 0, s) = Of(n, 0, 0)
    BY ComposedZero
  <2>1. scalbn(d, i) = d
    BY <1>2, <1>4, Zenon DEF scalbn
  <2> QED BY <2>1, <2>5, <2>6, <1>4
<1>5. CASE k = 2 * Bias + 1
  <2>1. ~IsZero(HI(d), LO(d)) /\ ~(Field(HI(d)) = 0) /\ Field(HI(d)) = MaxExponent /\ ~(Field(HI(d)) = 0 /\ i < -Far)
    BY <1>1, <1>2, <1>5
  <2>4. scalbn(d, i) = Scaled(d, 1)
    BY <2>1, Zenon DEF scalbn
  <2>2. scalbn(d, i) = Times(d, 1)
    BY <2>4, ViewIsSame
  <2>3. ~Finite(d) BY <1>1, <1>3, <1>5
  <2> QED BY <2>2, <2>3, <1>1, <1>3, TimesIs, 1 \in Int
<1>6. CASE k < 2 * Bias + 1 /\ ~(k = 0 /\ f = 0)
  <2> DEFINE z == IF Field(HI(d)) = 0 THEN Scaled(d, two54) ELSE d
  <2>1. PICK e \in Int, g \in Fractions, v \in 1 .. 2 * Bias :
           /\ z = Of(n, v, g) /\ v \in Fields /\ Field(HI(z)) = v
           /\ v = e + (IF k = 0 THEN two54 ELSE 0)
           /\ 1 - FracBits <= e /\ e <= 2 * Bias
           /\ k > 0 => e = k
           /\ k = 0 => \E t \in 0 .. FracBits - 1 : e = 1 - FracBits + t /\ Pow(t) <= f /\ f < Pow(t + 1)
           /\ \A j \in Int : Times(d, j) = Composed(n, g + Fr, e + j - Bias - FracBits)
    BY <1>6, Prepared
  <2> HIDE DEF z
  <2>2. PICK m \in Nat : m = g + Fr /\ Fr <= m /\ m < 2 * Fr /\ m - Fr = g
    BY <1>1 DEF Fractions
  <2>3. PICK y \in Int : y = e + i BY <1>1
  <2>4. Times(d, i) = Composed(n, m, y - Bias - FracBits)
    BY <2>1, <2>2, <2>3, <1>1
  <2>5. /\ y > 2 * Bias => Times(d, i) = Of(n, 2 * Bias + 1, 0)
        /\ y \in 1 .. 2 * Bias => Times(d, i) = Of(n, y, g)
        /\ y < -FracBits - 1 => Times(d, i) = Of(n, 0, 0)
    BY <2>2, <2>4, NormalComposed
  <2>6. Overflow(z) = Of(n, 2 * Bias + 1, 0) /\ Underflow(z) = Of(n, 0, 0)
        /\ \A l \in Fields : WithField(z, l) = Of(n, l, g)
    BY <2>1, FieldIs
  <2>7. ~IsZero(HI(d), LO(d)) BY <1>2, <1>6
  <2>8. CASE k = 0 /\ i < -Far
    <3>1. y < -FracBits - 1
      BY <2>1, <2>3, <2>8, <1>1
    <3>2. Field(HI(z)) # MaxExponent /\ Field(HI(d)) = 0 /\ i < -Far
      BY <2>1, <2>8, <1>1, <1>2
    <3>3. scalbn(d, i) = Underflow(z)
      BY <3>2, <2>7, Zenon DEF scalbn, z
    <3> QED BY <3>1, <3>3, <2>5, <2>6
  <2>9. CASE ~(k = 0 /\ i < -Far)
    <3>1. -SignBit <= y /\ y < SignBit + Word
      BY <2>1, <2>3, <2>9, <1>1
    <3>2. PICK w \in Int : /\ w = Overflowing(y)
                           /\ y < SignBit => w = y
                           /\ y >= SignBit => w = y - Word
      BY <3>1, OverflowingIs, <1>1
    <3>3. Field(HI(z)) - (IF Field(HI(d)) = 0 THEN two54 ELSE 0) + i = y
      BY <2>1, <2>3, <1>1, <1>2
    <3>4. Field(HI(z)) # MaxExponent BY <2>1, <1>1
    <3>5. ~(Field(HI(d)) = 0 /\ i < -Far)
      BY <1>2, <2>9
    <3>6. /\ w > 2 * Bias => scalbn(d, i) = Overflow(z)
          /\ w \in 1 .. 2 * Bias => scalbn(d, i) = WithField(z, w)
          /\ w <= -(FracBits + 2) => scalbn(d, i) = IF i > Far THEN Overflow(z) ELSE Underflow(z)
          /\ w > -(FracBits + 2) /\ w <= 0 => scalbn(d, i) = Scaled(WithField(z, w + two54), -two54)
      <4>1. w = Overflowing(Field(HI(z)) - (IF Field(HI(d)) = 0 THEN two54 ELSE 0) + i)
        BY <3>2, <3>3, Zenon
      <4>2. z = IF Field(HI(d)) = 0 THEN Scaled(d, two54) ELSE d
        BY DEF z
      <4> QED BY <4>1, <4>2, <2>7, <3>4, <3>5, <1>1, ScalbnCases
    <3>7. CASE y >= SignBit
      <4>1. w <= -(FracBits + 2) /\ i > Far /\ y > 2 * Bias
        BY <2>1, <2>3, <3>2, <3>7, <1>1
      <4> QED BY <4>1, <3>6, <2>5, <2>6
    <3>8. CASE y < SignBit /\ y > 2 * Bias
      BY <3>2, <3>6, <3>8, <2>5, <2>6
    <3>9. CASE y \in 1 .. 2 * Bias
      <4>1. y < SignBit /\ y \in Fields
        BY <3>9, <1>1 DEF Fields
      <4> QED BY <4>1, <3>2, <3>6, <3>9, <2>5, <2>6
    <3>10. CASE y <= -(FracBits + 2)
      <4>1. y < SignBit /\ y < -FracBits - 1 /\ ~(i > Far)
        BY <2>1, <2>3, <3>10, <1>1
      <4> QED BY <4>1, <3>2, <3>6, <3>10, <2>5, <2>6
    <3>11. CASE y > -(FracBits + 2) /\ y <= 0
      <4>1. PICK l \in 1 .. 2 * Bias : l = y + two54
        BY <3>11, <1>1
      <4>2. l \in Fields /\ 0 \in Nat /\ y < SignBit
        BY <1>1, <3>11 DEF Fields
      <4>9. scalbn(d, i) = Scaled(WithField(z, y + two54), -two54)
        BY <3>2, <3>6, <3>11, <4>2
      <4>3. scalbn(d, i) = Times(WithField(z, y + two54), -two54)
        BY <4>9, ViewIsSame
      <4>4. PICK r : r = Of(n, l, g) OBVIOUS
      <4>5. scalbn(d, i) = Times(r, -two54)
        BY <4>1, <4>2, <4>3, <4>4, <2>6
      <4>6. Mantissa(r) = g + Fr /\ Scale(r) = l - Bias - FracBits
        BY <4>2, <4>4, <1>1, ValuesOf
      <4>7. Times(r, -two54) = Composed(n, m, l + (-two54) - Bias - FracBits)
        <5>1. Pow(0) = 1 BY PowType, 0 \in Nat
        <5>2. m = Mantissa(r) * Pow(0) /\ Scale(r) = l + 0 - Bias - FracBits /\ l \in Int /\ -two54 \in Int
              /\ l < 2 * Bias + 1
          BY <5>1, <4>6, <2>2, <1>1
        <5> QED BY <5>2, <4>2, <4>4, <2>2, TimesOf
      <4>8. l + (-two54) - Bias - FracBits = y - Bias - FracBits
        BY <4>1, <1>1
      <4> QED BY <4>5, <4>7, <4>8, <2>4
    <3> QED BY <3>7, <3>8, <3>9, <3>10, <3>11, <1>1
  <2> QED BY <2>8, <2>9
<1> QED BY <1>1, <1>4, <1>5, <1>6

\* In every build scalbn is the product of numbers where both are normal: only their
\* exponent changes.
LEMMA ScalbnNormal ==
  ASSUME NEW n \in BOOLEAN, NEW k \in 1 .. 2 * Bias, NEW f \in Fractions, NEW d, d = Of(n, k, f),
         NEW i \in Int, k + i \in 1 .. 2 * Bias
  PROVE  scalbn(d, i) = Of(n, k + i, f) /\ Times(d, i) = Of(n, k + i, f)
<1>1. FracBits \in Nat /\ Bias \in Nat /\ Fr \in Nat /\ Fr > 0 /\ MaxExponent = 2 * Bias + 1 /\ Far \in Nat
      /\ Far > 2 * Bias + 2 + 2 * FracBits /\ Far + 2 * Bias + 2 < SignBit /\ SignBit \in Nat
  BY Format, FarIs, Products
<1>2. PICK j \in Fields : j = k /\ j > 0 /\ j < 2 * Bias + 1 /\ ~(j = 0 /\ f = 0)
  BY <1>1 DEF Fields
<1>3. PICK y \in Fields : y = k + i /\ y \in 1 .. 2 * Bias /\ y \in Int
  BY <1>1 DEF Fields
<1>4. d = Of(n, j, f) BY <1>2
<1>5. Field(HI(d)) = j /\ HI(d) = d.hi /\ LO(d) = d.lo /\ WithField(d, y) = Of(n, y, f)
  BY <1>4, FieldIs
<1>6. ~IsZero(HI(d), LO(d))
  <2>1. ~IsZero(d.hi, d.lo) BY <1>2, <1>4, SignOf
  <2> QED BY <2>1, <1>5, Zenon
<1>7. Field(HI(d)) # 0 /\ Field(HI(d)) # MaxExponent
  BY <1>1, <1>2, <1>5
<1>8. y = Overflowing(Field(HI(d)) - (IF Field(HI(d)) = 0 THEN two54 ELSE 0) + i)
  <2>1. Overflowing(y) = y
    BY <1>1, <1>3, OverflowingIs
  <2>2. Field(HI(d)) - (IF Field(HI(d)) = 0 THEN two54 ELSE 0) + i = y
    BY <1>1, <1>2, <1>3, <1>5
  <2> QED BY <2>1, <2>2, Zenon
<1>9. scalbn(d, i) = WithField(d, y)
  <2>1. d = IF Field(HI(d)) = 0 THEN Scaled(d, two54) ELSE d
    BY <1>7
  <2>2. ~(Field(HI(d)) = 0 /\ i < -Far) BY <1>7
  <2> QED BY <2>1, <2>2, <1>3, <1>6, <1>7, <1>8, ScalbnCases
<1>10. PICK m \in Nat : m = f + Fr /\ Fr <= m /\ m < 2 * Fr /\ m - Fr = f
  BY <1>1 DEF Fractions
<1>11. Times(d, i) = Composed(n, m, y - Bias - FracBits)
  <2>1. Pow(0) = 1 /\ 0 \in Nat
    BY PowType, 0 \in Nat
  <2>2. Mantissa(d) = f + Fr /\ Scale(d) = j - Bias - FracBits
    BY <1>2, <1>4, ValuesOf
  <2>3. m = Mantissa(d) * Pow(0) /\ Scale(d) = j + 0 - Bias - FracBits /\ j \in Int
    BY <2>1, <2>2, <1>1, <1>2, <1>10
  <2>4. Times(d, i) = Composed(n, m, j + i - Bias - FracBits)
    BY <2>1, <2>3, <1>2, <1>4, <1>10, TimesOf
  <2>5. y - Bias - FracBits = j + i - Bias - FracBits
    BY <1>1, <1>2, <1>3
  <2> QED BY <2>4, <2>5, Zenon
<1>12. Times(d, i) = Of(n, y, m - Fr)
  BY <1>3, <1>10, <1>11, NormalComposed
<1> QED BY <1>3, <1>5, <1>9, <1>10, <1>12

\* frexp of what is not finite, or zero.
LEMMA FrexpSame ==
  ASSUME NEW n \in BOOLEAN, NEW k \in Fields, NEW f \in Fractions, NEW d, d = Of(n, k, f),
         k = 2 * Bias + 1 \/ (k = 0 /\ f = 0), NEW parts, parts = frexp(d)
  PROVE  parts.val = d /\ parts.exp = 0
<1>1. ~finite(d) \/ IsZero(HI(d), LO(d))
  <2>1. (finite(d) <=> k < 2 * Bias + 1) /\ HI(d) = d.hi /\ LO(d) = d.lo
    BY FieldIs
  <2>2. IsZero(d.hi, d.lo) <=> k = 0 /\ f = 0
    BY SignOf
  <2>3. Bias \in Nat BY Format
  <2> QED BY <2>1, <2>2, <2>3
<1>2. parts = [val |-> d, exp |-> 0]
  BY <1>1, Zenon DEF frexp
<1> QED BY <1>2

\* frexp of another: the mantissa in [0.5, 1), and its exponent.
LEMMA FrexpIs ==
  ASSUME NEW n \in BOOLEAN, NEW k \in Fields, NEW f \in Fractions, k < 2 * Bias + 1, ~(k = 0 /\ f = 0),
         k > 0 \/ LittleEndian, NEW d, d = Of(n, k, f), NEW parts, parts = frexp(d)
  PROVE  \E e \in Int, g \in Fractions :
           /\ parts.val = Of(n, Bias - 1, g) /\ Bias - 1 \in Fields /\ parts.exp = e - (Bias - 1)
           /\ 1 - FracBits <= e /\ e <= 2 * Bias
           /\ k > 0 => e = k
           /\ k = 0 => \E t \in 0 .. FracBits - 1 : e = 1 - FracBits + t /\ Pow(t) <= f /\ f < Pow(t + 1)
           /\ scalbn(parts.val, parts.exp) = d
<1>1. FracBits \in Nat /\ Bias \in Nat /\ Fr \in Nat /\ Fr > 0 /\ Bias > FracBits /\ k \in Nat /\ FracBits >= 3
      /\ two54 = FracBits + 2 /\ Far \in Nat /\ Far > 2 * Bias + 2 + 2 * FracBits
      /\ Far + 2 * Bias + 2 < SignBit /\ SignBit \in Nat
  BY Format, FarIs, Products DEF Fields
<1> DEFINE z == IF Field(HI(d)) = 0 THEN Scaled(d, two54) ELSE d
<1>2. PICK e \in Int, g \in Fractions, v \in 1 .. 2 * Bias :
         /\ z = Of(n, v, g) /\ v \in Fields /\ Field(HI(z)) = v /\ Field(HI(d)) = k
         /\ v = e + (IF k = 0 THEN two54 ELSE 0)
         /\ 1 - FracBits <= e /\ e <= 2 * Bias
         /\ k > 0 => e = k
         /\ k = 0 => \E t \in 0 .. FracBits - 1 : e = 1 - FracBits + t /\ Pow(t) <= f /\ f < Pow(t + 1)
         /\ \A j \in Int : Times(d, j) = Composed(n, g + Fr, e + j - Bias - FracBits)
  BY Prepared
<1>3. finite(d) /\ ~IsZero(HI(d), LO(d))
  <2>1. (finite(d) <=> k < 2 * Bias + 1) /\ HI(d) = d.hi /\ LO(d) = d.lo
    BY FieldIs
  <2>2. IsZero(d.hi, d.lo) <=> k = 0 /\ f = 0
    BY SignOf
  <2> QED BY <2>1, <2>2, Zenon
<1>4. parts = [val |-> WithField(z, Bias - 1),
               exp |-> Field(HI(z)) - (Bias - 1) - (IF Field(HI(d)) = 0 THEN two54 ELSE 0)]
  BY <1>3, Zenon DEF frexp
<1> HIDE DEF z
<1>5. Bias - 1 \in Fields /\ Bias - 1 \in Int
  BY <1>1 DEF Fields
<1>6. parts.val = Of(n, Bias - 1, g)
  <2>1. WithField(z, Bias - 1) = Of(n, Bias - 1, g)
    BY <1>2, <1>5, FieldIs
  <2> QED BY <2>1, <1>4
<1>7. parts.exp = e - (Bias - 1)
  <2>1. Field(HI(z)) - (Bias - 1) - (IF Field(HI(d)) = 0 THEN two54 ELSE 0) = e - (Bias - 1)
    BY <1>1, <1>2
  <2> QED BY <2>1, <1>4
<1>8. PICK i \in -SignBit .. SignBit - 1 : i = e - (Bias - 1)
  BY <1>1, <1>2
<1>9. PICK r : r = Of(n, Bias - 1, g) OBVIOUS
<1>10. scalbn(r, i) = Times(r, i)
  <2>1. CASE k > 0
    <3>1. PICK b \in 1 .. 2 * Bias : b = Bias - 1 /\ b + i \in 1 .. 2 * Bias
      BY <1>1, <1>2, <1>8, <2>1
    <3>2. r = Of(n, b, g) /\ i \in Int
      BY <1>1, <1>9, <3>1
    <3> QED BY <3>1, <3>2, ScalbnNormal
  <2>2. CASE k = 0
    <3>1. LittleEndian BY <2>2
    <3> QED BY <3>1, <1>5, <1>9, ScalbnIs
  <2> QED BY <2>1, <2>2, <1>1
<1>11. PICK m \in Nat : m = g + Fr /\ m < 2 * Fr
  BY <1>1 DEF Fractions
<1>12. Times(r, i) = Composed(n, m, (Bias - 1) + i - Bias - FracBits)
  <2>1. Bias - 1 < 2 * Bias + 1 /\ Bias - 1 # 0 /\ i \in Int
    BY <1>1
  <2>2. Mantissa(r) = g + Fr /\ Scale(r) = (Bias - 1) - Bias - FracBits
    <3>1. PICK b \in Fields : b = Bias - 1 BY <1>5
    <3>2. b # 0 /\ r = Of(n, b, g)
      BY <2>1, <3>1, <1>9
    <3>3. Mantissa(Of(n, b, g)) = (IF b = 0 THEN g ELSE g + Fr)
          /\ Scale(Of(n, b, g)) = (IF b = 0 THEN 1 ELSE b) - Bias - FracBits
      BY ValuesOf
    <3>4. Mantissa(r) = g + Fr /\ Scale(r) = b - Bias - FracBits
      BY <3>2, <3>3
    <3> QED BY <3>1, <3>4, Zenon
  <2>3. Pow(0) = 1 BY PowType, 0 \in Nat
  <2>4. m = Mantissa(r) * Pow(0) /\ Scale(r) = (Bias - 1) + 0 - Bias - FracBits /\ 0 \in Nat
    BY <2>2, <2>3, <1>1, <1>11
  <2> QED BY <2>1, <2>4, <1>5, <1>9, <1>11, TimesOf
<1>13. (Bias - 1) + i - Bias - FracBits = e + 0 - Bias - FracBits /\ 0 \in Int
  BY <1>1, <1>8
<1>14. Times(d, 0) = d BY TimesIs, ValuesOf
<1>15. scalbn(parts.val, parts.exp) = d
  <2>1. Times(d, 0) = Composed(n, m, e + 0 - Bias - FracBits)
    BY <1>2, <1>11, <1>13
  <2>2. Times(r, i) = d BY <2>1, <1>12, <1>13, <1>14
  <2> QED BY <2>2, <1>6, <1>7, <1>8, <1>9, <1>10, Zenon
<1> QED BY <1>2, <1>5, <1>6, <1>7, <1>15

\* ilogb, with the highest bit of a subnormal number in either word.
LEMMA IlogbIs ==
  ASSUME NEW n \in BOOLEAN, NEW k \in Fields, NEW f \in Fractions, k < 2 * Bias + 1, ~(k = 0 /\ f = 0),
         NEW d, d = Of(n, k, f)
  PROVE  /\ k > 0 => ilogb(d) = k - Bias
         /\ \A t \in 0 .. FracBits - 1 : k = 0 /\ Pow(t) <= f /\ f < Pow(t + 1) =>
              ilogb(d) = 1 - FracBits + t - Bias
<1>1. FracBits \in Nat /\ Bias \in Nat /\ Hi \in Nat /\ Hi > 0 /\ Word \in Nat /\ Word > 0 /\ k \in Nat
      /\ f \in Nat /\ HighBits \in Nat /\ WordBits \in Nat /\ FracBits = HighBits + WordBits
      /\ WordBits >= 1
  BY Format DEF Fields, Fractions
<1>2. HI(d) = d.hi /\ LO(d) = d.lo /\ finite(d)
  BY FieldIs
<1>3. PICK g \in 0 .. Hi - 1, l \in 0 .. Word - 1 : g = f \div Word /\ l = f % Word /\ f = g * Word + l
  BY FieldsAre
<1>4. d.hi % SignBit = k * Hi + g /\ d.lo = l
  <2>1. d.hi % SignBit = k * Hi + (f \div Word) /\ d.lo = f % Word
    BY ValuesOf
  <2> QED BY <2>1, <1>3
<1>5. ilogb(d) = Ilogb(d.hi % SignBit, d.lo)
  <2>1. ~IsZero(d.hi, d.lo) BY SignOf
  <2> QED BY <2>1, <1>2, Zenon DEF ilogb
<1>6. 2 ^ HighBits = Hi BY PowersAre
<1>7. ASSUME k > 0 PROVE ilogb(d) = k - Bias
  <2>1. PICK y \in Nat : y = k * Hi + g /\ y >= Hi
    <3>1. 1 * Hi <= k * Hi /\ 1 * Hi = Hi /\ k * Hi \in Nat
      BY <1>1, <1>7, Products
    <3> QED BY <3>1, <1>1
  <2>2. y >= 2 ^ HighBits /\ ~(y \in 1 .. 2 ^ HighBits - 1) /\ y # 0
    <3>1. ~(y \in 1 .. Hi - 1) /\ y # 0
      BY <2>1, <1>1
    <3> QED BY <3>1, <2>1, <1>6
  <2>3. Ilogb(y, l) = Exponent(y)
    BY <2>2, Zenon DEF Ilogb
  <2>4. Exponent(d.hi) = k - Bias BY ValuesOf
  <2>5. Exponent(y) = Exponent(d.hi)
    <3>1. y % SignBit = y
      <4>1. d.hi % SignBit \in 0 .. SignBit - 1 /\ SignBit \in Nat /\ SignBit > 0
        <5>1. d.hi \in 0 .. Word - 1 BY ValuesOf
        <5> QED BY <5>1, SignIs, Format
      <4>2. 0 <= y /\ y < SignBit /\ y = SignBit * 0 + y
        BY <4>1, <2>1, <1>4
      <4> QED BY ONLY <4>1, <4>2, y \in Nat, 0 \in Int, y \in Int, DivModUnique
    <3> QED BY <3>1, <2>1, <1>4, Zenon DEF Exponent
  <2> QED BY <2>1, <2>3, <2>4, <2>5, <1>4, <1>5
<1>8. ASSUME NEW t \in 0 .. FracBits - 1, k = 0, Pow(t) <= f, f < Pow(t + 1)
      PROVE  ilogb(d) = 1 - FracBits + t - Bias
  <2>1. d.hi % SignBit = g
    <3>1. 0 * Hi + g = g BY <1>1
    <3> QED BY <3>1, <1>4, <1>8
  <2>2. Pow(WordBits) = Word BY PowersAre DEF Pow
  <2>3. CASE g > 0
    <3>1. f > 0 /\ g * Word >= Word /\ g * Word \in Nat
      <4>1. 1 * Word <= g * Word /\ 1 * Word = Word
        BY <1>1, <2>3, Products
      <4> QED BY <4>1, <1>1, <1>3
    <3>2. t >= WordBits
      <4>1. ASSUME t < WordBits PROVE FALSE
        <5>1. Pow(t + 1) <= Pow(WordBits)
          BY <4>1, <1>1, PowBelow
        <5>2. Pow(t + 1) \in Nat
          BY PowType, t + 1 \in Nat
        <5> QED BY <5>1, <5>2, <2>2, <3>1, <1>1, <1>3, <1>8
      <4> QED BY <4>1, <1>1
    <3>3. PICK s \in 0 .. HighBits - 1 : t = s + WordBits
      BY <3>2, <1>1
    <3>4. Pow(t) = Pow(s) * Word /\ Pow(t + 1) = Pow(s + 1) * Word /\ Pow(s) \in Nat /\ Pow(s + 1) \in Nat
      <4>1. t + 1 = (s + 1) + WordBits /\ s \in Nat /\ s + 1 \in Nat
        BY <3>3, <1>1
      <4>2. Pow(s + WordBits) = Pow(s) * Pow(WordBits)
        BY <4>1, <1>1, PowSum
      <4>3. Pow((s + 1) + WordBits) = Pow(s + 1) * Pow(WordBits)
        BY <4>1, <1>1, PowSum
      <4>4. Pow(s) \in Nat /\ Pow(s + 1) \in Nat
        BY <4>1, PowType
      <4> QED BY <4>1, <4>2, <4>3, <4>4, <3>3, <2>2, Zenon
    <3>5. Pow(s) <= g /\ g < Pow(s + 1)
      <4>1. ASSUME g < Pow(s) PROVE FALSE
        <5>1. g * Word + l < Pow(s) * Word
          BY <4>1, <3>4, <1>1, Products
        <5> QED BY <5>1, <3>4, <1>3, <1>8, <1>1
      <4>2. ASSUME Pow(s + 1) <= g PROVE FALSE
        <5>1. Pow(s + 1) * Word <= g * Word
          BY <4>2, <3>4, <1>1, Products
        <5>2. Pow(s + 1) * Word \in Nat
          BY <3>4, <1>1
        <5> QED BY <5>1, <5>2, <3>1, <3>4, <1>3, <1>8, <1>1
      <4> QED BY <4>1, <4>2, <3>4, <1>1
    <3>6. Top(g) = s
      <4>1. s \in Nat /\ s <= 2 * WordBits /\ g \in Nat
        BY <1>1, Format
      <4> QED BY <4>1, <3>5, TopIs
    <3>7. g \in 1 .. 2 ^ HighBits - 1 /\ ~(g >= 2 ^ HighBits) /\ g # 0
      BY <1>6, <2>3, <1>1
    <3>8. Ilogb(g, l) = 1 - Bias - (HighBits - Top(g))
      BY <3>7, Zenon DEF Ilogb
    <3>9. Ilogb(g, l) = 1 - Bias - (HighBits - s)
      BY <3>6, <3>8
    <3>10. 1 - Bias - (HighBits - s) = 1 - FracBits + t - Bias
      BY <3>3, <1>1
    <3> QED BY <3>9, <3>10, <2>1, <1>4, <1>5
  <2>4. CASE g = 0
    <3>1. f = l
      <4>1. 0 * Word + l = l BY <1>1
      <4> QED BY <4>1, <2>4, <1>3
    <3>2. t < WordBits
      <4>1. ASSUME t >= WordBits PROVE FALSE
        <5>1. Pow(WordBits) <= Pow(t)
          BY <4>1, <1>1, PowBelow
        <5>2. Pow(t) \in Nat BY PowType, t \in Nat
        <5> QED BY <5>1, <5>2, <2>2, <3>1, <1>1, <1>8
      <4> QED BY <4>1, <1>1
    <3>3. Top(l) = t
      <4>1. t \in Nat /\ t <= 2 * WordBits /\ l \in Nat
        BY <3>2, <1>1
      <4> QED BY <4>1, <3>1, <1>8, TopIs
    <3>4. g = 0 /\ ~(g >= 2 ^ HighBits) /\ ~(g \in 1 .. 2 ^ HighBits - 1)
      BY <1>6, <2>4, <1>1
    <3>5. Ilogb(g, l) = -Bias - HighBits - (WordBits - 1 - Top(l))
      BY <3>4, Zenon DEF Ilogb
    <3>6. -Bias - HighBits - (WordBits - 1 - t) = 1 - FracBits + t - Bias
      BY <1>1
    <3> QED BY <3>3, <3>5, <3>6, <2>1, <1>4, <1>5
  <2> QED BY <2>3, <2>4, <1>1
<1> QED BY <1>7, <1>8

\* logb of a number that is not subnormal.
LEMMA LogbIs ==
  ASSUME NEW n \in BOOLEAN, NEW k \in 1 .. 2 * Bias, NEW f \in Fractions, NEW d, d = Of(n, k, f)
  PROVE  logb(d) = View(ToDouble(k - Bias))
<1>1. Bias \in Nat /\ Hi \in Nat /\ Hi > 0 /\ Word \in Nat /\ Word > 0 /\ k \in Nat /\ SignBit \in Nat /\ SignBit > 0
  BY Format
<1>9. PICK b \in Fields : b = k /\ b < 2 * Bias + 1 /\ ~(b = 0 /\ f = 0) /\ d = Of(n, b, f) /\ b > 0
  BY <1>1 DEF Fields
<1>2. HI(d) = d.hi /\ LO(d) = d.lo /\ finite(d)
  BY <1>9, FieldIs
<1>3. PICK g \in 0 .. Hi - 1 : d.hi % SignBit = k * Hi + g /\ d.hi % SignBit \in 0 .. SignBit - 1
  <2>1. d.hi % SignBit = b * Hi + (f \div Word) /\ d.hi \in 0 .. Word - 1
    BY <1>9, ValuesOf
  <2>2. f \div Word \in 0 .. Hi - 1 BY FieldsAre
  <2>3. d.hi % SignBit \in 0 .. SignBit - 1
    BY <2>1, SignIs
  <2> QED BY <2>1, <2>2, <2>3, <1>9
<1>4. PICK ix \in 0 .. SignBit - 1 : ix = d.hi % SignBit /\ ix = k * Hi + g
  BY <1>3
<1>5. ~(ix < 2 ^ HighBits)
  <2>1. 1 * Hi <= k * Hi /\ 1 * Hi = Hi /\ k * Hi \in Nat
    BY <1>1, Products
  <2>2. ~(ix < Hi) BY <2>1, <1>1, <1>4
  <2>3. 2 ^ HighBits = Hi BY PowersAre
  <2> QED BY <2>2, <2>3, Zenon
<1>6. Exponent(ix) = k - Bias
  <2>1. Exponent(d.hi) = b - Bias BY <1>9, ValuesOf
  <2>2. ix % SignBit = ix
    <3>1. 0 <= ix /\ ix < SignBit /\ ix = SignBit * 0 + ix /\ ix \in Int
      BY <1>1
    <3> QED BY ONLY <3>1, <1>1, 0 \in Int, DivModUnique
  <2>3. Exponent(ix) = Exponent(d.hi)
    BY <2>2, <1>4, Zenon DEF Exponent
  <2> QED BY <2>1, <2>3, <1>9
<1>7. ~IsZero(d.hi, d.lo) BY <1>9, SignOf
<1>8. logb(d) = View(ToDouble(IF ix < 2 ^ HighBits THEN 1 - Bias ELSE Exponent(ix)))
  BY <1>2, <1>4, <1>7, Zenon DEF logb
<1> QED BY <1>5, <1>6, <1>8, Zenon

\* copysign.
LEMMA CopysignIs ==
  ASSUME NEW d \in AllDoubles, NEW e \in AllDoubles
  PROVE  copysign(d, e) = Double(Negative(e.hi), Magnitude(d))
<1>1. PICK n \in BOOLEAN : n = Negative(e.hi)
  BY DoubleOf
<1>2. Sign(e.hi) = IF n THEN SignBit ELSE 0
  BY <1>1, DoubleOf, SignIs
<1>3. copysign(d, e) = Words((d.hi % SignBit) + (IF n THEN SignBit ELSE 0), d.lo)
  BY <1>2 DEF copysign, HI, LO
<1>4. Words((d.hi % SignBit) + (IF n THEN SignBit ELSE 0), d.lo) = Double(n, Magnitude(d))
  BY SignedAs
<1> QED BY <1>1, <1>3, <1>4

\* The words of a double by its magnitude.
LEMMA WordsOf ==
  ASSUME NEW n \in BOOLEAN, NEW m \in 0 .. All - 1, NEW d, d = Double(n, m)
  PROVE  \E h \in 0 .. SignBit - 1, l \in 0 .. Word - 1 :
           /\ m = h * Word + l
           /\ HI(d) = (IF n THEN SignBit ELSE 0) + h /\ LO(d) = l /\ HI(d) \in Nat
           /\ Overflowing(HI(d)) = IF n THEN h - SignBit ELSE h
           /\ Negative(HI(d)) <=> n
           /\ IsZero(HI(d), LO(d)) <=> m = 0
           /\ Sign(HI(d)) = IF n THEN SignBit ELSE 0
<1>1. Word \in Nat /\ Word > 0 /\ SignBit \in Nat /\ SignBit > 0 /\ Word = 2 * SignBit /\ All \in Nat
  BY Format, AllIs
<1>2. d \in AllDoubles /\ Magnitude(d) = m /\ (Negative(d.hi) <=> n) /\ d.hi % SignBit = m \div Word
      /\ d.lo = m % Word /\ m \div Word \in 0 .. SignBit - 1
  BY DoubleIs
<1>3. d.hi \in 0 .. Word - 1 /\ d.hi = Sign(d.hi) + (d.hi % SignBit)
      /\ (Negative(d.hi) => Sign(d.hi) = SignBit) /\ (~Negative(d.hi) => Sign(d.hi) = 0)
  <2>1. d.hi \in 0 .. Word - 1 BY <1>2, DoubleOf
  <2> QED BY <2>1, SignIs
<1>4. PICK h \in 0 .. SignBit - 1, l \in 0 .. Word - 1 : h = m \div Word /\ l = m % Word /\ m = h * Word + l
  <2>1. m \in Int /\ m = Word * (m \div Word) + (m % Word) /\ m % Word \in Nat /\ m % Word < Word
    BY <1>1, DivMod
  <2>2. Word * (m \div Word) = (m \div Word) * Word
    BY <1>1, <1>2
  <2> QED BY <2>1, <2>2, <1>1, <1>2
<1>5. HI(d) = d.hi /\ LO(d) = d.lo BY DEF HI, LO
<1>6. d.hi = (IF n THEN SignBit ELSE 0) + h /\ Sign(d.hi) = IF n THEN SignBit ELSE 0
  BY <1>2, <1>3, <1>4
<1>7. Overflowing(d.hi) = IF n THEN h - SignBit ELSE h
  <2>1. PICK i \in Int : i = d.hi BY <1>3
  <2>2. CASE n
    <3>2. i = SignBit + h BY <2>1, <2>2, <1>6
    <3>1. SignBit <= i /\ i < SignBit + Word /\ i - Word = h - SignBit
      BY ONLY <3>2, <1>1, h \in 0 .. SignBit - 1
    <3> QED BY <3>1, <2>1, <2>2, OverflowingIs
  <2>3. CASE ~n
    <3>1. -SignBit <= i /\ i < SignBit /\ i = h
      BY <2>1, <2>3, <1>1, <1>6
    <3> QED BY <3>1, <2>1, <2>3, OverflowingIs
  <2> QED BY <2>2, <2>3
<1>8. IsZero(d.hi, d.lo) <=> m = 0
  <2>1. IsZero(d.hi, d.lo) <=> h = 0 /\ l = 0
    BY <1>2, <1>4 DEF IsZero
  <2>2. h > 0 => h * Word > 0 BY <1>1, Products
  <2>3. h * Word \in Nat /\ (h = 0 => h * Word = 0)
    BY <1>1
  <2> QED BY <2>1, <2>2, <2>3, <1>1, <1>4
<1>9. (IF n THEN SignBit ELSE 0) + h \in Nat /\ d.lo = l
  BY <1>1, <1>2, <1>4
<1> QED BY <1>2, <1>4, <1>5, <1>6, <1>7, <1>8, <1>9

\* The words of two doubles are compared as the doubles are, of one sign without it.
LEMMA BeyondIs ==
  ASSUME NEW n \in BOOLEAN, NEW m \in 0 .. All - 1, NEW d, d = Double(n, m),
         NEW p \in BOOLEAN, NEW q \in 0 .. All - 1, NEW e, e = Double(p, q)
  PROVE  /\ (n <=> p) => (Beyond(d, e) <=> m > q)
         /\ ~n /\ p => Beyond(d, e)
<1>1. Word \in Nat /\ Word > 0 /\ SignBit \in Nat /\ SignBit > 0 /\ All \in Nat
  BY Format, AllIs
<1>2. PICK h \in 0 .. SignBit - 1, l \in 0 .. Word - 1 :
        m = h * Word + l /\ LO(d) = l /\ Overflowing(HI(d)) = IF n THEN h - SignBit ELSE h
  BY WordsOf
<1>3. PICK g \in 0 .. SignBit - 1, k \in 0 .. Word - 1 :
        q = g * Word + k /\ LO(e) = k /\ Overflowing(HI(e)) = IF p THEN g - SignBit ELSE g
  BY WordsOf
<1>4. h * Word + l <= g * Word + k <=> h < g \/ (h = g /\ l <= k)
  BY WordOrder, <1>1
<1>5. m > q <=> h > g \/ (h = g /\ l > k)
  BY <1>1, <1>2, <1>3, <1>4
<1>6. Beyond(d, e) <=> Overflowing(HI(d)) > Overflowing(HI(e))
                         \/ (Overflowing(HI(d)) = Overflowing(HI(e)) /\ l > k)
  BY <1>2, <1>3 DEF Beyond
<1> QED BY <1>1, <1>2, <1>3, <1>5, <1>6

\* One further, one nearer to zero, with a carry or a borrow between the words.
LEMMA OneFurtherIs ==
  ASSUME NEW n \in BOOLEAN, NEW m \in 0 .. All - 1, NEW d, d = Double(n, m)
  PROVE  /\ m + 1 < All => OneFurther(d) = Double(n, m + 1)
         /\ m > 0 => OneNearer(d) = Double(n, m - 1)
<1>1. Word \in Nat /\ Word > 1 /\ SignBit \in Nat /\ SignBit > 0 /\ All \in Nat /\ All = SignBit * Word
  BY Format, AllIs DEF All
<1>2. PICK h \in 0 .. SignBit - 1, l \in 0 .. Word - 1 :
        m = h * Word + l /\ LO(d) = l /\ HI(d) = (IF n THEN SignBit ELSE 0) + h
  BY WordsOf
<1>3. ASSUME m + 1 < All PROVE OneFurther(d) = Double(n, m + 1)
  <2>1. CASE l = Word - 1
    <3>1. (h + 1) * Word = h * Word + Word /\ h * Word \in Nat
      BY <1>1
    <3>2. h + 1 < SignBit
      <4>1. ASSUME h + 1 >= SignBit PROVE FALSE
        <5>1. SignBit * Word <= (h + 1) * Word
          BY <4>1, <1>1, Products
        <5> QED BY <5>1, <3>1, <2>1, <1>1, <1>2, <1>3
      <4> QED BY <4>1, <1>1
    <3>3. PICK i \in 0 .. SignBit - 1 : i = h + 1
      BY <3>2, <1>1
    <3>4. Words((IF n THEN SignBit ELSE 0) + i, 0) = Double(n, i * Word + 0)
      <4>1. 0 \in 0 .. Word - 1 BY <1>1
      <4> QED BY <4>1, WordsAre
    <3>5. i * Word + 0 = m + 1 /\ HI(d) + 1 = (IF n THEN SignBit ELSE 0) + i
      BY <3>1, <3>3, <2>1, <1>1, <1>2
    <3>6. OneFurther(d) = Words(HI(d) + 1, 0)
      BY <2>1, <1>2 DEF OneFurther
    <3> QED BY <3>4, <3>5, <3>6
  <2>2. CASE l # Word - 1
    <3>1. PICK i \in 0 .. Word - 1 : i = l + 1
      BY <2>2, <1>1
    <3>2. Words((IF n THEN SignBit ELSE 0) + h, i) = Double(n, h * Word + i)
      BY WordsAre
    <3>3. h * Word + i = m + 1
      <4>1. h * Word \in Nat BY <1>1
      <4> QED BY <4>1, <3>1, <1>2
    <3>4. OneFurther(d) = Words(HI(d), l + 1)
      BY <2>2, <1>2 DEF OneFurther
    <3> QED BY <3>1, <3>2, <3>3, <3>4, <1>2
  <2> QED BY <2>1, <2>2
<1>4. ASSUME m > 0 PROVE OneNearer(d) = Double(n, m - 1)
  <2>1. CASE l = 0
    <3>1. h > 0
      <4>1. h = 0 => h * Word = 0 BY <1>1
      <4> QED BY <4>1, <2>1, <1>2, <1>4
    <3>2. PICK i \in 0 .. SignBit - 1 : i = h - 1 /\ h = i + 1
      BY <3>1, <1>1
    <3>3. (i + 1) * Word = i * Word + Word /\ i * Word \in Nat
      BY <1>1
    <3>4. PICK r \in 0 .. Word - 1 : r = Word - 1
      BY <1>1
    <3>5. Words((IF n THEN SignBit ELSE 0) + i, r) = Double(n, i * Word + r)
      BY WordsAre
    <3>6. i * Word + r = m - 1
      <4>2. h * Word = (i + 1) * Word /\ m = h * Word + 0
        BY <3>2, <2>1, <1>2
      <4>1. m = i * Word + Word BY <4>2, <3>3, <1>1
      <4> QED BY <4>1, <3>3, <3>4, <1>1
    <3>7. HI(d) - 1 = (IF n THEN SignBit ELSE 0) + i
      BY <3>2, <1>1, <1>2
    <3>8. OneNearer(d) = Words(HI(d) - 1, Word - 1)
      BY <2>1, <1>2 DEF OneNearer
    <3> QED BY <3>4, <3>5, <3>6, <3>7, <3>8
  <2>2. CASE l # 0
    <3>1. PICK i \in 0 .. Word - 1 : i = l - 1
      BY <2>2, <1>1
    <3>2. Words((IF n THEN SignBit ELSE 0) + h, i) = Double(n, h * Word + i)
      BY WordsAre
    <3>3. h * Word + i = m - 1
      <4>1. h * Word \in Nat BY <1>1
      <4> QED BY <4>1, <3>1, <1>2
    <3>4. OneNearer(d) = Words(HI(d), l - 1)
      BY <2>2, <1>2 DEF OneNearer
    <3> QED BY <3>1, <3>2, <3>3, <3>4, <1>2
  <2> QED BY <2>1, <2>2
<1> QED BY <1>3, <1>4

\* The order of doubles, by their signs and magnitudes.
LEMMA OrderIs ==
  ASSUME NEW n \in BOOLEAN, NEW m \in 0 .. All - 1, NEW d, d = Double(n, m)
  PROVE  /\ Order(d) = (IF n THEN -m ELSE m) /\ Magnitude(d) = m /\ Negative(d.hi) = n /\ d \in AllDoubles
         /\ IsNaN(d) <=> m > Infinity
<1>1. d \in AllDoubles /\ Magnitude(d) = m /\ (Negative(d.hi) <=> n)
  BY DoubleIs
<1>2. Negative(d.hi) \in BOOLEAN BY <1>1, DoubleOf
<1>3. Negative(d.hi) = n BY <1>1, <1>2
<1> QED BY <1>1, <1>3 DEF Order, IsNaN

\* finite and isnan, as booleans.
LEMMA TestsAre ==
  ASSUME NEW d \in AllDoubles
  PROVE  finite(d) = Finite(d) /\ isnan(d) = IsNaN(d)
<1>1. PICK n \in BOOLEAN, k \in Fields, f \in Fractions : d = Of(n, k, f)
  BY PartsOf
<1>2. (finite(d) <=> k < 2 * Bias + 1) /\ (isnan(d) <=> k = 2 * Bias + 1 /\ f > 0)
  BY <1>1, FieldIs
<1>3. (Finite(d) <=> k < 2 * Bias + 1) /\ (IsNaN(d) <=> k = 2 * Bias + 1 /\ f > 0)
  BY <1>1, ValuesOf
<1>4. HI(d) = d.hi /\ LO(d) = d.lo /\ d.hi \in 0 .. Word - 1 /\ d.lo \in 0 .. Word - 1
  BY DoubleOf DEF HI, LO
<1>5. d.hi % SignBit \in Nat /\ SignBit \in Nat
  BY <1>4, SignIs, Format
<1>6. Magnitude(d) \in Nat /\ Infinity \in Nat
  BY DoubleOf, AllIs
<1>7. finite(d) \in BOOLEAN /\ isnan(d) \in BOOLEAN
  <2>1. PICK c \in Nat : c = MaxExponent * 2 ^ HighBits
    <3>1. MaxExponent \in Nat /\ 2 ^ HighBits = Hi /\ Hi \in Nat
      BY FarIs, PowersAre, Format
    <3> QED BY <3>1
  <2>2. PICK a \in Nat : a = d.hi % SignBit BY <1>5
  <2>3. finite(d) = (a < c)
    BY <2>1, <2>2, <1>4, Zenon DEF finite
  <2>4. isnan(d) = (a + (IF d.lo = 0 THEN 0 ELSE 1) > c)
    BY <2>1, <2>2, <1>4, Zenon DEF isnan
  <2>5. (a < c) \in BOOLEAN /\ (a + (IF d.lo = 0 THEN 0 ELSE 1) > c) \in BOOLEAN
    OBVIOUS
  <2> QED BY <2>3, <2>4, <2>5
<1>8. Finite(d) \in BOOLEAN /\ IsNaN(d) \in BOOLEAN
  BY <1>6 DEF Finite, IsNaN
<1>9. finite(d) = Finite(d)
  BY <1>2, <1>3, <1>7, <1>8, Zenon
<1>10. isnan(d) = IsNaN(d)
  BY <1>2, <1>3, <1>7, <1>8, Zenon
<1> QED BY <1>9, <1>10

\* Which doubles the exponent of infinity is in.
LEMMA FieldMax ==
  ASSUME NEW n \in BOOLEAN, NEW m \in 0 .. All - 1, NEW d, d = Double(n, m)
  PROVE  Field(HI(d)) = MaxExponent <=> m >= Infinity
<1>1. d \in AllDoubles /\ Magnitude(d) = m
  BY OrderIs
<1>2. PICK p \in BOOLEAN, k \in Fields, f \in Fractions : d = Of(p, k, f)
  BY <1>1, PartsOf
<1>3. Field(HI(d)) = k /\ (Finite(d) <=> k < 2 * Bias + 1)
  BY <1>2, FieldIs, ValuesOf
<1>4. MaxExponent = 2 * Bias + 1 /\ Bias \in Nat /\ k \in Nat /\ k <= 2 * Bias + 1
  BY FarIs, Format DEF Fields
<1>5. Infinity \in Nat /\ All \in Nat BY AllIs
<1>6. Finite(d) <=> m < Infinity BY <1>1 DEF Finite
<1> QED BY <1>3, <1>4, <1>5, <1>6

\* The largest double that is finite, added to itself.
LEMMA LargestIs ==
  ASSUME LittleEndian, NEW n \in BOOLEAN, NEW m \in 0 .. All - 1, m + 1 = Infinity, NEW d, d = Double(n, m)
  PROVE  Scaled(d, 1) = Double(n, Infinity)
<1>1. FracBits \in Nat /\ Bias \in Nat /\ Fr \in Nat /\ Fr > 0 /\ Infinity = (2 * Bias + 1) * Fr /\ Infinity \in Nat
  BY Format, Products, AllIs, PowersAre
<1>2. PICK k \in Fields : k = 2 * Bias
  BY <1>1 DEF Fields
<1>3. PICK f \in Fractions : f = Fr - 1
  BY <1>1 DEF Fractions
<1>4. m = k * Fr + f
  <2>1. (2 * Bias + 1) * Fr = (2 * Bias) * Fr + Fr /\ (2 * Bias) * Fr \in Nat
    BY <1>1
  <2> QED BY <2>1, <1>1, <1>2, <1>3
<1>5. d = Of(n, k, f) BY <1>4 DEF Of
<1>6. Bias > 0 /\ k # 0 /\ k < 2 * Bias + 1
  BY <1>1, <1>2, Format
<1>7. PICK l \in Nat : l = f + Fr /\ Fr <= l /\ l < 2 * Fr
  BY <1>1, <1>3
<1>8. Mantissa(d) = f + Fr /\ Scale(d) = k - Bias - FracBits
  BY <1>5, <1>6, ValuesOf
<1>9. Pow(0) = 1 /\ 0 \in Nat BY PowType, 0 \in Nat
<1>10. l = Mantissa(d) * Pow(0) /\ Scale(d) = k + 0 - Bias - FracBits /\ k \in Int
  BY <1>1, <1>2, <1>7, <1>8, <1>9
<1>11. Times(d, 1) = Composed(n, l, k + 1 - Bias - FracBits)
  BY <1>5, <1>6, <1>7, <1>9, <1>10, 1 \in Int, TimesOf
<1>12. PICK y \in Int : y = k + 1 /\ y > 2 * Bias /\ y - Bias - FracBits = k + 1 - Bias - FracBits
  BY <1>1, <1>2
<1>13. Composed(n, l, y - Bias - FracBits) = Of(n, 2 * Bias + 1, 0)
  BY <1>7, <1>12, NormalComposed
<1>14. Of(n, 2 * Bias + 1, 0) = Double(n, Infinity)
  <2>1. (2 * Bias + 1) * Fr + 0 = Infinity BY <1>1
  <2> QED BY <2>1 DEF Of
<1>15. Times(d, 1) = Double(n, Infinity)
  BY <1>11, <1>12, <1>13, <1>14, Zenon
<1> QED BY <1>15, ViewIsSame

\* What nextafter returns of doubles of different order.
LEMMA NextIs ==
  ASSUME NEW d \in AllDoubles, NEW e \in AllDoubles, ~IsNaN(d), ~IsNaN(e), Order(d) # Order(e), ~Same(d, e),
         NEW to \in Int, to = Order(d) + (IF Order(d) < Order(e) THEN 1 ELSE -1),
         to \in -Infinity + 1 .. Infinity - 1 \/ LittleEndian, NEW z, z = nextafter(d, e)
  PROVE  /\ Order(z) = to
         /\ Magnitude(z) > 0 /\ Magnitude(d) > 0 => Negative(z.hi) = Negative(d.hi)
<1>1. PICK n \in BOOLEAN, m \in 0 .. All - 1 : d = Double(n, m)
  BY DoubleOf
<1>2. PICK p \in BOOLEAN, q \in 0 .. All - 1 : e = Double(p, q)
  BY DoubleOf
<1>3. Order(d) = (IF n THEN -m ELSE m) /\ Magnitude(d) = m /\ Negative(d.hi) = n /\ m <= Infinity
  BY <1>1, OrderIs, AllIs
<1>4. Order(e) = (IF p THEN -q ELSE q) /\ q <= Infinity
  BY <1>2, OrderIs, AllIs
<1>5. Infinity \in Nat /\ All \in Nat /\ Infinity < All /\ Word \in Nat /\ Word > 1 /\ SignBit \in Nat /\ SignBit > 0
  BY AllIs, Format
<1>6. (Negative(HI(d)) <=> n) /\ (IsZero(HI(d), LO(d)) <=> m = 0)
  BY <1>1, WordsOf
<1>7. (Negative(HI(e)) <=> p) /\ Sign(HI(e)) = IF p THEN SignBit ELSE 0
  BY <1>2, WordsOf
<1>8. ~(isnan(d) \/ isnan(e)) /\ ~(~isnan(d) /\ ~isnan(e) /\ Same(d, e))
  BY TestsAre
<1> DEFINE down == IF ~Negative(HI(d)) THEN Beyond(d, e) ELSE ~Negative(HI(e)) \/ Beyond(d, e)
<1> DEFINE next == IF down THEN OneNearer(d) ELSE OneFurther(d)
<1>9. z = IF IsZero(HI(d), LO(d)) THEN Words(Sign(HI(e)), 1)
          ELSE IF Field(HI(next)) = MaxExponent THEN Scaled(d, 1) ELSE next
  BY <1>8, Zenon DEF nextafter
<1>10. /\ (n <=> p) => (Beyond(d, e) <=> m > q)
       /\ ~n /\ p => Beyond(d, e)
  BY <1>1, <1>2, BeyondIs
<1>11. down <=> IF n THEN ~p \/ m > q ELSE p \/ m > q
  BY <1>6, <1>7, <1>10
<1>15. next = IF down THEN OneNearer(d) ELSE OneFurther(d)
  OBVIOUS
<1> HIDE DEF down, next
<1>12. CASE m = 0
  <2>1. z = Words((IF p THEN SignBit ELSE 0) + 0, 1)
    <3>1. (IF p THEN SignBit ELSE 0) + 0 = IF p THEN SignBit ELSE 0
      BY <1>5
    <3> QED BY <3>1, <1>6, <1>7, <1>9, <1>12
  <2>2. 0 \in 0 .. SignBit - 1 /\ 1 \in 0 .. Word - 1 /\ 0 * Word + 1 = 1
    BY <1>5
  <2>3. z = Double(p, 1) /\ 1 \in 0 .. All - 1
    BY <2>1, <2>2, WordsAre
  <2>4. Order(z) = IF p THEN -1 ELSE 1
    BY <2>3, OrderIs
  <2>5. Order(d) = 0
    <3>1. m \in Int BY <1>5
    <3>2. -m = 0 BY <3>1, <1>12, MinusZero
    <3> QED BY <3>2, <1>3, <1>12
  <2>6. q # 0
    <3>2. q \in Int BY <1>5
    <3>3. q = 0 => -q = 0 BY <3>2, MinusZero
    <3>1. q = 0 => Order(e) = 0 BY <3>3, <1>4
    <3> QED BY <3>1, <2>5
  <2>7. Order(d) < Order(e) <=> ~p
    BY <2>5, <2>6, <1>4, <1>5
  <2> QED BY <2>4, <2>5, <2>7, <1>3, <1>12
<1>13. CASE m # 0 /\ down
  <2>4. PICK l \in 0 .. All - 1 : l = m - 1 /\ l < Infinity
    BY <1>3, <1>5, <1>13
  <2>5. next = Double(n, l)
    BY <2>4, <1>1, <1>5, <1>13, <1>15, OneFurtherIs
  <2>6. Field(HI(next)) # MaxExponent
    BY <2>4, <2>5, FieldMax, <1>5
  <2>1. z = Double(n, m - 1) /\ m - 1 \in 0 .. All - 1
    BY <2>4, <2>5, <2>6, <1>6, <1>9, <1>13
  <2>2. Order(z) = (IF n THEN -(m - 1) ELSE m - 1) /\ Negative(z.hi) = n
    BY <2>1, OrderIs
  <2>3. Order(d) < Order(e) <=> n
    BY <1>3, <1>4, <1>5, <1>11, <1>13
  <2>7. to = IF n THEN -(m - 1) ELSE m - 1
    BY <2>3, <1>3, <1>5
  <2> QED BY <2>2, <2>7, <1>3, Zenon
<1>14. CASE m # 0 /\ ~down
  <2>1. m < q /\ (n <=> p)
    BY <1>3, <1>4, <1>5, <1>11, <1>14
  <2>2. m + 1 < All BY <2>1, <1>4, <1>5
  <2>6. PICK l \in 0 .. All - 1 : l = m + 1 /\ l <= Infinity
    BY <2>1, <2>2, <1>4, <1>5
  <2>7. next = Double(n, l)
    BY <2>2, <2>6, <1>1, <1>14, <1>15, OneFurtherIs
  <2>8. ASSUME l < Infinity PROVE z = Double(n, l)
    <3>1. Field(HI(next)) # MaxExponent
      BY <2>7, <2>8, FieldMax, <1>5
    <3> QED BY <3>1, <2>6, <2>7, <1>6, <1>9, <1>14
  <2>9. ASSUME l = Infinity PROVE z = Double(n, l)
    <3>1. Field(HI(next)) = MaxExponent
      BY <2>7, <2>9, FieldMax, <1>5
    <3>2. to = (IF n THEN -l ELSE l)
      BY <2>1, <2>6, <1>3, <1>4, <1>5
    <3>3. LittleEndian BY <3>2, <2>9, <1>5
    <3>4. Scaled(d, 1) = Double(n, Infinity)
      BY <3>3, <2>6, <2>9, <1>1, LargestIs
    <3> QED BY <3>1, <3>4, <2>6, <2>9, <1>6, <1>9, <1>14
  <2>3. z = Double(n, m + 1) /\ m + 1 \in 0 .. All - 1
    BY <2>6, <2>8, <2>9, <1>5
  <2>4. Order(z) = (IF n THEN -(m + 1) ELSE m + 1) /\ Negative(z.hi) = n
    BY <2>3, OrderIs
  <2>5. Order(d) < Order(e) <=> ~n
    BY <2>1, <1>3, <1>4, <1>5
  <2>10. to = IF n THEN -(m + 1) ELSE m + 1
    BY <2>5, <1>3, <1>5
  <2> QED BY <2>4, <2>10, <1>3, Zenon
<1> QED BY <1>12, <1>13, <1>14

\* nextafter from x to any other.
LEMMA NextAdjacent ==
  ASSUME x \in AllDoubles, NEW y \in AllDoubles
  PROVE  NextIsAdjacent(y)
<1>0. PICK v \in AllDoubles : v = View(x) BY ViewIs
<1>1. isnan(v) = IsNaN(v) /\ isnan(y) = IsNaN(y)
  BY TestsAre
<1>2. ASSUME LittleEndian, IsNaN(v) \/ IsNaN(y) PROVE IsNaN(nextafter(v, y))
  <2>1. nextafter(v, y) = Arith(NaN, v)
    BY <1>1, <1>2, Zenon DEF nextafter
  <2> QED BY <2>1, <1>2, ViewIsSame, NaNIs
<1>3. PICK to \in Int : to = Order(v) + (IF Order(v) < Order(y) THEN 1 ELSE -1)
  <2>1. Order(v) \in Int
    <3>1. PICK n \in BOOLEAN, m \in 0 .. All - 1 : v = Double(n, m)
      BY DoubleOf
    <3>2. Order(v) = (IF n THEN -m ELSE m)
      BY <3>1, OrderIs
    <3>3. All \in Nat BY AllIs
    <3> QED BY <3>2, <3>3
  <2> QED BY <2>1
<1>4. ASSUME ~IsNaN(v), ~IsNaN(y), Order(v) # Order(y), ~Same(v, y),
             to \in -Infinity + 1 .. Infinity - 1 \/ LittleEndian
      PROVE  /\ Order(nextafter(v, y)) = to
             /\ Magnitude(nextafter(v, y)) > 0 /\ Magnitude(v) > 0 =>
                  Negative(nextafter(v, y).hi) = Negative(v.hi)
  BY <1>3, <1>4, NextIs
<1> QED BY <1>0, <1>2, <1>3, <1>4, Zenon DEF NextIsAdjacent

\* The exponents that frexp, ilogb and logb return agree.
LEMMA ExponentsAgree ==
  ASSUME NEW n \in BOOLEAN, NEW k \in Fields, NEW f \in Fractions, k < 2 * Bias + 1, ~(k = 0 /\ f = 0),
         k > 0 \/ LittleEndian, NEW d, d = Of(n, k, f), NEW parts, parts = frexp(d)
  PROVE  /\ scalbn(parts.val, parts.exp) = d
         /\ ilogb(parts.val) = -1 /\ ilogb(d) = parts.exp - 1
<1>1. Bias \in Nat /\ FracBits \in Nat /\ Bias > FracBits /\ FracBits >= 3 /\ k \in Nat
  BY Format DEF Fields
<1>2. PICK e \in Int, g \in Fractions :
         /\ parts.val = Of(n, Bias - 1, g) /\ Bias - 1 \in Fields /\ parts.exp = e - (Bias - 1)
         /\ 1 - FracBits <= e /\ e <= 2 * Bias
         /\ k > 0 => e = k
         /\ k = 0 => \E t \in 0 .. FracBits - 1 : e = 1 - FracBits + t /\ Pow(t) <= f /\ f < Pow(t + 1)
         /\ scalbn(parts.val, parts.exp) = d
  BY FrexpIs
<1>3. PICK j \in Int : j = e - (Bias - 1) /\ parts.exp = j
  BY <1>1, <1>2
<1>4. ilogb(parts.val) = -1
  <2>1. PICK b \in Fields : b = Bias - 1 BY <1>2
  <2>2. b > 0 /\ b < 2 * Bias + 1 /\ b - Bias = -1 /\ ~(b = 0 /\ g = 0)
    BY <2>1, <1>1
  <2>3. PICK v : v = Of(n, b, g) /\ v = parts.val
    BY <2>1, <1>2
  <2>4. ilogb(v) = b - Bias
    <3>1. v = Of(n, b, g) /\ b < 2 * Bias + 1 /\ ~(b = 0 /\ g = 0) /\ b > 0
      BY <2>2, <2>3
    <3> QED BY <3>1, IlogbIs, Zenon
  <2> QED BY <2>2, <2>3, <2>4
<1>5. ilogb(d) = j - 1
  <2>1. CASE k > 0
    <3>1. ilogb(d) = k - Bias BY <2>1, IlogbIs
    <3> QED BY <3>1, <2>1, <1>1, <1>2, <1>3
  <2>2. CASE k = 0
    <3>1. PICK t \in 0 .. FracBits - 1 : e = 1 - FracBits + t /\ Pow(t) <= f /\ f < Pow(t + 1)
      BY <2>2, <1>2
    <3>2. ilogb(d) = 1 - FracBits + t - Bias
      BY <3>1, <2>2, IlogbIs
    <3>3. 1 - FracBits + t - Bias = j - 1
      BY <3>1, <1>1, <1>3
    <3> QED BY <3>2, <3>3
  <2> QED BY <2>1, <2>2, <1>1
<1> QED BY <1>2, <1>3, <1>4, <1>5, Zenon

\* A number that is not 0 and not subnormal, and its product that is neither.
LEMMA NormalParts ==
  ASSUME NEW n \in BOOLEAN, NEW k \in Fields, NEW f \in Fractions, NEW d, d = Of(n, k, f)
  PROVE  /\ Normal(d) <=> k \in 1 .. 2 * Bias
         /\ Finite(d) /\ Magnitude(d) > 0 <=> k < 2 * Bias + 1 /\ ~(k = 0 /\ f = 0)
<1>1. Bias \in Nat /\ Fr \in Nat /\ Fr > 0 /\ k \in Nat /\ k <= 2 * Bias + 1 /\ f \in Nat /\ f < Fr
  BY Format, Products DEF Fields, Fractions
<1>2. (Finite(d) <=> k < 2 * Bias + 1) /\ Magnitude(d) = k * Fr + f /\ 2 ^ FracBits = Fr
  BY ValuesOf, PowersAre
<1>3. k * Fr \in Nat /\ (k = 0 => k * Fr = 0) /\ (k > 0 => 1 * Fr <= k * Fr) /\ 1 * Fr = Fr
  BY <1>1, Products
<1>4. PICK m \in Nat : m = Magnitude(d) /\ (m >= Fr <=> k > 0) /\ (m > 0 <=> ~(k = 0 /\ f = 0))
  BY <1>1, <1>2, <1>3
<1>5. Normal(d) <=> m >= Fr /\ Finite(d)
  BY <1>2, <1>4, Zenon DEF Normal
<1> QED BY <1>1, <1>2, <1>4, <1>5

\* scalbn is the product, in every build of normal numbers.
LEMMA ScalbnProduct ==
  ASSUME NEW d \in AllDoubles, NEW i \in -SignBit .. SignBit - 1, NEW y, y = Times(d, i),
         (Normal(d) /\ Normal(y) /\ Scale(y) = Scale(d) + i) \/ LittleEndian
  PROVE  scalbn(d, i) = y
<1>1. PICK n \in BOOLEAN, k \in Fields, f \in Fractions : d = Of(n, k, f)
  BY PartsOf
<1>2. CASE LittleEndian BY <1>1, <1>2, ScalbnIs
<1>3. CASE Normal(d) /\ Normal(y) /\ Scale(y) = Scale(d) + i
  <2>1. Bias \in Nat /\ FracBits \in Nat /\ k \in Nat /\ i \in Int /\ SignBit \in Nat
    BY Format DEF Fields
  <2>2. y \in AllDoubles BY <2>1, TimesIsDouble
  <2>3. PICK p \in BOOLEAN, l \in Fields, g \in Fractions : y = Of(p, l, g)
    BY <2>2, PartsOf
  <2>4. k \in 1 .. 2 * Bias /\ l \in 1 .. 2 * Bias /\ k # 0 /\ l # 0
    BY <1>1, <1>3, <2>1, <2>3, NormalParts
  <2>5. Scale(d) = k - Bias - FracBits
    BY <1>1, <2>1, <2>4, ValuesOf
  <2>6. Scale(y) = l - Bias - FracBits
    BY <2>3, <2>1, <2>4, ValuesOf
  <2>7. k + i \in 1 .. 2 * Bias
    BY <1>3, <2>1, <2>4, <2>5, <2>6
  <2> QED BY <1>1, <2>1, <2>4, <2>7, ScalbnNormal
<1> QED BY <1>2, <1>3

\* ldexp is scalbn but where there is nothing to scale.
LEMMA LdexpIs ==
  ASSUME NEW d \in AllDoubles, NEW i \in -SignBit .. SignBit - 1, Normal(d) \/ LittleEndian
  PROVE  ldexp(d, i) = scalbn(d, i)
<1>1. PICK n \in BOOLEAN, k \in Fields, f \in Fractions : d = Of(n, k, f)
  BY PartsOf
<1>2. finite(d) = Finite(d) /\ i \in Int
  BY TestsAre, Format
<1>3. CASE ~(~finite(d) \/ Magnitude(View(d)) = 0)
  BY <1>3, Zenon DEF ldexp
<1>4. CASE ~finite(d) \/ Magnitude(View(d)) = 0
  <2>1. ldexp(d, i) = d BY <1>4, Zenon DEF ldexp
  <2>2. CASE LittleEndian
    <3>1. scalbn(d, i) = Times(d, i)
      BY <1>1, <2>2, ScalbnIs
    <3>2. CASE ~Finite(d)
      BY <2>1, <3>1, <3>2, <1>2, TimesIs
    <3>3. CASE Finite(d)
      <4>1. Magnitude(d) = 0
        BY <1>2, <1>4, <3>3, <2>2, ViewIsSame
      <4>2. k = 0 /\ f = 0
        <5>1. Magnitude(d) \in Nat BY DoubleOf
        <5>2. ~(Finite(d) /\ Magnitude(d) > 0) /\ k \in Nat
          BY <4>1 DEF Fields
        <5>3. Finite(d) <=> k < 2 * Bias + 1
          BY <1>1, ValuesOf
        <5> QED BY <5>2, <5>3, <1>1, <3>3, NormalParts
      <4>3. Mantissa(d) = 0 BY <1>1, <4>2, ValuesOf
      <4>4. Scale(d) \in Int BY <3>3, RoundTrip
      <4>5. PICK s \in Int : s = Scale(d) + i
        BY <4>4, <1>2
      <4>6. Negative(d.hi) = n BY <1>1, SignOf
      <4>7. Times(d, i) = Composed(n, 0, s)
        BY <3>3, <4>3, <4>5, <4>6, Zenon DEF Times
      <4>8. Times(d, i) = d
        BY <4>7, <4>2, <1>1, ComposedZero
      <4> QED BY <2>1, <3>1, <4>8
    <3> QED BY <3>2, <3>3
  <2>3. CASE ~LittleEndian
    <3>1. Normal(d) /\ Finite(d) /\ Magnitude(d) > 0 /\ k \in 1 .. 2 * Bias
      <4>1. Normal(d) BY <2>3
      <4>2. k \in 1 .. 2 * Bias /\ Bias \in Nat
        BY <4>1, <1>1, NormalParts, Format
      <4>3. k < 2 * Bias + 1 /\ ~(k = 0 /\ f = 0)
        BY <4>2
      <4> QED BY <4>1, <4>2, <4>3, <1>1, NormalParts
    <3>2. Magnitude(View(d)) = 0 BY <3>1, <1>2, <1>4
    <3>3. d.hi = 0
      <4>1. PICK a \in Nat : a = View(d).hi % SignBit
        <5>1. View(d).hi \in 0 .. Word - 1
          BY ViewIs, DoubleOf
        <5> QED BY <5>1, SignIs
      <4>2. PICK b \in Nat : b = d.hi
        <5>1. d.hi \in 0 .. Word - 1 BY DoubleOf
        <5> QED BY <5>1
      <4>3. View(d).lo = b BY <2>3, <4>2 DEF View
      <4>4. a * Word + b = 0
        BY <3>2, <4>1, <4>3 DEF Magnitude
      <4>5. Word \in Nat /\ a * Word \in Nat
        BY Format
      <4> QED BY <4>2, <4>4, <4>5
    <3>4. d.hi % SignBit = k * Hi + (f \div Word) /\ f \div Word \in 0 .. Hi - 1
      BY <1>1, ValuesOf, FieldsAre
    <3>5. 0 % SignBit = 0 /\ Hi \in Nat /\ Hi > 0
      BY Format
    <3>6. k * Hi >= 1 * Hi /\ 1 * Hi = Hi /\ k * Hi \in Nat
      BY <3>1, <3>5, Products
    <3>7. (f \div Word) \in Nat /\ k * Hi + (f \div Word) > 0
      BY <3>4, <3>5, <3>6
    <3> QED BY <3>3, <3>4, <3>5, <3>7
  <2> QED BY <2>2, <2>3
<1> QED BY <1>3, <1>4

\* A small int as a double, seen twice with its words exchanged.
LEMMA ToDoubleIs ==
  ASSUME NEW i \in Int
  PROVE  View(View(ToDouble(i))) = ToDouble(i)
<1>1. \A b, m : \E h, l : Double(b, m) = [hi |-> h, lo |-> l]
  BY DEF Double
<1>2. \A b, m, s : \E r : Composed(b, m, s) = Double(b, r)
  BY Zenon DEF Composed
<1>3. \E b, m : ToDouble(i) = Composed(b, m, 0)
  BY Zenon DEF ToDouble
<1>5. PICK b, m : ToDouble(i) = Composed(b, m, 0)
  BY <1>3
<1>6. PICK r : Composed(b, m, 0) = Double(b, r)
  BY <1>2
<1>4. PICK h, l : ToDouble(i) = [hi |-> h, lo |-> l]
  <2>1. PICK h, l : Double(b, r) = [hi |-> h, lo |-> l]
    BY <1>1
  <2> QED BY <2>1, <1>5, <1>6
<1> QED BY <1>4 DEF View

\* What is said of frexp, ilogb and logb.
LEMMA ExponentsAll ==
  ASSUME NEW v \in AllDoubles, NEW parts, parts = frexp(v)
  PROVE  /\ Normal(v) \/ LittleEndian => scalbn(parts.val, parts.exp) = v
         /\ Normal(v) \/ (LittleEndian /\ Finite(v) /\ Magnitude(v) > 0) =>
              ilogb(parts.val) = -1 /\ ilogb(v) = parts.exp - 1
         /\ Normal(v) => View(logb(v)) = ToDouble(ilogb(v))
<1>1. PICK n \in BOOLEAN, k \in Fields, f \in Fractions : v = Of(n, k, f)
  BY PartsOf
<1>2. Bias \in Nat /\ k \in Nat /\ k <= 2 * Bias + 1 /\ SignBit \in Nat /\ SignBit > 0
  BY Format DEF Fields
<1>3. /\ Normal(v) <=> k \in 1 .. 2 * Bias
      /\ Finite(v) /\ Magnitude(v) > 0 <=> k < 2 * Bias + 1 /\ ~(k = 0 /\ f = 0)
  BY <1>1, NormalParts
<1>4. ASSUME k < 2 * Bias + 1, ~(k = 0 /\ f = 0), k > 0 \/ LittleEndian
      PROVE  scalbn(parts.val, parts.exp) = v /\ ilogb(parts.val) = -1 /\ ilogb(v) = parts.exp - 1
  BY <1>1, <1>4, ExponentsAgree
<1>5. ASSUME k = 2 * Bias + 1 \/ (k = 0 /\ f = 0), LittleEndian
      PROVE  scalbn(parts.val, parts.exp) = v
  <2>1. parts.val = v /\ parts.exp = 0
    BY <1>1, <1>5, FrexpSame
  <2>2. 0 \in -SignBit .. SignBit - 1 BY <1>2
  <2>3. scalbn(v, 0) = Times(v, 0)
    BY <2>2, <1>1, <1>5, ScalbnIs
  <2>4. Times(v, 0) = v BY TimesIs
  <2> QED BY <2>1, <2>3, <2>4
<1>6. ASSUME k \in 1 .. 2 * Bias PROVE View(logb(v)) = ToDouble(ilogb(v))
  <2>1. logb(v) = View(ToDouble(k - Bias))
    BY <1>1, <1>6, LogbIs
  <2>2. ilogb(v) = k - Bias
    <3>1. k < 2 * Bias + 1 /\ ~(k = 0 /\ f = 0) /\ k > 0
      BY <1>2, <1>6
    <3> QED BY <3>1, <1>1, IlogbIs
  <2>3. PICK i \in Int : i = k - Bias BY <1>2, <1>6
  <2>4. View(View(ToDouble(i))) = ToDouble(i)
    BY <2>3, ToDoubleIs
  <2> QED BY <2>1, <2>2, <2>3, <2>4
<1>7. Normal(v) => k < 2 * Bias + 1 /\ ~(k = 0 /\ f = 0) /\ k > 0
  BY <1>2, <1>3
<1>8. k > 0 \/ k = 0 BY <1>2
<1>9. k < 2 * Bias + 1 \/ k = 2 * Bias + 1 BY <1>2
<1> QED BY <1>3, <1>4, <1>5, <1>6, <1>7, <1>9, Zenon

\* All doubles.
LEMMA ScalesAll ==
  ASSUME x \in AllDoubles
  PROVE  ScalesExactly
<1>0. PICK v \in AllDoubles : v = View(x) BY ViewIs
<1>1. PICK parts : parts = frexp(v) OBVIOUS
<1>2. ASSUME NEW i \in Shifts PROVE i \in -SignBit .. SignBit - 1
  BY ArgumentAssumption
<1>3. \A i \in Shifts :
        (Normal(v) /\ Normal(Times(v, i)) /\ Scale(Times(v, i)) = Scale(v) + i) \/ LittleEndian =>
          scalbn(v, i) = Times(v, i) /\ ldexp(v, i) = Times(v, i)
  <2> TAKE i \in Shifts
  <2>1. i \in -SignBit .. SignBit - 1 BY <1>2
  <2> HAVE (Normal(v) /\ Normal(Times(v, i)) /\ Scale(Times(v, i)) = Scale(v) + i) \/ LittleEndian
  <2>2. scalbn(v, i) = Times(v, i)
    BY <2>1, ScalbnProduct
  <2>3. ldexp(v, i) = scalbn(v, i) BY <2>1, LdexpIs
  <2> QED BY <2>2, <2>3
<1>4. finite(v) = Finite(v) /\ isnan(v) = IsNaN(v)
  BY TestsAre
<1>5. \A y \in Divisors : NextIsAdjacent(y) /\ copysign(v, y) = Double(Negative(y.hi), Magnitude(v))
  BY NextAdjacent, CopysignIs, ArgumentAssumption
<1>6. /\ Normal(v) \/ LittleEndian => scalbn(parts.val, parts.exp) = v
      /\ Normal(v) \/ (LittleEndian /\ Finite(v) /\ Magnitude(v) > 0) =>
           ilogb(parts.val) = -1 /\ ilogb(v) = parts.exp - 1
      /\ Normal(v) => View(logb(v)) = ToDouble(ilogb(v))
  BY <1>1, ExponentsAll
<1> QED BY <1>0, <1>1, <1>3, <1>4, <1>5, <1>6, Zenon DEF ScalesExactly

\* scalbn, ldexp, frexp, ilogb, logb, nextafter, copysign, finite and isnan do what
\* ScalesExactly says, in both builds of the library, for every double of every format
\* and every int to scale by, those that make the exponent overflow included.
THEOREM ScalesExactlyAlways ==
  Spec => []ScalesExactly
<1>1. x \in AllDoubles => ScalesExactly BY ScalesAll
<1> QED BY <1>1, DoublesOnly, PTL

-----------------------------------------------------------------------------
\* A finite double is a multiple of the smallest one.
Units(d) == Mantissa(d) * Pow(Scale(d) - Least0)

\* Products in another order.
LEMMA Regroup ==
  /\ \A a \in Nat, b \in Nat : a * b = b * a /\ a * b \in Nat
  /\ \A a \in Nat, b \in Nat, c \in Nat : (a * b) * c = a * (b * c)
  /\ \A a \in Nat, b \in Nat, c \in Nat : b > 0 /\ a * b = c * b => a = c
  /\ \A a \in Nat, b \in Nat, c \in Nat : b > 0 => (a * b < c * b <=> a < c)
<1>1. \A a \in Nat, b \in Nat : a * b = b * a /\ a * b \in Nat
  OBVIOUS
<1>2. \A a \in Nat, b \in Nat, c \in Nat : (a * b) * c = a * (b * c)
  OBVIOUS
<1>3. \A a \in Nat, b \in Nat, c \in Nat : b > 0 /\ a < c => a * b < c * b
  <2>1. \A a \in Nat, b \in Nat, c \in Nat : b > 0 /\ a < c => a * b + 0 < c * b
    BY Products, 0 \in Nat
  <2> QED BY <2>1, <1>1
<1>4. \A a \in Nat, b \in Nat, c \in Nat : b > 0 => (a * b < c * b <=> a < c)
  <2> SUFFICES ASSUME NEW a \in Nat, NEW b \in Nat, NEW c \in Nat, b > 0 PROVE a * b < c * b <=> a < c
    OBVIOUS
  <2>1. a < c => a * b < c * b BY <1>3
  <2>2. c < a => c * b < a * b BY <1>3
  <2>3. a = c => a * b = c * b OBVIOUS
  <2>4. PICK u \in Nat, v \in Nat : u = a * b /\ v = c * b
    BY <1>1
  <2> QED BY <2>1, <2>2, <2>3, <2>4
<1>5. \A a \in Nat, b \in Nat, c \in Nat : b > 0 /\ a * b = c * b => a = c
  <2> SUFFICES ASSUME NEW a \in Nat, NEW b \in Nat, NEW c \in Nat, b > 0, a * b = c * b PROVE a = c
    OBVIOUS
  <2>1. ~(a < c) /\ ~(c < a)
    <3>1. a < c => a * b < c * b BY <1>3
    <3>2. c < a => c * b < a * b BY <1>3
    <3>3. PICK u \in Nat : u = a * b /\ u = c * b
      BY <1>1
    <3> QED BY <3>1, <3>2, <3>3
  <2> QED BY <2>1
<1> QED BY <1>1, <1>2, <1>4, <1>5

\* How many they are, by the field and the fraction.
LEMMA UnitsOf ==
  ASSUME NEW n \in BOOLEAN, NEW k \in Fields, NEW f \in Fractions, k < 2 * Bias + 1, NEW d, d = Of(n, k, f)
  PROVE  /\ k = 0 => Units(d) = f
         /\ k > 0 => Units(d) = (f + Fr) * Pow(k - 1) /\ Pow(k - 1) \in Nat /\ Pow(k - 1) > 0
         /\ Units(d) \in Nat
         /\ Units(d) = 0 <=> k = 0 /\ f = 0
<1>1. Bias \in Nat /\ FracBits \in Nat /\ Fr \in Nat /\ Fr > 0 /\ k \in Nat /\ f \in Nat /\ f < Fr
  BY Format, Products DEF Fields, Fractions
<1>2. Mantissa(d) = (IF k = 0 THEN f ELSE f + Fr) /\ Scale(d) = (IF k = 0 THEN 1 ELSE k) - Bias - FracBits
  BY ValuesOf
<1>3. CASE k = 0
  <2>1. Scale(d) - Least0 = 0
    BY <1>1, <1>2, <1>3 DEF Least0
  <2>2. Pow(0) = 1 BY PowType, 0 \in Nat
  <2>3. Units(d) = f * 1
    BY <2>1, <2>2, <1>2, <1>3 DEF Units
  <2>4. Units(d) = f BY <2>3, <1>1
  <2> QED BY <2>4, <1>1, <1>3
<1>4. CASE k > 0
  <2>1. Scale(d) - Least0 = k - 1 /\ k - 1 \in Nat /\ f + Fr \in Nat /\ f + Fr > 0
    BY <1>1, <1>2, <1>4 DEF Least0
  <2>2. Pow(k - 1) \in Nat /\ Pow(k - 1) > 0
    BY <2>1, PowType
  <2>3. Units(d) = (f + Fr) * Pow(k - 1)
    BY <2>1, <1>2, <1>4, <1>1 DEF Units
  <2>4. (f + Fr) * Pow(k - 1) \in Nat /\ (f + Fr) * Pow(k - 1) > 0
    BY <2>1, <2>2, Products, Regroup
  <2> QED BY <2>2, <2>3, <2>4, <1>1, <1>4
<1> QED BY <1>1, <1>3, <1>4

\* Fewer units, smaller field or fraction.
LEMMA UnitsGrow ==
  ASSUME NEW n \in BOOLEAN, NEW k \in Fields, NEW f \in Fractions, k < 2 * Bias + 1, NEW d, d = Of(n, k, f),
         NEW p \in BOOLEAN, NEW j \in Fields, NEW g \in Fractions, j < 2 * Bias + 1, NEW e, e = Of(p, j, g),
         k < j \/ (k = j /\ f < g)
  PROVE  Units(d) < Units(e)
<1>1. Fr \in Nat /\ Fr > 0 /\ k \in Nat /\ f \in Nat /\ f < Fr /\ j \in Nat /\ g \in Nat /\ g < Fr
  BY Format, Products DEF Fields, Fractions
<1>2. /\ k = 0 => Units(d) = f
      /\ k > 0 => Units(d) = (f + Fr) * Pow(k - 1) /\ Pow(k - 1) \in Nat /\ Pow(k - 1) > 0
      /\ Units(d) \in Nat
  BY UnitsOf
<1>3. /\ j = 0 => Units(e) = g
      /\ j > 0 => Units(e) = (g + Fr) * Pow(j - 1) /\ Pow(j - 1) \in Nat /\ Pow(j - 1) > 0
      /\ Units(e) \in Nat
  BY UnitsOf
<1>4. CASE k = j
  <2>1. f < g BY <1>4, <1>1
  <2>2. CASE k = 0 BY <2>1, <2>2, <1>2, <1>3, <1>4
  <2>3. CASE k > 0
    <3>1. f + Fr \in Nat /\ g + Fr \in Nat /\ f + Fr < g + Fr
      BY <2>1, <1>1
    <3>2. (f + Fr) * Pow(k - 1) < (g + Fr) * Pow(k - 1)
      BY <3>1, <2>3, <1>2, Regroup
    <3> QED BY <3>2, <2>3, <1>2, <1>3, <1>4
  <2> QED BY <2>2, <2>3, <1>1
<1>5. CASE k < j
  <2>1. PICK w \in Nat : w = Pow(j - 1) /\ w >= 1
    BY <1>1, <1>3, <1>5
  <2>2. Fr * w <= Units(e) /\ Fr * w \in Nat
    <3>1. Fr * w <= (g + Fr) * w /\ g + Fr \in Nat
      BY <1>1, Products
    <3> QED BY <3>1, <2>1, <1>1, <1>3, <1>5
  <2>3. CASE k = 0
    <3>1. 1 * Fr <= w * Fr /\ 1 * Fr = Fr /\ w * Fr = Fr * w
      BY <2>1, <1>1, Products
    <3> QED BY <3>1, <2>2, <2>3, <1>1, <1>2, <1>3
  <2>4. CASE k > 0
    <3>1. PICK v \in Nat : v = Pow(k - 1) /\ v > 0
      BY <2>4, <1>2
    <3>2. Pow(k) = 2 * v
      <4>1. k - 1 \in Nat /\ (k - 1) + 1 = k
        BY <2>4, <1>1
      <4> QED BY <4>1, <3>1, PowType
    <3>3. 2 * v <= w
      <4>1. k <= j - 1 /\ j - 1 \in Nat
        BY <1>1, <1>5
      <4> QED BY <4>1, <3>2, <2>1, <1>1, PowBelow
    <3>4. (f + Fr) * v < (2 * Fr) * v
      <4>1. f + Fr \in Nat /\ 2 * Fr \in Nat /\ f + Fr < 2 * Fr
        BY <1>1
      <4> QED BY <4>1, <3>1, Regroup
    <3>5. (2 * Fr) * v = (2 * v) * Fr /\ (2 * v) * Fr <= w * Fr /\ w * Fr = Fr * w
      BY <3>1, <3>3, <1>1, <2>1, Products
    <3>6. (f + Fr) * v \in Nat /\ (2 * Fr) * v \in Nat /\ Units(d) = (f + Fr) * v
      BY <3>1, <1>1, <1>2, <2>4
    <3> QED BY <3>4, <3>5, <3>6, <2>2, <1>3
  <2> QED BY <2>3, <2>4, <1>1
<1> QED BY <1>4, <1>5, <1>1

\* The order of doubles is that of their units.
LEMMA UnitsOrder ==
  ASSUME NEW d \in AllDoubles, NEW e \in AllDoubles, Finite(d), Finite(e)
  PROVE  /\ Units(d) \in Nat /\ Units(e) \in Nat /\ Magnitude(d) \in Nat /\ Magnitude(e) \in Nat
         /\ Magnitude(d) < Magnitude(e) <=> Units(d) < Units(e)
         /\ Magnitude(d) = Magnitude(e) <=> Units(d) = Units(e)
         /\ Units(d) <= Units(e) => Scale(d) <= Scale(e)
         /\ Units(d) = 0 <=> Magnitude(d) = 0
<1>1. PICK n \in BOOLEAN, k \in Fields, f \in Fractions : d = Of(n, k, f)
  BY PartsOf
<1>2. PICK p \in BOOLEAN, j \in Fields, g \in Fractions : e = Of(p, j, g)
  BY PartsOf
<1>3. Magnitude(d) = k * Fr + f /\ k < 2 * Bias + 1 /\ Scale(d) = (IF k = 0 THEN 1 ELSE k) - Bias - FracBits
  BY <1>1, ValuesOf
<1>4. Magnitude(e) = j * Fr + g /\ j < 2 * Bias + 1 /\ Scale(e) = (IF j = 0 THEN 1 ELSE j) - Bias - FracBits
  BY <1>2, ValuesOf
<1>5. Fr \in Nat /\ Fr > 0 /\ k \in Nat /\ f \in Nat /\ f < Fr /\ j \in Nat /\ g \in Nat /\ g < Fr /\ Bias \in Nat /\ FracBits \in Nat
  BY Format, Products DEF Fields, Fractions
<1>6. Units(d) \in Nat /\ Units(e) \in Nat /\ (Units(d) = 0 <=> k = 0 /\ f = 0)
  <2>1. Units(d) \in Nat /\ (Units(d) = 0 <=> k = 0 /\ f = 0)
    BY <1>1, <1>3, UnitsOf
  <2>2. Units(e) \in Nat BY <1>2, <1>4, UnitsOf
  <2> QED BY <2>1, <2>2
<1>7. k < j \/ (k = j /\ f < g) => Units(d) < Units(e)
  BY <1>1, <1>2, <1>3, <1>4, UnitsGrow
<1>8. j < k \/ (j = k /\ g < f) => Units(e) < Units(d)
  BY <1>1, <1>2, <1>3, <1>4, UnitsGrow
<1>9. k = j /\ f = g => Units(d) = Units(e)
  <2>1. /\ k = 0 => Units(d) = f
        /\ k > 0 => Units(d) = (f + Fr) * Pow(k - 1)
    BY <1>1, <1>3, UnitsOf
  <2>2. /\ j = 0 => Units(e) = g
        /\ j > 0 => Units(e) = (g + Fr) * Pow(j - 1)
    BY <1>2, <1>4, UnitsOf
  <2> QED BY <2>1, <2>2, <1>5
<1>10. k * Fr + f <= j * Fr + g <=> k < j \/ (k = j /\ f <= g)
  <2>1. f \in 0 .. Fr - 1 /\ g \in 0 .. Fr - 1
    BY <1>5
  <2> QED BY <2>1, <1>5, WordOrder
<1>11. j * Fr + g <= k * Fr + f <=> j < k \/ (j = k /\ g <= f)
  <2>1. f \in 0 .. Fr - 1 /\ g \in 0 .. Fr - 1
    BY <1>5
  <2> QED BY <2>1, <1>5, WordOrder
<1>12. Magnitude(d) \in Nat /\ Magnitude(e) \in Nat
  BY DoubleOf
<1>13. Units(d) < Units(e) <=> k < j \/ (k = j /\ f < g)
  BY <1>5, <1>6, <1>7, <1>8, <1>9
<1>14. Units(d) = Units(e) <=> k = j /\ f = g
  BY <1>5, <1>6, <1>7, <1>8, <1>9
<1>15. Magnitude(d) < Magnitude(e) <=> k < j \/ (k = j /\ f < g)
  BY <1>3, <1>4, <1>5, <1>10, <1>11, <1>12
<1>16. Magnitude(d) = Magnitude(e) <=> k = j /\ f = g
  BY <1>3, <1>4, <1>5, <1>10, <1>11, <1>12
<1>17. Units(d) <= Units(e) => Scale(d) <= Scale(e)
  BY <1>3, <1>4, <1>5, <1>6, <1>13, <1>14
<1>18. Units(d) = 0 <=> Magnitude(d) = 0
  <2>1. k > 0 => k * Fr > 0 BY <1>5, Products
  <2>2. k * Fr \in Nat /\ (k = 0 => k * Fr = 0)
    BY <1>5
  <2> QED BY <2>1, <2>2, <1>3, <1>5, <1>6
<1> QED BY <1>6, <1>12, <1>13, <1>14, <1>15, <1>16, <1>17, <1>18

\* A number in two words.
Pair(v) == [h |-> v \div Word, l |-> v % Word]

\* The words of a number.
LEMMA PairIs ==
  ASSUME NEW v \in Nat, NEW p, p = Pair(v)
  PROVE  p.h \in Nat /\ p.l \in 0 .. Word - 1 /\ v = p.h * Word + p.l
<1>1. Word \in Nat /\ Word > 0 BY Format
<1>2. v = Word * (v \div Word) + (v % Word) /\ v \div Word \in Nat /\ v % Word \in Nat /\ v % Word < Word
  BY <1>1, DivMod
<1>3. p.h = v \div Word /\ p.l = v % Word
  BY DEF Pair
<1>4. Word * p.h = p.h * Word BY <1>1, <1>2, <1>3
<1> QED BY <1>1, <1>2, <1>3, <1>4

\* A number of two words has them.
LEMMA PairOf ==
  ASSUME NEW h \in Nat, NEW l \in 0 .. Word - 1, NEW v, v = h * Word + l
  PROVE  Pair(v) = [h |-> h, l |-> l] /\ v \in Nat
<1>1. Word \in Nat /\ Word > 0 BY Format
<1>2. (h * Word + l) % Word = l /\ (h * Word + l) \div Word = h
  BY <1>1, WordPair
<1>3. h * Word \in Nat BY <1>1
<1> QED BY <1>2, <1>3, <1>1 DEF Pair

\* The words of a number without its sign, and with the leading bit where all have it.
LEMMA AlignedIs ==
  ASSUME NEW n \in BOOLEAN, NEW k \in Fields, NEW f \in Fractions, k < 2 * Bias + 1, ~(k = 0 /\ f = 0),
         NEW d, d = Of(n, k, f), NEW h, h = d.hi % SignBit
  PROVE  \E m \in Nat, e \in Nat :
           /\ Fr <= m /\ m < 2 * Fr /\ e <= (2 * Bias + FracBits) - 1
           /\ Ilogb(h, d.lo) = e + 1 - Bias - FracBits
           /\ Fr * Units(d) = m * Pow(e)
           /\ Aligned(h, d.lo) = Pair(m)
<1>1. FracBits \in Nat /\ Bias \in Nat /\ Hi \in Nat /\ Hi > 0 /\ Word \in Nat /\ Word > 0 /\ k \in Nat
      /\ f \in Nat /\ f < Fr /\ Fr \in Nat /\ Fr > 0 /\ Fr = Hi * Word
  BY Format, Products DEF Fields, Fractions
<1>2. HI(d) = d.hi /\ LO(d) = d.lo /\ finite(d)
  BY FieldIs
<1>3. PICK g \in 0 .. Hi - 1, l \in 0 .. Word - 1 : g = f \div Word /\ l = f % Word /\ f = g * Word + l
  BY FieldsAre
<1>4. h = k * Hi + g /\ d.lo = l
  <2>1. d.hi % SignBit = k * Hi + (f \div Word) /\ d.lo = f % Word
    BY ValuesOf
  <2> QED BY <2>1, <1>3
<1>5. ilogb(d) = Ilogb(h, d.lo)
  <2>1. ~IsZero(d.hi, d.lo) BY SignOf
  <2> QED BY <2>1, <1>2, Zenon DEF ilogb
<1>6. 2 ^ HighBits = Hi BY PowersAre
<1>7. PICK p : p = ilogb(d) OBVIOUS
<1>8. Aligned(h, l) = IF p >= 1 - Bias THEN [h |-> (h % 2 ^ HighBits) + 2 ^ HighBits, l |-> l]
                      ELSE [h |-> ((h * Word + l) * Pow(1 - Bias - p)) \div Word,
                            l |-> ((h * Word + l) * Pow(1 - Bias - p)) % Word]
  <2>1. p = Ilogb(h, l) BY <1>4, <1>5, <1>7
  <2> QED BY <2>1, Zenon DEF Aligned, Pow
<1>9. CASE k > 0
  <2>1. p = k - Bias /\ p >= 1 - Bias
    BY <1>1, <1>7, <1>9, IlogbIs
  <2>2. h % Hi = g
    <3>1. (k * Hi + g) % Hi = g BY <1>1, WordPair
    <3> QED BY <3>1, <1>4
  <2>3. Aligned(h, l) = [h |-> g + Hi, l |-> l]
    BY <2>1, <2>2, <1>6, <1>8
  <2>4. PICK m \in Nat : m = f + Fr BY <1>1
  <2>5. (g + Hi) * Word + l = m /\ g + Hi \in Nat
    <3>1. (g + Hi) * Word = g * Word + Hi * Word /\ g * Word \in Nat /\ Hi * Word \in Nat
      BY <1>1
    <3> QED BY <3>1, <2>4, <1>1, <1>3
  <2>6. Pair(m) = [h |-> g + Hi, l |-> l]
    BY <2>5, PairOf
  <2>7. PICK e \in Nat : e = (k - 1) + FracBits
    BY <1>1, <1>9
  <2>8. Pow(e) = Pow(k - 1) * Fr /\ Pow(k - 1) \in Nat
    <3>1. k - 1 \in Nat BY <1>1, <1>9
    <3> QED BY <3>1, <2>7, <1>1, PowSum, PowType DEF Fr
  <2>9. Fr * Units(d) = m * Pow(e)
    <3>1. Units(d) = m * Pow(k - 1)
      BY <2>4, <1>9, UnitsOf
    <3>2. m * Pow(k - 1) \in Nat /\ (m * Pow(k - 1)) * Fr = m * (Pow(k - 1) * Fr)
          /\ Fr * (m * Pow(k - 1)) = (m * Pow(k - 1)) * Fr
      BY <2>8, <1>1, Regroup
    <3> QED BY <3>1, <3>2, <2>8
  <2>10. p = e + 1 - Bias - FracBits /\ e <= (2 * Bias + FracBits) - 1
    BY <2>1, <2>7, <1>1
  <2> QED BY <2>3, <2>4, <2>6, <2>9, <2>10, <1>1, <1>4, <1>5, <1>7
<1>10. CASE k = 0
  <2>1. f > 0 /\ f < 2 * Fr BY <1>1, <1>10
  <2>2. PICK t \in 0 .. FracBits : Pow(t) <= f /\ f < Pow(t + 1)
    BY <2>1, <1>1, TopOf
  <2>3. t # FracBits BY <2>2, <1>1 DEF Fr
  <2>4. p = 1 - FracBits + t - Bias
    <3>1. t \in 0 .. FracBits - 1 BY <2>3, <1>1
    <3> QED BY <3>1, <2>2, <1>7, <1>10, IlogbIs
  <2>5. PICK c \in Nat : c = FracBits - t /\ c > 0
    BY <1>1, <2>3
  <2>6. ~(p >= 1 - Bias) /\ 1 - Bias - p = c
    BY <2>4, <2>5, <1>1
  <2>7. h * Word + l = f
    <3>1. h = g
      <4>1. 0 * Hi + g = g BY <1>1
      <4> QED BY <4>1, <1>4, <1>10
    <3> QED BY <3>1, <1>3
  <2>8. PICK m \in Nat : m = f * Pow(c)
    BY <1>1, <2>5, PowType
  <2>9. Aligned(h, l) = Pair(m)
    BY <2>6, <2>7, <2>8, <1>8, Zenon DEF Pair
  <2>10. Fr <= m /\ m < 2 * Fr
    <3>1. Pow(FracBits + 1) = 2 * Fr
      BY <1>1, PowType DEF Fr
    <3>2. t \in Nat /\ t + c = FracBits
      BY <1>1, <2>5
    <3>3. Pow(t + c) <= f * Pow(c) /\ f * Pow(c) < Pow((t + c) + 1)
      BY <2>2, <2>5, <3>2, <1>1, PowTops
    <3> QED BY <2>8, <3>1, <3>2, <3>3 DEF Fr
  <2>11. Fr * Units(d) = m * Pow(t)
    <3>1. Units(d) = f BY <1>10, UnitsOf
    <3>2. t \in Nat /\ FracBits = c + t
      BY <1>1, <2>5
    <3>3. Fr = Pow(c) * Pow(t) /\ Pow(c) \in Nat /\ Pow(t) \in Nat
      BY <3>2, <2>5, PowSum, PowType DEF Fr
    <3>4. (f * Pow(c)) * Pow(t) = f * (Pow(c) * Pow(t)) /\ f * Fr = Fr * f
      BY <3>3, <1>1, Regroup
    <3> QED BY <3>1, <3>3, <3>4, <2>8
  <2>12. p = t + 1 - Bias - FracBits /\ t <= (2 * Bias + FracBits) - 1 /\ t \in Nat
    BY <2>4, <1>1, Format
  <2> QED BY <2>9, <2>10, <2>11, <2>12, <1>4, <1>5, <1>7
<1> QED BY <1>1, <1>9, <1>10

\* Two words less two words, with the borrow.
LEMMA MinusIs ==
  ASSUME NEW a \in Nat, NEW b \in Nat, NEW z, z = Minus(Pair(a), Pair(b))
  PROVE  /\ b <= a => z = Pair(a - b) /\ z.h >= 0
         /\ a < b => ~(z.h >= 0)
<1>1. Word \in Nat /\ Word > 0 BY Format
<1>2. PICK g \in Nat, k \in 0 .. Word - 1 : Pair(a).h = g /\ Pair(a).l = k /\ a = g * Word + k
  BY PairIs
<1>3. PICK h \in Nat, l \in 0 .. Word - 1 : Pair(b).h = h /\ Pair(b).l = l /\ b = h * Word + l
  BY PairIs
<1>4. PICK c \in 0 .. 1 : c = IF k < l THEN 1 ELSE 0
  OBVIOUS
<1>5. PICK r \in Int : r = k - l + c * Word /\ 0 <= r /\ r < Word
  <2>1. c = 0 \/ c = 1 OBVIOUS
  <2> QED BY <2>1, <1>1, <1>4
<1>6. (k - l) % Word = r
  <2>1. PICK i \in Int, q \in Int : i = k - l /\ q = -c
    OBVIOUS
  <2>2. i = Word * q + r
    <3>1. c = 0 \/ c = 1 OBVIOUS
    <3> QED BY <3>1, <2>1, <1>1, <1>5
  <2> QED BY <2>1, <2>2, <1>1, <1>5, DivModUnique
<1>7. z = [h |-> g - h - c, l |-> r]
  BY <1>2, <1>3, <1>4, <1>6 DEF Minus
<1>8. PICK e \in Int : e = g - h - c OBVIOUS
<1>9. a - b = e * Word + r
  <2>1. e * Word = g * Word - h * Word - c * Word
    <3>1. \A i \in Nat, j \in Nat, s \in Nat, w \in Nat : (i - j - s) * w = i * w - j * w - s * w
      OBVIOUS
    <3> QED BY <3>1, <1>1, <1>8
  <2>2. g * Word \in Nat /\ h * Word \in Nat /\ c * Word \in Nat
    BY <1>1
  <2> QED BY <2>1, <2>2, <1>2, <1>3, <1>5
<1>10. e < 0 => a < b
  <2> SUFFICES ASSUME e < 0 PROVE a < b OBVIOUS
  <2>1. PICK o \in Nat : o = -e - 1 OBVIOUS
  <2>2. e * Word = -(o * Word) - Word /\ o * Word \in Nat
    <3>1. \A i \in Nat, w \in Nat : (-i - 1) * w = -(i * w) - w /\ i * w \in Nat
      OBVIOUS
    <3> QED BY <3>1, <2>1, <1>1
  <2> QED BY <2>2, <1>1, <1>5, <1>9
<1>11. e >= 0 => b <= a /\ Pair(a - b) = [h |-> e, l |-> r]
  <2> SUFFICES ASSUME e >= 0 PROVE b <= a /\ Pair(a - b) = [h |-> e, l |-> r]
    OBVIOUS
  <2>1. e \in Nat /\ r \in 0 .. Word - 1
    BY <1>1, <1>5
  <2>2. Pair(a - b) = [h |-> e, l |-> r] /\ a - b \in Nat
    BY <2>1, <1>9, PairOf
  <2> QED BY <2>2
<1> QED BY <1>7, <1>8, <1>10, <1>11

\* Two words shifted one bit to the left.
LEMMA DoubledIs ==
  ASSUME NEW a \in Nat
  PROVE  Doubled(Pair(a)) = Pair(2 * a)
<1>1. Word \in Nat /\ Word > 0 /\ SignBit \in Nat /\ SignBit > 0 /\ Word = 2 * SignBit
  BY Format
<1>2. PICK h \in Nat, l \in 0 .. Word - 1 : Pair(a).h = h /\ Pair(a).l = l /\ a = h * Word + l
  BY PairIs
<1>3. l = SignBit * (l \div SignBit) + (l % SignBit) /\ l \div SignBit \in Nat /\ l % SignBit \in Nat
      /\ l % SignBit < SignBit
  BY <1>1, DivMod
<1>4. PICK c \in Nat, v \in Nat : c = l \div SignBit /\ v = l % SignBit /\ v < SignBit
  BY <1>3
<1>5. PICK i \in Nat, r \in 0 .. Word - 1 : i = 2 * l /\ r = 2 * v
  BY <1>1, <1>4
<1>6. i = Word * c + r
  <2>1. PICK s \in Nat : s = SignBit * c BY <1>1
  <2>2. Word * c = 2 * s BY <2>1, <1>1
  <2>3. l = s + v BY <2>1, <1>3, <1>4
  <2> QED BY <2>2, <2>3, <1>5
<1>7. i % Word = r BY <1>1, <1>6, DivModUnique
<1>8. Doubled(Pair(a)) = [h |-> 2 * h + c, l |-> r]
  BY <1>2, <1>4, <1>5, <1>7 DEF Doubled
<1>9. 2 * a = (2 * h + c) * Word + r /\ 2 * h + c \in Nat
  <2>1. PICK s \in Nat, w \in Nat : s = h * Word /\ w = c * Word
    BY <1>1
  <2>2. (2 * h + c) * Word = 2 * s + w BY <2>1, <1>1
  <2>3. Word * c = w BY <2>1, <1>1
  <2> QED BY <2>1, <2>2, <2>3, <1>2, <1>5, <1>6
<1> QED BY <1>8, <1>9, PairOf

\* What is left when b has been taken away if it fits.
Taken(r, b) == LET z == Minus(r, b) IN IF z.h >= 0 THEN z ELSE r

\* What is left below twice the divisor.
LEMMA TakenIs ==
  ASSUME NEW a \in Nat, NEW m \in Nat, a < 2 * m
  PROVE  Taken(Pair(a), Pair(m)) = Pair(a % m)
<1>1. m > 0 OBVIOUS
<1>2. PICK z : z = Minus(Pair(a), Pair(m)) OBVIOUS
<1>3. Taken(Pair(a), Pair(m)) = IF z.h >= 0 THEN z ELSE Pair(a)
  BY <1>2 DEF Taken
<1>4. CASE m <= a
  <2>1. z = Pair(a - m) /\ z.h >= 0
    BY <1>2, <1>4, MinusIs
  <2>2. a = m * 1 + (a - m) /\ 0 <= a - m /\ a - m < m /\ a - m \in Int /\ 1 \in Int
    BY <1>4
  <2>3. a % m = a - m BY <2>2, <1>1, DivModUnique
  <2> QED BY <2>1, <2>3, <1>3
<1>5. CASE a < m
  <2>1. ~(z.h >= 0) BY <1>2, <1>5, MinusIs
  <2>2. a = m * 0 + a /\ 0 <= a /\ a \in Int /\ 0 \in Int
    OBVIOUS
  <2>3. a % m = a BY <2>2, <1>1, <1>5, DivModUnique
  <2> QED BY <2>1, <2>3, <1>3
<1> QED BY <1>4, <1>5

\* A remainder may be taken before a product, too.
LEMMA ModProduct ==
  ASSUME NEW a \in Nat, NEW b \in Nat, NEW m \in Nat, m > 0
  PROVE  ((a % m) * b) % m = (a * b) % m /\ a * b \in Nat /\ (a % m) * b \in Nat
<1>1. a = m * (a \div m) + (a % m) /\ a \div m \in Nat /\ a % m \in Nat
  BY DivMod
<1>2. PICK q \in Nat, r \in Nat : q = a \div m /\ r = a % m /\ a = m * q + r
  BY <1>1
<1>3. PICK i \in Nat, j \in Nat : i = r * b /\ j = q * b
  OBVIOUS
<1>4. a * b = i + m * j
  <2>1. (m * q + r) * b = (m * q) * b + r * b /\ (m * q) * b = m * (q * b)
    OBVIOUS
  <2> QED BY <2>1, <1>2, <1>3
<1>5. (i + m * j) % m = i % m
  BY ModSum, i \in Int, j \in Int
<1>6. a * b \in Nat OBVIOUS
<1> QED BY <1>2, <1>3, <1>4, <1>5, <1>6

\* The function whose last value Left returns.
LeavesRest(f, a, b, n) ==
  f = [i \in 0 .. n |-> IF i = 0 THEN Taken(a, b) ELSE Taken(Doubled(f[i - 1]), b)]

\* What Left leaves is the remainder of a * 2^n.
LEMMA LeftIs ==
  ASSUME NEW a \in Nat, NEW m \in Nat, m > 0, a < 2 * m, NEW n \in Nat
  PROVE  Left(Pair(a), Pair(m), n) = Pair((a * Pow(n)) % m)
<1> DEFINE v(i) == (a * Pow(i)) % m
           g == [i \in 0 .. n |-> Pair(v(i))]
<1>1. Taken(Pair(a), Pair(m)) = Pair(v(0))
  <2>1. a * Pow(0) = a
    <3>1. Pow(0) = 1 BY PowType, 0 \in Nat
    <3> QED BY <3>1
  <2>2. Taken(Pair(a), Pair(m)) = Pair(a % m)
    BY TakenIs
  <2> QED BY <2>1, <2>2
<1>2. ASSUME NEW i \in Nat PROVE Taken(Doubled(Pair(v(i))), Pair(m)) = Pair(v(i + 1))
  <2>1. a * Pow(i) \in Nat /\ Pow(i) \in Nat
    BY PowType, Spread
  <2>2. PICK y \in Nat : y = a * Pow(i) BY <2>1
  <2>3. y % m \in Nat /\ y % m < m BY <2>2, DivMod
  <2>4. PICK r \in Nat : r = y % m /\ r < m BY <2>3
  <2>5. Doubled(Pair(r)) = Pair(2 * r) BY DoubledIs
  <2>6. 2 * r \in Nat /\ 2 * r < 2 * m BY <2>4
  <2>7. Taken(Pair(2 * r), Pair(m)) = Pair((2 * r) % m)
    BY <2>6, TakenIs
  <2>8. (2 * r) % m = (y * 2) % m
    <3>1. \A w \in Nat : ((y % m) * w) % m = (y * w) % m
      BY ONLY y \in Nat, m \in Nat, m > 0, ModProduct, ZenonT(30)
    <3>2. r * 2 = 2 * r OBVIOUS
    <3> QED BY <2>4, <3>1, <3>2
  <2>9. a * Pow(i + 1) = y * 2
    <3>1. Pow(i + 1) = 2 * Pow(i) BY PowType
    <3>2. PICK p \in Nat : p = Pow(i) BY <2>1
    <3>3. a * (2 * p) = (a * p) * 2 OBVIOUS
    <3> QED BY <2>2, <3>1, <3>2, <3>3
  <2> QED BY <2>2, <2>4, <2>5, <2>7, <2>8, <2>9
<1> HIDE DEF v
<1>3. LeavesRest(g, Pair(a), Pair(m), n)
  <2>1. ASSUME NEW i \in 0 .. n
        PROVE  Pair(v(i)) = IF i = 0 THEN Taken(Pair(a), Pair(m)) ELSE Taken(Doubled(g[i - 1]), Pair(m))
    <3>1. CASE i = 0 BY <3>1, <1>1
    <3>2. CASE i # 0
      <4>1. i - 1 \in 0 .. n /\ i - 1 \in Nat /\ (i - 1) + 1 = i
        BY <3>2
      <4>2. g[i - 1] = Pair(v(i - 1)) BY <4>1
      <4>3. Taken(Doubled(Pair(v(i - 1))), Pair(m)) = Pair(v((i - 1) + 1))
        BY <4>1, <1>2
      <4> QED BY <3>2, <4>1, <4>2, <4>3
    <3> QED BY <3>1, <3>2
  <2> QED BY <2>1 DEF LeavesRest
<1>4. PICK f : f = CHOOSE c : LeavesRest(c, Pair(a), Pair(m), n)
  OBVIOUS
<1>5. LeavesRest(f, Pair(a), Pair(m), n)
  BY <1>3, <1>4
<1>6. Left(Pair(a), Pair(m), n) = f[n]
  BY <1>4 DEF Left, LeavesRest, Taken
<1> DEFINE T == {i \in Nat : i <= n => f[i] = Pair(v(i))}
<1>7. 0 \in T
  <2>1. f[0] = Taken(Pair(a), Pair(m))
    BY <1>5 DEF LeavesRest
  <2> QED BY <2>1, <1>1
<1>8. ASSUME NEW i \in Nat, i \in T PROVE i + 1 \in T
  <2> SUFFICES ASSUME i + 1 <= n PROVE f[i + 1] = Pair(v(i + 1))
    OBVIOUS
  <2>1. PICK j \in 0 .. n : j = i + 1 /\ j # 0 /\ j - 1 = i
    OBVIOUS
  <2>2. f[j] = Taken(Doubled(f[j - 1]), Pair(m))
    BY <2>1, <1>5 DEF LeavesRest
  <2>3. f[i] = Pair(v(i)) BY <1>8
  <2> QED BY <2>1, <2>2, <2>3, <1>2
<1>9. n \in T
  <2>1. \A i \in Nat : i \in T
    <3> HIDE DEF T
    <3> QED BY <1>7, <1>8, NatSetInduction
  <2> QED BY <2>1
<1> QED BY <1>6, <1>9 DEF v

\* The double of a remainder, which is a number of units.
LEMMA RebuiltIs ==
  ASSUME NEW n \in BOOLEAN, NEW w \in Nat, w > 0, w < 2 * Fr,
         NEW o \in Nat, o <= (2 * Bias + FracBits) - 1, NEW u \in Nat, Fr * u = w * Pow(o),
         NEW i \in Int, i = o + 1 - Bias - FracBits,
         NEW z, z = Rebuilt(Pair(w), i, IF n THEN SignBit ELSE 0)
  PROVE  z \in AllDoubles /\ Finite(z) /\ Negative(z.hi) = n /\ Units(z) = u
<1> DEFINE sgn == IF n THEN SignBit ELSE 0
<1>1. FracBits \in Nat /\ Bias \in Nat /\ Hi \in Nat /\ Hi > 0 /\ Word \in Nat /\ Word > 0 /\ Fr \in Nat /\ Fr > 0
      /\ Fr = Hi * Word /\ SignBit \in Nat /\ SignBit = (2 * Bias + 2) * Hi
  BY Format, Products
<1>2. PICK t \in 0 .. FracBits : Pow(t) <= w /\ w < Pow(t + 1) /\ Top(w) = t
  BY TopOf
<1>3. PICK c \in Nat : c = FracBits - t BY <1>1
<1>4. PICK E \in Int : E = o + 1 - FracBits - c
  BY <1>1
<1>5. PICK e \in Int : e = i - c /\ e = E - Bias
  BY <1>1, <1>4
<1>6. PICK m \in Nat : m = w * Pow(c) BY PowType
<1>7. Fr <= m /\ m < 2 * Fr
  <2>1. Pow(FracBits + 1) = 2 * Fr
    BY <1>1, PowType DEF Fr
  <2>2. t \in Nat /\ t + c = FracBits BY <1>1, <1>3
  <2>3. Pow(t + c) <= w * Pow(c) /\ w * Pow(c) < Pow((t + c) + 1)
    BY <1>2, <1>3, <2>2, PowTops
  <2> QED BY <1>6, <2>1, <2>2, <2>3 DEF Fr
<1>8. z = IF e >= 1 - Bias
          THEN Words(sgn + (e + Bias - 1) * 2 ^ HighBits + (m \div Word), m % Word)
          ELSE Words(sgn + ((m \div Pow(1 - Bias - e)) \div Word), (m \div Pow(1 - Bias - e)) % Word)
  <2>1. w = Pair(w).h * Word + Pair(w).l BY PairIs
  <2>2. c = FracBits - Top(w) BY <1>2, <1>3
  <2> HIDE DEF sgn
  <2>3. PICK s : s = m \div Pow(1 - Bias - e)
    OBVIOUS
  <2>4. e = i - c BY <1>5
  <2>5. Rebuilt(Pair(w), i, sgn) = IF e >= 1 - Bias
          THEN Words(sgn + (e + Bias - 1) * 2 ^ HighBits + (m \div Word), m % Word)
          ELSE Words(sgn + (s \div Word), s % Word)
    BY ONLY <2>1, <2>2, <2>3, <2>4, <1>6, Zenon DEF Rebuilt, Pow
  <2>6. z = Rebuilt(Pair(w), i, sgn) BY DEF sgn
  <2> QED BY ONLY <2>3, <2>5, <2>6, Zenon
<1>9. ASSUME NEW h \in 0 .. SignBit - 1, NEW l \in 0 .. Word - 1 PROVE Words(sgn + h, l) = Double(n, h * Word + l)
  BY WordsAre
<1> HIDE DEF sgn
<1>10. CASE E >= 1
  <2>1. E \in Fields /\ E \in Nat /\ E <= 2 * Bias
    BY <1>1, <1>4, <1>10 DEF Fields
  <2>2. PICK g \in Fractions : m = g + Fr
    <3>1. m - Fr \in Fractions
      BY <1>1, <1>7 DEF Fractions
    <3> QED BY <3>1, <1>1
  <2>3. PICK a \in 0 .. Hi - 1, l \in 0 .. Word - 1 : a = g \div Word /\ l = g % Word /\ g = a * Word + l
    BY <2>1, FieldsAre
  <2>4. m \div Word = a + Hi /\ m % Word = l
    <3>1. m = (a + Hi) * Word + l /\ a + Hi \in Nat
      <4>1. (a + Hi) * Word = a * Word + Hi * Word /\ a * Word \in Nat /\ Hi * Word \in Nat
        BY <1>1
      <4> QED BY <4>1, <2>2, <2>3, <1>1
    <3>2. PICK q \in Nat : q = a + Hi BY <3>1
    <3>3. (q * Word + l) % Word = l /\ (q * Word + l) \div Word = q
      <4>1. l \in Nat /\ l < Word BY <1>1
      <4> QED BY ONLY <4>1, <1>1, q \in Nat, WordPair
    <3> QED BY <3>1, <3>2, <3>3
  <2>5. PICK v \in Nat : v = E * Hi BY <2>1, <1>1
  <2>6. (E - 1) * Hi = v - Hi BY <2>5, <2>1, <1>1
  <2>7. PICK h \in 0 .. SignBit - 1 : h = v + a
    <3>1. v + a < (2 * Bias + 2) * Hi
      <4>1. E < 2 * Bias + 2 /\ 2 * Bias + 2 \in Nat
        BY <2>1, <1>1
      <4>2. E * Hi + a < (2 * Bias + 2) * Hi
        BY <4>1, <2>1, <1>1, Products
      <4> QED BY <4>2, <2>5
    <3> QED BY <3>1, <1>1
  <2>8. z = Words(sgn + h, l)
    <3>1. e >= 1 - Bias /\ e + Bias - 1 = E - 1
      BY <1>1, <1>5, <1>10
    <3>2. 2 ^ HighBits = Hi BY PowersAre
    <3>3. z = Words(sgn + (E - 1) * Hi + (a + Hi), l)
      BY <3>1, <3>2, <1>8, <2>4
    <3>4. sgn \in Nat BY <1>1 DEF sgn
    <3>5. sgn + (v - Hi) + (a + Hi) = sgn + h
      BY <3>4, <2>7, <1>1
    <3> QED BY <3>3, <3>5, <2>6
  <2>9. z = Of(n, E, g)
    <3>1. (E * Hi + a) * Word + l = E * Fr + g
      <4>1. (E * Hi + a) * Word = E * (Hi * Word) + a * Word /\ E * Fr \in Nat /\ a * Word \in Nat
        BY <1>1, <2>1
      <4> QED BY <4>1, <2>3, <1>1
    <3>2. z = Double(n, (E * Hi + a) * Word + l)
      BY <2>5, <2>7, <2>8, <1>9
    <3> QED BY <3>1, <3>2 DEF Of
  <2>10. Units(z) = m * Pow(E - 1) /\ E - 1 \in Nat /\ Pow(E - 1) \in Nat
    BY <2>1, <2>2, <2>9, <1>1, <1>10, UnitsOf
  <2>11. Fr * Units(z) = Fr * u
    <3>1. o = c + ((E - 1) + FracBits) /\ (E - 1) + FracBits \in Nat
      BY <2>10, <1>1, <1>4
    <3>2. Pow(o) = Pow(c) * Pow((E - 1) + FracBits) /\ Pow((E - 1) + FracBits) = Pow(E - 1) * Fr
      BY <3>1, <2>10, <1>1, PowSum DEF Fr
    <3>3. PICK r \in Nat, q \in Nat : r = Pow(E - 1) /\ q = Pow(c)
      BY <2>10, PowType
    <3>4. Fr * (m * r) = (m * r) * Fr /\ m * r \in Nat
      BY <1>1, Regroup
    <3>5. (m * r) * Fr = m * (r * Fr) /\ r * Fr \in Nat
      BY <1>1, Regroup
    <3>6. (w * q) * (r * Fr) = w * (q * (r * Fr))
      BY <3>5, Regroup
    <3> QED BY <3>2, <3>3, <3>4, <3>5, <3>6, <2>10, <1>6
  <2>12. Units(z) = u
    <3>1. Units(z) \in Nat
      BY <2>1, <2>9, <1>1, UnitsOf
    <3>2. Fr * Units(z) = Units(z) * Fr /\ Fr * u = u * Fr
      BY <3>1, <1>1, Regroup
    <3>3. PICK units \in Nat, unit \in Nat : units = Units(z) /\ unit = Fr /\ unit > 0
      BY <3>1, <1>1
    <3>4. units * unit = u * unit
      BY <3>2, <3>3, <2>11
    <3>5. units = u
      <4>1. unit > 0 BY <3>3
      <4> QED BY ONLY <3>4, <4>1, units \in Nat, u \in Nat, unit \in Nat, Regroup, Zenon
    <3> QED BY <3>3, <3>5
  <2>13. z \in AllDoubles /\ Finite(z) /\ Negative(z.hi) = n
    <3>1. z \in AllDoubles /\ Finite(z)
      BY <2>1, <2>9, <1>1, ValuesOf
    <3>2. Negative(z.hi) = n BY <2>1, <2>9, SignOf
    <3> QED BY <3>1, <3>2
  <2> QED BY <2>12, <2>13
<1>11. CASE E < 1
  <2>1. PICK b \in Nat : b = 1 - E /\ b >= 1 /\ 1 - Bias - e = b /\ ~(e >= 1 - Bias)
    BY <1>1, <1>5, <1>11
  <2>2. m = u * Pow(b)
    <3>1. o + b = c + FracBits BY <2>1, <1>1, <1>4
    <3>2. Pow(o) * Pow(b) = Pow(c) * Fr
      <4>1. Pow(o + b) = Pow(o) * Pow(b) BY PowSum
      <4>2. Pow(c + FracBits) = Pow(c) * Pow(FracBits)
        BY <1>1, PowSum
      <4> QED BY <3>1, <4>1, <4>2 DEF Fr
    <3>3. PICK r \in Nat, q \in Nat, s \in Nat : r = Pow(b) /\ q = Pow(c) /\ s = Pow(o)
      BY PowType
    <3>4. (w * s) * r = w * (s * r) /\ w * (q * Fr) = (w * q) * Fr
      BY <1>1, Regroup
    <3>5. (Fr * u) * r = Fr * (u * r) /\ u * r \in Nat /\ Fr * (u * r) = (u * r) * Fr
      BY <1>1, Regroup
    <3>6. (u * r) * Fr = m * Fr
      BY <3>2, <3>3, <3>4, <3>5, <1>6
    <3> QED BY <3>3, <3>5, <3>6, <1>1, Regroup
  <2>3. PICK r \in Nat : r = Pow(b) /\ r >= 2
    <3>1. Pow(1) <= Pow(b) /\ Pow(1) = 2 /\ Pow(b) \in Nat
      BY <2>1, PowBelow, PowType, 1 \in Nat
    <3> QED BY <3>1
  <2>4. m \div r = u
    <3>1. m = r * u + 0 BY <2>2, <2>3
    <3> QED BY <3>1, <2>3, DivModUnique
  <2>5. u \in Fractions
    <3>1. u * 2 <= u * r /\ u * r = m
      <4>1. 2 * u <= r * u
        BY <2>3, Products, 2 \in Nat
      <4> QED BY <4>1, <2>2, <2>3
    <3> QED BY <3>1, <1>1, <1>7 DEF Fractions
  <2>6. 0 \in Fields /\ 0 < 2 * Bias + 1
    BY <1>1 DEF Fields
  <2>7. z = Words(sgn + (u \div Word), u % Word)
    BY <2>1, <2>3, <2>4, <1>8
  <2>8. z = Of(n, 0, u)
    <3>1. PICK a \in 0 .. Hi - 1, l \in 0 .. Word - 1 : a = u \div Word /\ l = u % Word /\ u = a * Word + l
      BY <2>5, <2>6, FieldsAre
    <3>2. a \in 0 .. SignBit - 1
      <4>1. 1 * Hi <= (2 * Bias + 2) * Hi /\ 1 * Hi = Hi
        <5>1. 2 * Bias + 2 \in Nat /\ 1 <= 2 * Bias + 2 /\ 1 \in Nat
          BY <1>1
        <5> QED BY <5>1, <1>1, Products
      <4> QED BY <4>1, <1>1
    <3>3. z = Double(n, u) BY <3>1, <3>2, <2>7, <1>9
    <3>4. 0 * Fr + u = u BY <1>1
    <3> QED BY <3>3, <3>4 DEF Of
  <2>9. Units(z) = u BY <2>5, <2>6, <2>8, UnitsOf
  <2>10. z \in AllDoubles /\ Finite(z) /\ Negative(z.hi) = n
    <3>1. z \in AllDoubles /\ Finite(z)
      BY <2>5, <2>6, <2>8, ValuesOf
    <3>2. Negative(z.hi) = n
      BY <2>5, <2>6, <2>8, SignOf
    <3> QED BY <3>1, <3>2
  <2> QED BY <2>9, <2>10
<1> QED BY <1>10, <1>11

\* The branches of fmod, by the order of magnitudes.
LEMMA FmodCases ==
  ASSUME NEW d \in AllDoubles, NEW y \in AllDoubles,
         NEW hx, hx = d.hi % SignBit, NEW hy, hy = y.hi % SignBit,
         NEW rest, rest = Left(Aligned(hx, d.lo), Aligned(hy, y.lo), Ilogb(hx, d.lo) - Ilogb(hy, y.lo))
  PROVE  /\ LittleEndian /\ (IsNaN(y) \/ Magnitude(y) = 0 \/ ~Finite(d)) => fmod(d, y) = NaN
         /\ ~(IsNaN(y) \/ Magnitude(y) = 0 \/ ~Finite(d)) =>
              /\ Magnitude(d) < Magnitude(y) => fmod(d, y) = d
              /\ Magnitude(d) = Magnitude(y) => fmod(d, y) = Zero(Sign(d.hi))
              /\ Magnitude(d) > Magnitude(y) =>
                   fmod(d, y) = IF rest.h = 0 /\ rest.l = 0 THEN Zero(Sign(d.hi))
                                ELSE Rebuilt(rest, Ilogb(hy, y.lo), Sign(d.hi))
<1>1. Word \in Nat /\ Word > 0 /\ SignBit \in Nat
  BY Format
<1>2. HI(d) = d.hi /\ LO(d) = d.lo /\ HI(y) = y.hi /\ LO(y) = y.lo
  BY DEF HI, LO
<1>3. finite(d) = Finite(d) /\ isnan(y) = IsNaN(y)
  BY TestsAre
<1>4. d.hi \in 0 .. Word - 1 /\ d.lo \in 0 .. Word - 1 /\ y.hi \in 0 .. Word - 1 /\ y.lo \in 0 .. Word - 1
  BY DoubleOf
<1>5. hx \in 0 .. SignBit - 1 /\ hy \in 0 .. SignBit - 1
  BY <1>4, SignIs
<1>6. Magnitude(d) = hx * Word + d.lo /\ Magnitude(y) = hy * Word + y.lo
  BY DEF Magnitude
<1>7. PICK a \in Nat, b \in Nat : a = Magnitude(d) /\ b = Magnitude(y)
  BY DoubleOf
<1>8. /\ a <= b <=> hx < hy \/ (hx = hy /\ d.lo <= y.lo)
      /\ b <= a <=> hy < hx \/ (hy = hx /\ y.lo <= d.lo)
  <2>1. PICK r \in 0 .. Word - 1, s \in 0 .. Word - 1 : r = d.lo /\ s = y.lo
    BY <1>4
  <2>2. hx \in Nat /\ hy \in Nat BY <1>1, <1>5
  <2>3. /\ hx * Word + r <= hy * Word + s <=> hx < hy \/ (hx = hy /\ r <= s)
        /\ hy * Word + s <= hx * Word + r <=> hy < hx \/ (hy = hx /\ s <= r)
    BY ONLY <2>2, <1>1, r \in 0 .. Word - 1, s \in 0 .. Word - 1, WordOrder
  <2> QED BY <2>1, <2>3, <1>6, <1>7
<1>9. /\ a < b <=> hx < hy \/ (hx = hy /\ d.lo < y.lo)
      /\ a = b <=> hx = hy /\ d.lo = y.lo
      /\ a > b <=> hx > hy \/ (hx = hy /\ d.lo > y.lo)
  BY <1>1, <1>4, <1>5, <1>7, <1>8
<1>10. IsZero(y.hi, y.lo) <=> b = 0
  <2>1. hy > 0 => hy * Word > 0
    BY <1>1, <1>5, Products
  <2>2. hy = 0 => hy * Word = 0 BY <1>1
  <2>3. hy * Word \in Nat BY <1>1, <1>5
  <2> QED BY <2>1, <2>2, <2>3, <1>1, <1>4, <1>5, <1>6, <1>7 DEF IsZero
<1>11. CASE IsNaN(y) \/ b = 0 \/ ~Finite(d)
  <2>1. IsZero(HI(y), LO(y)) \/ ~finite(d) \/ isnan(y)
    BY <1>2, <1>3, <1>10, <1>11
  <2>2. fmod(d, y) = Arith(NaN, d)
    BY ONLY <2>1, Zenon DEF fmod
  <2>3. LittleEndian => fmod(d, y) = NaN
    BY <2>2, ViewIsSame
  <2> QED BY <2>3, <1>7, <1>11
<1>12. CASE ~(IsNaN(y) \/ b = 0 \/ ~Finite(d))
  <2>1. ~(IsZero(HI(y), LO(y)) \/ ~finite(d) \/ isnan(y))
    BY <1>2, <1>3, <1>10, <1>12
  <2>2. /\ a < b => fmod(d, y) = d
        /\ a = b => fmod(d, y) = Zero(Sign(d.hi))
        /\ a > b => fmod(d, y) = IF rest.h = 0 /\ rest.l = 0 THEN Zero(Sign(d.hi))
                                 ELSE Rebuilt(rest, Ilogb(hy, y.lo), Sign(d.hi))
    <3>1. fmod(d, y) =
            CASE hx < hy \/ (hx = hy /\ d.lo < y.lo) -> d
              [] hx = hy /\ d.lo = y.lo -> Zero(Sign(d.hi))
              [] hx > hy \/ (hx = hy /\ d.lo > y.lo) ->
                   IF rest.h = 0 /\ rest.l = 0 THEN Zero(Sign(d.hi))
                   ELSE Rebuilt(rest, Ilogb(hy, y.lo), Sign(d.hi))
      BY <2>1, <1>2, Zenon DEF fmod
    <3>2. CASE a < b
      <4>1. /\ hx < hy \/ (hx = hy /\ d.lo < y.lo)
            /\ ~(hx = hy /\ d.lo = y.lo)
            /\ ~(hx > hy \/ (hx = hy /\ d.lo > y.lo))
        BY <3>2, <1>9
      <4>2. fmod(d, y) = d BY ONLY <3>1, <4>1, Zenon
      <4> QED BY <3>2, <4>2
    <3>3. CASE a = b
      <4>1. /\ ~(hx < hy \/ (hx = hy /\ d.lo < y.lo))
            /\ hx = hy /\ d.lo = y.lo
            /\ ~(hx > hy \/ (hx = hy /\ d.lo > y.lo))
        BY <3>3, <1>9
      <4>2. fmod(d, y) = Zero(Sign(d.hi))
        BY ONLY <3>1, <4>1, Zenon
      <4> QED BY <3>3, <4>2
    <3>4. CASE a > b
      <4>1. /\ ~(hx < hy \/ (hx = hy /\ d.lo < y.lo))
            /\ ~(hx = hy /\ d.lo = y.lo)
            /\ hx > hy \/ (hx = hy /\ d.lo > y.lo)
        BY <3>4, <1>9
      <4>2. fmod(d, y) = IF rest.h = 0 /\ rest.l = 0 THEN Zero(Sign(d.hi))
                         ELSE Rebuilt(rest, Ilogb(hy, y.lo), Sign(d.hi))
        BY ONLY <3>1, <4>1, Zenon
      <4> QED BY <3>4, <4>2
    <3> QED BY <3>2, <3>3, <3>4
  <2> QED BY <2>2, <1>7, <1>12
<1> QED BY <1>11, <1>12

\* What is left of aligned words, w of (a * 2^i) modulo b, is what is left of the units.
LEMMA LoopUnits ==
  ASSUME NEW a \in Nat, NEW b \in Nat, Fr <= b, a < 2 * Fr, NEW i \in Nat, NEW o \in Nat,
         NEW X \in Nat, Fr * X = a * Pow(i + o), NEW Y \in Nat, Fr * Y = b * Pow(o),
         NEW w, w = (a * Pow(i)) % b
  PROVE  w \in Nat /\ w < b /\ Y > 0 /\ Fr * (X % Y) = w * Pow(o) /\ X % Y \in Nat /\ X % Y < Y
<1>1. Fr \in Nat /\ Fr > 0 /\ b > 0
  BY Format, Products
<1>2. PICK p \in Nat, q \in Nat : p = Pow(i) /\ q = Pow(o) /\ q > 0 /\ Pow(i + o) = p * q
  <2>1. Pow(i) \in Nat /\ Pow(o) \in Nat /\ Pow(o) > 0
    BY PowType
  <2>2. Pow(i + o) = Pow(i) * Pow(o) BY PowSum
  <2> QED BY <2>1, <2>2
<1>3. PICK v \in Nat : v = a * p OBVIOUS
<1>4. v = b * (v \div b) + (v % b) /\ v \div b \in Nat /\ v % b \in Nat /\ v % b < b
  BY <1>1, DivMod
<1>5. PICK c \in Nat : c = v \div b BY <1>4
<1>6. w \in Nat /\ w < b /\ v = b * c + w
  BY <1>2, <1>3, <1>4, <1>5
<1>7. PICK m \in Nat : m = b * c /\ v = m + w
  BY <1>6
<1>8. Fr * X = c * (Fr * Y) + w * q
  <2>1. Fr * X = (a * p) * q
    <3>1. (a * p) * q = a * (p * q) BY Regroup
    <3> QED BY <3>1, <1>2
  <2>2. (m + w) * q = m * q + w * q BY <1>6
  <2>3. m * q = c * (b * q)
    <3>1. b * c = c * b /\ (c * b) * q = c * (b * q)
      BY Regroup
    <3> QED BY <3>1, <1>7
  <2> QED BY <2>1, <2>2, <2>3, <1>2, <1>3, <1>7
<1>9. Y > 0 /\ w * q < Fr * Y
  <2>1. w * q < b * q BY <1>2, <1>6, Regroup
  <2>2. b * q > 0 BY <1>1, <1>2, Products
  <2>3. Y = 0 => Fr * Y = 0 BY <1>1
  <2> QED BY <2>1, <2>2, <2>3, <1>2
<1>10. PICK u \in Nat : u = c * Y OBVIOUS
<1>11. c * (Fr * Y) = Fr * u
  <2>1. Fr * Y = Y * Fr /\ (c * Y) * Fr = c * (Y * Fr) /\ u * Fr = Fr * u
    BY <1>1, <1>10, Regroup
  <2> QED BY <2>1, <1>10
<1>12. w * q \in Nat /\ Fr * X \in Nat /\ Fr * u \in Nat /\ Fr * Y \in Nat
  BY <1>1, <1>6, Spread
<1>13. u <= X
  <2>1. Fr * u <= Fr * X BY <1>8, <1>11, <1>12
  <2>2. X < u => X * Fr < u * Fr BY <1>1, Regroup
  <2>3. X * Fr = Fr * X /\ u * Fr = Fr * u
    BY <1>1, Regroup
  <2> QED BY <2>1, <2>2, <2>3, <1>12
<1>14. PICK r \in Nat : r = X - u BY <1>13
<1>15. Fr * r = w * q
  <2>1. Fr * X = Fr * u + Fr * r /\ Fr * r \in Nat
    <3>1. X = u + r /\ X \in Int /\ u \in Int /\ r \in Int /\ Fr \in Int
      BY <1>1, <1>14
    <3> QED BY <3>1, <1>1, Spread
  <2> QED BY <2>1, <1>8, <1>11, <1>12
<1>16. r < Y
  <2>1. Y <= r => Y * Fr <= r * Fr BY <1>1, Products
  <2>2. Y * Fr = Fr * Y /\ r * Fr = Fr * r
    BY <1>1, Regroup
  <2> QED BY <2>1, <2>2, <1>9, <1>12, <1>15
<1>17. X % Y = r
  <2>1. X = Y * c + r
    <3>1. c * Y = Y * c BY Regroup
    <3> QED BY <3>1, <1>10, <1>14
  <2>2. X \in Int /\ c \in Int /\ r \in Int /\ 0 <= r /\ Y \in Nat
    OBVIOUS
  <2> QED BY ONLY <2>1, <2>2, <1>9, <1>16, DivModUnique
<1> QED BY <1>2, <1>6, <1>9, <1>15, <1>16, <1>17

\* Zero with a sign.
LEMMA ZeroIs ==
  ASSUME NEW d \in AllDoubles, NEW z, z = Words(Sign(d.hi), 0)
  PROVE  z \in AllDoubles /\ Finite(z) /\ Negative(z.hi) = Negative(d.hi) /\ Units(z) = 0 /\ Magnitude(z) = 0
<1>1. PICK n \in BOOLEAN, k \in Fields, f \in Fractions : d = Of(n, k, f)
  BY PartsOf
<1>2. Negative(d.hi) = n /\ Sign(d.hi) = IF n THEN SignBit ELSE 0
  BY <1>1, SignOf
<1>3. 0 \in Fields /\ 0 \in Fractions /\ 0 < 2 * Bias + 1 /\ Fr \in Nat
  BY Format, Products DEF Fields, Fractions
<1>4. z = Of(n, 0, 0) BY <1>2, SmallDoubles
<1>5. z \in AllDoubles /\ Finite(z) /\ Magnitude(z) = 0 * Fr + 0
  BY <1>3, <1>4, ValuesOf
<1>6. Negative(z.hi) = n BY <1>3, <1>4, SignOf
<1>7. Units(z) = 0 BY <1>3, <1>4, UnitsOf
<1> QED BY <1>2, <1>3, <1>5, <1>6, <1>7

\* fmod is the remainder, of numbers of units; 0 is one of the machine.
LEMMA FmodUnits ==
  ASSUME NEW d \in AllDoubles, NEW y \in AllDoubles, Finite(d), Finite(y), Magnitude(y) > 0,
         NEW z, z = fmod(d, y)
  PROVE  /\ Units(d) \in Nat /\ Units(y) \in Nat /\ Units(y) > 0
         /\ Units(d) % Units(y) = 0 => z = IF Magnitude(d) = 0 THEN d ELSE Zero(Sign(d.hi))
         /\ Units(d) % Units(y) # 0 =>
              /\ z \in AllDoubles /\ Finite(z) /\ Negative(z.hi) = Negative(d.hi)
              /\ Units(z) = Units(d) % Units(y)
<1> DEFINE hx == d.hi % SignBit
           hy == y.hi % SignBit
           rest == Left(Aligned(hx, d.lo), Aligned(hy, y.lo), Ilogb(hx, d.lo) - Ilogb(hy, y.lo))
<1>1. PICK X \in Nat, Y \in Nat, a \in Nat, b \in Nat :
        /\ X = Units(d) /\ Y = Units(y) /\ a = Magnitude(d) /\ b = Magnitude(y)
        /\ a < b <=> X < Y
        /\ a = b <=> X = Y
        /\ Y = 0 <=> b = 0
        /\ X = 0 <=> a = 0
  <2>1. /\ Units(d) \in Nat /\ Units(y) \in Nat /\ Magnitude(d) \in Nat /\ Magnitude(y) \in Nat
        /\ Magnitude(d) < Magnitude(y) <=> Units(d) < Units(y)
        /\ Magnitude(d) = Magnitude(y) <=> Units(d) = Units(y)
    BY UnitsOrder
  <2>2. (Units(y) = 0 <=> Magnitude(y) = 0) /\ (Units(d) = 0 <=> Magnitude(d) = 0)
    BY UnitsOrder
  <2> QED BY <2>1, <2>2
<1>2. Y > 0 /\ b > 0 BY <1>1
<1>3. ~(IsNaN(y) \/ Magnitude(y) = 0 \/ ~Finite(d))
  <2>1. ~IsNaN(y)
    <3>1. Infinity \in Nat BY AllIs
    <3> QED BY <3>1, <1>1 DEF IsNaN, Finite
  <2> QED BY <2>1, <1>1, <1>2
<1>4. /\ a < b => z = d
      /\ a = b => z = Zero(Sign(d.hi))
      /\ a > b => z = IF rest.h = 0 /\ rest.l = 0 THEN Zero(Sign(d.hi))
                      ELSE Rebuilt(rest, Ilogb(hy, y.lo), Sign(d.hi))
  <2>1. /\ Magnitude(d) < Magnitude(y) => fmod(d, y) = d
        /\ Magnitude(d) = Magnitude(y) => fmod(d, y) = Zero(Sign(d.hi))
        /\ Magnitude(d) > Magnitude(y) =>
             fmod(d, y) = IF rest.h = 0 /\ rest.l = 0 THEN Zero(Sign(d.hi))
                          ELSE Rebuilt(rest, Ilogb(hy, y.lo), Sign(d.hi))
    BY <1>3, FmodCases
  <2> HIDE DEF hx, hy, rest
  <2> QED BY <2>1, <1>1
<1> HIDE DEF rest
<1>5. CASE a < b
  <2>1. X % Y = X
    <3>1. X = Y * 0 + X /\ X < Y /\ X \in Int /\ 0 \in Int /\ 0 <= X
      BY <1>1, <1>5
    <3> QED BY ONLY <3>1, <1>2, Y \in Nat, DivModUnique
  <2> QED BY <2>1, <1>1, <1>2, <1>4, <1>5
<1>6. CASE a = b
  <2>1. X % Y = 0
    <3>1. X = Y * 1 + 0 /\ 0 < Y /\ X \in Int /\ 0 \in Int /\ 1 \in Int /\ 0 <= 0
      BY <1>1, <1>2, <1>6
    <3> QED BY ONLY <3>1, Y \in Nat, DivModUnique
  <2>2. z = Zero(Sign(d.hi)) BY <1>4, <1>6
  <2> QED BY <2>1, <2>2, <1>1, <1>2, <1>6
<1>7. CASE a > b
  <2>1. PICK n \in BOOLEAN, k \in Fields, f \in Fractions : d = Of(n, k, f)
    BY PartsOf
  <2>2. PICK p \in BOOLEAN, j \in Fields, g \in Fractions : y = Of(p, j, g)
    BY PartsOf
  <2>3. Fr \in Nat /\ Fr > 0 /\ Bias \in Nat /\ FracBits \in Nat
    BY Format, Products
  <2>4. k < 2 * Bias + 1 /\ ~(k = 0 /\ f = 0)
    <3>1. (Finite(d) <=> k < 2 * Bias + 1) /\ Magnitude(d) = k * Fr + f
      BY <2>1, ValuesOf
    <3>2. 0 * Fr + 0 = 0 BY <2>3
    <3> QED BY <3>1, <3>2, <1>1, <1>7
  <2>5. j < 2 * Bias + 1 /\ ~(j = 0 /\ g = 0)
    <3>1. (Finite(y) <=> j < 2 * Bias + 1) /\ Magnitude(y) = j * Fr + g
      BY <2>2, ValuesOf
    <3>2. 0 * Fr + 0 = 0 BY <2>3
    <3> QED BY <3>1, <3>2, <1>1, <1>2
  <2>6. PICK m \in Nat, e \in Nat :
           /\ Fr <= m /\ m < 2 * Fr /\ e <= (2 * Bias + FracBits) - 1
           /\ Ilogb(hx, d.lo) = e + 1 - Bias - FracBits
           /\ Fr * X = m * Pow(e)
           /\ Aligned(hx, d.lo) = Pair(m)
    BY <2>1, <2>4, <1>1, AlignedIs
  <2>7. PICK v \in Nat, o \in Nat :
           /\ Fr <= v /\ v < 2 * Fr /\ o <= (2 * Bias + FracBits) - 1
           /\ Ilogb(hy, y.lo) = o + 1 - Bias - FracBits
           /\ Fr * Y = v * Pow(o)
           /\ Aligned(hy, y.lo) = Pair(v)
    BY <2>2, <2>5, <1>1, AlignedIs
  <2> HIDE DEF hx, hy
  <2>8. o <= e
    <3> SUFFICES ASSUME e < o PROVE FALSE
      BY <2>6, <2>7
    <3>1. PICK q \in Nat, r \in Nat : q = Pow(e) /\ r = Pow(o) /\ q > 0 /\ 2 * q <= r
      BY PowType, PowOrder
    <3>2. m * q < (2 * Fr) * q
      BY <2>3, <2>6, <3>1, Regroup
    <3>3. (2 * Fr) * q = (2 * q) * Fr /\ (2 * q) * Fr <= r * Fr /\ r * Fr = Fr * r
      BY <2>3, <3>1, Products
    <3>4. Fr * r <= v * r BY <2>3, <2>7, Products
    <3>5. m * q \in Nat /\ (2 * q) * Fr \in Nat /\ r * Fr \in Nat /\ v * r \in Nat
      BY <2>3, Spread
    <3>6. Fr * X < Fr * Y
      BY <3>1, <3>2, <3>3, <3>4, <3>5, <2>6, <2>7
    <3>7. Fr * Y <= Fr * X
      <4>1. Y <= X BY <1>1, <1>7
      <4>2. Y * Fr <= X * Fr /\ Y * Fr = Fr * Y /\ X * Fr = Fr * X
        BY <4>1, <2>3, Products, Regroup
      <4> QED BY <4>2
    <3>8. Fr * X \in Nat /\ Fr * Y \in Nat
      BY <2>3, Spread
    <3> QED BY <3>6, <3>7, <3>8
  <2>9. PICK i \in Nat : e = i + o
    <3>1. e - o \in Nat /\ e = (e - o) + o BY <2>8
    <3> QED BY <3>1
  <2>10. PICK w : w = (m * Pow(i)) % v OBVIOUS
  <2>11. w \in Nat /\ w < v /\ Y > 0 /\ Fr * (X % Y) = w * Pow(o) /\ X % Y \in Nat /\ X % Y < Y
    BY <2>6, <2>7, <2>9, <2>10, LoopUnits
  <2>12. rest = Pair(w)
    <3>1. Ilogb(hx, d.lo) - Ilogb(hy, y.lo) = i
      BY <2>3, <2>6, <2>7, <2>9
    <3>2. v > 0 /\ m < 2 * v BY <2>3, <2>6, <2>7
    <3>3. Left(Pair(m), Pair(v), i) = Pair((m * Pow(i)) % v)
      BY <3>2, LeftIs
    <3> QED BY <3>1, <3>3, <2>6, <2>7, <2>10 DEF rest
  <2>13. rest.h = 0 /\ rest.l = 0 <=> w = 0
    <3>1. Word \in Nat /\ Word > 0 BY Format
    <3>2. PICK h \in Nat, l \in 0 .. Word - 1 : rest.h = h /\ rest.l = l /\ w = h * Word + l
      BY <2>11, <2>12, PairIs
    <3>3. h > 0 => h * Word > 0 BY <3>1, Products
    <3>4. h * Word \in Nat /\ (h = 0 => h * Word = 0)
      BY <3>1
    <3> QED BY <3>1, <3>2, <3>3, <3>4
  <2>14. CASE w = 0
    <3>1. X % Y = 0
      <4>1. PICK u \in Nat : u = X % Y BY <2>11
      <4>2. u > 0 => Fr * u > 0 BY <2>3, Products
      <4>3. Fr * u = 0
        <5>1. 0 * Pow(o) = 0 BY PowType
        <5> QED BY <5>1, <4>1, <2>11, <2>14
      <4> QED BY <4>1, <4>2, <4>3
    <3>2. z = Zero(Sign(d.hi))
      BY <2>13, <2>14, <1>4, <1>7
    <3> QED BY <3>1, <3>2, <1>1, <1>2, <1>7
  <2>15. CASE w > 0
    <3>1. PICK u \in Nat, c \in Int : u = X % Y /\ c = Ilogb(hy, y.lo) /\ c = o + 1 - Bias - FracBits
      BY <2>3, <2>7, <2>11
    <3>2. Negative(d.hi) = n /\ Sign(d.hi) = IF n THEN SignBit ELSE 0
      BY <2>1, SignOf
    <3>3. z = Rebuilt(Pair(w), c, IF n THEN SignBit ELSE 0)
      <4>1. ~(rest.h = 0 /\ rest.l = 0)
        BY <2>13, <2>15
      <4>2. z = Rebuilt(rest, Ilogb(hy, y.lo), Sign(d.hi))
        BY <4>1, <1>4, <1>7
      <4> QED BY <4>2, <3>1, <3>2, <2>12, Zenon
    <3>4. w < 2 * Fr /\ Fr * u = w * Pow(o)
      BY <2>3, <2>7, <2>11, <3>1
    <3>5. z \in AllDoubles /\ Finite(z) /\ Negative(z.hi) = n /\ Units(z) = u
      BY <3>1, <3>3, <3>4, <2>7, <2>11, <2>15, RebuiltIs
    <3>6. u # 0
      <4>1. PICK q \in Nat : q = Pow(o) /\ q > 0
        BY PowType
      <4>2. w * q > 0
        BY <4>1, <2>11, <2>15, Products
      <4>3. Fr * 0 = 0 BY <2>3
      <4> QED BY <4>1, <4>2, <4>3, <3>4
    <3> QED BY <3>1, <3>2, <3>5, <3>6, <1>1, <1>2
  <2> QED BY <2>11, <2>14, <2>15
<1> QED BY <1>1, <1>5, <1>6, <1>7

\* Where the words are not exchanged 0 is seen as 0.
LEMMA FmodIs ==
  ASSUME LittleEndian, NEW d \in AllDoubles, NEW y \in AllDoubles, Finite(d), Finite(y), Magnitude(y) > 0,
         NEW z, z = fmod(d, y)
  PROVE  /\ z \in AllDoubles /\ Finite(z) /\ Negative(z.hi) = Negative(d.hi)
         /\ Units(d) \in Nat /\ Units(y) \in Nat /\ Units(y) > 0
         /\ Units(z) = Units(d) % Units(y)
<1>1. /\ Units(d) \in Nat /\ Units(y) \in Nat /\ Units(y) > 0
      /\ Units(d) % Units(y) = 0 => z = IF Magnitude(d) = 0 THEN d ELSE Zero(Sign(d.hi))
      /\ Units(d) % Units(y) # 0 =>
           /\ z \in AllDoubles /\ Finite(z) /\ Negative(z.hi) = Negative(d.hi)
           /\ Units(z) = Units(d) % Units(y)
  BY FmodUnits
<1>2. Units(d) = 0 <=> Magnitude(d) = 0
  BY UnitsOrder
<1>3. Zero(Sign(d.hi)) = Words(Sign(d.hi), 0)
  BY ViewIsSame, Zenon DEF Zero, Words
<1>4. ASSUME Units(d) % Units(y) = 0
      PROVE  z \in AllDoubles /\ Finite(z) /\ Negative(z.hi) = Negative(d.hi) /\ Units(z) = 0
  <2>1. CASE Magnitude(d) = 0
    BY <2>1, <1>1, <1>2, <1>4
  <2>2. CASE Magnitude(d) # 0
    <3>1. z = Words(Sign(d.hi), 0)
      BY <2>2, <1>1, <1>3, <1>4
    <3> QED BY <3>1, ZeroIs
  <2> QED BY <2>1, <2>2
<1> QED BY <1>1, <1>4

\* A double of numbers that fit is as many units.
LEMMA ComposedUnits ==
  ASSUME NEW n \in BOOLEAN, NEW m \in Nat, m < 2 * Fr, NEW s \in Int, s >= Least0,
         NEW t \in 0 .. FracBits, m > 0 => Pow(t) <= m /\ m < Pow(t + 1), s + t <= Bias,
         NEW z, z = Composed(n, m, s)
  PROVE  z \in AllDoubles /\ Finite(z) /\ Negative(z.hi) = n /\ Units(z) = m * Pow(s - Least0)
<1>1. /\ z \in AllDoubles /\ Finite(z) /\ (Negative(z.hi) <=> n)
      /\ Scale(z) \in Int /\ Least0 <= Scale(z) /\ Scale(z) <= s
      /\ Mantissa(z) = m * Pow(s - Scale(z))
  BY ComposedExact
<1>2. Least0 \in Int BY Format DEF Least0
<1>3. PICK i \in Nat, j \in Nat : i = s - Scale(z) /\ j = Scale(z) - Least0 /\ s - Least0 = i + j
  BY <1>1, <1>2
<1>4. PICK p \in Nat, q \in Nat : p = Pow(i) /\ q = Pow(j) /\ Pow(i + j) = p * q
  BY PowType, PowSum
<1>5. (m * p) * q = m * (p * q) BY Regroup
<1>6. Units(z) = m * Pow(s - Least0)
  BY <1>1, <1>3, <1>4, <1>5 DEF Units
<1>7. Negative(z.hi) = n
  <2>1. Negative(z.hi) \in BOOLEAN BY DEF Negative
  <2> QED BY <1>1, <2>1
<1> QED BY <1>1, <1>6, <1>7

\* Twice a number, and half of one, where they are exact.
LEMMA TwiceUnits ==
  ASSUME NEW d \in AllDoubles, Finite(d)
  PROVE  /\ Scale(d) + 1 + FracBits <= Bias =>
              /\ Times(d, 1) \in AllDoubles /\ Finite(Times(d, 1)) /\ Negative(Times(d, 1).hi) = Negative(d.hi)
              /\ Units(Times(d, 1)) = 2 * Units(d)
         /\ Scale(d) > Least0 =>
              /\ Times(d, -1) \in AllDoubles /\ Finite(Times(d, -1)) /\ Negative(Times(d, -1).hi) = Negative(d.hi)
              /\ 2 * Units(Times(d, -1)) = Units(d)
         /\ Units(d) \in Nat
<1>1. FracBits \in Nat /\ Bias \in Nat /\ Least0 \in Int
  BY Format DEF Least0
<1>2. Mantissa(d) \in Nat /\ Mantissa(d) < 2 * Fr /\ Scale(d) \in Int /\ Least0 <= Scale(d)
      /\ Scale(d) + FracBits <= Bias
  BY RoundTrip
<1>3. PICK m \in Nat, s \in Int : m = Mantissa(d) /\ s = Scale(d) /\ m < 2 * Fr /\ Least0 <= s /\ s + FracBits <= Bias
  BY <1>2
<1>4. PICK n \in BOOLEAN : n = Negative(d.hi)
  <2>1. Negative(d.hi) \in BOOLEAN BY DEF Negative
  <2> QED BY <2>1, Zenon
<1>5. PICK t \in 0 .. FracBits : m > 0 => Pow(t) <= m /\ m < Pow(t + 1)
  <2>1. CASE m > 0 BY <2>1, <1>3, TopOf
  <2>2. CASE m = 0 BY <2>2, <1>1
  <2> QED BY <2>1, <2>2
<1>6. ASSUME NEW i \in Int, s + i >= Least0, s + i + FracBits <= Bias
      PROVE  /\ Times(d, i) \in AllDoubles /\ Finite(Times(d, i)) /\ Negative(Times(d, i).hi) = n
             /\ Units(Times(d, i)) = m * Pow((s + i) - Least0)
  <2>1. Times(d, i) = Composed(n, m, s + i)
    BY <1>3, <1>4, Zenon DEF Times
  <2>2. s + i \in Int /\ s + i + t <= Bias
    BY <1>1, <1>6
  <2> QED BY <2>1, <2>2, <1>3, <1>5, <1>6, ComposedUnits
<1>7. PICK u \in Nat : u = s - Least0 BY <1>1, <1>3
<1>8. Units(d) = m * Pow(u) /\ Pow(u) \in Nat
  BY <1>3, <1>7, PowType DEF Units
<1>9. Units(d) \in Nat BY <1>8
<1>10. ASSUME s + 1 + FracBits <= Bias
       PROVE  /\ Times(d, 1) \in AllDoubles /\ Finite(Times(d, 1)) /\ Negative(Times(d, 1).hi) = n
              /\ Units(Times(d, 1)) = 2 * Units(d)
  <2>1. s + 1 >= Least0 /\ 1 \in Int /\ (s + 1) - Least0 = u + 1
    BY <1>1, <1>3, <1>7
  <2>2. /\ Times(d, 1) \in AllDoubles /\ Finite(Times(d, 1)) /\ Negative(Times(d, 1).hi) = n
        /\ Units(Times(d, 1)) = m * Pow((s + 1) - Least0)
    BY <2>1, <1>6, <1>10
  <2>3. Pow(u + 1) = 2 * Pow(u) BY PowType
  <2>4. PICK p \in Nat : p = Pow(u) BY <1>8
  <2>5. m * (2 * p) = 2 * (m * p) OBVIOUS
  <2> QED BY <2>1, <2>2, <2>3, <2>4, <2>5, <1>8
<1>11. ASSUME s > Least0
       PROVE  /\ Times(d, -1) \in AllDoubles /\ Finite(Times(d, -1)) /\ Negative(Times(d, -1).hi) = n
              /\ 2 * Units(Times(d, -1)) = Units(d)
  <2>1. PICK i \in Int : i = -1 /\ s + i >= Least0 /\ s + i + FracBits <= Bias
    BY <1>1, <1>3, <1>11
  <2>2. PICK v \in Nat : v = (s + i) - Least0 /\ u = v + 1
    BY <2>1, <1>1, <1>3, <1>7
  <2>3. /\ Times(d, i) \in AllDoubles /\ Finite(Times(d, i)) /\ Negative(Times(d, i).hi) = n
        /\ Units(Times(d, i)) = m * Pow(v)
    BY <2>1, <2>2, <1>6
  <2>4. Pow(v + 1) = 2 * Pow(v) BY PowType
  <2>5. PICK p \in Nat : p = Pow(v) BY PowType
  <2>6. m * (2 * p) = 2 * (m * p) OBVIOUS
  <2> QED BY <2>1, <2>2, <2>3, <2>4, <2>5, <2>6, <1>8
<1> QED BY <1>3, <1>4, <1>9, <1>10, <1>11

\* Of numbers two binary places apart one is more than twice the other.
LEMMA ScaleApart ==
  ASSUME NEW d \in AllDoubles, NEW e \in AllDoubles, Finite(d), Finite(e), Scale(d) + 2 <= Scale(e)
  PROVE  2 * Units(d) < Units(e)
<1>1. Fr \in Nat /\ Fr > 0 /\ Least0 \in Int
  BY Format, Products DEF Least0
<1>2. Mantissa(d) \in Nat /\ Mantissa(d) < 2 * Fr /\ Scale(d) \in Int /\ Least0 <= Scale(d)
  BY RoundTrip
<1>3. Mantissa(e) \in Nat /\ Scale(e) \in Int /\ Least0 <= Scale(e) /\ (Scale(e) > Least0 => Mantissa(e) >= Fr)
  BY RoundTrip
<1>4. PICK m \in Nat, i \in Nat : m = Mantissa(d) /\ i = Scale(d) - Least0 /\ m < 2 * Fr
  BY <1>1, <1>2
<1>5. PICK v \in Nat, j \in Nat : v = Mantissa(e) /\ j = Scale(e) - Least0 /\ v >= Fr /\ i + 2 <= j
  BY <1>1, <1>2, <1>3, <1>4
<1>6. PICK p \in Nat, q \in Nat : p = Pow(i) /\ q = Pow(j) /\ p > 0
  BY PowType
<1>7. 4 * p <= q
  <2>1. Pow(i + 2) <= Pow(j)
    BY <1>5, PowBelow, i + 2 \in Nat
  <2>2. Pow(i + 2) = 4 * p
    <3>1. Pow((i + 1) + 1) = 2 * Pow(i + 1) /\ Pow(i + 1) = 2 * Pow(i)
      BY PowType, i + 1 \in Nat
    <3>2. (i + 1) + 1 = i + 2 OBVIOUS
    <3> QED BY <3>1, <3>2, <1>6
  <2> QED BY <2>1, <2>2, <1>6
<1>8. m * p < (2 * Fr) * p
  BY <1>1, <1>4, <1>6, Regroup
<1>9. (2 * Fr) * p = 2 * (Fr * p) /\ Fr * p \in Nat /\ (4 * p) * Fr = 4 * (Fr * p)
  BY <1>1
<1>10. (4 * p) * Fr <= q * Fr /\ q * Fr = Fr * q /\ Fr * q <= v * q
  BY <1>1, <1>5, <1>7, Products
<1>11. Units(d) = m * p /\ Units(e) = v * q
  BY <1>4, <1>5, <1>6 DEF Units
<1>12. PICK a \in Nat, b \in Nat, c \in Nat, g \in Nat : a = m * p /\ b = Fr * p /\ c = q * Fr /\ g = v * q
  BY <1>1
<1>13. a < 2 * b /\ 4 * b <= c /\ c <= g
  BY <1>8, <1>9, <1>10, <1>12
<1> QED BY <1>11, <1>12, <1>13

\* The difference of numbers of which neither is more than twice the other, d the
\* smaller one, has no more bits than they have.
LEMMA CloseUnits ==
  ASSUME NEW d \in AllDoubles, NEW e \in AllDoubles, Finite(d), Finite(e),
         Units(d) <= Units(e), Units(e) <= 2 * Units(d)
  PROVE  /\ Scale(d) <= Scale(e)
         /\ \E m \in Nat, w \in Nat :
              /\ m = Mantissa(d) /\ w = Mantissa(e) * Pow(Scale(e) - Scale(d))
              /\ m <= w /\ w - m < 2 * Fr
              /\ Units(d) = m * Pow(Scale(d) - Least0) /\ Units(e) = w * Pow(Scale(d) - Least0)
<1>1. Fr \in Nat /\ Fr > 0 /\ Least0 \in Int
  BY Format, Products DEF Least0
<1>2. Scale(d) <= Scale(e) BY UnitsOrder
<1>3. Mantissa(d) \in Nat /\ Mantissa(d) < 2 * Fr /\ Scale(d) \in Int /\ Least0 <= Scale(d)
  BY RoundTrip
<1>4. Mantissa(e) \in Nat /\ Scale(e) \in Int
  BY RoundTrip
<1>5. PICK m \in Nat, i \in Nat : m = Mantissa(d) /\ i = Scale(d) - Least0 /\ m < 2 * Fr
  BY <1>1, <1>3
<1>6. PICK v \in Nat, j \in Nat : v = Mantissa(e) /\ j = Scale(e) - Scale(d) /\ Scale(e) - Least0 = j + i
  BY <1>1, <1>2, <1>3, <1>4, <1>5
<1>7. PICK p \in Nat, q \in Nat : p = Pow(i) /\ q = Pow(j) /\ p > 0 /\ Pow(j + i) = q * p
  <2>1. Pow(i) \in Nat /\ Pow(j) \in Nat /\ Pow(i) > 0
    BY PowType
  <2>2. Pow(j + i) = Pow(j) * Pow(i) BY PowSum
  <2> QED BY <2>1, <2>2
<1>8. PICK w \in Nat : w = v * q OBVIOUS
<1>9. Units(d) = m * p /\ Units(e) = w * p
  <2>1. Units(d) = m * p BY <1>5, <1>7 DEF Units
  <2>2. Units(e) = v * (q * p)
    BY <1>6, <1>7 DEF Units
  <2>3. (v * q) * p = v * (q * p) BY Regroup
  <2> QED BY <2>1, <2>2, <2>3, <1>8
<1>10. m <= w
  <2>1. w < m => w * p < m * p BY <1>7, Regroup
  <2>2. w * p \in Nat /\ m * p \in Nat OBVIOUS
  <2> QED BY <2>1, <2>2, <1>9
<1>11. w <= 2 * m
  <2>1. 2 * m < w => (2 * m) * p < w * p
    BY <1>7, Regroup, 2 * m \in Nat
  <2>2. (2 * m) * p = 2 * (m * p) /\ m * p \in Nat /\ w * p \in Nat
    OBVIOUS
  <2> QED BY <2>1, <2>2, <1>9
<1>12. w - m < 2 * Fr BY <1>1, <1>5, <1>10, <1>11
<1> QED BY <1>2, <1>5, <1>6, <1>7, <1>8, <1>9, <1>10, <1>12

\* Difference of such numbers is exact.
LEMMA DifferenceIs ==
  ASSUME NEW a \in AllDoubles, NEW b \in AllDoubles, Finite(a), Finite(b),
         Units(b) <= 2 * Units(a), Units(a) <= 2 * Units(b), NEW z, z = Difference(a, b)
  PROVE  /\ z \in AllDoubles /\ Finite(z)
         /\ Units(b) <= Units(a) => Units(z) = Units(a) - Units(b) /\ ~Negative(z.hi)
         /\ Units(a) < Units(b) => Units(z) = Units(b) - Units(a) /\ Negative(z.hi)
<1>1. Fr \in Nat /\ Fr > 0 /\ Least0 \in Int /\ FracBits \in Nat /\ Bias \in Nat
  BY Format, Products DEF Least0
<1>2. PICK i \in Int, j \in Int : i = Scale(a) /\ j = Scale(b) /\ Least0 <= i /\ Least0 <= j
                                  /\ i + FracBits <= Bias /\ j + FracBits <= Bias
  BY RoundTrip
<1>3. PICK X \in Nat, Y \in Nat : X = Units(a) /\ Y = Units(b)
  BY TwiceUnits
<1>4. \A s, m : s = (IF i < j THEN i ELSE j) /\ m = Mantissa(a) * Pow(i - s) - Mantissa(b) * Pow(j - s) =>
        z = Composed(m < 0, IF m < 0 THEN -m ELSE m, s)
  BY <1>2, Zenon DEF Difference, Pow
<1>5. \A m \in Nat : m < 2 * Fr => \E t \in 0 .. FracBits : m > 0 => Pow(t) <= m /\ m < Pow(t + 1)
  <2> SUFFICES ASSUME NEW m \in Nat, m < 2 * Fr PROVE \E t \in 0 .. FracBits : m > 0 => Pow(t) <= m /\ m < Pow(t + 1)
    OBVIOUS
  <2>1. CASE m > 0 BY <2>1, TopOf
  <2>2. CASE m = 0 BY <2>2, <1>1
  <2> QED BY <2>1, <2>2
<1>6. Pow(0) = 1 BY PowType, 0 \in Nat
<1>7. CASE Y <= X
  <2>1. PICK m \in Nat, w \in Nat :
           /\ j <= i /\ m = Mantissa(b) /\ w = Mantissa(a) * Pow(i - j)
           /\ m <= w /\ w - m < 2 * Fr
           /\ Y = m * Pow(j - Least0) /\ X = w * Pow(j - Least0)
    BY <1>2, <1>3, <1>7, CloseUnits
  <2>2. PICK r \in Nat : r = w - m BY <2>1
  <2>3. r = Mantissa(a) * Pow(i - j) - Mantissa(b) * Pow(j - j)
    <3>1. m * 1 = m /\ j - j = 0 OBVIOUS
    <3> QED BY <3>1, <2>1, <2>2, <1>6
  <2>4. j = IF i < j THEN i ELSE j BY <2>1
  <2>5. z = Composed(r < 0, IF r < 0 THEN -r ELSE r, j)
    BY ONLY <2>3, <2>4, <1>4, Zenon
  <2>6. PICK c \in BOOLEAN : c = (r < 0) /\ ~c
    <3>1. (r < 0) = FALSE /\ FALSE \in BOOLEAN
      OBVIOUS
    <3> QED BY <3>1, Zenon
  <2>7. z = Composed(c, r, j) BY <2>5, <2>6
  <2>8. PICK t \in 0 .. FracBits : r > 0 => Pow(t) <= r /\ r < Pow(t + 1)
    BY <2>1, <2>2, <1>5
  <2>9. r < 2 * Fr /\ j + t <= Bias
    BY <2>1, <2>2, <1>1, <1>2
  <2>10. z \in AllDoubles /\ Finite(z) /\ Negative(z.hi) = c /\ Units(z) = r * Pow(j - Least0)
    BY <2>7, <2>8, <2>9, <1>2, ComposedUnits
  <2>11. r * Pow(j - Least0) = X - Y
    <3>1. j - Least0 \in Nat BY <1>1, <1>2
    <3>2. PICK p \in Nat : p = Pow(j - Least0)
      BY <3>1, PowType
    <3>3. (m + r) * p = m * p + r * p /\ m * p \in Nat /\ r * p \in Nat /\ w = m + r
      BY <2>1, <2>2
    <3> QED BY <3>2, <3>3, <2>1
  <2> QED BY <2>6, <2>10, <2>11, <1>3, <1>7
<1>8. CASE X < Y
  <2>1. PICK m \in Nat, w \in Nat :
           /\ i <= j /\ m = Mantissa(a) /\ w = Mantissa(b) * Pow(j - i)
           /\ m <= w /\ w - m < 2 * Fr
           /\ X = m * Pow(i - Least0) /\ Y = w * Pow(i - Least0)
    BY <1>2, <1>3, <1>8, CloseUnits
  <2>2. PICK r \in Nat : r = w - m BY <2>1
  <2>3. PICK p \in Nat : p = Pow(i - Least0)
    <3>1. i - Least0 \in Nat BY <1>1, <1>2
    <3> QED BY <3>1, PowType
  <2>4. r * p = Y - X
    <3>1. (m + r) * p = m * p + r * p /\ m * p \in Nat /\ r * p \in Nat /\ w = m + r
      BY <2>1, <2>2
    <3> QED BY <3>1, <2>1, <2>3
  <2>5. r > 0
    <3>1. 0 * p = 0 OBVIOUS
    <3> QED BY <3>1, <2>4, <1>8
  <2>6. PICK o \in Int : o = -r /\ o < 0 /\ -o = r
    BY <2>5
  <2>7. o = Mantissa(a) * Pow(i - i) - Mantissa(b) * Pow(j - i)
    <3>1. m * 1 = m /\ i - i = 0 OBVIOUS
    <3> QED BY <3>1, <2>1, <2>2, <2>6, <1>6
  <2>8. i = IF i < j THEN i ELSE j BY <2>1
  <2>9. z = Composed(o < 0, IF o < 0 THEN -o ELSE o, i)
    BY ONLY <2>7, <2>8, <1>4, Zenon
  <2>10. PICK c \in BOOLEAN : c = (o < 0) /\ c
    BY <2>6
  <2>11. z = Composed(c, r, i) BY <2>6, <2>9, <2>10
  <2>12. PICK t \in 0 .. FracBits : r > 0 => Pow(t) <= r /\ r < Pow(t + 1)
    BY <2>1, <2>2, <1>5
  <2>13. r < 2 * Fr /\ i + t <= Bias
    BY <2>1, <2>2, <1>1, <1>2
  <2>14. z \in AllDoubles /\ Finite(z) /\ Negative(z.hi) = c /\ Units(z) = r * Pow(i - Least0)
    BY <2>11, <2>12, <2>13, <1>2, ComposedUnits
  <2> QED BY <2>3, <2>4, <2>10, <2>14, <1>3, <1>8
<1> QED BY <1>3, <1>7, <1>8

\* The absolute value differs in nothing but the sign.
LEMMA FabsIs ==
  ASSUME NEW d \in AllDoubles, NEW z, z = fabs(d)
  PROVE  /\ z \in AllDoubles /\ ~Negative(z.hi) /\ Magnitude(z) = Magnitude(d)
         /\ Mantissa(z) = Mantissa(d) /\ Scale(z) = Scale(d) /\ Units(z) = Units(d)
         /\ (Finite(z) <=> Finite(d)) /\ (IsNaN(z) <=> IsNaN(d))
<1>1. Magnitude(d) \in 0 .. All - 1 /\ d.hi % SignBit = Magnitude(d) \div Word /\ d.lo = Magnitude(d) % Word
      /\ d.hi \in 0 .. Word - 1 /\ d.lo \in 0 .. Word - 1
  BY DoubleOf
<1>2. SignBit \in Nat /\ SignBit > 0 /\ Word \in Nat /\ Word > 0
  BY Format
<1>3. PICK h \in 0 .. SignBit - 1, l \in 0 .. Word - 1 : h = d.hi % SignBit /\ l = d.lo
  BY <1>1, SignIs
<1>4. PICK n \in BOOLEAN : ~n OBVIOUS
<1>5. z = Double(n, h * Word + l) /\ h * Word + l \in 0 .. All - 1
  <2>1. Words((IF n THEN SignBit ELSE 0) + h, l) = Double(n, h * Word + l) /\ h * Word + l \in 0 .. All - 1
    BY WordsAre
  <2>2. (IF n THEN SignBit ELSE 0) + h = h
    BY <1>2, <1>4
  <2>3. z = Words(h, l) BY <1>3 DEF fabs, HI, LO
  <2> QED BY <2>1, <2>2, <2>3
<1>6. Magnitude(d) = h * Word + l
  BY <1>3 DEF Magnitude
<1>7. z \in AllDoubles /\ Magnitude(z) = Magnitude(d) /\ (Negative(z.hi) <=> n)
  BY <1>5, <1>6, DoubleIs
<1>8. Mantissa(z) = Mantissa(d) /\ Scale(z) = Scale(d)
  BY <1>7, Zenon DEF Mantissa, Scale
<1>9. (Finite(z) <=> Finite(d)) /\ (IsNaN(z) <=> IsNaN(d))
  BY <1>7 DEF Finite, IsNaN
<1> QED BY <1>4, <1>7, <1>8, <1>9 DEF Units

\* The sign of e changes that of d.
LEMMA FlipIs ==
  ASSUME NEW d \in AllDoubles, NEW e \in AllDoubles,
         NEW z, z = Words((HI(d) + Sign(HI(e))) % Word, LO(d))
  PROVE  /\ z \in AllDoubles /\ Magnitude(z) = Magnitude(d)
         /\ Negative(e.hi) => (Negative(z.hi) <=> ~Negative(d.hi))
         /\ ~Negative(e.hi) => (Negative(z.hi) <=> Negative(d.hi))
         /\ Mantissa(z) = Mantissa(d) /\ Scale(z) = Scale(d) /\ Units(z) = Units(d)
         /\ (Finite(z) <=> Finite(d))
<1>1. PICK n \in BOOLEAN, m \in 0 .. All - 1 : d = Double(n, m) /\ n = Negative(d.hi) /\ m = Magnitude(d)
  BY DoubleOf
<1>2. PICK p \in BOOLEAN, o \in 0 .. All - 1 : e = Double(p, o) /\ p = Negative(e.hi)
  BY DoubleOf
<1>3. SignBit \in Nat /\ SignBit > 0 /\ Word \in Nat /\ Word > 0 /\ Word = 2 * SignBit
  BY Format
<1>4. PICK h \in 0 .. SignBit - 1, l \in 0 .. Word - 1 :
        m = h * Word + l /\ HI(d) = (IF n THEN SignBit ELSE 0) + h /\ LO(d) = l
  BY <1>1, WordsOf
<1>5. Sign(HI(e)) = IF p THEN SignBit ELSE 0
  BY <1>2, WordsOf
<1>6. PICK b \in BOOLEAN : b <=> (p /\ ~n) \/ (~p /\ n)
  OBVIOUS
<1>7. (HI(d) + Sign(HI(e))) % Word = (IF b THEN SignBit ELSE 0) + h
  <2>1. PICK i : i = HI(d) + Sign(HI(e)) OBVIOUS
  <2>2. PICK r \in Nat : r = (IF b THEN SignBit ELSE 0) + h /\ r < Word
    BY <1>3
  <2>a. PICK c \in {0, 1} : i \in Nat /\ i = Word * c + r
    <3>1. CASE p /\ n
      <4>1. i = Word * 1 + r /\ i \in Nat
        BY <3>1, <2>1, <2>2, <1>3, <1>4, <1>5, <1>6
      <4> QED BY <4>1
    <3>2. CASE ~(p /\ n)
      <4>1. i = Word * 0 + r /\ i \in Nat
        BY <3>2, <2>1, <2>2, <1>3, <1>4, <1>5, <1>6
      <4> QED BY <4>1
    <3> QED BY <3>1, <3>2
  <2>3. i = Word * c + r /\ i \in Int /\ c \in Int /\ r \in Int /\ 0 <= r
    BY <2>a
  <2>4. i % Word = r
    BY ONLY <2>2, <2>3, <1>3, DivModUnique
  <2> QED BY <2>1, <2>2, <2>4
<1>8. z = Double(b, m) BY <1>4, <1>7, WordsAre
<1>9. z \in AllDoubles /\ Magnitude(z) = m /\ (Negative(z.hi) <=> b)
  BY <1>8, DoubleIs
<1>10. Magnitude(z) = Magnitude(d) BY <1>1, <1>9
<1>11. Mantissa(z) = Mantissa(d) /\ Scale(z) = Scale(d)
  BY <1>10, Zenon DEF Mantissa, Scale
<1>12. Finite(z) <=> Finite(d) BY <1>10 DEF Finite
<1>13. /\ Negative(e.hi) => (Negative(z.hi) <=> ~Negative(d.hi))
       /\ ~Negative(e.hi) => (Negative(z.hi) <=> Negative(d.hi))
  BY ONLY <1>1, <1>2, <1>6, <1>9, Zenon
<1> QED BY <1>9, <1>10, <1>11, <1>12, <1>13 DEF Units

\* The comparison of NearestMultiple: twice d with p, or d with half of p.
Halved(d, p) ==
  IF HI(p) < 2 * 2 ^ HighBits THEN Order(Times(d, 1)) - Order(p) ELSE Order(d) - Order(Times(p, -1))

\* The code doubles the smaller operand or halves the larger one; either compares with a half.
LEMMA HalfIs ==
  ASSUME NEW d \in AllDoubles, NEW p \in AllDoubles, Finite(d), Finite(p), ~Negative(p.hi),
         Units(d) < 2 * Units(p)
  PROVE  /\ Halved(d, p) \in Int
         /\ ~Negative(d.hi) => /\ Halved(d, p) <= 0 <=> 2 * Units(d) <= Units(p)
                               /\ Halved(d, p) >= 0 <=> Units(p) <= 2 * Units(d)
         /\ Negative(d.hi) => Halved(d, p) < 0
<1>1. FracBits \in Nat /\ Bias \in Nat /\ Bias > FracBits /\ FracBits >= 2 /\ Hi \in Nat /\ Hi > 0 /\ Least0 = 1 - Bias - FracBits
  BY Format DEF Least0
<1>2. PICK n \in BOOLEAN, k \in Fields, f \in Fractions : p = Of(n, k, f)
  BY PartsOf
<1>3. Scale(p) = (IF k = 0 THEN 1 ELSE k) - Bias - FracBits /\ k \in Nat
  BY <1>1, <1>2, ValuesOf DEF Fields
<1>4. HI(p) < 2 * 2 ^ HighBits <=> k < 2
  <2>1. p.hi \in 0 .. Word - 1 /\ p.hi % SignBit = k * Hi + (f \div Word)
    BY <1>2, ValuesOf
  <2>2. HI(p) = p.hi /\ p.hi % SignBit = p.hi
    BY <2>1, SignIs DEF HI
  <2>3. PICK g \in 0 .. Hi - 1 : g = f \div Word
    BY FieldsAre
  <2>4. k * Hi + g < 2 * Hi <=> k < 2
    <3>1. k >= 2 => 2 * Hi <= k * Hi
      BY <1>1, <1>3, Products, 2 \in Nat
    <3>2. k < 2 => k * Hi + g < 2 * Hi
      BY <1>1, <1>3, Products, 2 \in Nat
    <3>3. k * Hi \in Nat BY <1>1, <1>3
    <3> QED BY <3>1, <3>2, <3>3, <1>1, <1>3
  <2>5. 2 ^ HighBits = Hi BY PowersAre
  <2> QED BY <2>1, <2>2, <2>3, <2>4, <2>5
<1>5. PICK X \in Nat, Y \in Nat : X = Units(d) /\ Y = Units(p) /\ X < 2 * Y /\ Y > 0
  <2>1. Units(d) \in Nat /\ Units(p) \in Nat
    BY TwiceUnits
  <2> QED BY <2>1
<1>6. CASE k < 2
  <2>1. Scale(p) = Least0 BY <1>1, <1>3, <1>6
  <2>2. Scale(d) + 1 + FracBits <= Bias
    <3>1. ~(Scale(p) + 2 <= Scale(d))
      <4>1. Scale(p) + 2 <= Scale(d) => 2 * Units(p) < Units(d)
        BY ScaleApart
      <4> QED BY <4>1, <1>5
    <3>2. Scale(d) \in Int BY RoundTrip
    <3> QED BY <2>1, <3>1, <3>2, <1>1
  <2>3. PICK t : t = Times(d, 1) OBVIOUS
  <2>4. t \in AllDoubles /\ Finite(t) /\ Negative(t.hi) = Negative(d.hi) /\ Units(t) = 2 * X
    BY <2>2, <2>3, <1>5, TwiceUnits
  <2>5. PICK a \in Nat, b \in Nat :
          /\ a = Magnitude(t) /\ b = Magnitude(p)
          /\ a < b <=> 2 * X < Y
          /\ a = b <=> 2 * X = Y
          /\ b > 0
    <3>1. /\ Magnitude(t) \in Nat /\ Magnitude(p) \in Nat
          /\ Magnitude(t) < Magnitude(p) <=> Units(t) < Units(p)
          /\ Magnitude(t) = Magnitude(p) <=> Units(t) = Units(p)
      BY <2>4, UnitsOrder
    <3>2. Units(p) = 0 <=> Magnitude(p) = 0
      BY UnitsOrder
    <3> QED BY <3>1, <3>2, <2>4, <1>5
  <2>6. Halved(d, p) = Order(t) - Order(p)
    BY <2>3, <1>4, <1>6 DEF Halved
  <2>7. Order(p) = b /\ (~Negative(d.hi) => Order(t) = a) /\ (Negative(d.hi) => Order(t) = -a)
    BY <2>4, <2>5 DEF Order
  <2>8. Negative(d.hi) \/ ~Negative(d.hi) OBVIOUS
  <2> QED BY <2>5, <2>6, <2>7, <2>8, <1>5
<1>7. CASE k >= 2
  <2>1. Scale(p) > Least0 BY <1>1, <1>3, <1>7
  <2>2. PICK t : t = Times(p, -1) OBVIOUS
  <2>3. t \in AllDoubles /\ Finite(t) /\ Negative(t.hi) = Negative(p.hi) /\ 2 * Units(t) = Y
    BY <2>1, <2>2, <1>5, TwiceUnits
  <2>4. PICK a \in Nat, b \in Nat, u \in Nat :
          /\ a = Magnitude(d) /\ b = Magnitude(t) /\ 2 * u = Y
          /\ a < b <=> X < u
          /\ a = b <=> X = u
          /\ b > 0
    <3>1. /\ Magnitude(d) \in Nat /\ Magnitude(t) \in Nat /\ Units(t) \in Nat
          /\ Magnitude(d) < Magnitude(t) <=> Units(d) < Units(t)
          /\ Magnitude(d) = Magnitude(t) <=> Units(d) = Units(t)
      BY <2>3, UnitsOrder
    <3>2. Units(t) = 0 <=> Magnitude(t) = 0
      BY <2>3, UnitsOrder
    <3> QED BY <3>1, <3>2, <2>3, <1>5
  <2>5. Halved(d, p) = Order(d) - Order(t)
    <3>1. ~(HI(p) < 2 * 2 ^ HighBits)
      BY <1>3, <1>4, <1>7
    <3> QED BY <2>2, <3>1 DEF Halved
  <2>6. Order(t) = b /\ (~Negative(d.hi) => Order(d) = a) /\ (Negative(d.hi) => Order(d) = -a)
    BY <2>3, <2>4 DEF Order
  <2>7. Negative(d.hi) \/ ~Negative(d.hi) OBVIOUS
  <2> QED BY <2>4, <2>5, <2>6, <2>7, <1>5
<1> QED BY <1>3, <1>6, <1>7

\* A number of units with its sign.
Balance(d) == IF Negative(d.hi) THEN -Units(d) ELSE Units(d)

\* The three cases of ToNearest.
LEMMA ToNearestIs ==
  ASSUME NEW m \in Nat, NEW k \in Nat, k > 0
  PROVE  /\ 2 * m <= k => ToNearest(m, k) = m
         /\ k < 2 * m /\ 2 * m < 3 * k => ToNearest(m, k) = m - k
         /\ 3 * k <= 2 * m => ToNearest(m, k) = m - 2 * k
<1>1. CASE 2 * m <= k
  <2>1. 2 * m <= k /\ ~(k < 2 * m /\ 2 * m < 3 * k) /\ ~(3 * k <= 2 * m)
    BY <1>1
  <2>2. ToNearest(m, k) = m
    BY ONLY <2>1, Zenon DEF ToNearest
  <2> QED BY <2>1, <2>2
<1>2. CASE k < 2 * m /\ 2 * m < 3 * k
  <2>1. ~(2 * m <= k) /\ (k < 2 * m /\ 2 * m < 3 * k) /\ ~(3 * k <= 2 * m)
    BY <1>2
  <2>2. ToNearest(m, k) = m - k
    BY ONLY <2>1, Zenon DEF ToNearest
  <2> QED BY <2>1, <2>2
<1>3. CASE 3 * k <= 2 * m
  <2>1. ~(2 * m <= k) /\ ~(k < 2 * m /\ 2 * m < 3 * k) /\ 3 * k <= 2 * m
    BY <1>3
  <2>2. ToNearest(m, k) = m - 2 * k
    BY ONLY <2>1, Zenon DEF ToNearest
  <2> QED BY <2>1, <2>2
<1> QED BY <1>1, <1>2, <1>3

\* What NearestMultiple leaves.
LEMMA NearestMultipleIs ==
  ASSUME NEW r \in AllDoubles, NEW p \in AllDoubles, Finite(r), Finite(p),
         ~Negative(r.hi), ~Negative(p.hi), Units(r) < 2 * Units(p), NEW z, z = NearestMultiple(r, p)
  PROVE  /\ z \in AllDoubles /\ Finite(z) /\ Balance(z) = ToNearest(Units(r), Units(p))
         /\ Balance(z) = 0 => ~Negative(z.hi)
<1>1. PICK R \in Nat, Y \in Nat : R = Units(r) /\ Y = Units(p) /\ R < 2 * Y /\ Y > 0
  <2>1. Units(r) \in Nat /\ Units(p) \in Nat
    BY TwiceUnits
  <2> QED BY <2>1
<1>2. PICK once : once = Difference(r, p) OBVIOUS
<1>3. PICK g, h : g \in Int /\ g = Halved(r, p) /\ h = Halved(once, p)
  BY HalfIs
<1>4. z = CASE g <= 0 -> r
            [] g > 0 -> IF h >= 0 THEN Difference(once, p) ELSE once
  BY <1>2, <1>3, Zenon DEF NearestMultiple, Halved
<1>5. g <= 0 <=> 2 * R <= Y BY <1>1, <1>3, HalfIs
<1>6. CASE 2 * R <= Y
  <2>1. g <= 0 /\ ~(g > 0) BY <1>3, <1>5, <1>6
  <2>2. z = r BY ONLY <2>1, <1>4, Zenon
  <2>3. ToNearest(R, Y) = R
    BY <1>1, <1>6, ToNearestIs
  <2> QED BY <2>2, <2>3, <1>1 DEF Balance
<1>7. CASE ~(2 * R <= Y)
  <2>1. ~(g <= 0) /\ g > 0 BY <1>3, <1>5, <1>7
  <2>2. z = IF h >= 0 THEN Difference(once, p) ELSE once
    BY ONLY <2>1, <1>4, Zenon
  <2>3. /\ once \in AllDoubles /\ Finite(once)
        /\ Y <= R => Units(once) = R - Y /\ ~Negative(once.hi)
        /\ R < Y => Units(once) = Y - R /\ Negative(once.hi)
    <3>1. Units(p) <= 2 * Units(r) /\ Units(r) <= 2 * Units(p)
      BY <1>1, <1>7
    <3>2. /\ once \in AllDoubles /\ Finite(once)
          /\ Units(p) <= Units(r) => Units(once) = Units(r) - Units(p) /\ ~Negative(once.hi)
          /\ Units(r) < Units(p) => Units(once) = Units(p) - Units(r) /\ Negative(once.hi)
      BY <3>1, <1>2, DifferenceIs
    <3> QED BY <3>2, <1>1
  <2>4. /\ h \in Int
        /\ ~Negative(once.hi) => (h >= 0 <=> Y <= 2 * Units(once))
        /\ Negative(once.hi) => h < 0
    <3>1. Units(once) < 2 * Units(p) BY <2>3, <1>1
    <3>2. /\ Halved(once, p) \in Int
          /\ ~Negative(once.hi) => (Halved(once, p) >= 0 <=> Units(p) <= 2 * Units(once))
          /\ Negative(once.hi) => Halved(once, p) < 0
      BY <3>1, <2>3, HalfIs
    <3> QED BY <3>2, <1>1, <1>3
  <2>5. CASE R < Y
    <3>1. z = once /\ Units(once) = Y - R /\ Negative(once.hi)
      BY <2>2, <2>3, <2>4, <2>5
    <3>2. Balance(z) = R - Y
      BY <3>1, <1>1 DEF Balance
    <3>3. ToNearest(R, Y) = R - Y
      BY <2>5, <1>1, <1>7, ToNearestIs
    <3> QED BY <3>1, <3>2, <3>3, <2>3, <2>5, <1>1
  <2>6. CASE Y <= R /\ 2 * R < 3 * Y
    <3>1. z = once /\ Units(once) = R - Y /\ ~Negative(once.hi)
      BY <2>2, <2>3, <2>4, <2>6, <1>1
    <3>2. Balance(z) = R - Y
      BY <3>1, <1>1 DEF Balance
    <3>3. ToNearest(R, Y) = R - Y
      BY <2>6, <1>1, <1>7, ToNearestIs
    <3> QED BY <3>1, <3>2, <3>3, <2>3, <1>1
  <2>7. CASE 3 * Y <= 2 * R
    <3>1. Y <= R BY <2>7, <1>1
    <3>2. PICK Q \in Nat : Q = R - Y /\ Q = Units(once) /\ Y <= 2 * Q /\ Q < Y /\ Q <= 2 * Y
      BY <3>1, <2>3, <2>7, <1>1
    <3>3. z = Difference(once, p)
      BY <2>2, <2>3, <2>4, <3>1, <3>2
    <3>4. /\ z \in AllDoubles /\ Finite(z)
          /\ Units(once) < Units(p) => Units(z) = Units(p) - Units(once) /\ Negative(z.hi)
      <4>1. Units(p) <= 2 * Units(once) /\ Units(once) <= 2 * Units(p)
        BY <3>2, <1>1
      <4> QED BY <4>1, <3>3, <2>3, DifferenceIs
    <3>5. Units(z) = Y - Q /\ Negative(z.hi)
      BY <3>2, <3>4, <1>1
    <3>6. Balance(z) = R - 2 * Y /\ Balance(z) # 0
      BY <3>2, <3>5, <1>1 DEF Balance
    <3>7. ToNearest(R, Y) = R - 2 * Y
      BY <2>7, <1>1, ToNearestIs
    <3> QED BY <3>4, <3>6, <3>7, <1>1
  <2> QED BY <2>5, <2>6, <2>7, <1>1
<1> QED BY <1>6, <1>7

\* The magnitude and the sign are all of a double.
LEMMA SameDouble ==
  ASSUME NEW d \in AllDoubles, NEW e \in AllDoubles, Magnitude(d) = Magnitude(e), Negative(d.hi) = Negative(e.hi)
  PROVE  d = e
<1>1. d = Double(Negative(d.hi), Magnitude(d)) /\ e = Double(Negative(e.hi), Magnitude(e))
  BY DoubleOf
<1> QED BY <1>1, Zenon

\* Whether twice p is finite.
Near(p) == HI(p) % SignBit < (MaxExponent - 1) * 2 ^ HighBits

\* Twice p is finite if its field is not the last.
LEMMA NearIs ==
  ASSUME NEW n \in BOOLEAN, NEW k \in Fields, NEW f \in Fractions, NEW d, d = Of(n, k, f)
  PROVE  Near(d) <=> k < 2 * Bias
<1>1. Bias \in Nat /\ Hi \in Nat /\ Hi > 0 /\ k \in Nat
  BY Format DEF Fields
<1>2. d.hi % SignBit = k * Hi + (f \div Word)
  BY ValuesOf
<1>3. PICK g \in 0 .. Hi - 1 : g = f \div Word
  BY FieldsAre
<1>4. HI(d) = d.hi BY DEF HI
<1>5. MaxExponent - 1 = 2 * Bias BY FarIs, <1>1
<1>6. 2 ^ HighBits = Hi BY PowersAre
<1>7. PICK b \in Nat : b = 2 * Bias BY <1>1
<1>8. k * Hi + g < b * Hi <=> k < b
  <2>1. b <= k => b * Hi <= k * Hi BY <1>1, Products
  <2>2. k < b => k * Hi + g < b * Hi
    BY <1>1, Products
  <2>3. k * Hi \in Nat /\ b * Hi \in Nat BY <1>1
  <2> QED BY <2>1, <2>2, <2>3, <1>1
<1>9. Near(d) <=> k * Hi + g < b * Hi
  BY <1>2, <1>3, <1>4, <1>5, <1>6, <1>7, Zenon DEF Near
<1> QED BY <1>7, <1>8, <1>9

\* The branches of remainder.
LEMMA RemainderCases ==
  ASSUME LittleEndian, NEW d \in AllDoubles, NEW y \in AllDoubles,
         NEW r, r = IF Near(y) THEN fmod(d, Times(y, 1)) ELSE d,
         NEW c, c = NearestMultiple(fabs(r), fabs(y))
  PROVE  /\ IsNaN(y) \/ Magnitude(y) = 0 \/ ~Finite(d) => remainder(d, y) = NaN
         /\ ~(IsNaN(y) \/ Magnitude(y) = 0 \/ ~Finite(d)) =>
              remainder(d, y) = IF fabs(d) = fabs(y) THEN Words(Sign(HI(r)), 0)
                                ELSE Words((HI(c) + Sign(HI(d))) % Word, LO(c))
<1>0. (\A a : Scaled(a, 1) = Times(a, 1)) /\ (\A a, b : Arith(a, b) = a)
  BY ViewIsSame
<1>1. finite(d) = Finite(d) /\ isnan(y) = IsNaN(y)
  BY TestsAre
<1>2. IsZero(HI(y), LO(y)) <=> Magnitude(y) = 0
  <2>1. PICK p \in BOOLEAN, m \in 0 .. All - 1 : y = Double(p, m) /\ m = Magnitude(y)
    BY DoubleOf
  <2> QED BY <2>1, WordsOf
<1>3. CASE IsNaN(y) \/ Magnitude(y) = 0 \/ ~Finite(d)
  <2>1. IsZero(HI(y), LO(y)) \/ ~finite(d) \/ isnan(y)
    BY <1>1, <1>2, <1>3
  <2>2. remainder(d, y) = Arith(NaN, d)
    BY ONLY <2>1, Zenon DEF remainder
  <2> QED BY <2>2, <1>0, <1>3
<1>4. CASE ~(IsNaN(y) \/ Magnitude(y) = 0 \/ ~Finite(d))
  <2>1. ~(IsZero(HI(y), LO(y)) \/ ~finite(d) \/ isnan(y))
    BY <1>1, <1>2, <1>4
  <2>2. remainder(d, y) = IF fabs(d) = fabs(y) THEN Words(Sign(HI(r)), 0)
                          ELSE Words((HI(c) + Sign(HI(d))) % Word, LO(c))
    <3>1. r = IF Near(y) THEN fmod(d, Scaled(y, 1)) ELSE d
      BY <1>0
    <3>2. remainder(d, y) = IF fabs(d) = fabs(y) THEN Arith(Words(Sign(HI(r)), 0), r)
                            ELSE Words((HI(Arith(c, r)) + Sign(HI(d))) % Word, LO(Arith(c, r)))
      BY <2>1, <3>1, Zenon DEF remainder, Near
    <3> QED BY <3>2, <1>0, Zenon
  <2> QED BY <2>2, <1>4
<1> QED BY <1>3, <1>4

\* Where twice y is not finite, no number is as large.
LEMMA FarUnits ==
  ASSUME NEW d \in AllDoubles, Finite(d), NEW n \in BOOLEAN, NEW k \in Fields, NEW f \in Fractions,
         k = 2 * Bias, NEW y, y = Of(n, k, f)
  PROVE  Units(d) < 2 * Units(y)
<1>1. Fr \in Nat /\ Fr > 0 /\ Least0 = 1 - Bias - FracBits /\ Bias \in Nat /\ FracBits \in Nat /\ Bias > FracBits
  BY Format, Products DEF Least0
<1>2. Mantissa(d) \in Nat /\ Mantissa(d) < 2 * Fr /\ Scale(d) \in Int /\ Least0 <= Scale(d)
      /\ Scale(d) + FracBits <= Bias
  BY RoundTrip
<1>3. PICK m \in Nat, i \in Nat : m = Mantissa(d) /\ i = Scale(d) - Least0 /\ m < 2 * Fr
  BY <1>1, <1>2
<1>4. PICK v \in Nat, j \in Nat : v = f + Fr /\ j = k - 1 /\ i <= j
  BY <1>1, <1>2, <1>3 DEF Fractions
<1>5. PICK p \in Nat, q \in Nat : p = Pow(i) /\ q = Pow(j) /\ p > 0 /\ p <= q
  BY <1>4, PowType, PowBelow
<1>6. Units(d) = m * p /\ Units(y) = v * q
  <2>1. Units(d) = m * p BY <1>3, <1>5 DEF Units
  <2>2. k > 0 /\ k < 2 * Bias + 1 BY <1>1
  <2> QED BY <2>1, <2>2, <1>4, <1>5, UnitsOf
<1>7. m * p < (2 * Fr) * p
  BY <1>1, <1>3, <1>5, Regroup
<1>8. (2 * Fr) * p = 2 * (Fr * p) /\ Fr * p = p * Fr
  BY <1>1
<1>9. p * Fr <= q * Fr /\ q * Fr = Fr * q /\ Fr * q <= v * q
  <2>1. Fr <= v BY <1>1, <1>4 DEF Fractions
  <2> QED BY <2>1, <1>1, <1>5, Products
<1>10. PICK a \in Nat, b \in Nat, c \in Nat, g \in Nat : a = m * p /\ b = p * Fr /\ c = q * Fr /\ g = v * q
  BY <1>1
<1>11. a < 2 * b /\ b <= c /\ c <= g
  BY <1>7, <1>8, <1>9, <1>10
<1> QED BY <1>6, <1>10, <1>11

\* What remainder brings near to 0 is that of twice y.
LEMMA ReducedIs ==
  ASSUME LittleEndian, NEW d \in AllDoubles, NEW y \in AllDoubles, Finite(d), Finite(y), Magnitude(y) > 0,
         NEW r, r = IF Near(y) THEN fmod(d, Times(y, 1)) ELSE d
  PROVE  /\ r \in AllDoubles /\ Finite(r) /\ Negative(r.hi) = Negative(d.hi)
         /\ Units(d) \in Nat /\ Units(y) \in Nat /\ Units(y) > 0
         /\ Units(r) = Units(d) % (2 * Units(y))
<1>1. PICK n \in BOOLEAN, k \in Fields, f \in Fractions : y = Of(n, k, f)
  BY PartsOf
<1>2. Bias \in Nat /\ FracBits \in Nat /\ Bias > FracBits /\ k \in Nat
  BY Format DEF Fields
<1>3. k < 2 * Bias + 1 /\ Scale(y) = (IF k = 0 THEN 1 ELSE k) - Bias - FracBits
  BY <1>1, ValuesOf
<1>4. Near(y) <=> k < 2 * Bias BY <1>1, NearIs
<1>5. PICK X \in Nat, Y \in Nat : X = Units(d) /\ Y = Units(y) /\ Y > 0
  <2>1. Units(d) \in Nat /\ Units(y) \in Nat /\ (Units(y) = 0 <=> Magnitude(y) = 0)
    BY UnitsOrder
  <2> QED BY <2>1
<1>6. CASE k < 2 * Bias
  <2>1. PICK t : t = Times(y, 1) OBVIOUS
  <2>2. Scale(y) + 1 + FracBits <= Bias
    BY <1>2, <1>3, <1>6
  <2>3. t \in AllDoubles /\ Finite(t) /\ Units(t) = 2 * Y
    BY <2>1, <2>2, <1>5, TwiceUnits
  <2>4. Magnitude(t) > 0
    <3>1. Magnitude(t) \in Nat /\ (Units(t) = 0 <=> Magnitude(t) = 0)
      BY <2>3, UnitsOrder
    <3> QED BY <3>1, <2>3, <1>5
  <2>5. r = fmod(d, t) BY <2>1, <1>4, <1>6
  <2>6. r \in AllDoubles /\ Finite(r) /\ Negative(r.hi) = Negative(d.hi) /\ Units(r) = Units(d) % Units(t)
    BY <2>3, <2>4, <2>5, FmodIs
  <2> QED BY <2>3, <2>6, <1>5
<1>7. CASE k = 2 * Bias
  <2>1. r = d BY <1>2, <1>4, <1>7
  <2>2. X < 2 * Y BY <1>1, <1>5, <1>7, FarUnits
  <2>3. X % (2 * Y) = X
    <3>1. PICK m \in Nat : m = 2 * Y OBVIOUS
    <3>2. X = m * 0 + X /\ X \in Int /\ 0 \in Int /\ 0 <= X /\ X < m /\ m > 0
      BY <2>2, <3>1
    <3>3. X % m = X
      BY ONLY <3>2, m \in Nat, DivModUnique
    <3> QED BY <3>1, <3>3
  <2> QED BY <2>1, <2>3, <1>5
<1> QED BY <1>2, <1>3, <1>6, <1>7

\* remainder is what is nearest to 0, of numbers of units.
LEMMA RemainderIs ==
  ASSUME LittleEndian, NEW d \in AllDoubles, NEW y \in AllDoubles, Finite(d), Finite(y), Magnitude(y) > 0,
         NEW z, z = remainder(d, y), NEW v, v = ToNearest(Units(d) % (2 * Units(y)), Units(y))
  PROVE  /\ z \in AllDoubles /\ Finite(z) /\ v \in Int
         /\ Balance(z) = (IF Negative(d.hi) THEN -v ELSE v)
         /\ v = 0 => Negative(z.hi) = Negative(d.hi)
<1>1. PICK r : r = IF Near(y) THEN fmod(d, Times(y, 1)) ELSE d
  OBVIOUS
<1>2. /\ r \in AllDoubles /\ Finite(r) /\ Negative(r.hi) = Negative(d.hi)
      /\ Units(d) \in Nat /\ Units(y) \in Nat /\ Units(y) > 0
      /\ Units(r) = Units(d) % (2 * Units(y))
  BY <1>1, ReducedIs
<1>3. PICK X \in Nat, Y \in Nat, k \in Nat : X = Units(d) /\ Y = Units(y) /\ Y > 0 /\ k = 2 * Y
  BY <1>2
<1>4. X % k \in Nat /\ X % k < k BY <1>3, DivMod
<1>5. PICK R \in Nat : R = X % k /\ R = Units(r) /\ R < 2 * Y
  BY <1>2, <1>3, <1>4
<1>6. v = ToNearest(R, Y) BY <1>3, <1>5
<1>7. v \in Int
  <2>1. 2 * R <= Y \/ (Y < 2 * R /\ 2 * R < 3 * Y) \/ 3 * Y <= 2 * R
    OBVIOUS
  <2> QED BY <2>1, <1>3, <1>6, ToNearestIs
<1>8. PICK c : c = NearestMultiple(fabs(r), fabs(y))
  OBVIOUS
<1>9. z = IF fabs(d) = fabs(y) THEN Words(Sign(HI(r)), 0) ELSE Words((HI(c) + Sign(HI(d))) % Word, LO(c))
  <2>1. ~(IsNaN(y) \/ Magnitude(y) = 0 \/ ~Finite(d))
    <3>1. Infinity \in Nat /\ Magnitude(y) \in Nat
      BY AllIs, DoubleOf
    <3> QED BY <3>1 DEF IsNaN, Finite
  <2> QED BY <2>1, <1>1, <1>8, RemainderCases
<1>10. CASE fabs(d) = fabs(y)
  <2>1. X = Y
    <3>1. Units(fabs(d)) = Units(d) /\ Units(fabs(y)) = Units(y)
      BY FabsIs
    <3> QED BY <3>1, <1>3, <1>10
  <2>2. R = Y
    <3>1. Y = k * 0 + Y /\ Y \in Int /\ 0 \in Int /\ 0 <= Y /\ Y < k /\ k > 0
      BY <1>3
    <3>2. Y % k = Y
      BY ONLY <3>1, k \in Nat, DivModUnique
    <3> QED BY <3>2, <2>1, <1>5
  <2>3. v = 0
    <3>1. Y < 2 * R /\ 2 * R < 3 * Y BY <2>2, <1>3
    <3> QED BY <3>1, <2>2, <1>3, <1>6, ToNearestIs
  <2>4. z = Words(Sign(r.hi), 0)
    BY <1>9, <1>10 DEF HI
  <2>5. z \in AllDoubles /\ Finite(z) /\ Negative(z.hi) = Negative(r.hi) /\ Units(z) = 0
    BY <2>4, <1>2, ZeroIs
  <2>6. Balance(z) = 0 /\ -v = 0
    BY <2>3, <2>5, MinusZero, 0 \in Int DEF Balance
  <2> QED BY <2>3, <2>5, <2>6, <1>2
<1>11. CASE fabs(d) # fabs(y)
  <2>1. PICK a, b : a = fabs(r) /\ b = fabs(y)
    OBVIOUS
  <2>2. a \in AllDoubles /\ Finite(a) /\ ~Negative(a.hi) /\ Units(a) = R
    BY <2>1, <1>2, <1>5, FabsIs
  <2>3. b \in AllDoubles /\ Finite(b) /\ ~Negative(b.hi) /\ Units(b) = Y
    BY <2>1, <1>3, FabsIs
  <2>4. c \in AllDoubles /\ Finite(c) /\ Balance(c) = v /\ (v = 0 => ~Negative(c.hi))
    <3>1. Units(a) < 2 * Units(b)
      BY <2>2, <2>3, <1>5
    <3>2. /\ c \in AllDoubles /\ Finite(c) /\ Balance(c) = ToNearest(Units(a), Units(b))
          /\ Balance(c) = 0 => ~Negative(c.hi)
      BY <3>1, <2>1, <2>2, <2>3, <1>8, NearestMultipleIs
    <3> QED BY <3>2, <2>2, <2>3, <1>6
  <2>5. z = Words((HI(c) + Sign(HI(d))) % Word, LO(c))
    BY <1>9, <1>11
  <2>6. /\ z \in AllDoubles /\ Units(z) = Units(c) /\ Finite(z)
        /\ Negative(d.hi) => (Negative(z.hi) <=> ~Negative(c.hi))
        /\ ~Negative(d.hi) => (Negative(z.hi) <=> Negative(c.hi))
    BY <2>4, <2>5, FlipIs
  <2>7. PICK u \in Nat : u = Units(c) /\ u = Units(z)
    BY <2>4, <2>6, TwiceUnits
  <2>8. PICK n \in BOOLEAN, s \in BOOLEAN, e \in BOOLEAN :
          n = Negative(d.hi) /\ s = Negative(z.hi) /\ e = Negative(c.hi)
    <3>1. Negative(d.hi) \in BOOLEAN /\ Negative(z.hi) \in BOOLEAN /\ Negative(c.hi) \in BOOLEAN
      BY DEF Negative
    <3> QED BY <3>1, Zenon
  <2>9. v = (IF e THEN -u ELSE u) /\ Balance(z) = (IF s THEN -u ELSE u)
    BY <2>4, <2>7, <2>8 DEF Balance
  <2>10. (n => (s <=> ~e)) /\ (~n => (s <=> e)) /\ (v = 0 => ~e)
    BY ONLY <2>4, <2>6, <2>8, Zenon
  <2>11. Balance(z) = IF n THEN -v ELSE v
    BY ONLY <2>9, <2>10, u \in Nat, n \in BOOLEAN, s \in BOOLEAN, e \in BOOLEAN
  <2>12. v = 0 => s = n
    BY ONLY <2>10, n \in BOOLEAN, s \in BOOLEAN, e \in BOOLEAN
  <2>13. Balance(z) = (IF Negative(d.hi) THEN -v ELSE v) /\ (v = 0 => Negative(z.hi) = Negative(d.hi))
    BY ONLY <2>8, <2>11, <2>12, Zenon
  <2> QED BY <2>4, <2>6, <2>13, <1>7
<1> QED BY <1>10, <1>11

\* Infinity leaves all numbers as they are.
LEMMA RemainderInfinite ==
  ASSUME LittleEndian, NEW d \in AllDoubles, NEW y \in AllDoubles, Finite(d), ~IsNaN(y), ~Finite(y)
  PROVE  remainder(d, y) = d /\ fmod(d, y) = d
<1>1. PICK n \in BOOLEAN, k \in Fields, f \in Fractions : y = Of(n, k, f)
  BY PartsOf
<1>2. Bias \in Nat /\ k \in Nat /\ k <= 2 * Bias + 1 /\ Hi \in Nat /\ Hi > 0 /\ Bias >= 2 /\ Infinity \in Nat /\ Fr \in Nat
  BY Format, AllIs DEF Fields
<1>3. k = 2 * Bias + 1 BY <1>1, <1>2, ValuesOf
<1>4. Magnitude(d) \in Nat /\ Magnitude(y) \in Nat
  BY DoubleOf
<1>5. Magnitude(d) < Magnitude(y) /\ Magnitude(y) > 0
  BY <1>2, <1>4 DEF Finite
<1>6. ~(IsNaN(y) \/ Magnitude(y) = 0 \/ ~Finite(d))
  BY <1>4, <1>5
<1>7. fmod(d, y) = d BY <1>5, <1>6, FmodCases
<1>8. PICK r : r = IF Near(y) THEN fmod(d, Times(y, 1)) ELSE d
  OBVIOUS
<1>9. r = d
  <2>1. ~Near(y) BY <1>1, <1>2, <1>3, NearIs
  <2> QED BY <2>1, <1>8
<1>10. PICK a, b, c : a = fabs(d) /\ b = fabs(y) /\ c = NearestMultiple(a, b)
  OBVIOUS
<1>11. a \in AllDoubles /\ Magnitude(a) = Magnitude(d) /\ ~Negative(a.hi)
  BY <1>10, FabsIs
<1>12. b \in AllDoubles /\ Magnitude(b) = Magnitude(y) /\ ~Negative(b.hi) /\ ~Finite(b)
  BY <1>10, FabsIs
<1>13. ~(HI(b) < 2 * 2 ^ HighBits)
  <2>1. PICK e \in BOOLEAN, j \in Fields, g \in Fractions : b = Of(e, j, g)
    BY <1>12, PartsOf
  <2>2. j = 2 * Bias + 1
    BY <2>1, <1>2, <1>12, ValuesOf DEF Fields
  <2>3. b.hi \in 0 .. Word - 1 /\ b.hi % SignBit = j * Hi + (g \div Word)
    BY <2>1, ValuesOf
  <2>4. HI(b) = j * Hi + (g \div Word)
    BY <2>3, <1>12, SignIs DEF HI
  <2>5. PICK i \in 0 .. Hi - 1 : i = g \div Word
    BY FieldsAre
  <2>6. 2 * Hi <= j * Hi
    <3>1. 2 \in Nat /\ j \in Nat /\ 2 <= j
      BY <2>2, <1>2
    <3> QED BY <3>1, <1>2, Products
  <2>7. j * Hi \in Nat BY <2>2, <1>2
  <2>8. 2 ^ HighBits = Hi BY PowersAre
  <2> QED BY <2>4, <2>5, <2>6, <2>7, <2>8, <1>2
<1>14. PICK g, h : g \in Int /\ g = Halved(a, b) /\ g <= 0 /\ h = Halved(Difference(a, b), b)
  <2>1. Times(b, -1) = b
    BY <1>12, TimesIs, -1 \in Int
  <2>2. Halved(a, b) = Order(a) - Order(b)
    BY <2>1, <1>13, Zenon DEF Halved
  <2>3. Order(a) = Magnitude(d) /\ Order(b) = Magnitude(y)
    BY <1>11, <1>12 DEF Order
  <2>4. Halved(a, b) \in Int /\ Halved(a, b) <= 0
    BY <2>2, <2>3, <1>4, <1>5
  <2> QED BY <2>4
<1>15. c = a
  <2>1. c = CASE g <= 0 -> a
              [] g > 0 -> IF h >= 0 THEN Difference(Difference(a, b), b) ELSE Difference(a, b)
    BY <1>10, <1>14, Zenon DEF NearestMultiple, Halved
  <2>2. g <= 0 /\ ~(g > 0) BY <1>14
  <2> QED BY ONLY <2>1, <2>2, Zenon
<1>16. remainder(d, y) = Words((HI(a) + Sign(HI(d))) % Word, LO(a))
  <2>1. a # b BY <1>4, <1>5, <1>11, <1>12
  <2>2. remainder(d, y) = IF fabs(d) = fabs(y) THEN Words(Sign(HI(r)), 0)
                          ELSE Words((HI(c) + Sign(HI(d))) % Word, LO(c))
    BY <1>6, <1>8, <1>9, <1>10, RemainderCases
  <2> QED BY <2>1, <2>2, <1>10, <1>15
<1>17. PICK z : z = remainder(d, y) OBVIOUS
<1>18. /\ z \in AllDoubles /\ Magnitude(z) = Magnitude(d)
       /\ Negative(d.hi) => Negative(z.hi)
       /\ ~Negative(d.hi) => ~Negative(z.hi)
  BY <1>11, <1>16, <1>17, FlipIs
<1>19. Negative(z.hi) = Negative(d.hi)
  <2>1. Negative(z.hi) \in BOOLEAN /\ Negative(d.hi) \in BOOLEAN
    BY DEF Negative
  <2> QED BY <2>1, <1>18
<1> QED BY <1>7, <1>17, <1>18, <1>19, SameDouble

\* The function whose last value Modulo is.
ReducesWords(f, m, n, k) ==
  f = [i \in 0 .. n |-> IF i <= WordBits THEN ((m % k) * 2 ^ i) % k ELSE (f[i - WordBits] * Word) % k]

\* Modulo is the remainder of m * 2^n.
LEMMA ModuloIs ==
  ASSUME NEW m \in Nat, NEW k \in Nat, k > 0, NEW n \in Nat
  PROVE  Modulo(m, n, k) = (m * Pow(n)) % k
<1> DEFINE v(i) == (m * Pow(i)) % k
           g == [i \in 0 .. n |-> v(i)]
<1>1. WordBits \in Nat /\ WordBits > 0 /\ Word \in Nat /\ Word = Pow(WordBits)
  <2>1. Word = Pow(WordBits) BY Zenon DEF Word, Pow
  <2> QED BY <2>1, Format
<1>2. ASSUME NEW i \in Nat PROVE ((m % k) * Pow(i)) % k = v(i)
  <2>1. Pow(i) \in Nat BY PowType
  <2>2. PICK a \in Nat : a = m OBVIOUS
  <2>3. \A w \in Nat : ((a % k) * w) % k = (a * w) % k
    BY ONLY a \in Nat, k \in Nat, k > 0, ModProduct, ZenonT(30)
  <2> QED BY <2>1, <2>2, <2>3
<1>3. ASSUME NEW i \in Nat PROVE (v(i) * Word) % k = v(i + WordBits)
  <2>1. PICK p \in Nat : p = Pow(i) BY PowType
  <2>2. PICK w \in Nat : w = Word BY <1>1
  <2>3. PICK a \in Nat : a = m * p OBVIOUS
  <2>4. ((a % k) * w) % k = (a * w) % k
    BY ONLY a \in Nat, w \in Nat, k \in Nat, k > 0, ModProduct, ZenonT(30)
  <2>5. Pow(i + WordBits) = p * w
    BY <2>1, <2>2, <1>1, PowSum, Zenon
  <2>6. (m * p) * w = m * (p * w) BY Regroup
  <2> QED BY <2>1, <2>2, <2>3, <2>4, <2>5, <2>6
<1> HIDE DEF v
<1>4. ReducesWords(g, m, n, k)
  <2>1. ASSUME NEW i \in 0 .. n
        PROVE  v(i) = IF i <= WordBits THEN ((m % k) * Pow(i)) % k ELSE (g[i - WordBits] * Word) % k
    <3>1. CASE i <= WordBits BY <3>1, <1>2
    <3>2. CASE ~(i <= WordBits)
      <4>1. PICK j \in 0 .. n : j = i - WordBits /\ j \in Nat /\ i = j + WordBits
        BY <3>2, <1>1
      <4>2. g[j] = v(j) OBVIOUS
      <4> QED BY <3>2, <4>1, <4>2, <1>3
    <3> QED BY <3>1, <3>2
  <2> QED BY <2>1, Zenon DEF ReducesWords, Pow
<1>5. PICK f : f = CHOOSE c : ReducesWords(c, m, n, k)
  OBVIOUS
<1>6. ReducesWords(f, m, n, k) BY <1>4, <1>5, Zenon
<1>7. Modulo(m, n, k) = f[n]
  BY <1>5, Zenon DEF Modulo, ReducesWords
<1>8. ASSUME NEW i \in 0 .. n
      PROVE  f[i] = IF i <= WordBits THEN ((m % k) * Pow(i)) % k ELSE (f[i - WordBits] * Word) % k
  BY <1>6, Zenon DEF ReducesWords, Pow
<1> DEFINE T == {i \in Nat : \A j \in 0 .. n : j <= i => f[j] = v(j)}
<1>9. 0 \in T
  <2>1. ASSUME NEW j \in 0 .. n, j <= 0 PROVE f[j] = v(j)
    <3>1. j <= WordBits /\ j \in Nat BY <2>1, <1>1
    <3> QED BY <3>1, <1>8, <1>2
  <2> QED BY <2>1
<1>10. ASSUME NEW i \in Nat, i \in T PROVE i + 1 \in T
  <2>1. ASSUME NEW j \in 0 .. n, j <= i + 1 PROVE f[j] = v(j)
    <3>1. CASE j <= WordBits BY <3>1, <1>8, <1>2
    <3>2. CASE ~(j <= WordBits)
      <4>1. PICK h \in 0 .. n : h = j - WordBits /\ h \in Nat /\ j = h + WordBits /\ h <= i
        BY <2>1, <3>2, <1>1
      <4>2. f[h] = v(h) BY <4>1, <1>10
      <4>3. f[j] = (f[h] * Word) % k
        BY <3>2, <4>1, <1>8
      <4> QED BY <4>1, <4>2, <4>3, <1>3
    <3> QED BY <3>1, <3>2
  <2> QED BY <2>1
<1>11. n \in T
  <2>1. \A i \in Nat : i \in T
    <3> HIDE DEF T
    <3> QED BY <1>9, <1>10, NatSetInduction
  <2> QED BY <2>1
<1>12. f[n] = v(n) BY <1>11
<1> QED BY <1>7, <1>12, Zenon DEF v

\* A common factor of two numbers is one of what is left.
LEMMA FactorLeft ==
  ASSUME NEW a \in Nat, NEW b \in Nat, b > 0, NEW p \in Nat, p > 0
  PROVE  (a * p) % (b * p) = (a % b) * p /\ a % b \in Nat /\ a % b < b /\ a % b <= a
<1>1. a = b * (a \div b) + (a % b) /\ a \div b \in Nat /\ a % b \in Nat /\ a % b < b /\ a % b <= a
  BY DivMod
<1>2. PICK q \in Nat, r \in Nat : q = a \div b /\ r = a % b /\ a = b * q + r /\ r < b
  BY <1>1
<1>3. PICK k \in Nat, i \in Nat, j \in Nat : k = b * p /\ i = r * p /\ j = a * p
  OBVIOUS
<1>4. k > 0 /\ i < k
  BY <1>2, <1>3, Products, Regroup
<1>5. j = k * q + i
  <2>1. (b * q + r) * p = (b * p) * q + r * p
    BY ONLY b \in Nat, q \in Nat, r \in Nat, p \in Nat
  <2> QED BY <2>1, <1>2, <1>3
<1>6. j % k = i
  BY ONLY <1>4, <1>5, j \in Nat, k \in Nat, q \in Nat, i \in Nat, DivModUnique
<1> QED BY <1>1, <1>2, <1>3, <1>6

\* A common factor is one of the nearest too, which is no further from 0 than either.
LEMMA FactorNearest ==
  ASSUME NEW a \in Nat, NEW b \in Nat, b > 0, a < 2 * b, NEW p \in Nat, p > 0
  PROVE  /\ ToNearest(a * p, b * p) = ToNearest(a, b) * p /\ ToNearest(a, b) \in Int
         /\ ToNearest(a, b) <= a /\ -a <= ToNearest(a, b) /\ ToNearest(a, b) <= b /\ -b <= ToNearest(a, b)
<1>1. PICK i \in Nat, k \in Nat : i = a * p /\ k = b * p /\ k > 0
  BY Products, Regroup
<1>2. /\ 2 * a <= b <=> 2 * i <= k
      /\ 3 * b <= 2 * a <=> 3 * k <= 2 * i
  <2>1. \A u \in Nat, w \in Nat : u < w <=> u * p < w * p
    BY Regroup
  <2>2. PICK u \in Nat, w \in Nat : u = 2 * a /\ w = 3 * b
    OBVIOUS
  <2>3. u * p = 2 * i /\ w * p = 3 * k BY <1>1, <2>2
  <2>4. b < u <=> k < 2 * i BY <1>1, <2>1, <2>3
  <2>5. u < w <=> 2 * i < 3 * k BY <2>1, <2>3
  <2> QED BY <1>1, <2>2, <2>4, <2>5
<1>3. CASE 2 * a <= b
  <2>1. ToNearest(a, b) = a /\ ToNearest(i, k) = i
    BY <1>1, <1>2, <1>3, ToNearestIs
  <2> QED BY <2>1, <1>1, <1>3
<1>4. CASE b < 2 * a /\ 2 * a < 3 * b
  <2>1. ToNearest(a, b) = a - b BY <1>4, ToNearestIs
  <2>3. k < 2 * i /\ 2 * i < 3 * k
    BY <1>1, <1>2, <1>4
  <2>4. ToNearest(i, k) = i - k
    BY <1>1, <2>3, ToNearestIs
  <2>2. (a - b) * p = i - k BY <1>1
  <2> QED BY <2>1, <2>2, <2>4, <1>1, <1>4
<1>5. CASE 3 * b <= 2 * a
  <2>1. ToNearest(a, b) = a - 2 * b /\ ToNearest(i, k) = i - 2 * k
    BY <1>1, <1>2, <1>5, ToNearestIs
  <2>2. (a - 2 * b) * p = i - 2 * k BY <1>1
  <2> QED BY <2>1, <2>2, <1>1, <1>5
<1> QED BY <1>3, <1>4, <1>5

\* The mantissa is a number of units of the double's own scale.
LEMMA InScale ==
  ASSUME NEW d \in AllDoubles, Finite(d)
  PROVE  /\ Mantissa(d) \in Nat /\ Scale(d) \in Int /\ Least0 <= Scale(d) /\ Least0 \in Int
         /\ \A s \in Int : Least0 <= s /\ s <= Scale(d) =>
              Units(d) = (Mantissa(d) * Pow(Scale(d) - s)) * Pow(s - Least0)
         /\ \A s \in Int, v \in Nat : Scale(d) <= s /\ Units(d) = v * Pow(s - Least0) =>
              Mantissa(d) = v * Pow(s - Scale(d))
<1>1. PICK n \in BOOLEAN, k \in Fields, f \in Fractions : d = Of(n, k, f)
  BY PartsOf
<1>2. /\ Fr \in Nat /\ k \in Nat /\ f \in Nat /\ Bias \in Nat /\ FracBits \in Nat
      /\ Mantissa(d) = (IF k = 0 THEN f ELSE f + Fr)
      /\ Scale(d) = (IF k = 0 THEN 1 ELSE k) - Bias - FracBits
  BY <1>1, ValuesOf, Format, Products DEF Fields, Fractions
<1>3. PICK m \in Nat, o \in Int, l \in Int : m = Mantissa(d) /\ o = Scale(d) /\ l = Least0 /\ l <= o
  BY <1>2 DEF Least0
<1>4. ASSUME NEW s \in Int, l <= s, s <= o PROVE m * Pow(o - l) = (m * Pow(o - s)) * Pow(s - l)
  <2>1. o - s \in Nat /\ s - l \in Nat /\ (o - s) + (s - l) = o - l
    BY <1>4
  <2>2. PICK a \in Nat, b \in Nat : a = Pow(o - s) /\ b = Pow(s - l)
    BY <2>1, PowType
  <2>3. Pow(o - l) = a * b BY <2>1, <2>2, PowSum
  <2> QED BY <2>2, <2>3, Regroup
<1>5. ASSUME NEW s \in Int, NEW v \in Nat, o <= s, m * Pow(o - l) = v * Pow(s - l) PROVE m = v * Pow(s - o)
  <2>1. s - o \in Nat /\ o - l \in Nat /\ (s - o) + (o - l) = s - l
    BY <1>3, <1>5
  <2>2. PICK a \in Nat, b \in Nat : a = Pow(s - o) /\ b = Pow(o - l) /\ b > 0
    BY <2>1, PowType
  <2>3. Pow(s - l) = a * b BY <2>1, <2>2, PowSum
  <2>4. PICK c \in Nat : c = v * a OBVIOUS
  <2>5. m * b = c * b
    BY <1>5, <2>2, <2>3, <2>4, Regroup
  <2> QED BY <2>2, <2>4, <2>5, Regroup
<1> QED BY <1>3, <1>4, <1>5 DEF Units

\* A number with its sign, times another.
LEMMA SignedProduct ==
  ASSUME NEW w \in Nat, NEW p \in Nat, p > 0, NEW v \in Int, v = w \/ v = -w
  PROVE  /\ w * p \in Nat /\ v * p \in Int /\ (w * p = 0 <=> w = 0)
         /\ v = w => v * p = w * p
         /\ v = -w => v * p = -(w * p)
<1>1. w * p \in Nat OBVIOUS
<1>2. w > 0 => w * p > 0 BY Products
<1>3. w = 0 => w * p = 0 OBVIOUS
<1>4. (-w) * p = -(w * p) OBVIOUS
<1>5. PICK u \in Nat : u = w * p BY <1>1
<1> QED BY <1>2, <1>3, <1>4, <1>5

\* Both numbers in the smaller of their scales: what is left of a and of its units.
InSmaller(d, y, s, divisor, twice, a, b, p) ==
  /\ s \in Int /\ Least0 <= s /\ s <= Scale(d) /\ s <= Scale(y) /\ (s = Scale(d) \/ s = Scale(y))
  /\ p = Pow(s - Least0) /\ p > 0 /\ b > 0
  /\ Units(d) = a * p /\ Units(y) = b * p /\ divisor = b
  /\ twice \in Nat /\ twice < 2 * b /\ twice <= a
  /\ Units(d) % (2 * Units(y)) = twice * p
  /\ twice % divisor \in Nat /\ twice % divisor < b /\ twice % divisor <= twice
  /\ Units(d) % Units(y) = (twice % divisor) * p

\* In the smaller of the two scales, nothing of either number is lost.
LEMMA SmallerScale ==
  ASSUME NEW d \in AllDoubles, NEW y \in AllDoubles, Finite(d), Finite(y), Magnitude(y) > 0,
         NEW s, s = Least(Scale(d), Scale(y)),
         NEW divisor, divisor = Mantissa(y) * Pow(Scale(y) - s),
         NEW twice, twice = Modulo(Mantissa(d), Scale(d) - s, 2 * divisor)
  PROVE  \E a \in Nat, b \in Nat, p \in Nat : InSmaller(d, y, s, divisor, twice, a, b, p)
<1>1. Units(d) \in Nat /\ Units(y) \in Nat /\ Units(y) > 0
  BY FmodUnits
<1>4. PICK m \in Nat, k \in Nat, e \in Int, j \in Int, l \in Int :
        m = Mantissa(d) /\ k = Mantissa(y) /\ e = Scale(d) /\ j = Scale(y) /\ l = Least0 /\ l <= e /\ l <= j
  BY InScale
<1>5. s \in Int /\ s <= e /\ s <= j /\ l <= s /\ (s = e \/ s = j)
  BY <1>4 DEF Least
<1>6. PICK a \in Nat, b \in Nat, p \in Nat : a = m * Pow(e - s) /\ b = k * Pow(j - s) /\ p = Pow(s - l) /\ p > 0
  <2>1. e - s \in Nat /\ j - s \in Nat /\ s - l \in Nat
    BY <1>4, <1>5
  <2>2. PICK f \in Nat, g \in Nat, p \in Nat : f = Pow(e - s) /\ g = Pow(j - s) /\ p = Pow(s - l) /\ p > 0
    BY <2>1, PowType
  <2>3. m * f \in Nat /\ k * g \in Nat BY Regroup
  <2> QED BY <2>2, <2>3
<1>7. Units(d) = a * p /\ Units(y) = b * p /\ divisor = b
  <2>1. Units(d) = (Mantissa(d) * Pow(Scale(d) - s)) * Pow(s - Least0)
    BY <1>4, <1>5, InScale
  <2>2. Units(y) = (Mantissa(y) * Pow(Scale(y) - s)) * Pow(s - Least0)
    BY <1>4, <1>5, InScale
  <2> QED BY <2>1, <2>2, <1>4, <1>6
<1>8. b > 0 BY <1>1, <1>6, <1>7
<1>9. PICK c \in Nat : c = 2 * b /\ c > 0 BY <1>8
<1>10. twice = a % c
  <2>1. e - s \in Nat BY <1>4, <1>5
  <2>2. Modulo(m, e - s, c) = (m * Pow(e - s)) % c
    BY <2>1, <1>9, ModuloIs
  <2> QED BY <2>2, <1>4, <1>6, <1>7, <1>9
<1>11. PICK t \in Nat : t = twice /\ t < 2 * b /\ t <= a /\ (a * p) % (c * p) = t * p
  <2>1. (a * p) % (c * p) = (a % c) * p /\ a % c \in Nat /\ a % c < c /\ a % c <= a
    BY ONLY FactorLeft, a \in Nat, c \in Nat, p \in Nat, <1>6, <1>9
  <2> QED BY <2>1, <1>9, <1>10
<1>12. t % b = a % b
  <2>1. PICK q \in Int : a = c * q + t
    <3>1. a = c * (a \div c) + (a % c) /\ a \div c \in Int
      BY ONLY <1>9, a \in Int, a \in Nat, c \in Nat, DivMod
    <3> QED BY <3>1, <1>10, <1>11
  <2>2. PICK i \in Int : i = 2 * q OBVIOUS
  <2>3. c * q = b * i
    <3>1. (2 * b) * q = b * (2 * q)
      BY ONLY b \in Nat, q \in Int
    <3> QED BY <3>1, <2>2, <1>9
  <2>4. a = t + b * i BY <2>1, <2>3
  <2>5. (t + b * i) % b = t % b
    BY ONLY ModSum, b \in Nat, b > 0, t \in Int, i \in Int, t \in Nat, <1>8
  <2> QED BY <2>4, <2>5
<1>13. PICK h \in Nat : h = twice % divisor /\ h < b /\ h <= t /\ (a * p) % (b * p) = h * p
  <2>1. (a * p) % (b * p) = (a % b) * p /\ a % b \in Nat /\ a % b < b
    BY <1>6, <1>8, FactorLeft
  <2>2. t % b <= t BY <1>8, DivMod
  <2> QED BY <2>1, <2>2, <1>7, <1>11, <1>12
<1>14. 2 * (b * p) = c * p
  <2>1. 2 * (b * p) = (2 * b) * p
    BY ONLY b \in Nat, p \in Nat
  <2> QED BY <2>1, <1>9
<1>15. Units(d) % (2 * Units(y)) = t * p
  BY <1>7, <1>11, <1>14
<1>16. Units(d) % Units(y) = h * p BY <1>7, <1>13
<1>17. InSmaller(d, y, s, divisor, twice, a, b, p)
  <2>1. Least0 <= s /\ s <= Scale(d) /\ s <= Scale(y) /\ (s = Scale(d) \/ s = Scale(y)) /\ p = Pow(s - Least0)
    BY ONLY <1>4, <1>5, <1>6
  <2>2. twice \in Nat /\ twice < 2 * b /\ twice <= a /\ Units(d) % (2 * Units(y)) = twice * p
    BY ONLY <1>11, <1>15
  <2>3. /\ twice % divisor \in Nat /\ twice % divisor < b /\ twice % divisor <= twice
        /\ Units(d) % Units(y) = (twice % divisor) * p
    BY ONLY <1>11, <1>13, <1>16
  <2> QED BY ONLY <2>1, <2>2, <2>3, <1>5, <1>6, <1>7, <1>8 DEF InSmaller
<1> QED BY <1>17

\* What fmod leaves of finite numbers.
LEMMA FmodFinite ==
  ASSUME NEW d \in AllDoubles, NEW y \in AllDoubles, Finite(d), Finite(y), Magnitude(y) > 0,
         NEW s, s = Least(Scale(d), Scale(y)),
         NEW divisor, divisor = Mantissa(y) * Pow(Scale(y) - s),
         NEW twice, twice = Modulo(Mantissa(d), Scale(d) - s, 2 * divisor),
         NEW r, r = fmod(d, y)
  PROVE  /\ twice % divisor = 0 => r = IF Magnitude(d) = 0 THEN d ELSE Zero(Sign(d.hi))
         /\ twice % divisor # 0 =>
              /\ Magnitude(r) < Magnitude(y) /\ Negative(r.hi) = Negative(d.hi) /\ Scale(r) <= s
              /\ Mantissa(r) = (twice % divisor) * Pow(s - Scale(r))
<1>1. PICK a \in Nat, b \in Nat, p \in Nat : InSmaller(d, y, s, divisor, twice, a, b, p)
  BY SmallerScale
<1>2. PICK h \in Nat : h = twice % divisor
  BY <1>1 DEF InSmaller
<1>3. /\ s \in Int /\ Least0 <= s /\ (s = Scale(d) \/ s = Scale(y)) /\ p = Pow(s - Least0) /\ p > 0 /\ b > 0
      /\ Units(d) = a * p /\ Units(y) = b * p /\ h < b /\ h <= a /\ Units(d) % Units(y) = h * p
  BY <1>1, <1>2 DEF InSmaller
<1>4. h = 0 <=> h * p = 0 BY <1>3, SignedProduct
<1>5. /\ Units(d) % Units(y) = 0 => r = IF Magnitude(d) = 0 THEN d ELSE Zero(Sign(d.hi))
      /\ Units(d) % Units(y) # 0 =>
           /\ r \in AllDoubles /\ Finite(r) /\ Negative(r.hi) = Negative(d.hi)
           /\ Units(r) = Units(d) % Units(y)
  BY FmodUnits
<1>6. h = 0 => r = IF Magnitude(d) = 0 THEN d ELSE Zero(Sign(d.hi))
  BY <1>3, <1>4, <1>5
<1>7. ASSUME h # 0
      PROVE  /\ Magnitude(r) < Magnitude(y) /\ Negative(r.hi) = Negative(d.hi) /\ Scale(r) <= s
             /\ Mantissa(r) = h * Pow(s - Scale(r))
  <2>1. r \in AllDoubles /\ Finite(r) /\ Negative(r.hi) = Negative(d.hi) /\ Units(r) = h * p
    BY <1>3, <1>4, <1>5, <1>7
  <2>2. Magnitude(r) < Magnitude(y)
    <3>1. Units(r) < Units(y) BY <2>1, <1>3, Regroup
    <3> QED BY <3>1, <2>1, UnitsOrder
  <2>3. Scale(r) <= s
    <3>1. h * p <= a * p /\ h * p <= b * p
      BY <1>3, Products
    <3>2. Units(r) <= Units(d) /\ Units(r) <= Units(y)
      BY <3>1, <2>1, <1>3
    <3>3. Scale(r) <= Scale(d) /\ Scale(r) <= Scale(y)
      BY <3>2, <2>1, UnitsOrder
    <3> QED BY <3>3, <1>3
  <2>4. Mantissa(r) = h * Pow(s - Scale(r))
    <3>1. Units(r) = h * Pow(s - Least0)
      BY <2>1, <1>3
    <3> QED BY <3>1, <2>1, <2>3, <1>3, InScale
  <2> QED BY <2>1, <2>2, <2>3, <2>4
<1> QED BY <1>2, <1>6, <1>7

\* What remainder leaves of finite numbers, if the words are not exchanged.
LEMMA RemainderFinite ==
  ASSUME LittleEndian, NEW d \in AllDoubles, NEW y \in AllDoubles, Finite(d), Finite(y), Magnitude(y) > 0,
         NEW s, s = Least(Scale(d), Scale(y)),
         NEW divisor, divisor = Mantissa(y) * Pow(Scale(y) - s),
         NEW twice, twice = Modulo(Mantissa(d), Scale(d) - s, 2 * divisor),
         NEW n, n = remainder(d, y), NEW nearest, nearest = ToNearest(twice, divisor)
  PROVE  /\ Scale(n) <= s
         /\ Signed(n) = (IF Negative(d.hi) THEN -nearest ELSE nearest) * Pow(s - Scale(n))
         /\ nearest = 0 => Negative(n.hi) = Negative(d.hi)
<1>2. PICK v : v = ToNearest(Units(d) % (2 * Units(y)), Units(y))
  OBVIOUS
<1>3. /\ n \in AllDoubles /\ Finite(n) /\ v \in Int
      /\ Balance(n) = (IF Negative(d.hi) THEN -v ELSE v)
      /\ v = 0 => Negative(n.hi) = Negative(d.hi)
  BY <1>2, RemainderIs
<1>1. PICK a \in Nat, b \in Nat, p \in Nat : InSmaller(d, y, s, divisor, twice, a, b, p)
  BY SmallerScale
<1>11. PICK t \in Nat : t = twice
  BY <1>1 DEF InSmaller
<1>7. /\ s \in Int /\ Least0 <= s /\ (s = Scale(d) \/ s = Scale(y)) /\ p = Pow(s - Least0) /\ p > 0 /\ b > 0
      /\ Units(d) = a * p /\ Units(y) = b * p /\ t < 2 * b /\ t <= a /\ divisor = b
      /\ Units(d) % (2 * Units(y)) = t * p
  BY <1>1, <1>11 DEF InSmaller
<1>14. nearest = ToNearest(t, b) /\ nearest \in Int /\ v = nearest * p
       /\ nearest <= t /\ -t <= nearest /\ nearest <= b /\ -b <= nearest
  <2>4. b > 0 /\ t < 2 * b /\ p > 0 BY <1>7, <1>11
  <2>1. /\ ToNearest(t * p, b * p) = ToNearest(t, b) * p /\ ToNearest(t, b) \in Int
        /\ ToNearest(t, b) <= t /\ -t <= ToNearest(t, b) /\ ToNearest(t, b) <= b /\ -b <= ToNearest(t, b)
    BY ONLY t \in Nat, b \in Nat, p \in Nat, <2>4, FactorNearest, Zenon
  <2>3. v = ToNearest(t * p, b * p)
    BY <1>2, <1>7, <1>11
  <2> QED BY <2>1, <2>3, <1>7, <1>11
<1>15. PICK w \in Nat : nearest = w \/ nearest = -w
  <2>1. PICK i \in Int : i = nearest BY <1>14
  <2>2. i \in Nat \/ -i \in Nat OBVIOUS
  <2>3. i = -(-i) OBVIOUS
  <2> QED BY <2>1, <2>2, <2>3
<1>16. w <= t /\ w <= b BY <1>14, <1>15
<1>17. PICK u \in Nat : u = w * p /\ (u = 0 <=> w = 0) /\ (nearest = w => v = u) /\ (nearest = -w => v = -u)
  BY <1>7, <1>14, <1>15, SignedProduct
<1>18. PICK f \in BOOLEAN, g \in BOOLEAN : f = Negative(d.hi) /\ g = Negative(n.hi)
  <2>1. Negative(d.hi) \in BOOLEAN /\ Negative(n.hi) \in BOOLEAN
    BY DEF Negative
  <2> QED BY <2>1, Zenon
<1>19. PICK z \in Nat : z = Units(n)
  BY <1>3, TwiceUnits
<1>20. (IF g THEN -z ELSE z) = (IF f THEN -v ELSE v)
  BY ONLY <1>3, <1>18, <1>19, Zenon DEF Balance
<1>21. z = u /\ (u > 0 => (IF f THEN -nearest ELSE nearest) = IF g THEN -w ELSE w)
  BY ONLY <1>15, <1>17, <1>20, u \in Nat, z \in Nat, w \in Nat, f \in BOOLEAN, g \in BOOLEAN
<1>23. Scale(n) <= s
  <2>1. w <= a BY <1>7, <1>16
  <2>2. w * p <= a * p /\ w * p <= b * p
    BY <2>1, <1>7, <1>16, Products
  <2>3. Units(n) <= Units(d) /\ Units(n) <= Units(y)
    BY <2>2, <1>7, <1>17, <1>19, <1>21
  <2>4. Scale(n) <= Scale(d) /\ Scale(n) <= Scale(y)
    BY <2>3, <1>3, UnitsOrder
  <2> QED BY <2>4, <1>7
<1>25. PICK q \in Nat : q = Pow(s - Scale(n)) /\ q > 0
  <2>1. Scale(n) \in Int BY <1>3, InScale
  <2>2. s - Scale(n) \in Nat BY <2>1, <1>7, <1>23
  <2> QED BY <2>2, PowType
<1>26. Mantissa(n) = w * q
  <2>1. Scale(n) <= s /\ Units(n) = w * Pow(s - Least0)
    BY <1>7, <1>17, <1>19, <1>21, <1>23
  <2>2. Mantissa(n) = w * Pow(s - Scale(n))
    BY <2>1, <1>3, <1>7, InScale
  <2> QED BY <2>2, <1>25
<1>27. Signed(n) = (IF Negative(d.hi) THEN -nearest ELSE nearest) * q
  <2>1. Signed(n) = IF g THEN -(w * q) ELSE w * q
    BY ONLY <1>18, <1>26, Zenon DEF Signed
  <2>2. PICK i \in Int : i = IF g THEN -w ELSE w
    OBVIOUS
  <2>3. i * q = IF g THEN -(w * q) ELSE w * q
    BY <2>2, <1>25, SignedProduct
  <2>4. (IF f THEN -nearest ELSE nearest) = i
    <3>1. CASE u > 0 BY <3>1, <2>2, <1>21
    <3>2. CASE u = 0
      <4>1. w = 0 /\ w \in Int BY <3>2, <1>17
      <4>2. -w = 0 BY <4>1, MinusZero
      <4>3. nearest = 0 /\ nearest \in Int /\ i = 0
        BY <4>1, <4>2, <2>2, <1>15
      <4>4. -nearest = 0 BY <4>3, MinusZero
      <4> QED BY <4>3, <4>4
    <3> QED BY <3>1, <3>2
  <2>5. (IF Negative(d.hi) THEN -nearest ELSE nearest) = i
    BY ONLY <2>4, <1>18, Zenon
  <2> QED BY <2>1, <2>3, <2>5
<1>28. nearest = 0 => Negative(n.hi) = Negative(d.hi)
  <2>1. nearest = 0 => v = 0 BY <1>7, <1>14
  <2> QED BY <2>1, <1>3
<1> QED BY <1>23, <1>25, <1>27, <1>28

\* A divisor of a scale two above leaves a number as it is, and so does infinity.
LEMMA FmodUnchanged ==
  ASSUME NEW d \in AllDoubles, NEW y \in AllDoubles, Finite(d), ~IsNaN(y), Magnitude(y) > 0,
         ~Finite(y) \/ Scale(y) > Scale(d) + 1
  PROVE  fmod(d, y) = d
<1>1. Magnitude(d) \in Nat /\ Magnitude(y) \in Nat /\ Infinity \in Nat
  BY AllIs, DoubleOf
<1>2. Magnitude(d) < Magnitude(y)
  <2>1. CASE ~Finite(y) BY <2>1, <1>1 DEF Finite
  <2>2. CASE Finite(y)
    <3>1. Scale(d) \in Int /\ Scale(y) \in Int /\ Units(d) \in Nat /\ Units(y) \in Nat
      BY <2>2, InScale, TwiceUnits
    <3>2. Scale(d) + 2 <= Scale(y) BY <3>1, <2>2
    <3>3. 2 * Units(d) < Units(y)
      BY <3>2, <2>2, ScaleApart
    <3>4. Units(d) < Units(y) BY <3>1, <3>3
    <3> QED BY <3>4, <2>2, UnitsOrder
  <2> QED BY <2>1, <2>2
<1>3. ~(IsNaN(y) \/ Magnitude(y) = 0 \/ ~Finite(d))
  BY <1>1
<1> QED BY <1>2, <1>3, FmodCases

\* remainder leaves such a number as it is too.
LEMMA RemainderUnchanged ==
  ASSUME LittleEndian, NEW d \in AllDoubles, NEW y \in AllDoubles, Finite(d), ~IsNaN(y), Magnitude(y) > 0,
         ~Finite(y) \/ Scale(y) > Scale(d) + 1
  PROVE  remainder(d, y) = d
<1>1. CASE ~Finite(y) BY <1>1, RemainderInfinite
<1>2. CASE Finite(y)
  <2>1. PICK n : n = remainder(d, y) OBVIOUS
  <2>2. PICK v : v = ToNearest(Units(d) % (2 * Units(y)), Units(y))
    OBVIOUS
  <2>3. /\ n \in AllDoubles /\ Finite(n) /\ v \in Int
        /\ Balance(n) = (IF Negative(d.hi) THEN -v ELSE v)
        /\ v = 0 => Negative(n.hi) = Negative(d.hi)
    BY <2>1, <2>2, <1>2, RemainderIs
  <2>4. PICK a \in Nat, b \in Nat, c \in Nat : a = Units(d) /\ b = Units(y) /\ c = 2 * b /\ 2 * a < b
    <3>1. Scale(d) \in Int /\ Scale(y) \in Int /\ Units(d) \in Nat /\ Units(y) \in Nat
      BY <1>2, InScale, TwiceUnits
    <3>2. Scale(d) + 2 <= Scale(y) BY <3>1, <1>2
    <3> QED BY <3>1, <3>2, <1>2, ScaleApart
  <2>5. a % b = a /\ a % c = a
    <3>1. b > 0 /\ c > 0 /\ 0 <= a /\ a < b /\ a < c /\ a = b * 0 + a /\ a = c * 0 + a /\ 0 \in Int
      BY <2>4
    <3>2. a % b = a
      BY ONLY <3>1, a \in Int, b \in Nat, DivModUnique
    <3>3. a % c = a
      BY ONLY <3>1, a \in Int, c \in Nat, DivModUnique
    <3> QED BY <3>2, <3>3
  <2>6. v = a
    <3>1. ToNearest(a, b) = a BY <2>4, ToNearestIs
    <3> QED BY <3>1, <2>2, <2>4, <2>5
  <2>7. n = d
    <3>1. PICK f \in BOOLEAN, g \in BOOLEAN : f = Negative(d.hi) /\ g = Negative(n.hi)
      <4>1. Negative(d.hi) \in BOOLEAN /\ Negative(n.hi) \in BOOLEAN
        BY DEF Negative
      <4> QED BY <4>1, Zenon
    <3>2. PICK z \in Nat : z = Units(n)
      BY <2>3, TwiceUnits
    <3>3. (IF g THEN -z ELSE z) = (IF f THEN -v ELSE v)
      BY ONLY <2>3, <3>1, <3>2, Zenon DEF Balance
    <3>4. v = 0 => g = f BY ONLY <2>3, <3>1, Zenon
    <3>5. z = a /\ g = f
      BY ONLY <2>6, <3>3, <3>4, z \in Nat, a \in Nat, f \in BOOLEAN, g \in BOOLEAN
    <3>6. Magnitude(n) = Magnitude(d)
      <4>1. Units(n) = Units(d) BY <3>2, <3>5, <2>4
      <4> QED BY <4>1, <2>3, UnitsOrder
    <3>7. Negative(n.hi) = Negative(d.hi)
      BY ONLY <3>1, <3>5, Zenon
    <3> QED BY <3>6, <3>7, <2>3, SameDouble
  <2> QED BY <2>1, <2>7
<1> QED BY <1>1, <1>2

\* What fmod and remainder leave, of every double and for every divisor.
LEMMA RemaindersOfAll ==
  ASSUME NEW d \in AllDoubles, NEW y \in AllDoubles
  PROVE  RemaindersOf(d, y)
<1>1. Magnitude(y) \in Nat BY DoubleOf
<1>2. PICK r : r = fmod(d, y) OBVIOUS
<1>3. PICK n : n = remainder(d, y) OBVIOUS
<1>4. PICK s : s = Least(Scale(d), Scale(y)) OBVIOUS
<1>5. PICK divisor : divisor = Mantissa(y) * 2 ^ (Scale(y) - s)
  OBVIOUS
<1>6. PICK twice : twice = Modulo(Mantissa(d), Scale(d) - s, 2 * divisor)
  OBVIOUS
<1>7. PICK nearest : nearest = ToNearest(twice, divisor)
  OBVIOUS
<1>8. CASE IsNaN(y) \/ Magnitude(y) = 0 \/ ~Finite(d)
  <2>1. ASSUME LittleEndian
        PROVE  IsNaN(r) /\ IsNaN(n)
    <3>1. r = NaN BY <1>8, <1>2, <2>1, FmodCases
    <3>2. n = NaN
      BY <1>8, <1>3, <2>1, RemainderCases
    <3> QED BY <3>1, <3>2, NaNIs
  <2>2. ~(Finite(d) /\ ~IsNaN(y) /\ Magnitude(y) > 0 /\ (~Finite(y) \/ Scale(y) > Scale(d) + 1))
    BY <1>1, <1>8
  <2> QED BY ONLY <2>1, <2>2, <1>2, <1>3, <1>8, Zenon DEF RemaindersOf
<1>9. CASE Finite(d) /\ ~IsNaN(y) /\ Magnitude(y) > 0 /\ (~Finite(y) \/ Scale(y) > Scale(d) + 1)
  <2>1. r = d BY <1>9, <1>2, FmodUnchanged
  <2>2. LittleEndian => n = d
    BY <1>9, <1>3, RemainderUnchanged
  <2>3. ~(IsNaN(y) \/ Magnitude(y) = 0 \/ ~Finite(d))
    BY <1>1, <1>9
  <2> QED BY ONLY <2>1, <2>2, <2>3, <1>2, <1>3, <1>9, Zenon DEF RemaindersOf
<1>10. CASE /\ ~(IsNaN(y) \/ Magnitude(y) = 0 \/ ~Finite(d))
            /\ ~(Finite(d) /\ ~IsNaN(y) /\ Magnitude(y) > 0 /\ (~Finite(y) \/ Scale(y) > Scale(d) + 1))
  <2>1. Finite(d) /\ Finite(y) /\ Magnitude(y) > 0
    BY <1>1, <1>10
  <2>2. divisor = Mantissa(y) * Pow(Scale(y) - s)
    BY ONLY <1>5, Zenon DEF Pow
  <2>3. d \in AllDoubles /\ y \in AllDoubles OBVIOUS
  <2>4. /\ twice % divisor = 0 => r = IF Magnitude(d) = 0 THEN d ELSE Zero(Sign(d.hi))
        /\ twice % divisor # 0 =>
             /\ Magnitude(r) < Magnitude(y) /\ Negative(r.hi) = Negative(d.hi) /\ Scale(r) <= s
             /\ Mantissa(r) = (twice % divisor) * Pow(s - Scale(r))
    BY ONLY <2>1, <2>2, <2>3, <1>2, <1>4, <1>6, FmodFinite
  <2>5. ASSUME LittleEndian
        PROVE  /\ Scale(n) <= s
               /\ Signed(n) = (IF Negative(d.hi) THEN -nearest ELSE nearest) * Pow(s - Scale(n))
               /\ nearest = 0 => Negative(n.hi) = Negative(d.hi)
    BY ONLY <2>1, <2>2, <2>3, <2>5, <1>3, <1>4, <1>6, <1>7, RemainderFinite
  <2>6. IF twice % divisor = 0
        THEN r = (IF Magnitude(d) = 0 THEN d ELSE Zero(Sign(d.hi)))
        ELSE /\ Magnitude(r) < Magnitude(y)
             /\ Negative(r.hi) = Negative(d.hi)
             /\ Scale(r) <= s
             /\ Mantissa(r) = (twice % divisor) * 2 ^ (s - Scale(r))
    BY ONLY <2>4, Zenon DEF Pow
  <2>7. LittleEndian =>
          /\ Scale(n) <= s
          /\ Signed(n) = (IF Negative(d.hi) THEN -nearest ELSE nearest) * 2 ^ (s - Scale(n))
          /\ nearest = 0 => Negative(n.hi) = Negative(d.hi)
    BY ONLY <2>5, Zenon DEF Pow
  <2> QED BY ONLY <2>6, <2>7, <1>2, <1>3, <1>4, <1>5, <1>6, <1>7, <1>10, Zenon DEF RemaindersOf
<1> QED BY <1>8, <1>9, <1>10

\* fmod and remainder are exact for every double.
LEMMA RemaindersAll ==
  ASSUME x \in AllDoubles
  PROVE  RemaindersExact
<1>1. View(x) \in AllDoubles BY ViewIs
<1>2. \A y \in Divisors : RemaindersOf(View(x), y)
  BY <1>1, ArgumentAssumption, RemaindersOfAll
<1> QED BY ONLY <1>2, Zenon DEF RemaindersExact

\* fmod and remainder leave exactly what the divisor does not take, for every double and every
\* divisor, with no bit lost, of subnormal numbers too: fmod in either build, remainder (and NaN,
\* where there is nothing to leave) in the one whose words are where the code takes them to be.
THEOREM RemaindersExactAlways ==
  Spec => []RemaindersExact
<1>1. x \in AllDoubles => RemaindersExact
  BY RemaindersAll
<1> QED BY <1>1, DoublesOnly, PTL
==============================================================================
