------------------------------- MODULE Fdlibm -------------------------------
(***************************************************************************)
(* The functions of libflisp/libs/fdlibm-5.2 that work on the bits of a    *)
(* double without floating-point arithmetic, where they can do without:    *)
(* floor, ceil, rint, modf and sqrt; those of Exponents; and a             *)
(* program that calls FLOOR, CEILING, ABS and SQRT.  The functions take    *)
(* views and return views, the program has a double.                       *)
(***************************************************************************)
EXTENDS Exponents

CONSTANTS
  Functions,  \* the functions the program calls
  Shifts,     \* exponents for scalbn
  Divisors    \* for fmod, as the library sees them

ASSUME FunctionAssumption == Functions \subseteq {"FLOOR", "CEILING", "ABS", "SQRT"}
ASSUME ArgumentAssumption ==
  Shifts \subseteq -SignBit .. SignBit - 1 /\ Divisors \subseteq AllDoubles

VARIABLE x  \* the double the program has got


-----------------------------------------------------------------------------
(* floor, ceil, modf and rint                                                *)

Cleared(i, unit) == i - (i % unit)

\* mutant: the carry from the low word into the high one is forgotten
ToIntegerNoCarry(d, small, away) ==
  LET i0 == HI(d)
      i1 == LO(d)
      j0 == Exponent(i0)
      unit == IF j0 < HighBits THEN 2 ^ (HighBits - j0) ELSE 2 ^ (FracBits - j0)
      up == IF away THEN unit ELSE 0
  IN  CASE j0 = Bias + 1 -> Scaled(d, 1)
        [] j0 \in FracBits .. Bias -> d
        [] j0 < 0 -> IF HugePlusIsPositive(d) THEN small ELSE d
        [] j0 \in 0 .. HighBits - 1 ->
             IF (i0 % unit = 0 /\ i1 = 0) \/ ~HugePlusIsPositive(d) THEN d
             ELSE Words(Cleared(i0 + up, unit), 0)
        [] j0 \in HighBits .. FracBits - 1 ->
             IF i1 % unit = 0 \/ ~HugePlusIsPositive(d) THEN d
             ELSE Words(i0, Cleared((i1 + up) % Word, unit))

\* What floor and ceil do alike: the bits behind the point are cleared; if the value
\* goes away from zero, the last bit before the point is added first, with a carry
\* into the high word, and from the fraction into the exponent.  An integer is
\* returned as it is, and small instead of what is less than 1.
ToInteger(d, small, away) ==
  LET i0 == HI(d)
      i1 == LO(d)
      j0 == Exponent(i0)
      unit == IF j0 < HighBits THEN 2 ^ (HighBits - j0) ELSE 2 ^ (FracBits - j0)
      up == IF away THEN unit ELSE 0
  IN  CASE j0 = Bias + 1 -> Scaled(d, 1)
        [] j0 \in FracBits .. Bias -> d
        [] j0 < 0 -> IF HugePlusIsPositive(d) THEN small ELSE d
        [] j0 \in 0 .. HighBits - 1 ->
             IF (i0 % unit = 0 /\ i1 = 0) \/ ~HugePlusIsPositive(d) THEN d
             ELSE Words(Cleared(i0 + up, unit), 0)
        [] j0 \in HighBits .. FracBits - 1 ->
             IF i1 % unit = 0 \/ ~HugePlusIsPositive(d) THEN d
             ELSE Words(i0 + (i1 + up) \div Word, Cleared((i1 + up) % Word, unit))

One == Bias * 2 ^ HighBits  \* the high word of 1.0

floor(d) ==
  ToInteger(d, IF ~Negative(HI(d)) THEN Words(0, 0)
               ELSE IF ~IsZero(HI(d), LO(d)) THEN Words(SignBit + One, 0) ELSE d,
            Negative(HI(d)))

ceil(d) ==
  ToInteger(d, IF Negative(HI(d)) THEN Words(SignBit, 0)
               ELSE IF ~IsZero(HI(d), LO(d)) THEN Words(One, 0) ELSE d,
            ~Negative(HI(d)) /\ HI(d) # 0)

\* The integral part, and the rest: a difference of doubles with one exponent, which
\* is exact.  Of infinities and NaN the rest is 0.  x*one is x.
modf(d) ==
  LET i0 == HI(d)
      i1 == LO(d)
      j0 == Exponent(i0)
      int == IF j0 < HighBits THEN Words(Cleared(i0, 2 ^ (HighBits - j0)), 0)
             ELSE Words(i0, Cleared(i1, 2 ^ (FracBits - j0)))
  IN  CASE j0 < 0 -> [int |-> Words(Sign(i0), 0), rest |-> d]
        [] j0 >= FracBits -> [int |-> d, rest |-> Words(Sign(i0), 0)]
        [] j0 \in 0 .. FracBits - 1 ->
             IF int = d THEN [int |-> d, rest |-> Words(Sign(i0), 0)]
             ELSE [int |-> int,
                   rest |-> Arith(Composed(Negative(i0), Mantissa(d) - Mantissa(int), Scale(d)),
                                  d)]

\* (TWO52 + d) - TWO52: the sum has no bits behind the point and is rounded.  A
\* difference of 0 is positive.
ByTWO52(d) ==
  LET i == Rounded(Mantissa(d), -Scale(d))
  IN  Composed(Negative(d.hi) /\ i > 0, i, 0)

\* The bits behind the second place after the point are made one, so that they are
\* not rounded twice.
Sticky(d) ==
  LET i0 == HI(d)
      i1 == LO(d)
      j0 == Exponent(i0)
      half == IF j0 < HighBits THEN 2 ^ (HighBits - j0 - 1) ELSE 2 ^ (FracBits - j0 - 1)
  IN  CASE j0 < 0 ->
             LET kept == Cleared(i0, IF HighBits > 3 THEN 2 ^ (HighBits - 3) ELSE 1)
                 first == 2 ^ (HighBits - 1)
             IN  Words(IF (i0 % 2 ^ HighBits # 0 \/ i1 # 0) /\ kept % 2 ^ HighBits < first
                       THEN kept + first ELSE kept, i1)
        [] j0 \in 0 .. HighBits - 1 ->
             (CASE i0 % half = 0 /\ i1 = 0 -> d
               [] j0 = HighBits - 1 /\ i1 # 0 -> Words(i0, 2 ^ (WordBits - 2))
               [] j0 < HighBits - 1 /\ (i0 % half # 0 \/ i1 # 0) ->
                    Words(Cleared(i0, half) + (2 ^ HighBits \div 8) \div 2 ^ j0, i1))
        [] j0 \in HighBits .. FracBits - 1 ->
             IF i1 % half = 0 THEN d ELSE Words(i0, Cleared(i1, half) + half \div 2)

rint(d) ==
  LET i0 == HI(d)
      i1 == LO(d)
      j0 == Exponent(i0)
      t == Arith(ByTWO52(Sticky(d)), d)
      unit == IF j0 < HighBits THEN 2 ^ (HighBits - j0) ELSE 2 ^ (FracBits - j0)
  IN  CASE j0 = Bias + 1 -> Scaled(d, 1)
        [] j0 \in FracBits .. Bias -> d
        [] j0 < 0 -> IF IsZero(i0, i1) THEN d ELSE Words((HI(t) % SignBit) + Sign(i0), LO(t))
        [] j0 \in 0 .. HighBits - 1 -> IF i0 % unit = 0 /\ i1 = 0 THEN d ELSE t
        [] j0 \in HighBits .. FracBits - 1 -> IF i1 % unit = 0 THEN d ELSE t

-----------------------------------------------------------------------------
(* sqrt.  a holds the local variables: the rest [ix0, ix1], twice the root   *)
(* [s0, s1] and the root [q, q1].                                            *)

ShiftLeft(a) ==
  [a EXCEPT !.ix0 = 2 * @ + (a.ix1 \div SignBit), !.ix1 = (2 * @) % Word]

\* One bit of the root in the high words.
HighBit(a, r) ==
  LET t == a.s0 + r
  IN  ShiftLeft(IF t <= a.ix0
                THEN [a EXCEPT !.s0 = t + r, !.ix0 = @ - t, !.q = @ + r] ELSE a)

\* One bit in the low words: twice the root carries into s0, the rest borrows from ix0.
LowBit(a, r) ==
  LET t1 == (a.s1 + r) % Word
      s1_ == (t1 + r) % Word
      carry == IF Negative(t1) /\ ~Negative(s1_) THEN 1 ELSE 0
      borrow == IF a.ix1 < t1 THEN 1 ELSE 0
  IN  ShiftLeft(
        IF a.s0 < a.ix0 \/ (a.s0 = a.ix0 /\ t1 <= a.ix1)
        THEN [a EXCEPT !.s0 = @ + carry, !.s1 = s1_, !.ix0 = @ - a.s0 - borrow,
                       !.ix1 = (@ - t1) % Word, !.q1 = @ + r]
        ELSE a)

\* The bits of the root, one after the other.
Root(a) ==
  LET Bits[i \in 0 .. HighBits + 2 + WordBits] ==
        IF i = 0 THEN ShiftLeft(a)
        ELSE IF i <= HighBits + 2 THEN HighBit(Bits[i - 1], 2 ^ (HighBits + 2 - i))
        ELSE LowBit(Bits[i - 1], 2 ^ (HighBits + 2 + WordBits - i))
  IN  Bits[HighBits + 2 + WordBits]

\* mutant: the bit behind the last is cut off
NearestCuts(a) == a

\* The processor rounds to nearest, so the bit behind the last decides, unless the
\* root is exact.
Nearest(a) ==
  IF a.ix0 = 0 /\ a.ix1 = 0 THEN a
  ELSE IF a.q1 = Word - 1 THEN [a EXCEPT !.q1 = 0, !.q = @ + 1]
  ELSE [a EXCEPT !.q1 = @ + (@ % 2)]

\* How far a subnormal number is shifted until its leading bit is where that of
\* others is.  If ix0 has that bit before its last shift, by i = 0, then ix1>>(32-i)
\* is not defined; whatever it gives is masked off.
Leading(ix0, ix1) ==
  CHOOSE n \in 0 .. FracBits :
    2 ^ FracBits <= (ix0 * Word + ix1) * 2 ^ n /\ (ix0 * Word + ix1) * 2 ^ n < 2 * 2 ^ FracBits

\* The exponent m, and the words with the leading bit.
Normalized(ix0, ix1) ==
  LET m == ix0 \div 2 ^ HighBits
      shifted == (ix0 * Word + ix1) * 2 ^ Leading(ix0, ix1)
  IN  IF m = 0
      THEN [m |-> 1 - Leading(ix0, ix1) - Bias, ix0 |-> shifted \div Word, ix1 |-> shifted % Word]
      ELSE [m |-> m - Bias, ix0 |-> (ix0 % 2 ^ HighBits) + 2 ^ HighBits, ix1 |-> ix1]

\* x*x+x of what is not finite.
SquarePlus(d) == Arith(IF IsNaN(d) \/ Negative(d.hi) THEN NaN ELSE d, d)

sqrt(d) ==
  LET n == Normalized(HI(d), LO(d))
      start == [ix0 |-> n.ix0, ix1 |-> n.ix1, s0 |-> 0, s1 |-> 0, q |-> 0, q1 |-> 0]
      a == Nearest(Root(IF n.m % 2 = 1 THEN ShiftLeft(start) ELSE start))
  IN  CASE Exponent(HI(d)) = Bias + 1 -> SquarePlus(d)
        [] IsZero(HI(d), LO(d)) -> d
        [] Negative(HI(d)) /\ ~IsZero(HI(d), LO(d)) /\ Exponent(HI(d)) # Bias + 1 -> View(NaN)
        [] OTHER ->
             Words((a.q \div 2) + (Bias - 1) * 2 ^ HighBits + (n.m \div 2) * 2 ^ HighBits,
                   (a.q1 \div 2) + (IF a.q % 2 = 1 THEN SignBit ELSE 0))

-----------------------------------------------------------------------------

\* math_helper, for a number: an int is converted, which gives a double too.
math_helper(fun) ==
  x' = View(CASE fun = "FLOOR" -> floor(View(x))
              [] fun = "CEILING" -> ceil(View(x))
              [] fun = "ABS" -> fabs(View(x))
              [] fun = "SQRT" -> sqrt(View(x)))

\* The program may get any double from its arithmetic: here first one whose low word
\* is 0, and from that all the others with its high word.
Init == x \in {d \in AllDoubles : d.lo = 0}

Arithmetic == x.lo = 0 /\ \E l \in 0 .. Word - 1 : x' = [x EXCEPT !.lo = l]

Next == Arithmetic \/ \E fun \in Functions : math_helper(fun)

Spec == Init /\ [][Next]_x

-----------------------------------------------------------------------------
(* Properties *)

\* Integers; all large doubles are, those below 2^FracBits are looked at closely.
Least(m, n) == IF m < n THEN m ELSE n
Large(d) == Scale(d) >= 0
Whole(d) ==
  IF -Scale(d) > FracBits THEN 0 ELSE Mantissa(d) \div 2 ^ (-Scale(d))
Integral(d) ==
  Large(d) \/ Mantissa(d) = 0
    \/ (-Scale(d) <= FracBits /\ Mantissa(d) % 2 ^ (-Scale(d)) = 0)
IntegerOf(d) == IF Negative(d.hi) THEN -Whole(d) ELSE Whole(d)

\* The bit that rint forgets: a fourth in the last bit of the high word (s_rint.c:68
\* shifts 0x20000 by 18).
LastFourth(d) == Exponent(d.hi) = HighBits - 2 /\ d.hi % 2 = 1 /\ d.lo = 0

\* floor is the last integer that is not above x, ceil the first that is not below,
\* and the integral part of modf the one towards zero, for every finite double, as
\* the library sees it: where the point is in the high word, between the words or in
\* the low word, and when the addition carries into the exponent.  An integer is all
\* three itself, bit by bit; zeros keep the sign of x.  Only what the processor takes
\* for less than -huge, because its words are exchanged, is not rounded at all.  If
\* the words are not exchanged, rint is the nearest integer, or the even one of two;
\* what modf leaves over adds up to x; infinities stay, and what is no number stays
\* none.
RoundsToIntegers ==
  LET v == View(x)
      down == floor(v)
      up == ceil(v)
      parts == modf(v)
      next == rint(v)
      towards == IF Negative(v.hi) THEN up ELSE down
  IN  CASE IsNaN(v) -> LittleEndian => \A d \in {down, up, next, parts.int} : IsNaN(d)
        [] ~Finite(v) /\ ~IsNaN(v) ->
             LittleEndian => {down, up, next, parts.int} = {v} /\ Magnitude(parts.rest) = 0
        [] Finite(v) /\ Integral(v) ->
             {down, up, next, parts.int} = {v} /\ Magnitude(parts.rest) = 0
        [] OTHER ->
             /\ ~HugePlusIsPositive(v) => {down, up} = {v}
             /\ HugePlusIsPositive(v) =>
                  /\ Integral(down) /\ Integral(up)
                  /\ Order(down) < Order(v) /\ Order(v) < Order(up)
                  /\ IntegerOf(up) = IntegerOf(down) + 1
                  /\ \A d \in {down, up} : Negative(d.hi) = Negative(v.hi)
                  /\ parts.int = towards
             /\ LittleEndian =>
                  /\ \A d \in {next, parts.rest} : Negative(d.hi) = Negative(v.hi)
                  /\ Scale(parts.rest) <= Scale(v)
                  /\ Mantissa(parts.rest) = (Mantissa(v) % 2 ^ Least(-Scale(v), FracBits + 1))
                                               * 2 ^ (Scale(v) - Scale(parts.rest))
                  /\ Integral(next)
                  /\ ~LastFourth(v) => Whole(next) = Rounded(Mantissa(v), -Scale(v))

\* "Return x rounded toward -inf to integral value" (s_floor.c:17), of the double
\* there is: an integer, and none above x.
FloorIsBelow ==
  LET down == View(floor(View(x))) IN Finite(x) => Integral(down) /\ Order(down) <= Order(x)

Squared(i) == i * i

\* "Return correctly rounded sqrt" (e_sqrt.c:14): the square root of a positive double,
\* as the library sees it, lies less than half a unit from the result, the subnormal
\* ones included; of zeros it is the argument, of negative numbers it is none; if the
\* words are not exchanged, of infinity it is the argument, and of what is none none.
SqrtCorrectlyRounded ==
  LET v == View(x)
      root == sqrt(v)
      d == Scale(v) - 2 * Scale(root) + 2
      exact == Mantissa(v) * 2 ^ d  \* in fourths of a unit of the square of the result
  IN  CASE ~Finite(v) ->
             LittleEndian => IF Order(v) = Infinity THEN root = v ELSE IsNaN(root)
        [] Magnitude(v) = 0 -> root = v
        [] Finite(v) /\ Order(v) < 0 -> IsNaN(View(root))
        [] OTHER ->
             /\ Finite(root) /\ ~Negative(root.hi)
             /\ Squared(2 * Mantissa(root) - 1) < exact
             /\ exact < Squared(2 * Mantissa(root) + 1)

\* "the next machine floating-point number of x in the direction toward y"
\* (s_nextafter.c:16): one step in the order of doubles, as the library sees them,
\* whether it carries from the low word or into the exponent, and through zero by way
\* of both its signs; if the words are not exchanged, also when it overflows.  Nothing
\* is said of two that == says are equal.
NextIsAdjacent(y) ==
  LET v == View(x)
      next == nextafter(v, y)
      to == Order(v) + (IF Order(v) < Order(y) THEN 1 ELSE -1)
  IN  /\ LittleEndian /\ (IsNaN(v) \/ IsNaN(y)) => IsNaN(next)
      /\ /\ ~IsNaN(v) /\ ~IsNaN(y) /\ Order(v) # Order(y) /\ ~Same(v, y)
         /\ to \in -Infinity + 1 .. Infinity - 1 \/ LittleEndian
         => /\ Order(next) = to
            /\ Magnitude(next) > 0 /\ Magnitude(v) > 0 =>
                 Negative(next.hi) = Negative(v.hi)

Normal(d) == Magnitude(d) >= 2 ^ FracBits /\ Finite(d)

\* scalbn, and ldexp, are the product of x and a power of two, for an n that makes
\* the exponent overflow too; frexp takes apart what scalbn puts together, and ilogb
\* and logb are the exponent of both.  So it is of normal numbers with an exact and
\* normal product, as the library sees them; if the words are not exchanged, also of
\* subnormal ones, and the product is rounded once.  nextafter goes from one exponent to
\* the next, copysign touches none, and ilogb finds that of subnormal numbers.
ScalesExactly ==
  LET v == View(x)
      parts == frexp(v)
  IN  /\ \A n \in Shifts :
           LET d == Times(v, n)
           IN  (Normal(v) /\ Normal(d) /\ Scale(d) = Scale(v) + n) \/ LittleEndian =>
                 scalbn(v, n) = d /\ ldexp(v, n) = d
      /\ finite(v) = Finite(v) /\ isnan(v) = IsNaN(v)
      /\ Normal(v) \/ LittleEndian => scalbn(parts.val, parts.exp) = v
      /\ Normal(v) \/ (LittleEndian /\ Finite(v) /\ Magnitude(v) > 0) =>
           ilogb(parts.val) = -1 /\ ilogb(v) = parts.exp - 1
      /\ Normal(v) => View(logb(v)) = ToDouble(ilogb(v))
      /\ \A y \in Divisors :
           NextIsAdjacent(y) /\ copysign(v, y) = Double(Negative(y.hi), Magnitude(v))

\* (m * 2^n) % k, with no more than WordBits bits at a time.
Modulo(m, n, k) ==
  LET R[i \in 0 .. n] ==
        IF i <= WordBits THEN ((m % k) * 2 ^ i) % k ELSE (R[i - WordBits] * Word) % k
  IN  R[n]

\* m less the multiple of k that is nearest, the even one of two: m < 2 * k.
ToNearest(m, k) ==
  CASE 2 * m <= k -> m
    [] k < 2 * m /\ 2 * m < 3 * k -> m - k
    [] 3 * k <= 2 * m -> m - 2 * k

Signed(d) == IF Negative(d.hi) THEN -Mantissa(d) ELSE Mantissa(d)

\* What fmod and remainder leave of d for the divisor y, in the smaller scale of the two.
RemaindersOf(d, y) ==
  LET r == fmod(d, y)
      n == remainder(d, y)
      s == Least(Scale(d), Scale(y))
      divisor == Mantissa(y) * 2 ^ (Scale(y) - s)
      twice == Modulo(Mantissa(d), Scale(d) - s, 2 * divisor)
      nearest == ToNearest(twice, divisor)
  IN  CASE IsNaN(y) \/ Magnitude(y) = 0 \/ ~Finite(d) ->
             LittleEndian => IsNaN(r) /\ IsNaN(n)
        [] Finite(d) /\ ~IsNaN(y) /\ Magnitude(y) > 0
             /\ (~Finite(y) \/ Scale(y) > Scale(d) + 1) -> r = d /\ (LittleEndian => n = d)
        [] OTHER ->
             /\ IF twice % divisor = 0
                THEN r = (IF Magnitude(d) = 0 THEN d ELSE Zero(Sign(d.hi)))
                ELSE /\ Magnitude(r) < Magnitude(y)
                     /\ Negative(r.hi) = Negative(d.hi)
                     /\ Scale(r) <= s
                     /\ Mantissa(r) = (twice % divisor) * 2 ^ (s - Scale(r))
             /\ LittleEndian =>
                  /\ Scale(n) <= s
                  /\ Signed(n) = (IF Negative(d.hi) THEN -nearest ELSE nearest)
                                   * 2 ^ (s - Scale(n))
                  /\ nearest = 0 => Negative(n.hi) = Negative(d.hi)

\* "Return x mod y in exact arithmetic" (e_fmod.c:16): what is left of x after y has
\* been taken away as often as it goes, with no bit lost, of subnormal numbers too, as
\* the library sees them; when nothing is left, a zero of the machine with the sign of
\* x.  And, if the words are not exchanged, "x REM p = x - [x/p]*p as if in infinite
\* precise arithmetic" (e_remainder.c:16), what is left when y is taken away as often
\* as comes nearest; and none if y is 0 or x is not finite.
RemaindersExact ==
  \A y \in Divisors : RemaindersOf(View(x), y)

=============================================================================
