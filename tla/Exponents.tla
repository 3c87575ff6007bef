----------------------------- MODULE Exponents -----------------------------
(***************************************************************************)
(* The functions of libflisp/libs/fdlibm-5.2 that take a double apart and  *)
(* put one together: fabs, copysign, finite, isnan, ilogb, logb, scalbn,   *)
(* ldexp, frexp, nextafter, fmod and remainder.  Of these flisp itself     *)
(* reaches fabs by ABS, and scalbn and copysign when it reduces large      *)
(* arguments of SIN, COS and TAN.  They take views and return views.       *)
(***************************************************************************)
EXTENDS Doubles

CONSTANT Far  \* 50000, in scalbn

\* Further than from the largest double to the smallest, and far enough from the
\* largest int.
ASSUME FarAssumption ==
  Far \in Nat /\ Far > 2 ^ ExpBits + 2 * FracBits /\ Far + 2 ^ ExpBits < SignBit

Sign(i0) == i0 - (i0 % SignBit)
MaxExponent == 2 ^ ExpBits - 1  \* 0x7ff: infinity and NaN

\* Both words are 0 but for the sign.
IsZero(i0, i1) == i0 % SignBit = 0 /\ i1 = 0

\* An int that overflows.
Overflowing(i) == ((i + SignBit) % Word) - SignBit

fabs(d) == Words(HI(d) % SignBit, LO(d))

copysign(d, e) == Words((HI(d) % SignBit) + Sign(HI(e)), LO(d))

finite(d) == HI(d) % SignBit < MaxExponent * 2 ^ HighBits

isnan(d) ==
  (HI(d) % SignBit) + (IF LO(d) = 0 THEN 0 ELSE 1) > MaxExponent * 2 ^ HighBits

\* The exponent of |x| with the words ix and lx, which is finite and not 0: by
\* shifting the bits of a subnormal number until the first is in the sign.
Ilogb(ix, lx) ==
  CASE ix >= 2 ^ HighBits -> Exponent(ix)
    [] ix \in 1 .. 2 ^ HighBits - 1 -> 1 - Bias - (HighBits - Top(ix))
    [] ix = 0 -> -Bias - HighBits - (WordBits - 1 - Top(lx))

ilogb(d) ==
  CASE IsZero(HI(d), LO(d)) -> -SignBit + 1
    [] ~finite(d) -> SignBit - 1
    [] OTHER -> Ilogb(HI(d) % SignBit, LO(d))

\* (double) i, for a small int
ToDouble(i) == Composed(i < 0, IF i < 0 THEN -i ELSE i, 0)

\* Of all subnormal numbers the exponent is that of the smallest others.
logb(d) ==
  LET ix == HI(d) % SignBit
  IN  CASE IsZero(HI(d), LO(d)) -> View(Double(TRUE, Infinity))
        [] ~finite(d) -> Arith(IF isnan(d) THEN d ELSE fabs(d), d)
        [] OTHER -> View(ToDouble(IF ix < 2 ^ HighBits THEN 1 - Bias ELSE Exponent(ix)))

\* The field of the exponent, and a double in which it is k.
Field(i0) == (i0 % SignBit) \div 2 ^ HighBits
WithField(d, k) == Words(Sign(HI(d)) + k * 2 ^ HighBits + (HI(d) % 2 ^ HighBits), LO(d))

\* huge*copysign(huge,x), and tiny*copysign(tiny,x) or tiny*x
Overflow(d) == Arith(Words(Sign(HI(d)) + MaxExponent * 2 ^ HighBits, 0), d)
Underflow(d) == Arith(Words(Sign(HI(d)), 0), d)

two54 == FracBits + 2  \* as an exponent

\* x * 2^n, by its exponent k.  A subnormal argument is scaled first and a subnormal
\* result last.  The sum of k and n may overflow, which the comparison with Far finds.
scalbn(x_, n) ==
  LET subnormal == Field(HI(x_)) = 0
      d == IF subnormal THEN Scaled(x_, two54) ELSE x_
      k == Overflowing(Field(HI(d)) - (IF subnormal THEN two54 ELSE 0) + n)
  IN  CASE IsZero(HI(x_), LO(x_)) -> x_
        [] ~IsZero(HI(x_), LO(x_)) /\ subnormal /\ n < -Far -> Underflow(d)
        [] ~subnormal /\ Field(HI(d)) = MaxExponent -> Scaled(d, 1)
        [] OTHER ->
             CASE k > MaxExponent - 1 -> Overflow(d)
               [] k \in 1 .. MaxExponent - 1 -> WithField(d, k)
               [] k <= -two54 -> IF n > Far THEN Overflow(d) ELSE Underflow(d)
               [] k \in 1 - two54 .. 0 -> Scaled(WithField(d, k + two54), -two54)

\* errno is left out: nothing reads it.
ldexp(d, n) == IF ~finite(d) \/ Magnitude(View(d)) = 0 THEN d ELSE scalbn(d, n)

\* A double in [0.5, 1) and an exponent.
frexp(x_) ==
  LET subnormal == Field(HI(x_)) = 0
      d == IF subnormal THEN Scaled(x_, two54) ELSE x_
  IN  IF ~finite(x_) \/ IsZero(HI(x_), LO(x_)) THEN [val |-> x_, exp |-> 0]
      ELSE [val |-> WithField(d, Bias - 1),
            exp |-> Field(HI(d)) - (Bias - 1) - (IF subnormal THEN two54 ELSE 0)]

\* mutant: the carry into the high word is forgotten
OneFurtherNoCarry(d) == Words(HI(d), (LO(d) + 1) % Word)

\* The doubles of the next larger and the next smaller magnitude, of words i0 and i1.
OneFurther(d) ==
  IF LO(d) = Word - 1 THEN Words(HI(d) + 1, 0) ELSE Words(HI(d), LO(d) + 1)
OneNearer(d) ==
  IF LO(d) = 0 THEN Words(HI(d) - 1, Word - 1) ELSE Words(HI(d), LO(d) - 1)

\* The words of d are not below those of e, when the high ones are seen as ints.
Beyond(d, e) ==
  LET hx == Overflowing(HI(d))
      hy == Overflowing(HI(e))
  IN  hx > hy \/ (hx = hy /\ LO(d) > LO(e))

\* The next double after d, seen from d in the direction of e; d + d if it is none.
nextafter(d, e) ==
  LET down == IF ~Negative(HI(d)) THEN Beyond(d, e) ELSE ~Negative(HI(e)) \/ Beyond(d, e)
      next == IF down THEN OneNearer(d) ELSE OneFurther(d)
  IN  CASE isnan(d) \/ isnan(e) -> Arith(NaN, d)
        [] ~isnan(d) /\ ~isnan(e) /\ Same(d, e) -> d
        [] OTHER -> IF IsZero(HI(d), LO(d)) THEN Words(Sign(HI(e)), 1)
                    ELSE IF Field(HI(next)) = MaxExponent THEN Scaled(d, 1) ELSE next

-----------------------------------------------------------------------------
(* fmod and remainder                                                        *)

\* The words of |x|, aligned so that its leading bit is where that of others is.
Aligned(ix, lx) ==
  LET e == Ilogb(ix, lx)
      shifted == (ix * Word + lx) * 2 ^ (1 - Bias - e)
  IN  IF e >= 1 - Bias THEN [h |-> (ix % 2 ^ HighBits) + 2 ^ HighBits, l |-> lx]
      ELSE [h |-> shifted \div Word, l |-> shifted % Word]

\* mutant: nothing is borrowed from the high word
MinusNoBorrow(a, b) == [h |-> a.h - b.h, l |-> (a.l - b.l) % Word]

\* hz=hx-hy;lz=lx-ly; if(lx<ly) hz -= 1;
Minus(a, b) ==
  [h |-> a.h - b.h - (IF a.l < b.l THEN 1 ELSE 0), l |-> (a.l - b.l) % Word]

Doubled(a) == [h |-> 2 * a.h + (a.l \div SignBit), l |-> (2 * a.l) % Word]

\* What is left of a after the divisor b has been taken away where it fits, n bits
\* further on and once more.  When nothing is left it stays so; the code returns.
Left(a, b, n) ==
  LET Fits(r) == LET z == Minus(r, b) IN IF z.h >= 0 THEN z ELSE r
      Rest[i \in 0 .. n] == IF i = 0 THEN Fits(a) ELSE Fits(Doubled(Rest[i - 1]))
  IN  Rest[n]

\* The double with the bits of a, and the exponent iy if the leading bit is set.
Rebuilt(a, iy, sign) ==
  LET bits == a.h * Word + a.l
      places == FracBits - Top(bits)
      e == iy - places
      normal == bits * 2 ^ places
      sub == normal \div 2 ^ (1 - Bias - e)
  IN  IF e >= 1 - Bias
      THEN Words(sign + (e + Bias - 1) * 2 ^ HighBits + (normal \div Word), normal % Word)
      ELSE Words(sign + (sub \div Word), sub % Word)

\* Zero[(unsigned)sx>>31], of the machine.
Zero(sx) == View([hi |-> sx, lo |-> 0])

\* (x*y)/(x*y) is no number where it is returned.
fmod(d, y) ==
  LET sx == Sign(HI(d))
      hx == HI(d) % SignBit
      lx == LO(d)
      hy == HI(y) % SignBit
      ly == LO(y)
      ix == Ilogb(hx, lx)
      iy == Ilogb(hy, ly)
      rest == Left(Aligned(hx, lx), Aligned(hy, ly), ix - iy)
  IN  CASE IsZero(HI(y), LO(y)) \/ ~finite(d) \/ isnan(y) -> Arith(NaN, d)
        [] OTHER ->
             CASE hx < hy \/ (hx = hy /\ lx < ly) -> d
               [] hx = hy /\ lx = ly -> Zero(sx)
               [] hx > hy \/ (hx = hy /\ lx > ly) ->
                    IF rest.h = 0 /\ rest.l = 0 THEN Zero(sx)
                    ELSE Rebuilt(rest, iy, sx)

\* a - b, of doubles whose scales are close.
Difference(a, b) ==
  LET s == IF Scale(a) < Scale(b) THEN Scale(a) ELSE Scale(b)
      m == Mantissa(a) * 2 ^ (Scale(a) - s) - Mantissa(b) * 2 ^ (Scale(b) - s)
  IN  Composed(m < 0, IF m < 0 THEN -m ELSE m, s)

\* r less the multiple of p that is nearest, for 0 <= r < 2p.  Small p are doubled
\* and others halved, which is exact for both.
NearestMultiple(r, p) ==
  LET small == HI(p) < 2 * 2 ^ HighBits
      Half(d) == IF small THEN Order(Times(d, 1)) - Order(p)
                 ELSE Order(d) - Order(Times(p, -1))
      once == Difference(r, p)
  IN  CASE Half(r) <= 0 -> r
        [] Half(r) > 0 -> IF Half(once) >= 0 THEN Difference(once, p) ELSE once

remainder(d, p) ==
  LET near == HI(p) % SignBit < (MaxExponent - 1) * 2 ^ HighBits
      r == IF near THEN fmod(d, Scaled(p, 1)) ELSE d
      n == Arith(NearestMultiple(fabs(r), fabs(p)), r)
  IN  CASE IsZero(HI(p), LO(p)) \/ ~finite(d) \/ isnan(p) -> Arith(NaN, d)
        [] OTHER -> IF fabs(d) = fabs(p) THEN Arith(Words(Sign(HI(r)), 0), r)
                    ELSE Words((HI(n) + Sign(HI(d))) % Word, LO(n))

=============================================================================
