------------------------------ MODULE Doubles ------------------------------
(***************************************************************************)
(* Doubles as the machine has them: two words of WordBits bits instead of  *)
(* 32, and an exponent of ExpBits instead of 11; what the library          *)
(* libflisp/libs/fdlibm-5.2 sees of them, __HI and __LO; and the products  *)
(* and sums that it leaves to the floating-point unit.                     *)
(*                                                                         *)
(* The machine is a 386, whose low word comes first.  Which word __HI      *)
(* takes for the high one is decided when the library is compiled.  Its    *)
(* Makefile does not define __LITTLE_ENDIAN, and so the library sees the   *)
(* words of every double exchanged; the readme asks for the definition.    *)
(***************************************************************************)
EXTENDS Integers

CONSTANTS
  WordBits, ExpBits,  \* 32 and 11
  Huge,               \* 1.0e300, as the number of doubles from 0 to it
  LittleEndian,       \* __LITTLE_ENDIAN is defined
  Misread(_)          \* see Arith

HighBits == WordBits - 1 - ExpBits    \* 20: bits of the fraction in the high word
FracBits == HighBits + WordBits       \* 52
Bias == 2 ^ (ExpBits - 1) - 1         \* 1023
Word == 2 ^ WordBits
SignBit == 2 ^ (WordBits - 1)

ASSUME FormatAssumption ==
  /\ WordBits \in Nat /\ ExpBits \in Nat /\ HighBits > 0
  \* the square roots of subnormal numbers are not subnormal
  /\ Bias > FracBits
  \* the words in which sqrt works do not overflow
  /\ HighBits + 3 < WordBits
\* All above it, and some below, are integers.
ASSUME HugeAssumption == Huge \in Nat /\ (Bias + FracBits) * 2 ^ FracBits <= Huge
ASSUME OrderAssumption == LittleEndian \in BOOLEAN

-----------------------------------------------------------------------------
(* Doubles                                                                   *)

AllDoubles == [hi : 0 .. Word - 1, lo : 0 .. Word - 1]

ASSUME MisreadAssumption == \A d \in AllDoubles : Misread(d) \in AllDoubles

\* A double as the library sees it, if d is one of the machine, and the other way
\* round: hi is the word that __HI takes or sets, lo that of __LO.
View(d) == IF LittleEndian THEN d ELSE [hi |-> d.lo, lo |-> d.hi]

\* The words of a view, and the view of which they are the words.
HI(d) == d.hi
LO(d) == d.lo
Words(i0, i1) == [hi |-> i0, lo |-> i1]

\* A word, seen as an int, is negative.
Negative(i0) == i0 >= SignBit

\* ((i0>>20)&0x7ff)-0x3ff
Exponent(i0) == ((i0 % SignBit) \div 2 ^ HighBits) - Bias

\* What the processor sees of a double of the machine, and what the library takes a
\* view for: the sign, and the other bits, which order doubles of one sign.
Magnitude(d) == (d.hi % SignBit) * Word + d.lo
Infinity == (2 ^ ExpBits - 1) * 2 ^ FracBits
IsNaN(d) == Magnitude(d) > Infinity
Finite(d) == Magnitude(d) < Infinity
Order(d) == IF Negative(d.hi) THEN -Magnitude(d) ELSE Magnitude(d)

Double(negative, magnitude) ==
  [hi |-> (magnitude \div Word) + (IF negative THEN SignBit ELSE 0), lo |-> magnitude % Word]

NaN == Double(TRUE, Infinity + 2 ^ (FracBits - 1))

\* A finite double is Mantissa * 2^Scale, but for the sign.
Mantissa(d) ==
  LET m == Magnitude(d)
  IN  IF m < 2 ^ FracBits THEN m ELSE (m % 2 ^ FracBits) + 2 ^ FracBits
Scale(d) ==
  LET e == Magnitude(d) \div 2 ^ FracBits IN (IF e = 0 THEN 1 ELSE e) - Bias - FracBits

\* The highest bit of i.
Top(i) == CHOOSE t \in 0 .. 2 * WordBits : 2 ^ t <= i /\ i < 2 ^ (t + 1)

\* i / 2^n, rounded to nearest, ties to even.
Rounded(i, n) ==
  LET q == i \div 2 ^ n
      r == i % 2 ^ n
  IN  IF n > FracBits + 2 THEN 0
      ELSE IF 2 * r > 2 ^ n \/ (2 * r = 2 ^ n /\ q % 2 = 1) THEN q + 1 ELSE q

\* The double next to m * 2^s.
Composed(negative, m, s) ==
  LET top == Top(m)
      e == s + top                  \* m * 2^s is 1.xxx * 2^e
      least == 1 - Bias - FracBits  \* the scale of subnormal numbers
  IN  Double(negative,
        CASE m = 0 -> 0
          [] m > 0 /\ e > Bias -> Infinity
          [] m > 0 /\ e \in 1 - Bias .. Bias ->
               (e + Bias - 1) * 2 ^ FracBits + m * 2 ^ (FracBits - top)
          [] m > 0 /\ e < 1 - Bias ->
               IF s >= least THEN m * 2 ^ (s - least) ELSE Rounded(m, least - s))

\* d * 2^n
Times(d, n) ==
  IF Finite(d) THEN Composed(Negative(d.hi), Mantissa(d), Scale(d) + n) ELSE d

-----------------------------------------------------------------------------
(* Arithmetic of the library on views, which the processor does on doubles   *)

\* d * 2^n, which is d + d for an n of 1.
Scaled(d, n) == View(Times(View(d), n))

\* d == e
Same(d, e) ==
  LET a == View(d)
      b == View(e)
  IN  ~IsNaN(a) /\ ~IsNaN(b) /\ Order(a) = Order(b)

\* huge + d > 0.0
HugePlusIsPositive(d) == ~IsNaN(View(d)) /\ Order(View(d)) > -Huge

\* Other sums, products and quotients, of d, are v if the words are not exchanged.
\* If they are, the processor works on other numbers than those the library has in
\* mind: Misread stands for what comes of it, of which nothing is claimed.
Arith(v, d) == IF LittleEndian THEN v ELSE View(Misread(d))

=============================================================================
