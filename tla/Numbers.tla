------------------------------ MODULE Numbers ------------------------------
(***************************************************************************)
(* Numbers of the language: the arithmetic of procs.c, and integers as     *)
(* text, printed by print_int of sys.c and read by reader.c.  An int has   *)
(* Bits bits and wraps around, which is what the unoptimized build does.   *)
(* A double is a fraction <<p, q>> in lowest terms, q > 0, or NaN, 0/0:    *)
(* rounding and infinities are not modelled.                               *)
(***************************************************************************)
EXTENDS Lists

CONSTANT Bits  \* width of an int
ASSUME BitsAssumption == Bits \in Nat \ {0}

MinInt == -(2 ^ (Bits - 1))
Wrap(i) == ((i - MinInt) % 2 ^ Bits) + MinInt

\* (size_t) of an int: negative ones are larger than any object.
Unsigned(i) == IF i < 0 THEN 2 ^ Bits + i ELSE i

Abs(i) == IF i < 0 THEN -i ELSE i
Sign(i) == IF i < 0 THEN -1 ELSE 1

\* Division of C, which rounds towards zero, and its remainder.
Quot(a, b) == Sign(a) * Sign(b) * (Abs(a) \div Abs(b))
Rem(a, b) == a - b * Quot(a, b)

RECURSIVE Gcd(_, _)
Gcd(a, b) == IF b = 0 THEN a ELSE Gcd(b, a % b)

\* What is computed from 0/0 is 0/0.
Frac(p, q) ==
  LET g == Gcd(Abs(p), Abs(q))
  IN  IF q = 0 THEN NaN ELSE <<Sign(q) * (p \div g), Abs(q) \div g>>

Plus(x, y) == Frac(x[1] * y[2] + y[1] * x[2], x[2] * y[2])
Times(x, y) == Frac(x[1] * y[1], x[2] * y[2])
Minus(x, y) == Plus(x, <<-y[1], y[2]>>)
Over(x, y) == Frac(x[1] * y[2], x[2] * y[1])
Less(x, y) == x[1] * y[2] < y[1] * x[2]
LessOrSame(x, y) == Less(x, y) \/ SameNumber(x, y)

-----------------------------------------------------------------------------
(* +, *, - and / *)

Real(d) == [t |-> "real", d |-> d]

\* The value of a number, or of a result that has no object yet.
ValueOf(h, n) == IF n.t = "real" THEN n.d ELSE NumberOf(h, n)

NotANumber(h) == Outcome(h, Nil, TRUE)

\* cell_car and cell_cdr of the list of arguments, and so on.
Arg(args, i) == IF i <= Len(args) THEN args[i] ELSE Nil
Rest(args) == SubSeq(args, 2, Len(args))

NewNumber(h, n, err) ==
  IF n.t = "real" THEN [Alloc(h, "double", [d |-> n.d]) EXCEPT !.err = err]
  ELSE Outcome(h, Integer(Wrap(n.i)), err)

\* An int if both are, else a double.
Combine(h, n, m, OnInts(_, _), OnReals(_, _)) ==
  IF n.t = "int" /\ m.t = "int" THEN Integer(Wrap(OnInts(n.i, m.i)))
  ELSE Real(OnReals(ValueOf(h, n), ValueOf(h, m)))

Add(h, n, m) == Combine(h, n, m, LAMBDA i, j : i + j, Plus)
Mul(h, n, m) == Combine(h, n, m, LAMBDA i, j : i * j, Times)
Sub(h, n, m) == Combine(h, n, m, LAMBDA i, j : i - j, Minus)
Div(h, n, m) == Combine(h, n, m, Quot, Over)

AllNumbers(args) == \A i \in DOMAIN args : IsNumber(args[i])

\* From left to right: an int until the first double comes.
Sum(h, args) == FoldLeft(LAMBDA n, v : Add(h, n, v), Integer(0), args)
Product(h, args) == FoldLeft(LAMBDA n, v : Mul(h, n, v), Integer(1), args)

proc_add(h, args) ==
  IF AllNumbers(args) THEN NewNumber(h, Sum(h, args), FALSE) ELSE NotANumber(h)

proc_mul(h, args) ==
  IF AllNumbers(args) THEN NewNumber(h, Product(h, args), FALSE) ELSE NotANumber(h)

\* The sum of the others is subtracted from the first argument, or the first
\* negated.  If that is no number the result is NIL, without an error.
proc_sub(h, args) ==
  LET v == Arg(args, 1)
  IN  IF ~AllNumbers(Rest(args)) THEN NotANumber(h)
      ELSE IF ~IsNumber(v) THEN Outcome(h, Nil, FALSE)
      ELSE IF Len(args) <= 1 THEN NewNumber(h, Sub(h, Integer(0), v), FALSE)
      ELSE NewNumber(h, Sub(h, v, Sum(h, Rest(args))), FALSE)

\* The first argument is divided by the sum of the others, or 1 by the first.  The
\* least int divided by -1 raises an exception of the processor.
proc_div(h, args) ==
  LET v == Arg(args, 1)
      alone == Len(args) <= 1
      n == IF alone THEN Integer(1) ELSE v
      m == IF ~alone THEN Sum(h, Rest(args)) ELSE IF IsNumber(v) THEN v ELSE Integer(0)
      zero == IF v.t = "int" THEN Integer(0) ELSE Real(<<0, 1>>)
  IN  IF ~AllNumbers(Rest(args)) THEN NotANumber(h)
      ELSE IF ~IsNumber(v) THEN Outcome(h, Nil, ValueOf(h, m) = <<0, 1>>)
      ELSE IF ValueOf(h, m) = <<0, 1>> THEN NewNumber(h, zero, TRUE)
      ELSE IF n = Integer(MinInt) /\ m = Integer(-1) THEN Outcome(h, Lost, FALSE)
      ELSE NewNumber(h, Div(h, n, m), FALSE)

-----------------------------------------------------------------------------
(* <, >, <=, >= and =; eq?, eql? and equal? *)

\* The last argument if each stands in the relation to the next, NIL otherwise.
FirstBreak(args, Rel(_, _)) ==
  {i \in 1 .. Len(args) - 1 :
     \A j \in 1 .. i : Rel(args[j], args[j + 1]) <=> j < i}

Chain(args, Rel(_, _)) ==
  IF args = <<>> \/ FirstBreak(args, Rel) # {} THEN Nil ELSE Last(args)

\* cast_to_double: 0.0 for what is no number.
cast_to_double(h, v) == IF IsNumber(v) THEN NumberOf(h, v) ELSE <<0, 1>>

Compare(h, args, Rel(_, _)) ==
  LET holds(v, w) == Rel(cast_to_double(h, v), cast_to_double(h, w))
      looked == UNION {{i, i + 1} : i \in {j \in 1 .. Len(args) - 1 :
                           \A k \in FirstBreak(args, holds) : j <= k}}
  IN  Outcome(h, Chain(args, holds), \E i \in looked : ~IsNumber(args[i]))

proc_lt(h, args) == Compare(h, args, Less)
proc_gt(h, args) == Compare(h, args, LAMBDA x, y : Less(y, x))
proc_lte(h, args) == Compare(h, args, LessOrSame)
proc_gte(h, args) == Compare(h, args, LAMBDA x, y : LessOrSame(y, x))
proc_e(h, args) == Compare(h, args, SameNumber)

proc_eq(h, args) == Outcome(h, Chain(args, eq), FALSE)
proc_eql(h, args) == Outcome(h, Chain(args, LAMBDA v, w : eql(h, v, w)), FALSE)

\* equal does not come back from two values that contain themselves.
proc_equal(h, args) ==
  IF \A i \in DOMAIN args : Finite(h, args[i])
  THEN Outcome(h, Chain(args, LAMBDA v, w : equal(h, v, w)), FALSE)
  ELSE Outcome(h, Lost, FALSE)

-----------------------------------------------------------------------------
(* Integers as text *)

\* '0' + k, for the remainders C may give.
Char(k) == <<"'", "(", ")", "*", "+", ",", "-", ".", "/",
             "0", "1", "2", "3", "4", "5", "6", "7", "8", "9">>[k + 10]

digitp(c) == \E k \in 0 .. 9 : c = Char(k)
DigitOf(c) == CHOOSE k \in 0 .. 9 : c = Char(k)

\* The least int is its own negative.
RECURSIVE print_int(_)
print_int(i) ==
  LET n == IF i < 0 THEN Wrap(-i) ELSE i
  IN  (IF i < 0 THEN <<"-">> ELSE <<>>)
        \o (IF Quot(n, 10) # 0 THEN print_int(Quot(n, 10)) ELSE <<>>)
        \o <<Char(Rem(n, 10))>>

\* A sign or none, then digits.
integerp(word) ==
  LET digits == IF word[1] \in {"+", "-"} THEN Tail(word) ELSE word
  IN  digits # <<>> /\ \A i \in DOMAIN digits : digitp(digits[i])

\* From the last digit to the sign, in ints that wrap.
parse_integer(word) ==
  LET sign == IF word[1] = "-" THEN -1 ELSE 1
      digits == IF word[1] \in {"+", "-"} THEN Tail(word) ELSE word
      value(i) == DigitOf(digits[i]) * 10 ^ (Len(digits) - i)
  IN  Wrap(sign * FoldLeft(LAMBDA n, i : n + value(i), 0, [i \in DOMAIN digits |-> i]))

=============================================================================
