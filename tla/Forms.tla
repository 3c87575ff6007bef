------------------------------- MODULE Forms -------------------------------
(***************************************************************************)
(* Lists as programs: what the printer makes of them and the reader makes  *)
(* of that, the value of a quasiquote, and what macroexpand returns when   *)
(* no macro is used (Evaluator has the call of a macro).                   *)
(*                                                                         *)
(* Text is a sequence of characters, among which the name of a symbol and  *)
(* other text without a blank or a special character count as one.  An     *)
(* unquoted expression is a variable or a constant.                        *)
(***************************************************************************)
EXTENDS Numbers

\* The whole part is printed as an int, then p places after the point: each
\* remainder times ten, cut.  A whole part too large for a long, which has as many bits
\* as an int (link.ld builds for i386), and that of NaN become the least long, and
\* stay it from place to place.
print_double(d, p) ==
  LET fits == d # NaN /\ Abs(d[1]) < -MinInt * d[2]
      whole == IF fits THEN Abs(d[1]) \div d[2] ELSE MinInt
      place(i) == IF fits THEN ((Abs(d[1]) * 10 ^ i) \div d[2]) % 10 ELSE 0
  IN  (IF d[1] < 0 THEN <<"-">> ELSE <<>>) \o print_int(whole) \o <<".">>
        \o [i \in 1 .. p |-> Char(place(i))]

Spaced(texts) ==
  FlattenSeq([i \in DOMAIN texts |-> (IF i > 1 THEN <<" ">> ELSE <<>>) \o texts[i]])

\* mutant: no blank is printed between the elements
print_listTight(elements, end) ==
  <<"(">> \o FlattenSeq(elements)
    \o (IF end = <<>> THEN <<>> ELSE <<" ", ".", " ">> \o end) \o <<")">>

\* The elements as they are printed, and what stands behind the point if there is one.
print_list(elements, end) ==
  <<"(">> \o Spaced(elements)
    \o (IF end = <<>> THEN <<>> ELSE <<" ", ".", " ">> \o end) \o <<")">>

\* print_object, of a value that does not contain itself.
RECURSIVE print_object(_, _)
print_object(h, v) ==
  LET each(s) == [i \in DOMAIN s |-> print_object(h, s[i])]
  IN  CASE v.t = "null" -> <<"NIL">>
        [] v.t = "int" -> print_int(v.i)
        [] v.t = "double" -> print_double(h[v.id].d, 5)
        [] v.t = "symbol" -> <<v.name>>
        [] v.t = "string" -> <<"\"">> \o h[v.id].str \o <<"\"">>
        [] v.t = "array" -> <<"#(">> \o Spaced(each(h[v.id].data)) \o <<")">>
        [] v.t = "cell" ->
             print_list(each(Elements(h, v)),
                        IF Proper(h, v) THEN <<>> ELSE print_object(h, EndOf(h, v)))

\* print_object_nice leaves the quotes of a string out, unless it is in a list.
print_object_nice(h, v) ==
  IF v.t = "string" THEN h[v.id].str ELSE print_object(h, v)

\* format_: what it prints; lost if it ends in the middle of a directive, because
\* the pointer then steps over the end of the string.
RECURSIVE format(_, _, _)
format(h, fstr, args) ==
  LET then(chars, rest, err) ==
        LET more == format(h, SubSeq(fstr, 3, Len(fstr)), rest)
        IN  [more EXCEPT !.chars = chars \o @, !.err = err \/ @]
  IN  CASE fstr = <<>> -> [chars |-> <<>>, err |-> FALSE, lost |-> FALSE]
        [] fstr = <<"~">> -> [chars |-> <<>>, err |-> TRUE, lost |-> TRUE]
        [] fstr # <<>> /\ fstr[1] # "~" ->
             LET more == format(h, Tail(fstr), args)
             IN  [more EXCEPT !.chars = <<fstr[1]>> \o @]
        [] Len(fstr) > 1 /\ fstr[1] = "~" ->
             CASE fstr[2] = "%" -> then(<<"\n">>, args, FALSE)
               [] fstr[2] = "~" -> then(<<"~">>, args, FALSE)
               [] fstr[2] = "S" -> then(print_object(h, Arg(args, 1)), Rest(args), FALSE)
               [] fstr[2] = "A" -> then(print_object_nice(h, Arg(args, 1)), Rest(args), FALSE)
               [] OTHER -> then(<<>>, args, TRUE)

-----------------------------------------------------------------------------
(* Reading a text into a tree, by the rules of read_list and next_expr *)

\* "quasi" stands for the backquote.
White == {" ", "\n"}
Special == {"(", ")", "\"", "'", ";", ",", "@", "quasi"}

\* The text from the first character on that is not in S.
From(chars, S) ==
  LET out == {i \in DOMAIN chars : chars[i] \notin S}
  IN  IF out = {} THEN <<>> ELSE SubSeq(chars, Min(out), Len(chars))

\* A special character is a word; other words end before one or a blank.
next_word(chars) ==
  LET text == From(chars, White)
      stops == {i \in DOMAIN text : text[i] \in White \union Special}
      n == IF stops = {} THEN Len(text) ELSE IF Min(stops) = 1 THEN 1 ELSE Min(stops) - 1
  IN  [word |-> SubSeq(text, 1, n), rest |-> SubSeq(text, n + 1, Len(text))]

\* An int with a point, or an exponent with or without one.
doublep(word) ==
  LET exps == {i \in DOMAIN word : i > 1 /\ word[i] = "e"}
      n == IF exps = {} THEN Len(word) ELSE Min(exps) - 1
  IN  /\ word[1] \in {"+", "-", "."} \/ digitp(word[1])
      /\ \A i \in 2 .. n : digitp(word[i]) \/ word[i] = "."
      /\ IF exps = {} THEN \E i \in DOMAIN word : word[i] = "."
         ELSE n + 1 < Len(word) /\ integerp(SubSeq(word, n + 2, Len(word)))

Power10(n) == IF n < 0 THEN <<1, 10 ^ (-n)>> ELSE <<10 ^ n, 1>>

\* Each digit behind the first point divides by ten, the exponent multiplies.
parse_double(word) ==
  LET points == {i \in DOMAIN word : word[i] = "."}
      exps == {i \in DOMAIN word : word[i] = "e"}
      n == IF exps = {} THEN Len(word) ELSE Min(exps) - 1
      digits == SelectSeq([i \in 1 .. n |-> i], LAMBDA i : digitp(word[i]))
      res == FoldLeft(LAMBDA m, i : 10 * m + DigitOf(word[i]), 0, digits)
      places == Cardinality({i \in ToSet(digits) : \E p \in points : p < i})
      exp == IF exps = {} THEN 0 ELSE parse_integer(SubSeq(word, n + 2, Len(word)))
  IN  Times(Frac(IF word[1] = "-" THEN -res ELSE res, 1), Power10(exp - places))

\* string_upcase; no other name of the model has a small letter.
Upcase(name) == IF name = "SYMBOl" THEN "SYMBOL" ELSE name

\* A symbol is interned, also NIL.
Atom(word) ==
  IF integerp(word) THEN [number |-> <<parse_integer(word), 1>>]
  ELSE IF doublep(word) THEN [number |-> parse_double(word)]
  ELSE Symbol(IF Len(word) = 1 THEN Upcase(word[1]) ELSE word)

\* What a character behind a backslash stands for.
Escaped(c) == IF c = "n" THEN "\n" ELSE c

\* read_string up to the quotation mark.  A line that ends before it is an error; what
\* comes back is a string whose end has not been written.  A backslash at its end
\* goes on with the next line.
RECURSIVE read_string(_, _)
read_string(chars, str) ==
  CASE Head(chars) = "\"" -> [tree |-> [str |-> str], rest |-> Tail(chars)]
    [] Head(chars) = "\n" -> [tree |-> Lost, rest |-> Tail(chars)]
    [] Head(chars) = "\\" ->
         read_string(SubSeq(chars, 3, Len(chars)), Append(str, Escaped(chars[2])))
    [] OTHER -> read_string(Tail(chars), Append(str, Head(chars)))

RECURSIVE read_list(_)
next_expr(chars) ==
  LET w == next_word(chars)
  IN  CASE w.word = <<"(">> -> read_list(w.rest)
        [] w.word = <<"\"">> -> read_string(w.rest, <<>>)
        [] OTHER -> [tree |-> Atom(w.word), rest |-> w.rest]

read_list(chars) ==
  LET w == next_word(chars)
  IN  CASE w.word = <<")">> -> [tree |-> Nil, rest |-> w.rest]
        [] w.word = <<".">> ->
             LET end == next_expr(w.rest) IN [end EXCEPT !.rest = next_word(@).rest]
        [] OTHER ->
             LET first == next_expr(chars)
                 more == read_list(first.rest)
             IN  [more EXCEPT !.tree = [car |-> first.tree, cdr |-> @]]

-----------------------------------------------------------------------------
(* eval_quasiquote *)

IsForm(h, v, name) == IsCell(v) /\ h[v.id].car = Symbol(name)

\* eval of a variable or a constant.
EvalAtom(env, v) == IF v.t = "symbol" THEN env[v.name] ELSE v

\* mutant: the list itself becomes part of the result
SpliceShares(b, v) == ToEnd(Put(b, IF IsList(v) THEN v ELSE Nil))

\* mutant: the list becomes one element of the result
SpliceNests(b, v) == Grow(b, v)

\* A copy of the list v is put at the end; splicing an atom is an error.
Splice(b, v) ==
  LET copy == copy_list(b.heap, v)
  IN  ToEnd(Put([b EXCEPT !.heap = copy.heap, !.err = @ \/ copy.err], copy.val))

\* One element after the other is built onto the list; splicing a dotted list leads
\* the pointer out of the list.
RECURSIVE eval_quasiquote(_, _, _), QuasiOnto(_, _, _)
QuasiOnto(b, c, env) ==
  IF c = Nil THEN Built(b)
  ELSE IF ~IsCell(c) THEN Built(Put(b, c))
  ELSE LET car == b.heap[c.id].car
           cdr == b.heap[c.id].cdr
           value == EvalAtom(env, cell_cadr(b.heap, car))
       IN  IF IsForm(b.heap, car, "UNQUOTE") THEN QuasiOnto(Grow(b, value), cdr, env)
           ELSE IF IsForm(b.heap, car, "UNQUOTE-SPLICING")
           THEN LET spliced == Splice(b, value)
                IN  IF Place(spliced) # Nil THEN Outcome(b.heap, Lost, b.err)
                    ELSE QuasiOnto(spliced, cdr, env)
           ELSE IF IsCell(car)
           THEN LET sub == eval_quasiquote(b.heap, car, env)
                IN  IF sub.val = Lost THEN sub
                    ELSE QuasiOnto(Grow([b EXCEPT !.heap = sub.heap,
                                                  !.err = @ \/ sub.err], sub.val), cdr, env)
           ELSE QuasiOnto(Grow(b, car), cdr, env)

eval_quasiquote(h, expr, env) ==
  IF ~IsCell(expr) THEN Outcome(h, expr, FALSE)
  ELSE IF IsForm(h, expr, "UNQUOTE")
    THEN Outcome(h, EvalAtom(env, cell_cadr(h, expr)), FALSE)
  ELSE IF IsForm(h, expr, "UNQUOTE-SPLICING") THEN Outcome(h, Nil, TRUE)
  ELSE QuasiOnto(Building(h), expr, env)

-----------------------------------------------------------------------------
(* macroexpand without macros *)

\* An element after the other is expanded.  The template of a quasiquote is taken
\* for a proper list: a dotted end is dereferenced.
RECURSIVE macroexpand(_, _), ExpandOnto(_, _, _)
ExpandOnto(b, c, template) ==
  IF c = Nil THEN Built(b)
  ELSE IF ~IsCell(c) THEN
    IF template THEN Outcome(b.heap, Lost, TRUE) ELSE Built(Put(b, c))
  ELSE LET sub == macroexpand(b.heap, b.heap[c.id].car)
       IN  IF sub.val = Lost THEN sub
           ELSE ExpandOnto(Grow([b EXCEPT !.heap = sub.heap], sub.val),
                           b.heap[c.id].cdr, template)

macroexpand(h, expr) ==
  LET template == cell_cadr(h, expr)
      inner == IF IsCell(template) THEN ExpandOnto(Building(h), template, TRUE)
               ELSE Outcome(h, template, FALSE)
  IN  IF ~IsCell(expr) \/ IsForm(h, expr, "QUOTE") THEN Outcome(h, expr, FALSE)
      ELSE IF ~IsForm(h, expr, "QUASIQUOTE") THEN ExpandOnto(Building(h), expr, FALSE)
      ELSE IF inner.val = Lost THEN inner
      ELSE list(inner.heap, <<Symbol("QUASIQUOTE"), inner.val>>)

=============================================================================
