----------------------------- MODULE Procedures -----------------------------
(***************************************************************************)
(* A program that calls the built-in procedures of procs.c on what it has  *)
(* got so far: x holds the result of the last call, y and the expression   *)
(* text what the program has begun with.  All of them may share cells, and *)
(* set-car! and set-cdr! may make a list contain itself.  An argument is x *)
(* or y or an atom; a quasiquote is evaluated, or macroexpanded, where x   *)
(* and y are the values of the variables X and Y.                          *)
(*                                                                         *)
(* It may also define structures, and make and change instances of them.   *)
(*                                                                         *)
(* apply is called with a procedure; Evaluator has closures.  LOAD is in   *)
(* Reader, GENSYM in SymbolTable, the hash tables in HashTable; TOPLEVEL   *)
(* and HEAP print what is in other modules.                                *)
(***************************************************************************)
EXTENDS Library

CONSTANTS
  Starts,   \* where programs begin: a heap, x, y, text and definitions
  SlotLists,  \* the slots of structures to be defined
  Atoms,    \* constants of the program
  Doubles,  \* what the functions of fdlibm may return
  MaxCalls  \* bound on the calls of a program

VARIABLES
  heap, x, y, text,
  definitions,  \* *struct-definitions*
  target,   \* history: the object and the part of it the last call was asked to set
  err,      \* that call has recorded an error
  lost,     \* the program has crashed, or runs for ever
  output,   \* the characters that call has printed
  calls     \* number of calls

vars == <<heap, x, y, text, definitions, target, err, lost, output, calls>>

NoTarget == [id |-> 0, part |-> <<>>]

Init ==
  /\ \E s \in Starts :
       heap = s.heap /\ x = s.x /\ y = s.y /\ text = s.text /\ definitions = s.definitions
  /\ target = NoTarget
  /\ err = FALSE /\ lost = FALSE
  /\ output = <<>> /\ calls = 0

-----------------------------------------------------------------------------
(* Procedures that look at one object and are not in the other modules *)

\* cell_car records an error only inside; NIL has no car here.
proc_car(h, v) == Outcome(h, cell_car(h, v), ~IsCell(v))
proc_cdr(h, v) == Outcome(h, cell_cdr(h, v), ~IsCell(v))

\* No error if v is no cell.
proc_set_car(h, v, val) ==
  Outcome(IF IsCell(v) THEN [h EXCEPT ![v.id].car = val] ELSE h, Nil, FALSE)

proc_set_cdr(h, v, val) ==
  Outcome(IF IsCell(v) THEN [h EXCEPT ![v.id].cdr = val] ELSE h, Nil, FALSE)

\* The name of a type; that of symbols ends with a small letter (types.h:38).
TypeName(v) ==
  CASE v.t = "cell" -> "CONS"
    [] v.t = "symbol" -> "SYMBOl"
    [] v.t = "null" -> "NULL"
    [] v.t = "int" -> "INT"
    [] v.t = "double" -> "DOUBLE"
    [] v.t = "string" -> "STRING"
    [] v.t = "array" -> "ARRAY"

\* The function has no return statement; the register holds what it has computed.
proc_typeof(h, v) == Outcome(h, Symbol(TypeName(v)), FALSE)

\* Message and location are read as strings, whatever they are.
proc_error(h, message, location) ==
  IF message.t = "string" /\ location.t = "string" THEN Outcome(h, Nil, TRUE)
  ELSE Outcome(h, Lost, TRUE)

\* The functions of fdlibm are external: any double may come of them.  COS stands for
\* all that are called by math_helper, with 0.0 if the argument is no number; Fdlibm
\* has FLOOR, CEILING, ABS and SQRT.
External == {"COS", "ATAN", "BESSEL-J", "BESSEL-Y"}

\* A second argument makes ATAN atan2.
ArcTangentError(args) ==
  ~IsNumber(Arg(args, 1)) \/ (Arg(args, 2) # Nil /\ ~IsNumber(Arg(args, 2)))

\* The order of a Bessel function comes second, and is an integer.
BesselError(args) == ~IsNumber(Arg(args, 1)) \/ Arg(args, 2).t # "int"

ExternalError(proc, args) ==
  CASE proc = "ATAN" -> ArcTangentError(args)
    [] proc \in {"BESSEL-J", "BESSEL-Y"} -> BesselError(args)
    [] OTHER -> ~IsNumber(Arg(args, 1))

-----------------------------------------------------------------------------
(* Calls *)

Unary == {"CAR", "CDR", "REVERSE", "LENGTH", "COPY-LIST", "MAKE-ARRAY", "TYPE-OF",
          "MACROEXPAND"}
Binary == {"CONS", "SET-CAR!", "SET-CDR!", "AREF", "ASSOC", "ERROR"}
Comparing == {"EQ?", "EQL?", "EQUAL?", "<", ">", "<=", ">=", "="}
Variadic == {"+", "-", "*", "/", "LIST", "APPEND"} \union Comparing

\* apply_proc
Perform(h, proc, args) ==
  LET a == Arg(args, 1)  b == Arg(args, 2)  c == Arg(args, 3)
  IN  CASE proc = "CAR" -> proc_car(h, a)
        [] proc = "CDR" -> proc_cdr(h, a)
        [] proc = "SET-CAR!" -> proc_set_car(h, a, b)
        [] proc = "SET-CDR!" -> proc_set_cdr(h, a, b)
        [] proc = "CONS" -> cons(h, a, b)
        [] proc = "LIST" -> list(h, args)
        [] proc = "REVERSE" -> reverse(h, a)
        [] proc = "LENGTH" -> proc_length(h, a)
        [] proc = "+" -> proc_add(h, args)
        [] proc = "-" -> proc_sub(h, args)
        [] proc = "*" -> proc_mul(h, args)
        [] proc = "/" -> proc_div(h, args)
        [] proc = "MAKE-ARRAY" -> proc_make_array(h, a)
        [] proc = "AREF" -> proc_aref(h, a, b)
        [] proc = "SET-AREF!" -> proc_set_aref(h, a, b, c)
        [] proc = "EQ?" -> proc_eq(h, args)
        [] proc = "EQL?" -> proc_eql(h, args)
        [] proc = "EQUAL?" -> proc_equal(h, args)
        [] proc = ">" -> proc_gt(h, args)
        [] proc = "<" -> proc_lt(h, args)
        [] proc = ">=" -> proc_gte(h, args)
        [] proc = "<=" -> proc_lte(h, args)
        [] proc = "=" -> proc_e(h, args)
        [] proc = "MACROEXPAND" ->
             IF Finite(h, a) THEN macroexpand(h, a) ELSE Outcome(h, Lost, FALSE)
        [] proc = "TYPE-OF" -> proc_typeof(h, a)
        [] proc = "APPEND" -> append(h, args)
        [] proc = "COPY-LIST" -> copy_list(h, a)
        [] proc = "ERROR" -> proc_error(h, a, b)
        [] proc = "ASSOC" -> proc_assoc(h, a, b)

Args == {x, y} \union Atoms

\* What set-car!, set-cdr! and set-aref! are asked to set.
Target(proc, args) ==
  CASE proc = "SET-CAR!" /\ IsCell(args[1]) -> [id |-> args[1].id, part |-> <<"car">>]
    [] proc = "SET-CDR!" /\ IsCell(args[1]) -> [id |-> args[1].id, part |-> <<"cdr">>]
    [] proc = "SET-AREF!" /\ args[1].t = "array" /\ args[2].t = "int" ->
         [id |-> args[1].id, part |-> <<"data", args[2].i>>]
    [] OTHER -> NoTarget

\* The program goes on with what the call returns, unless it is lost.
Goes(o, chars) ==
  /\ ~lost /\ calls < MaxCalls
  /\ calls' = calls + 1
  /\ heap' = o.heap
  /\ err' = o.err
  /\ lost' = (o.val = Lost)
  /\ x' = IF lost' THEN x ELSE o.val
  /\ output' = chars
  /\ UNCHANGED <<y, text>>

Returns(o, chars) == Goes(o, chars) /\ UNCHANGED definitions

Apply(proc, args) ==
  Returns(Perform(heap, proc, args), <<>>) /\ target' = Target(proc, args)

CallUnary == \E p \in Unary, a \in Args : Apply(p, <<a>>)
CallBinary == \E p \in Binary, a, b \in Args : Apply(p, <<a, b>>)
CallSetAref == \E a, i, v \in Args : Apply("SET-AREF!", <<a, i, v>>)
CallVariadic ==
  \E p \in Variadic : \/ \E a \in Args : Apply(p, <<a>>)
                      \/ \E a, b \in Args : Apply(p, <<a, b>>)

CallExternal ==
  \E p \in External, a, b \in Args, d \in Doubles :
    /\ Returns([Alloc(heap, "double", [d |-> d]) EXCEPT !.err = ExternalError(p, <<a, b>>)],
               <<>>)
    /\ target' = NoTarget

\* The lists among the arguments are appended, and what comes out is the arguments.
proc_apply ==
  \E p \in {"LIST", "-"}, a, b \in Args :
    LET joined == append(heap, <<a, b>>)
        o == Perform(joined.heap, p, Elements(joined.heap, joined.val))
    IN  /\ Returns(IF joined.val = Lost THEN joined
                   ELSE [o EXCEPT !.err = @ \/ joined.err], <<>>)
        /\ target' = NoTarget

\* What a procedure that prints v returns: it does not come back from a value that
\* contains itself.
Printed(v) == Outcome(heap, IF Finite(heap, v) THEN Nil ELSE Lost, FALSE)

proc_print ==
  \E v \in {x, y} :
    /\ Returns(Printed(v), IF Finite(heap, v) THEN print_object(heap, v) \o <<"\n">>
                           ELSE <<>>)
    /\ target' = NoTarget

proc_princ ==
  \E v \in {x, y} :
    /\ Returns(Printed(v), IF Finite(heap, v) THEN print_object_nice(heap, v) ELSE <<>>)
    /\ target' = NoTarget

\* Nothing is returned: after printing the register of the result happens to be 0,
\* after the error of a format string that is none it holds the address of the error.
proc_format ==
  \E f, v \in {x, y} :
    LET text_ == format(heap, heap[f.id].str, <<v>>)
    IN  /\ IF f.t # "string" \/ ~Finite(heap, v)
           THEN Returns(Outcome(heap, Lost, f.t # "string"), <<>>)
           ELSE Returns(Outcome(heap, IF text_.lost THEN Lost ELSE Nil, text_.err),
                        text_.chars)
        /\ target' = NoTarget

StructType == Symbol("P")
Slots == UNION {ToSet(slots) : slots \in SlotLists}

\* (defstruct P . slots), which may come again.
Defstruct ==
  \E slots \in SlotLists :
    LET o == defstruct(heap, definitions, StructType, slots)
    IN  /\ Goes([o EXCEPT !.val = StructType], <<>>)
        /\ definitions' = o.val
        /\ target' = NoTarget

MakeInstance ==
  /\ Returns(make_instance(heap, definitions, StructType), <<>>)
  /\ target' = NoTarget

StructSlot ==
  \E v \in {x, y}, slot \in Slots :
    /\ Returns(struct_slot(heap, definitions, v, slot), <<>>)
    /\ target' = NoTarget

SetStructSlot ==
  \E v \in {x, y}, slot \in Slots, val \in {Nil, y} :
    LET place == SlotOf(heap, definitions, v, slot)
    IN  /\ Returns(set_struct_slot(heap, definitions, v, slot, val), <<>>)
        /\ target' = IF place.known THEN Target("SET-AREF!", <<place.array, place.index, val>>)
                     ELSE NoTarget

Env == [X |-> x, Y |-> y]

\* (quasiquote text), and the macroexpansion of the same form that comes first.  A
\* template that contains itself is copied for ever.
Quasiquote ==
  /\ Returns(IF Finite(heap, text) THEN eval_quasiquote(heap, text, Env)
             ELSE Outcome(heap, Lost, FALSE), <<>>)
  /\ target' = NoTarget

Macroexpand == Apply("MACROEXPAND", <<text>>)

Next ==
  \/ CallUnary \/ CallBinary \/ CallSetAref \/ CallVariadic \/ CallExternal
  \/ proc_apply \/ proc_print \/ proc_princ \/ proc_format
  \/ Quasiquote \/ Macroexpand
  \/ Defstruct \/ MakeInstance \/ StructSlot \/ SetStructSlot

Spec == Init /\ [][Next]_vars

-----------------------------------------------------------------------------
(* Properties *)

\* The parts in which two objects differ; an array counts from 0.
Changed(before, after) ==
  CASE "car" \in DOMAIN before -> {<<f>> : f \in {g \in {"car", "cdr"} : before[g] # after[g]}}
    [] "data" \in DOMAIN before ->
         {<<"data", i - 1>> : i \in {j \in DOMAIN before.data : before.data[j] # after.data[j]}}
    [] OTHER -> IF before = after THEN {} ELSE {<<"contents">>}

\* The lists a program holds change only where it asks for it.  The procedures that
\* build lists do so by writing to the ends of unfinished ones, which must never be
\* the ends of their arguments: append and the splicing of a quasiquote, said to be
\* non-destructive (eval.c:406), copy them first.  The setters reach one part of one
\* object, and none at an index out of bounds.
OnlySettersWrite ==
  [][\A id \in DOMAIN heap :
       \A part \in Changed(heap[id], heap'[id]) : target' = [id |-> id, part |-> part]]_vars

\* What the procedures that build a list promise of it, if they return without error.
Made(o, elements, end) ==
  ~o.err /\ o.val # Lost =>
    /\ Elements(o.heap, o.val) = elements
    /\ EndOf(o.heap, o.val) = end
    /\ \A c \in ToSet(Cells(o.heap, o.val)) : c > Len(heap)

AsList(v) == IF IsList(v) THEN Elements(heap, v) ELSE <<v>>

\* LIST, REVERSE, COPY-LIST and APPEND return the elements their names promise, in
\* order, in cells none of which is a cell of an argument; so the program may change
\* the one and keep the other.  Holds whatever x and y share, and if they contain
\* themselves no result is claimed (the procedures do not return).
ListsAreNew ==
  /\ Made(list(heap, <<x, y>>), <<x, y>>, Nil)
  /\ Made(reverse(heap, x), Reverse(Elements(heap, x)), Nil)
  /\ Made(copy_list(heap, x), Elements(heap, x), EndOf(heap, x))
  /\ Made(append(heap, <<x, y>>), AsList(x) \o AsList(y), Nil)

\* LENGTH always returns, -1 for a list that contains itself as its tail, and only
\* for those.  The length of others counts in twos (lists.c:62-76), the atom at the
\* end of a dotted list included, and so is exact or one more.
LengthTellsCycles ==
  \A v \in {u \in {x, y} : IsList(u)} :
    LET n == list_length(heap, v)
        exact == Len(Cells(heap, v)) + (IF Proper(heap, v) THEN 0 ELSE 1)
    IN  IF Cyclic(heap, v) THEN n = -1 ELSE n \in {exact, exact + 1}

Comparable(v) == Finite(heap, v) /\ \A u \in Inside(heap, v) : u.t # "string"
IsNaN(v) == v.t = "double" /\ heap[v.id].d = NaN
HoldsNaN(v) == \E u \in Inside(heap, v) : IsNaN(u)

\* Each of EQ?, EQL? and EQUAL? holds of no less than the one before, and EQUAL?
\* exactly of values that look the same, unfolded, and numbers of the same value,
\* however their cells are shared.  A double that is not a number is equal to nothing
\* and only EQ? to itself (flisp.c:53, 103), so that a list which holds one is EQL?
\* but not EQUAL? to itself.  Strings are left out: of those EQUAL? says the opposite
\* (flisp.c:80).
EqualIsSameTree ==
  Comparable(x) /\ Comparable(y) =>
    /\ eq(x, y) => eql(heap, x, y) \/ IsNaN(x)
    /\ eql(heap, x, y) => equal(heap, x, y) \/ HoldsNaN(x)
    /\ equal(heap, x, y) <=> Tree(heap, x) = Tree(heap, y) /\ ~HoldsNaN(x)

\* The names of the slots are looked up in the definition there is now, whatever the
\* instance was made from.  A slot that is set reads back, and no other slot of any
\* instance the program holds changes with it, unless it is in the same array; what
\* fails changes nothing.  A new instance has room for every slot that is defined.
SlotsReadBack ==
  LET Read(h, v, slot) == struct_slot(h, definitions, v, slot)
      fresh == make_instance(heap, definitions, StructType)
      slots == Elements(heap, cell_cdr(heap, assoc(heap, StructType, definitions).val))
  IN  definitions # Nil =>
        /\ \A v, w \in {x, y}, a, b \in Slots :
             LET o == set_struct_slot(heap, definitions, v, a, Symbol("C"))
                 same == a = b /\ caddr(heap, v).val = caddr(heap, w).val
             IN  CASE o.err -> o.heap = heap
                   [] ~o.err /\ same -> Read(o.heap, w, b) = Outcome(o.heap, Symbol("C"), FALSE)
                   [] ~o.err /\ ~same ->
                        Read(o.heap, w, b) = [Read(heap, w, b) EXCEPT !.heap = o.heap]
        /\ \A slot \in ToSet(slots) :
             ~set_struct_slot(fresh.heap, definitions, fresh.val, slot, Nil).err

Readable(v) ==
  LET inside == Inside(heap, v)
      doubles == {heap[u.id].d : u \in {w \in inside : w.t = "double"}}
      strings == {heap[u.id].str : u \in {w \in inside : w.t = "string"}}
  IN  /\ Finite(heap, v)
      /\ \A u \in inside : u.t # "array"
      /\ inside \intersect {Integer(MinInt), Symbol("SYMBOl")} = {}
      /\ \A d \in doubles : d # NaN /\ Abs(d[1]) \div d[2] < -MinInt
      /\ \A s \in strings : ToSet(s) \intersect {"\"", "\\", "\n"} = {}

\* A string with a newline in it, and nothing else that is printed as it is.
Broken(v) ==
  v.t = "string" /\ ToSet(heap[v.id].str) \intersect {"\"", "\\", "\n"} = {"\n"}

\* A double without what follows its fifth decimal place.
Cut(d) == Frac(Sign(d[1]) * ((Abs(d[1]) * 10 ^ 5) \div d[2]), 10 ^ 5)

RECURSIVE Expected(_)
Expected(v) ==
  CASE v.t = "null" -> Symbol("NIL")
    [] v.t = "double" -> [number |-> Cut(heap[v.id].d)]
    [] v.t = "cell" ->
         [car |-> Expected(heap[v.id].car),
          cdr |-> IF heap[v.id].cdr = Nil THEN Nil ELSE Expected(heap[v.id].cdr)]
    [] OTHER -> Tree(heap, v)

\* What PRINT prints of lists, symbols, numbers and strings the reader reads as the
\* same expression: ~S of the format is "print readable object" (flisp.c:319).  Doubles
\* lose what follows the fifth place, and NIL becomes the symbol whose value is NIL.
\* Left out are what is printed otherwise than it is read: arrays; the least integer,
\* printed by a negation that overflows (sys.c:134); doubles whose whole part is no
\* int, or that are no number (sys.c:178); the type of symbols, whose last letter is
\* small (types.h:38); and strings with quotation marks, backslashes or newlines in
\* them, which are not escaped (flisp.c:219).  A string broken by a newline is at
\* least not taken for another one: reading it is an error (reader.c:410-415).
PrintedReadsBack ==
  /\ \A v \in {u \in {x, y} : Readable(u)} :
       next_expr(print_object(heap, v)) = [tree |-> Expected(v), rest |-> <<>>]
  /\ \A v \in {u \in {x, y} : Broken(u)} : next_expr(print_object(heap, v)).tree = Lost

\* A template with its unquoted variables replaced, by the rules above
\* eval_quasiquote (eval.c:374-380), and the values to be spliced put in the list.
RECURSIVE Filled(_), FilledRest(_)
FilledRest(v) ==
  IF ~IsCell(v) THEN Tree(heap, v)
  ELSE LET car == heap[v.id].car
           rest == FilledRest(heap[v.id].cdr)
           value == EvalAtom(Env, cell_cadr(heap, car))
       IN  IF IsForm(heap, car, "UNQUOTE-SPLICING")
           THEN FoldRight(LAMBDA u, l : [car |-> Tree(heap, u), cdr |-> l],
                          Elements(heap, value), rest)
           ELSE [car |-> Filled(car), cdr |-> rest]

Filled(v) ==
  IF IsForm(heap, v, "UNQUOTE") THEN Tree(heap, EvalAtom(Env, cell_cadr(heap, v)))
  ELSE FilledRest(v)

\* A quasiquote has as its value the template filled in, without a trace of where
\* one list was spliced into the other, whenever it has a value.
TemplateFilled ==
  Finite(heap, x) /\ Finite(heap, y) /\ Finite(heap, text) =>
    LET o == eval_quasiquote(heap, text, Env)
    IN  o.val # Lost /\ ~o.err => Tree(o.heap, o.val) = Filled(text)

=============================================================================
