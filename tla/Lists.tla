------------------------------- MODULE Lists -------------------------------
(***************************************************************************)
(* The data of the language and the C functions under the built-in         *)
(* procedures: lists.c, the three equalities and the printer of flisp.c,   *)
(* and the quasiquote and copying half of macroexpand in eval.c.           *)
(*                                                                         *)
(* A heap is a sequence of objects; a value is an immediate or a reference *)
(* to one of them.  Integers and symbols are immediate, because everything *)
(* the code does with them depends on what they are and not on where; two  *)
(* doubles or strings with the same contents are different objects.  A     *)
(* function that allocates returns the heap with its value, and Lost if    *)
(* the C function dereferences what is no cell, never returns or returns   *)
(* what is no value.  The heap does not run out here, and objects that     *)
(* nobody can refer to any more are left out where the code drops them at  *)
(* once.                                                                   *)
(***************************************************************************)
EXTENDS Integers, Sequences, SequencesExt, FiniteSets

Nil == [t |-> "null"]
Integer(i) == [t |-> "int", i |-> i]
Symbol(name) == [t |-> "symbol", name |-> name]
Ref(t, id) == [t |-> t, id |-> id]
Lost == [t |-> "lost"]

Cell(car, cdr) == [car |-> car, cdr |-> cdr]
IsCell(v) == v.t = "cell"
IsList(v) == v.t \in {"cell", "null"}

\* What h and v become, and whether an error has been recorded.
Outcome(h, v, err) == [heap |-> h, val |-> v, err |-> err]

Alloc(h, t, object) == Outcome(Append(h, object), Ref(t, Len(h) + 1), FALSE)

cons(h, car, cdr) == Alloc(h, "cell", Cell(car, cdr))

\* cell_car and cell_cdr; on what is no list they record an error.
cell_car(h, v) == IF IsCell(v) THEN h[v.id].car ELSE Nil
cell_cdr(h, v) == IF IsCell(v) THEN h[v.id].cdr ELSE Nil
cell_cadr(h, v) == cell_car(h, cell_cdr(h, v))
cell_cddr(h, v) == cell_cdr(h, cell_cdr(h, v))

-----------------------------------------------------------------------------
(* What a value looks like, to say what is expected of the code *)

\* The cells one comes to by cdr, each once.
RECURSIVE Spine(_, _, _)
Spine(h, v, seen) ==
  IF IsCell(v) /\ v.id \notin seen
  THEN <<v.id>> \o Spine(h, h[v.id].cdr, seen \union {v.id})
  ELSE <<>>

Cells(h, v) == Spine(h, v, {})
Elements(h, v) == [i \in DOMAIN Cells(h, v) |-> h[Cells(h, v)[i]].car]
EndOf(h, v) == IF IsCell(v) THEN h[Last(Cells(h, v))].cdr ELSE v
Cyclic(h, v) == IsCell(EndOf(h, v))
Proper(h, v) == EndOf(h, v) = Nil

Parts(object) ==
  IF "car" \in DOMAIN object THEN {object.car, object.cdr}
  ELSE IF "data" \in DOMAIN object THEN ToSet(object.data)
  ELSE {}

\* All values inside v, and v.
RECURSIVE InsideOf(_, _, _)
InsideOf(h, new, seen) ==
  IF new = {} THEN seen
  ELSE LET more == UNION {Parts(h[v.id]) : v \in {u \in new : "id" \in DOMAIN u}}
       IN  InsideOf(h, more \ (seen \union new), seen \union new)

Inside(h, v) == InsideOf(h, {v}, {})

\* A value that contains itself cannot be unfolded.
Finite(h, v) ==
  \A u \in Inside(h, v) :
    "id" \in DOMAIN u => u \notin InsideOf(h, Parts(h[u.id]), {})

\* v unfolded: without sharing, without places, and numbers by their value.
RECURSIVE Tree(_, _)
Tree(h, v) ==
  CASE v.t = "cell" -> [car |-> Tree(h, h[v.id].car), cdr |-> Tree(h, h[v.id].cdr)]
    [] v.t = "array" -> [data |-> [i \in DOMAIN h[v.id].data |-> Tree(h, h[v.id].data[i])]]
    [] v.t = "double" -> [number |-> h[v.id].d]
    [] v.t = "int" -> [number |-> <<v.i, 1>>]
    [] v.t = "string" -> [str |-> h[v.id].str]
    [] OTHER -> v

-----------------------------------------------------------------------------
(* Building lists at the end: ret and builder *)

\* builder points to the cdr of the cell last, or to ret if last is 0.
Building(h) == [heap |-> h, ret |-> Nil, last |-> 0, err |-> FALSE]
Built(b) == Outcome(b.heap, b.ret, b.err)

Place(b) == IF b.last = 0 THEN b.ret ELSE b.heap[b.last].cdr

Put(b, v) ==
  IF b.last = 0 THEN [b EXCEPT !.ret = v] ELSE [b EXCEPT !.heap[b.last].cdr = v]

Onward(b) == [b EXCEPT !.last = Place(b).id]

\* *builder = cons(v, NULL); builder = &(*builder)->cdr
Grow(b, v) ==
  LET c == cons(b.heap, v, Nil)
  IN  Onward(Put([b EXCEPT !.heap = c.heap], c.val))

\* The end of what builder points to; only append looks where it goes.
RECURSIVE ToEnd(_)
ToEnd(b) == IF IsCell(Place(b)) THEN ToEnd(Onward(b)) ELSE b

RECURSIVE CopyOnto(_, _)
CopyOnto(b, l) ==
  IF l = Nil THEN b
  ELSE IF ~IsCell(l) THEN Put(b, l)
  ELSE CopyOnto(Grow(b, b.heap[l.id].car), b.heap[l.id].cdr)

\* mutant: a list is its own copy
copy_listSame(h, l) == Outcome(h, l, ~IsList(l))

copy_list(h, l) ==
  IF ~IsList(l) THEN Outcome(h, Nil, TRUE)
  ELSE IF Cyclic(h, l) THEN Outcome(h, Lost, FALSE)
  ELSE Built(CopyOnto(Building(h), l))

\* Lists are copied, other things become lists of one element.
RECURSIVE AppendOnto(_, _)
AppendOnto(b, lists) ==
  IF lists = <<>> THEN Built(b)
  ELSE LET l == Head(lists)
           copy == copy_list(b.heap, l)
           onto == ToEnd(Put([b EXCEPT !.heap = copy.heap], copy.val))
       IN  IF ~IsList(l) THEN AppendOnto(Grow(b, l), Tail(lists))
           ELSE IF copy.val = Lost THEN copy
           ELSE IF Place(onto) # Nil THEN Outcome(b.heap, Nil, TRUE)
           ELSE AppendOnto(onto, Tail(lists))

append(h, lists) == AppendOnto(Building(h), lists)

\* proc_list; c is where the next cell goes.
list(h, elements) == Built(FoldLeft(Grow, Building(h), elements))

\* proc_reverse reads the car and cdr of whatever it is given.
RECURSIVE ReverseOnto(_, _, _)
ReverseOnto(h, l, ret) ==
  IF l = Nil THEN Outcome(h, ret, FALSE)
  ELSE IF ~IsCell(l) THEN Outcome(h, Lost, FALSE)
  ELSE LET c == cons(h, h[l.id].car, ret) IN ReverseOnto(c.heap, h[l.id].cdr, c.val)

reverse(h, l) ==
  IF Cyclic(h, l) THEN Outcome(h, Lost, FALSE) ELSE ReverseOnto(h, l, Nil)

\* mutant: both pointers take one step at a time
RECURSIVE RaceTogether(_, _, _, _)
RaceTogether(h, fast, slow, i) ==
  IF fast = Nil THEN i
  ELSE IF slow = Nil THEN i + 1
  ELSE IF i > 0 /\ fast = slow THEN -1
  ELSE RaceTogether(h, cell_cdr(h, fast), cell_cdr(h, slow), i + 2)

\* list_length: one pointer takes two steps for each of the other.
RECURSIVE Race(_, _, _, _)
Race(h, fast, slow, i) ==
  IF fast = Nil THEN i
  ELSE IF slow = Nil THEN i + 1
  ELSE IF i > 0 /\ fast = slow THEN -1
  ELSE Race(h, cell_cddr(h, fast), cell_cdr(h, slow), i + 2)

list_length(h, l) == Race(h, l, l, 0)

-----------------------------------------------------------------------------
(* Equality *)

eq(v, w) == v = w

\* Not a number: the fraction 0/0, which == says is equal to nothing.
NaN == <<0, 0>>
SameNumber(p, q) == p = q /\ p # NaN

eql(h, v, w) ==
  IF v.t = "double" /\ w.t = "double" THEN SameNumber(h[v.id].d, h[w.id].d) ELSE eq(v, w)

IsNumber(v) == v.t \in {"int", "double"}

\* The value of a number, a fraction; rounding is not modelled.
NumberOf(h, v) == IF v.t = "int" THEN <<v.i, 1>> ELSE h[v.id].d

number_equal(h, v, w) == SameNumber(NumberOf(h, v), NumberOf(h, w))

\* mutant: lists are compared by their elements, whatever they end with
RECURSIVE equalCars(_, _, _)
equalCars(h, v, w) ==
  CASE IsNumber(v) /\ IsNumber(w) -> number_equal(h, v, w)
    [] v.t = "cell" /\ w.t = "cell" ->
         /\ equalCars(h, h[v.id].car, h[w.id].car)
         /\ IsCell(h[v.id].cdr) /\ IsCell(h[w.id].cdr)
              => equalCars(h, h[v.id].cdr, h[w.id].cdr)
    [] OTHER -> eq(v, w)

\* strcmp says 0 of two strings that are the same.
RECURSIVE equal(_, _, _)
equal(h, v, w) ==
  CASE IsNumber(v) /\ IsNumber(w) -> number_equal(h, v, w)
    [] v.t = "string" /\ w.t = "string" -> h[v.id].str # h[w.id].str
    [] v.t = "array" /\ w.t = "array" ->
         LET a == h[v.id].data  b == h[w.id].data
         IN  Len(a) = Len(b) /\ \A i \in DOMAIN a : equal(h, a[i], b[i])
    [] v.t = "cell" /\ w.t = "cell" ->
         /\ equal(h, h[v.id].car, h[w.id].car)
         /\ equal(h, h[v.id].cdr, h[w.id].cdr)
    [] OTHER -> eq(v, w)

\* The entry of key: the search ends at NIL and dereferences any other atom.
assoc(h, key, alist) ==
  LET entries == Elements(h, alist)
      stops == {i \in DOMAIN entries :
                  IsCell(entries[i]) => eql(h, key, h[entries[i].id].car)}
      first == CHOOSE i \in stops : \A j \in stops : i <= j
  IN  IF stops = {} THEN
        IF Cyclic(h, alist) THEN Outcome(h, Lost, FALSE)
        ELSE Outcome(h, Nil, ~Proper(h, alist))
      ELSE IF entries[first].t \notin {"cell", "null"} THEN Outcome(h, Lost, FALSE)
      ELSE Outcome(h, entries[first], FALSE)

=============================================================================
