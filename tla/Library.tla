------------------------------ MODULE Library ------------------------------
(***************************************************************************)
(* Arrays, length and assoc of procs.c, and the structures which the core  *)
(* library, lisp/structs.lisp, makes of them: an instance is the list      *)
(* (STRUCT name array), and *struct-definitions* the list of (name . slots)*)
(* in which the position of a slot is looked up at every access.           *)
(*                                                                         *)
(* An error is recorded and the function that found it returns NIL; its    *)
(* caller goes on with that.                                               *)
(***************************************************************************)
EXTENDS Forms

\* A negative size is larger than the heap; gc_new_array then writes through NULL.
proc_make_array(h, size) ==
  IF size.t # "int" THEN Outcome(h, Nil, TRUE)
  ELSE IF Unsigned(size.i) > -(MinInt + 1) THEN Outcome(h, Lost, FALSE)
  ELSE Alloc(h, "array", [data |-> [i \in 1 .. size.i |-> Nil]])

Inbounds(h, a, i) == a.t = "array" /\ i.t = "int" /\ Unsigned(i.i) < Len(h[a.id].data)

proc_aref(h, a, i) ==
  IF Inbounds(h, a, i) THEN Outcome(h, h[a.id].data[i.i + 1], FALSE)
  ELSE Outcome(h, Nil, TRUE)

proc_set_aref(h, a, i, val) ==
  IF Inbounds(h, a, i) THEN Outcome([h EXCEPT ![a.id].data[i.i + 1] = val], Nil, FALSE)
  ELSE Outcome(h, Nil, TRUE)

\* The elements of a dotted list count too, in twos.
proc_length(h, v) ==
  IF IsList(v) THEN Outcome(h, Integer(list_length(h, v)), EndOf(h, v).t \notin {"null", "cell"})
  ELSE IF v.t = "array" THEN Outcome(h, Integer(Len(h[v.id].data)), FALSE)
  ELSE Outcome(h, Nil, TRUE)

proc_assoc(h, val, alist) ==
  IF IsList(alist) THEN assoc(h, val, alist) ELSE Outcome(h, Nil, TRUE)

-----------------------------------------------------------------------------
(* lisp/structs.lisp.  defs is the value of *struct-definitions*.            *)

\* (car (cdr x)) and (car (cdr (cdr x))), and whether one of them is an error.
cadr(h, v) == Outcome(h, cell_cadr(h, v), ~IsCell(v) \/ ~IsCell(cell_cdr(h, v)))
caddr(h, v) ==
  Outcome(h, cell_car(h, cell_cddr(h, v)), cadr(h, v).err \/ ~IsCell(cell_cddr(h, v)))

\* (push (cons 'name 'slots) *struct-definitions*): the newest definition comes first.
\* The list of slots is part of the program.
defstruct(h, defs, name, slots) ==
  LET written == list(h, slots)
      pair == cons(written.heap, name, written.val)
  IN  cons(pair.heap, pair.val, defs)

\* mutant: the first slot is at 1
list_positionFromOne(h, l, v) ==
  LET found == {i \in DOMAIN Elements(h, l) : eql(h, Elements(h, l)[i], v)}
  IN  IF found = {} \/ v = Nil THEN Outcome(h, Nil, TRUE)
      ELSE Outcome(h, Integer(CHOOSE i \in found : \A j \in found : i <= j), FALSE)

\* Counted while the calls return.  After the error there is nothing to count, and
\* so it is NIL; eql? says NIL of two that are NIL.
list_position(h, l, v) ==
  LET found == {i \in DOMAIN Elements(h, l) : eql(h, Elements(h, l)[i], v)}
  IN  IF found = {} \/ v = Nil THEN Outcome(h, Nil, TRUE)
      ELSE Outcome(h, Integer((CHOOSE i \in found : \A j \in found : i <= j) - 1), FALSE)

\* The array has as many elements as length counts slots.
make_instance(h, defs, type) ==
  LET s == assoc(h, type, defs).val
      made == proc_make_array(h, Integer(list_length(h, cell_cdr(h, s))))
  IN  IF s = Nil THEN Outcome(h, Nil, TRUE)
      ELSE list(made.heap, <<Symbol("STRUCT"), type, made.val>>)

\* Where slot is looked for: s, the array, and the index.
SlotOf(h, defs, struct, slot) ==
  LET type == cadr(h, struct)
      s == assoc(h, type.val, defs).val
      array == caddr(h, struct)
      position == list_position(h, cell_cdr(h, s), slot)
  IN  IF s = Nil THEN [known |-> FALSE]
      ELSE [known |-> TRUE, array |-> array.val, index |-> position.val,
            err |-> type.err \/ array.err \/ position.err]

struct_slot(h, defs, struct, slot) ==
  LET place == SlotOf(h, defs, struct, slot)
      o == proc_aref(h, place.array, place.index)
  IN  IF ~place.known THEN Outcome(h, Nil, TRUE) ELSE [o EXCEPT !.err = @ \/ place.err]

set_struct_slot(h, defs, struct, slot, val) ==
  LET place == SlotOf(h, defs, struct, slot)
      o == proc_set_aref(h, place.array, place.index, val)
  IN  IF ~place.known THEN Outcome(h, Nil, TRUE) ELSE [o EXCEPT !.err = @ \/ place.err]

=============================================================================
