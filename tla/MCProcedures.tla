---------------------------- MODULE MCProcedures ----------------------------
(***************************************************************************)
(* Procedures on small heaps that share what can be shared: tails,         *)
(* sublists and whole lists.                                               *)
(***************************************************************************)
EXTENDS Procedures

MCAtoms == {Nil, Integer(-1), Integer(1)}
MCDoubles == {<<0, 1>>, <<-1, 2>>, NaN}

C(id) == Ref("cell", id)
A == Symbol("A")

\* (UNQUOTE v), (UNQUOTE-SPLICING v) and (QUOTE v) are two cells each.
MCForm(name, id, v) == <<Cell(Symbol(name), C(id + 1)), Cell(v, Nil)>>

\* (A ,X (,@Y ,X) ,@X . B), from cell id on.
MCTemplate(id) ==
  <<Cell(A, C(id + 1)), Cell(C(id + 6), C(id + 2)), Cell(C(id + 4), C(id + 3)),
    Cell(C(id + 10), Symbol("B")), Cell(C(id + 8), C(id + 5)), Cell(C(id + 6), Nil)>>
  \o MCForm("UNQUOTE", id + 6, Symbol("X"))
  \o MCForm("UNQUOTE-SPLICING", id + 8, Symbol("Y"))
  \o MCForm("UNQUOTE-SPLICING", id + 10, Symbol("X"))

MCStart(heap_, x_, y_) ==
  [heap |-> heap_ \o MCTemplate(Len(heap_) + 1), x |-> x_, y |-> y_,
   text |-> C(Len(heap_) + 1), definitions |-> Nil]

MCStarts ==
  {\* x = (A 15 -16) and y its tail
   MCStart(<<Cell(A, C(2)), Cell(Integer(15), C(3)), Cell(Integer(-16), Nil)>>, C(1), C(2)),
   \* x = ((1) (1)) with one list twice, y = ((1) (1)) with two
   MCStart(<<Cell(C(3), C(2)), Cell(C(3), Nil), Cell(Integer(1), Nil),
             Cell(C(3), C(5)), Cell(C(6), Nil), Cell(Integer(1), Nil)>>, C(1), C(4)),
   \* x = (A (B . -12)) and y = (-12 . A)
   MCStart(<<Cell(A, C(2)), Cell(C(3), Nil), Cell(Symbol("B"), Integer(-12)),
             Cell(Integer(-12), A)>>, C(1), C(4)),
   \* x = #(A (1)) and y = (1), the same list
   MCStart(<<[data |-> <<A, C(2)>>], Cell(Integer(1), Nil)>>, Ref("array", 1), C(2)),
   \* two doubles
   MCStart(<<[d |-> <<-3, 2>>], [d |-> <<1, 1>>]>>, Ref("double", 1), Ref("double", 2)),
   \* x = (y), where y is no number
   MCStart(<<[d |-> NaN], Cell(Ref("double", 1), Nil)>>, C(2), Ref("double", 1)),
   \* x is a string that is broken by a newline, y one that ends with it
   MCStart(<<[str |-> <<"b", "\n", "c">>], [str |-> <<"\n">>]>>,
           Ref("string", 1), Ref("string", 2)),
   \* a format, and a list of a string that ends in the middle of a directive
   MCStart(<<[str |-> <<"~", "S", "a", "~", "~", "~", "%">>],
             [str |-> <<"b", "~">>],
             Cell(Ref("string", 2), C(4)), Cell(Ref("string", 1), Nil)>>,
           Ref("string", 1), C(3)),
   \* x is an association list that lacks an entry, y its end
   MCStart(<<Cell(C(4), C(2)), Cell(C(5), C(3)), Cell(Nil, Nil),
             Cell(A, Integer(1)), Cell(Integer(1), Nil)>>, C(1), C(3))}

\* (QUASIQUOTE (A (QUOTE B))), to be expanded, and (UNQUOTE X)
MCFormStarts ==
  {[heap |-> <<Cell(Symbol("QUASIQUOTE"), C(2)), Cell(C(3), Nil), Cell(A, C(4)),
               Cell(C(5), Nil)>> \o MCForm("QUOTE", 5, Symbol("B")),
    x |-> C(4), y |-> C(5), text |-> C(1), definitions |-> Nil],
   [heap |-> <<Cell(Integer(1), Nil)>> \o MCForm("UNQUOTE", 2, Symbol("X")),
    x |-> C(1), y |-> Nil, text |-> C(2), definitions |-> Nil]}

MCSlotLists == {<<A, Symbol("B")>>, <<Symbol("B")>>}

\* (A B) are the slots of P, and x and y are two instances.
MCStructStart ==
  [heap |-> <<Cell(C(2), Nil), Cell(Symbol("P"), C(3)), Cell(A, C(4)), Cell(Symbol("B"), Nil),
              Cell(Symbol("STRUCT"), C(6)), Cell(Symbol("P"), C(7)), Cell(Ref("array", 8), Nil),
              [data |-> <<Nil, Nil>>],
              Cell(Symbol("STRUCT"), C(10)), Cell(Symbol("P"), C(11)), Cell(Ref("array", 12), Nil),
              [data |-> <<Integer(1), A>>]>>,
   x |-> C(5), y |-> C(9), text |-> A, definitions |-> C(1)]

MCAllStarts == MCStarts \union MCFormStarts \union {MCStructStart}

=============================================================================
