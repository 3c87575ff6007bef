--------------------------- MODULE MCSymbolTable ---------------------------
(***************************************************************************)
(* SymbolTable of a few bytes, with pointers of two.                       *)
(***************************************************************************)
EXTENDS SymbolTable

MCLength == [NIL |-> 2, T |-> 1, X |-> 2, LONG |-> 4, Y |-> 2, GENSYM |-> 3]
MCBoot   == <<"NIL", "T">>

=============================================================================
