------------------------------ MODULE MCCopyGC ------------------------------
(***************************************************************************)
(* CopyGC on a space of a few words.  The sizes are in words of the model: *)
(* an object with a second gc_malloc (string, table) needs two of them, a  *)
(* leaf one, a cell or closure two.                                        *)
(***************************************************************************)
EXTENDS CopyGC

MCKinds  == {"int", "cell", "closure", "ht"}

MCHeader == [int |-> 1, cell |-> 2, closure |-> 2, ht |-> 1]
MCBlock  == [int |-> 0, cell |-> 0, closure |-> 0, ht |-> 1]
MCSlots  == [int |-> 0, cell |-> 2, closure |-> 2, ht |-> 1]
MCKeeps  == {"closure"}

=============================================================================
