--------------------------- MODULE MCEnvironment ---------------------------
(***************************************************************************)
(* What the evaluator works on: the names of symbols, the table of the     *)
(* global variables, and the frames of the local ones.  None of the three  *)
(* models reads what another one writes, so their steps commute and what   *)
(* one can do is the same in every state of the others: the instance lets  *)
(* each move while the other two are where they began.                     *)
(***************************************************************************)
EXTENDS MCSymbolTable, MCHashTable, MCEvaluator

Symbols == Init /\ HashInit /\ SymbolNext /\ UNCHANGED <<hashVars, vars>>
Globals == Init /\ SymbolInit /\ HashNext /\ UNCHANGED <<symbolVars, vars>>
Frames  == HashInit /\ SymbolInit /\ Next /\ UNCHANGED <<symbolVars, hashVars>>

MCInit == SymbolInit /\ HashInit /\ Init
MCSpec == MCInit /\ [][Symbols \/ Globals \/ Frames]_<<symbolVars, hashVars, vars>>

=============================================================================
