---------------------------- MODULE MCEvaluator ----------------------------
(***************************************************************************)
(* Evaluator with two variables and two parameter lists: a name with a     *)
(* rest, (x . y), and none, ().                                            *)
(***************************************************************************)
EXTENDS Evaluator

MCParamLists == {[req |-> <<"x">>, rest |-> "y"], [req |-> <<>>, rest |-> NIL]}

=============================================================================
