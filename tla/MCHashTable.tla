---------------------------- MODULE MCHashTable ----------------------------
(***************************************************************************)
(* HashTable with a table that is resized three times.  The hashes collide *)
(* modulo some of the sizes 2, 3, 4, 6, 9 and differ modulo others.        *)
(***************************************************************************)
EXTENDS HashTable

CONSTANTS k1, k2, k3, k4

MCsxhash == k1 :> 3 @@ k2 :> 5 @@ k3 :> 4 @@ k4 :> 11

=============================================================================
