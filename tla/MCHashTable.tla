---------------------------- MODULE MCHashTable ------------------------------
(* The instance of HashTable that TLC checks; the bounds are in the cfg. *)
EXTENDS HashTable, TLC

CONSTANTS k1, k2, k3, k4, n1, n2, n3, v1, v2, v3, v4

FourKeys    == {k1, k2, k3, k4}
ThreeNodes  == {n1, n2, n3}
FourValues  == {v1, v2, v3, v4}

(* k1 and k2 always share a bucket; k4 leaves them when the table doubles
   for the first time, k3 when it doubles again. *)
Hashes == k1 :> 5 @@ k2 :> 5 @@ k3 :> 3 @@ k4 :> 2

Symmetry == Permutations(Nodes) \cup Permutations(Values)
=============================================================================
