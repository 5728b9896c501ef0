------------------------------ MODULE MCDbPool -------------------------------
(* The instance of DbPool that TLC checks; the bounds are in the cfg. *)
EXTENDS DbPool, TLC

CONSTANTS c1, c2, c3, l1, l2, l3, l4, s1, s2, s3

ThreeClients == {c1, c2, c3}
FourLinks    == {l1, l2, l3, l4}
ThreeRecs    == {s1, s2, s3}

Symmetry == Permutations(Clients) \cup Permutations(Links) \cup Permutations(Recs)
=============================================================================
