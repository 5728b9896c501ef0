------------------------------- MODULE MCRbTree -------------------------------
(* The instance of RbTree that TLC checks: enough nodes for a tree of black
   height 3, which a deletion mends on two levels, and a duplicate that
   rotations bring to either side of the first node of its key. *)
EXTENDS RbTree

TenNodes == ((1..9) \X {1}) \cup {<<4, 2>>}
=============================================================================
