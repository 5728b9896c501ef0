---------------------------- MODULE MCThreadPool ----------------------------
(* The instances of ThreadPool that TLC checks; the bounds are in the cfgs. *)
EXTENDS ThreadPool, TLC

CONSTANTS w1, w2, w3, c1, f1, f2

TwoWorkers   == {w1, w2}
ThreeWorkers == {w1, w2, w3}
OneCaller    == {c1}

(* f1 and f2 are the calls that the functions on w1 and w2 make. *)
WithFunctions  == {c1, f1, f2}
FunctionsCall  == (w1 :> f1) @@ (w2 :> f2)
FunctionsDoNot == [w \in ThreeWorkers |-> None]
=============================================================================
