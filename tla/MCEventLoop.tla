---------------------------- MODULE MCEventLoop -----------------------------
(* The instances of EventLoop that TLC checks; the bounds are in the cfgs. *)
EXTENDS EventLoop

CONSTANTS main, u1, e1, e2, f1, f2

LoopThread  == main
OnlyLoop    == {main}
OneUser     == {u1}
TwoAdders   == {main, u1}
TwoEvents   == {e1, e2}
OneFd       == {f1}
TwoFds      == {f1, f2}
Alike       == Permutations(TwoEvents) \cup Permutations(TwoFds)
=============================================================================
