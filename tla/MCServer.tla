------------------------------ MODULE MCServer ------------------------------
(* The instances of Server that TLC checks; the bounds are in the cfgs. *)
EXTENDS Server

CONSTANTS acc, tick, w1, w2, r1, r2, f1, f2

OneOpener  == {acc}
TickThread == tick
OneWorker  == {w1}
TwoWorkers == {w1, w2}
TwoRecords == {r1, r2}
OneFd      == {f1}
TwoFds     == {f1, f2}

(* Under the connection's lock; and whatever may close it at once. *)
ByPeer    == {{"eof", "func"}}
ByTheLot  == {{"timeout", "error", "stop"}}
=============================================================================
