---------------------------- MODULE EventSource -----------------------------
(***************************************************************************)
(* What evloop.c promises to the owner of an event: callbacks come between *)
(* yod_evloop_add and CLOSE, CLOSE comes once, only after yod_evloop_del,  *)
(* and nothing comes after it.                                             *)
(***************************************************************************)
CONSTANT Events

VARIABLES phase,  \* per event: new, armed, deleted, closed, dropped
          last    \* per event, the kind of its last callback

vars == <<phase, last>>

Init == /\ phase = [e \in Events |-> "new"]
        /\ last  = [e \in Events |-> "none"]

Add(e) ==
    /\ phase[e] = "new"
    /\ phase' = [phase EXCEPT ![e] = "armed"]
    /\ UNCHANGED last

Delete(e) ==
    /\ phase[e] = "armed"
    /\ phase' = [phase EXCEPT ![e] = "deleted"]
    /\ UNCHANGED last

(* An event that was fetched before the deletion may still come after it. *)
Deliver(e) ==
    /\ phase[e] \in {"armed", "deleted"}
    /\ last' = [last EXCEPT ![e] = "event"]
    /\ UNCHANGED phase

Close(e) ==
    /\ phase[e] = "deleted"
    /\ phase' = [phase EXCEPT ![e] = "closed"]
    /\ last'  = [last EXCEPT ![e] = "close"]

(* yod_evloop_add failed, or yod_evloop_free: the event ends without CLOSE. *)
Drop ==
    \E gone \in SUBSET {e \in Events : phase[e] # "closed"} :
        /\ phase' = [e \in Events |-> IF e \in gone THEN "dropped" ELSE phase[e]]
        /\ UNCHANGED last

Next == Drop \/ \E e \in Events : Add(e) \/ Delete(e) \/ Deliver(e) \/ Close(e)

Spec == Init /\ [][Next]_vars
=============================================================================
