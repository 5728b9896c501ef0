------------------------------ MODULE WorkPool ------------------------------
(***************************************************************************)
(* What thread.c promises to the callers of yod_thread_run, and nothing    *)
(* about how: a job that is accepted joins the queue of one worker, every  *)
(* worker runs its jobs in the order they were accepted, each exactly      *)
(* once, and a queue that is not empty is served sooner or later.          *)
(***************************************************************************)
EXTENDS Naturals, Sequences

CONSTANTS Workers,   \* the worker threads
          Jobs       \* the calls of yod_thread_run

VARIABLES waiting,   \* per worker, the accepted jobs it has not finished
          finished   \* per worker, the jobs it has run, in order

vars == <<waiting, finished>>

Accepted == UNION { {waiting[w][i] : i \in DOMAIN waiting[w]} \cup
                    {finished[w][i] : i \in DOMAIN finished[w]} : w \in Workers }

Init == /\ waiting  = [w \in Workers |-> <<>>]
        /\ finished = [w \in Workers |-> <<>>]

Accept(w, j) ==
    /\ j \notin Accepted
    /\ waiting' = [waiting EXCEPT ![w] = Append(@, j)]
    /\ UNCHANGED finished

Run(w) ==
    /\ waiting[w] # <<>>
    /\ finished' = [finished EXCEPT ![w] = Append(@, Head(waiting[w]))]
    /\ waiting'  = [waiting EXCEPT ![w] = Tail(@)]

Next == \E w \in Workers : Run(w) \/ \E j \in Jobs : Accept(w, j)

Spec     == Init /\ [][Next]_vars
FairSpec == Spec /\ \A w \in Workers : WF_vars(Run(w))
=============================================================================
