----------------------------- MODULE OrderedMap ------------------------------
(* What htable.c promises its callers: a map that remembers the order in which
   its keys came, with one cursor that walks along it. *)
EXTENDS Naturals, Sequences, SequencesExt

CONSTANTS Keys, Values, None

VARIABLES order,   \* the keys, oldest first
          val,     \* per key its value, or None
          cursor   \* the key the next step of the walk starts from, or None

mapVars == <<order, val, cursor>>

Init ==
    /\ order = <<>>
    /\ val = [k \in Keys |-> None]
    /\ cursor = None

(* A new key comes last; a known one keeps its place. *)
Put(k, v) ==
    /\ order' = IF val[k] = None THEN Append(order, k) ELSE order
    /\ val' = [val EXCEPT ![k] = v]
    /\ UNCHANGED cursor

Drop(k) ==
    /\ \E i \in DOMAIN order : order[i] = k /\ order' = RemoveAt(order, i)
    /\ val' = [val EXCEPT ![k] = None]
    /\ cursor' = IF cursor = k THEN None ELSE cursor

Clear == order' = <<>> /\ val' = [k \in Keys |-> None] /\ cursor' = None

(* To the first key, the last one, or a neighbour of the cursor's. *)
Walk ==
    /\ order # <<>>
    /\ \/ cursor' = Head(order) \/ cursor' = order[Len(order)]
       \/ \E i \in 1..(Len(order) - 1) :
              \/ cursor = order[i] /\ cursor' = order[i + 1]
              \/ cursor = order[i + 1] /\ cursor' = order[i]
    /\ UNCHANGED <<order, val>>

Next == \/ \E k \in Keys : Drop(k) \/ \E v \in Values : Put(k, v)
        \/ Clear \/ Walk

Spec == Init /\ [][Next]_mapVars
=============================================================================
