------------------------------ MODULE SortedBag ------------------------------
(* What rbtree.c promises its callers: entries in the order of their keys,
   those of one key in the order they came, and one cursor that a deletion
   moves on to the next entry. *)
EXTENDS Naturals, Sequences, SequencesExt

CONSTANT Entries   \* an entry e has the key e[1]

VARIABLES items,   \* the entries
          at       \* the position of the cursor, or 0

bagVars == <<items, at>>

Init == items = <<>> /\ at = 0

Insert(e) ==
    LET i == Len(SelectSeq(items, LAMBDA x : x[1] <= e[1])) + 1 IN
    /\ \A j \in DOMAIN items : items[j] # e
    /\ items' = InsertAt(items, i, e)
    /\ at' = IF at >= i THEN at + 1 ELSE at

Delete(i) ==
    /\ items' = RemoveAt(items, i)
    /\ at' = IF at > i THEN at - 1
             ELSE IF at = i /\ i = Len(items) THEN 0 ELSE at

Walk ==
    /\ items # <<>>
    /\ \/ at' = 1 \/ at' = Len(items)
       \/ at # 0 /\ at' \in {at - 1, at + 1} \cap (1..Len(items))
    /\ UNCHANGED items

Next == (\E e \in Entries : Insert(e)) \/ (\E i \in DOMAIN items : Delete(i)) \/ Walk

Spec == Init /\ [][Next]_bagVars
=============================================================================
