------------------------------- MODULE RbTree --------------------------------
(***************************************************************************)
(* rbtree.c: a red-black tree with one sentinel leaf whose nodes are also  *)
(* threaded in order (next/prev), with both ends and a cursor.  Duplicates *)
(* of a key are allowed unless the caller sets (force).                    *)
(*                                                                         *)
(* Every operation holds self->lock throughout, so each is one step; the   *)
(* code's mirrored branches are one branch for a side and its other side.  *)
(* The parents of the root and of the sentinel are garbage between two     *)
(* operations, which nothing reads: None here.  Values travel with their   *)
(* nodes and are left out.                                                 *)
(***************************************************************************)
EXTENDS Naturals, FiniteSets, Sequences, SequencesExt

CONSTANTS Nodes,     \* the bound: a node is a pair of its key and what tells duplicates apart
          MaxWalked, \* the bound on trees a cursor points into
          Leaf,      \* self->leaf
          None

ASSUME TreeAssumption == /\ \A n \in Nodes : n[1] \in Nat
                         /\ Leaf # None /\ Leaf \notin Nodes /\ None \notin Nodes

Sides == {"left", "right"}

VARIABLES tree,     \* root, and per node its two kids, its parent and its color
          used,     \* nodes in the tree
          count,
          head, tail, curr,
          next, prev

vars == <<tree, used, count, head, tail, curr, next, prev>>

Key(n) == n[1]
Other(s) == IF s = "left" THEN "right" ELSE "left"

Init ==
    /\ tree = [root   |-> Leaf,
               kid    |-> [s \in Sides |-> [n \in Nodes |-> Leaf]],
               parent |-> [n \in Nodes \cup {Leaf} |-> None],
               red    |-> [n \in Nodes \cup {Leaf} |-> FALSE]]
    /\ used = {} /\ count = 0
    /\ head = None /\ tail = None /\ curr = None
    /\ next = [n \in Nodes |-> None] /\ prev = [n \in Nodes |-> None]

(* The kid of its parent that n is. *)
Side(t, n) == IF t.kid["left"][t.parent[n]] = n THEN "left" ELSE "right"

(* m takes the place of n below n's parent. *)
Replace(t, n, m) ==
    IF n = t.root THEN [t EXCEPT !.root = m]
                  ELSE [t EXCEPT !.kid[Side(t, n)][t.parent[n]] = m]

Paint(t, blacks, reds) ==
    [t EXCEPT !.red = [n \in DOMAIN t.red |-> n \in reds \/ (t.red[n] /\ n \notin blacks)]]

(* A node that is not the leaf gets its new parent. *)
Adopted(parent, m, n) == IF m = Leaf THEN parent ELSE [parent EXCEPT ![m] = n]

(* _yod_rbtree_left_rotate and _right_rotate: n goes down on side s. *)
Rotate(t, n, s) ==
    LET o     == Other(s)
        p     == t.kid[o][n]
        inner == t.kid[s][p]
    IN  [Replace(t, n, p) EXCEPT
            !.kid[o][n] = inner,
            !.kid[s][p] = n,
            !.parent    = [Adopted(t.parent, inner, n) EXCEPT ![p] = t.parent[n], ![n] = p]]

(* The first node with key k on the way down from the root, else Leaf. *)
Lookup(k) ==
    LET down[p \in Nodes \cup {Leaf}] ==
            IF p = Leaf \/ Key(p) = k THEN p
            ELSE down[tree.kid[IF k < Key(p) THEN "left" ELSE "right"][p]]
    IN  down[tree.root]

-----------------------------------------------------------------------------
(* _yod_rbtree_add *)

GoesLeft(k, p) == k < Key(p)

(* The parent of a new node with key k, in a tree that is not empty. *)
Bottom(k) ==
    LET down[p \in Nodes] ==
            LET q == tree.kid[IF GoesLeft(k, p) THEN "left" ELSE "right"][p]
            IN  IF q = Leaf THEN p ELSE down[q]
    IN  down[tree.root]

(* The turns a loop may take: those after its last one change nothing. *)
Turns == Cardinality(Nodes)

(* One turn of the re-balancing of an insertion at n. *)
Ascend(t, n) ==
    IF n = t.root \/ ~t.red[t.parent[n]] THEN <<t, n>>
    ELSE LET f == t.parent[n]
             g == t.parent[f]
             s == Side(t, f)
             u == t.kid[Other(s)][g]
         IN  IF t.red[u] THEN <<Paint(t, {f, u}, {g}), g>>
             ELSE LET inside == n = t.kid[Other(s)][f]
                      m  == IF inside THEN f ELSE n
                      t1 == IF inside THEN Rotate(t, f, s) ELSE t
                      f1 == t1.parent[m]
                  IN  <<Rotate(Paint(t1, {f1}, {g}), g, Other(s)), m>>

(* The loop; the root is blackened after it. *)
Balanced(t, n) ==
    LET turn[i \in 0..Turns] ==
            IF i = 0 THEN <<t, n>> ELSE LET now == turn[i - 1] IN Ascend(now[1], now[2])
        last == turn[Turns][1]
    IN  Paint(last, {last.root}, {})

Linked(t, n, p, s) ==
    [t EXCEPT !.kid[s][p] = n,
              !.kid["left"][n] = Leaf, !.kid["right"][n] = Leaf,
              !.parent[n] = p, !.red[n] = TRUE]

Put(field, p, x) == IF p = None THEN field ELSE [field EXCEPT ![p] = x]

(* Mutant of IsLast: a duplicate of the last key does not become the tail. *)
IsLastAlone(n) == Key(n) >= Key(head) /\ Key(n) > Key(tail)

IsLast(n) == Key(n) >= Key(head) /\ Key(n) >= Key(tail)

(* The first node of all. *)
AddRoot(n) ==
    /\ tree.root = Leaf
    /\ tree' = [tree EXCEPT !.root = n, !.kid["left"][n] = Leaf,
                            !.kid["right"][n] = Leaf, !.red[n] = FALSE]
    /\ used' = {n} /\ count' = count + 1
    /\ head' = n /\ tail' = n
    /\ next' = [next EXCEPT ![n] = None] /\ prev' = [prev EXCEPT ![n] = None]
    /\ UNCHANGED curr

Add(n) ==
    LET p == Bottom(Key(n))
        s == IF GoesLeft(Key(n), p) THEN "left" ELSE "right"
        after  == IF s = "left" THEN p ELSE next[p]
        before == IF s = "left" THEN prev[p] ELSE p
    IN
    /\ tree.root # Leaf /\ n \notin used
    /\ tree' = Balanced(Linked(tree, n, p, s), n)
    /\ used' = used \cup {n} /\ count' = count + 1
    /\ head' = IF Key(n) < Key(head) THEN n ELSE head
    /\ tail' = IF IsLast(n) THEN n ELSE tail
    /\ next' = Put([next EXCEPT ![n] = after], before, n)
    /\ prev' = Put([prev EXCEPT ![n] = before], after, n)
    /\ UNCHANGED curr

(* force: a known key gets a new value and no new node. *)
MayAdd(k, force) == force => Lookup(k) = Leaf

-----------------------------------------------------------------------------
(* _yod_rbtree_del *)

(* The leftmost node below n. *)
Leftmost(n) ==
    LET down[p \in Nodes] ==
            LET q == tree.kid["left"][p] IN IF q = Leaf THEN p ELSE down[q]
    IN  down[n]

(* One turn of the fixup of a deletion above p. *)
Mend(t, p) ==
    IF p = t.root \/ t.red[p] THEN <<t, p>>
    ELSE LET s  == Side(t, p)
             o  == Other(s)
             f  == t.parent[p]
             w0 == t.kid[o][f]
             t1 == IF t.red[w0] THEN Rotate(Paint(t, {w0}, {f}), f, s) ELSE t
             w1 == t1.kid[o][f]
         IN  IF ~t1.red[t1.kid[s][w1]] /\ ~t1.red[t1.kid[o][w1]]
             THEN <<Paint(t1, {}, {w1}), f>>
             ELSE LET t2 == IF ~t1.red[t1.kid[o][w1]]
                            THEN Rotate(Paint(t1, {t1.kid[s][w1]}, {w1}), w1, o)
                            ELSE t1
                      w2 == t2.kid[o][f]
                      t3 == [t2 EXCEPT !.red[w2] = t2.red[f]]
                      t4 == Rotate(Paint(t3, {f, t2.kid[o][w2]}, {}), f, s)
                  IN  <<t4, t4.root>>

(* The node that leaves its place: node itself, or its successor. *)
Spliced(node) ==
    IF Leaf \in {tree.kid[s][node] : s \in Sides} THEN node
    ELSE Leftmost(tree.kid["right"][node])

(* t takes the place, the kids and the color of node. *)
Moved(c, node, y) ==
    LET l  == c.kid["left"][node]
        r  == c.kid["right"][node]
        c1 == [Replace(c, node, y) EXCEPT
                  !.kid["left"][y] = l, !.kid["right"][y] = r,
                  !.parent[y] = c.parent[node], !.red[y] = c.red[node]]
    IN  [c1 EXCEPT !.parent = Adopted(Adopted(@, l, y), r, y)]

(* The tree without node, before the fixup, for a node that is not spliced out
   at the root; p is the child that moves up, y the spliced node. *)
Without(node, y, p) ==
    LET c0 == Replace(tree, y, p)
        up == IF y # node /\ tree.parent[y] = node THEN y ELSE tree.parent[y]
        c1 == [c0 EXCEPT !.parent[p] = up]
    IN  IF y = node THEN c1 ELSE Moved(c1, node, y)

(* The loop: the tree after it and the node where it ends. *)
Mended(t, p) ==
    LET turn[i \in 0..Turns] ==
            IF i = 0 THEN <<t, p>> ELSE LET now == turn[i - 1] IN Mend(now[1], now[2])
    IN  turn[Turns]

(* Mutant of Fixed: the node where the fixup ends keeps its color. *)
FixedButRed(t, p, wasRed) == IF wasRed THEN t ELSE Mended(t, p)[1]

(* The fixup runs when a black node was spliced out, and blackens p. *)
Fixed(t, p, wasRed) ==
    IF wasRed THEN t
    ELSE LET last == Mended(t, p) IN Paint(last[1], {last[2]}, {})

(* The freed node and the garbage parents are forgotten. *)
Forget(t, node) ==
    [t EXCEPT !.parent = [@ EXCEPT ![node] = None, ![Leaf] = None, ![t.root] = None],
              !.kid = [s \in Sides |-> [@[s] EXCEPT ![node] = Leaf]],
              !.red[node] = FALSE]

(* Mutant of CursorAfter: the cursor stays on the freed node. *)
CursorKept(node) == curr

CursorAfter(node) == IF node = curr THEN next[node] ELSE curr

(* A key that is not there is answered with -1. *)
Del(k) ==
    LET node == Lookup(k)
        y    == Spliced(node)
        p    == IF tree.kid["left"][y] = Leaf THEN tree.kid["right"][y]
                                              ELSE tree.kid["left"][y]
    IN
    /\ node # Leaf
    /\ tree' = Forget(IF y = tree.root
                      THEN Paint([tree EXCEPT !.root = p], {p}, {})
                      ELSE Fixed(Without(node, y, p), p, tree.red[y]), node)
    /\ used' = used \ {node} /\ count' = count - 1
    /\ head' = IF node = head THEN next[node] ELSE head
    /\ tail' = IF node = tail THEN prev[node] ELSE tail
    /\ curr' = CursorAfter(node)
    /\ next' = [Put(next, prev[node], next[node]) EXCEPT ![node] = None]
    /\ prev' = [Put(prev, next[node], prev[node]) EXCEPT ![node] = None]

-----------------------------------------------------------------------------
(* The walk. *)

Point(n) ==
    /\ n # None
    /\ curr' = n
    /\ UNCHANGED <<tree, used, count, head, tail, next, prev>>

ToHead == Point(head)
ToTail == Point(tail)
ToNext == curr # None /\ Point(next[curr])
ToPrev == curr # None /\ Point(prev[curr])

(* The cursor meets every tree of up to MaxWalked nodes; larger ones have none. *)
Bounded == curr # None => Cardinality(used) <= MaxWalked

Next ==
    /\ \/ \E n \in Nodes, force \in BOOLEAN :
              MayAdd(Key(n), force) /\ (AddRoot(n) \/ Add(n))
       \/ \E k \in {Key(n) : n \in Nodes} : Del(k)
       \/ ToHead \/ ToTail \/ ToNext \/ ToPrev
    /\ Bounded'

Spec == Init /\ [][Next]_vars

-----------------------------------------------------------------------------
(* What the tree promises. *)

(* Every pointer leads to a node of the tree or nowhere, never to a freed one. *)
TypeOK ==
    LET live == used \cup {None} IN
    /\ tree.root \in used \cup {Leaf}
    /\ tree.kid \in [Sides -> [Nodes -> used \cup {Leaf}]]
    /\ tree.parent \in [Nodes \cup {Leaf} -> live]
    /\ tree.red \in [Nodes \cup {Leaf} -> BOOLEAN]
    /\ used \subseteq Nodes /\ count \in Nat
    /\ {head, tail, curr} \subseteq live
    /\ next \in [Nodes -> live] /\ prev \in [Nodes -> live]

Deepest == Cardinality(Nodes)

(* The black nodes on each path from n to a leaf, or Deepest + 1 if they differ. *)
blackHeight ==
    LET h[d \in 0..Deepest, n \in Nodes \cup {Leaf}] ==
            IF n = Leaf THEN 0 ELSE IF d = 0 THEN Deepest + 1
            ELSE LET l == h[d - 1, tree.kid["left"][n]]
                     r == h[d - 1, tree.kid["right"][n]]
                 IN  IF l # r \/ l > Deepest THEN Deepest + 1 ELSE IF tree.red[n] THEN l ELSE l + 1
    IN  h[Deepest, tree.root]

(* Whatever was inserted and deleted before, the tree is red-black: the root and
   the sentinel are black, no red node has a red kid, every path has as many
   black nodes; and every node knows its parent. *)
RedBlack ==
    /\ TypeOK
    /\ ~tree.red[tree.root] /\ ~tree.red[Leaf]
    /\ blackHeight <= Deepest
    /\ \A n \in used, s \in Sides :
           LET m == tree.kid[s][n] IN
           m # Leaf => tree.parent[m] = n /\ ~(tree.red[n] /\ tree.red[m])

InOrder ==
    LET walk[d \in 0..Deepest, n \in Nodes \cup {Leaf}] ==
            IF n = Leaf \/ d = 0 THEN <<>>
            ELSE walk[d - 1, tree.kid["left"][n]] \o <<n>>
                 \o walk[d - 1, tree.kid["right"][n]]
    IN  walk[Deepest, tree.root]

List ==
    LET on[n \in Nodes \cup {None}, d \in 0..Deepest] ==
            IF n = None \/ d = 0 THEN <<>> ELSE <<n>> \o on[next[n], d - 1]
    IN  on[head, Deepest]

(* The thread visits the nodes of the tree in the tree's order, both ways, with
   its ends where they belong; every node is on it once; and what is on it is
   found from the root. *)
Threaded ==
    LET list == List IN
    /\ list = InOrder /\ ToSet(list) = used
    /\ Len(list) = Cardinality(used) /\ count = Cardinality(used)
    /\ \A i \in DOMAIN list : prev[list[i]] = IF i = 1 THEN None ELSE list[i - 1]
    /\ tail = IF list = <<>> THEN None ELSE Last(list)
    /\ \A n \in used : Lookup(Key(n)) # Leaf

(* The tree is a SortedBag: the cursor never points to a freed node and a walk
   goes on at the right place, whatever is inserted and deleted under it. *)
items == List
at == LET list == List IN
      IF curr = None THEN 0
      ELSE IF curr \in ToSet(list) THEN CHOOSE i \in DOMAIN list : list[i] = curr
      ELSE Deepest + 1
Bag == INSTANCE SortedBag WITH Entries <- Nodes
ImplementsSortedBag == Bag!Spec
=============================================================================
