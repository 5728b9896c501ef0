------------------------------ MODULE HashTable ------------------------------
(***************************************************************************)
(* htable.c: nodes that are linked twice, in the order they came           *)
(* (next/prev) and in the chain of their bucket (v_next/v_prev), and a     *)
(* bucket array that doubles when the table is full.                       *)
(*                                                                         *)
(* Every operation holds self->lock from its first access to its last, so  *)
(* each is one step.  A key stands for (num_key, str_key, key_len); two    *)
(* keys with the same num_key are two strings with the same hash.  A freed *)
(* node may be allocated again.                                            *)
(*                                                                         *)
(* What the callers owe the table: a walk does not go on from a node that  *)
(* was deleted (self->curr still points to it).                            *)
(***************************************************************************)
EXTENDS Naturals, FiniteSets, Sequences, SequencesExt

CONSTANTS Keys,
          NumKey,    \* per key, node->num_key
          Values,    \* what callers store; one that is stored is not reused
          Nodes,     \* what malloc may return; it fails when all are in use
          Size0,     \* 1 << 3
          MaxSize,   \* the size whose double is 0
          MaxRefs,   \* bound: references from yod_htable_ref
          MayFail,   \* realloc may fail
          None

ASSUME TableAssumption ==
    /\ NumKey \in [Keys -> Nat]
    /\ Size0 \in Nat \ {0} /\ MaxSize \in Nat /\ MaxRefs \in Nat
    /\ MayFail \in BOOLEAN
    /\ IsFiniteSet(Nodes)
    /\ None \notin Keys \cup Values \cup Nodes

VARIABLES size,    \* self->size = self->mask + 1
          count,
          refs,    \* self->is_ref
          head, tail, curr,
          key,     \* per node its key; None when the node is not allocated
          value,
          next, prev,
          chain,   \* self->nodes, and v_next and v_prev of every node
          stale,   \* self->curr points to a node that was freed
          held,    \* values the table took and did not pass to vfree (history)
          lost,    \* values that yod_htable_reset forgot (history)
          alive

listVars == <<head, tail, next, prev, key, value, count>>
vars == <<size, refs, listVars, curr, chain, stale, held, lost, alive>>

NoNodes == [n \in Nodes |-> None]
NoChain(s) == [bucket |-> [i \in 0..(s - 1) |-> None], vnext |-> NoNodes, vprev |-> NoNodes]

Init ==
    /\ size = Size0 /\ count = 0 /\ refs = 0
    /\ head = None /\ tail = None /\ curr = None
    /\ key = NoNodes /\ value = NoNodes /\ next = NoNodes /\ prev = NoNodes
    /\ chain = NoChain(Size0)
    /\ stale = FALSE /\ held = {} /\ lost = {} /\ alive = TRUE

(* p->field = x, when there is a p. *)
Put(field, p, x) == IF p = None THEN field ELSE [field EXCEPT ![p] = x]

(* The nodes from first on: on[d] has, for each node, the next d of them. *)
Follow(first, succ) ==
    LET on[d \in 0..Cardinality(Nodes)] ==
            [n \in Nodes \cup {None} |->
                IF n = None \/ d = 0 THEN <<>> ELSE <<n>> \o on[d - 1][succ[n]]]
    IN  on[Cardinality(Nodes)][first]

List == Follow(head, next)

-----------------------------------------------------------------------------
(* num_key & self->mask *)
Index(k, s) == NumKey[k] % s

(* The node of k, as _add, _del and _find look it up. *)
Lookup(k, c, s) ==
    LET nodes == Follow(c.bucket[Index(k, s)], c.vnext)
        found == {i \in DOMAIN nodes : key[nodes[i]] = k}
    IN  IF found = {} THEN None ELSE nodes[Min(found)]

(* Mutant of LinkChain: the node that was first keeps its v_prev. *)
LinkOneWay(c, n, i) ==
    [bucket |-> [c.bucket EXCEPT ![i] = n],
     vnext  |-> [c.vnext EXCEPT ![n] = c.bucket[i]],
     vprev  |-> [c.vprev EXCEPT ![n] = None]]

(* n becomes the first node of bucket i. *)
LinkChain(c, n, i) ==
    [bucket |-> [c.bucket EXCEPT ![i] = n],
     vnext  |-> [c.vnext EXCEPT ![n] = c.bucket[i]],
     vprev  |-> Put([c.vprev EXCEPT ![n] = None], c.bucket[i], n)]

UnlinkChain(c, n, i) ==
    LET before == c.vprev[n]
        after  == c.vnext[n]
    IN  [bucket |-> IF before = None THEN [c.bucket EXCEPT ![i] = after] ELSE c.bucket,
         vnext  |-> [Put(c.vnext, before, after) EXCEPT ![n] = None],
         vprev  |-> [Put(c.vprev, after, before) EXCEPT ![n] = None]]

(* _yod_htable_resize: every chain is built anew, along the list. *)
Relinked(s) ==
    LET list == List
        built[i \in 0..Len(list)] ==
            IF i = 0 THEN NoChain(s)
            ELSE LinkChain(built[i - 1], list[i], Index(key[list[i]], s))
    IN  built[Len(list)]

MayGrow == count >= size /\ size < MaxSize

(* A full table doubles first, also when the key turns out to be known. *)
Resized ==
    IF MayGrow
    THEN {<<2 * size, Relinked(2 * size)>>} \cup
         IF MayFail THEN {<<size, chain>>} ELSE {}
    ELSE {<<size, chain>>}

(* Mutant of Release: a value is overwritten and not freed. *)
Keep(vs) == held

(* self->vfree *)
Release(vs) == held \ vs

(* The key is known: with force the value is replaced, else -1. *)
AddKnown(k, v, force) ==
    /\ alive
    /\ \E r \in Resized : LET n == Lookup(k, r[2], r[1]) IN
           /\ n # None
           /\ size' = r[1] /\ chain' = r[2]
           /\ value' = IF force THEN [value EXCEPT ![n] = v] ELSE value
           /\ held' = IF force THEN Release({value[n]}) \cup {v} ELSE held
    /\ UNCHANGED <<refs, count, head, tail, curr, key, next, prev, stale, lost, alive>>

(* The new node goes to the front of its chain and to the end of the list. *)
AddNew(k, v, n) ==
    /\ alive /\ key[n] = None
    /\ \E r \in Resized :
           /\ Lookup(k, r[2], r[1]) = None
           /\ size' = r[1]
           /\ chain' = LinkChain(r[2], n, Index(k, r[1]))
    /\ key' = [key EXCEPT ![n] = k]
    /\ value' = [value EXCEPT ![n] = v]
    /\ next' = Put([next EXCEPT ![n] = None], tail, n)
    /\ prev' = [prev EXCEPT ![n] = tail]
    /\ tail' = n
    /\ head' = IF head = None THEN n ELSE head
    /\ count' = count + 1
    /\ held' = held \cup {v}
    /\ UNCHANGED <<refs, curr, stale, lost, alive>>

(* malloc fails: -1, and the table may have doubled all the same. *)
AddFails(k) ==
    /\ alive /\ \A n \in Nodes : key[n] # None
    /\ \E r \in Resized :
           /\ Lookup(k, r[2], r[1]) = None
           /\ size' = r[1] /\ chain' = r[2]
    /\ UNCHANGED <<refs, listVars, curr, stale, held, lost, alive>>

(* Mutant of FreshTail: the last node stays the tail. *)
OldTail(n) == tail

FreshTail(n) == IF next[n] = None THEN prev[n] ELSE tail

(* Returns 0 whether or not there was such a key. *)
Del(k) ==
    LET n == Lookup(k, chain, size) IN
    /\ alive /\ n # None
    /\ tail' = FreshTail(n)
    /\ head' = IF prev[n] = None THEN next[n] ELSE head
    /\ next' = [Put(next, prev[n], next[n]) EXCEPT ![n] = None]
    /\ prev' = [Put(prev, next[n], prev[n]) EXCEPT ![n] = None]
    /\ chain' = UnlinkChain(chain, n, Index(k, size))
    /\ key' = [key EXCEPT ![n] = None] /\ value' = [value EXCEPT ![n] = None]
    /\ held' = Release({value[n]})
    /\ stale' = (stale \/ curr = n)
    /\ count' = count - 1
    /\ UNCHANGED <<size, refs, curr, lost, alive>>

Emptied ==
    /\ count' = 0 /\ head' = None /\ tail' = None /\ curr' = None
    /\ key' = NoNodes /\ value' = NoNodes /\ next' = NoNodes /\ prev' = NoNodes
    /\ chain' = NoChain(size)
    /\ stale' = FALSE

(* The list is forgotten before the loop that frees it: the nodes and their
   values are never freed.  (The model gives the nodes back to malloc.) *)
Reset ==
    /\ alive
    /\ Emptied
    /\ lost' = lost \cup {value[n] : n \in {m \in Nodes : key[m] # None}}
    /\ held' = held \ lost'
    /\ UNCHANGED <<size, refs, alive>>

Ref ==
    /\ alive /\ refs < MaxRefs
    /\ refs' = refs + 1
    /\ UNCHANGED <<size, listVars, curr, chain, stale, held, lost, alive>>

(* The last reference frees every node along the list. *)
Free ==
    /\ alive
    /\ IF refs > 0
       THEN refs' = refs - 1 /\ UNCHANGED <<listVars, curr, chain, stale, held, alive>>
       ELSE /\ Emptied
            /\ held' = Release({value[n] : n \in {List[i] : i \in DOMAIN List}})
            /\ alive' = FALSE /\ UNCHANGED refs
    /\ UNCHANGED <<size, lost>>

-----------------------------------------------------------------------------
(* The walk: an end of the list that is not there leaves self->curr alone. *)

Point(n) ==
    /\ alive /\ n # None
    /\ curr' = n /\ stale' = FALSE
    /\ UNCHANGED <<size, refs, listVars, chain, held, lost, alive>>

ToHead == Point(head)
ToTail == Point(tail)
ToNext == curr # None /\ ~stale /\ Point(next[curr])
ToPrev == curr # None /\ ~stale /\ Point(prev[curr])

Gone == ~alive /\ UNCHANGED vars

Next == \/ \E k \in Keys, v \in Values \ (held \cup lost) :
               \/ \E force \in BOOLEAN : AddKnown(k, v, force)
               \/ \E n \in Nodes : AddNew(k, v, n)
        \/ \E k \in Keys : AddFails(k) \/ Del(k)
        \/ Reset \/ Ref \/ Free \/ ToHead \/ ToTail \/ ToNext \/ ToPrev \/ Gone

Spec == Init /\ [][Next]_vars

-----------------------------------------------------------------------------
(* What the table promises. *)

Link == Nodes \cup {None}

TypeOK ==
    /\ size \in Nat /\ count \in Nat /\ refs \in Nat
    /\ {head, tail, curr} \subseteq Link
    /\ key \in [Nodes -> Keys \cup {None}]
    /\ value \in [Nodes -> Values \cup {None}]
    /\ next \in [Nodes -> Link] /\ prev \in [Nodes -> Link]
    /\ chain.bucket \in [0..(size - 1) -> Link]
    /\ chain.vnext \in [Nodes -> Link] /\ chain.vprev \in [Nodes -> Link]
    /\ stale \in BOOLEAN /\ alive \in BOOLEAN
    /\ held \subseteq Values /\ lost \subseteq Values

(* s is a doubly linked list that back walks from its end. *)
BothWays(s, back) ==
    \A i \in DOMAIN s : back[s[i]] = IF i = 1 THEN None ELSE s[i - 1]

InUse == {n \in Nodes : key[n] # None}
Bucket(i) == Follow(chain.bucket[i], chain.vnext)
Members(s) == {s[i] : i \in DOMAIN s}

(* The two ways a node is linked agree, through every doubling and deletion:
   the list and the chains hold the same nodes, each once, forward as well as
   backward, and a node is in the chain its num_key belongs to. *)
LinksAgree ==
    /\ TypeOK
    /\ Members(List) = InUse /\ Len(List) = Cardinality(InUse) /\ Len(List) = count
    /\ BothWays(List, prev)
    /\ tail = IF List = <<>> THEN None ELSE Last(List)
    /\ \A i \in DOMAIN chain.bucket :
           /\ Members(Bucket(i)) = {n \in InUse : NumKey[key[n]] % size = i}
           /\ Len(Bucket(i)) = Cardinality(Members(Bucket(i)))
           /\ BothWays(Bucket(i), chain.vprev)

(* Each value that was stored is in the table, or vfree has had it, or a reset
   lost it; none is in the table after vfree had it, or twice. *)
ValuesAccounted ==
    /\ {value[n] : n \in InUse} = held
    /\ \A n, m \in InUse : value[n] = value[m] => n = m

(* The table is an OrderedMap; what _find returns is what the map holds. *)
order  == [i \in DOMAIN List |-> key[List[i]]]
val    == [k \in Keys |-> LET n == Lookup(k, chain, size)
                          IN  IF n = None THEN None ELSE value[n]]
cursor == IF curr = None \/ stale THEN None ELSE key[curr]
Map == INSTANCE OrderedMap
ImplementsOrderedMap == Map!Spec
=============================================================================
