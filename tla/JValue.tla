------------------------------- MODULE JValue --------------------------------
(***************************************************************************)
(* jvalue.c: trees of JSON values.  An object is an array of entries that  *)
(* is kept sorted by name and searched by halves, an array has a count     *)
(* below its size, and the other types are leaves.  yod_jvalue_clone walks *)
(* its argument without recursion: it keeps its place in each container in *)
(* that container's _reserved.index.  A step is one call: nothing is       *)
(* shared between threads here.                                            *)
(*                                                                         *)
(* What callers owe: a value that is put in a container or freed is no     *)
(* part of another one, and no container is put into itself.  Text, in and *)
(* out (decode and encode), and the payloads of leaves are left out.       *)
(***************************************************************************)
EXTENDS Naturals, FiniteSets, Sequences, SequencesExt

CONSTANTS Values,    \* what malloc may return, in the order in which it does
          Names,     \* of entries, in the order of strcmp
          Sizes,     \* that containers are made with
          MaxMade,   \* bound: values that callers make
          MaxContainers, \* bound: containers among them, at a time
          MaxRoots,  \* bound: trees that callers have while they make values
          MaxClones, \* bound: calls of clone; after the last one, callers only free
          FailsAt,   \* bound: the mallocs of clone that may fail, counted from 1
          MaxNulls,  \* bound: NULLs that callers put in containers, at a time
          None

ASSUME JValueAssumption ==
    /\ Values \subseteq Nat /\ Names \subseteq Nat \ {0} /\ Sizes \subseteq Nat
    /\ None \notin Values
    /\ {MaxMade, MaxContainers, MaxRoots, MaxClones, MaxNulls} \subseteq Nat
    /\ FailsAt \subseteq Nat

VARIABLES kind,    \* per value: free, leaf, object, array
          parent,
          size,
          slots,   \* the entries; count is their number, and an array names none
          place,   \* _reserved.index
          bare,    \* containers whose data could not be allocated
          origin,  \* after clone: per value, what it is a clone of (history)
          last,    \* and its argument, its result, the malloc that failed
          lost,    \* clones that nothing points to any more (history)
          made, clones,
          damaged  \* clone wrote behind an array and the heap broke: what the
                   \* program does from then on is not modelled

tree    == <<kind, parent, size, slots>>
history == <<origin, last>>
vars == <<tree, place, bare, history, lost, made, clones, damaged>>

NoOrigin == [v \in Values |-> None]
NoClone  == [self |-> None, root |-> None, fails |-> 0]

Init ==
    /\ kind = [v \in Values |-> "free"] /\ parent = [v \in Values |-> None]
    /\ size = [v \in Values |-> 0] /\ slots = [v \in Values |-> <<>>]
    /\ place = [v \in Values |-> 0] /\ bare = {}
    /\ origin = NoOrigin /\ last = NoClone /\ lost = {}
    /\ made = 0 /\ clones = 0 /\ damaged = FALSE

Container(v) == kind[v] \in {"object", "array"}
Live  == {v \in Values : kind[v] # "free"}
Roots == {v \in Live : parent[v] = None}
Entry(n, v) == [name |-> n, value |-> v]
Items(v) == {slots[v][i].value : i \in DOMAIN slots[v]} \ {None}

(* A value with everything below it: what yod_jvalue_free frees.  No tree is higher
   than the values that callers made. *)
Below(v) ==
    LET b[n \in Nat] == IF n = 0 THEN {v}
                        ELSE LET s == b[n - 1] IN s \cup UNION {Items(w) : w \in s}
    IN  b[MaxMade]

Lost    == UNION {Below(v) : v \in lost}
MayBuild == ~damaged /\ clones < MaxClones
Forget  == origin' = NoOrigin /\ last' = NoClone

-----------------------------------------------------------------------------
(* The constructors *)

(* What malloc returns, where k tells what is free. *)
Fresh(k) == CHOOSE v \in Values : /\ k[v] = "free"
                                  /\ \A w \in Values : k[w] = "free" => v <= w

New(k, n) ==
    /\ MayBuild /\ made < MaxMade /\ Live # Values /\ Cardinality(Roots) < MaxRoots
    /\ made' = made + 1
    /\ kind' = [kind EXCEPT ![Fresh(kind)] = k]
    /\ size' = [size EXCEPT ![Fresh(kind)] = n]
    /\ Forget /\ UNCHANGED <<parent, slots, place, bare, lost, clones, damaged>>

NewLeaf  == New("leaf", 0)
NewContainer(k) == /\ Cardinality({v \in Live : Container(v)}) < MaxContainers
                   /\ \E n \in Sizes : New(k, n)
NewArray  == NewContainer("array")
NewObject == NewContainer("object")

-----------------------------------------------------------------------------
(* Containers *)

(* Mutant of Doomed: what lies below a value that is replaced is not freed. *)
DoomedAlone(v) == {v} \ {None}

Doomed(v) == IF v = None THEN {} ELSE Below(v)

(* Frees a set of values, and hangs x in c, whose entries become s. *)
Hang(c, s, x, gone) ==
    /\ kind' = [v \in Values |-> IF v \in gone THEN "free" ELSE kind[v]]
    /\ parent' = [v \in Values |-> CASE v = x -> c
                                     [] v # x /\ v \in gone -> None
                                     [] OTHER -> parent[v]]
    /\ size' = [v \in Values |-> IF v \in gone THEN 0 ELSE size[v]]
    /\ slots' = [v \in Values |-> CASE v = c -> s
                                    [] v # c /\ v \in gone -> <<>>
                                    [] OTHER -> slots[v]]
    /\ bare' = bare \ gone
    /\ Forget /\ UNCHANGED <<place, lost, made, clones, damaged>>

Nulls == Cardinality(UNION {{<<c, i>> : i \in {j \in DOMAIN slots[c] :
                                slots[c][j].value = None}} : c \in Live})

(* A caller has the container c; x is NULL or a root that c is not part of. *)
MayHang(c, k, x) ==
    /\ MayBuild /\ kind[c] = k /\ c \notin bare \cup Lost
    /\ IF x = None THEN Nulls < MaxNulls ELSE c \notin Below(x)

(* _yod_jvalue_object_find, with C's positions: where the halving ends. *)
Halve(s, n) ==
    LET h[a \in Nat, b \in Nat] ==
            LET i == (a + b) \div 2 IN
            CASE a > b -> [found |-> FALSE, index |-> a]
              [] a <= b /\ n = s[i + 1].name -> [found |-> TRUE, index |-> i]
              [] a <= b /\ n > s[i + 1].name -> h[i + 1, b]
              [] a <= b /\ n < s[i + 1].name ->
                     IF i < 1 THEN [found |-> FALSE, index |-> a] ELSE h[a, i - 1]
    IN  IF s = <<>> THEN [found |-> FALSE, index |-> 0] ELSE h[0, Len(s) - 1]

(* Mutant of Opened: a new entry goes behind the others. *)
OpenedAtEnd(s, i, e) == Append(s, e)

(* The entries from i on move up to make room for a new one. *)
Opened(s, i, e) == InsertAt(s, i + 1, e)

(* yod_jobject_set: an object that is full refuses a new name. *)
ObjectSet(c, n, x) ==
    LET s == slots[c] f == Halve(s, n) IN
    /\ MayHang(c, "object", x)
    /\ IF f.found
       THEN Hang(c, [s EXCEPT ![f.index + 1].value = x], x,
                 Doomed(s[f.index + 1].value))
       ELSE /\ Len(s) < size[c]
            /\ Hang(c, Opened(s, f.index, Entry(n, x)), x, {})

(* yod_jarray_add *)
ArrayAdd(c, x) ==
    /\ MayHang(c, "array", x)
    /\ Len(slots[c]) < size[c]
    /\ Hang(c, Append(slots[c], Entry(0, x)), x, {})

(* yod_jarray_set: an index beyond the count leaves NULLs before it. *)
ArraySet(c, i, x) ==
    LET n == Len(slots[c])
        s == [j \in 1 .. (IF i > n THEN i ELSE n) |->
                 IF j <= n THEN slots[c][j] ELSE Entry(0, None)]
    IN  /\ MayHang(c, "array", x)
        /\ i <= size[c] /\ i + Nulls <= n + 1 + MaxNulls
        /\ Hang(c, [s EXCEPT ![i].value = x], x, Doomed(s[i].value))

(* yod_jvalue_free *)
Free(v) == ~damaged /\ Hang(None, <<>>, None, Doomed(v))

-----------------------------------------------------------------------------
(* yod_jvalue_clone: each operator maps a state of its locals and of the memory
   to the next one. *)

Fails(s, i) == s.allocs + i = s.fails

(* The first visit of a value allocates its clone, and the clone's data. *)
Visited(s) ==
    LET v == s.value c == Fresh(s.kind) IN
    CASE s.place[v] > 0 -> s
      [] s.place[v] = 0 /\ Fails(s, 1) -> [s EXCEPT !.clone = None, !.allocs = @ + 1]
      [] s.place[v] = 0 /\ ~Fails(s, 1) ->
             [s EXCEPT !.kind[c] = kind[v], !.size[c] = size[v], !.parent[c] = s.up,
                       !.bare = IF Container(v) /\ Fails(s, 2) THEN @ \cup {c} ELSE @,
                       !.allocs = IF Container(v) THEN @ + 2 ELSE @ + 1,
                       !.origin[c] = v, !.clone = c,
                       !.root = IF @ = None THEN c ELSE @]

(* Mutant of HasItem: the last item is left out. *)
HasItemButLast(s) == s.place[s.value] + 1 < Len(slots[s.value])

HasItem(s) == s.place[s.value] < Len(slots[s.value])

(* clone->u.array.data[self->u.array.count] = NULL, where self is the outermost
   value: it clears an item of an array that is longer, and in one that is full
   or shorter it is behind the data, where the heap may or may not notice. *)
Cleared(s) ==
    LET i == Len(slots[s.self]) c == s.clone IN
    CASE kind[s.value] # "array" \/ c \in s.bare -> s
      [] kind[s.value] = "array" /\ c \notin s.bare /\ i < Len(s.slots[c]) ->
             [s EXCEPT !.slots[c][i + 1].value = None,
                       !.lost = @ \cup ({s.slots[c][i + 1].value} \ {None})]
      [] kind[s.value] = "array" /\ c \notin s.bare /\ i >= Len(s.slots[c]) ->
             [s EXCEPT !.overrun = @ \/ i >= size[s.value]]

(* An item that is not NULL is visited next, as a child of the clone. *)
ItemTaken(s) ==
    LET v == s.value x == slots[v][s.place[v] + 1].value IN
    IF x = None THEN [s EXCEPT !.place[v] = @ + 1]
    ELSE [s EXCEPT !.place[v] = @ + 1, !.value = x, !.up = s.clone]

(* The clone goes to its parent, under the name that its original has there, and
   the walk goes on with the parents of both. *)
Stored(s) ==
    LET v == s.value p == s.up o == parent[v] IN
    [s EXCEPT !.slots = IF p = None \/ p \in s.bare THEN @
                        ELSE [@ EXCEPT ![p] =
                                 Append(@, Entry(slots[o][s.place[o]].name, s.clone))],
              !.lost = IF p \in s.bare THEN @ \cup ({s.clone} \ {None}) ELSE @,
              !.place[v] = 0,
              !.value = IF p = None THEN None ELSE o,
              !.clone = p,
              !.up = IF p = None THEN None ELSE s.parent[p]]

Turn(s) ==
    LET t == Visited(s) IN
    IF t.clone # None /\ Container(t.value) /\ HasItem(t)
    THEN ItemTaken(Cleared(t)) ELSE Stored(t)

Cloned(start) ==
    LET run[n \in Nat] ==
            IF n = 0 THEN start
            ELSE LET s == run[n - 1] IN IF s.value = None THEN s ELSE Turn(s)
    IN  run[4 * MaxMade + MaxNulls]

Clone(self, fails) ==
    LET s == Cloned([kind |-> kind, parent |-> parent, size |-> size, slots |-> slots,
                     place |-> place, bare |-> bare, lost |-> lost, origin |-> NoOrigin,
                     self |-> self, value |-> self, clone |-> None, up |-> None,
                     root |-> None, allocs |-> 0, fails |-> fails, overrun |-> FALSE])
    IN  /\ MayBuild /\ Container(self)    \* bound: a leaf alone is but one malloc
        /\ Cardinality(Live) + Cardinality(Below(self)) <= Cardinality(Values)
        /\ clones' = clones + 1 /\ UNCHANGED made
        /\ \/ /\ kind' = s.kind /\ parent' = s.parent /\ size' = s.size
              /\ slots' = s.slots /\ place' = s.place /\ bare' = s.bare
              /\ lost' = s.lost /\ origin' = s.origin
              /\ last' = [self |-> self, root |-> s.root,
                          fails |-> IF s.allocs < fails THEN 0 ELSE fails]
              /\ UNCHANGED damaged
           \/ /\ s.overrun /\ damaged' = TRUE
              /\ Forget /\ UNCHANGED <<tree, place, bare, lost>>

Next == \/ NewLeaf \/ NewArray \/ NewObject
        \/ \E c \in Live, x \in Roots \cup {None} :
               \/ \E n \in Names : ObjectSet(c, n, x)
               \/ ArrayAdd(c, x)
               \/ \E i \in 1 .. size[c] : ArraySet(c, i, x)
        \/ \E v \in Roots : Free(v)
        \/ \E v \in Live \ Lost, fails \in FailsAt \cup {0} : Clone(v, fails)

Spec == Init /\ [][Next]_vars

-----------------------------------------------------------------------------
(* What the values promise. *)

(* No entry and no parent that a caller can reach leads to a freed value, counts
   stay within sizes, and clone leaves every place as it found it. *)
TypeOK ==
    /\ kind \in [Values -> {"free", "leaf", "object", "array"}]
    /\ parent \in [Values -> Values \cup {None}]
    /\ size \in [Values -> Sizes \cup {0}]
    /\ bare \cup lost \subseteq Live
    /\ \A v \in Values : Len(slots[v]) <= size[v] /\ Items(v) \subseteq Live
    /\ \A v \in Live \ Lost : parent[v] \in Live \cup {None}
    /\ \A v \in Values : place[v] = 0

(* However an object came about, its names are in order without a double, and the
   search by halves finds each of them, and the place of each that is missing. *)
SearchFinds ==
    \A v \in Live : kind[v] = "object" =>
        LET s == slots[v] IN
        /\ \A i, j \in DOMAIN s : i < j => s[i].name < s[j].name
        /\ \A n \in Names :
               Halve(s, n) = [found |-> \E i \in DOMAIN s : s[i].name = n,
                              index |-> Cardinality({i \in DOMAIN s : s[i].name < n})]

(* Each value is held by the caller, or by one entry of the container it calls its
   parent, or it was lost by clone: freeing the roots frees each of the rest once. *)
OwnedOnce ==
    /\ TypeOK
    /\ Live = Lost \cup UNION {Below(r) : r \in Roots}
    /\ \A v \in Live :
           LET places == UNION {{<<c, i>> : i \in {j \in DOMAIN slots[c] :
                                    slots[c][j].value = v}} : c \in Live}
           IN  IF parent[v] = None \/ v \in lost THEN places = {}
               ELSE Cardinality(places) = 1 /\ \A p \in places : p[1] = parent[v]

(* Where memory lasts, the clone has the types, the items in their order and the
   names of the original, without its NULLs, as long as no array in it has two
   items more than the outermost value: then Cleared has taken one away. *)
CloneCopies ==
    (last.self # None /\ last.fails = 0) =>
        \A o \in Below(last.self) : \E c \in Live :
            /\ origin[c] = o /\ kind[c] = kind[o] /\ size[c] = size[o]
            /\ (\/ kind[o] # "array"
                \/ Len(slots[o]) <= Len(slots[last.self]) + 1) =>
                   [i \in DOMAIN slots[c] |->
                       Entry(slots[c][i].name, origin[slots[c][i].value])]
                   = SelectSeq(slots[o], LAMBDA e : e.value # None)
=============================================================================
