-------------------------- MODULE HashTableProofs --------------------------
(***************************************************************************)
(* What HashTable promises, for any keys, any hash, any number of nodes    *)
(* and buckets, and whatever allocations fail.                             *)
(***************************************************************************)
EXTENDS HashTable, FiniteSetTheorems, SequenceTheorems, WellFoundedInduction, TLAPS

(* Induction over the naturals, for a set of them: the least one that is not in it. *)
Less == {p \in Nat \X Nat : p[1] < p[2]}

LEMMA LessFounded == IsWellFoundedOn(Less, Nat)
<1>1. OpToRel(<, Nat) = Less
    BY DEF OpToRel, Less
<1> QED
    BY <1>1, NatLessThanWellFounded

LEMMA Induction ==
    ASSUME NEW S, 0 \in S, \A n \in Nat : n \in S => n + 1 \in S
    PROVE  \A n \in Nat : n \in S
<1> SUFFICES ASSUME Nat \ S # {} PROVE FALSE
    OBVIOUS
<1>1. PICK x \in Nat \ S : \A y \in Nat \ S : ~(<<y, x>> \in Less)
    BY LessFounded, WFMin, Nat \ S \subseteq Nat, Zenon
<1>2. x # 0 /\ x - 1 \in Nat
    BY <1>1
<1>3. <<x - 1, x>> \in Less
    BY <1>2 DEF Less
<1>4. x - 1 \in S
    BY <1>1, <1>2, <1>3
<1>5. (x - 1) + 1 \in S
    BY <1>2, <1>4
<1> QED
    BY <1>1, <1>2, <1>5

LEMMA MinIs ==
    ASSUME NEW S, S \subseteq Nat, S # {}
    PROVE  Min(S) \in S /\ \A y \in S : Min(S) <= y
<1>1. \E x \in S : \A y \in S : ~(<<y, x>> \in Less)
    BY LessFounded, WFMin, Zenon
<1>2. \A x, y \in S : ~(<<y, x>> \in Less) => x <= y
    BY DEF Less
<1>3. \E x \in S : \A y \in S : x <= y
    BY <1>1, <1>2
<1> QED
    BY <1>3 DEF Min

(* A recursive function on 0..N exists: base first, then a step after the other. *)
Iterates(f, N, base, step) ==
    \A d \in 0..N : f[d] = IF d = 0 THEN base ELSE step[d][f[d - 1]]

LEMMA Recursion ==
    ASSUME NEW T, NEW base \in T, NEW N \in Nat, NEW step \in [1..N -> [T -> T]]
    PROVE  \E f \in [0..N -> T] : Iterates(f, N, base, step)
<1> DEFINE S == {n \in Nat : n <= N => \E f \in [0..n -> T] : Iterates(f, n, base, step)}
<1>1. 0 \in S
    <2>1. [d \in 0..0 |-> base] \in [0..0 -> T]
        OBVIOUS
    <2>2. Iterates([d \in 0..0 |-> base], 0, base, step)
        BY DEF Iterates
    <2> QED
        BY <2>1, <2>2
<1>2. ASSUME NEW n \in Nat, n \in S PROVE n + 1 \in S
    <2> SUFFICES ASSUME n + 1 <= N
                 PROVE  \E f \in [0..(n + 1) -> T] : Iterates(f, n + 1, base, step)
        OBVIOUS
    <2>1. PICK f \in [0..n -> T] : Iterates(f, n, base, step)
        BY <1>2
    <2> DEFINE g == [d \in 0..(n + 1) |-> IF d = n + 1 THEN step[d][f[d - 1]] ELSE f[d]]
    <2>2. f[n] \in T /\ step[n + 1] \in [T -> T]
        OBVIOUS
    <2>3. step[n + 1][f[n]] \in T
        BY <2>2
    <2>4. g \in [0..(n + 1) -> T]
        BY <2>3
    <2>5. \A d \in 0..n : g[d] = f[d]
        OBVIOUS
    <2>6. ASSUME NEW d \in 0..(n + 1)
          PROVE  g[d] = IF d = 0 THEN base ELSE step[d][g[d - 1]]
        <3>1. CASE d = n + 1
            <4>1. g[d] = step[d][f[n]] /\ g[n] = f[n] /\ d - 1 = n
                BY <3>1, <2>5
            <4> QED
                BY <4>1, <3>1
        <3>2. CASE d \in 0..n
            <4>1. f[d] = IF d = 0 THEN base ELSE step[d][f[d - 1]]
                BY <2>1, <3>2 DEF Iterates
            <4>2. d # 0 => d - 1 \in 0..n
                BY <3>2
            <4>3. g[d] = f[d] /\ (d # 0 => g[d - 1] = f[d - 1])
                BY <2>5, <3>2, <4>2
            <4> QED
                BY <4>1, <4>3
        <3> QED
            BY <3>1, <3>2
    <2>7. Iterates(g, n + 1, base, step)
        <3> HIDE DEF g
        <3> QED
            BY <2>6 DEF Iterates
    <2> QED
        BY <2>4, <2>7
<1>3. N \in S
    <2> HIDE DEF S
    <2> QED
        BY <1>1, <1>2, Induction
<1> QED
    BY <1>3

-----------------------------------------------------------------------------
(* Lists as the code links them: s is what lies between first and the end. *)
Path(s, first, succ) ==
    /\ s \in Seq(Nodes) /\ IsInjective(s)
    /\ first = IF s = <<>> THEN None ELSE s[1]
    /\ \A i \in 1..Len(s) : succ[s[i]] = IF i = Len(s) THEN None ELSE s[i + 1]

Onward(on, succ, d) ==
    [n \in Nodes \cup {None} |-> IF n = None \/ d = 0 THEN <<>> ELSE <<n>> \o on[d - 1][succ[n]]]
Onwards(on, succ) ==
    on = [d \in 0..Cardinality(Nodes) |-> Onward(on, succ, d)]

LEMMA OnwardsIs ==
    ASSUME NEW first, NEW succ, NEW some, Onwards(some, succ)
    PROVE  \E on : Onwards(on, succ) /\ Follow(first, succ) = on[Cardinality(Nodes)][first]
<1> DEFINE P(x) == Onwards(x, succ)
<1>1. P(CHOOSE x : P(x))
    <2> HIDE DEF P
    <2>1. P(some)
        BY DEF P
    <2> QED
        BY <2>1, Zenon
<1>2. Follow(first, succ) = (CHOOSE x : P(x))[Cardinality(Nodes)][first]
    BY Zenon DEF Follow, Onwards, Onward
<1> QED
    BY <1>1, <1>2, Zenon

LEMMA OnwardsExist ==
    ASSUME NEW succ \in [Nodes -> Link], NEW first
    PROVE  \E on : Onwards(on, succ) /\ Follow(first, succ) = on[Cardinality(Nodes)][first]
<1> DEFINE N    == Cardinality(Nodes)
           T    == [Link -> Seq(Nodes)]
           base == [n \in Link |-> <<>>]
           To(g) == [n \in Link |-> IF n = None THEN <<>> ELSE <<n>> \o g[succ[n]]]
           step == [d \in 1..N |-> [g \in T |-> To(g)]]
<1>1. N \in Nat
    BY FS_CardinalityType, TableAssumption
<1>2. base \in T
    BY EmptySeq
<1>3. ASSUME NEW g \in T PROVE To(g) \in T
    <2>1. ASSUME NEW n \in Link, n # None PROVE <<n>> \o g[succ[n]] \in Seq(Nodes)
        <3>1. n \in Nodes /\ succ[n] \in Link
            BY <2>1 DEF Link
        <3>2. <<n>> \in Seq(Nodes) /\ g[succ[n]] \in Seq(Nodes)
            BY <3>1
        <3> QED
            BY <3>2, ConcatProperties
    <2> QED
        BY <2>1, EmptySeq
<1>4. step \in [1..N -> [T -> T]]
    BY <1>3
<1>5. PICK f \in [0..N -> T] : Iterates(f, N, base, step)
    <2> HIDE DEF N, T, base, step
    <2> QED
        BY <1>1, <1>2, <1>4, Recursion
<1>6. ASSUME NEW d \in 0..N PROVE f[d] = Onward(f, succ, d)
    <2>1. f[d] = IF d = 0 THEN base ELSE step[d][f[d - 1]]
        BY <1>5 DEF Iterates
    <2>2. CASE d = 0
        <3>1. Onward(f, succ, d) = [n \in Nodes \cup {None} |-> <<>>]
            BY <2>2 DEF Onward
        <3>2. f[d] = base /\ base = [n \in Nodes \cup {None} |-> <<>>]
            BY <2>1, <2>2 DEF Link
        <3> QED
            BY <3>1, <3>2
    <2>3. CASE d # 0
        <3>0. d \in 1..N /\ d - 1 \in 0..N
            BY <1>1, <2>3
        <3>1. d \in 1..N /\ f[d - 1] \in T
            <4> HIDE DEF N, T
            <4> QED
                BY <3>0
        <3>2. f[d] = To(f[d - 1])
            BY <2>1, <2>3, <3>1
        <3> QED
            BY <2>3, <3>2 DEF Onward, Link
    <2> QED
        BY <2>2, <2>3
<1>7. Onwards(f, succ)
    <2>1. f = [d \in 0..N |-> f[d]]
        OBVIOUS
    <2> QED
        BY <1>6, <2>1 DEF Onwards
<1> QED
    BY <1>7, OnwardsIs, Zenon

LEMMA ShortPath ==
    ASSUME NEW s \in Seq(Nodes), IsInjective(s)
    PROVE  Len(s) \in Nat /\ Len(s) <= Cardinality(Nodes) /\ Cardinality(Nodes) \in Nat
<1>1. IsFiniteSet(Nodes)
    BY TableAssumption
<1>2. s \in [1..Len(s) -> Nodes] /\ Len(s) \in Nat
    BY LenProperties
<1>3. s \in Injection(1..Len(s), Nodes)
    BY <1>2 DEF Injection, IsInjective
<1>4. Cardinality(1..Len(s)) = Len(s)
    <2>1. Cardinality(1..Len(s)) = IF 1 > Len(s) THEN 0 ELSE Len(s) - 1 + 1
        BY <1>2, FS_Interval, 1 \in Int, Len(s) \in Int, Zenon
    <2> QED
        BY <1>2, <2>1
<1> QED
    BY <1>1, <1>2, <1>3, <1>4, FS_Injection, FS_CardinalityType

LEMMA FrontIs ==
    ASSUME NEW X, NEW v \in Seq(X), NEW x \in X
    PROVE  /\ <<x>> \o v \in Seq(X) /\ Len(<<x>> \o v) = Len(v) + 1
           /\ (<<x>> \o v)[1] = x
           /\ \A i \in 1..Len(v) : (<<x>> \o v)[i + 1] = v[i]
<1>1. <<x>> \in Seq(X) /\ Len(<<x>>) = 1 /\ <<x>>[1] = x /\ Len(v) \in Nat
    BY LenProperties
<1>2. /\ <<x>> \o v \in Seq(X) /\ Len(<<x>> \o v) = 1 + Len(v)
      /\ \A i \in 1 .. 1 + Len(v) : (<<x>> \o v)[i] = IF i <= 1 THEN <<x>>[i] ELSE v[i - 1]
    BY <1>1, ConcatProperties
<1>3. ASSUME NEW i \in 1..Len(v) PROVE (<<x>> \o v)[i + 1] = v[i]
    <2>1. i + 1 \in 1..(1 + Len(v)) /\ ~(i + 1 <= 1) /\ (i + 1) - 1 = i
        BY <1>1
    <2> QED
        BY <1>2, <2>1
<1> QED
    BY <1>1, <1>2, <1>3

(* Follow finds a list that is linked, whatever its length. *)
LEMMA FollowIs ==
    ASSUME NEW succ \in [Nodes -> Link], NEW first, NEW s, Path(s, first, succ)
    PROVE  Follow(first, succ) = s
<1> DEFINE N == Cardinality(Nodes)
           Place(j) == IF j = Len(s) + 1 THEN None ELSE s[j]
           S == {d \in Nat : d <= N =>
                    \A j \in 1..(Len(s) + 1) :
                        Len(s) + 1 - j <= d => \A on : Onwards(on, succ) =>
                            on[d][Place(j)] = SubSeq(s, j, Len(s))}
<1>1. s \in Seq(Nodes) /\ Len(s) \in Nat /\ Len(s) <= N /\ N \in Nat
    BY ShortPath DEF Path
<1>2. ASSUME NEW on, Onwards(on, succ), NEW d \in 0..N, NEW n \in Link
      PROVE  on[d][n] = IF n = None \/ d = 0 THEN <<>> ELSE <<n>> \o on[d - 1][succ[n]]
    <2>1. on = [e \in 0..N |-> Onward(on, succ, e)]
        BY <1>2 DEF Onwards
    <2>2. on[d] = Onward(on, succ, d)
        BY <2>1, Zenon
    <2> QED
        BY <2>2 DEF Onward, Link
<1>3. \A j \in 1..(Len(s) + 1) : Place(j) \in Link /\ (Place(j) = None <=> j = Len(s) + 1)
    BY <1>1, ElementOfSeq, TableAssumption DEF Link
<1>4. \A j \in 1..Len(s) : succ[s[j]] = Place(j + 1)
    BY <1>1 DEF Path
<1>5. SubSeq(s, Len(s) + 1, Len(s)) = <<>>
    BY <1>1, SubSeqEmpty
<1>6. 0 \in S
    <2> SUFFICES ASSUME NEW j \in 1..(Len(s) + 1), Len(s) + 1 - j <= 0,
                        NEW on, Onwards(on, succ)
                 PROVE  on[0][Place(j)] = SubSeq(s, j, Len(s))
        BY <1>1
    <2>1. j = Len(s) + 1 /\ 0 \in 0..N
        BY <1>1
    <2> HIDE DEF Place, N
    <2> QED
        BY <1>2, <1>3, <1>5, <2>1
<1>7. ASSUME NEW d \in Nat, d \in S PROVE d + 1 \in S
    <2> SUFFICES ASSUME d + 1 <= N, NEW j \in 1..(Len(s) + 1), Len(s) + 1 - j <= d + 1,
                        NEW on, Onwards(on, succ)
                 PROVE  on[d + 1][Place(j)] = SubSeq(s, j, Len(s))
        <3> HIDE DEF Place, N
        <3> QED
            BY DEF S
    <2>1. d + 1 \in 0..N /\ d + 1 # 0 /\ (d + 1) - 1 = d
        BY <1>1
    <2>2. CASE j = Len(s) + 1
        <3> HIDE DEF Place, N
        <3> QED
            BY <1>2, <1>3, <1>5, <2>1, <2>2
    <2>3. CASE j # Len(s) + 1
        <3>1. j \in 1..Len(s) /\ j + 1 \in 1..(Len(s) + 1) /\ Len(s) + 1 - (j + 1) <= d
            BY <1>1, <2>3
        <3>2. on[d][Place(j + 1)] = SubSeq(s, j + 1, Len(s))
            BY <1>1, <1>7, <3>1
        <3>3. Place(j) = s[j] /\ Place(j) # None /\ Place(j) \in Link
            BY <1>3, <2>3
        <3>4. succ[Place(j)] = Place(j + 1)
            BY <1>4, <3>1, <3>3
        <3>5. on[d + 1][Place(j)] = <<s[j]>> \o on[d][Place(j + 1)]
            <4> HIDE DEF Place, N
            <4> QED
                BY <1>2, <2>1, <3>3, <3>4
        <3>6. SubSeq(s, j, Len(s)) = <<s[j]>> \o SubSeq(s, j + 1, Len(s))
            <4> DEFINE u == SubSeq(s, j, Len(s))
                       v == SubSeq(s, j + 1, Len(s))
            <4>1. /\ u \in Seq(Nodes) /\ Len(u) = Len(s) - j + 1
                  /\ \A i \in 1..(Len(s) - j + 1) : u[i] = s[j + i - 1]
                BY <1>1, <3>1, SubSeqProperties
            <4>2. /\ v \in Seq(Nodes) /\ Len(v) = Len(s) - j
                  /\ \A i \in 1..(Len(s) - j) : v[i] = s[j + i]
                BY <1>1, <3>1, SubSeqProperties
            <4>3. s[j] \in Nodes
                BY <1>1, <3>1, ElementOfSeq
            <4>4. /\ <<s[j]>> \o v \in Seq(Nodes) /\ Len(<<s[j]>> \o v) = Len(v) + 1
                  /\ (<<s[j]>> \o v)[1] = s[j]
                  /\ \A i \in 1..Len(v) : (<<s[j]>> \o v)[i + 1] = v[i]
                <5>1. v \in Seq(Nodes)
                    BY <4>2
                <5> HIDE DEF v, u
                <5> QED
                    BY <4>3, <5>1, FrontIs
            <4>5. ASSUME NEW i \in 1..(Len(s) - j + 1) PROVE u[i] = (<<s[j]>> \o v)[i]
                <5>1. CASE i = 1
                    <6> HIDE DEF u, v
                    <6> QED
                        BY <1>1, <3>1, <4>1, <4>4, <5>1
                <5>2. CASE i # 1
                    <6>1. i - 1 \in 1..(Len(s) - j) /\ (i - 1) + 1 = i /\ j + (i - 1) = j + i - 1
                        BY <1>1, <3>1, <5>2
                    <6> HIDE DEF u, v
                    <6>2. v[i - 1] = s[j + i - 1] /\ u[i] = s[j + i - 1]
                        BY <4>1, <4>2, <6>1
                    <6>3. (<<s[j]>> \o v)[i] = v[i - 1]
                        BY <4>2, <4>4, <6>1
                    <6> QED
                        BY <6>2, <6>3
                <5> QED
                    BY <5>1, <5>2
            <4> DEFINE w == <<s[j]>> \o v
            <4>6. w \in Seq(Nodes) /\ Len(w) = Len(u) /\ \A i \in 1..Len(u) : u[i] = w[i]
                <5> HIDE DEF u, v
                <5> QED
                    BY <1>1, <3>1, <4>1, <4>2, <4>4, <4>5
            <4>7. u \in Seq(Nodes)
                BY <4>1
            <4>8. u = w
                <5> HIDE DEF u, v, w
                <5> QED
                    BY <4>6, <4>7, SeqEqual, Zenon
            <4> QED
                BY <4>8
        <3> QED
            BY <3>2, <3>5, <3>6
    <2> QED
        BY <2>2, <2>3
<1>8. N \in S
    <2> HIDE DEF S, N
    <2> QED
        BY <1>1, <1>6, <1>7, Induction
<1>9. PICK on : Onwards(on, succ) /\ Follow(first, succ) = on[N][first]
    BY OnwardsExist
<1>10. first = Place(1) /\ Len(s) + 1 - 1 <= N /\ 1 \in 1..(Len(s) + 1)
    BY <1>1, EmptySeq DEF Path
<1>11. on[N][Place(1)] = SubSeq(s, 1, Len(s))
    <2> HIDE DEF N, Place
    <2> QED
        BY <1>8, <1>9, <1>10, <1>1
<1> QED
    BY <1>1, <1>9, <1>10, <1>11, SubSeqFull

-----------------------------------------------------------------------------
(* A list that is linked both ways, and what the code does to one. *)
Linked(s, first, succ, back) == Path(s, first, succ) /\ BothWays(s, back)

LEMMA LinkedIs ==
    ASSUME NEW s, NEW first, NEW succ, NEW back
    PROVE  Linked(s, first, succ, back) <=>
               /\ s \in Seq(Nodes)
               /\ \A i, j \in 1..Len(s) : s[i] = s[j] => i = j
               /\ first = IF Len(s) = 0 THEN None ELSE s[1]
               /\ \A i \in 1..Len(s) : /\ succ[s[i]] = IF i = Len(s) THEN None ELSE s[i + 1]
                                       /\ back[s[i]] = IF i = 1 THEN None ELSE s[i - 1]
<1>1. s \in Seq(Nodes) => /\ Len(s) \in Nat /\ DOMAIN s = 1..Len(s)
                          /\ (s = <<>> <=> Len(s) = 0)
    BY LenProperties, EmptySeq
<1> QED
    BY <1>1, Zenon DEF Linked, Path, BothWays, IsInjective

LEMMA MembersIs ==
    ASSUME NEW s \in Seq(Nodes)
    PROVE  /\ Len(s) \in Nat /\ DOMAIN s = 1..Len(s)
           /\ \A i \in 1..Len(s) : s[i] \in Nodes /\ s[i] # None /\ s[i] \in Members(s)
           /\ \A n : n \in Members(s) <=> \E i \in 1..Len(s) : s[i] = n
<1>1. Len(s) \in Nat /\ DOMAIN s = 1..Len(s) /\ \A i \in 1..Len(s) : s[i] \in Nodes
    BY LenProperties, ElementOfSeq
<1> QED
    BY <1>1, TableAssumption DEF Members

(* Pointers elsewhere do not matter. *)
LEMMA ApartKeeps ==
    ASSUME NEW s, NEW first, NEW succ, NEW back, Linked(s, first, succ, back),
           NEW succ2, NEW back2,
           \A n \in Members(s) : succ2[n] = succ[n] /\ back2[n] = back[n]
    PROVE  Linked(s, first, succ2, back2)
<1>1. s \in Seq(Nodes)
    BY DEF Linked, Path
<1>2. \A i \in 1..Len(s) : s[i] \in Members(s)
    BY <1>1, MembersIs
<1> QED
    BY <1>1, <1>2, LinkedIs

LEMMA FrontKeeps ==
    ASSUME NEW s, NEW first, NEW succ \in [Nodes -> Link], NEW back \in [Nodes -> Link],
           Linked(s, first, succ, back), NEW n \in Nodes, n \notin Members(s)
    PROVE  /\ Linked(<<n>> \o s, n, [succ EXCEPT ![n] = first],
                     Put([back EXCEPT ![n] = None], first, n))
           /\ Members(<<n>> \o s) = Members(s) \cup {n}
           /\ first \in Link /\ (first # None => first \in Members(s))
<1> DEFINE t     == <<n>> \o s
           succ2 == [succ EXCEPT ![n] = first]
           back2 == Put([back EXCEPT ![n] = None], first, n)
<1>1. /\ s \in Seq(Nodes)
      /\ \A i, j \in 1..Len(s) : s[i] = s[j] => i = j
      /\ first = IF Len(s) = 0 THEN None ELSE s[1]
      /\ \A i \in 1..Len(s) : /\ succ[s[i]] = IF i = Len(s) THEN None ELSE s[i + 1]
                              /\ back[s[i]] = IF i = 1 THEN None ELSE s[i - 1]
    BY LinkedIs
<1>2. Len(s) \in Nat /\ \A i \in 1..Len(s) : s[i] \in Nodes /\ s[i] # None /\ s[i] # n
    BY <1>1, MembersIs
<1>3. /\ t \in Seq(Nodes) /\ Len(t) = Len(s) + 1 /\ t[1] = n
      /\ \A i \in 1..Len(s) : t[i + 1] = s[i]
    BY <1>1, FrontIs
<1>4. \A i \in 1..Len(t) : i = 1 \/ (i - 1 \in 1..Len(s) /\ t[i] = s[i - 1])
    <2> SUFFICES ASSUME NEW i \in 1..Len(t), i # 1
                 PROVE  i - 1 \in 1..Len(s) /\ t[i] = s[i - 1]
        OBVIOUS
    <2>1. i - 1 \in 1..Len(s) /\ (i - 1) + 1 = i
        BY <1>2, <1>3
    <2> QED
        BY <1>3, <2>1
<1>5. first \in Link /\ (first # None => Len(s) # 0 /\ first = s[1] /\ first # n)
    BY <1>1, <1>2 DEF Link
<1>6. \A i, j \in 1..Len(t) : t[i] = t[j] => i = j
    <2> SUFFICES ASSUME NEW i \in 1..Len(t), NEW j \in 1..Len(t), t[i] = t[j]
                 PROVE  i = j
        OBVIOUS
    <2>1. CASE i = 1 \/ j = 1
        <3> HIDE DEF t
        <3> QED
            BY <1>2, <1>3, <1>4, <2>1
    <2>2. CASE i # 1 /\ j # 1
        <3>1. i - 1 = j - 1
            <4>1. /\ i - 1 \in 1..Len(s) /\ t[i] = s[i - 1]
                  /\ j - 1 \in 1..Len(s) /\ t[j] = s[j - 1]
                BY <1>4, <2>2
            <4> HIDE DEF t
            <4> QED
                BY <1>1, <4>1
        <3> QED
            BY <1>2, <1>3, <3>1
    <2> QED
        BY <2>1, <2>2
<1>7. /\ succ2[n] = first /\ \A m \in Nodes : m # n => succ2[m] = succ[m]
      /\ back2[n] = None /\ \A m \in Nodes : m # n => back2[m] = IF m = first THEN n ELSE back[m]
    <2>1. succ2[n] = first /\ \A m \in Nodes : m # n => succ2[m] = succ[m]
        OBVIOUS
    <2>2. CASE first = None
        BY <2>2, TableAssumption DEF Put
    <2>3. CASE first # None
        <3>1. first \in Nodes
            BY <1>5, <2>3 DEF Link
        <3> QED
            BY <1>5, <2>3, <3>1 DEF Put
    <2> QED
        BY <2>1, <2>2, <2>3
<1>8. ASSUME NEW i \in 1..Len(t)
      PROVE  /\ succ2[t[i]] = IF i = Len(t) THEN None ELSE t[i + 1]
             /\ back2[t[i]] = IF i = 1 THEN None ELSE t[i - 1]
    <2>1. CASE i = 1
        <3>1. i = Len(t) <=> Len(s) = 0
            BY <1>2, <1>3, <2>1
        <3>2. Len(s) # 0 => t[i + 1] = s[1]
            <4> HIDE DEF t
            <4> QED
                BY <1>2, <1>3, <2>1
        <3> HIDE DEF t, succ2, back2
        <3> QED
            BY <1>1, <1>3, <1>7, <2>1, <3>1, <3>2
    <2>2. CASE i # 1
        <3> DEFINE j == i - 1
        <3>1. j \in 1..Len(s) /\ t[i] = s[j] /\ (i = Len(t) <=> j = Len(s)) /\ i = j + 1
            BY <1>2, <1>3, <1>4, <2>2
        <3>2. s[j] \in Nodes /\ s[j] # n
            <4> HIDE DEF j
            <4> QED
                BY <1>2, <3>1
        <3>3. succ2[s[j]] = succ[s[j]] /\ back2[s[j]] = IF s[j] = first THEN n ELSE back[s[j]]
            <4> HIDE DEF j, succ2, back2
            <4> QED
                BY <1>7, <3>2
        <3>4. s[j] = first <=> j = 1
            <4> HIDE DEF j
            <4>1. Len(s) # 0 /\ first = s[1] /\ 1 \in 1..Len(s)
                BY <1>1, <1>2, <3>1
            <4> QED
                BY <1>1, <3>1, <4>1
        <3>5. i # Len(t) => j + 1 \in 1..Len(s) /\ t[i + 1] = s[j + 1]
            <4> HIDE DEF j, t
            <4>1. i # Len(t) => j + 1 \in 1..Len(s) /\ i + 1 = (j + 1) + 1
                BY <1>2, <1>3, <3>1
            <4> QED
                BY <1>3, <4>1
        <3>6. t[i - 1] = IF j = 1 THEN n ELSE s[j - 1]
            <4> HIDE DEF t
            <4>1. j # 1 => j - 1 \in 1..Len(s) /\ i - 1 = (j - 1) + 1
                BY <1>2, <3>1
            <4> QED
                BY <1>3, <3>1, <4>1
        <3>7. /\ succ[s[j]] = IF j = Len(s) THEN None ELSE s[j + 1]
              /\ back[s[j]] = IF j = 1 THEN None ELSE s[j - 1]
            <4> HIDE DEF j
            <4> QED
                BY <1>1, <3>1
        <3> HIDE DEF t, succ2, back2, j
        <3> QED
            BY <2>2, <3>1, <3>3, <3>4, <3>5, <3>6, <3>7
    <2> QED
        BY <2>1, <2>2
<1>9. Linked(t, n, succ2, back2)
    <2> HIDE DEF t, succ2, back2
    <2>1. Len(t) # 0 /\ n = t[1]
        BY <1>2, <1>3
    <2> QED
        BY <1>3, <1>6, <1>8, <2>1, LinkedIs
<1>10. Members(t) = Members(s) \cup {n}
    <2>1. \A m : m \in Members(t) <=> \E i \in 1..Len(t) : t[i] = m
        <3> HIDE DEF t
        <3> QED
            BY <1>3, MembersIs
    <2>2. \A m : m \in Members(s) <=> \E i \in 1..Len(s) : s[i] = m
        BY <1>1, MembersIs
    <2>3. 1 \in 1..Len(t) /\ \A i \in 1..Len(s) : i + 1 \in 1..Len(t)
        BY <1>2, <1>3
    <2> HIDE DEF t
    <2> QED
        BY <1>3, <1>4, <2>1, <2>2, <2>3
<1> QED
    BY <1>1, <1>2, <1>5, <1>9, <1>10, MembersIs

LEMMA AppendIs ==
    ASSUME NEW X, NEW s \in Seq(X), NEW x \in X
    PROVE  /\ Append(s, x) \in Seq(X) /\ Len(Append(s, x)) = Len(s) + 1
           /\ \A i \in 1..Len(s) : Append(s, x)[i] = s[i]
           /\ Append(s, x)[Len(s) + 1] = x
BY AppendProperties, LenProperties

LEMMA BackKeeps ==
    ASSUME NEW s, NEW first, NEW last, NEW succ \in [Nodes -> Link], NEW back \in [Nodes -> Link],
           Linked(s, first, succ, back), last = IF s = <<>> THEN None ELSE Last(s),
           NEW n \in Nodes, n \notin Members(s)
    PROVE  /\ Linked(Append(s, n), IF first = None THEN n ELSE first,
                     Put([succ EXCEPT ![n] = None], last, n), [back EXCEPT ![n] = last])
           /\ Members(Append(s, n)) = Members(s) \cup {n} /\ last \in Link
           /\ Append(s, n) # <<>> /\ Last(Append(s, n)) = n
<1> DEFINE t     == Append(s, n)
           succ2 == Put([succ EXCEPT ![n] = None], last, n)
           back2 == [back EXCEPT ![n] = last]
<1>1. /\ s \in Seq(Nodes)
      /\ \A i, j \in 1..Len(s) : s[i] = s[j] => i = j
      /\ first = IF Len(s) = 0 THEN None ELSE s[1]
      /\ \A i \in 1..Len(s) : /\ succ[s[i]] = IF i = Len(s) THEN None ELSE s[i + 1]
                              /\ back[s[i]] = IF i = 1 THEN None ELSE s[i - 1]
    BY LinkedIs
<1>2. Len(s) \in Nat /\ \A i \in 1..Len(s) : s[i] \in Nodes /\ s[i] # None /\ s[i] # n
    BY <1>1, MembersIs
<1>3. /\ t \in Seq(Nodes) /\ Len(t) = Len(s) + 1 /\ t[Len(s) + 1] = n
      /\ \A i \in 1..Len(s) : t[i] = s[i]
    BY <1>1, AppendIs
<1>4. last = IF Len(s) = 0 THEN None ELSE s[Len(s)]
    <2>1. s = <<>> <=> Len(s) = 0
        BY <1>1, EmptySeq
    <2> QED
        BY <2>1 DEF Last
<1>5. last \in Link /\ (last # None => Len(s) # 0 /\ last = s[Len(s)] /\ last \in Nodes /\ last # n)
    <2>1. Len(s) # 0 => Len(s) \in 1..Len(s)
        BY <1>2
    <2> QED
        BY <1>2, <1>4, <2>1 DEF Link
<1>6. ASSUME NEW i \in 1..Len(t), NEW j \in 1..Len(t), t[i] = t[j]
      PROVE  i = j
    <2>1. \A k \in 1..Len(t) : k = Len(s) + 1 \/ k \in 1..Len(s)
        BY <1>2, <1>3
    <2> HIDE DEF t
    <2>2. \A k \in 1..Len(s) : t[k] = s[k] /\ s[k] # n
        BY <1>2, <1>3
    <2>3. CASE i \in 1..Len(s) /\ j \in 1..Len(s)
        BY <1>1, <1>6, <2>2, <2>3
    <2>4. CASE i = Len(s) + 1 \/ j = Len(s) + 1
        BY <1>3, <1>6, <2>1, <2>2, <2>4
    <2> QED
        BY <2>1, <2>3, <2>4
<1>7. /\ succ2[n] = None /\ \A m \in Nodes : m # n => succ2[m] = IF m = last THEN n ELSE succ[m]
      /\ back2[n] = last /\ \A m \in Nodes : m # n => back2[m] = back[m]
    <2>1. back2[n] = last /\ \A m \in Nodes : m # n => back2[m] = back[m]
        OBVIOUS
    <2>2. CASE last = None
        BY <2>1, <2>2, TableAssumption DEF Put
    <2>3. CASE last # None
        BY <1>5, <2>1, <2>3 DEF Put
    <2> QED
        BY <2>2, <2>3
<1>8. ASSUME NEW i \in 1..Len(t)
      PROVE  /\ succ2[t[i]] = IF i = Len(t) THEN None ELSE t[i + 1]
             /\ back2[t[i]] = IF i = 1 THEN None ELSE t[i - 1]
    <2>1. CASE i = Len(t)
        <3>1. i = Len(s) + 1 /\ t[i] = n /\ (Len(s) # 0 => i # 1 /\ i - 1 = Len(s) /\ Len(s) \in 1..Len(s))
            BY <1>2, <1>3, <2>1
        <3>2. Len(s) # 0 => t[i - 1] = s[Len(s)]
            <4> HIDE DEF t
            <4> QED
                BY <1>3, <3>1
        <3>3. Len(s) = 0 <=> i = 1
            BY <1>2, <3>1
        <3> HIDE DEF t, succ2, back2
        <3> QED
            BY <1>4, <1>7, <2>1, <3>1, <3>2, <3>3
    <2>2. CASE i # Len(t)
        <3>1. i \in 1..Len(s) /\ i + 1 \in 1..Len(t) /\ (i # 1 => i - 1 \in 1..Len(s))
            BY <1>2, <1>3, <2>2
        <3>2. t[i] = s[i] /\ (i # 1 => t[i - 1] = s[i - 1])
            <4> HIDE DEF t
            <4> QED
                BY <1>3, <3>1
        <3>3. s[i] = last <=> i = Len(s)
            <4>1. Len(s) # 0 /\ last = s[Len(s)] /\ Len(s) \in 1..Len(s)
                BY <1>2, <1>4, <3>1
            <4> QED
                BY <1>1, <3>1, <4>1
        <3>4. t[i + 1] = IF i = Len(s) THEN n ELSE s[i + 1]
            <4>1. i # Len(s) => i + 1 \in 1..Len(s)
                BY <1>2, <3>1
            <4> HIDE DEF t
            <4> QED
                BY <1>3, <3>1, <4>1
        <3>5. /\ succ[s[i]] = IF i = Len(s) THEN None ELSE s[i + 1]
              /\ back[s[i]] = IF i = 1 THEN None ELSE s[i - 1]
            BY <1>1, <3>1
        <3>6. s[i] \in Nodes /\ s[i] # n
            BY <1>2, <3>1
        <3>7. succ2[s[i]] = (IF s[i] = last THEN n ELSE succ[s[i]]) /\ back2[s[i]] = back[s[i]]
            <4> HIDE DEF succ2, back2
            <4> QED
                BY <1>7, <3>6
        <3> HIDE DEF t, succ2, back2
        <3> QED
            BY <2>2, <3>2, <3>3, <3>4, <3>5, <3>7
    <2> QED
        BY <2>1, <2>2
<1>9. (IF first = None THEN n ELSE first) = IF Len(t) = 0 THEN None ELSE t[1]
    <2>1. Len(s) # 0 => 1 \in 1..Len(s) /\ s[1] # None
        BY <1>2
    <2>2. Len(t) # 0 /\ (Len(s) = 0 => t[1] = n)
        <3> HIDE DEF t
        <3> QED
            BY <1>2, <1>3
    <2> HIDE DEF t
    <2> QED
        BY <1>1, <1>3, <2>1, <2>2
<1>10. Linked(t, IF first = None THEN n ELSE first, succ2, back2)
    <2> HIDE DEF t, succ2, back2
    <2> QED
        BY <1>3, <1>6, <1>8, <1>9, LinkedIs
<1>11. Members(t) = Members(s) \cup {n}
    <2>1. \A m : m \in Members(t) <=> \E i \in 1..Len(t) : t[i] = m
        <3> HIDE DEF t
        <3> QED
            BY <1>3, MembersIs
    <2>2. \A m : m \in Members(s) <=> \E i \in 1..Len(s) : s[i] = m
        BY <1>1, MembersIs
    <2>3. Len(s) + 1 \in 1..Len(t) /\ \A i \in 1..Len(t) : i = Len(s) + 1 \/ i \in 1..Len(s)
        BY <1>2, <1>3
    <2>4. \A i \in 1..Len(s) : i \in 1..Len(t)
        BY <1>2, <1>3
    <2> HIDE DEF t
    <2> QED
        BY <1>3, <2>1, <2>2, <2>3, <2>4
<1>12. t # <<>> /\ Last(t) = n
    <2>1. t = <<>> => Len(t) = 0
        BY EmptySeq
    <2> HIDE DEF t
    <2> QED
        BY <1>2, <1>3, <2>1 DEF Last
<1> QED
    BY <1>5, <1>10, <1>11, <1>12

LEMMA RemoveIs ==
    ASSUME NEW X, NEW s \in Seq(X), NEW j \in 1..Len(s)
    PROVE  /\ RemoveAt(s, j) \in Seq(X) /\ Len(RemoveAt(s, j)) = Len(s) - 1
           /\ \A i \in 1..(Len(s) - 1) :
                  RemoveAt(s, j)[i] = IF i < j THEN s[i] ELSE s[i + 1]
<1> DEFINE u == SubSeq(s, 1, j - 1)
           v == SubSeq(s, j + 1, Len(s))
<1>1. Len(s) \in Nat /\ \A i \in 1..Len(s) : s[i] \in X
    BY LenProperties, ElementOfSeq
<1>2. /\ u \in Seq(X) /\ Len(u) = j - 1
      /\ \A i \in 1..(j - 1) : u[i] = s[i]
    <2>1. \A i \in 1..(j - 1) : s[i] \in X
        BY <1>1
    <2>2. /\ u \in Seq(X) /\ Len(u) = IF 1 <= j - 1 THEN (j - 1) - 1 + 1 ELSE 0
          /\ \A i \in 1..((j - 1) - 1 + 1) : u[i] = s[1 + i - 1]
        BY <1>1, <2>1, SubSeqProperties
    <2> HIDE DEF u
    <2>3. \A i \in 1..(j - 1) : i \in 1..((j - 1) - 1 + 1) /\ 1 + i - 1 = i
        OBVIOUS
    <2> QED
        BY <1>1, <2>2, <2>3
<1>3. /\ v \in Seq(X) /\ Len(v) = Len(s) - j
      /\ \A i \in 1..(Len(s) - j) : v[i] = s[j + i]
    <2>1. \A i \in (j + 1)..Len(s) : s[i] \in X
        BY <1>1
    <2>2. /\ v \in Seq(X) /\ Len(v) = IF j + 1 <= Len(s) THEN Len(s) - (j + 1) + 1 ELSE 0
          /\ \A i \in 1..(Len(s) - (j + 1) + 1) : v[i] = s[(j + 1) + i - 1]
        BY <1>1, <2>1, SubSeqProperties
    <2> HIDE DEF v
    <2>3. \A i \in 1..(Len(s) - j) : i \in 1..(Len(s) - (j + 1) + 1) /\ (j + 1) + i - 1 = j + i
        BY <1>1
    <2> QED
        BY <1>1, <2>2, <2>3
<1>4. RemoveAt(s, j) = u \o v
    BY DEF RemoveAt
<1>5. /\ u \o v \in Seq(X) /\ Len(u \o v) = Len(u) + Len(v)
      /\ \A i \in 1 .. Len(u) + Len(v) : (u \o v)[i] = IF i <= Len(u) THEN u[i] ELSE v[i - Len(u)]
    <2>1. u \in Seq(X) /\ v \in Seq(X)
        BY <1>2, <1>3
    <2> HIDE DEF u, v
    <2> QED
        BY <2>1, ConcatProperties
<1>6. ASSUME NEW i \in 1..(Len(s) - 1)
      PROVE  (u \o v)[i] = IF i < j THEN s[i] ELSE s[i + 1]
    <2>0. Len(u) = j - 1 /\ Len(v) = Len(s) - j
        BY <1>2, <1>3
    <2> HIDE DEF u, v
    <2>1. i \in 1 .. Len(u) + Len(v)
        BY <1>1, <2>0
    <2>2. CASE i < j
        <3>1. i \in 1..(j - 1) /\ i <= Len(u)
            BY <1>1, <1>2, <2>2
        <3> QED
            BY <1>2, <1>5, <2>1, <2>2, <3>1
    <2>3. CASE ~(i < j)
        <3>1. ~(i <= Len(u)) /\ i - Len(u) \in 1..(Len(s) - j) /\ j + (i - Len(u)) = i + 1
            BY <1>1, <1>2, <2>3
        <3>2. (u \o v)[i] = v[i - Len(u)] /\ v[i - Len(u)] = s[i + 1]
            BY <1>3, <1>5, <2>1, <3>1
        <3> QED
            BY <2>3, <3>2
    <2> QED
        BY <2>2, <2>3
<1>7. Len(u \o v) = Len(s) - 1
    <2> HIDE DEF u, v
    <2> QED
        BY <1>1, <1>2, <1>3, <1>5
<1> QED
    <2> HIDE DEF u, v
    <2> QED
        BY <1>4, <1>5, <1>6, <1>7

(* What is left when n, the jth of s, is unlinked: its neighbours meet. *)
Cut(s, j, first, succ, back, n) ==
    /\ Linked(RemoveAt(s, j), IF back[n] = None THEN succ[n] ELSE first,
              [Put(succ, back[n], succ[n]) EXCEPT ![n] = None],
              [Put(back, succ[n], back[n]) EXCEPT ![n] = None])
    /\ Members(RemoveAt(s, j)) = Members(s) \ {n}
    /\ n \in Nodes /\ n \in Members(s)
    /\ back[n] \in Members(s) \cup {None} /\ succ[n] \in Members(s) \cup {None}
    /\ (IF RemoveAt(s, j) = <<>> THEN None ELSE Last(RemoveAt(s, j)))
           = IF succ[n] = None THEN back[n] ELSE Last(s)

LEMMA CutKeeps ==
    ASSUME NEW s, NEW first, NEW succ \in [Nodes -> Link], NEW back \in [Nodes -> Link],
           Linked(s, first, succ, back), NEW j \in 1..Len(s), NEW n, n = s[j]
    PROVE  Cut(s, j, first, succ, back, n)
<1> DEFINE t     == RemoveAt(s, j)
           p     == back[n]
           q     == succ[n]
           succ2 == [Put(succ, p, q) EXCEPT ![n] = None]
           back2 == [Put(back, q, p) EXCEPT ![n] = None]
<1>1. /\ s \in Seq(Nodes)
      /\ \A i, k \in 1..Len(s) : s[i] = s[k] => i = k
      /\ first = IF Len(s) = 0 THEN None ELSE s[1]
      /\ \A i \in 1..Len(s) : /\ succ[s[i]] = IF i = Len(s) THEN None ELSE s[i + 1]
                              /\ back[s[i]] = IF i = 1 THEN None ELSE s[i - 1]
    BY LinkedIs
<1>2. Len(s) \in Nat /\ \A i \in 1..Len(s) : s[i] \in Nodes /\ s[i] # None /\ s[i] \in Members(s)
    BY <1>1, MembersIs
<1>3. /\ t \in Seq(Nodes) /\ Len(t) = Len(s) - 1
      /\ \A i \in 1..(Len(s) - 1) : t[i] = IF i < j THEN s[i] ELSE s[i + 1]
    BY <1>1, RemoveIs
<1>4. /\ p = IF j = 1 THEN None ELSE s[j - 1]
      /\ q = IF j = Len(s) THEN None ELSE s[j + 1]
    BY <1>1
<1>5. /\ j # 1 => j - 1 \in 1..Len(s)
      /\ j # Len(s) => j + 1 \in 1..Len(s)
    BY <1>2
<1>6. n \in Nodes /\ n # None /\ n \in Members(s) /\ p # n /\ q # n
    BY <1>1, <1>2, <1>4, <1>5
<1>7. p \in Members(s) \cup {None} /\ q \in Members(s) \cup {None} /\ p \in Link /\ q \in Link
    BY <1>2, <1>4, <1>5 DEF Link
<1>8. \A m \in Nodes : m # n => /\ succ2[m] = IF m = p THEN q ELSE succ[m]
                                /\ back2[m] = IF m = q THEN p ELSE back[m]
    <2>1. \A m \in Nodes : m # n => succ2[m] = IF m = p THEN q ELSE succ[m]
        <3>1. CASE p = None
            BY <3>1, TableAssumption DEF Put
        <3>2. CASE p # None
            BY <3>2, <1>7 DEF Put, Link
        <3> QED
            BY <3>1, <3>2
    <2>2. \A m \in Nodes : m # n => back2[m] = IF m = q THEN p ELSE back[m]
        <3>1. CASE q = None
            BY <3>1, TableAssumption DEF Put
        <3>2. CASE q # None
            BY <3>2, <1>7 DEF Put, Link
        <3> QED
            BY <3>1, <3>2
    <2> QED
        BY <2>1, <2>2
<1>9. ASSUME NEW i \in 1..Len(t), NEW k \in 1..Len(t), t[i] = t[k]
      PROVE  i = k
    <2>1. \A l \in 1..Len(t) : l \in 1..Len(s) /\ l + 1 \in 1..Len(s) /\ l \in 1..(Len(s) - 1)
        BY <1>2, <1>3
    <2> HIDE DEF t
    <2>2. \/ i < j /\ k < j /\ s[i] = s[k]
          \/ i < j /\ ~(k < j) /\ s[i] = s[k + 1]
          \/ ~(i < j) /\ k < j /\ s[i + 1] = s[k]
          \/ ~(i < j) /\ ~(k < j) /\ s[i + 1] = s[k + 1]
        BY <1>3, <1>9, <2>1
    <2>3. \/ i < j /\ k < j /\ i = k
          \/ i < j /\ ~(k < j) /\ i = k + 1
          \/ ~(i < j) /\ k < j /\ i + 1 = k
          \/ ~(i < j) /\ ~(k < j) /\ i + 1 = k + 1
        BY <1>1, <2>1, <2>2
    <2> QED
        BY <1>2, <2>1, <2>3
<1>10. ASSUME NEW i \in 1..Len(t)
       PROVE  /\ succ2[t[i]] = IF i = Len(t) THEN None ELSE t[i + 1]
              /\ back2[t[i]] = IF i = 1 THEN None ELSE t[i - 1]
    <2>1. CASE i < j
        <3>1. i \in 1..Len(s) /\ i \in 1..(Len(s) - 1) /\ i + 1 \in 1..Len(s) /\ i # j
            <4>1. Len(t) = Len(s) - 1
                BY <1>3
            <4> HIDE DEF t
            <4> QED
                BY <1>2, <2>1, <4>1
        <3>2. t[i] = s[i]
            <4> HIDE DEF t
            <4> QED
                BY <1>3, <2>1, <3>1
        <3>3. s[i] \in Nodes /\ s[i] # n
            BY <1>1, <1>2, <3>1
        <3>4. s[i] = p <=> i = j - 1
            BY <1>1, <1>2, <1>4, <1>5, <3>1
        <3>5. s[i] # q
            BY <1>1, <1>2, <1>4, <1>5, <2>1, <3>1
        <3>6. /\ succ2[s[i]] = IF i = j - 1 THEN q ELSE succ[s[i]]
              /\ back2[s[i]] = back[s[i]]
            <4> HIDE DEF succ2, back2, p, q
            <4> QED
                BY <1>8, <3>3, <3>4, <3>5
        <3>7. i # 1 => t[i - 1] = s[i - 1]
            <4>1. i # 1 => i - 1 \in 1..(Len(s) - 1) /\ i - 1 < j
                BY <1>2, <2>1, <3>1
            <4> HIDE DEF t
            <4> QED
                BY <1>3, <4>1
        <3>8. i # Len(t) => t[i + 1] = IF i + 1 < j THEN s[i + 1] ELSE s[i + 2]
            <4>1. i # Len(t) => i + 1 \in 1..(Len(s) - 1) /\ (i + 1) + 1 = i + 2
                BY <1>2, <1>3, <3>1
            <4> HIDE DEF t
            <4> QED
                BY <1>3, <4>1
        <3>9. i = Len(t) <=> i = j - 1 /\ j = Len(s)
            BY <1>2, <1>3, <2>1, <3>1
        <3>10. /\ succ[s[i]] = s[i + 1]
               /\ back[s[i]] = IF i = 1 THEN None ELSE s[i - 1]
            <4>1. i # Len(s)
                BY <1>2, <1>3, <2>1
            <4> QED
                BY <1>1, <3>1, <4>1
        <3>11. q = IF j = Len(s) THEN None ELSE s[j + 1]
            BY <1>4
        <3>12. /\ i = j - 1 => i + 2 = j + 1 /\ ~(i + 1 < j)
               /\ i # j - 1 => i + 1 < j
            BY <2>1, <3>1
        <3> HIDE DEF t, succ2, back2, p, q
        <3>13. succ2[s[i]] = IF i = Len(t) THEN None ELSE t[i + 1]
            BY <3>6, <3>8, <3>9, <3>10, <3>11, <3>12
        <3> QED
            BY <3>2, <3>6, <3>7, <3>10, <3>13
    <2>2. CASE ~(i < j)
        <3> DEFINE l == i + 1
        <3>1. l \in 1..Len(s) /\ i \in 1..(Len(s) - 1) /\ l # j /\ l - 1 = i /\ l # 1
            BY <1>2, <1>3, <2>2
        <3>2. t[i] = s[l]
            <4>1. i \in 1..(Len(s) - 1)
                BY <3>1
            <4> HIDE DEF t
            <4> QED
                BY <1>3, <2>2, <4>1
        <3> HIDE DEF l
        <3>3. s[l] \in Nodes /\ s[l] # n
            BY <1>1, <1>2, <3>1
        <3>4. s[l] = q <=> l = j + 1
            BY <1>1, <1>2, <1>4, <1>5, <3>1
        <3>5. s[l] # p
            <4>1. j # 1 => l # j - 1
                BY <1>2, <2>2, <3>1
            <4> QED
                BY <1>1, <1>2, <1>4, <1>5, <3>1, <4>1
        <3>6. /\ succ2[s[l]] = succ[s[l]]
              /\ back2[s[l]] = IF l = j + 1 THEN p ELSE back[s[l]]
            <4> HIDE DEF succ2, back2, p, q
            <4> QED
                BY <1>8, <3>3, <3>4, <3>5
        <3>7. i # 1 => t[i - 1] = IF i - 1 < j THEN s[i - 1] ELSE s[i]
            <4>1. i # 1 => i - 1 \in 1..(Len(s) - 1) /\ (i - 1) + 1 = i
                BY <1>2, <3>1
            <4> HIDE DEF t
            <4> QED
                BY <1>3, <4>1
        <3>8. i # Len(t) => t[i + 1] = s[l + 1]
            <4>1. i # Len(t) => i + 1 \in 1..(Len(s) - 1) /\ ~(i + 1 < j) /\ i + 1 = l
                BY <1>2, <1>3, <2>2, <3>1
            <4> HIDE DEF t
            <4> QED
                BY <1>3, <4>1
        <3>9. (i = Len(t) <=> l = Len(s)) /\ (l = j + 1 <=> i = j)
            BY <1>2, <1>3, <2>2, <3>1
        <3>10. /\ succ[s[l]] = IF l = Len(s) THEN None ELSE s[l + 1]
               /\ back[s[l]] = s[i]
            BY <1>1, <3>1
        <3>11. p = IF j = 1 THEN None ELSE s[j - 1]
            BY <1>4
        <3>12. /\ i = j => i - 1 = j - 1 /\ i - 1 < j
               /\ i # j => ~(i - 1 < j) /\ i # 1
            BY <2>2, <3>1
        <3> HIDE DEF t, succ2, back2, p, q
        <3>13. back2[s[l]] = IF i = 1 THEN None ELSE t[i - 1]
            BY <3>6, <3>7, <3>9, <3>10, <3>11, <3>12
        <3> QED
            BY <3>2, <3>6, <3>8, <3>9, <3>10, <3>13
    <2> QED
        BY <2>1, <2>2
<1>11. (IF p = None THEN q ELSE first) = IF Len(t) = 0 THEN None ELSE t[1]
    <2>1. Len(s) # 0 /\ first = s[1] /\ (j # 1 => p # None)
        BY <1>1, <1>2, <1>4, <1>5
    <2>2. CASE j = 1
        <3>1. p = None /\ (Len(t) = 0 <=> j = Len(s))
            BY <1>2, <1>3, <1>4, <2>2
        <3>2. Len(t) # 0 => t[1] = s[j + 1]
            <4>1. Len(t) # 0 => 1 \in 1..(Len(s) - 1) /\ ~(1 < j) /\ 1 + 1 = j + 1
                BY <1>2, <1>3, <2>2
            <4> HIDE DEF t
            <4> QED
                BY <1>3, <4>1
        <3> HIDE DEF t, p, q
        <3> QED
            BY <1>4, <3>1, <3>2
    <2>3. CASE j # 1
        <3>1. 1 \in 1..(Len(s) - 1) /\ 1 < j /\ Len(t) # 0
            BY <1>2, <1>3, <2>3
        <3>2. t[1] = s[1]
            <4> HIDE DEF t
            <4> QED
                BY <1>3, <3>1
        <3> HIDE DEF t, p, q
        <3> QED
            BY <2>1, <2>3, <3>1, <3>2
    <2> QED
        BY <2>2, <2>3
<1>12. Linked(t, IF p = None THEN q ELSE first, succ2, back2)
    <2> HIDE DEF t, succ2, back2, p, q
    <2> QED
        BY <1>3, <1>9, <1>10, <1>11, LinkedIs
<1>13. Members(t) = Members(s) \ {n}
    <2>1. \A m : m \in Members(t) <=> \E i \in 1..Len(t) : t[i] = m
        <3> HIDE DEF t
        <3> QED
            BY <1>3, MembersIs
    <2>2. \A m : m \in Members(s) <=> \E i \in 1..Len(s) : s[i] = m
        BY <1>1, MembersIs
    <2>3. ASSUME NEW m, m \in Members(t) PROVE m \in Members(s) \ {n}
        <3>1. PICK i \in 1..Len(t) : t[i] = m
            BY <2>1, <2>3
        <3>2. i \in 1..(Len(s) - 1) /\ i \in 1..Len(s) /\ i + 1 \in 1..Len(s)
            BY <1>2, <1>3
        <3>3. m = IF i < j THEN s[i] ELSE s[i + 1]
            <4> HIDE DEF t
            <4> QED
                BY <1>3, <3>1, <3>2
        <3> QED
            BY <1>1, <1>2, <3>2, <3>3
    <2>4. ASSUME NEW m, m \in Members(s), m # n PROVE m \in Members(t)
        <3>1. PICK i \in 1..Len(s) : s[i] = m
            BY <2>2, <2>4
        <3>2. i # j
            BY <2>4, <3>1
        <3>3. CASE i < j
            <4>1. i \in 1..(Len(s) - 1) /\ i \in 1..Len(t)
                BY <1>2, <1>3, <3>3
            <4> HIDE DEF t
            <4> QED
                BY <1>3, <2>1, <3>1, <3>3, <4>1
        <3>4. CASE i > j
            <4>1. i - 1 \in 1..(Len(s) - 1) /\ i - 1 \in 1..Len(t) /\ ~(i - 1 < j) /\ (i - 1) + 1 = i
                BY <1>2, <1>3, <3>4
            <4>2. t[i - 1] = m
                <5> HIDE DEF t
                <5> QED
                    BY <1>3, <3>1, <4>1
            <4> HIDE DEF t
            <4> QED
                BY <2>1, <4>1, <4>2
        <3> QED
            BY <1>2, <3>2, <3>3, <3>4
    <2> QED
        BY <2>3, <2>4
<1>14. (IF t = <<>> THEN None ELSE Last(t)) = IF q = None THEN p ELSE Last(s)
    <2>1. (t = <<>> <=> Len(t) = 0) /\ Last(s) = s[Len(s)]
        BY <1>3, EmptySeq DEF Last
    <2>2. CASE j = Len(s)
        <3>1. q = None /\ (Len(t) = 0 <=> j = 1)
            BY <1>2, <1>3, <1>4, <2>2
        <3>2. Len(t) # 0 => t[Len(t)] = s[j - 1]
            <4>1. Len(t) # 0 => Len(t) \in 1..(Len(s) - 1) /\ Len(t) < j /\ Len(t) = j - 1
                BY <1>2, <1>3, <2>2
            <4> HIDE DEF t
            <4> QED
                BY <1>3, <4>1
        <3> HIDE DEF t, p, q
        <3> QED
            BY <1>4, <2>1, <3>1, <3>2 DEF Last
    <2>3. CASE j # Len(s)
        <3>1. Len(t) # 0 /\ Len(t) \in 1..(Len(s) - 1) /\ ~(Len(t) < j) /\ Len(t) + 1 = Len(s)
            BY <1>2, <1>3, <2>3
        <3>2. t[Len(t)] = s[Len(s)]
            <4> HIDE DEF t
            <4> QED
                BY <1>3, <3>1
        <3>3. q # None
            BY <1>2, <1>4, <1>5, <2>3
        <3> HIDE DEF t, p, q
        <3> QED
            BY <2>1, <3>1, <3>2, <3>3 DEF Last
    <2> QED
        BY <2>2, <2>3
<1> QED
    BY <1>6, <1>7, <1>12, <1>13, <1>14 DEF Cut

-----------------------------------------------------------------------------
(* The buckets: at says for each node which one it belongs to, and S are the
   nodes that are in theirs. *)
Chained(c, s, at, S) ==
    /\ c.bucket \in [0..(s - 1) -> Link]
    /\ c.vnext \in [Nodes -> Link] /\ c.vprev \in [Nodes -> Link]
    /\ \A i \in 0..(s - 1) :
           \E b : /\ Linked(b, c.bucket[i], c.vnext, c.vprev)
                  /\ Members(b) = {n \in S : at[n] = i}

(* An empty bucket array holds no node. *)
LEMMA NoneChained ==
    ASSUME NEW s \in Nat, NEW at
    PROVE  Chained(NoChain(s), s, at, {})
<1>1. NoNodes \in [Nodes -> Link]
    BY DEF NoNodes, Link
<1>2. /\ NoChain(s).bucket \in [0..(s - 1) -> Link]
      /\ \A i \in 0..(s - 1) : NoChain(s).bucket[i] = None
    BY DEF NoChain, Link
<1>3. NoChain(s).vnext = NoNodes /\ NoChain(s).vprev = NoNodes
    BY DEF NoChain
<1>4. Linked(<<>>, None, NoNodes, NoNodes)
    <2>1. <<>> \in Seq(Nodes) /\ Len(<<>>) = 0 /\ \A i \in 1..0 : FALSE
        OBVIOUS
    <2>2. \A i \in 1..Len(<<>>) : FALSE
        BY <2>1
    <2> QED
        BY <2>1, <2>2, LinkedIs
<1>5. Members(<<>>) = {}
    BY DEF Members
<1> QED
    BY <1>1, <1>2, <1>3, <1>4, <1>5 DEF Chained

(* A node that is in no bucket goes to the front of one: the other buckets stay. *)
LEMMA LinkChained ==
    ASSUME NEW c, NEW s \in Nat, NEW at, NEW S, Chained(c, s, at, S),
           NEW n \in Nodes, n \notin S, NEW i \in 0..(s - 1),
           NEW at2, at2[n] = i, \A m \in S : at2[m] = at[m]
    PROVE  Chained(LinkChain(c, n, i), s, at2, S \cup {n})
<1> DEFINE vnext == [c.vnext EXCEPT ![n] = c.bucket[i]]
           vprev == Put([c.vprev EXCEPT ![n] = None], c.bucket[i], n)
           e     == LinkChain(c, n, i)
<1>1. /\ e.bucket = [c.bucket EXCEPT ![i] = n]
      /\ e.vnext = vnext /\ e.vprev = vprev
    BY DEF LinkChain
<1>2. /\ c.bucket \in [0..(s - 1) -> Link]
      /\ c.vnext \in [Nodes -> Link] /\ c.vprev \in [Nodes -> Link]
      /\ c.bucket[i] \in Link
    BY DEF Chained
<1>3. PICK b : /\ Linked(b, c.bucket[i], c.vnext, c.vprev)
               /\ Members(b) = {m \in S : at[m] = i}
    BY DEF Chained
<1>4. n \notin Members(b)
    BY <1>3
<1>5. /\ Linked(<<n>> \o b, n, vnext, vprev)
      /\ Members(<<n>> \o b) = Members(b) \cup {n}
      /\ c.bucket[i] # None => c.bucket[i] \in Members(b)
    BY <1>2, <1>3, <1>4, FrontKeeps
<1>6. /\ e.bucket \in [0..(s - 1) -> Link]
      /\ vnext \in [Nodes -> Link] /\ vprev \in [Nodes -> Link]
    BY <1>1, <1>2 DEF Put, Link
<1>7. \A m \in Nodes : /\ m # n => vnext[m] = c.vnext[m]
                       /\ m # n /\ m # c.bucket[i] => vprev[m] = c.vprev[m]
    BY <1>2, <1>6 DEF Put, Link
<1>8. ASSUME NEW l \in 0..(s - 1)
      PROVE  \E d : /\ Linked(d, e.bucket[l], vnext, vprev)
                    /\ Members(d) = {m \in S \cup {n} : at2[m] = l}
    <2>1. CASE l = i
        <3>1. e.bucket[l] = n
            BY <1>1, <1>2, <2>1
        <3>2. Members(<<n>> \o b) = {m \in S \cup {n} : at2[m] = l}
            BY <1>3, <1>5, <2>1
        <3> QED
            BY <1>5, <3>1, <3>2
    <2>2. CASE l # i
        <3>1. e.bucket[l] = c.bucket[l]
            BY <1>1, <1>2, <2>2
        <3>2. PICK d : /\ Linked(d, c.bucket[l], c.vnext, c.vprev)
                       /\ Members(d) = {m \in S : at[m] = l}
            BY DEF Chained
        <3>3. \A m \in Members(d) : m \in Nodes
            BY <3>2, LinkedIs, MembersIs
        <3>4. \A m \in Members(d) : m # n /\ m # c.bucket[i]
            <4>1. \A m \in Members(d) : m \notin Members(b) /\ m # n
                BY <1>3, <2>2, <3>2
            <4>2. None \notin Nodes
                BY TableAssumption
            <4> QED
                BY <1>5, <3>3, <4>1, <4>2
        <3>5. Linked(d, c.bucket[l], vnext, vprev)
            <4>1. \A m \in Members(d) : vnext[m] = c.vnext[m] /\ vprev[m] = c.vprev[m]
                BY <1>7, <3>3, <3>4
            <4> HIDE DEF vnext, vprev
            <4> QED
                BY <3>2, <4>1, ApartKeeps
        <3>6. Members(d) = {m \in S \cup {n} : at2[m] = l}
            BY <2>2, <3>2
        <3> QED
            BY <3>1, <3>5, <3>6
    <2> QED
        BY <2>1, <2>2
<1>9. Chained(e, s, at2, S \cup {n})
    <2> HIDE DEF e, vnext, vprev
    <2> QED
        BY <1>1, <1>6, <1>8 DEF Chained
<1> QED
    BY <1>9

(* A node is taken out of its bucket: the other buckets stay. *)
LEMMA UnlinkChained ==
    ASSUME NEW c, NEW s \in Nat, NEW at, NEW S, Chained(c, s, at, S),
           NEW n \in S, NEW i \in 0..(s - 1), at[n] = i,
           NEW at2, \A m \in S : m # n => at2[m] = at[m]
    PROVE  Chained(UnlinkChain(c, n, i), s, at2, S \ {n})
<1> DEFINE p     == c.vprev[n]
           q     == c.vnext[n]
           vnext == [Put(c.vnext, p, q) EXCEPT ![n] = None]
           vprev == [Put(c.vprev, q, p) EXCEPT ![n] = None]
           e     == UnlinkChain(c, n, i)
<1>1. /\ e.bucket = IF p = None THEN [c.bucket EXCEPT ![i] = q] ELSE c.bucket
      /\ e.vnext = vnext /\ e.vprev = vprev
    BY DEF UnlinkChain
<1>2. /\ c.bucket \in [0..(s - 1) -> Link]
      /\ c.vnext \in [Nodes -> Link] /\ c.vprev \in [Nodes -> Link]
    BY DEF Chained
<1>3. PICK b : /\ Linked(b, c.bucket[i], c.vnext, c.vprev)
               /\ Members(b) = {m \in S : at[m] = i}
    BY DEF Chained
<1>4. PICK j \in 1..Len(b) : b[j] = n
    BY <1>3, LinkedIs, MembersIs
<1>5. /\ Linked(RemoveAt(b, j), IF p = None THEN q ELSE c.bucket[i], vnext, vprev)
      /\ Members(RemoveAt(b, j)) = Members(b) \ {n}
      /\ n \in Nodes
      /\ p \in Members(b) \cup {None} /\ q \in Members(b) \cup {None}
    <2>1. n = b[j]
        BY <1>4
    <2>2. Linked(b, c.bucket[i], c.vnext, c.vprev)
        BY <1>3
    <2>3. Cut(b, j, c.bucket[i], c.vnext, c.vprev, n)
        BY <1>2, <2>1, <2>2, CutKeeps
    <2> QED
        BY <2>3 DEF Cut
<1>6. /\ p \in Link /\ q \in Link
      /\ vnext \in [Nodes -> Link] /\ vprev \in [Nodes -> Link]
    <2>1. p \in Link /\ q \in Link
        BY <1>2, <1>5
    <2>2. Put(c.vnext, p, q) \in [Nodes -> Link] /\ Put(c.vprev, q, p) \in [Nodes -> Link]
        BY <1>2, <2>1 DEF Put
    <2> QED
        BY <2>1, <2>2 DEF Link
<1>7. e.bucket \in [0..(s - 1) -> Link]
    BY <1>1, <1>2, <1>6
<1>8. \A m \in Nodes : /\ m # n /\ m # p => vnext[m] = c.vnext[m]
                       /\ m # n /\ m # q => vprev[m] = c.vprev[m]
    BY <1>2, <1>6 DEF Put, Link
<1>9. ASSUME NEW l \in 0..(s - 1)
      PROVE  \E d : /\ Linked(d, e.bucket[l], vnext, vprev)
                    /\ Members(d) = {m \in S \ {n} : at2[m] = l}
    <2>1. CASE l = i
        <3>1. e.bucket[l] = IF p = None THEN q ELSE c.bucket[i]
            BY <1>1, <1>2, <2>1
        <3>2. Members(RemoveAt(b, j)) = {m \in S \ {n} : at2[m] = l}
            BY <1>3, <1>5, <2>1
        <3> QED
            BY <1>5, <3>1, <3>2
    <2>2. CASE l # i
        <3>1. e.bucket[l] = c.bucket[l]
            BY <1>1, <1>2, <2>2
        <3>2. PICK d : /\ Linked(d, c.bucket[l], c.vnext, c.vprev)
                       /\ Members(d) = {m \in S : at[m] = l}
            BY DEF Chained
        <3>3. \A m \in Members(d) : m \in Nodes /\ m # None
            BY <3>2, LinkedIs, MembersIs
        <3>4. \A m \in Members(d) : m \notin Members(b) /\ m # n
            BY <1>3, <2>2, <3>2
        <3>5. \A m \in Members(d) : m # p /\ m # q
            BY <1>5, <3>3, <3>4
        <3>6. Linked(d, c.bucket[l], vnext, vprev)
            <4>1. \A m \in Members(d) : vnext[m] = c.vnext[m] /\ vprev[m] = c.vprev[m]
                BY <1>8, <3>3, <3>4, <3>5
            <4> HIDE DEF vnext, vprev
            <4> QED
                BY <3>2, <4>1, ApartKeeps
        <3>7. Members(d) = {m \in S \ {n} : at2[m] = l}
            BY <2>2, <3>2
        <3> QED
            BY <3>1, <3>6, <3>7
    <2> QED
        BY <2>1, <2>2
<1>10. Chained(e, s, at2, S \ {n})
    <2> HIDE DEF e, vnext, vprev
    <2> QED
        BY <1>1, <1>6, <1>7, <1>9 DEF Chained
<1> QED
    BY <1>10

-----------------------------------------------------------------------------
(* The bucket each node's key belongs to in an array of s. *)
Hash(s) == [n \in Nodes |-> Index(key[n], s)]

LEMMA IndexIs ==
    ASSUME NEW k \in Keys, NEW s \in Nat \ {0}
    PROVE  Index(k, s) \in 0..(s - 1)
<1>1. NumKey[k] \in Nat
    BY TableAssumption
<1> QED
    BY <1>1 DEF Index

(* What a lookup returns: a node in use with that key, or nothing if there is none. *)
LEMMA LookupIs ==
    ASSUME NEW c, NEW s \in Nat \ {0}, Chained(c, s, Hash(s), InUse),
           NEW k \in Keys
    PROVE  \/ Lookup(k, c, s) = None /\ \A m \in InUse : key[m] # k
           \/ Lookup(k, c, s) \in InUse /\ key[Lookup(k, c, s)] = k
<1> DEFINE i == Index(k, s)
<1>1. i \in 0..(s - 1)
    BY IndexIs
<1>2. PICK b : /\ Linked(b, c.bucket[i], c.vnext, c.vprev)
               /\ Members(b) = {n \in InUse : Hash(s)[n] = i}
    BY <1>1 DEF Chained
<1>3. Follow(c.bucket[i], c.vnext) = b
    BY <1>2, FollowIs DEF Linked, Chained
<1> DEFINE found == {j \in DOMAIN b : key[b[j]] = k}
<1>4. Lookup(k, c, s) = IF found = {} THEN None ELSE b[Min(found)]
    BY <1>3 DEF Lookup
<1>5. /\ b \in Seq(Nodes) /\ DOMAIN b = 1..Len(b) /\ Len(b) \in Nat
      /\ \A n : n \in Members(b) <=> \E j \in 1..Len(b) : b[j] = n
    BY <1>2, LinkedIs, MembersIs
<1>6. CASE found = {}
    <2>1. ASSUME NEW m \in InUse, key[m] = k PROVE FALSE
        <3>1. Hash(s)[m] = i
            BY <2>1 DEF Hash, InUse
        <3>2. m \in Members(b)
            BY <1>2, <3>1
        <3> QED
            BY <1>5, <1>6, <2>1, <3>2
    <2> QED
        BY <1>4, <1>6, <2>1
<1>7. CASE found # {}
    <2>1. found \subseteq Nat
        BY <1>5
    <2>2. Min(found) \in found
        <3> HIDE DEF found
        <3> QED
            BY <1>7, <2>1, MinIs
    <2>3. b[Min(found)] \in InUse /\ key[b[Min(found)]] = k
        BY <1>2, <1>5, <2>2
    <2> QED
        BY <1>4, <1>7, <2>3
<1> QED
    BY <1>6, <1>7

(* What the doubling builds, bucket by bucket, after each node of the list. *)
Building(built, list, s) ==
    built = [i \in 0..Len(list) |->
                IF i = 0 THEN NoChain(s)
                ELSE LinkChain(built[i - 1], list[i], Index(key[list[i]], s))]

LEMMA RelinkedIs ==
    ASSUME NEW list, List = list, NEW s, NEW some, Building(some, list, s)
    PROVE  \E built : Building(built, list, s) /\ Relinked(s) = built[Len(list)]
<1> DEFINE P(x) == Building(x, list, s)
<1>1. P(CHOOSE x : P(x))
    <2> HIDE DEF P
    <2>1. P(some)
        BY DEF P
    <2> QED
        BY <2>1, Zenon
<1>2. Relinked(s) = (CHOOSE x : P(x))[Len(list)]
    BY Zenon DEF Relinked, Building
<1> QED
    BY <1>1, <1>2, Zenon

LEMMA RelinkedExists ==
    ASSUME NEW list \in Seq(Nodes), List = list, NEW s \in Nat \ {0},
           \A i \in 1..Len(list) : key[list[i]] \in Keys
    PROVE  \E built : Building(built, list, s) /\ Relinked(s) = built[Len(list)]
<1> DEFINE N    == Len(list)
           T    == [bucket : [0..(s - 1) -> Link], vnext : [Nodes -> Link], vprev : [Nodes -> Link]]
           base == NoChain(s)
           To(i, c) == LinkChain(c, list[i], Index(key[list[i]], s))
           step == [i \in 1..N |-> [c \in T |-> To(i, c)]]
<1>1. N \in Nat /\ \A i \in 1..N : list[i] \in Nodes
    BY MembersIs
<1>2. base \in T
    BY DEF NoChain, NoNodes, Link
<1>3. ASSUME NEW i \in 1..N, NEW c \in T PROVE To(i, c) \in T
    <2> DEFINE n == list[i]
               l == Index(key[list[i]], s)
    <2>1. n \in Nodes /\ n \in Link /\ l \in 0..(s - 1)
        BY <1>1, IndexIs DEF Link
    <2>2. c.bucket \in [0..(s - 1) -> Link] /\ c.vnext \in [Nodes -> Link] /\ c.vprev \in [Nodes -> Link]
        OBVIOUS
    <2> HIDE DEF n, l
    <2>3. c.bucket[l] \in Link
        BY <2>1, <2>2
    <2>4. /\ [c.bucket EXCEPT ![l] = n] \in [0..(s - 1) -> Link]
          /\ [c.vnext EXCEPT ![n] = c.bucket[l]] \in [Nodes -> Link]
        BY <2>1, <2>2, <2>3
    <2>5. Put([c.vprev EXCEPT ![n] = None], c.bucket[l], n) \in [Nodes -> Link]
        BY <2>1, <2>2, <2>3 DEF Put, Link
    <2>6. LinkChain(c, n, l) \in T
        BY <2>4, <2>5 DEF LinkChain
    <2> QED
        BY <2>6 DEF n, l
<1>4. step \in [1..N -> [T -> T]]
    BY <1>3
<1>5. PICK f \in [0..N -> T] : Iterates(f, N, base, step)
    <2> HIDE DEF N, T, base, step
    <2> QED
        BY <1>1, <1>2, <1>4, Recursion
<1>6. ASSUME NEW i \in 0..N
      PROVE  f[i] = IF i = 0 THEN NoChain(s) ELSE To(i, f[i - 1])
    <2>1. f[i] = IF i = 0 THEN base ELSE step[i][f[i - 1]]
        BY <1>5 DEF Iterates
    <2>2. CASE i = 0
        BY <2>1, <2>2
    <2>3. CASE i # 0
        <3>0. i \in 1..N /\ i - 1 \in 0..N
            BY <1>1, <2>3
        <3>1. i \in 1..N /\ f[i - 1] \in T
            <4> HIDE DEF N, T
            <4> QED
                BY <3>0
        <3>2. step[i][f[i - 1]] = To(i, f[i - 1])
            <4> HIDE DEF N, T, To
            <4> QED
                BY <3>1
        <3> QED
            BY <2>1, <2>3, <3>2
    <2> QED
        BY <2>2, <2>3
<1>7. Building(f, list, s)
    <2>1. f = [i \in 0..N |-> f[i]]
        OBVIOUS
    <2> QED
        BY <1>6, <2>1 DEF Building
<1> QED
    BY <1>7, RelinkedIs, Zenon

(* A doubled table has every node in the bucket of its key again. *)
LEMMA RelinkedChained ==
    ASSUME next \in [Nodes -> Link], key \in [Nodes -> Keys \cup {None}],
           NEW list, Linked(list, head, next, prev), Members(list) = InUse,
           NEW s \in Nat \ {0}
    PROVE  Chained(Relinked(s), s, Hash(s), InUse)
<1>1. List = list
    BY FollowIs DEF Linked, List
<1>2. /\ list \in Seq(Nodes)
      /\ \A i, j \in 1..Len(list) : list[i] = list[j] => i = j
    BY LinkedIs
<1>3. /\ Len(list) \in Nat
      /\ \A i \in 1..Len(list) : list[i] \in Nodes /\ list[i] \in InUse
      /\ \A n : n \in InUse <=> \E i \in 1..Len(list) : list[i] = n
    BY <1>2, MembersIs
<1>4. \A i \in 1..Len(list) : key[list[i]] \in Keys
    BY <1>3 DEF InUse
<1>5. PICK built : Building(built, list, s) /\ Relinked(s) = built[Len(list)]
    BY <1>1, <1>2, <1>4, RelinkedExists
<1> DEFINE Upto(d) == {list[i] : i \in 1..d}
           S == {d \in Nat : d <= Len(list) => Chained(built[d], s, Hash(s), Upto(d))}
<1>6. 0 \in S
    <2>1. 0 \in 0..Len(list) /\ \A i \in 1..0 : FALSE
        BY <1>3
    <2>2. built[0] = NoChain(s)
        BY <1>5, <2>1 DEF Building
    <2>3. Upto(0) = {}
        BY <2>1
    <2>4. Chained(NoChain(s), s, Hash(s), {})
        BY NoneChained
    <2> HIDE DEF Upto
    <2> QED
        BY <2>2, <2>3, <2>4
<1>7. ASSUME NEW d \in Nat, d \in S PROVE d + 1 \in S
    <2> SUFFICES ASSUME d + 1 <= Len(list)
                 PROVE  Chained(built[d + 1], s, Hash(s), Upto(d + 1))
        OBVIOUS
    <2> DEFINE n == list[d + 1]
               l == Index(key[n], s)
    <2>1. d + 1 \in 1..Len(list) /\ d + 1 \in 0..Len(list) /\ d <= Len(list) /\ d + 1 # 0
          /\ (d + 1) - 1 = d
        BY <1>3
    <2>2. built[d + 1] = LinkChain(built[d], n, l)
        BY <1>5, <2>1 DEF Building
    <2>3. Chained(built[d], s, Hash(s), Upto(d))
        BY <1>7, <2>1
    <2>4. n \in Nodes /\ l \in 0..(s - 1) /\ Hash(s)[n] = l
        BY <1>3, <1>4, <2>1, IndexIs DEF Hash
    <2>5. \A i \in 1..d : i \in 1..Len(list) /\ i # d + 1
        BY <1>3, <2>1
    <2>6. n \notin Upto(d)
        BY <1>2, <2>1, <2>5
    <2>7. Upto(d + 1) = Upto(d) \cup {n}
        <3>1. \A i : i \in 1..(d + 1) <=> i \in 1..d \/ i = d + 1
            OBVIOUS
        <3> QED
            BY <3>1
    <2> HIDE DEF n, l, Upto
    <2>8. Chained(LinkChain(built[d], n, l), s, Hash(s), Upto(d) \cup {n})
        BY <2>3, <2>4, <2>6, LinkChained
    <2> QED
        BY <2>2, <2>7, <2>8
<1>8. Len(list) \in S
    <2> HIDE DEF S
    <2> QED
        BY <1>3, <1>6, <1>7, Induction
<1>9. Upto(Len(list)) = InUse
    BY <1>3
<1> HIDE DEF Upto
<1> QED
    BY <1>3, <1>5, <1>8, <1>9

-----------------------------------------------------------------------------
(* The inductive invariant.  What the code follows with a loop is stated with
   the list that the loop goes along. *)

(* s are the nodes in the order they came. *)
Listed(s) ==
    /\ Linked(s, head, next, prev)
    /\ Members(s) = InUse /\ Len(s) = count
    /\ tail = IF s = <<>> THEN None ELSE Last(s)

Hashed     == Chained(chain, size, Hash(size), InUse)
KeysApart  == \A n, m \in InUse : key[n] = key[m] => n = m
CursorHeld == curr # None /\ ~stale => curr \in InUse

HInv ==
    /\ TypeOK /\ size # 0
    /\ \E s : Listed(s)
    /\ Hashed /\ KeysApart /\ CursorHeld /\ ValuesAccounted

LEMMA ListedIs ==
    ASSUME TypeOK, NEW s, Listed(s)
    PROVE  List = s
BY FollowIs DEF Listed, Linked, List, TypeOK

(* What a resize leaves, done or not: the same nodes, in the buckets of their keys. *)
LEMMA ResizedIs ==
    ASSUME HInv, NEW r \in Resized
    PROVE  r[1] \in Nat \ {0} /\ Chained(r[2], r[1], Hash(r[1]), InUse)
<1>1. size \in Nat \ {0} /\ 2 * size \in Nat \ {0}
    BY DEF HInv, TypeOK
<1>2. PICK s : Listed(s)
    BY DEF HInv
<1>3. Chained(Relinked(2 * size), 2 * size, Hash(2 * size), InUse)
    BY <1>1, <1>2, RelinkedChained DEF HInv, TypeOK, Listed
<1>4. r = <<2 * size, Relinked(2 * size)>> \/ r = <<size, chain>>
    BY DEF Resized
<1> QED
    BY <1>1, <1>3, <1>4 DEF HInv, Hashed

(* The state that a step of Init, of a reset and of the last free is in. *)
Empty ==
    /\ count = 0 /\ head = None /\ tail = None /\ curr = None
    /\ key = NoNodes /\ value = NoNodes /\ next = NoNodes /\ prev = NoNodes
    /\ chain = NoChain(size)
    /\ stale = FALSE /\ held = {} /\ lost \subseteq Values
    /\ size \in Nat \ {0} /\ refs \in Nat /\ alive \in BOOLEAN

LEMMA EmptyIs == Empty => HInv /\ Listed(<<>>)
<1> SUFFICES ASSUME Empty PROVE HInv /\ Listed(<<>>)
    OBVIOUS
<1>1. InUse = {}
    BY DEF Empty, NoNodes, InUse
<1>2. Chained(chain, size, Hash(size), InUse)
    BY <1>1, NoneChained DEF Empty
<1>3. NoNodes \in [Nodes -> Link] /\ NoNodes \in [Nodes -> Keys \cup {None}]
      /\ NoNodes \in [Nodes -> Values \cup {None}] /\ None \in Link
    BY DEF NoNodes, Link
<1>4. TypeOK
    BY <1>2, <1>3 DEF TypeOK, Empty, Chained
<1>5. Linked(<<>>, None, NoNodes, NoNodes) /\ Members(<<>>) = {} /\ Len(<<>>) = 0
    <2>1. <<>> \in Seq(Nodes) /\ Len(<<>>) = 0 /\ \A i \in 1..0 : FALSE
        OBVIOUS
    <2>2. \A i \in 1..Len(<<>>) : FALSE
        BY <2>1
    <2>3. Members(<<>>) = {}
        BY DEF Members
    <2> QED
        BY <2>1, <2>2, <2>3, LinkedIs
<1>6. Listed(<<>>)
    BY <1>1, <1>5 DEF Listed, Empty
<1>7. KeysApart /\ CursorHeld /\ ValuesAccounted
    BY <1>1 DEF KeysApart, CursorHeld, ValuesAccounted, Empty
<1>8. size # 0
    BY DEF Empty
<1> QED
    BY <1>2, <1>4, <1>6, <1>7, <1>8 DEF HInv, Hashed

(* The key is known: the list and what is in it stay. *)
LEMMA KnownStep ==
    ASSUME HInv, NEW k \in Keys, NEW v \in Values \ (held \cup lost), NEW force \in BOOLEAN,
           AddKnown(k, v, force)
    PROVE  /\ HInv' /\ UNCHANGED <<List, key, curr, stale>>
           /\ \E n \in InUse : /\ key[n] = k
                               /\ value' = IF force THEN [value EXCEPT ![n] = v] ELSE value
<1>1. PICK r \in Resized : LET n == Lookup(k, r[2], r[1]) IN
           /\ n # None
           /\ size' = r[1] /\ chain' = r[2]
           /\ value' = IF force THEN [value EXCEPT ![n] = v] ELSE value
           /\ held' = IF force THEN Release({value[n]}) \cup {v} ELSE held
    BY DEF AddKnown
<1>2. UNCHANGED <<refs, count, head, tail, curr, key, next, prev, stale, lost, alive>>
    BY DEF AddKnown
<1>3. r[1] \in Nat \ {0} /\ Chained(r[2], r[1], Hash(r[1]), InUse)
    BY ResizedIs
<1> DEFINE n == Lookup(k, r[2], r[1])
<1>4. n \in InUse /\ key[n] = k
    BY <1>1, <1>3, LookupIs
<1>5. /\ size' = r[1] /\ chain' = r[2]
      /\ value' = IF force THEN [value EXCEPT ![n] = v] ELSE value
      /\ held' = IF force THEN (held \ {value[n]}) \cup {v} ELSE held
    BY <1>1 DEF Release
<1> HIDE DEF n
<1>6. UNCHANGED <<InUse, List>> /\ (KeysApart /\ CursorHeld)'
    BY <1>2 DEF HInv, InUse, List, KeysApart, CursorHeld
<1>7. Hashed'
    BY <1>2, <1>3, <1>5, <1>6 DEF Hashed, Hash
<1>8. \A s : Listed(s) => Listed(s)'
    BY <1>2, <1>6 DEF Listed
<1>9. n \in Nodes /\ value \in [Nodes -> Values \cup {None}]
    BY <1>4 DEF InUse, HInv, TypeOK
<1>10. ValuesAccounted'
    <2>1. CASE force
        <3>1. \A m \in InUse : value'[m] = IF m = n THEN v ELSE value[m]
            BY <1>5, <1>9, <2>1 DEF InUse
        <3>2. held' = (held \ {value[n]}) \cup {v} /\ v \notin held
            BY <1>5, <2>1
        <3> QED
            BY <1>4, <1>6, <3>1, <3>2 DEF HInv, ValuesAccounted
    <2>2. CASE ~force
        BY <1>5, <1>6, <2>2 DEF HInv, ValuesAccounted
    <2> QED
        BY <2>1, <2>2
<1>11. TypeOK'
    <2>1. value' \in [Nodes -> Values \cup {None}] /\ held' \subseteq Values
        BY <1>5, <1>9 DEF HInv, TypeOK
    <2> QED
        BY <1>2, <1>3, <1>5, <2>1 DEF HInv, TypeOK, Chained
<1> QED
    BY <1>2, <1>3, <1>4, <1>5, <1>6, <1>7, <1>8, <1>10, <1>11 DEF HInv

(* A new key: its node is the last of the list and the first of its bucket. *)
LEMMA NewStep ==
    ASSUME HInv, NEW k \in Keys, NEW v \in Values \ (held \cup lost), NEW n \in Nodes,
           AddNew(k, v, n)
    PROVE  /\ HInv' /\ n \notin InUse
           /\ \A s : Listed(s) => Listed(Append(s, n))'
           /\ \A m \in InUse : key[m] # k
           /\ key' = [key EXCEPT ![n] = k] /\ value' = [value EXCEPT ![n] = v]
           /\ UNCHANGED <<curr, stale>>
<1>1. PICK r \in Resized : /\ Lookup(k, r[2], r[1]) = None
                           /\ size' = r[1]
                           /\ chain' = LinkChain(r[2], n, Index(k, r[1]))
    BY DEF AddNew
<1>2. /\ key[n] = None
      /\ key' = [key EXCEPT ![n] = k]
      /\ value' = [value EXCEPT ![n] = v]
      /\ next' = Put([next EXCEPT ![n] = None], tail, n)
      /\ prev' = [prev EXCEPT ![n] = tail]
      /\ tail' = n
      /\ head' = IF head = None THEN n ELSE head
      /\ count' = count + 1
      /\ held' = held \cup {v}
      /\ UNCHANGED <<refs, curr, stale, lost, alive>>
    BY DEF AddNew
<1>3. r[1] \in Nat \ {0} /\ Chained(r[2], r[1], Hash(r[1]), InUse)
    BY ResizedIs
<1>4. n \notin InUse /\ n # None /\ k # None /\ v # None
    BY <1>2, TableAssumption DEF InUse
<1>5. \A m \in InUse : key[m] # k
    <2>1. None \notin InUse
        BY TableAssumption DEF InUse
    <2> QED
        BY <1>1, <1>3, <2>1, LookupIs
<1>6. TypeOK
    BY DEF HInv
<1>7. /\ key' \in [Nodes -> Keys \cup {None}]
      /\ key'[n] = k /\ \A m \in Nodes : m # n => key'[m] = key[m]
      /\ value' \in [Nodes -> Values \cup {None}]
      /\ value'[n] = v /\ \A m \in Nodes : m # n => value'[m] = value[m]
    BY <1>2, <1>6 DEF TypeOK
<1>8. InUse' = InUse \cup {n}
    BY <1>4, <1>7 DEF InUse
<1>9. Hashed'
    <2>1. Hash(size)'[n] = Index(k, r[1]) /\ \A m \in InUse : Hash(size)'[m] = Hash(r[1])[m]
        BY <1>1, <1>4, <1>7 DEF Hash, InUse, Index
    <2>2. Index(k, r[1]) \in 0..(r[1] - 1)
        BY <1>3, IndexIs
    <2>3. Chained(LinkChain(r[2], n, Index(k, r[1])), r[1], Hash(size)', InUse \cup {n})
        BY <1>3, <1>4, <2>1, <2>2, LinkChained
    <2> QED
        BY <1>1, <1>8, <2>3 DEF Hashed
<1>10. ASSUME NEW s, Listed(s) PROVE Listed(Append(s, n))'
    <2>1. /\ Linked(s, head, next, prev) /\ n \notin Members(s)
          /\ tail = IF s = <<>> THEN None ELSE Last(s)
          /\ Members(s) = InUse /\ Len(s) = count
          /\ next \in [Nodes -> Link] /\ prev \in [Nodes -> Link]
        BY <1>4, <1>6, <1>10 DEF Listed, TypeOK
    <2>2. /\ Linked(Append(s, n), IF head = None THEN n ELSE head,
                    Put([next EXCEPT ![n] = None], tail, n), [prev EXCEPT ![n] = tail])
          /\ Members(Append(s, n)) = Members(s) \cup {n}
          /\ Append(s, n) # <<>> /\ Last(Append(s, n)) = n
        BY <2>1, BackKeeps
    <2>3. s \in Seq(Nodes)
        BY <2>1, LinkedIs
    <2>4. Len(Append(s, n)) = Len(s) + 1
        BY <2>3, AppendIs
    <2> QED
        BY <1>2, <1>8, <2>1, <2>2, <2>4 DEF Listed
<1>11. (KeysApart /\ CursorHeld)'
    <2>1. KeysApart'
        BY <1>4, <1>5, <1>7, <1>8 DEF HInv, KeysApart, InUse
    <2>2. CursorHeld'
        BY <1>2, <1>8 DEF HInv, CursorHeld
    <2> QED
        BY <2>1, <2>2
<1>12. ValuesAccounted'
    <2>1. v \notin held /\ \A m \in InUse : value'[m] = value[m] /\ value[m] \in held /\ m # n
        BY <1>4, <1>7 DEF HInv, ValuesAccounted, InUse
    <2> QED
        BY <1>2, <1>7, <1>8, <2>1 DEF HInv, ValuesAccounted
<1>13. TypeOK'
    <2>1. next' \in [Nodes -> Link] /\ prev' \in [Nodes -> Link] /\ {head', tail', curr'} \subseteq Link
        <3>1. n \in Link
            BY DEF Link
        <3> QED
            BY <1>2, <1>6, <3>1 DEF TypeOK, Put, Link
    <2>2. count' \in Nat /\ held' \subseteq Values
        BY <1>2, <1>6 DEF TypeOK
    <2> QED
        BY <1>1, <1>2, <1>3, <1>6, <1>7, <1>9, <2>1, <2>2 DEF TypeOK, Hashed, Chained
<1>14. (size # 0 /\ \E s : Listed(s))'
    BY <1>1, <1>3, <1>10 DEF HInv
<1> QED
    BY <1>2, <1>4, <1>5, <1>9, <1>10, <1>11, <1>12, <1>13, <1>14 DEF HInv

(* No memory: the table may have doubled, and that is all. *)
LEMMA FailsStep ==
    ASSUME HInv, NEW k \in Keys, AddFails(k)
    PROVE  HInv' /\ UNCHANGED <<List, key, value, curr, stale>>
<1>1. PICK r \in Resized : size' = r[1] /\ chain' = r[2]
    BY DEF AddFails
<1>2. UNCHANGED <<refs, head, tail, next, prev, key, value, count, curr, stale, held, lost, alive>>
    BY DEF AddFails, listVars
<1>3. r[1] \in Nat \ {0} /\ Chained(r[2], r[1], Hash(r[1]), InUse)
    BY ResizedIs
<1>4. UNCHANGED <<InUse, List>>
    BY <1>2 DEF InUse, List
<1>5. Hashed'
    BY <1>1, <1>2, <1>3, <1>4 DEF Hashed, Hash
<1>6. \A s : Listed(s) => Listed(s)'
    BY <1>2, <1>4 DEF Listed
<1>7. (KeysApart /\ CursorHeld /\ ValuesAccounted)'
    BY <1>2, <1>4 DEF HInv, KeysApart, CursorHeld, ValuesAccounted
<1>8. TypeOK'
    BY <1>1, <1>2, <1>3 DEF HInv, TypeOK, Chained
<1> QED
    BY <1>1, <1>2, <1>3, <1>4, <1>5, <1>6, <1>7, <1>8 DEF HInv

(* The node of the key leaves the list, its bucket and the values that are held. *)
LEMMA DelStep ==
    ASSUME HInv, NEW k \in Keys, Del(k), NEW n, n = Lookup(k, chain, size)
    PROVE  /\ HInv' /\ n \in InUse /\ key[n] = k
           /\ \A s : Listed(s) => \E j \in 1..Len(s) : s[j] = n /\ Listed(RemoveAt(s, j))'
           /\ key' = [key EXCEPT ![n] = None] /\ value' = [value EXCEPT ![n] = None]
           /\ curr' = curr /\ stale' = (stale \/ curr = n)
<1>1. /\ n # None
      /\ tail' = FreshTail(n)
      /\ head' = IF prev[n] = None THEN next[n] ELSE head
      /\ next' = [Put(next, prev[n], next[n]) EXCEPT ![n] = None]
      /\ prev' = [Put(prev, next[n], prev[n]) EXCEPT ![n] = None]
      /\ chain' = UnlinkChain(chain, n, Index(k, size))
      /\ key' = [key EXCEPT ![n] = None] /\ value' = [value EXCEPT ![n] = None]
      /\ held' = Release({value[n]})
      /\ stale' = (stale \/ curr = n)
      /\ count' = count - 1
      /\ UNCHANGED <<size, refs, curr, lost, alive>>
    BY DEF Del
<1>2. TypeOK /\ size \in Nat \ {0} /\ Hashed
    BY DEF HInv, TypeOK
<1>3. n \in InUse /\ key[n] = k /\ n \in Nodes
    BY <1>1, <1>2, LookupIs DEF Hashed, InUse
<1>4. /\ key' \in [Nodes -> Keys \cup {None}]
      /\ key'[n] = None /\ \A m \in Nodes : m # n => key'[m] = key[m]
      /\ value' \in [Nodes -> Values \cup {None}]
      /\ value'[n] = None /\ \A m \in Nodes : m # n => value'[m] = value[m]
    BY <1>1, <1>2, <1>3 DEF TypeOK
<1>5. InUse' = InUse \ {n}
    BY <1>3, <1>4 DEF InUse
<1>6. Hashed'
    <2>1. Hash(size)[n] = Index(k, size) /\ \A m \in InUse : m # n => Hash(size)'[m] = Hash(size)[m]
        BY <1>1, <1>3, <1>4 DEF Hash, InUse, Index
    <2>2. Index(k, size) \in 0..(size - 1)
        BY <1>2, IndexIs
    <2>3. Chained(UnlinkChain(chain, n, Index(k, size)), size, Hash(size)', InUse \ {n})
        BY <1>2, <1>3, <2>1, <2>2, UnlinkChained DEF Hashed
    <2> QED
        BY <1>1, <1>5, <2>3 DEF Hashed
<1>7. ASSUME NEW s, Listed(s)
      PROVE  \E j \in 1..Len(s) : s[j] = n /\ Listed(RemoveAt(s, j))' /\ Len(RemoveAt(s, j)) \in Nat
                                  /\ {head', tail'} \subseteq Link
    <2>1. /\ Linked(s, head, next, prev)
          /\ tail = IF s = <<>> THEN None ELSE Last(s)
          /\ Members(s) = InUse /\ Len(s) = count
          /\ next \in [Nodes -> Link] /\ prev \in [Nodes -> Link]
        BY <1>2, <1>7 DEF Listed, TypeOK
    <2>2. s \in Seq(Nodes)
        BY <2>1, LinkedIs
    <2>3. PICK j \in 1..Len(s) : s[j] = n
        BY <1>3, <2>1, <2>2, MembersIs
    <2>4. n = s[j]
        BY <2>3
    <2>5. Cut(s, j, head, next, prev, n)
        BY <2>1, <2>4, CutKeeps
    <2>6. RemoveAt(s, j) \in Seq(Nodes) /\ Len(RemoveAt(s, j)) = Len(s) - 1 /\ Len(s) \in Nat
        BY <2>2, RemoveIs, MembersIs
    <2>7. Len(RemoveAt(s, j)) \in Nat
        BY <2>6, LenProperties
    <2>8. s # <<>>
        BY <2>6, EmptySeq
    <2>9. tail' = IF RemoveAt(s, j) = <<>> THEN None ELSE Last(RemoveAt(s, j))
        BY <1>1, <2>1, <2>5, <2>8 DEF Cut, FreshTail
    <2>10. Listed(RemoveAt(s, j))'
        BY <1>1, <1>5, <2>1, <2>5, <2>6, <2>9 DEF Cut, Listed
    <2>11. {head', tail'} \subseteq Link
        BY <1>1, <1>2, <1>3 DEF TypeOK, FreshTail
    <2> QED
        BY <2>3, <2>7, <2>10, <2>11
<1>8. (KeysApart /\ CursorHeld)'
    <2>1. KeysApart'
        BY <1>4, <1>5 DEF HInv, KeysApart, InUse
    <2>2. CursorHeld'
        BY <1>1, <1>5 DEF HInv, CursorHeld
    <2> QED
        BY <2>1, <2>2
<1>9. ValuesAccounted'
    <2>1. /\ \A m \in InUse : m # n => value'[m] = value[m] /\ value[m] # value[n]
          /\ held' = held \ {value[n]}
        BY <1>1, <1>3, <1>4 DEF HInv, ValuesAccounted, InUse, Release
    <2> QED
        BY <1>3, <1>5, <2>1 DEF HInv, ValuesAccounted
<1>10. (\E s : Listed(s))' /\ count' \in Nat /\ {head', tail'} \subseteq Link
    <2>1. PICK s : Listed(s)
        BY DEF HInv
    <2>2. PICK j \in 1..Len(s) : Listed(RemoveAt(s, j))' /\ Len(RemoveAt(s, j)) \in Nat
                                 /\ {head', tail'} \subseteq Link
        BY <1>7, <2>1
    <2>3. count' = Len(RemoveAt(s, j))
        BY <2>2 DEF Listed
    <2> QED
        BY <2>2, <2>3
<1>11. TypeOK'
    <2>1. held' \subseteq Values /\ stale' \in BOOLEAN /\ curr' \in Link /\ size' = size
        BY <1>1, <1>2 DEF TypeOK, Release
    <2>2. next' \in [Nodes -> Link] /\ prev' \in [Nodes -> Link]
        <3>1. next[n] \in Link /\ prev[n] \in Link
            BY <1>2, <1>3 DEF TypeOK
        <3>2. Put(next, prev[n], next[n]) \in [Nodes -> Link] /\ Put(prev, next[n], prev[n]) \in [Nodes -> Link]
            BY <1>2, <3>1 DEF TypeOK, Put
        <3> QED
            BY <1>1, <3>2 DEF Link
    <2>3. /\ chain'.bucket \in [0..(size' - 1) -> Link]
          /\ chain'.vnext \in [Nodes -> Link] /\ chain'.vprev \in [Nodes -> Link]
        BY <1>6 DEF Hashed, Chained
    <2>4. UNCHANGED <<size, refs, lost, alive>>
        BY <1>1
    <2> QED
        BY <1>2, <1>4, <1>10, <2>1, <2>2, <2>3, <2>4 DEF TypeOK
<1>12. \A s : Listed(s) => \E j \in 1..Len(s) : s[j] = n /\ Listed(RemoveAt(s, j))'
    BY <1>7
<1> QED
    BY <1>1, <1>2, <1>3, <1>6, <1>8, <1>9, <1>10, <1>11, <1>12 DEF HInv

(* A reset, or the last free: nothing is left, and nothing is held. *)
LEMMA ClearStep ==
    ASSUME HInv, Reset \/ (Free /\ refs = 0)
    PROVE  HInv' /\ Listed(<<>>)' /\ Empty'
<1>1. TypeOK /\ {value[m] : m \in InUse} = held /\ size \in Nat \ {0}
    BY DEF HInv, TypeOK, ValuesAccounted
<1>2. CASE Reset
    <2>1. Emptied /\ UNCHANGED <<size, refs, alive>>
        BY <1>2 DEF Reset
    <2>2. lost' = lost \cup held /\ held' = held \ lost'
        BY <1>1, <1>2 DEF Reset, InUse
    <2>3. held' = {} /\ lost' \subseteq Values
        BY <1>1, <2>2 DEF TypeOK
    <2>4. Empty'
        BY <1>1, <2>1, <2>3 DEF TypeOK, Emptied, Empty, NoNodes, NoChain
    <2> QED
        BY <2>4, EmptyIs, PTL
<1>3. CASE Free /\ refs = 0
    <2>1. Emptied /\ UNCHANGED <<size, lost, refs>> /\ alive' = FALSE
          /\ held' = Release({value[m] : m \in {List[i] : i \in DOMAIN List}})
        BY <1>3 DEF Free
    <2>2. PICK s : Listed(s)
        BY DEF HInv
    <2>3. {List[i] : i \in DOMAIN List} = InUse
        BY <1>1, <2>2, ListedIs DEF Listed, Members
    <2>4. held' = {}
        BY <1>1, <2>1, <2>3 DEF Release
    <2>5. Empty'
        BY <1>1, <2>1, <2>4 DEF TypeOK, Emptied, Empty, NoNodes, NoChain
    <2> QED
        BY <2>5, EmptyIs, PTL
<1> QED
    BY <1>2, <1>3

(* The steps that move the cursor or count references leave the rest alone. *)
LEMMA IdleStep ==
    ASSUME HInv, UNCHANGED <<size, listVars, chain, held, lost>>,
           refs' \in Nat, alive' \in BOOLEAN, stale' \in BOOLEAN, curr' \in Link,
           curr' # None /\ ~stale' => curr' \in InUse
    PROVE  HInv' /\ UNCHANGED List /\ \A s : Listed(s) => Listed(s)'
<1>1. UNCHANGED <<head, tail, next, prev, key, value, count>>
    BY DEF listVars
<1>2. UNCHANGED <<InUse, List>>
    BY <1>1 DEF InUse, List
<1>3. \A s : Listed(s) => Listed(s)'
    BY <1>1, <1>2 DEF Listed
<1>4. Hashed'
    BY <1>1, <1>2 DEF HInv, Hashed, Hash
<1>5. (KeysApart /\ CursorHeld /\ ValuesAccounted)'
    BY <1>1, <1>2 DEF HInv, KeysApart, CursorHeld, ValuesAccounted
<1>6. TypeOK'
    BY <1>1 DEF HInv, TypeOK
<1> QED
    BY <1>2, <1>3, <1>4, <1>5, <1>6 DEF HInv

LEMMA RefStep ==
    ASSUME HInv, Ref \/ (Free /\ refs > 0) \/ Gone
    PROVE  /\ HInv' /\ UNCHANGED <<List, key, value, chain, size, curr, stale>>
           /\ \A s : Listed(s) => Listed(s)'
<1>1. TypeOK /\ CursorHeld
    BY DEF HInv
<1>2. UNCHANGED <<size, listVars, chain, held, lost, curr, stale>>
    BY DEF Ref, Free, Gone, vars
<1>3. refs' \in Nat /\ alive' \in BOOLEAN
    <2>1. CASE Ref
        BY <1>1, <2>1 DEF Ref, TypeOK
    <2>2. CASE Free /\ refs > 0
        BY <1>1, <2>2 DEF Free, TypeOK
    <2>3. CASE Gone
        BY <1>1, <2>3 DEF Gone, vars, TypeOK
    <2> QED
        BY <2>1, <2>2, <2>3
<1>4. stale' \in BOOLEAN /\ curr' \in Link /\ UNCHANGED <<InUse, key, value>>
    BY <1>1, <1>2 DEF TypeOK, listVars, InUse
<1>5. curr' # None /\ ~stale' => curr' \in InUse
    BY <1>1, <1>2 DEF CursorHeld
<1> QED
    BY <1>2, <1>3, <1>4, <1>5, IdleStep

(* A walk goes to an end of the list, or to a neighbour of the node it is at. *)
LEMMA WalkStep ==
    ASSUME HInv, ToHead \/ ToTail \/ ToNext \/ ToPrev, NEW s, Listed(s)
    PROVE  /\ HInv' /\ UNCHANGED <<List, key, value, chain, size>>
           /\ curr' \in InUse /\ ~stale' /\ Len(s) \in Nat \ {0}
           /\ \/ curr' = s[1] \/ curr' = s[Len(s)]
              \/ /\ curr # None /\ ~stale
                 /\ \E i \in 1..(Len(s) - 1) : \/ curr = s[i] /\ curr' = s[i + 1]
                                               \/ curr = s[i + 1] /\ curr' = s[i]
<1>1. /\ UNCHANGED <<size, refs, listVars, chain, held, lost, alive>>
      /\ ~stale' /\ curr' # None
      /\ curr' = head \/ curr' = tail \/ curr' = next[curr] \/ curr' = prev[curr]
    BY DEF ToHead, ToTail, ToNext, ToPrev, Point
<1>2. /\ Linked(s, head, next, prev) /\ Members(s) = InUse
      /\ tail = IF s = <<>> THEN None ELSE Last(s)
    BY DEF Listed
<1>3. /\ s \in Seq(Nodes) /\ Len(s) \in Nat
      /\ head = IF Len(s) = 0 THEN None ELSE s[1]
      /\ \A i \in 1..Len(s) : /\ next[s[i]] = IF i = Len(s) THEN None ELSE s[i + 1]
                              /\ prev[s[i]] = IF i = 1 THEN None ELSE s[i - 1]
    BY <1>2, LinkedIs, MembersIs
<1>4. \A n : n \in InUse <=> \E i \in 1..Len(s) : s[i] = n
    BY <1>2, <1>3, MembersIs
<1>5. /\ \/ curr' = s[1] \/ curr' = s[Len(s)]
         \/ /\ curr # None /\ ~stale
            /\ \E i \in 1..(Len(s) - 1) : \/ curr = s[i] /\ curr' = s[i + 1]
                                          \/ curr = s[i + 1] /\ curr' = s[i]
      /\ curr' \in InUse /\ Len(s) # 0
    <2>1. CASE ToHead
        <3>1. curr' = s[1] /\ Len(s) # 0
            BY <1>1, <1>3, <2>1 DEF ToHead, Point
        <3>2. 1 \in 1..Len(s)
            BY <1>3, <3>1
        <3> QED
            BY <1>4, <3>1, <3>2
    <2>2. CASE ToTail
        <3>1. s # <<>> /\ curr' = Last(s)
            BY <1>2, <2>2 DEF ToTail, Point
        <3>2. Len(s) # 0 /\ curr' = s[Len(s)]
            BY <1>3, <3>1, EmptySeq DEF Last
        <3>3. Len(s) \in 1..Len(s)
            BY <1>3, <3>2
        <3> QED
            BY <1>4, <3>2, <3>3
    <2>3. CASE ToNext
        <3>1. curr # None /\ ~stale /\ curr \in InUse /\ curr' = next[curr] /\ curr' # None
            BY <2>3 DEF ToNext, Point, HInv, CursorHeld
        <3>2. PICK i \in 1..Len(s) : s[i] = curr
            BY <1>4, <3>1
        <3>3. i # Len(s) /\ curr' = s[i + 1]
            BY <1>3, <3>1, <3>2
        <3>4. i \in 1..(Len(s) - 1) /\ i + 1 \in 1..Len(s) /\ Len(s) # 0
            BY <1>3, <3>3
        <3> QED
            BY <1>4, <3>1, <3>2, <3>3, <3>4
    <2>4. CASE ToPrev
        <3>1. curr # None /\ ~stale /\ curr \in InUse /\ curr' = prev[curr] /\ curr' # None
            BY <2>4 DEF ToPrev, Point, HInv, CursorHeld
        <3>2. PICK i \in 1..Len(s) : s[i] = curr
            BY <1>4, <3>1
        <3>3. i # 1 /\ curr' = s[i - 1]
            BY <1>3, <3>1, <3>2
        <3>4. i - 1 \in 1..(Len(s) - 1) /\ (i - 1) + 1 = i /\ i - 1 \in 1..Len(s) /\ Len(s) # 0
            BY <1>3, <3>3
        <3> QED
            BY <1>4, <3>1, <3>2, <3>3, <3>4
    <2> QED
        BY <2>1, <2>2, <2>3, <2>4
<1>6. UNCHANGED <<key, value, InUse>>
    BY <1>1 DEF listVars, InUse
<1>7. refs' \in Nat /\ alive' \in BOOLEAN /\ stale' \in BOOLEAN /\ curr' \in Link
    <2>1. stale' \in BOOLEAN
        BY DEF ToHead, ToTail, ToNext, ToPrev, Point
    <2> QED
        BY <1>1, <1>5, <2>1 DEF HInv, TypeOK, InUse, Link
<1>8. HInv' /\ UNCHANGED List
    BY <1>1, <1>5, <1>6, <1>7, IdleStep
<1> QED
    BY <1>1, <1>3, <1>5, <1>6, <1>8

-----------------------------------------------------------------------------
(* The invariant holds. *)

LEMMA HInit == Init => Empty
BY TableAssumption DEF Init, Empty

LEMMA HNext == HInv /\ [Next]_vars => HInv'
<1> SUFFICES ASSUME HInv, [Next]_vars PROVE HInv'
    OBVIOUS
<1>1. ASSUME NEW k \in Keys, NEW v \in Values \ (held \cup lost), NEW force \in BOOLEAN,
             AddKnown(k, v, force)
      PROVE  HInv'
    BY <1>1, KnownStep
<1>2. ASSUME NEW k \in Keys, NEW v \in Values \ (held \cup lost), NEW n \in Nodes,
             AddNew(k, v, n)
      PROVE  HInv'
    BY <1>2, NewStep
<1>3. ASSUME NEW k \in Keys, AddFails(k) PROVE HInv'
    BY <1>3, FailsStep
<1>4. ASSUME NEW k \in Keys, Del(k) PROVE HInv'
    BY <1>4, DelStep
<1>5. CASE Reset
    BY <1>5, ClearStep
<1>6. CASE Free
    <2>1. refs = 0 \/ refs > 0
        BY DEF HInv, TypeOK
    <2> QED
        BY <1>6, <2>1, ClearStep, RefStep
<1>7. CASE Ref \/ Gone
    BY <1>7, RefStep
<1>8. CASE ToHead \/ ToTail \/ ToNext \/ ToPrev
    BY <1>8, WalkStep DEF HInv
<1>9. CASE UNCHANGED vars
    <2>1. UNCHANGED <<size, listVars, chain, held, lost, refs, alive, stale, curr>>
        BY <1>9 DEF vars
    <2>2. UNCHANGED InUse
        BY <2>1 DEF listVars, InUse
    <2>3. refs' \in Nat /\ alive' \in BOOLEAN /\ stale' \in BOOLEAN /\ curr' \in Link
        BY <2>1 DEF HInv, TypeOK
    <2>4. curr' # None /\ ~stale' => curr' \in InUse
        BY <2>1 DEF HInv, CursorHeld
    <2> QED
        BY <2>1, <2>2, <2>3, <2>4, IdleStep
<1> QED
    BY <1>1, <1>2, <1>3, <1>4, <1>5, <1>6, <1>7, <1>8, <1>9 DEF Next

LEMMA HInvariant == Spec => []HInv
<1>1. Init => HInv
    BY HInit, EmptyIs
<1> QED
    BY <1>1, HNext, PTL DEF Spec

LEMMA CardinalityIs ==
    ASSUME NEW s, NEW first, NEW succ, NEW back, Linked(s, first, succ, back)
    PROVE  Len(s) = Cardinality(Members(s))
<1>1. s \in Seq(Nodes) /\ \A i, j \in 1..Len(s) : s[i] = s[j] => i = j
    BY LinkedIs
<1>2. Len(s) \in Nat /\ s \in [1..Len(s) -> Nodes]
    BY <1>1, LenProperties
<1>3. \A n : n \in Members(s) <=> \E i \in 1..Len(s) : s[i] = n
    BY <1>1, MembersIs
<1>4. s \in [1..Len(s) -> Members(s)]
    BY <1>2, <1>3
<1>5. s \in Surjection(1..Len(s), Members(s)) /\ s \in Injection(1..Len(s), Members(s))
    BY <1>1, <1>3, <1>4 DEF Surjection, Injection, IsInjective
<1>6. IsFiniteSet(1..Len(s)) /\ Cardinality(1..Len(s)) = IF 1 > Len(s) THEN 0 ELSE Len(s) - 1 + 1
    BY <1>2, FS_Interval, 1 \in Int, Len(s) \in Int, Zenon
<1>7. Cardinality(Members(s)) = Cardinality(1..Len(s))
    BY <1>5, <1>6, FS_Surjection
<1> QED
    BY <1>2, <1>6, <1>7

(* Through every doubling, deletion and reset: the list and the chains hold the
   same nodes, each once, forward and backward, and each node is in the chain
   that its num_key belongs to. *)
THEOREM LinksAgreeAlways == Spec => []LinksAgree
<1>1. HInv => LinksAgree
    <2> SUFFICES ASSUME HInv PROVE LinksAgree
        OBVIOUS
    <2>1. PICK s : Listed(s)
        BY DEF HInv
    <2>2. TypeOK /\ List = s
        BY <2>1, ListedIs DEF HInv
    <2>3. /\ Linked(s, head, next, prev) /\ Members(s) = InUse /\ Len(s) = count
          /\ tail = IF s = <<>> THEN None ELSE Last(s)
        BY <2>1 DEF Listed
    <2>4. Len(s) = Cardinality(InUse) /\ BothWays(s, prev)
        BY <2>3, CardinalityIs DEF Linked
    <2>5. ASSUME NEW i \in DOMAIN chain.bucket
          PROVE  /\ Members(Bucket(i)) = {n \in InUse : NumKey[key[n]] % size = i}
                 /\ Len(Bucket(i)) = Cardinality(Members(Bucket(i)))
                 /\ BothWays(Bucket(i), chain.vprev)
        <3>1. i \in 0..(size - 1)
            BY <2>2 DEF TypeOK
        <3>2. PICK b : /\ Linked(b, chain.bucket[i], chain.vnext, chain.vprev)
                       /\ Members(b) = {n \in InUse : Hash(size)[n] = i}
            BY <3>1 DEF HInv, Hashed, Chained
        <3>3. Bucket(i) = b
            BY <2>2, <3>2, FollowIs DEF Bucket, Linked, TypeOK
        <3>4. \A n \in InUse : Hash(size)[n] = NumKey[key[n]] % size
            BY DEF Hash, Index, InUse
        <3>5. Len(b) = Cardinality(Members(b)) /\ BothWays(b, chain.vprev)
            BY <3>2, CardinalityIs DEF Linked
        <3> QED
            BY <3>2, <3>3, <3>4, <3>5
    <2> QED
        BY <2>2, <2>3, <2>4, <2>5 DEF LinksAgree
<1> QED
    BY <1>1, HInvariant, PTL

(* What the table holds is what it took and did not pass to vfree or lose in a
   reset, each value once. *)
THEOREM ValuesAccountedAlways == Spec => []ValuesAccounted
<1>1. HInv => ValuesAccounted
    BY DEF HInv
<1> QED
    BY <1>1, HInvariant, PTL

-----------------------------------------------------------------------------
(* The table is an ordered map. *)

LEMMA OrderIs ==
    ASSUME TypeOK, NEW s, Listed(s)
    PROVE  /\ order \in Seq(Keys) /\ Len(order) = Len(s) /\ DOMAIN order = 1..Len(s)
           /\ \A i \in 1..Len(s) : order[i] = key[s[i]] /\ s[i] \in InUse
           /\ s \in Seq(Nodes) /\ Len(s) \in Nat
<1>1. List = s
    BY ListedIs
<1>2. s \in Seq(Nodes) /\ Members(s) = InUse
    BY LinkedIs DEF Listed
<1>3. /\ Len(s) \in Nat /\ DOMAIN s = 1..Len(s)
      /\ \A i \in 1..Len(s) : s[i] \in InUse
    BY <1>2, MembersIs
<1>4. order = [i \in 1..Len(s) |-> key[s[i]]]
    BY <1>1, <1>3 DEF order
<1>5. \A i \in 1..Len(s) : key[s[i]] \in Keys
    BY <1>3 DEF InUse, TypeOK
<1>6. order \in Seq(Keys) /\ Len(order) = Len(s)
    BY <1>3, <1>4, <1>5
<1> QED
    BY <1>2, <1>3, <1>4, <1>6

LEMMA OrderNext ==
    ASSUME NEW s
    PROVE  (TypeOK /\ Listed(s))' =>
               (/\ order \in Seq(Keys) /\ Len(order) = Len(s)
                /\ \A i \in 1..Len(s) : order[i] = key[s[i]] /\ s[i] \in InUse)'
<1>1. TypeOK /\ Listed(s) => /\ order \in Seq(Keys) /\ Len(order) = Len(s)
                              /\ \A i \in 1..Len(s) : order[i] = key[s[i]] /\ s[i] \in InUse
    BY OrderIs
<1> QED
    BY <1>1, PTL

(* What _find returns for each key. *)
LEMMA ValIs ==
    HInv => /\ val \in [Keys -> Values \cup {None}]
            /\ \A n \in InUse : val[key[n]] = value[n] /\ value[n] \in Values /\ key[n] \in Keys
            /\ \A k \in Keys : (\A n \in InUse : key[n] # k) => val[k] = None
<1> SUFFICES ASSUME HInv
             PROVE  /\ val \in [Keys -> Values \cup {None}]
                    /\ \A n \in InUse : val[key[n]] = value[n] /\ value[n] \in Values
                                        /\ key[n] \in Keys
                    /\ \A k \in Keys : (\A n \in InUse : key[n] # k) => val[k] = None
    OBVIOUS
<1>1. size \in Nat \ {0} /\ Chained(chain, size, Hash(size), InUse)
    BY DEF HInv, TypeOK, Hashed
<1>2. \A n \in InUse : value[n] \in Values /\ key[n] \in Keys /\ n # None
    BY TableAssumption DEF HInv, ValuesAccounted, TypeOK, InUse
<1> DEFINE of(k) == Lookup(k, chain, size)
<1>3. \A k \in Keys : \/ of(k) = None /\ \A m \in InUse : key[m] # k
                      \/ of(k) \in InUse /\ key[of(k)] = k
    BY <1>1, LookupIs
<1>4. val = [k \in Keys |-> IF of(k) = None THEN None ELSE value[of(k)]]
    BY DEF val
<1> HIDE DEF of
<1>5. val \in [Keys -> Values \cup {None}]
    BY <1>2, <1>3, <1>4
<1>6. \A n \in InUse : of(key[n]) = n
    BY <1>2, <1>3 DEF HInv, KeysApart
<1> QED
    BY <1>2, <1>3, <1>4, <1>5, <1>6

(* Two functions of values, for the same keys, that agree where a node has the key. *)
LEMMA ValAgrees ==
    ASSUME HInv, HInv', NEW f \in [Keys -> Values \cup {None}],
           \A n \in InUse' : f[key'[n]] = value'[n],
           \A k \in Keys : (\A n \in InUse' : key'[n] # k) => f[k] = None
    PROVE  val' = f
<1>1. (/\ val \in [Keys -> Values \cup {None}]
       /\ \A n \in InUse : val[key[n]] = value[n] /\ value[n] \in Values /\ key[n] \in Keys
       /\ \A k \in Keys : (\A n \in InUse : key[n] # k) => val[k] = None)'
    BY ValIs, PTL
<1>2. ASSUME NEW k \in Keys PROVE val'[k] = f[k]
    BY <1>1
<1> QED
    BY <1>1, <1>2

LEMMA SameMap ==
    ASSUME HInv, HInv', UNCHANGED <<List, key, value>>
    PROVE  UNCHANGED <<order, val>>
<1>1. UNCHANGED InUse
    BY DEF InUse
<1>2. /\ val \in [Keys -> Values \cup {None}]
      /\ \A n \in InUse : val[key[n]] = value[n]
      /\ \A k \in Keys : (\A n \in InUse : key[n] # k) => val[k] = None
    BY ValIs
<1>3. val' = val
    BY <1>1, <1>2, ValAgrees
<1> QED
    BY <1>3 DEF order

LEMMA KnownIsPut ==
    ASSUME HInv, NEW k \in Keys, NEW v \in Values \ (held \cup lost), NEW force \in BOOLEAN,
           AddKnown(k, v, force)
    PROVE  Map!Put(k, v) \/ UNCHANGED <<order, val, cursor>>
<1>1. HInv' /\ UNCHANGED <<List, key, curr, stale>>
    BY KnownStep
<1>2. PICK n \in InUse : key[n] = k /\ value' = IF force THEN [value EXCEPT ![n] = v] ELSE value
    BY KnownStep
<1>3. UNCHANGED <<order, cursor, InUse>>
    BY <1>1 DEF order, cursor, InUse
<1>4. /\ val \in [Keys -> Values \cup {None}]
      /\ \A m \in InUse : val[key[m]] = value[m] /\ value[m] \in Values
      /\ \A l \in Keys : (\A m \in InUse : key[m] # l) => val[l] = None
    BY ValIs
<1>5. CASE force
    <2> DEFINE f == [val EXCEPT ![k] = v]
    <2>1. \A m \in InUse : value'[m] = (IF m = n THEN v ELSE value[m]) /\ (key[m] = k <=> m = n)
        BY <1>2, <1>5 DEF HInv, TypeOK, InUse, KeysApart
    <2>2. f \in [Keys -> Values \cup {None}] /\ \A l \in Keys : f[l] = IF l = k THEN v ELSE val[l]
        BY <1>4
    <2> HIDE DEF f
    <2>3. \A m \in InUse' : f[key'[m]] = value'[m]
        <3>1. \A m \in InUse : key[m] \in Keys
            BY DEF InUse, HInv, TypeOK
        <3> QED
            BY <1>1, <1>3, <1>4, <2>1, <2>2, <3>1
    <2>4. \A l \in Keys : (\A m \in InUse' : key'[m] # l) => f[l] = None
        BY <1>1, <1>2, <1>3, <1>4, <2>2
    <2>5. val' = f
        BY <1>1, <2>2, <2>3, <2>4, ValAgrees
    <2>6. val[k] # None
        <3>1. None \notin Values
            BY TableAssumption
        <3> QED
            BY <1>2, <1>4, <3>1
    <2> QED
        BY <1>3, <2>5, <2>6 DEF Map!Put, f
<1>6. CASE ~force
    BY <1>1, <1>2, <1>3, <1>6, SameMap
<1> QED
    BY <1>5, <1>6

LEMMA NewIsPut ==
    ASSUME HInv, NEW k \in Keys, NEW v \in Values \ (held \cup lost), NEW n \in Nodes,
           AddNew(k, v, n)
    PROVE  Map!Put(k, v)
<1>1. /\ HInv' /\ n \notin InUse
      /\ \A m \in InUse : key[m] # k
      /\ key' = [key EXCEPT ![n] = k] /\ value' = [value EXCEPT ![n] = v]
      /\ UNCHANGED <<curr, stale>>
    BY NewStep
<1>2. PICK s : Listed(s)
    BY DEF HInv
<1> DEFINE t == Append(s, n)
<1>3. Listed(t)'
    BY <1>2, NewStep
<1>4. TypeOK /\ TypeOK'
    BY <1>1 DEF HInv
<1>5. /\ order \in Seq(Keys) /\ Len(order) = Len(s)
      /\ \A i \in 1..Len(s) : order[i] = key[s[i]] /\ s[i] \in InUse
      /\ s \in Seq(Nodes) /\ Len(s) \in Nat
    BY <1>2, <1>4, OrderIs
<1>6. /\ order' \in Seq(Keys) /\ Len(order') = Len(t)
      /\ \A i \in 1..Len(t) : order'[i] = key'[t[i]]
    BY <1>3, <1>4, OrderNext
<1>7. /\ Len(t) = Len(s) + 1 /\ t[Len(s) + 1] = n
      /\ \A i \in 1..Len(s) : t[i] = s[i]
    BY <1>5, AppendIs
<1>8. /\ key'[n] = k /\ \A m \in Nodes : m # n => key'[m] = key[m]
      /\ value'[n] = v /\ \A m \in Nodes : m # n => value'[m] = value[m]
      /\ InUse' = InUse \cup {n} /\ n \notin InUse /\ \A m \in InUse : m \in Nodes
    <2>1. k # None
        BY TableAssumption
    <2> QED
        BY <1>1, <1>4, <2>1 DEF TypeOK, InUse
<1>9. order' = Append(order, k)
    <2> HIDE DEF t
    <2>1. /\ Append(order, k) \in Seq(Keys) /\ Len(Append(order, k)) = Len(order) + 1
          /\ \A i \in 1..Len(order) : Append(order, k)[i] = order[i]
          /\ Append(order, k)[Len(order) + 1] = k
        BY <1>5, AppendIs
    <2>2. Len(order') = Len(Append(order, k))
        BY <1>5, <1>6, <1>7, <2>1
    <2>3. ASSUME NEW i \in 1..Len(order') PROVE order'[i] = Append(order, k)[i]
        <3>1. CASE i = Len(s) + 1
            BY <1>5, <1>6, <1>7, <1>8, <2>1, <3>1
        <3>2. CASE i \in 1..Len(s)
            <4>1. s[i] \in InUse /\ s[i] # n /\ s[i] \in Nodes
                BY <1>5, <1>8, <3>2
            <4> QED
                BY <1>5, <1>6, <1>7, <1>8, <2>1, <3>2, <4>1
        <3> QED
            BY <1>5, <1>6, <1>7, <3>1, <3>2
    <2> QED
        BY <1>6, <2>1, <2>2, <2>3, SeqEqual
<1>10. /\ val \in [Keys -> Values \cup {None}]
       /\ \A m \in InUse : val[key[m]] = value[m] /\ key[m] \in Keys
       /\ \A l \in Keys : (\A m \in InUse : key[m] # l) => val[l] = None
    BY ValIs
<1>11. val' = [val EXCEPT ![k] = v]
    <2> DEFINE f == [val EXCEPT ![k] = v]
    <2>1. f \in [Keys -> Values \cup {None}] /\ \A l \in Keys : f[l] = IF l = k THEN v ELSE val[l]
        BY <1>10
    <2> HIDE DEF f
    <2>2. \A m \in InUse' : f[key'[m]] = value'[m]
        BY <1>1, <1>8, <1>10, <2>1
    <2>3. \A l \in Keys : (\A m \in InUse' : key'[m] # l) => f[l] = None
        BY <1>8, <1>10, <2>1
    <2>4. val' = f
        BY <1>1, <2>1, <2>2, <2>3, ValAgrees
    <2> QED
        BY <2>4 DEF f
<1>12. val[k] = None
    BY <1>1, <1>10
<1>13. cursor' = cursor
    <2>1. curr # None /\ ~stale => curr \in InUse
        BY DEF HInv, CursorHeld
    <2>2. curr # None /\ ~stale => key'[curr] = key[curr]
        BY <1>8, <2>1
    <2> QED
        BY <1>1, <2>2 DEF cursor
<1> QED
    BY <1>9, <1>11, <1>12, <1>13 DEF Map!Put

LEMMA DelIsDrop ==
    ASSUME HInv, NEW k \in Keys, Del(k)
    PROVE  Map!Drop(k)
<1> DEFINE n == Lookup(k, chain, size)
<1>1. /\ HInv' /\ n \in InUse /\ key[n] = k
      /\ key' = [key EXCEPT ![n] = None] /\ value' = [value EXCEPT ![n] = None]
      /\ curr' = curr /\ stale' = (stale \/ curr = n)
    BY DelStep
<1>2. PICK s : Listed(s)
    BY DEF HInv
<1>3. PICK j \in 1..Len(s) : s[j] = n /\ Listed(RemoveAt(s, j))'
    BY <1>2, DelStep
<1> DEFINE t == RemoveAt(s, j)
<1> HIDE DEF n
<1>4. TypeOK /\ TypeOK' /\ KeysApart
    BY <1>1 DEF HInv
<1>5. /\ order \in Seq(Keys) /\ Len(order) = Len(s) /\ DOMAIN order = 1..Len(s)
      /\ \A i \in 1..Len(s) : order[i] = key[s[i]] /\ s[i] \in InUse
      /\ s \in Seq(Nodes) /\ Len(s) \in Nat
    BY <1>2, <1>4, OrderIs
<1>6. /\ order' \in Seq(Keys) /\ Len(order') = Len(t)
      /\ \A i \in 1..Len(t) : order'[i] = key'[t[i]] /\ t[i] \in InUse'
    BY <1>3, <1>4, OrderNext
<1>7. /\ Len(t) = Len(s) - 1
      /\ \A i \in 1..(Len(s) - 1) : t[i] = IF i < j THEN s[i] ELSE s[i + 1]
    BY <1>5, RemoveIs
<1>8. /\ \A m \in Nodes : m # n => key'[m] = key[m] /\ value'[m] = value[m]
      /\ InUse' = InUse \ {n} /\ \A m \in InUse : m \in Nodes /\ (key[m] = k <=> m = n)
    BY <1>1, <1>4 DEF TypeOK, InUse, KeysApart
<1>9. order[j] = k /\ order' = RemoveAt(order, j) /\ j \in DOMAIN order
    <2> HIDE DEF t
    <2>1. /\ RemoveAt(order, j) \in Seq(Keys) /\ Len(RemoveAt(order, j)) = Len(order) - 1
          /\ \A i \in 1..(Len(order) - 1) :
                 RemoveAt(order, j)[i] = IF i < j THEN order[i] ELSE order[i + 1]
        <3>1. order \in Seq(Keys) /\ j \in 1..Len(order)
            BY <1>5
        <3> QED
            BY <3>1, RemoveIs
    <2>2. Len(order') = Len(RemoveAt(order, j))
        BY <1>5, <1>6, <1>7, <2>1
    <2>3. ASSUME NEW i \in 1..Len(order') PROVE order'[i] = RemoveAt(order, j)[i]
        <3>1. i \in 1..(Len(s) - 1) /\ i \in 1..Len(s) /\ i + 1 \in 1..Len(s) /\ i \in 1..Len(t)
            BY <1>5, <1>6, <1>7
        <3>2. order'[i] = key'[t[i]] /\ t[i] \in InUse'
            BY <1>6, <3>1
        <3>3. key'[t[i]] = key[t[i]]
            BY <1>8, <3>2
        <3> QED
            BY <1>5, <1>7, <2>1, <3>1, <3>2, <3>3
    <2>4. order' = RemoveAt(order, j)
        BY <1>6, <2>1, <2>2, <2>3, SeqEqual
    <2> QED
        BY <1>1, <1>3, <1>5, <2>4
<1>10. /\ val \in [Keys -> Values \cup {None}]
       /\ \A m \in InUse : val[key[m]] = value[m] /\ key[m] \in Keys
       /\ \A l \in Keys : (\A m \in InUse : key[m] # l) => val[l] = None
    BY ValIs
<1>11. val' = [val EXCEPT ![k] = None]
    <2> DEFINE f == [val EXCEPT ![k] = None]
    <2>1. f \in [Keys -> Values \cup {None}] /\ \A l \in Keys : f[l] = IF l = k THEN None ELSE val[l]
        BY <1>10
    <2> HIDE DEF f
    <2>2. \A m \in InUse' : f[key'[m]] = value'[m]
        BY <1>1, <1>8, <1>10, <2>1
    <2>3. \A l \in Keys : (\A m \in InUse' : key'[m] # l) => f[l] = None
        <3>1. \A m \in InUse : m # n => m \in InUse' /\ key'[m] = key[m]
            BY <1>8
        <3> QED
            BY <1>1, <1>10, <2>1, <3>1
    <2>4. val' = f
        BY <1>1, <2>1, <2>2, <2>3, ValAgrees
    <2> QED
        BY <2>4 DEF f
<1>12. cursor' = IF cursor = k THEN None ELSE cursor
    <2>1. curr # None /\ ~stale => curr \in InUse
        BY DEF HInv, CursorHeld
    <2>2. k # None
        BY TableAssumption
    <2>3. CASE curr = None \/ stale
        BY <1>1, <2>2, <2>3 DEF cursor
    <2>4. CASE curr # None /\ ~stale /\ curr = n
        BY <1>1, <2>4 DEF cursor
    <2>5. CASE curr # None /\ ~stale /\ curr # n
        <3>1. cursor = key[curr] /\ cursor' = key'[curr] /\ key'[curr] = key[curr] /\ key[curr] # k
            BY <1>1, <1>8, <2>1, <2>5 DEF cursor
        <3> QED
            BY <3>1
    <2> QED
        BY <2>3, <2>4, <2>5
<1> QED
    BY <1>9, <1>11, <1>12 DEF Map!Drop, Map!RemoveAt, RemoveAt

LEMMA ClearIsClear ==
    ASSUME HInv, Reset \/ (Free /\ refs = 0)
    PROVE  Map!Clear
<1>1. HInv' /\ Listed(<<>>)' /\ Empty'
    BY ClearStep
<1>2. order' = <<>>
    <2>1. (TypeOK /\ Listed(<<>>))'
        BY <1>1 DEF HInv
    <2>2. order' \in Seq(Keys) /\ Len(order') = Len(<<>>)
        BY <2>1, OrderNext
    <2> QED
        BY <2>2, EmptySeq
<1>3. val' = [k \in Keys |-> None]
    <2> DEFINE f == [k \in Keys |-> None]
    <2>1. InUse' = {}
        BY <1>1 DEF Empty, NoNodes, InUse
    <2>2. f \in [Keys -> Values \cup {None}] /\ \A k \in Keys : f[k] = None
        OBVIOUS
    <2> HIDE DEF f
    <2>3. val' = f
        BY <1>1, <2>1, <2>2, ValAgrees
    <2> QED
        BY <2>3 DEF f
<1>4. cursor' = None
    BY <1>1 DEF Empty, cursor
<1> QED
    BY <1>2, <1>3, <1>4 DEF Map!Clear

LEMMA WalkIsWalk ==
    ASSUME HInv, ToHead \/ ToTail \/ ToNext \/ ToPrev
    PROVE  Map!Walk
<1>1. PICK s : Listed(s)
    BY DEF HInv
<1>2. /\ HInv' /\ UNCHANGED <<List, key, value, chain, size>>
      /\ curr' \in InUse /\ ~stale' /\ Len(s) \in Nat \ {0}
      /\ \/ curr' = s[1] \/ curr' = s[Len(s)]
         \/ /\ curr # None /\ ~stale
            /\ \E i \in 1..(Len(s) - 1) : \/ curr = s[i] /\ curr' = s[i + 1]
                                          \/ curr = s[i + 1] /\ curr' = s[i]
    BY <1>1, WalkStep
<1>3. UNCHANGED <<order, val>>
    BY <1>2, SameMap
<1>4. /\ order \in Seq(Keys) /\ Len(order) = Len(s)
      /\ \A i \in 1..Len(s) : order[i] = key[s[i]]
    BY <1>1, OrderIs DEF HInv
<1>5. cursor' = key[curr']
    <2>1. curr' # None
        BY <1>2, TableAssumption DEF InUse
    <2> QED
        BY <1>2, <2>1 DEF cursor
<1>6. order # <<>>
    BY <1>2, <1>4
<1>7. \/ cursor' = Head(order) \/ cursor' = order[Len(order)]
      \/ \E i \in 1..(Len(order) - 1) : \/ cursor = order[i] /\ cursor' = order[i + 1]
                                        \/ cursor = order[i + 1] /\ cursor' = order[i]
    <2>1. CASE curr' = s[1]
        <3>1. 1 \in 1..Len(s) /\ Head(order) = order[1]
            BY <1>2, <1>4
        <3> QED
            BY <1>4, <1>5, <2>1, <3>1
    <2>2. CASE curr' = s[Len(s)]
        <3>1. Len(s) \in 1..Len(s)
            BY <1>2
        <3> QED
            BY <1>4, <1>5, <2>2, <3>1
    <2>3. ASSUME curr # None, ~stale, NEW i \in 1..(Len(s) - 1),
                 \/ curr = s[i] /\ curr' = s[i + 1]
                 \/ curr = s[i + 1] /\ curr' = s[i]
          PROVE  \E l \in 1..(Len(order) - 1) : \/ cursor = order[l] /\ cursor' = order[l + 1]
                                                \/ cursor = order[l + 1] /\ cursor' = order[l]
        <3>1. i \in 1..Len(s) /\ i + 1 \in 1..Len(s)
            BY <1>2
        <3>2. cursor = key[curr]
            BY <2>3 DEF cursor
        <3>3. order[i] = key[s[i]] /\ order[i + 1] = key[s[i + 1]]
            BY <1>4, <3>1
        <3> QED
            BY <1>4, <1>5, <2>3, <3>2, <3>3
    <2> QED
        BY <1>2, <2>1, <2>2, <2>3
<1> QED
    BY <1>3, <1>6, <1>7 DEF Map!Walk

LEMMA StepIsMapStep ==
    HInv /\ HInv' /\ [Next]_vars => [Map!Next]_<<order, val, cursor>>
<1> SUFFICES ASSUME HInv, HInv', [Next]_vars
             PROVE  Map!Next \/ UNCHANGED <<order, val, cursor>>
    OBVIOUS
<1>1. ASSUME NEW k \in Keys, NEW v \in Values \ (held \cup lost), NEW force \in BOOLEAN,
             AddKnown(k, v, force)
      PROVE  Map!Next \/ UNCHANGED <<order, val, cursor>>
    BY <1>1, KnownIsPut DEF Map!Next
<1>2. ASSUME NEW k \in Keys, NEW v \in Values \ (held \cup lost), NEW n \in Nodes,
             AddNew(k, v, n)
      PROVE  Map!Next
    BY <1>2, NewIsPut DEF Map!Next
<1>3. ASSUME NEW k \in Keys, AddFails(k) PROVE UNCHANGED <<order, val, cursor>>
    <2>1. UNCHANGED <<List, key, value, curr, stale>>
        BY <1>3, FailsStep
    <2> QED
        BY <2>1, SameMap DEF cursor
<1>4. ASSUME NEW k \in Keys, Del(k) PROVE Map!Next
    BY <1>4, DelIsDrop DEF Map!Next
<1>5. CASE Reset
    BY <1>5, ClearIsClear DEF Map!Next
<1>6. ASSUME Ref \/ (Free /\ refs > 0) \/ Gone PROVE UNCHANGED <<order, val, cursor>>
    <2>1. UNCHANGED <<List, key, value, curr, stale>>
        BY <1>6, RefStep
    <2> QED
        BY <2>1, SameMap DEF cursor
<1>7. CASE Free
    <2>1. refs = 0 \/ refs > 0
        BY DEF HInv, TypeOK
    <2> QED
        BY <1>6, <1>7, <2>1, ClearIsClear DEF Map!Next
<1>8. CASE ToHead \/ ToTail \/ ToNext \/ ToPrev
    BY <1>8, WalkIsWalk DEF Map!Next
<1>9. CASE UNCHANGED vars
    <2>1. UNCHANGED <<List, key, value, curr, stale>>
        BY <1>9 DEF vars, listVars, List
    <2> QED
        BY <2>1, SameMap DEF cursor
<1> QED
    BY <1>1, <1>2, <1>3, <1>4, <1>5, <1>6, <1>7, <1>8, <1>9 DEF Next

(* Whatever the hash, the resizes that succeed or fail and the order of the
   calls: what _find returns and what a walk visits is what a map in order of
   insertion with one cursor would give. *)
THEOREM IsOrderedMap == Spec => ImplementsOrderedMap
<1>1. Init => Map!Init
    <2> SUFFICES ASSUME Init PROVE Map!Init
        OBVIOUS
    <2>1. HInv /\ Listed(<<>>) /\ Empty
        BY HInit, EmptyIs
    <2>2. order = <<>>
        <3>1. order \in Seq(Keys) /\ Len(order) = Len(<<>>)
            BY <2>1, OrderIs DEF HInv
        <3> QED
            BY <3>1, EmptySeq
    <2>3. InUse = {}
        BY <2>1 DEF Empty, NoNodes, InUse
    <2>4. val \in [Keys -> Values \cup {None}] /\ \A k \in Keys : val[k] = None
        BY <2>1, <2>3, ValIs
    <2>5. val = [k \in Keys |-> None]
        BY <2>4
    <2>6. cursor = None
        BY <2>1 DEF Empty, cursor
    <2> QED
        BY <2>2, <2>5, <2>6 DEF Map!Init
<1> QED
    BY <1>1, StepIsMapStep, HInvariant, PTL DEF Spec, ImplementsOrderedMap, Map!Spec, Map!mapVars
=============================================================================
