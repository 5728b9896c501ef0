---------------------------- MODULE DbPoolProofs ----------------------------
(***************************************************************************)
(* Links have one holder and statement records one owner, for any number   *)
(* of threads, links and records, and whatever fails: DbPool's HeldByOne   *)
(* and StatementsAccounted, from one inductive invariant.                  *)
(***************************************************************************)
EXTENDS DbPool, FiniteSetTheorems, SequenceTheorems, TLAPS

Idle    == {c \in Clients : pc[c] = "idle"}
Growers == {c \in Clients : pc[c] = "grow"}

(* The holders of links that the scan of c has not come by yet. *)
Ahead(c) == {d \in Clients : \E i \in at[c] .. Len(list) : held[d] = list[i]}

(* Whoever scans has the root lock, and only a client that is not in open has
   a link. *)
ScanLocked ==
    \A c \in Clients :
        /\ pc[c] = "scan" <=> rootLock = c
        /\ pc[c] # "idle" => held[c] = None

Listed ==
    /\ \A i, j \in DOMAIN list : list[i] = list[j] => i = j
    /\ \A l \in Links : state[l] # "none" <=> \E i \in DOMAIN list : list[i] = l

OneHolder ==
    /\ \A l \in Links : state[l] = "hold" <=> \E c \in Clients : held[c] = l
    /\ \A c, d \in Clients : held[c] = held[d] => c = d \/ held[c] = None

(* Each link that a scan has passed was held by a client that cannot open another
   one before the scan ends: there are as many idle clients as such links and
   holders of the others. *)
Scanned ==
    \A c \in Clients : pc[c] = "scan" =>
        /\ at[c] \in 1 .. Len(list) + 1
        /\ at[c] - 1 + Cardinality(Ahead(c)) <= Cardinality(Idle)

Owned ==
    /\ \A c \in Clients :
           /\ given[c] # None =>
                  /\ held[c] # None /\ given[c] \in handle
                  /\ \A l \in Links : stmt[l] # given[c]
                  /\ \A d \in Clients \ {c} : given[d] # given[c]
           /\ result[c] # None =>
                  /\ held[c] # None /\ result[c] \in handle
                  /\ stmt[held[c]] = result[c]
    /\ \A l, m \in Links : stmt[l] = stmt[m] => l = m \/ stmt[l] = None

Wanted  == {given[c] : c \in Clients} \cup {result[c] : c \in Clients}
Counted == leaked + Cardinality(handle \ Wanted) <= failed

IInv == /\ TypeOK /\ ScanLocked /\ Listed /\ OneHolder
        /\ Scanned /\ PoolBounded /\ Owned /\ Counted

-----------------------------------------------------------------------------
LEMMA InvInit == Init => IInv
<1> SUFFICES ASSUME Init PROVE IInv
    OBVIOUS
<1>1. TypeOK
    BY PoolAssumption, EmptySeq DEF Init, TypeOK
<1>2. ScanLocked /\ Listed /\ OneHolder /\ Scanned /\ Owned
    BY PoolAssumption DEF Init, ScanLocked, Listed, OneHolder, Scanned, Owned
<1>3. PoolBounded
    <2>1. {c \in Clients : pc[c] = "grow"} = {}
        BY DEF Init
    <2>2. Cardinality(Clients) \in Nat
        BY PoolAssumption, FS_CardinalityType
    <2>3. Len(list) = 0
        BY DEF Init
    <2>4. Cardinality({c \in Clients : pc[c] = "grow"}) = 0
        BY <2>1, FS_EmptySet
    <2> QED
        BY <2>2, <2>3, <2>4 DEF PoolBounded
<1>4. Counted
    <2>1. handle \ Wanted = {}
        BY DEF Init
    <2> QED
        BY <2>1, FS_EmptySet DEF Init, Counted
<1> QED
    BY <1>1, <1>2, <1>3, <1>4 DEF IInv

(* A record that a query uses is a record, and one that no other link has. *)
LEMMA RecordFacts ==
    ASSUME IInv, NEW c \in Clients, MayQuery(c), NEW r \in RecordOf(held[c])
    PROVE  /\ held[c] \in Links /\ r \in Recs /\ r # None
           /\ \A l \in Links \ {held[c]} : stmt[l] # r
           /\ \A d \in Clients : given[d] # r
           /\ \A d \in Clients \ {c} : held[d] # held[c] /\ result[d] # r
           /\ result[c] = None
<1>1. held[c] \in Links /\ result[c] = None /\ held[c] # None
    BY DEF MayQuery, IInv, TypeOK
<1>2. r \in Recs /\ r # None
    BY <1>1, PoolAssumption DEF RecordOf, IInv, TypeOK
<1>3. \A l \in Links \ {held[c]} : stmt[l] # r
    BY <1>1, <1>2 DEF RecordOf, IInv, TypeOK, Owned
<1>4. \A d \in Clients : given[d] # r
    BY <1>1, <1>2 DEF RecordOf, IInv, TypeOK, Owned
<1>5. \A d \in Clients \ {c} : held[d] # held[c]
    BY <1>1 DEF IInv, OneHolder
<1>6. \A d \in Clients \ {c} : result[d] # r
    <2> SUFFICES ASSUME NEW d \in Clients \ {c}, result[d] = r PROVE FALSE
        OBVIOUS
    <2>1. held[d] \in Links /\ stmt[held[d]] = r
        BY <1>2 DEF IInv, TypeOK, Owned
    <2> QED
        BY <2>1, <1>3, <1>5
<1> QED
    BY <1>1, <1>2, <1>3, <1>4, <1>5, <1>6

LEMMA TypeStep == IInv /\ [Next]_vars => TypeOK'
<1> SUFFICES ASSUME IInv, [Next]_vars PROVE TypeOK'
    OBVIOUS
<1> USE PoolAssumption
<1>1. ASSUME NEW c \in Clients, OpenStart(c) PROVE TypeOK'
    BY <1>1 DEF OpenStart, IInv, TypeOK, recVars
<1>2. ASSUME NEW c \in Clients, Skip(c) PROVE TypeOK'
    BY <1>2 DEF Skip, Scanning, IInv, TypeOK, recVars
<1>3. ASSUME NEW c \in Clients, Take(c) PROVE TypeOK'
    <2>1. list[at[c]] \in Links
        BY <1>3 DEF Take, Scanning, IInv, TypeOK, Scanned
    <2> QED
        BY <1>3, <2>1 DEF Take, Taken, IInv, TypeOK, recVars
<1>4. ASSUME NEW c \in Clients, PingFails(c) PROVE TypeOK'
    BY <1>4 DEF PingFails, AfterPing, IInv, TypeOK, recVars
<1>5. ASSUME NEW c \in Clients, ScanEnds(c) PROVE TypeOK'
    BY <1>5 DEF ScanEnds, IInv, TypeOK, recVars
<1>6. ASSUME NEW c \in Clients, NEW l \in Links, Grow(c, l) PROVE TypeOK'
    <2>1. list' \in Seq(Links)
        BY <1>6, ConcatProperties DEF Grow, IInv, TypeOK
    <2> QED
        BY <1>6, <2>1 DEF Grow, IInv, TypeOK, recVars
<1>7. ASSUME NEW c \in Clients, GrowFails(c) PROVE TypeOK'
    BY <1>7 DEF GrowFails, IInv, TypeOK, recVars
<1>8. ASSUME NEW c \in Clients, Close(c) PROVE TypeOK'
    BY <1>8 DEF Close, IInv, TypeOK, recVars
<1>9. ASSUME NEW c \in Clients, Execute(c) PROVE TypeOK'
    <2>1. PICK r \in RecordOf(held[c]) :
              /\ stmt' = [stmt EXCEPT ![held[c]] = r] /\ live' = live \cup {r}
              /\ Overwrites(r) /\ handle' = HandlesAfter(r)
        BY <1>9 DEF Execute
    <2>2. held[c] \in Links /\ r \in Recs
        BY <1>9, RecordFacts DEF Execute
    <2> QED
        BY <1>9, <2>1, <2>2 DEF Execute, Overwrites, HandlesAfter, IInv, TypeOK, linkVars
<1>10. ASSUME NEW c \in Clients, NEW away \in BOOLEAN, Select(c, away) PROVE TypeOK'
    <2> DEFINE Gives(r) == /\ given' = [given EXCEPT ![c] = r]
                           /\ stmt' = [stmt EXCEPT ![held[c]] = None] /\ UNCHANGED result
               Keeps(r) == /\ result' = [result EXCEPT ![c] = r]
                           /\ stmt' = [stmt EXCEPT ![held[c]] = r] /\ UNCHANGED given
    <2>1. PICK r \in RecordOf(held[c]) :
              /\ live' = live \cup {r} /\ handle' = Executed(r) /\ Overwrites(r)
              /\ Gives(r) \/ Keeps(r)
        BY <1>10 DEF Select
    <2>2. held[c] \in Links /\ r \in Recs
        BY <1>10, RecordFacts DEF Select
    <2>3. handle' \subseteq live' /\ live' \subseteq Recs /\ leaked' \in Nat
        BY <2>1, <2>2 DEF Overwrites, Executed, IInv, TypeOK
    <2>4. CASE Gives(r)
        BY <1>10, <2>1, <2>2, <2>3, <2>4 DEF Select, IInv, TypeOK, linkVars
    <2>5. CASE Keeps(r)
        BY <1>10, <2>1, <2>2, <2>3, <2>5 DEF Select, IInv, TypeOK, linkVars
    <2> QED
        BY <2>1, <2>4, <2>5
<1>11. ASSUME NEW c \in Clients, SelectFails(c) PROVE TypeOK'
    <2>1. PICK r \in RecordOf(held[c]) :
              /\ stmt' = [stmt EXCEPT ![held[c]] = r] /\ live' = live \cup {r}
              /\ Overwrites(r) /\ (handle' = Executed(r) \/ handle' = handle \ {r})
        BY <1>11 DEF SelectFails
    <2>2. held[c] \in Links /\ r \in Recs
        BY <1>11, RecordFacts DEF SelectFails
    <2> QED
        BY <1>11, <2>1, <2>2 DEF SelectFails, Overwrites, Executed, IInv, TypeOK, linkVars
<1>12. ASSUME NEW c \in Clients, Clean(c) PROVE TypeOK'
    <2>1. CASE /\ given[c] # None
               /\ handle' = handle \ {given[c]} /\ live' = live \ {given[c]}
               /\ given' = [given EXCEPT ![c] = None] /\ UNCHANGED result
        <3>1. \A d \in Clients : result[d] # given[c]
            BY <2>1 DEF IInv, TypeOK, Owned
        <3>2. stmt' \in [Links -> live' \cup {None}] /\ given' \in [Clients -> live' \cup {None}]
            BY <1>12, <2>1 DEF Clean, IInv, TypeOK, Owned
        <3> QED
            BY <1>12, <2>1, <3>1, <3>2 DEF Clean, IInv, TypeOK, linkVars
    <2>2. CASE /\ handle' = handle \ {result[c]}
               /\ result' = [result EXCEPT ![c] = None] /\ UNCHANGED <<live, given>>
        BY <1>12, <2>2 DEF Clean, IInv, TypeOK, linkVars
    <2> QED
        BY <1>12, <2>1, <2>2 DEF Clean
<1>13. CASE Free
    <2>1. \A c \in Clients : given[c] = None /\ result[c] = None
        BY <1>13 DEF Free, IInv, Owned
    <2>2. leaked' \in Nat
        BY <1>13, FS_Subset, FS_CardinalityType DEF Free, IInv, TypeOK
    <2> QED
        BY <1>13, <2>1, <2>2, EmptySeq DEF Free, IInv, TypeOK
<1>14. CASE UNCHANGED vars
    BY <1>14 DEF vars, linkVars, recVars, IInv, TypeOK
<1> QED
    BY <1>1, <1>2, <1>3, <1>4, <1>5, <1>6, <1>7, <1>8, <1>9, <1>10, <1>11, <1>12,
       <1>13, <1>14 DEF Next, Gone

(* A step of open or close, the end of the pool, or a step that leaves the links
   as they are. *)
LEMMA LinkCases ==
    ASSUME [Next]_vars
    PROVE  \/ \E c \in Clients :
                  \/ OpenStart(c) \/ Skip(c) \/ Take(c) \/ PingFails(c) \/ ScanEnds(c)
                  \/ GrowFails(c) \/ (\E l \in Links : Grow(c, l)) \/ Close(c)
           \/ Free
           \/ UNCHANGED linkVars
<1>1. ASSUME NEW c \in Clients,
             \/ Execute(c) \/ (\E away \in BOOLEAN : Select(c, away))
             \/ SelectFails(c) \/ Clean(c)
      PROVE  UNCHANGED linkVars
    BY <1>1 DEF Execute, Select, SelectFails, Clean
<1>2. CASE UNCHANGED vars
    BY <1>2 DEF vars
<1> QED
    BY <1>1, <1>2 DEF Next, Gone

LEMMA LockStep == IInv /\ [Next]_vars => ScanLocked'
<1> SUFFICES ASSUME IInv, [Next]_vars PROVE ScanLocked'
    OBVIOUS
<1> USE PoolAssumption DEF IInv, TypeOK, ScanLocked
<1>1. ASSUME NEW c \in Clients, OpenStart(c) PROVE ScanLocked'
    BY <1>1 DEF OpenStart
<1>2. ASSUME NEW c \in Clients, Skip(c) PROVE ScanLocked'
    BY <1>2 DEF Skip
<1>3. ASSUME NEW c \in Clients, Take(c) PROVE ScanLocked'
    BY <1>3 DEF Take, Scanning
<1>4. ASSUME NEW c \in Clients, PingFails(c) PROVE ScanLocked'
    BY <1>4 DEF PingFails, Scanning, AfterPing
<1>5. ASSUME NEW c \in Clients, ScanEnds(c) PROVE ScanLocked'
    BY <1>5 DEF ScanEnds
<1>6. ASSUME NEW c \in Clients, NEW l \in Links, Grow(c, l) PROVE ScanLocked'
    BY <1>6 DEF Grow
<1>7. ASSUME NEW c \in Clients, GrowFails(c) PROVE ScanLocked'
    BY <1>7 DEF GrowFails
<1>8. ASSUME NEW c \in Clients, Close(c) PROVE ScanLocked'
    BY <1>8 DEF Close
<1>9. CASE Free
    BY <1>9 DEF Free
<1>10. CASE UNCHANGED linkVars
    BY <1>10 DEF linkVars
<1> QED
    BY <1>1, <1>2, <1>3, <1>4, <1>5, <1>6, <1>7, <1>8, <1>9, <1>10, LinkCases

LEMMA ListStep == IInv /\ [Next]_vars => Listed'
<1> SUFFICES ASSUME IInv, [Next]_vars PROVE Listed'
    OBVIOUS
<1>1. ASSUME NEW c \in Clients,
             OpenStart(c) \/ Skip(c) \/ PingFails(c) \/ ScanEnds(c) \/ GrowFails(c)
      PROVE  Listed'
    BY <1>1 DEF IInv, Listed, OpenStart, Skip, PingFails, ScanEnds, GrowFails
<1>2. ASSUME NEW c \in Clients, Take(c) PROVE Listed'
    BY <1>2 DEF IInv, TypeOK, Listed, Take, Taken, Scanning
<1>3. ASSUME NEW c \in Clients, NEW l \in Links, Grow(c, l) PROVE Listed'
    <2>1. /\ Len(list') = Len(list) + 1 /\ list' \in Seq(Links)
          /\ list'[1] = l
          /\ \A i \in 2 .. Len(list) + 1 : list'[i] = list[i - 1]
        BY <1>3, ConcatProperties DEF IInv, TypeOK, Grow
    <2>2. DOMAIN list = 1 .. Len(list) /\ DOMAIN list' = 1 .. Len(list) + 1 /\ Len(list) \in Nat
        BY <2>1 DEF IInv, TypeOK
    <2>3. \A i \in DOMAIN list : list[i] # l /\ list[i] = list'[i + 1]
        BY <1>3, <2>1, <2>2 DEF IInv, Listed, Grow
    <2>4. \A i, j \in DOMAIN list' : list'[i] = list'[j] => i = j
        <3> SUFFICES ASSUME NEW i \in DOMAIN list', NEW j \in DOMAIN list',
                            list'[i] = list'[j]
                     PROVE  i = j
            OBVIOUS
        <3>1. CASE i = 1 \/ j = 1
            <4>1. ASSUME NEW k \in DOMAIN list', k # 1 PROVE list'[k] # l
                <5>1. k - 1 \in DOMAIN list /\ (k - 1) + 1 = k
                    BY <2>2, <4>1
                <5> QED
                    BY <2>3, <5>1
            <4> QED
                BY <2>1, <3>1, <4>1
        <3>2. CASE i # 1 /\ j # 1
            <4>1. i - 1 \in DOMAIN list /\ j - 1 \in DOMAIN list
                BY <2>2, <3>2
            <4>2. list[i - 1] = list[j - 1]
                BY <2>1, <2>2, <3>2
            <4> QED
                BY <2>2, <4>1, <4>2 DEF IInv, Listed
        <3> QED
            BY <3>1, <3>2
    <2>5. ASSUME NEW m \in Links
          PROVE  state'[m] # "none" <=> \E i \in DOMAIN list' : list'[i] = m
        <3>1. CASE m = l
            BY <1>3, <2>1, <2>2, <3>1 DEF IInv, TypeOK, Grow
        <3>2. CASE m # l
            <4>1. state'[m] = state[m]
                BY <1>3, <3>2 DEF IInv, TypeOK, Grow
            <4>2. ASSUME NEW i \in DOMAIN list, list[i] = m
                  PROVE  \E j \in DOMAIN list' : list'[j] = m
                BY <2>2, <2>3, <4>2
            <4>3. ASSUME NEW i \in DOMAIN list', list'[i] = m
                  PROVE  \E j \in DOMAIN list : list[j] = m
                <5>1. i - 1 \in DOMAIN list /\ list[i - 1] = m
                    BY <2>1, <2>2, <3>2, <4>3
                <5> QED
                    BY <5>1
            <4> QED
                BY <4>1, <4>2, <4>3 DEF IInv, Listed
        <3> QED
            BY <3>1, <3>2
    <2> QED
        BY <2>4, <2>5 DEF Listed
<1>4. ASSUME NEW c \in Clients, Close(c) PROVE Listed'
    BY <1>4, PoolAssumption DEF IInv, TypeOK, Listed, OneHolder, Close
<1>5. CASE Free
    BY <1>5 DEF Free, Listed
<1>6. CASE UNCHANGED linkVars
    BY <1>6 DEF linkVars, IInv, Listed
<1> QED
    BY <1>1, <1>2, <1>3, <1>4, <1>5, <1>6, LinkCases

LEMMA HolderStep == IInv /\ [Next]_vars => OneHolder'
<1> SUFFICES ASSUME IInv, [Next]_vars PROVE OneHolder'
    OBVIOUS
<1>1. ASSUME NEW c \in Clients,
             OpenStart(c) \/ Skip(c) \/ PingFails(c) \/ ScanEnds(c) \/ GrowFails(c)
      PROVE  OneHolder'
    BY <1>1 DEF IInv, OneHolder, OpenStart, Skip, PingFails, ScanEnds, GrowFails
<1>2. ASSUME NEW c \in Clients, NEW l \in Links, held[c] = None,
             state[l] # "hold", state' = [state EXCEPT ![l] = "hold"],
             held' = [held EXCEPT ![c] = l]
      PROVE  OneHolder'
    BY <1>2, PoolAssumption DEF IInv, TypeOK, OneHolder
<1>3. ASSUME NEW c \in Clients, Take(c) PROVE OneHolder'
    <2>1. list[at[c]] \in Links /\ held[c] = None /\ state[list[at[c]]] # "hold"
        BY <1>3 DEF Take, Scanning, IInv, TypeOK, Scanned, ScanLocked
    <2> QED
        BY <1>2, <1>3, <2>1 DEF Take, Taken
<1>4. ASSUME NEW c \in Clients, NEW l \in Links, Grow(c, l) PROVE OneHolder'
    BY <1>2, <1>4 DEF Grow, IInv, ScanLocked
<1>5. ASSUME NEW c \in Clients, Close(c) PROVE OneHolder'
    BY <1>5, PoolAssumption DEF Close, IInv, TypeOK, OneHolder
<1>6. CASE Free
    BY <1>6, PoolAssumption DEF Free, OneHolder
<1>7. CASE UNCHANGED linkVars
    BY <1>7 DEF linkVars, IInv, OneHolder
<1> QED
    BY <1>1, <1>3, <1>4, <1>5, <1>6, <1>7, LinkCases

LEMMA Sizes ==
    ASSUME NEW S \in SUBSET Clients, NEW T \in SUBSET S
    PROVE  /\ IsFiniteSet(S) /\ IsFiniteSet(T)
           /\ Cardinality(S) \in Nat /\ Cardinality(T) \in Nat
           /\ Cardinality(T) <= Cardinality(S)
<1>1. IsFiniteSet(S)
    BY PoolAssumption, FS_Subset
<1>2. IsFiniteSet(T) /\ Cardinality(T) <= Cardinality(S)
    BY <1>1, FS_Subset
<1> QED
    BY <1>1, <1>2, FS_CardinalityType

LEMMA ScanStep == IInv /\ [Next]_vars => Scanned'
<1> SUFFICES ASSUME IInv, [Next]_vars, NEW e \in Clients, pc'[e] = "scan"
             PROVE  /\ at'[e] \in 1 .. Len(list') + 1
                    /\ at'[e] - 1 + Cardinality(Ahead(e)') <= Cardinality(Idle')
    BY DEF Scanned
<1> DEFINE Goal == /\ at'[e] \in 1 .. Len(list') + 1
                   /\ at'[e] - 1 + Cardinality(Ahead(e)') <= Cardinality(Idle')
<1>1. rootLock' = e
    BY LockStep DEF ScanLocked
<1>2. /\ Ahead(e) \subseteq Clients /\ Idle \subseteq Clients /\ Len(list) \in Nat
      /\ Ahead(e)' \subseteq Clients /\ Idle' \subseteq Clients
    BY DEF Ahead, Idle, IInv, TypeOK
<1>3. /\ Cardinality(Ahead(e)) \in Nat /\ Cardinality(Idle) \in Nat
      /\ Cardinality(Ahead(e)') \in Nat /\ Cardinality(Idle') \in Nat
      /\ IsFiniteSet(Ahead(e))
    BY <1>2, Sizes
<1>4. ASSUME pc[e] = "scan", at'[e] = at[e], list' = list,
             Ahead(e)' \subseteq Ahead(e), Idle \subseteq Idle'
      PROVE  Goal
    <2>1. Cardinality(Ahead(e)') <= Cardinality(Ahead(e)) /\ Cardinality(Idle) <= Cardinality(Idle')
        BY <1>2, <1>4, Sizes
    <2>2. at[e] \in 1 .. Len(list) + 1 /\ at[e] - 1 + Cardinality(Ahead(e)) <= Cardinality(Idle)
        BY <1>4 DEF IInv, Scanned
    <2> QED
        BY <1>2, <1>3, <1>4, <2>1, <2>2
<1>5. ASSUME NEW c \in Clients, OpenStart(c) PROVE Goal
    <2>1. c = e /\ at'[e] = 1 /\ list' = list
        BY <1>1, <1>5, PoolAssumption DEF OpenStart, IInv, TypeOK, ScanLocked
    <2>2. Ahead(e)' \subseteq Idle'
        <3> SUFFICES ASSUME NEW d \in Ahead(e)' PROVE d \in Idle'
            OBVIOUS
        <3>1. d \in Clients /\ held[d] # None
            BY <1>5, <2>1, PoolAssumption DEF OpenStart, Ahead, IInv, TypeOK
        <3>2. d # c /\ pc[d] = "idle"
            BY <1>5, <3>1 DEF OpenStart, IInv, ScanLocked
        <3> QED
            BY <1>5, <3>1, <3>2 DEF OpenStart, Idle, IInv, TypeOK
    <2>3. Cardinality(Ahead(e)') <= Cardinality(Idle')
        BY <1>2, <2>2, Sizes
    <2> QED
        BY <1>2, <1>3, <2>1, <2>3
<1>6. ASSUME NEW c \in Clients, Skip(c) PROVE Goal
    <2>1. c = e /\ pc[e] = "scan" /\ at[e] \in 1 .. Len(list) /\ list[at[e]] \in Links
        BY <1>1, <1>6 DEF Skip, Scanning, IInv, TypeOK, ScanLocked, Scanned
    <2>2. at'[e] = at[e] + 1 /\ list' = list /\ Idle' = Idle
        BY <1>6, <2>1 DEF Skip, Idle, IInv, TypeOK
    <2>3. PICK d \in Clients : held[d] = list[at[e]]
        BY <1>6, <2>1 DEF Skip, Scanning, IInv, OneHolder
    <2>4. d \in Ahead(e)
        BY <1>2, <2>1, <2>3 DEF Ahead
    <2>5. Ahead(e)' \subseteq Ahead(e) \ {d}
        BY <1>2, <1>6, <2>1, <2>2, <2>3 DEF Skip, Ahead, IInv, Listed, TypeOK
    <2>6. Cardinality(Ahead(e) \ {d}) = Cardinality(Ahead(e)) - 1
        BY <1>3, <2>4, FS_RemoveElement
    <2>7. Cardinality(Ahead(e)') <= Cardinality(Ahead(e)) - 1
        BY <1>2, <2>5, <2>6, Sizes
    <2>8. at[e] - 1 + Cardinality(Ahead(e)) <= Cardinality(Idle)
        BY <2>1 DEF IInv, Scanned
    <2>9. at[e] + Cardinality(Ahead(e)') <= Cardinality(Idle)
        BY <1>3, <2>1, <2>7, <2>8
    <2>10. at'[e] \in 1 .. Len(list') + 1
        BY <1>2, <2>1, <2>2
    <2>11. at'[e] - 1 = at[e]
        BY <2>1, <2>2
    <2> QED
        BY <2>2, <2>9, <2>10, <2>11
<1>7. ASSUME NEW c \in Clients, GrowFails(c) PROVE Goal
    <2>1. pc[e] = "scan" /\ at' = at /\ list' = list /\ Ahead(e)' = Ahead(e)
        BY <1>7 DEF GrowFails, Ahead, IInv, TypeOK
    <2>2. Idle \subseteq Idle'
        BY <1>7 DEF GrowFails, Idle, IInv, TypeOK
    <2> QED
        BY <1>4, <2>1, <2>2
<1>8. ASSUME NEW c \in Clients, Close(c) PROVE Goal
    <2>1. pc[e] = "scan" /\ at' = at /\ list' = list /\ Idle' = Idle
        BY <1>8 DEF Close, Idle
    <2>2. Ahead(e)' \subseteq Ahead(e)
        <3> SUFFICES ASSUME NEW d \in Clients, NEW i \in at[e] .. Len(list),
                            held'[d] = list[i]
                     PROVE  d \in Ahead(e)
            BY <2>1 DEF Ahead
        <3>1. list[i] \in Links
            BY <1>2, <2>1 DEF IInv, TypeOK, Scanned
        <3>2. held[d] = list[i]
            BY <1>8, <3>1, PoolAssumption DEF Close, IInv, TypeOK
        <3> QED
            BY <3>2 DEF Ahead
    <2> QED
        BY <1>4, <2>1, <2>2
<1>9. ASSUME NEW c \in Clients,
             Take(c) \/ PingFails(c) \/ ScanEnds(c) \/ \E l \in Links : Grow(c, l)
      PROVE  FALSE
    BY <1>1, <1>9, PoolAssumption DEF Take, PingFails, ScanEnds, Grow
<1>10. CASE Free
    BY <1>10 DEF Free
<1>11. CASE UNCHANGED linkVars
    <2>1. pc[e] = "scan" /\ at' = at /\ list' = list /\ Ahead(e)' = Ahead(e) /\ Idle' = Idle
        BY <1>11 DEF linkVars, Ahead, Idle
    <2> QED
        BY <1>4, <2>1
<1> QED
    BY <1>5, <1>6, <1>7, <1>8, <1>9, <1>10, <1>11, LinkCases

LEMMA BoundStep == IInv /\ [Next]_vars => PoolBounded'
<1> SUFFICES ASSUME IInv, [Next]_vars
             PROVE  Len(list') + Cardinality(Growers') <= Cardinality(Clients)
    BY DEF PoolBounded, Growers
<1> DEFINE Goal == Len(list') + Cardinality(Growers') <= Cardinality(Clients)
<1>1. Growers \subseteq Clients /\ Growers' \subseteq Clients /\ Len(list) \in Nat
    BY DEF Growers, IInv, TypeOK
<1>2. /\ Cardinality(Growers) \in Nat /\ Cardinality(Growers') \in Nat
      /\ Cardinality(Clients) \in Nat /\ IsFiniteSet(Growers)
    BY <1>1, Sizes
<1>3. Len(list) + Cardinality(Growers) <= Cardinality(Clients)
    BY DEF IInv, PoolBounded, Growers
<1>4. ASSUME list' = list, Growers' \subseteq Growers PROVE Goal
    <2>1. Cardinality(Growers') <= Cardinality(Growers)
        BY <1>1, <1>4, Sizes
    <2> QED
        BY <1>1, <1>2, <1>3, <1>4, <2>1
<1>5. ASSUME NEW c \in Clients,
             \/ OpenStart(c) \/ Skip(c) \/ Take(c) \/ PingFails(c)
             \/ GrowFails(c) \/ Close(c)
      PROVE  Goal
    <2>1. list' = list /\ Growers' \subseteq Growers
        BY <1>5 DEF OpenStart, Skip, Take, PingFails, AfterPing, GrowFails, Close,
                    Growers, IInv, TypeOK
    <2> QED
        BY <1>4, <2>1
<1>6. ASSUME NEW c \in Clients, ScanEnds(c) PROVE Goal
    <2>1. /\ c \notin Growers /\ Growers' = Growers \cup {c} /\ list' = list
        BY <1>6 DEF ScanEnds, Growers, IInv, TypeOK
    <2>2. Cardinality(Growers') = Cardinality(Growers) + 1
        BY <1>2, <2>1, FS_AddElement
    <2>3. Len(list) <= Cardinality(Idle)
        <3>1. Ahead(c) \subseteq Clients /\ Idle \subseteq Clients
            BY DEF Ahead, Idle
        <3>2. Cardinality(Ahead(c)) \in Nat /\ Cardinality(Idle) \in Nat
            BY <3>1, Sizes
        <3>3. at[c] \in Nat /\ at[c] > Len(list) /\ at[c] - 1 + Cardinality(Ahead(c)) <= Cardinality(Idle)
            BY <1>6 DEF ScanEnds, IInv, Scanned, TypeOK
        <3> QED
            BY <1>1, <3>2, <3>3
    <2>4. Cardinality(Idle) + Cardinality(Growers') <= Cardinality(Clients)
        <3>1. Idle \cap Growers' = {} /\ Idle \cup Growers' \subseteq Clients
            BY <1>1, <1>6, <2>1 DEF ScanEnds, Idle, Growers
        <3>2. IsFiniteSet(Idle) /\ IsFiniteSet(Growers') /\ Cardinality(Idle) \in Nat
            BY <3>1, Sizes
        <3>3. Cardinality(Idle \cup Growers') = Cardinality(Idle) + Cardinality(Growers')
            BY <1>2, <3>1, <3>2, FS_Union, FS_EmptySet
        <3> QED
            BY <3>1, <3>3, Sizes
    <2>5. Cardinality(Idle) \in Nat
        BY Sizes DEF Idle
    <2> QED
        BY <1>1, <1>2, <2>1, <2>3, <2>4, <2>5
<1>7. ASSUME NEW c \in Clients, NEW l \in Links, Grow(c, l) PROVE Goal
    <2>1. Len(list') = Len(list) + 1
        BY <1>7, ConcatProperties DEF Grow, IInv, TypeOK
    <2>2. c \in Growers /\ Growers' = Growers \ {c}
        BY <1>7 DEF Grow, Growers, IInv, TypeOK
    <2>3. Cardinality(Growers') = Cardinality(Growers) - 1
        BY <1>2, <2>2, FS_RemoveElement
    <2> QED
        BY <1>1, <1>2, <1>3, <2>1, <2>3
<1>8. CASE Free
    <2>1. Len(list') = 0 /\ Cardinality(Growers') <= Cardinality(Clients)
        BY <1>1, <1>8, Sizes DEF Free
    <2> QED
        BY <1>2, <2>1
<1>9. CASE UNCHANGED linkVars
    <2>1. list' = list /\ Growers' = Growers
        BY <1>9 DEF linkVars, Growers
    <2> QED
        BY <1>4, <2>1
<1> QED
    BY <1>5, <1>6, <1>7, <1>8, <1>9, LinkCases

(* A step of open, close or free, or a query. *)
LEMMA RecCases ==
    ASSUME [Next]_vars
    PROVE  \/ /\ UNCHANGED recVars
              /\ \/ UNCHANGED linkVars
                 \/ \E c \in Clients :
                        \/ OpenStart(c) \/ Skip(c) \/ Take(c) \/ PingFails(c) \/ ScanEnds(c)
                        \/ GrowFails(c) \/ (\E l \in Links : Grow(c, l)) \/ Close(c)
           \/ \E c \in Clients :
                  \/ Execute(c) \/ (\E away \in BOOLEAN : Select(c, away))
                  \/ SelectFails(c) \/ Clean(c)
           \/ Free
<1>1. ASSUME NEW c \in Clients,
             \/ OpenStart(c) \/ Skip(c) \/ Take(c) \/ PingFails(c) \/ ScanEnds(c)
             \/ GrowFails(c) \/ (\E l \in Links : Grow(c, l)) \/ Close(c)
      PROVE  UNCHANGED recVars
    BY <1>1 DEF OpenStart, Skip, Take, PingFails, ScanEnds, GrowFails, Grow, Close
<1>2. CASE UNCHANGED vars
    BY <1>2 DEF vars
<1> QED
    BY <1>1, <1>2 DEF Next, Gone

(* What a client that cleans a result gives back is nobody else's. *)
LEMMA ResultFacts ==
    ASSUME IInv, NEW c \in Clients
    PROVE  /\ given[c] # None =>
                  /\ \A d \in Clients : result[d] # given[c]
                  /\ \A d \in Clients \ {c} : given[d] # given[c]
           /\ result[c] # None =>
                  /\ \A d \in Clients : given[d] # result[c]
                  /\ \A d \in Clients \ {c} : result[d] # result[c]
<1>1. \A d \in Clients : result[d] # None => held[d] \in Links /\ stmt[held[d]] = result[d]
    BY DEF IInv, TypeOK, Owned
<1>2. ASSUME given[c] # None
      PROVE  /\ \A d \in Clients : result[d] # given[c]
             /\ \A d \in Clients \ {c} : given[d] # given[c]
    BY <1>1, <1>2 DEF IInv, Owned
<1>3. ASSUME result[c] # None PROVE \A d \in Clients : given[d] # result[c]
    BY <1>1, <1>3 DEF IInv, Owned
<1>4. ASSUME result[c] # None, NEW d \in Clients \ {c}, result[d] = result[c] PROVE FALSE
    <2>1. held[d] = held[c] /\ held[d] # None
        BY <1>1, <1>4 DEF IInv, Owned
    <2> QED
        BY <1>4, <2>1 DEF IInv, OneHolder
<1> QED
    BY <1>2, <1>3, <1>4

LEMMA OwnStep == IInv /\ [Next]_vars => Owned'
<1> SUFFICES ASSUME IInv, [Next]_vars PROVE Owned'
    OBVIOUS
<1>1. ASSUME UNCHANGED recVars,
             \A d \in Clients : held'[d] = held[d] \/ (given[d] = None /\ result[d] = None)
      PROVE  Owned'
    BY <1>1 DEF recVars, IInv, Owned
<1>2. ASSUME NEW c \in Clients,
             OpenStart(c) \/ Skip(c) \/ PingFails(c) \/ ScanEnds(c) \/ GrowFails(c)
      PROVE  Owned'
    BY <1>1, <1>2 DEF OpenStart, Skip, PingFails, ScanEnds, GrowFails
<1>3. ASSUME NEW c \in Clients, Take(c) \/ \E l \in Links : Grow(c, l) PROVE Owned'
    <2>1. UNCHANGED recVars /\ \A d \in Clients \ {c} : held'[d] = held[d]
        BY <1>3 DEF Take, Grow, IInv, TypeOK
    <2>2. held[c] = None
        BY <1>3 DEF Take, Scanning, Grow, IInv, ScanLocked
    <2>3. given[c] = None /\ result[c] = None
        BY <2>2 DEF IInv, Owned
    <2> QED
        BY <1>1, <2>1, <2>3
<1>4. ASSUME NEW c \in Clients, Close(c) PROVE Owned'
    BY <1>1, <1>4 DEF Close, IInv, TypeOK
<1>5. CASE Free
    <2>1. \A d \in Clients : given'[d] = None /\ result'[d] = None
        BY <1>5 DEF Free, IInv, Owned
    <2> QED
        BY <1>5, <2>1 DEF Free, Owned
<1>6. ASSUME NEW c \in Clients, MayQuery(c), NEW r \in RecordOf(held[c]),
             stmt' = [stmt EXCEPT ![held[c]] = r],
             handle' = handle \cup {r} \/ handle' = handle \ {r},
             UNCHANGED <<held, given, result>>
      PROVE  Owned'
    BY <1>6, RecordFacts DEF IInv, TypeOK, Owned
<1>7. ASSUME NEW c \in Clients, Execute(c) PROVE Owned'
    BY <1>6, <1>7 DEF Execute, HandlesAfter, linkVars
<1>8. ASSUME NEW c \in Clients, SelectFails(c) PROVE Owned'
    BY <1>6, <1>8 DEF SelectFails, Executed, linkVars
<1>9. ASSUME NEW c \in Clients, NEW away \in BOOLEAN, Select(c, away) PROVE Owned'
    <2> DEFINE Gives(r) == /\ given' = [given EXCEPT ![c] = r]
                           /\ stmt' = [stmt EXCEPT ![held[c]] = None] /\ UNCHANGED result
               Keeps(r) == /\ result' = [result EXCEPT ![c] = r]
                           /\ stmt' = [stmt EXCEPT ![held[c]] = r] /\ UNCHANGED given
    <2>1. PICK r \in RecordOf(held[c]) : handle' = handle \cup {r} /\ (Gives(r) \/ Keeps(r))
        BY <1>9 DEF Select, Executed
    <2>2. MayQuery(c) /\ held' = held /\ held[c] # None
        BY <1>9 DEF Select, MayQuery, linkVars
    <2>3. CASE Gives(r)
        BY <2>1, <2>2, <2>3, RecordFacts DEF IInv, TypeOK, Owned
    <2>4. CASE Keeps(r)
        BY <2>1, <2>2, <2>4, RecordFacts DEF IInv, TypeOK, Owned
    <2> QED
        BY <2>1, <2>3, <2>4
<1>10. ASSUME NEW c \in Clients, Clean(c) PROVE Owned'
    <2>1. CASE /\ given[c] # None /\ handle' = handle \ {given[c]}
               /\ given' = [given EXCEPT ![c] = None] /\ UNCHANGED result
        <3>1. /\ \A d \in Clients : result[d] # given[c]
              /\ \A d \in Clients \ {c} : given[d] # given[c]
            BY <2>1, ResultFacts
        <3> QED
            BY <1>10, <2>1, <3>1 DEF Clean, linkVars, IInv, TypeOK, Owned
    <2>2. CASE /\ result[c] # None /\ handle' = handle \ {result[c]}
               /\ result' = [result EXCEPT ![c] = None] /\ UNCHANGED given
        <3>1. /\ \A d \in Clients : given[d] # result[c]
              /\ \A d \in Clients \ {c} : result[d] # result[c]
            BY <2>2, ResultFacts
        <3> QED
            BY <1>10, <2>2, <3>1 DEF Clean, linkVars, IInv, TypeOK, Owned
    <2> QED
        BY <1>10, <2>1, <2>2 DEF Clean
<1>11. CASE UNCHANGED <<linkVars, recVars>>
    BY <1>1, <1>11 DEF linkVars
<1> QED
    BY <1>2, <1>3, <1>4, <1>5, <1>7, <1>8, <1>9, <1>10, <1>11, RecCases

-----------------------------------------------------------------------------
(* Statements that are open, and that no client has been told of. *)
Loose == handle \ Wanted

LEMMA LooseSizes ==
    ASSUME IInv
    PROVE  /\ IsFiniteSet(handle) /\ IsFiniteSet(Loose)
           /\ Cardinality(handle) \in Nat /\ Cardinality(Loose) \in Nat
           /\ leaked + Cardinality(Loose) <= failed
<1>1. IsFiniteSet(handle)
    BY PoolAssumption, FS_Subset DEF IInv, TypeOK
<1>2. IsFiniteSet(Loose)
    BY <1>1, FS_Subset DEF Loose
<1> QED
    BY <1>1, <1>2, FS_CardinalityType DEF IInv, Counted, Loose

(* A step that leaves no more of them than there were. *)
LEMMA LooseShrinks ==
    ASSUME IInv, Loose' \subseteq Loose, leaked' = leaked, failed' = failed
    PROVE  Counted'
<1>1. Cardinality(Loose') <= Cardinality(Loose) /\ Cardinality(Loose') \in Nat
    BY LooseSizes, FS_Subset, FS_CardinalityType
<1>2. leaked' + Cardinality(Loose') <= failed'
    BY <1>1, LooseSizes DEF IInv, TypeOK
<1> QED
    BY <1>2 DEF Counted, Loose

(* A query that takes a record over: if it was open, it was one of them. *)
LEMMA LooseTaken ==
    ASSUME IInv, NEW r, r \notin Wanted, Overwrites(r), Loose' \subseteq Loose \ {r},
           failed' \in Nat, failed <= failed'
    PROVE  Counted'
<1>1. IsFiniteSet(Loose \ {r}) /\ Cardinality(Loose \ {r}) \in Nat
    BY LooseSizes, FS_Subset, FS_CardinalityType
<1>2. Cardinality(Loose') <= Cardinality(Loose \ {r}) /\ Cardinality(Loose') \in Nat
    BY <1>1, FS_Subset, FS_CardinalityType
<1>3. leaked' + Cardinality(Loose \ {r}) = leaked + Cardinality(Loose)
    <2>1. CASE r \in handle
        <3>1. r \in Loose /\ leaked' = leaked + 1
            BY <2>1 DEF Loose, Overwrites
        <3>2. Cardinality(Loose \ {r}) = Cardinality(Loose) - 1
            BY <3>1, LooseSizes, FS_RemoveElement
        <3> QED
            BY <3>1, <3>2, LooseSizes DEF IInv, TypeOK
    <2>2. CASE r \notin handle
        <3>1. Loose \ {r} = Loose /\ leaked' = leaked
            BY <2>2 DEF Loose, Overwrites
        <3> QED
            BY <3>1
    <2> QED
        BY <2>1, <2>2
<1>4. leaked \in Nat /\ leaked' \in Nat /\ failed \in Nat
    BY DEF IInv, TypeOK, Overwrites
<1>5. leaked' + Cardinality(Loose') <= failed'
    BY <1>1, <1>2, <1>3, <1>4, LooseSizes
<1> QED
    BY <1>5 DEF Counted, Loose

LEMMA CountStep == IInv /\ [Next]_vars => Counted'
<1> SUFFICES ASSUME IInv, [Next]_vars PROVE Counted'
    OBVIOUS
<1>1. CASE UNCHANGED recVars
    BY <1>1, LooseShrinks DEF recVars, Loose, Wanted
<1>2. ASSUME NEW c \in Clients, Execute(c) PROVE Counted'
    <2>1. PICK r \in RecordOf(held[c]) : Overwrites(r) /\ handle' = HandlesAfter(r)
        BY <1>2 DEF Execute
    <2>2. r \notin Wanted
        BY <1>2, RecordFacts DEF Execute, Wanted
    <2>3. Loose' \subseteq Loose \ {r} /\ failed' = failed
        BY <1>2, <2>1 DEF Execute, HandlesAfter, Loose, Wanted
    <2> QED
        BY <2>1, <2>2, <2>3, LooseTaken DEF IInv, TypeOK
<1>3. ASSUME NEW c \in Clients, NEW away \in BOOLEAN, Select(c, away) PROVE Counted'
    <2> DEFINE Gives(r) == /\ given[c] = None /\ given' = [given EXCEPT ![c] = r]
                           /\ UNCHANGED result
               Keeps(r) == result' = [result EXCEPT ![c] = r] /\ UNCHANGED given
    <2>1. PICK r \in RecordOf(held[c]) :
              /\ handle' = handle \cup {r} /\ Overwrites(r) /\ (Gives(r) \/ Keeps(r))
        BY <1>3 DEF Select, Executed
    <2>2. MayQuery(c) /\ failed' = failed
        BY <1>3 DEF Select
    <2>3. r \notin Wanted /\ result[c] = None
        BY <2>2, RecordFacts DEF Wanted
    <2>4. r \in Wanted' /\ Wanted \subseteq Wanted' \cup {None}
        <3>1. CASE Gives(r)
            BY <3>1 DEF Wanted, IInv, TypeOK
        <3>2. CASE Keeps(r)
            BY <2>3, <3>2 DEF Wanted, IInv, TypeOK
        <3> QED
            BY <2>1, <3>1, <3>2
    <2>5. None \notin handle
        BY PoolAssumption DEF IInv, TypeOK
    <2>6. Loose' \subseteq Loose \ {r}
        BY <2>1, <2>4, <2>5 DEF Loose
    <2> QED
        BY <2>1, <2>2, <2>3, <2>6, LooseTaken DEF IInv, TypeOK
<1>4. ASSUME NEW c \in Clients, SelectFails(c) PROVE Counted'
    <2>1. PICK r \in RecordOf(held[c]) :
              Overwrites(r) /\ (handle' = handle \cup {r} \/ handle' = handle \ {r})
        BY <1>4 DEF SelectFails, Executed
    <2>2. r \notin Wanted
        BY <1>4, RecordFacts DEF SelectFails, Wanted
    <2>3. Wanted' = Wanted /\ failed' = failed + 1 /\ failed \in Nat /\ leaked \in Nat
        BY <1>4 DEF SelectFails, Wanted, IInv, TypeOK
    <2>4. CASE handle' = handle \ {r}
        <3>1. Loose' \subseteq Loose \ {r}
            BY <2>3, <2>4 DEF Loose
        <3> QED
            BY <2>1, <2>2, <2>3, <3>1, LooseTaken
    <2>5. CASE handle' = handle \cup {r}
        <3>1. Loose' = Loose \cup {r}
            BY <2>2, <2>3, <2>5 DEF Loose
        <3>2. leaked' + Cardinality(Loose') = leaked + Cardinality(Loose) + 1
            <4>1. CASE r \in handle
                <5>1. Loose' = Loose /\ leaked' = leaked + 1
                    BY <2>1, <2>2, <3>1, <4>1 DEF Overwrites, Loose
                <5> QED
                    BY <2>3, <5>1, LooseSizes
            <4>2. CASE r \notin handle
                <5>1. r \notin Loose /\ leaked' = leaked
                    BY <2>1, <4>2 DEF Overwrites, Loose
                <5>2. Cardinality(Loose') = Cardinality(Loose) + 1
                    BY <3>1, <5>1, LooseSizes, FS_AddElement
                <5> QED
                    BY <2>3, <5>1, <5>2, LooseSizes
            <4> QED
                BY <4>1, <4>2
        <3>3. leaked' + Cardinality(Loose') <= failed'
            BY <2>3, <3>2, LooseSizes
        <3> QED
            BY <3>3 DEF Counted, Loose
    <2> QED
        BY <2>1, <2>4, <2>5
<1>5. ASSUME NEW c \in Clients, Clean(c) PROVE Counted'
    <2>1. PICK r \in {given[c], result[c]} :
              handle' = handle \ {r} /\ Wanted \subseteq Wanted' \cup {r}
        BY <1>5 DEF Clean, Wanted, IInv, TypeOK
    <2>2. Loose' \subseteq Loose
        BY <2>1 DEF Loose
    <2> QED
        BY <1>5, <2>2, LooseShrinks DEF Clean
<1>6. CASE Free
    <2>1. Wanted \subseteq {None} /\ None \notin handle
        BY <1>6, PoolAssumption DEF Free, Wanted, IInv, TypeOK, Owned
    <2>2. Loose = handle
        BY <2>1 DEF Loose
    <2>3. Cardinality(Loose') = 0
        BY <1>6, FS_EmptySet DEF Free, Loose
    <2>4. leaked' + Cardinality(Loose') <= failed'
        BY <1>6, <2>2, <2>3, LooseSizes DEF Free, IInv, TypeOK
    <2> QED
        BY <2>4 DEF Counted, Loose
<1> QED
    BY <1>1, <1>2, <1>3, <1>4, <1>5, <1>6, RecCases

-----------------------------------------------------------------------------
LEMMA Inductive == Spec => []IInv
<1>1. IInv /\ [Next]_vars => IInv'
    BY TypeStep, LockStep, ListStep, HolderStep, ScanStep, BoundStep, OwnStep, CountStep
       DEF IInv
<1> QED
    BY InvInit, <1>1, PTL DEF Spec

(* yod_dbconn_open and yod_dbconn_close, for any number of threads and links: a link
   that is in use has one holder and an idle one none, each is on the list once, a
   scan has root->lock, and there are never more links than threads. *)
THEOREM LinksHeldByOne == Spec => []HeldByOne
<1>1. IInv => HeldByOne
    <2> SUFFICES ASSUME IInv PROVE HeldByOne
        OBVIOUS
    <2>1. ASSUME NEW l \in Links
          PROVE  Cardinality(Holders(l)) = IF state[l] = "hold" THEN 1 ELSE 0
        <3>1. CASE state[l] = "hold"
            <4>1. PICK c \in Clients : held[c] = l
                BY <3>1 DEF IInv, OneHolder
            <4>2. Holders(l) = {c}
                BY <4>1, PoolAssumption DEF Holders, IInv, OneHolder
            <4> QED
                BY <3>1, <4>2, FS_Singleton
        <3>2. CASE state[l] # "hold"
            <4>1. Holders(l) = {}
                BY <3>2 DEF Holders, IInv, OneHolder
            <4> QED
                BY <3>2, <4>1, FS_EmptySet
        <3> QED
            BY <3>1, <3>2
    <2>2. IsInjective(list)
        BY DEF IsInjective, IInv, Listed
    <2>3. ToSet(list) = {l \in Links : state[l] # "none"}
        BY DEF ToSet, IInv, Listed, TypeOK
    <2> QED
        BY <2>1, <2>2, <2>3 DEF HeldByOne, IInv, ScanLocked
<1> QED
    BY Inductive, <1>1, PTL

(* The statement records of yod_dbconn_select, _execute and _clean, for any number
   of threads, links and records: a result that a client was given is open and its
   own, and the statements that were lost are no more than the selects that failed. *)
THEOREM StatementsKept == Spec => []StatementsAccounted
<1>1. IInv => StatementsAccounted
    BY DEF IInv, Owned, Counted, Wanted, StatementsAccounted
<1> QED
    BY Inductive, <1>1, PTL
=============================================================================
