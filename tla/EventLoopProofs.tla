-------------------------- MODULE EventLoopProofs ---------------------------
(***************************************************************************)
(* No event is used after its free, descriptors and lists agree, and the   *)
(* loop implements EventSource, for any number of events, descriptors and  *)
(* threads: from one inductive invariant.                                  *)
(***************************************************************************)
EXTENDS EventLoop, FiniteSetTheorems, SequenceTheorems, TLAPS

Adding(e) == \E t \in Threads : call[t] = "add" /\ on[t] = e

(* The events that have a descriptor of their own. *)
Owner(e) == (alloc[e] = "held" /\ last[e] # "close") \/ Adding(e)

(* yod_evloop_free comes last: nothing is under way, nothing is watched. *)
FreedLast ==
    state = "freed" => /\ lpc = "out" /\ \A t \in Threads : call[t] = "idle"
                       /\ \A e \in Events : epoll[e] = None

LoopPlace ==
    /\ batch # <<>> => lpc \in {"batch", "callback"}
    /\ lpc = "callback" => batch # <<>>
    /\ closing # None <=> lpc = "closing"

(* One call at a time on an event. *)
OneCall ==
    \A t \in Threads :
        /\ call[t] = "idle" <=> on[t] = None
        /\ \A u \in Threads : on[t] = on[u] => t = u \/ on[t] = None

(* A call is about an event that is not in the loop yet, or not deleted yet. *)
CallOn(e, name) ==
    /\ name = "add" => alloc[e] = "none"
    /\ name \in {"publish", "set", "del"} =>
           alloc[e] = "held" /\ last[e] # "close" /\ e \notin Range(deleted)
    /\ name = "publish" => e \notin known
CallsLive == \A t \in Threads : call[t] # "idle" => CallOn(on[t], call[t])

(* What each phase of a record's life says of it. *)
NotYet(e) == e \notin linked \cup known \cup Range(deleted) \cup Queued
             /\ last[e] = "none"
Gone(e)   == /\ e \notin linked \cup Range(deleted) \cup Queued
             /\ e \in known => last[e] = "close"
Record(e) ==
    /\ alloc[e] = "none" => NotYet(e)
    /\ alloc[e] = "held" => e \in linked /\ (last[e] = "close" => closing = e)
    /\ alloc[e] = "freed" => Gone(e)
    /\ epoll[e] # None => alloc[e] = "held" /\ last[e] # "close"
    /\ edge[e] # {} => epoll[e] # None
    /\ e \in Range(deleted) => epoll[e] = None /\ what[e] = {} /\ last[e] # "close"
    /\ e \in Queued => last[e] # "close"
    /\ closing = e =>
           /\ alloc[e] = "held" /\ last[e] = "close" /\ epoll[e] = None
           /\ e \notin Range(deleted)
Records == state # "freed" => \A e \in Events : Record(e)

Counted == state # "freed" => count = Cardinality(linked) /\ IsInjective(deleted)

(* Whoever owns a descriptor owns it alone. *)
Owned == state # "freed" =>
    \A e \in Events : Owner(e) =>
        /\ fd[e] \in open
        /\ \A g \in Events \ {e} : Owner(g) => fd[g] # fd[e]

IInv == /\ TypeOK /\ FreedLast /\ LoopPlace /\ OneCall /\ CallsLive
        /\ Records /\ Counted /\ Owned

(* A thread that adds saw room for its own event, the others may have seen the same. *)
AddersIn == {t \in Threads : call[t] = "add"}
Roomy ==
    /\ AddersIn \subseteq Adders
    /\ count + Cardinality(AddersIn) + 1 <= room + Cardinality(Adders)

(* While adds do not cross, the room that a thread saw is its own. *)
Uncrossed ==
    ~crossed =>
        /\ ~moved /\ ~spoilt /\ count <= room
        /\ \A t \in AddersIn : AddersIn = {t} /\ count + 1 <= room

-----------------------------------------------------------------------------
(* The steps that only move the loop or change what it is told. *)
records == <<linked, count, deleted, alloc, what, fd, known, epoll, edge, open,
             batch, closing, call, on, ask, last>>
Control ==
    \/ Start \/ Top \/ FuncDone \/ BeginDelete \/ EndDelete \/ EpollWait \/ EpollSpoils
    \/ EndBatch
    \/ \E t \in Threads : AddBreaks(t) \/ Stop(t)
    \/ UNCHANGED vars

LEMMA ControlFacts ==
    ASSUME Control
    PROVE  /\ UNCHANGED records /\ UNCHANGED room
           /\ state' = "freed" <=> state = "freed"
<1> USE DEF records, rootVars, arrayVars, eventVars, kernel, loopVars, callVars,
            bounds, LoopUnchanged
<1>1. CASE Start
    BY <1>1 DEF Start
<1>2. CASE Top \/ FuncDone \/ BeginDelete \/ EndDelete \/ EndBatch \/ EpollWait \/ EpollSpoils
    BY <1>2 DEF Top, FuncDone, BeginDelete, EndDelete, EndBatch, EpollWait,
               EpollSpoils
<1>3. ASSUME NEW t \in Threads, AddBreaks(t) \/ Stop(t)
      PROVE  /\ UNCHANGED records /\ UNCHANGED room
             /\ state' = "freed" <=> state = "freed"
    BY <1>3 DEF AddBreaks, Stop, MayCall
<1>4. CASE UNCHANGED vars
    BY <1>4 DEF vars
<1> QED
    BY <1>1, <1>2, <1>3, <1>4 DEF Control

(* What epoll_wait may hand out. *)
LEMMA OrderType ==
    ASSUME NEW S \in SUBSET Events, NEW order \in SetToSeqs(S)
    PROVE  /\ Cardinality(S) \in Nat
           /\ order \in [1 .. Cardinality(S) -> S]
           /\ \A e \in S : \E i \in DOMAIN order : order[i] = e
<1>1. IsFiniteSet(S) /\ Cardinality(S) \in Nat
    BY LoopAssumption, FS_Subset, FS_CardinalityType
<1> DEFINE D == 1 .. Cardinality(S)
<1>2. order \in [D -> S] /\ \A i, j \in D : i # j => order[i] # order[j]
    BY DEF SetToSeqs
<1>3. order \in Injection(D, S)
    BY <1>2 DEF Injection, IsInjective
<1>4. IsFiniteSet(D) /\ Cardinality(D) = Cardinality(S)
    BY <1>1, FS_Interval
<1>5. order \in Surjection(D, S)
    BY <1>1, <1>3, <1>4, FS_Injection
<1> QED
    BY <1>1, <1>2, <1>5 DEF Surjection

LEMMA TypeInit == Init => TypeOK
<1> SUFFICES ASSUME Init PROVE TypeOK
    OBVIOUS
<1>1. {moved, spoilt, crossed} \subseteq BOOLEAN
    BY DEF Init
<1> QED
    BY <1>1, LoopAssumption, EmptySeq DEF Init, TypeOK, Threads, Dirs, Flags

LEMMA DirsType == Dirs \subseteq Flags /\ \A f : First(f) \in Flags
BY DEF Dirs, Flags, First

LEMMA TypeStep == IInv /\ [Next]_vars => TypeOK'
<1> SUFFICES ASSUME IInv, [Next]_vars PROVE TypeOK'
    OBVIOUS
<1> USE DEF rootVars, arrayVars, eventVars, kernel, loopVars, callVars, bounds, LoopUnchanged
<1>1. TypeOK
    BY DEF IInv
<1>2. CASE Control
    <2>1. state' \in {"initial", "running", "stoping", "freed"} /\ lock' \in Threads \cup {None}
          /\ lpc' \in {"out", "top", "func", "lock", "delete", "closing", "wait",
                       "waiting", "batch", "callback"}
        BY <1>1, <1>2 DEF Control, Start, Top, FuncDone, BeginDelete, EndDelete,
               EndBatch, EpollWait, EpollSpoils, AddBreaks, Stop, Unlock, TypeOK, vars, Threads
    <2>2. {moved', spoilt', crossed'} \subseteq BOOLEAN
        BY <1>1, <1>2 DEF Control, Start, Top, FuncDone, BeginDelete, EndDelete,
               EndBatch, EpollWait, EpollSpoils, AddBreaks, Stop, TypeOK, vars
    <2> QED
        BY <1>1, <1>2, <2>1, <2>2, ControlFacts DEF records, TypeOK
<1>3. ASSUME NEW t \in Threads, AddReserve(t) PROVE TypeOK'
    <2>1. {moved, spoilt, crossed} \subseteq BOOLEAN
        BY <1>1 DEF TypeOK
    <2>2. /\ moved' = moved \/ moved' = (lpc = "waiting")
          /\ spoilt' = spoilt \/ spoilt' = (spoilt \/ (t # Loop /\ batch # <<>>))
          /\ crossed' = (crossed \/ Crossing(t))
        BY <1>3 DEF AddReserve, MakeRoom
    <2>3. moved' \in BOOLEAN /\ spoilt' \in BOOLEAN /\ crossed' \in BOOLEAN
        BY <2>1, <2>2, Zenon
    <2>4. room' \in Nat
        BY <1>1, <1>3, LoopAssumption DEF AddReserve, MakeRoom, TypeOK
    <2> QED
        BY <1>1, <1>3, <2>3, <2>4 DEF AddReserve, TypeOK, Enter
<1>4. ASSUME NEW t \in Threads, call[t] # "idle" PROVE on[t] \in Events
    BY <1>1, <1>4 DEF IInv, OneCall, TypeOK
<1>5. ASSUME NEW t \in Threads, AddLink(t) PROVE TypeOK'
    BY <1>1, <1>4, <1>5 DEF AddLink, TypeOK, LinkEvent
<1>6. ASSUME NEW t \in Threads, AddFails(t) PROVE TypeOK'
    BY <1>1, <1>4, <1>6 DEF AddFails, TypeOK, Return
<1>7. ASSUME NEW t \in Threads, AddPublish(t) PROVE TypeOK'
    BY <1>1, <1>4, <1>7 DEF AddPublish, TypeOK, Return
<1>8. ASSUME NEW t \in Threads, NEW e \in Events, NEW w \in SUBSET Dirs,
             SetTest(t, e, w) \/ DelTest(t, e, w)
      PROVE  TypeOK'
    <2>1. CASE SetTest(t, e, w)
        BY <1>1, <2>1 DEF SetTest, TypeOK, Enter
    <2>2. CASE DelTest(t, e, w)
        BY <1>1, <2>2 DEF DelTest, TypeOK, Enter
    <2> QED
        BY <1>8, <2>1, <2>2
<1>9. ASSUME NEW t \in Threads, SetApply(t) PROVE TypeOK'
    BY <1>1, <1>4, <1>9 DEF SetApply, SetWhat, TypeOK, Return
<1>10. ASSUME NEW t \in Threads, DelApply(t) PROVE TypeOK'
    <2>1. deleted' \in Seq(Events)
        BY <1>1, <1>4, <1>10 DEF DelApply, PushDeleted, TypeOK
    <2> QED
        BY <1>1, <1>4, <1>10, <2>1 DEF DelApply, Unwatch, TypeOK, Return
<1>11. CASE Free
    BY <1>1, <1>11 DEF Free, TypeOK
<1>12. CASE PopDeleted
    BY <1>1, <1>12 DEF PopDeleted, TypeOK
<1>13. CASE FreeDeleted
    <2>1. closing \in linked /\ IsFiniteSet(linked) /\ count = Cardinality(linked)
        BY <1>1, <1>13, LoopAssumption, FS_Subset
           DEF FreeDeleted, IInv, TypeOK, LoopPlace, FreedLast, Records, Record, Counted
    <2>2. count' \in Nat
        BY <1>13, <2>1, FS_CardinalityType, FS_EmptySet DEF FreeDeleted
    <2> QED
        BY <1>1, <1>13, <2>1, <2>2 DEF FreeDeleted, TypeOK
<1>14. CASE EpollReturns
    <2>1. PICK order \in SetToSeqs({e \in Events : edge[e] # {}}) :
              batch' = [i \in DOMAIN order |-> <<order[i], edge[order[i]]>>]
        BY <1>14 DEF EpollReturns, Ready
    <2>2. {e \in Events : edge[e] # {}} \in SUBSET Events
        OBVIOUS
    <2> DEFINE n == Cardinality({e \in Events : edge[e] # {}})
    <2>3. n \in Nat /\ order \in [1 .. n -> {e \in Events : edge[e] # {}}]
        BY <2>1, <2>2, OrderType
    <2> HIDE DEF n
    <2>4. batch' \in [1 .. n -> Events \X SUBSET Flags]
        BY <1>1, <2>1, <2>3 DEF TypeOK
    <2>5. batch' \in Seq(Events \X SUBSET Flags)
        BY <2>3, <2>4, SeqDef
    <2> QED
        BY <1>1, <1>14, <2>5 DEF EpollReturns, Ready, TypeOK
<1>15. ASSUME batch # <<>>
       PROVE  /\ batch[1] \in Events \X SUBSET Flags
              /\ Tail(batch) \in Seq(Events \X SUBSET Flags)
    BY <1>1, <1>15 DEF TypeOK
<1>16. CASE Dispatch
    BY <1>1, <1>15, <1>16 DEF Dispatch, TypeOK
<1>17. CASE CallbackDone
    <2>1. batch # <<>>
        BY <1>17 DEF CallbackDone, IInv, LoopPlace
    <2> DEFINE rest == <<batch[1][1], Left(batch[1][2])>>
    <2>2. rest \in Events \X SUBSET Flags
        BY <1>15, <2>1 DEF Left
    <2>3. <<rest>> \o Tail(batch) \in Seq(Events \X SUBSET Flags)
        BY <1>15, <2>1, <2>2, ConcatProperties
    <2>4. batch' \in Seq(Events \X SUBSET Flags)
        BY <1>15, <1>17, <2>1, <2>3 DEF CallbackDone
    <2> QED
        BY <1>1, <1>15, <1>17, <2>1, <2>4 DEF CallbackDone, TypeOK
<1>18. CASE Abandon
    BY <1>1, <1>18 DEF Abandon, TypeOK
<1>19. ASSUME NEW e \in Events, NEW flag \in Flags, EdgeArrives(e, flag) PROVE TypeOK'
    BY <1>1, <1>19 DEF EdgeArrives, TypeOK
<1> QED
    BY <1>2, <1>3, <1>5, <1>6, <1>7, <1>8, <1>9, <1>10, <1>11, <1>12, <1>13, <1>14,
       <1>16, <1>17, <1>18, <1>19 DEF Next, LoopStep, Finish, Control, Step, Ended

-----------------------------------------------------------------------------
(* The delete list is pushed and popped at its head. *)
LEMMA PushFront ==
    ASSUME NEW S, NEW s \in Seq(S), NEW e \in S
    PROVE  /\ Range(<<e>> \o s) = {e} \cup Range(s)
           /\ IsInjective(s) /\ e \notin Range(s) => IsInjective(<<e>> \o s)
<1> DEFINE r == <<e>> \o s
<1>1. /\ Len(s) \in Nat /\ DOMAIN s = 1 .. Len(s)
      /\ DOMAIN r = 1 .. Len(s) + 1
      /\ r[1] = e /\ \A i \in 1 .. Len(s) : r[i + 1] = s[i]
    BY LenProperties
<1> HIDE DEF r
<1>2. \A i \in DOMAIN r \ {1} : i - 1 \in DOMAIN s /\ r[i] = s[i - 1]
    <2> SUFFICES ASSUME NEW i \in DOMAIN r, i # 1
                 PROVE  i - 1 \in DOMAIN s /\ r[i] = s[i - 1]
        OBVIOUS
    <2>1. i - 1 \in 1 .. Len(s) /\ (i - 1) + 1 = i
        BY <1>1
    <2> QED
        BY <1>1, <2>1
<1>3. Range(r) = {e} \cup Range(s)
    <2>1. Range(r) \subseteq {e} \cup Range(s)
        BY <1>1, <1>2 DEF Range
    <2>2. \A i \in DOMAIN s : i + 1 \in DOMAIN r
        BY <1>1
    <2>3. {e} \cup Range(s) \subseteq Range(r)
        BY <1>1, <2>2 DEF Range
    <2> QED
        BY <2>1, <2>3
<1>4. ASSUME IsInjective(s), e \notin Range(s) PROVE IsInjective(r)
    <2> SUFFICES ASSUME NEW i \in DOMAIN r, NEW j \in DOMAIN r, r[i] = r[j] PROVE i = j
        BY DEF IsInjective
    <2>1. CASE i = 1 \/ j = 1
        BY <1>1, <1>2, <1>4, <2>1 DEF Range
    <2>2. CASE i # 1 /\ j # 1
        <3>1. i - 1 = j - 1
            BY <1>1, <1>2, <1>4, <2>2 DEF IsInjective
        <3> QED
            BY <1>1, <3>1
    <2> QED
        BY <2>1, <2>2
<1> QED
    BY <1>3, <1>4 DEF r

LEMMA PopFront ==
    ASSUME NEW S, NEW s \in Seq(S), s # <<>>, IsInjective(s)
    PROVE  /\ Head(s) \in Range(s)
           /\ Range(Tail(s)) = Range(s) \ {Head(s)}
           /\ IsInjective(Tail(s))
<1> DEFINE r == Tail(s)
<1>1. /\ Len(s) \in Nat \ {0} /\ DOMAIN s = 1 .. Len(s)
      /\ DOMAIN r = 1 .. Len(s) - 1
      /\ Head(s) = s[1] /\ \A i \in 1 .. Len(s) - 1 : r[i] = s[i + 1]
    BY EmptySeq, LenProperties
<1>2. \A i \in 2 .. Len(s) : i - 1 \in 1 .. Len(s) - 1 /\ s[i] = r[i - 1]
    BY <1>1
<1> HIDE DEF r
<1>3. Head(s) \in Range(s)
    BY <1>1 DEF Range
<1>4. Range(r) \subseteq Range(s) \ {Head(s)}
    BY <1>1 DEF Range, IsInjective
<1>5. Range(s) \ {Head(s)} \subseteq Range(r)
    <2> SUFFICES ASSUME NEW i \in 1 .. Len(s), s[i] # Head(s) PROVE s[i] \in Range(r)
        BY <1>1 DEF Range
    <2>1. i \in 2 .. Len(s)
        BY <1>1
    <2> QED
        BY <1>1, <1>2, <2>1 DEF Range
<1>6. IsInjective(r)
    BY <1>1 DEF IsInjective
<1> QED
    BY <1>3, <1>4, <1>5, <1>6 DEF r

(* What is left of the fetched batch after a step. *)
LEMMA QueuedFacts ==
    ASSUME IInv, [Next]_vars
    PROVE  /\ lpc \notin {"batch", "callback"} => Queued = {}
           /\ UNCHANGED batch => UNCHANGED Queued
           /\ EpollReturns => Queued' \subseteq {e \in Events : edge[e] # {}}
           /\ CallbackDone => Queued' \subseteq Queued
           /\ Abandon => Queued' = {}
           /\ batch # <<>> => batch[1][1] \in Queued /\ batch[1][1] \in Events
<1>1. batch \in Seq(Events \X SUBSET Flags)
    BY DEF IInv, TypeOK
<1>2. batch = <<>> => Queued = {}
    BY DEF Queued
<1>3. lpc \notin {"batch", "callback"} => Queued = {}
    BY <1>2 DEF IInv, LoopPlace
<1>4. UNCHANGED batch => UNCHANGED Queued
    BY DEF Queued
<1>5. ASSUME EpollReturns PROVE Queued' \subseteq {e \in Events : edge[e] # {}}
    <2> DEFINE S == {e \in Events : edge[e] # {}}
    <2>1. PICK order \in SetToSeqs(S) :
              batch' = [i \in DOMAIN order |-> <<order[i], edge[order[i]]>>]
        BY <1>5 DEF EpollReturns, Ready
    <2>2. S \in SUBSET Events
        OBVIOUS
    <2> HIDE DEF S
    <2>3. order \in [1 .. Cardinality(S) -> S]
        BY <2>1, <2>2, OrderType
    <2>4. Queued' \subseteq S
        BY <2>1, <2>3 DEF Queued
    <2> QED
        BY <2>4 DEF S
<1>6. batch # <<>> => batch[1][1] \in Queued /\ batch[1][1] \in Events
    BY <1>1 DEF Queued
<1>7. ASSUME CallbackDone PROVE Queued' \subseteq Queued
    <2>1. batch # <<>>
        BY <1>7 DEF CallbackDone, IInv, LoopPlace
    <2>2. \A i \in DOMAIN batch' :
              \E j \in DOMAIN batch : batch'[i][1] = batch[j][1]
        <3>1. CASE batch' = Tail(batch)
            BY <1>1, <2>1, <3>1
        <3>2. CASE batch' = <<<<batch[1][1], Left(batch[1][2])>>>> \o Tail(batch)
            <4> SUFFICES ASSUME NEW i \in DOMAIN batch'
                         PROVE  \E j \in DOMAIN batch : batch'[i][1] = batch[j][1]
                OBVIOUS
            <4>1. DOMAIN batch' = DOMAIN batch
                BY <1>1, <2>1, <3>2
            <4>2. CASE i = 1
                BY <1>1, <2>1, <3>2, <4>1, <4>2
            <4>3. CASE i # 1
                BY <1>1, <2>1, <3>2, <4>1, <4>3
            <4> QED
                BY <4>2, <4>3
        <3> QED
            BY <1>7, <3>1, <3>2 DEF CallbackDone
    <2> QED
        BY <2>2 DEF Queued
<1>8. Abandon => Queued' = {}
    BY DEF Abandon, Queued
<1> QED
    BY <1>3, <1>4, <1>5, <1>6, <1>7, <1>8

-----------------------------------------------------------------------------
LEMMA PlaceStep == IInv /\ [Next]_vars => FreedLast' /\ LoopPlace'
<1> SUFFICES ASSUME IInv, [Next]_vars PROVE FreedLast' /\ LoopPlace'
    OBVIOUS
<1> USE DEF rootVars, arrayVars, eventVars, kernel, loopVars, callVars, bounds, LoopUnchanged
<1>1. TypeOK /\ FreedLast /\ LoopPlace
    BY DEF IInv
<1>2. CASE Control
    BY <1>1, <1>2 DEF Control, Start, Top, FuncDone, BeginDelete, EndDelete, EndBatch, EpollWait,
               EpollSpoils,
           AddBreaks, Stop, MayCall, FreedLast, LoopPlace, TypeOK, vars
<1>3. ASSUME NEW t \in Threads, AddReserve(t) \/ AddLink(t) \/ AddFails(t)
                                \/ AddPublish(t) \/ SetApply(t) \/ DelApply(t)
      PROVE  FreedLast' /\ LoopPlace'
    <2>1. state # "freed" /\ UNCHANGED <<state, batch, lpc, closing>>
        BY <1>1, <1>3 DEF AddReserve, AddLink, AddFails, AddPublish, SetApply,
               DelApply, MayCall, FreedLast
    <2> QED
        BY <1>1, <2>1 DEF FreedLast, LoopPlace
<1>4. ASSUME NEW t \in Threads, NEW e \in Events, NEW w \in SUBSET Dirs,
             SetTest(t, e, w) \/ DelTest(t, e, w)
      PROVE  FreedLast' /\ LoopPlace'
    <2>1. state # "freed" /\ UNCHANGED <<state, batch, lpc, closing>>
        BY <1>4 DEF SetTest, DelTest, MayCall
    <2> QED
        BY <1>1, <2>1 DEF FreedLast, LoopPlace
<1>5. CASE Free
    BY <1>1, <1>5 DEF Free, FreedLast, LoopPlace
<1>6. CASE PopDeleted
    BY <1>1, <1>6, LoopAssumption DEF PopDeleted, FreedLast, LoopPlace, TypeOK
<1>7. CASE FreeDeleted
    BY <1>1, <1>7 DEF FreeDeleted, FreedLast, LoopPlace
<1>8. CASE EpollReturns
    BY <1>1, <1>8 DEF EpollReturns, Ready, FreedLast, LoopPlace
<1>9. CASE Dispatch \/ Abandon
    BY <1>1, <1>9 DEF Dispatch, Abandon, FreedLast, LoopPlace
<1>10. CASE CallbackDone
    <2>1. lpc = "callback" /\ closing = None /\ state # "freed" /\ batch # <<>>
        BY <1>1, <1>10 DEF CallbackDone, FreedLast, LoopPlace
    <2>2. Tail(batch) \in Seq(Events \X SUBSET Flags)
        BY <1>1, <2>1 DEF TypeOK
    <2>3. lpc' = "batch" \/ (lpc' = "callback" /\ batch' # <<>>)
        BY <1>10, <2>1, <2>2 DEF CallbackDone
    <2> QED
        BY <1>10, <2>1, <2>3 DEF CallbackDone, FreedLast, LoopPlace
<1>11. ASSUME NEW e \in Events, NEW flag \in Flags, EdgeArrives(e, flag)
       PROVE  FreedLast' /\ LoopPlace'
    BY <1>1, <1>11 DEF EdgeArrives, FreedLast, LoopPlace
<1> QED
    BY <1>2, <1>3, <1>4, <1>5, <1>6, <1>7, <1>8, <1>9, <1>10, <1>11
       DEF Next, LoopStep, Finish, Control, Step, Ended

LEMMA CallStep == IInv /\ [Next]_vars => OneCall' /\ CallsLive'
<1> SUFFICES ASSUME IInv, [Next]_vars PROVE OneCall' /\ CallsLive'
    OBVIOUS
<1> USE DEF rootVars, arrayVars, eventVars, kernel, loopVars, callVars, bounds, LoopUnchanged
<1>1. TypeOK /\ OneCall /\ CallsLive
    BY DEF IInv
<1>2. state # "freed" => \A e \in Events :
          /\ alloc[e] = "none" => last[e] # "close" /\ e \notin Range(deleted) \cup known
          /\ e \in known /\ last[e] # "close" => alloc[e] = "held"
          /\ e \in Range(deleted) => what[e] = {}
    BY <1>1 DEF IInv, Records, Record, NotYet, Gone, TypeOK
<1>3. \A t \in Threads : call[t] # "idle" => state # "freed" /\ on[t] \in Events
    BY <1>1 DEF IInv, FreedLast, OneCall, TypeOK
<1>4. None \notin Events
    BY LoopAssumption
<1>5. CASE Control
    BY <1>1, <1>5, ControlFacts DEF records, OneCall, CallsLive, CallOn
<1>6. ASSUME NEW t \in Threads, AddReserve(t) PROVE OneCall' /\ CallsLive'
    <2>1. PICK e \in Events, f \in Fds \ open, w \in SUBSET Dirs \ {{}} :
              /\ alloc[e] = "none" /\ \A u \in Threads : on[u] # e
              /\ Enter(t, "add", e, w)
        BY <1>6 DEF AddReserve
    <2>2. call[t] = "idle" /\ UNCHANGED <<alloc, last, deleted, known>>
        BY <1>6 DEF AddReserve, MayCall
    <2>3. OneCall'
        BY <1>1, <1>4, <2>1, <2>2 DEF Enter, OneCall, TypeOK
    <2>4. CallsLive'
        BY <1>1, <2>1, <2>2 DEF Enter, CallsLive, CallOn, TypeOK
    <2> QED
        BY <2>3, <2>4
<1>7. ASSUME NEW t \in Threads, AddLink(t) PROVE OneCall' /\ CallsLive'
    <2>1. /\ call[t] = "add" /\ on[t] \in Events /\ alloc[on[t]] = "none"
          /\ \A u \in Threads \ {t} : on[u] # on[t]
        BY <1>1, <1>3, <1>4, <1>7 DEF AddLink, CallsLive, CallOn, OneCall
    <2>2. OneCall'
        BY <1>1, <1>7 DEF AddLink, OneCall, TypeOK
    <2>3. CallOn(on[t], "publish")'
        BY <1>1, <1>2, <1>3, <1>7, <2>1 DEF AddLink, CallOn, TypeOK
    <2>4. ASSUME NEW u \in Threads \ {t}, call[u] # "idle" PROVE CallOn(on[u], call[u])'
        BY <1>1, <1>3, <1>7, <2>1, <2>4 DEF AddLink, CallOn, CallsLive, TypeOK
    <2>5. CallsLive'
        BY <1>1, <1>7, <2>3, <2>4 DEF AddLink, CallOn, CallsLive, TypeOK
    <2> QED
        BY <2>2, <2>5
<1>8. ASSUME NEW t \in Threads, AddFails(t) \/ AddPublish(t) \/ SetApply(t)
      PROVE  OneCall' /\ CallsLive'
    <2>1. /\ call[t] # "idle" /\ on[t] \in Events /\ Return(t)
          /\ \A u \in Threads \ {t} : on[u] # on[t]
          /\ UNCHANGED <<last, deleted>>
        BY <1>1, <1>3, <1>4, <1>8 DEF AddFails, AddPublish, SetApply, OneCall
    <2>2. OneCall'
        BY <1>1, <2>1 DEF Return, OneCall, TypeOK
    <2>3. \A e \in Events \ {on[t]} : alloc'[e] = alloc[e] /\ (e \in known' <=> e \in known)
        BY <1>1, <1>8, <2>1 DEF AddFails, AddPublish, SetApply, TypeOK
    <2>4. CallsLive'
        BY <1>1, <1>3, <2>1, <2>3 DEF Return, CallsLive, CallOn, TypeOK
    <2> QED
        BY <2>2, <2>4
<1>9. ASSUME NEW t \in Threads, NEW e \in Events, NEW w \in SUBSET Dirs,
             SetTest(t, e, w) \/ DelTest(t, e, w)
      PROVE  OneCall' /\ CallsLive'
    <2>1. PICK name \in {"set", "del"} : Enter(t, name, e, w)
        BY <1>9 DEF SetTest, DelTest
    <2>2. /\ call[t] = "idle" /\ UNCHANGED <<alloc, last, deleted, known>>
          /\ \A u \in Threads : on[u] # e
          /\ alloc[e] = "held" /\ last[e] # "close" /\ e \notin Range(deleted)
        BY <1>1, <1>2, <1>9 DEF SetTest, DelTest, MayCall, MayTouch
    <2>3. OneCall'
        BY <1>1, <1>4, <2>1, <2>2 DEF Enter, OneCall, TypeOK
    <2>4. CallsLive'
        BY <1>1, <2>1, <2>2 DEF Enter, CallsLive, CallOn, TypeOK
    <2> QED
        BY <2>3, <2>4
<1>10. ASSUME NEW t \in Threads, DelApply(t) PROVE OneCall' /\ CallsLive'
    <2>1. /\ call[t] # "idle" /\ on[t] \in Events /\ Return(t)
          /\ \A u \in Threads \ {t} : on[u] # on[t]
          /\ UNCHANGED <<last, alloc, known>>
        BY <1>1, <1>3, <1>4, <1>10 DEF DelApply, OneCall
    <2>2. OneCall'
        BY <1>1, <2>1 DEF Return, OneCall, TypeOK
    <2>3. \A e \in Events \ {on[t]} : e \in Range(deleted') => e \in Range(deleted)
        BY <1>1, <1>10, <2>1, PushFront DEF DelApply, PushDeleted, TypeOK
    <2>4. CallsLive'
        BY <1>1, <1>3, <2>1, <2>3 DEF Return, CallsLive, CallOn, TypeOK
    <2> QED
        BY <2>2, <2>4
<1>11. CASE Free
    BY <1>1, <1>11 DEF Free, OneCall, CallsLive
<1>12. CASE PopDeleted
    <2>1. state # "freed" /\ IsInjective(deleted)
        BY <1>12 DEF PopDeleted, IInv, FreedLast, Counted
    <2>2. Head(deleted) \in Range(deleted) /\ Range(deleted') \subseteq Range(deleted)
        BY <1>1, <1>12, <2>1, PopFront DEF PopDeleted, TypeOK
    <2> QED
        BY <1>1, <1>3, <1>12, <2>2 DEF PopDeleted, OneCall, CallsLive, CallOn, TypeOK
<1>13. CASE FreeDeleted
    <2>1. closing \in Events /\ alloc[closing] = "held" /\ last[closing] = "close"
        BY <1>1, <1>13 DEF FreeDeleted, IInv, FreedLast, LoopPlace, Records, Record, TypeOK
    <2> QED
        BY <1>1, <1>3, <1>13, <2>1 DEF FreeDeleted, OneCall, CallsLive, CallOn, TypeOK
<1>14. CASE EpollReturns \/ Abandon
    BY <1>1, <1>14 DEF EpollReturns, Ready, Abandon, OneCall, CallsLive, CallOn
<1>15. CASE Dispatch \/ CallbackDone
    <2>1. /\ UNCHANGED <<call, on, alloc, deleted, known>>
          /\ \A e \in Events : last'[e] = last[e] \/ last'[e] = "event"
        BY <1>1, <1>15 DEF Dispatch, CallbackDone, TypeOK
    <2> QED
        BY <1>1, <1>3, <2>1 DEF OneCall, CallsLive, CallOn
<1>16. ASSUME NEW e \in Events, NEW flag \in Flags, EdgeArrives(e, flag)
       PROVE  OneCall' /\ CallsLive'
    BY <1>1, <1>16 DEF EdgeArrives, OneCall, CallsLive, CallOn
<1> QED
    BY <1>5, <1>6, <1>7, <1>8, <1>9, <1>10, <1>11, <1>12, <1>13, <1>14, <1>15, <1>16
       DEF Next, LoopStep, Finish, Control, Step, Ended

-----------------------------------------------------------------------------
LEMMA RecordStep == IInv /\ [Next]_vars => Records'
<1> SUFFICES ASSUME IInv, [Next]_vars, state' # "freed" PROVE \A e \in Events : Record(e)'
    BY DEF Records
<1> USE DEF rootVars, arrayVars, eventVars, kernel, loopVars, callVars, bounds, LoopUnchanged
<1>1. TypeOK /\ LoopPlace /\ OneCall /\ CallsLive
    BY DEF IInv
<1>2. ASSUME state # "freed" PROVE \A e \in Events : Record(e)
    BY <1>2 DEF IInv, Records
<1>3. \A t \in Threads : call[t] # "idle" => /\ state # "freed" /\ on[t] \in Events
                                             /\ CallOn(on[t], call[t])
    BY <1>1 DEF IInv, FreedLast, OneCall, CallsLive, TypeOK
<1>4. None \notin Events \cup SUBSET Dirs
    BY LoopAssumption
<1>5. CASE Control
    <2>1. state # "freed" /\ UNCHANGED records
        BY <1>5, ControlFacts
    <2>2. UNCHANGED Queued
        BY <2>1, QueuedFacts DEF records
    <2> QED
        BY <1>2, <2>1, <2>2 DEF records, Record, NotYet, Gone
<1>6. ASSUME NEW t \in Threads, AddReserve(t) PROVE \A e \in Events : Record(e)'
    <2>1. /\ state # "freed" /\ UNCHANGED Queued
          /\ UNCHANGED <<linked, known, deleted, closing, alloc, what, last, epoll, edge>>
        BY <1>6, QueuedFacts DEF AddReserve, MayCall
    <2> QED
        BY <1>2, <2>1 DEF Record, NotYet, Gone
<1>7. ASSUME NEW t \in Threads, AddLink(t) PROVE \A e \in Events : Record(e)'
    <2>1. /\ state # "freed" /\ UNCHANGED Queued /\ on[t] \in Events
          /\ alloc[on[t]] = "none"
          /\ UNCHANGED <<known, deleted, closing, last, edge>>
        BY <1>3, <1>7, QueuedFacts DEF AddLink, CallOn
    <2>2. /\ alloc' = [alloc EXCEPT ![on[t]] = "held"]
          /\ what' = [what EXCEPT ![on[t]] = ask[t]]
          /\ epoll' = [epoll EXCEPT ![on[t]] = ask[t]]
          /\ linked' = linked \cup {on[t]}
        BY <1>7 DEF AddLink, LinkEvent
    <2>3. \A e \in Events : e = on[t] => Record(e)'
        BY <1>1, <1>2, <2>1, <2>2 DEF Record, NotYet, Gone, TypeOK
    <2>4. \A e \in Events \ {on[t]} : Record(e)'
        BY <1>1, <1>2, <2>1, <2>2 DEF Record, NotYet, Gone, TypeOK
    <2> QED
        BY <2>3, <2>4
<1>8. ASSUME NEW t \in Threads, AddFails(t) PROVE \A e \in Events : Record(e)'
    <2>1. /\ state # "freed" /\ UNCHANGED Queued /\ on[t] \in Events
          /\ alloc[on[t]] = "none"
          /\ alloc' = [alloc EXCEPT ![on[t]] = "freed"]
          /\ UNCHANGED <<linked, known, deleted, closing, what, last, epoll, edge>>
        BY <1>3, <1>8, QueuedFacts DEF AddFails, CallOn
    <2> QED
        BY <1>1, <1>2, <2>1 DEF Record, NotYet, Gone, TypeOK
<1>9. ASSUME NEW t \in Threads, AddPublish(t) PROVE \A e \in Events : Record(e)'
    <2>1. /\ state # "freed" /\ UNCHANGED Queued /\ alloc[on[t]] = "held"
          /\ known' = known \cup {on[t]}
          /\ UNCHANGED <<linked, deleted, closing, alloc, what, last, epoll, edge>>
        BY <1>3, <1>9, QueuedFacts DEF AddPublish, CallOn
    <2> QED
        BY <1>2, <2>1 DEF Record, NotYet, Gone
<1>10. ASSUME NEW t \in Threads, NEW f \in Events, NEW w \in SUBSET Dirs,
              SetTest(t, f, w) \/ DelTest(t, f, w)
       PROVE  \A e \in Events : Record(e)'
    <2>1. /\ state # "freed" /\ UNCHANGED Queued
          /\ UNCHANGED <<linked, known, deleted, closing, alloc, what, last, epoll, edge>>
        BY <1>10, QueuedFacts DEF SetTest, DelTest, MayCall
    <2> QED
        BY <1>2, <2>1 DEF Record, NotYet, Gone
<1>11. ASSUME NEW t \in Threads, SetApply(t) PROVE \A e \in Events : Record(e)'
    <2>1. /\ state # "freed" /\ UNCHANGED Queued /\ on[t] \in Events
          /\ CallOn(on[t], "set")
          /\ epoll' = [epoll EXCEPT ![on[t]] = what[on[t]]]
          /\ what' = [what EXCEPT ![on[t]] = @ \cup ask[t]]
          /\ UNCHANGED <<linked, known, deleted, closing, alloc, last, edge>>
        BY <1>3, <1>11, QueuedFacts DEF SetApply, SetWhat
    <2>2. \A e \in Events : e = on[t] => Record(e)'
        BY <1>1, <1>2, <1>4, <2>1 DEF Record, NotYet, Gone, TypeOK, CallOn
    <2>3. \A e \in Events \ {on[t]} : Record(e)'
        BY <1>1, <1>2, <2>1 DEF Record, NotYet, Gone, TypeOK
    <2> QED
        BY <2>2, <2>3
<1>12. ASSUME NEW t \in Threads, DelApply(t) PROVE \A e \in Events : Record(e)'
    <2> DEFINE left == what[on[t]] \ ask[t]
    <2>1. /\ state # "freed" /\ UNCHANGED Queued /\ on[t] \in Events
          /\ CallOn(on[t], "del")
          /\ what' = [what EXCEPT ![on[t]] = left]
          /\ Unwatch(on[t], left) /\ PushDeleted(on[t], left)
          /\ UNCHANGED <<linked, known, closing, alloc, last>>
        BY <1>3, <1>12, QueuedFacts DEF DelApply
    <2>2. Range(deleted') = IF left = {} THEN {on[t]} \cup Range(deleted) ELSE Range(deleted)
        BY <1>1, <2>1, PushFront DEF PushDeleted, TypeOK
    <2>3. \A e \in Events : e = on[t] => Record(e)'
        BY <1>1, <1>2, <1>4, <2>1, <2>2 DEF Record, NotYet, Gone, TypeOK, CallOn, Unwatch
    <2>4. \A e \in Events \ {on[t]} : Record(e)'
        BY <1>1, <1>2, <2>1, <2>2 DEF Record, NotYet, Gone, TypeOK, Unwatch
    <2> QED
        BY <2>3, <2>4
<1>13. CASE PopDeleted
    <2> DEFINE f == Head(deleted)
    <2>1. /\ state # "freed" /\ Queued = {} /\ UNCHANGED Queued /\ closing = None
          /\ deleted # <<>> /\ IsInjective(deleted)
        BY <1>1, <1>13, QueuedFacts DEF PopDeleted, IInv, FreedLast, Counted, LoopPlace
    <2>2. f \in Events /\ f \in Range(deleted) /\ Range(deleted') = Range(deleted) \ {f}
        BY <1>1, <1>13, <2>1, PopFront DEF PopDeleted, TypeOK
    <2>3. /\ last' = [last EXCEPT ![f] = "close"] /\ closing' = f
          /\ UNCHANGED <<linked, known, alloc, what, epoll, edge>>
        BY <1>13 DEF PopDeleted
    <2>4. \A e \in Events : e = f => Record(e)'
        BY <1>1, <1>2, <2>1, <2>2, <2>3 DEF Record, NotYet, Gone, TypeOK
    <2>5. \A e \in Events \ {f} : Record(e)'
        BY <1>1, <1>2, <1>4, <2>1, <2>2, <2>3 DEF Record, NotYet, Gone, TypeOK
    <2> QED
        BY <2>4, <2>5
<1>14. CASE FreeDeleted
    <2>1. /\ state # "freed" /\ Queued = {} /\ UNCHANGED Queued /\ closing \in Events
          /\ linked' = linked \ {closing} /\ closing' = None
          /\ alloc' = [alloc EXCEPT ![closing] = "freed"]
          /\ UNCHANGED <<known, deleted, what, last, epoll, edge>>
        BY <1>1, <1>14, QueuedFacts DEF FreeDeleted, IInv, FreedLast, LoopPlace, TypeOK
    <2>2. Record(closing)
        BY <1>2, <2>1
    <2>3. \A e \in Events : e = closing => Record(e)'
        BY <1>1, <1>4, <2>1, <2>2 DEF Record, NotYet, Gone, TypeOK
    <2>4. \A e \in Events : e # closing => Record(e)'
        BY <1>1, <1>2, <1>4, <2>1 DEF Record, NotYet, Gone, TypeOK
    <2> QED
        BY <2>3, <2>4
<1>15. CASE EpollReturns
    <2>1. /\ state # "freed" /\ Queued' \subseteq {e \in Events : edge[e] # {}}
          /\ edge' = [e \in Events |-> {}]
          /\ UNCHANGED <<linked, known, deleted, closing, alloc, what, last, epoll>>
        BY <1>15, QueuedFacts DEF EpollReturns, Ready, IInv, FreedLast
    <2> QED
        BY <1>2, <2>1 DEF Record, NotYet, Gone
<1>16. CASE Dispatch \/ CallbackDone
    <2> DEFINE f == batch[1][1]
    <2>1. /\ state # "freed" /\ Queued' \subseteq Queued /\ f \in Queued /\ f \in Events
          /\ UNCHANGED last \/ last' = [last EXCEPT ![f] = "event"]
          /\ UNCHANGED <<linked, known, deleted, closing, alloc, what, epoll, edge>>
        BY <1>1, <1>16, QueuedFacts
           DEF Dispatch, CallbackDone, IInv, FreedLast, LoopPlace
    <2>2. \A e \in Events : e = f => Record(e)'
        BY <1>1, <1>2, <2>1 DEF Record, NotYet, Gone, TypeOK
    <2>3. \A e \in Events \ {f} : Record(e)'
        BY <1>1, <1>2, <2>1 DEF Record, NotYet, Gone, TypeOK
    <2> QED
        BY <2>2, <2>3
<1>17. CASE Abandon
    <2>1. /\ state # "freed" /\ Queued' = {}
          /\ UNCHANGED <<linked, known, deleted, closing, alloc, what, last, epoll, edge>>
        BY <1>17, QueuedFacts DEF Abandon, IInv, FreedLast
    <2> QED
        BY <1>2, <2>1 DEF Record, NotYet, Gone
<1>18. ASSUME NEW f \in Events, NEW flag \in Flags, EdgeArrives(f, flag)
       PROVE  \A e \in Events : Record(e)'
    <2>1. /\ state # "freed" /\ UNCHANGED Queued /\ epoll[f] # None
          /\ edge' = [edge EXCEPT ![f] = @ \cup {flag}]
          /\ UNCHANGED <<linked, known, deleted, closing, alloc, what, last, epoll>>
        BY <1>18, QueuedFacts DEF EdgeArrives, IInv, FreedLast
    <2> QED
        BY <1>1, <1>2, <2>1 DEF Record, NotYet, Gone, TypeOK
<1> QED
    <2>1. ~Free
        BY DEF Free
    <2> QED
        BY <1>5, <1>6, <1>7, <1>8, <1>9, <1>10, <1>11, <1>12, <1>13, <1>14, <1>15,
           <1>16, <1>17, <1>18, <2>1 DEF Next, LoopStep, Finish, Control, Step, Ended

-----------------------------------------------------------------------------
LEMMA LinkedFinite == TypeOK => IsFiniteSet(linked) /\ Cardinality(linked) \in Nat
BY LoopAssumption, FS_Subset, FS_CardinalityType DEF TypeOK

LEMMA CountStep == IInv /\ [Next]_vars => Counted'
<1> SUFFICES ASSUME IInv, [Next]_vars, state' # "freed"
             PROVE  count' = Cardinality(linked') /\ IsInjective(deleted')
    BY DEF Counted
<1> USE DEF rootVars, arrayVars, eventVars, kernel, loopVars, callVars, bounds, LoopUnchanged
<1>1. TypeOK
    BY DEF IInv
<1>2. CASE state # "freed" /\ UNCHANGED <<count, linked, deleted>>
    BY <1>2 DEF IInv, Counted
<1>3. CASE Control
    BY <1>2, <1>3, ControlFacts DEF records
<1>4. \A t \in Threads : call[t] # "idle" => /\ state # "freed" /\ on[t] \in Events
                                             /\ CallOn(on[t], call[t])
    BY <1>1 DEF IInv, FreedLast, OneCall, CallsLive, TypeOK
<1>5. ASSUME NEW t \in Threads, AddReserve(t) \/ AddFails(t) \/ AddPublish(t) \/ SetApply(t)
      PROVE  state # "freed" /\ UNCHANGED <<count, linked, deleted>>
    BY <1>4, <1>5 DEF AddReserve, AddFails, AddPublish, SetApply, MayCall
<1>6. ASSUME NEW t \in Threads, AddLink(t)
      PROVE  count' = Cardinality(linked') /\ IsInjective(deleted')
    <2>1. /\ state # "freed" /\ on[t] \in Events /\ alloc[on[t]] = "none"
          /\ linked' = linked \cup {on[t]} /\ count' = count + 1 /\ UNCHANGED deleted
        BY <1>4, <1>6 DEF AddLink, LinkEvent, CallOn
    <2>2. on[t] \notin linked
        BY <2>1 DEF IInv, Records, Record, NotYet
    <2>3. count = Cardinality(linked) /\ IsInjective(deleted)
        BY <2>1 DEF IInv, Counted
    <2> QED
        BY <1>1, <2>1, <2>2, <2>3, LinkedFinite, FS_AddElement
<1>7. ASSUME NEW t \in Threads, NEW f \in Events, NEW w \in SUBSET Dirs,
              SetTest(t, f, w) \/ DelTest(t, f, w)
      PROVE  state # "freed" /\ UNCHANGED <<count, linked, deleted>>
    BY <1>7 DEF SetTest, DelTest, MayCall
<1>8. ASSUME NEW t \in Threads, DelApply(t)
      PROVE  count' = Cardinality(linked') /\ IsInjective(deleted')
    <2>1. /\ state # "freed" /\ on[t] \in Events /\ on[t] \notin Range(deleted)
          /\ UNCHANGED <<count, linked>>
          /\ UNCHANGED deleted \/ deleted' = <<on[t]>> \o deleted
        BY <1>4, <1>8 DEF DelApply, PushDeleted, CallOn
    <2>2. count = Cardinality(linked) /\ IsInjective(deleted)
        BY <2>1 DEF IInv, Counted
    <2>3. IsInjective(<<on[t]>> \o deleted)
        BY <1>1, <2>1, <2>2, PushFront DEF TypeOK
    <2>4. CASE UNCHANGED deleted
        BY <2>1, <2>2, <2>4
    <2>5. CASE deleted' = <<on[t]>> \o deleted
        BY <2>1, <2>2, <2>3, <2>5
    <2> QED
        BY <2>1, <2>4, <2>5
<1>9. CASE PopDeleted
    <2>1. /\ state # "freed" /\ deleted # <<>> /\ deleted' = Tail(deleted)
          /\ UNCHANGED <<count, linked>>
        BY <1>9 DEF PopDeleted, IInv, FreedLast
    <2>2. count = Cardinality(linked) /\ IsInjective(deleted)
        BY <2>1 DEF IInv, Counted
    <2> QED
        BY <1>1, <2>1, <2>2, PopFront DEF TypeOK
<1>10. CASE FreeDeleted
    <2>1. /\ state # "freed" /\ closing \in Events /\ UNCHANGED deleted
          /\ linked' = linked \ {closing} /\ count' = count - 1
        BY <1>1, <1>10 DEF FreeDeleted, IInv, FreedLast, LoopPlace, TypeOK
    <2>2. closing \in linked
        BY <2>1 DEF IInv, Records, Record
    <2>3. count = Cardinality(linked) /\ IsInjective(deleted)
        BY <2>1 DEF IInv, Counted
    <2> QED
        BY <1>1, <2>1, <2>2, <2>3, LinkedFinite, FS_RemoveElement
<1>11. CASE EpollReturns \/ Dispatch \/ CallbackDone \/ Abandon
    BY <1>2, <1>11 DEF EpollReturns, Ready, Dispatch, CallbackDone, Abandon, IInv, FreedLast
<1>12. ASSUME NEW f \in Events, NEW flag \in Flags, EdgeArrives(f, flag)
       PROVE  state # "freed" /\ UNCHANGED <<count, linked, deleted>>
    BY <1>12 DEF EdgeArrives, IInv, FreedLast
<1> QED
    <2>1. ~Free
        BY DEF Free
    <2> QED
        BY <1>2, <1>3, <1>5, <1>6, <1>7, <1>8, <1>9, <1>10, <1>11, <1>12, <2>1
           DEF Next, LoopStep, Finish, Control, Step, Ended

(* Who owns a descriptor after a step owned it before, and it stays open. *)
LEMMA OwnersLess ==
    ASSUME Owned, state # "freed", \A e \in Events : Owner(e)' => Owner(e),
           UNCHANGED fd, open \subseteq open'
    PROVE  Owned'
BY DEF Owned

(* One owner gives its descriptor up, which is closed. *)
LEMMA OwnerGone ==
    ASSUME Owned, state # "freed", \A e \in Events : Owner(e)' => Owner(e),
           UNCHANGED fd,
           NEW g \in Events, Owner(g), \A e \in Events : Owner(e)' => e # g,
           open' = open \ {fd[g]}
    PROVE  Owned'
BY DEF Owned

LEMMA OwnedStep == IInv /\ [Next]_vars => Owned'
<1> SUFFICES ASSUME IInv, [Next]_vars, state' # "freed" PROVE Owned'
    BY DEF Owned
<1> USE DEF rootVars, arrayVars, eventVars, kernel, loopVars, callVars, bounds, LoopUnchanged
<1>1. TypeOK /\ Owned /\ OneCall
    BY DEF IInv
<1>2. \A t \in Threads : call[t] # "idle" => /\ state # "freed" /\ on[t] \in Events
                                             /\ CallOn(on[t], call[t])
    BY <1>1 DEF IInv, FreedLast, OneCall, CallsLive, TypeOK
<1>3. CASE Control
    <2>1. state # "freed" /\ UNCHANGED records
        BY <1>3, ControlFacts
    <2> QED
        BY <1>1, <2>1, OwnersLess DEF records, Owner, Adding
<1>4. ASSUME NEW t \in Threads, AddReserve(t) PROVE Owned'
    <2>1. PICK e \in Events, f \in Fds \ open, w \in SUBSET Dirs \ {{}} :
              /\ Enter(t, "add", e, w)
              /\ fd' = [fd EXCEPT ![e] = f] /\ open' = open \cup {f}
        BY <1>4 DEF AddReserve
    <2>2. /\ state # "freed" /\ UNCHANGED <<alloc, last>> /\ call[t] = "idle"
        BY <1>4 DEF AddReserve, MayCall
    <2>3. \A g \in Events \ {e} : Owner(g)' => Owner(g)
        BY <1>1, <2>1, <2>2 DEF Owner, Adding, Enter, TypeOK
    <2>4. \A g \in Events \ {e} : Owner(g)' => fd[g] \in open /\ fd'[g] = fd[g]
        BY <1>1, <2>1, <2>2, <2>3 DEF Owned, TypeOK
    <2>5. fd'[e] = f
        BY <1>1, <2>1 DEF TypeOK
    <2> QED
        BY <1>1, <2>1, <2>2, <2>3, <2>4, <2>5 DEF Owned
<1>5. ASSUME NEW t \in Threads, AddLink(t) PROVE Owned'
    <2>1. /\ state # "freed" /\ on[t] \in Events /\ call[t] = "add"
          /\ UNCHANGED <<fd, open, last, on>>
          /\ alloc' = [alloc EXCEPT ![on[t]] = "held"]
          /\ call' = [call EXCEPT ![t] = "publish"]
        BY <1>2, <1>5 DEF AddLink
    <2>2. \A e \in Events : Owner(e)' => Owner(e)
        BY <1>1, <2>1 DEF Owner, Adding, TypeOK
    <2> QED
        BY <1>1, <2>1, <2>2, OwnersLess
<1>6. ASSUME NEW t \in Threads, AddFails(t) PROVE Owned'
    <2>1. /\ state # "freed" /\ on[t] \in Events /\ call[t] = "add" /\ Return(t)
          /\ UNCHANGED <<fd, last>> /\ open' = open \ {fd[on[t]]}
          /\ alloc' = [alloc EXCEPT ![on[t]] = "freed"]
        BY <1>2, <1>6 DEF AddFails
    <2>2. \A e \in Events : Owner(e)' => Owner(e)
        BY <1>1, <2>1 DEF Owner, Adding, TypeOK, Return
    <2>3. \A e \in Events : Owner(e)' => e # on[t]
        BY <1>1, <2>1, LoopAssumption DEF Owner, Adding, TypeOK, Return, OneCall
    <2>4. Owner(on[t])
        BY <2>1 DEF Owner, Adding
    <2> QED
        BY <1>1, <2>1, <2>2, <2>3, <2>4, OwnerGone
<1>7. ASSUME NEW t \in Threads, AddPublish(t) \/ SetApply(t) \/ DelApply(t) PROVE Owned'
    <2>1. /\ state # "freed" /\ call[t] # "add" /\ Return(t)
          /\ UNCHANGED <<fd, last, open, alloc>>
        BY <1>2, <1>7 DEF AddPublish, SetApply, DelApply
    <2>2. \A e \in Events : Owner(e)' => Owner(e)
        BY <1>1, <2>1 DEF Owner, Adding, TypeOK, Return
    <2> QED
        BY <1>1, <2>1, <2>2, OwnersLess
<1>8. ASSUME NEW t \in Threads, NEW f \in Events, NEW w \in SUBSET Dirs,
             SetTest(t, f, w) \/ DelTest(t, f, w)
      PROVE  Owned'
    <2>1. PICK name \in {"set", "del"} : Enter(t, name, f, w)
        BY <1>8 DEF SetTest, DelTest
    <2>2. state # "freed" /\ UNCHANGED <<fd, last, open, alloc>>
        BY <1>8 DEF SetTest, DelTest, MayCall
    <2>3. \A e \in Events : Owner(e)' => Owner(e)
        BY <1>1, <2>1, <2>2 DEF Owner, Adding, TypeOK, Enter
    <2> QED
        BY <1>1, <2>2, <2>3, OwnersLess
<1>9. CASE PopDeleted
    <2> DEFINE f == Head(deleted)
    <2>1. /\ state # "freed" /\ deleted # <<>> /\ UNCHANGED <<fd, alloc, call, on>>
          /\ open' = open \ {fd[f]} /\ last' = [last EXCEPT ![f] = "close"]
        BY <1>9 DEF PopDeleted, IInv, FreedLast
    <2>2. f \in Events /\ f \in Range(deleted)
        BY <1>1, <2>1, PopFront DEF TypeOK, IInv, Counted
    <2>3. alloc[f] = "held" /\ last[f] # "close"
        BY <1>1, <2>1, <2>2 DEF IInv, Records, Record, NotYet, Gone, TypeOK
    <2>4. \A e \in Events : Owner(e)' => Owner(e)
        BY <1>1, <2>1, <2>2 DEF Owner, Adding, TypeOK
    <2>5. ~Adding(f)
        BY <1>2, <2>3 DEF Adding, CallOn
    <2>6. \A e \in Events : Owner(e)' => e # f
        BY <1>1, <2>1, <2>2, <2>5 DEF Owner, Adding, TypeOK
    <2> HIDE DEF f
    <2> QED
        BY <1>1, <2>1, <2>2, <2>3, <2>4, <2>6, OwnerGone DEF Owner
<1>10. CASE FreeDeleted
    <2>1. /\ state # "freed" /\ UNCHANGED <<fd, open, last, call, on>>
          /\ alloc' = [alloc EXCEPT ![closing] = "freed"]
        BY <1>10 DEF FreeDeleted, IInv, FreedLast
    <2>2. \A e \in Events : Owner(e)' => Owner(e)
        BY <1>1, <2>1 DEF Owner, Adding, TypeOK
    <2> QED
        BY <1>1, <2>1, <2>2, OwnersLess
<1>11. CASE EpollReturns \/ Abandon
    BY <1>1, <1>11, OwnersLess
       DEF EpollReturns, Ready, Abandon, Owner, Adding, IInv, FreedLast
<1>12. CASE Dispatch \/ CallbackDone
    <2>1. /\ state # "freed" /\ UNCHANGED <<fd, open, alloc, call, on>>
          /\ batch[1][1] \in Events /\ batch[1][1] \in Queued
          /\ UNCHANGED last \/ last' = [last EXCEPT ![batch[1][1]] = "event"]
        BY <1>1, <1>12, QueuedFacts
           DEF Dispatch, CallbackDone, IInv, FreedLast, LoopPlace
    <2>2. last[batch[1][1]] # "close"
        BY <2>1 DEF IInv, Records, Record
    <2>3. \A e \in Events : Owner(e)' => Owner(e)
        BY <1>1, <2>1, <2>2 DEF Owner, Adding, TypeOK
    <2> QED
        BY <1>1, <2>1, <2>3, OwnersLess
<1>13. ASSUME NEW f \in Events, NEW flag \in Flags, EdgeArrives(f, flag) PROVE Owned'
    BY <1>1, <1>13, OwnersLess DEF EdgeArrives, Owner, Adding, IInv, FreedLast
<1> QED
    <2>1. ~Free
        BY DEF Free
    <2> QED
        BY <1>3, <1>4, <1>5, <1>6, <1>7, <1>8, <1>9, <1>10, <1>11, <1>12, <1>13, <2>1
           DEF Next, LoopStep, Finish, Control, Step, Ended

-----------------------------------------------------------------------------
LEMMA InvInit == Init => IInv
<1> SUFFICES ASSUME Init PROVE IInv
    OBVIOUS
<1>1. TypeOK
    BY TypeInit
<1>2. Queued = {} /\ Range(deleted) = {} /\ IsInjective(deleted)
    BY DEF Init, Queued, Range, IsInjective
<1>3. FreedLast /\ LoopPlace /\ OneCall /\ CallsLive
    BY DEF Init, FreedLast, LoopPlace, OneCall, CallsLive
<1>4. Records
    BY <1>2, LoopAssumption DEF Init, Records, Record, NotYet
<1>5. Counted
    BY <1>2, FS_EmptySet DEF Init, Counted
<1>6. Owned
    BY DEF Init, Owned, Owner, Adding
<1> QED
    BY <1>1, <1>3, <1>4, <1>5, <1>6 DEF IInv

LEMMA InvStep == IInv /\ [Next]_vars => IInv'
BY TypeStep, PlaceStep, CallStep, RecordStep, CountStep, OwnedStep DEF IInv

(* In every state the invariant holds. *)
THEOREM Inductive == Spec => []IInv
BY InvInit, InvStep, PTL DEF Spec

(* A record that evloop.c freed is in no list, not in the kernel, not in the
   batch that was fetched before it was deleted, and no call under way uses it. *)
THEOREM NothingUsedAfterFree == Spec => []NoUseAfterFree
<1>1. IInv => NoUseAfterFree
    <2> SUFFICES ASSUME IInv, state # "freed", NEW e \in Events, alloc[e] = "freed"
                 PROVE  /\ e \notin linked \cup Range(deleted) \cup Queued \cup {closing}
                        /\ epoll[e] = None
                        /\ \A t \in Threads : on[t] # e
        BY DEF NoUseAfterFree
    <2>1. Record(e)
        BY DEF IInv, Records
    <2>2. ASSUME NEW t \in Threads, on[t] = e PROVE FALSE
        <3>1. call[t] # "idle" /\ CallOn(e, call[t])
            BY <2>2, LoopAssumption DEF IInv, OneCall, CallsLive
        <3> QED
            BY <3>1 DEF CallOn, IInv, TypeOK
    <2> QED
        BY <2>1, <2>2 DEF Record, Gone
<1> QED
    BY Inductive, <1>1, PTL

(* epoll watches open descriptors only, each for one event, although the system
   gives a number again as soon as the loop has closed it. *)
THEOREM DescriptorsOwned == Spec => []OwnDescriptor
<1>1. IInv => OwnDescriptor
    <2> SUFFICES ASSUME IInv, NEW e \in Events, epoll[e] # None
                 PROVE  /\ fd[e] \in open
                        /\ \A g \in Events \ {e} : epoll[g] # None => fd[g] # fd[e]
        BY DEF OwnDescriptor
    <2>1. state # "freed"
        BY DEF IInv, FreedLast
    <2>2. \A g \in Events : epoll[g] # None => Owner(g)
        BY <2>1 DEF IInv, Records, Record, Owner
    <2> QED
        BY <2>1, <2>2 DEF IInv, Owned
<1> QED
    BY Inductive, <1>1, PTL

-----------------------------------------------------------------------------
LEMMA AddersFinite ==
    /\ IsFiniteSet(Adders) /\ Cardinality(Adders) \in Nat
    /\ \A S \in SUBSET Adders : /\ IsFiniteSet(S) /\ Cardinality(S) \in Nat
                                /\ Cardinality(S) <= Cardinality(Adders)
                                /\ \A T \in SUBSET S : Cardinality(T) <= Cardinality(S)
                                /\ \A t \in S : Cardinality(S \ {t}) = Cardinality(S) - 1
BY LoopAssumption, FS_Subset, FS_CardinalityType, FS_RemoveElement

(* Whoever returns or only waits takes no room away. *)
LEMMA RoomKept ==
    ASSUME TypeOK, TypeOK', Roomy, AddersIn' \subseteq AddersIn, count' <= count, UNCHANGED room
    PROVE  Roomy'
<1>1. /\ AddersIn' \subseteq Adders
      /\ Cardinality(AddersIn') \in Nat /\ Cardinality(AddersIn) \in Nat
      /\ Cardinality(AddersIn') <= Cardinality(AddersIn)
    BY AddersFinite DEF Roomy
<1>2. count + Cardinality(AddersIn) + 1 <= room + Cardinality(Adders)
    BY DEF Roomy
<1>3. {count, count', room} \subseteq Nat /\ room' = room /\ count' <= count
    BY DEF TypeOK
<1>4. Cardinality(Adders) \in Nat
    BY AddersFinite
<1>5. count' + Cardinality(AddersIn') + 1 <= room' + Cardinality(Adders)
    BY <1>1, <1>2, <1>3, <1>4
<1> QED
    BY <1>1, <1>5 DEF Roomy

LEMMA AloneKept ==
    ASSUME TypeOK, TypeOK', Uncrossed, AddersIn' \subseteq AddersIn, count' <= count,
           UNCHANGED room, UNCHANGED crossed, moved' => moved, spoilt' => spoilt
    PROVE  Uncrossed'
<1> SUFFICES ASSUME ~crossed'
             PROVE  /\ ~moved' /\ ~spoilt' /\ count' <= room'
                    /\ \A t \in AddersIn' : AddersIn' = {t} /\ count' + 1 <= room'
    BY DEF Uncrossed
<1>1. /\ ~moved /\ ~spoilt /\ count <= room
      /\ \A t \in AddersIn : AddersIn = {t} /\ count + 1 <= room
    BY DEF Uncrossed
<1>2. count \in Nat /\ count' \in Nat /\ room \in Nat
    BY DEF TypeOK
<1>3. count' <= room'
    BY <1>1, <1>2
<1>4. ASSUME NEW t \in AddersIn' PROVE AddersIn' = {t} /\ count' + 1 <= room'
    <2>1. t \in AddersIn
        BY <1>4
    <2>2. AddersIn = {t}
        BY <1>1, <2>1
    <2>3. AddersIn' = {t}
        BY <1>4, <2>2
    <2>4. count + 1 <= room
        BY <1>1, <2>1
    <2>5. room' = room
        OBVIOUS
    <2>6. \A m, n, r \in Nat : (m <= n /\ n + 1 <= r) => m + 1 <= r
        OBVIOUS
    <2>7. count' + 1 <= room
        BY <1>2, <2>4, <2>6
    <2> QED
        BY <2>3, <2>5, <2>7
<1> QED
    BY <1>1, <1>3, <1>4

(* The steps after which no more threads are adding and no more events are linked. *)
LEMMA Relax ==
    ASSUME IInv, TypeOK', [Next]_vars
    PROVE  \/ \E t \in Threads : AddReserve(t) \/ AddLink(t)
           \/ EpollSpoils
           \/ /\ AddersIn' \subseteq AddersIn /\ count' <= count
              /\ UNCHANGED <<room, crossed, spoilt>> /\ (moved' => moved)
<1> USE DEF rootVars, arrayVars, eventVars, kernel, loopVars, callVars, bounds, LoopUnchanged
<1> DEFINE Eased == /\ AddersIn' \subseteq AddersIn /\ count' <= count
                    /\ UNCHANGED <<room, crossed, spoilt>> /\ (moved' => moved)
<1>1. TypeOK /\ count \in Nat /\ \A t \in Threads : call[t] = "add" => state # "freed"
    BY DEF IInv, FreedLast, TypeOK
<1>2. UNCHANGED <<count, call, room, crossed, spoilt>> /\ (moved' => moved) => Eased
    BY <1>1 DEF AddersIn
<1>3. CASE Start \/ Top \/ FuncDone \/ BeginDelete \/ EndDelete \/ EpollWait \/ EndBatch
    BY <1>2, <1>3 DEF Start, Top, FuncDone, BeginDelete, EndDelete, EpollWait, EndBatch
<1>4. ASSUME NEW t \in Threads, AddBreaks(t) \/ Stop(t) PROVE Eased
    BY <1>2, <1>4 DEF AddBreaks, Stop
<1>5. CASE UNCHANGED vars
    BY <1>2, <1>5 DEF vars
<1>6. ASSUME NEW t \in Threads, AddFails(t) \/ AddPublish(t) \/ SetApply(t) \/ DelApply(t)
      PROVE  Eased
    <2>1. UNCHANGED <<count, room, crossed, spoilt, moved>> /\ Return(t)
        BY <1>6 DEF AddFails, AddPublish, SetApply, DelApply
    <2>2. \A u \in Threads : call'[u] = "add" => call[u] = "add"
        BY <1>1, <2>1 DEF Return, TypeOK
    <2> QED
        BY <1>1, <2>1, <2>2 DEF AddersIn
<1>7. ASSUME NEW t \in Threads, NEW f \in Events, NEW w \in SUBSET Dirs,
             SetTest(t, f, w) \/ DelTest(t, f, w)
      PROVE  Eased
    <2>1. PICK name \in {"set", "del"} : Enter(t, name, f, w)
        BY <1>7 DEF SetTest, DelTest
    <2>2. UNCHANGED <<count, room, crossed, spoilt, moved>>
        BY <1>7 DEF SetTest, DelTest
    <2>3. \A u \in Threads : call'[u] = "add" => call[u] = "add"
        BY <1>1, <2>1 DEF Enter, TypeOK
    <2> QED
        BY <1>1, <2>2, <2>3 DEF AddersIn
<1>8. CASE Free
    <2>1. count' = 0 /\ UNCHANGED <<room, call, crossed, spoilt, moved>>
        BY <1>8 DEF Free
    <2> QED
        BY <1>1, <2>1 DEF AddersIn
<1>9. CASE FreeDeleted
    <2>1. count' = count - 1 /\ UNCHANGED <<room, call, crossed, spoilt, moved>>
        BY <1>9 DEF FreeDeleted
    <2> QED
        BY <1>1, <2>1 DEF AddersIn
<1>10. CASE PopDeleted \/ EpollReturns \/ Dispatch \/ CallbackDone \/ Abandon
    BY <1>2, <1>10 DEF PopDeleted, EpollReturns, Dispatch, CallbackDone, Abandon
<1>11. ASSUME NEW f \in Events, NEW flag \in Flags, EdgeArrives(f, flag) PROVE Eased
    BY <1>2, <1>11 DEF EdgeArrives
<1> QED
    BY <1>3, <1>4, <1>5, <1>6, <1>7, <1>8, <1>9, <1>10, <1>11
       DEF Next, LoopStep, Finish, Step, Ended

(* Who enters yod_evloop_add, and who links. *)
LEMMA AddersAfter ==
    ASSUME TypeOK, NEW t \in Threads
    PROVE  /\ AddReserve(t) => t \in Adders /\ AddersIn' = AddersIn \cup {t}
           /\ AddLink(t) => t \in AddersIn /\ AddersIn' = AddersIn \ {t}
<1>1. ASSUME AddReserve(t) PROVE t \in Adders /\ AddersIn' = AddersIn \cup {t}
    <2>1. t \in Adders /\ call' = [call EXCEPT ![t] = "add"]
        BY <1>1 DEF AddReserve, Enter
    <2> QED
        BY <2>1 DEF AddersIn, TypeOK
<1>2. ASSUME AddLink(t) PROVE t \in AddersIn /\ AddersIn' = AddersIn \ {t}
    <2>1. call[t] = "add" /\ call' = [call EXCEPT ![t] = "publish"]
        BY <1>2 DEF AddLink
    <2> QED
        BY <2>1 DEF AddersIn, TypeOK
<1> QED
    BY <1>1, <1>2

LEMMA ReserveRoom ==
    ASSUME TypeOK, NEW t \in Threads, AddReserve(t)
    PROVE  /\ UNCHANGED count /\ count \in Nat /\ room \in Nat /\ room' \in Nat
           /\ room + 1 <= room' \/ (room' = room /\ count + 1 <= room)
           /\ count <= room => count + 1 <= room'
<1>1. count \in Nat /\ room \in Nat /\ Chunk \in Nat \ {0}
    BY LoopAssumption DEF TypeOK
<1>2. UNCHANGED count /\ MakeRoom(t)
    BY DEF AddReserve
<1>3. CASE NeedsRoom
    <2>1. room' = room + Chunk /\ count + 1 > room
        BY <1>2, <1>3 DEF MakeRoom, NeedsRoom
    <2> QED
        BY <1>1, <1>2, <2>1
<1>4. CASE ~NeedsRoom
    <2>1. room' = room /\ ~(count + 1 > room)
        BY <1>2, <1>4 DEF MakeRoom, NeedsRoom
    <2> QED
        BY <1>1, <1>2, <2>1
<1> QED
    BY <1>3, <1>4

LEMMA RoomStep == IInv /\ IInv' /\ Roomy /\ [Next]_vars => Roomy'
<1> SUFFICES ASSUME IInv, IInv', Roomy, [Next]_vars PROVE Roomy'
    OBVIOUS
<1>1. TypeOK /\ TypeOK'
    BY DEF IInv
<1>2. ASSUME NEW t \in Threads, AddReserve(t) PROVE Roomy'
    <2>1. AddersIn' \subseteq Adders /\ AddersIn' = AddersIn \cup {t}
        BY <1>1, <1>2, AddersAfter DEF Roomy
    <2>2. /\ Cardinality(AddersIn') \in Nat /\ Cardinality(AddersIn') <= Cardinality(Adders)
          /\ Cardinality(AddersIn) \in Nat
        BY <2>1, AddersFinite DEF Roomy
    <2>3. Cardinality(AddersIn') = Cardinality(AddersIn) + 1
        <3>1. t \notin AddersIn
            BY <1>2 DEF AddReserve, MayCall, AddersIn
        <3>2. AddersIn' \ {t} = AddersIn
            BY <2>1, <3>1
        <3>3. \A S \in SUBSET Adders : t \in S => Cardinality(S \ {t}) = Cardinality(S) - 1
            BY AddersFinite
        <3>4. Cardinality(AddersIn' \ {t}) = Cardinality(AddersIn') - 1
            BY <2>1, <3>3, Zenon
        <3>5. Cardinality(AddersIn) = Cardinality(AddersIn') - 1
            BY ONLY <3>2, <3>4, Zenon
        <3> QED
            BY <2>2, <3>5
    <2>4. count' + Cardinality(AddersIn') + 1 <= room' + Cardinality(Adders)
        <3>1. CASE room + 1 <= room'
            BY <1>1, <1>2, <2>2, <2>3, <3>1, ReserveRoom, AddersFinite DEF Roomy
        <3>2. CASE room' = room /\ count + 1 <= room
            BY <1>1, <1>2, <2>2, <3>2, ReserveRoom, AddersFinite
        <3> QED
            BY <1>1, <1>2, <3>1, <3>2, ReserveRoom
    <2> QED
        BY <2>1, <2>4 DEF Roomy
<1>3. ASSUME NEW t \in Threads, AddLink(t) PROVE Roomy'
    <2>1. count' = count + 1 /\ UNCHANGED room /\ count \in Nat /\ room \in Nat
        BY <1>1, <1>3 DEF AddLink, LinkEvent, arrayVars, TypeOK
    <2>2. t \in AddersIn /\ AddersIn' = AddersIn \ {t}
        BY <1>1, <1>3, AddersAfter
    <2>3. /\ Cardinality(AddersIn) \in Nat
          /\ Cardinality(AddersIn') = Cardinality(AddersIn) - 1
        BY <2>2, AddersFinite DEF Roomy
    <2>4. count' + Cardinality(AddersIn') + 1 <= room' + Cardinality(Adders)
        BY <2>1, <2>3, AddersFinite DEF Roomy
    <2>5. AddersIn' \subseteq Adders
        BY <2>2 DEF Roomy
    <2> QED
        BY <2>4, <2>5 DEF Roomy
<1>4. CASE EpollSpoils
    BY <1>1, <1>4, RoomKept DEF EpollSpoils, LoopUnchanged, callVars, AddersIn, TypeOK
<1> QED
    BY <1>1, <1>2, <1>3, <1>4, Relax, RoomKept

(* What the kernel reports is linked, and so within the counter. *)
LEMMA WatchedCounted ==
    ASSUME IInv, state # "freed"
    PROVE  \A S \in SUBSET {e \in Events : epoll[e] # None} :
               Cardinality(S) \in Nat /\ Cardinality(S) <= count
<1>1. {e \in Events : epoll[e] # None} \subseteq linked
    BY DEF IInv, Records, Record
<1>2. count = Cardinality(linked) /\ TypeOK
    BY DEF IInv, Counted
<1> QED
    BY <1>1, <1>2, LinkedFinite, FS_Subset, FS_CardinalityType

LEMMA ArrayStep == IInv /\ IInv' /\ Uncrossed /\ [Next]_vars => Uncrossed'
<1> SUFFICES ASSUME IInv, IInv', Uncrossed, [Next]_vars PROVE Uncrossed'
    OBVIOUS
<1>1. TypeOK /\ TypeOK'
    BY DEF IInv
<1>2. ASSUME NEW t \in Threads, AddReserve(t), ~crossed' PROVE Uncrossed'
    <2>1. ~crossed /\ (t = Loop \/ lpc = "out") /\ \A u \in Threads : call[u] # "add"
        BY <1>2 DEF AddReserve, Crossing
    <2>2. ~moved /\ ~spoilt
        BY <2>1 DEF Uncrossed
    <2>3. lpc # "waiting" /\ (t # Loop => batch = <<>>)
        BY <1>2, <2>1 DEF AddReserve, MayCall, IInv, LoopPlace
    <2>4. ~moved' /\ ~spoilt'
        BY <1>2, <2>2, <2>3 DEF AddReserve, MakeRoom
    <2>5. AddersIn' = {t}
        BY <1>1, <1>2, <2>1, AddersAfter DEF AddersIn
    <2>6. count <= room
        BY <2>1 DEF Uncrossed
    <2>7. count' + 1 <= room' /\ count' <= room'
        BY <1>1, <1>2, <2>6, ReserveRoom
    <2> QED
        BY <2>4, <2>5, <2>7 DEF Uncrossed
<1>3. ASSUME NEW t \in Threads, AddLink(t), ~crossed' PROVE Uncrossed'
    <2>1. /\ count' = count + 1 /\ UNCHANGED <<room, moved, spoilt, crossed>>
          /\ count \in Nat /\ room \in Nat
        BY <1>1, <1>3 DEF AddLink, LinkEvent, arrayVars, TypeOK
    <2>2. t \in AddersIn /\ AddersIn' = AddersIn \ {t}
        BY <1>1, <1>3, AddersAfter
    <2>3. AddersIn = {t} /\ count + 1 <= room /\ ~moved /\ ~spoilt
        BY <1>3, <2>1, <2>2 DEF Uncrossed
    <2> QED
        BY <2>1, <2>2, <2>3 DEF Uncrossed
<1>4. ASSUME EpollSpoils, ~crossed' PROVE FALSE
    <2>1. ~crossed /\ Astray /\ lpc = "waiting"
        BY <1>4 DEF EpollSpoils
    <2>2. ~moved /\ count <= room
        BY <2>1 DEF Uncrossed
    <2>3. state # "freed" /\ Ready \subseteq {e \in Events : epoll[e] # None}
        BY <2>1 DEF IInv, FreedLast, Records, Record, Ready
    <2>4. Cardinality(Ready) \in Nat /\ Cardinality(Ready) <= count
        BY <2>3, WatchedCounted
    <2> QED
        BY <1>1, <2>1, <2>2, <2>4 DEF Astray, TypeOK
<1>5. crossed' => Uncrossed'
    BY DEF Uncrossed
<1> QED
    BY <1>1, <1>2, <1>3, <1>4, <1>5, Relax, AloneKept

(* The lists of evloop.c and its counter agree, and the array is short of what the
   kernel may report by no more than one event for each other thread that adds. *)
THEOREM ListsInStep == Spec => []ListsAgree
<1>1. Init => Roomy
    <2> SUFFICES ASSUME Init PROVE Roomy
        OBVIOUS
    <2>1. AddersIn = {} /\ count = 0 /\ room = Chunk
        BY DEF Init, AddersIn
    <2>2. Cardinality(AddersIn) = 0
        BY <2>1, FS_EmptySet
    <2> QED
        BY <2>1, <2>2, AddersFinite, LoopAssumption DEF Roomy
<1>2. IInv /\ IInv' /\ Roomy /\ [Next]_vars => Roomy'
    BY RoomStep
<1>3. IInv /\ Roomy => ListsAgree
    <2> SUFFICES ASSUME IInv, Roomy PROVE ListsAgree
        OBVIOUS
    <2>1. TypeOK
        BY DEF IInv
    <2>2. RoomForAll
        <3> DEFINE watched == {e \in Events : epoll[e] # None}
        <3>1. CASE state = "freed"
            <4>1. watched = {}
                BY <3>1 DEF IInv, FreedLast
            <4>2. Cardinality(watched) = 0
                BY <4>1, FS_EmptySet
            <4> QED
                BY <2>1, <4>2, AddersFinite DEF RoomForAll, TypeOK, Roomy
        <3>2. CASE state # "freed"
            <4>1. Cardinality(watched) \in Nat /\ Cardinality(watched) <= count
                BY <3>2, WatchedCounted
            <4>2. Cardinality(Adders) \in Nat /\ Cardinality(AddersIn) \in Nat
                BY AddersFinite DEF Roomy
            <4>3. count + Cardinality(AddersIn) + 1 <= room + Cardinality(Adders)
                BY DEF Roomy
            <4> QED
                BY <2>1, <4>1, <4>2, <4>3 DEF RoomForAll, TypeOK
        <3> QED
            BY <3>1, <3>2
    <2>3. ASSUME state # "freed", NEW e \in Range(deleted)
          PROVE  e \in linked /\ epoll[e] = None /\ what[e] = {}
        <3>1. e \in Events
            BY <2>1, RangeOfSeq DEF TypeOK
        <3> QED
            BY <2>3, <3>1 DEF IInv, Records, Record, NotYet, Gone, TypeOK
    <2> QED
        BY <2>1, <2>2, <2>3 DEF ListsAgree, IInv, Counted
<1> QED
    BY Inductive, <1>1, <1>2, <1>3, PTL DEF Spec

(* The array under epoll_wait is neither freed nor too short, whatever else the
   threads do, as long as adds do not cross each other or the loop. *)
THEOREM ArrayIsSound == Spec => []ArraySound
<1>1. Init => Uncrossed
    BY LoopAssumption DEF Init, Uncrossed, AddersIn
<1>2. IInv /\ IInv' /\ Uncrossed /\ [Next]_vars => Uncrossed'
    BY ArrayStep
<1>3. Uncrossed => ArraySound
    BY DEF Uncrossed, ArraySound
<1> QED
    BY Inductive, <1>1, <1>2, <1>3, PTL DEF Spec

-----------------------------------------------------------------------------
(* Only one step at a time touches the edges that wait for their callbacks. *)
LEMMA EdgeStep ==
    IInv /\ [Next]_vars =>
        \A p \in Pending : \/ p \in Pending'
                           \/ lpc = "callback" /\ p = <<batch[1][1], First(batch[1][2])>>
                           \/ epoll'[p[1]] = None
                           \/ state # "running"
<1> SUFFICES ASSUME IInv, [Next]_vars, NEW p \in Pending
             PROVE  \/ p \in Pending'
                    \/ lpc = "callback" /\ p = <<batch[1][1], First(batch[1][2])>>
                    \/ epoll'[p[1]] = None
                    \/ state # "running"
    OBVIOUS
<1> USE DEF rootVars, arrayVars, eventVars, kernel, loopVars, callVars, bounds, LoopUnchanged
<1>1. TypeOK /\ LoopPlace
    BY DEF IInv
<1>2. /\ p \in Events \X Flags /\ p = <<p[1], p[2]>>
      /\ \/ p[2] \in edge[p[1]]
         \/ \E i \in DOMAIN batch : batch[i][1] = p[1] /\ p[2] \in batch[i][2]
    BY DEF Pending
<1>3. CASE UNCHANGED batch /\ edge[p[1]] \subseteq edge'[p[1]]
    BY <1>2, <1>3 DEF Pending
<1>4. CASE Control
    BY <1>3, <1>4, ControlFacts DEF records
<1>5. ASSUME NEW t \in Threads, AddReserve(t) \/ AddLink(t) \/ AddFails(t)
                                \/ AddPublish(t) \/ SetApply(t)
      PROVE  UNCHANGED <<batch, edge>>
    BY <1>5 DEF AddReserve, AddLink, AddFails, AddPublish, SetApply, SetWhat
<1>6. ASSUME NEW t \in Threads, NEW f \in Events, NEW w \in SUBSET Dirs,
             SetTest(t, f, w) \/ DelTest(t, f, w)
      PROVE  UNCHANGED <<batch, edge>>
    BY <1>6 DEF SetTest, DelTest
<1>7. ASSUME NEW t \in Threads, DelApply(t)
      PROVE  \/ UNCHANGED batch /\ edge[p[1]] \subseteq edge'[p[1]]
             \/ epoll'[p[1]] = None
    <2> DEFINE left == what[on[t]] \ ask[t]
    <2>1. UNCHANGED batch /\ Unwatch(on[t], left)
        BY <1>7 DEF DelApply
    <2>2. CASE p[1] = on[t] /\ left = {}
        BY <1>1, <1>2, <2>1, <2>2 DEF Unwatch, TypeOK
    <2>3. CASE p[1] # on[t] \/ left # {}
        BY <1>1, <1>2, <2>1, <2>3 DEF Unwatch, TypeOK
    <2> QED
        BY <2>2, <2>3
<1>8. CASE Free
    BY <1>2, <1>8 DEF Free
<1>9. CASE PopDeleted \/ FreeDeleted \/ Dispatch
    BY <1>3, <1>9 DEF PopDeleted, FreeDeleted, Dispatch
<1>10. CASE EpollReturns
    <2> DEFINE S == {e \in Events : edge[e] # {}}
    <2>1. PICK order \in SetToSeqs(S) :
              batch' = [i \in DOMAIN order |-> <<order[i], edge[order[i]]>>]
        BY <1>10 DEF EpollReturns, Ready
    <2>2. p[2] \in edge[p[1]]
        BY <1>1, <1>2, <1>10 DEF EpollReturns, Ready, LoopPlace
    <2>3. S \in SUBSET Events /\ p[1] \in S
        BY <1>2, <2>2
    <2> HIDE DEF S
    <2>6. \A e \in S : \E i \in DOMAIN order : order[i] = e
        BY <2>1, <2>3, OrderType
    <2>4. PICK i \in DOMAIN order : order[i] = p[1]
        BY <2>3, <2>6
    <2>5. i \in DOMAIN batch' /\ batch'[i] = <<p[1], edge[p[1]]>>
        BY <2>1, <2>4
    <2> QED
        BY <1>2, <2>2, <2>5 DEF Pending
<1>11. CASE CallbackDone
    <2> DEFINE left == Left(batch[1][2])
               rest == Tail(batch)
    <2>1. lpc = "callback" /\ batch # <<>> /\ UNCHANGED edge
        BY <1>1, <1>11 DEF CallbackDone, LoopPlace
    <2>2. /\ Len(batch) \in Nat \ {0} /\ DOMAIN batch = 1 .. Len(batch)
          /\ DOMAIN rest = 1 .. Len(batch) - 1
          /\ \A i \in DOMAIN rest : rest[i] = batch[i + 1]
        BY <1>1, <2>1 DEF TypeOK
    <2>3. CASE p[2] \in edge[p[1]]
        BY <1>2, <2>1, <2>3 DEF Pending
    <2>4. ASSUME NEW i \in DOMAIN batch, batch[i][1] = p[1], p[2] \in batch[i][2], i # 1
          PROVE  p \in Pending'
        <3>1. i - 1 \in DOMAIN rest /\ rest[i - 1] = batch[i]
            BY <2>2, <2>4
        <3>2. CASE batch' = rest
            BY <1>2, <2>4, <3>1, <3>2 DEF Pending
        <3>3. CASE batch' = <<<<batch[1][1], left>>>> \o rest
            <4>1. i \in DOMAIN batch' /\ batch'[i] = rest[i - 1]
                BY <1>1, <2>1, <2>2, <2>4, <3>3 DEF TypeOK
            <4> QED
                BY <1>2, <2>4, <3>1, <4>1 DEF Pending
        <3> QED
            BY <1>11, <3>2, <3>3 DEF CallbackDone
    <2>5. ASSUME batch[1][1] = p[1], p[2] \in batch[1][2], p[2] # First(batch[1][2])
          PROVE  p \in Pending'
        <3>1. p[2] \in left
            BY <2>5 DEF Left
        <3>2. batch' = <<<<batch[1][1], left>>>> \o rest
            BY <1>11, <3>1 DEF CallbackDone
        <3>3. 1 \in DOMAIN batch' /\ batch'[1] = <<batch[1][1], left>>
            BY <1>1, <2>1, <2>2, <3>2 DEF TypeOK
        <3> QED
            BY <1>2, <2>5, <3>1, <3>3 DEF Pending
    <2> QED
        BY <1>2, <2>1, <2>3, <2>4, <2>5
<1>12. CASE Abandon
    BY <1>12 DEF Abandon, Running
<1>13. ASSUME NEW f \in Events, NEW flag \in Flags, EdgeArrives(f, flag)
       PROVE  UNCHANGED batch /\ edge[p[1]] \subseteq edge'[p[1]]
    BY <1>1, <1>2, <1>13 DEF EdgeArrives, TypeOK
<1>14. UNCHANGED <<batch, edge>> => UNCHANGED batch /\ edge[p[1]] \subseteq edge'[p[1]]
    OBVIOUS
<1> QED
    BY <1>3, <1>4, <1>5, <1>6, <1>7, <1>8, <1>9, <1>10, <1>11, <1>12, <1>13, <1>14
       DEF Next, LoopStep, Finish, Control, Step, Ended

(* Every edge that epoll reported stays with the loop until its callback, unless
   its event is deleted or the loop is stopped: none is dropped by a turn of it. *)
THEOREM EdgesKept == Spec => EdgesReachCallbacks
BY Inductive, EdgeStep, PTL DEF Spec, EdgesReachCallbacks

-----------------------------------------------------------------------------
(* The phase of an event, and what leaves it alone. *)
LEMMA PhaseOf ==
    ASSUME NEW e \in Events
    PROVE  /\ last[e] = "close" => phase[e] = "closed"
           /\ last[e] # "close" /\ alloc[e] = "none" => phase[e] = "new"
           /\ last[e] # "close" /\ alloc[e] = "freed" => phase[e] = "dropped"
           /\ last[e] # "close" /\ alloc[e] = "held" =>
                  phase[e] = IF e \in Range(deleted) THEN "deleted" ELSE "armed"
BY DEF phase

LEMMA PhaseNext ==
    ASSUME NEW e \in Events
    PROVE  /\ last'[e] = "close" => phase'[e] = "closed"
           /\ last'[e] # "close" /\ alloc'[e] = "none" => phase'[e] = "new"
           /\ last'[e] # "close" /\ alloc'[e] = "freed" => phase'[e] = "dropped"
           /\ last'[e] # "close" /\ alloc'[e] = "held" =>
                  phase'[e] = IF e \in Range(deleted') THEN "deleted" ELSE "armed"
BY DEF phase

Same(e) == /\ alloc'[e] = alloc[e] /\ (last'[e] = "close" <=> last[e] = "close")
           /\ alloc[e] = "held" => (e \in Range(deleted') <=> e \in Range(deleted))

LEMMA PhaseSame ==
    ASSUME TypeOK, NEW e \in Events, Same(e) PROVE phase'[e] = phase[e]
BY PhaseOf, PhaseNext DEF Same, TypeOK

Phases == {"new", "armed", "deleted", "closed", "dropped"}

LEMMA PhaseType ==
    ASSUME TypeOK, TypeOK'
    PROVE  phase \in [Events -> Phases] /\ phase' \in [Events -> Phases]
<1>1. \A e \in Events : phase[e] \in Phases
    BY PhaseOf DEF TypeOK, Phases
<1>2. \A e \in Events : phase'[e] \in Phases
    BY PhaseNext DEF TypeOK, Phases
<1>3. phase \in [Events -> Phases]
    BY <1>1 DEF phase
<1>4. phase' \in [Events -> Phases]
    BY <1>2 DEF phase
<1> QED
    BY <1>3, <1>4

LEMMA PhaseKept ==
    ASSUME TypeOK, TypeOK', \A e \in Events : Same(e) PROVE UNCHANGED phase
BY PhaseSame, PhaseType

LEMMA PhaseOne ==
    ASSUME TypeOK, TypeOK', NEW f \in Events, \A e \in Events \ {f} : Same(e)
    PROVE  phase' = [phase EXCEPT ![f] = phase'[f]]
BY PhaseSame, PhaseType

-----------------------------------------------------------------------------
LEMMA SourceStep == IInv /\ IInv' /\ [Next]_vars => [Source!Next]_Source!vars
<1> SUFFICES ASSUME IInv, IInv', [Next]_vars
             PROVE  Source!Next \/ UNCHANGED <<phase, last>>
    BY DEF Source!vars
<1> USE DEF rootVars, arrayVars, eventVars, kernel, loopVars, callVars, bounds, LoopUnchanged
<1>1. TypeOK /\ TypeOK' /\ LoopPlace /\ OneCall
    BY DEF IInv
<1>2. \A t \in Threads : call[t] # "idle" => /\ state # "freed" /\ on[t] \in Events
                                             /\ CallOn(on[t], call[t])
    BY <1>1 DEF IInv, FreedLast, OneCall, CallsLive, TypeOK
<1>3. ASSUME state # "freed" PROVE \A e \in Events : Record(e)
    BY <1>3 DEF IInv, Records
<1>4. ASSUME UNCHANGED <<alloc, last, deleted>> PROVE UNCHANGED <<phase, last>>
    BY <1>1, <1>4, PhaseKept DEF Same
<1>5. CASE Control
    BY <1>4, <1>5, ControlFacts DEF records
<1>6. ASSUME NEW t \in Threads, AddReserve(t) \/ AddPublish(t) \/ SetApply(t)
      PROVE  UNCHANGED <<phase, last>>
    BY <1>4, <1>6 DEF AddReserve, AddPublish, SetApply
<1>7. ASSUME NEW t \in Threads, AddLink(t) PROVE Source!Add(on[t])
    <2>1. /\ on[t] \in Events /\ alloc[on[t]] = "none" /\ UNCHANGED <<last, deleted>>
          /\ last[on[t]] # "close" /\ on[t] \notin Range(deleted)
          /\ alloc' = [alloc EXCEPT ![on[t]] = "held"]
        BY <1>2, <1>3, <1>7 DEF AddLink, CallOn, Record, NotYet
    <2> DEFINE f == on[t]
    <2>2. phase[f] = "new"
        BY <2>1, PhaseOf
    <2>3. \A e \in Events : e = f => phase'[e] = "armed"
        BY <1>1, <2>1, PhaseNext DEF TypeOK
    <2>4. \A e \in Events \ {f} : Same(e)
        BY <1>1, <2>1 DEF Same, TypeOK
    <2>5. phase' = [phase EXCEPT ![f] = phase'[f]]
        BY <1>1, <2>1, <2>4, PhaseOne
    <2> QED
        BY <2>1, <2>2, <2>3, <2>5 DEF Source!Add
<1>8. ASSUME NEW t \in Threads, AddFails(t) PROVE Source!Drop
    <2>1. /\ on[t] \in Events /\ alloc[on[t]] = "none" /\ UNCHANGED <<last, deleted>>
          /\ last[on[t]] # "close"
          /\ alloc' = [alloc EXCEPT ![on[t]] = "freed"]
        BY <1>2, <1>3, <1>8 DEF AddFails, CallOn, Record, NotYet
    <2> DEFINE f == on[t]
    <2>2. {f} \in SUBSET {e \in Events : phase[e] # "closed"}
        BY <2>1, PhaseOf
    <2>3. \A e \in Events : e = f => phase'[e] = "dropped"
        BY <1>1, <2>1, PhaseNext DEF TypeOK
    <2>4. \A e \in Events \ {f} : phase'[e] = phase[e]
        BY <1>1, <2>1, PhaseSame DEF Same, TypeOK
    <2>5. phase' = [e \in Events |-> IF e \in {f} THEN "dropped" ELSE phase[e]]
        BY <1>1, <2>3, <2>4, PhaseType
    <2> QED
        BY <2>1, <2>2, <2>5 DEF Source!Drop
<1>9. ASSUME NEW t \in Threads, NEW f \in Events, NEW w \in SUBSET Dirs,
             SetTest(t, f, w) \/ DelTest(t, f, w)
      PROVE  UNCHANGED <<phase, last>>
    BY <1>4, <1>9 DEF SetTest, DelTest
<1>10. ASSUME NEW t \in Threads, DelApply(t)
       PROVE  Source!Delete(on[t]) \/ UNCHANGED <<phase, last>>
    <2> DEFINE left == what[on[t]] \ ask[t]
               f    == on[t]
    <2>1. /\ f \in Events /\ alloc[f] = "held" /\ last[f] # "close"
          /\ f \notin Range(deleted) /\ UNCHANGED <<alloc, last>>
          /\ PushDeleted(f, left)
        BY <1>2, <1>10 DEF DelApply, CallOn
    <2>2. CASE left # {}
        BY <1>4, <2>1, <2>2 DEF PushDeleted
    <2>3. CASE left = {}
        <3>1. Range(deleted') = {f} \cup Range(deleted)
            BY <1>1, <2>1, <2>3, PushFront DEF PushDeleted, TypeOK
        <3>2. phase[f] = "armed"
            BY <2>1, PhaseOf
        <3>3. \A e \in Events : e = f => phase'[e] = "deleted"
            BY <2>1, <3>1, PhaseNext
        <3>4. phase' = [phase EXCEPT ![f] = phase'[f]]
            BY <1>1, <2>1, <3>1, PhaseOne DEF Same
        <3> QED
            BY <2>1, <3>2, <3>3, <3>4 DEF Source!Delete
    <2> QED
        BY <2>2, <2>3
<1>11. CASE Free
    <2> DEFINE gone == {e \in Events : e \in linked /\ last[e] # "close"}
    <2>1. /\ state # "freed" /\ UNCHANGED <<last, deleted>>
          /\ alloc' = [e \in Events |-> IF e \in linked THEN "freed" ELSE alloc[e]]
        BY <1>11 DEF Free
    <2>2. gone \in SUBSET {e \in Events : phase[e] # "closed"}
        <3> SUFFICES ASSUME NEW e \in gone PROVE phase[e] # "closed"
            OBVIOUS
        <3> QED
            BY <1>1, PhaseOf DEF TypeOK
    <2>3. ASSUME NEW e \in gone PROVE phase'[e] = "dropped"
        BY <2>1, PhaseNext
    <2>4. ASSUME NEW e \in Events \ gone PROVE phase'[e] = phase[e]
        <3>1. CASE last[e] = "close"
            BY <2>1, <3>1, PhaseOf, PhaseNext
        <3>2. CASE last[e] # "close"
            <4>1. alloc[e] # "held"
                BY <1>3, <2>1, <2>4, <3>2 DEF Record
            <4> QED
                BY <1>1, <2>1, <2>4, <3>2, <4>1, PhaseSame DEF Same
        <3> QED
            BY <3>1, <3>2
    <2>5. phase' = [e \in Events |-> IF e \in gone THEN "dropped" ELSE phase[e]]
        BY <1>1, <2>3, <2>4, PhaseType
    <2>6. Source!Drop
        BY <2>1, <2>2, <2>5 DEF Source!Drop
    <2> QED
        BY <2>6 DEF Source!Next
<1>12. CASE PopDeleted
    <2> DEFINE f == Head(deleted)
    <2>1. /\ state # "freed" /\ deleted # <<>> /\ UNCHANGED alloc
          /\ deleted' = Tail(deleted) /\ last' = [last EXCEPT ![f] = "close"]
        BY <1>12 DEF PopDeleted, IInv, FreedLast
    <2>2. f \in Events /\ f \in Range(deleted) /\ Range(deleted') = Range(deleted) \ {f}
        BY <1>1, <2>1, PopFront DEF TypeOK, IInv, Counted
    <2>3. alloc[f] = "held" /\ last[f] # "close"
        BY <1>1, <1>3, <2>1, <2>2 DEF Record, NotYet, Gone, TypeOK
    <2>4. phase[f] = "deleted"
        BY <2>2, <2>3, PhaseOf
    <2>5. \A e \in Events : e = f => phase'[e] = "closed"
        BY <1>1, <2>1, PhaseNext DEF TypeOK
    <2>6. \A e \in Events \ {f} : Same(e)
        BY <1>1, <2>1, <2>2 DEF Same, TypeOK
    <2>7. phase' = [phase EXCEPT ![f] = phase'[f]]
        BY <1>1, <2>2, <2>6, PhaseOne
    <2>8. Source!Close(f)
        BY <2>1, <2>2, <2>4, <2>5, <2>7 DEF Source!Close
    <2> QED
        BY <2>2, <2>8 DEF Source!Next
<1>13. CASE FreeDeleted
    <2>1. /\ state # "freed" /\ closing \in Events /\ UNCHANGED <<last, deleted>>
          /\ alloc' = [alloc EXCEPT ![closing] = "freed"]
        BY <1>1, <1>13 DEF FreeDeleted, IInv, FreedLast, LoopPlace, TypeOK
    <2>2. last[closing] = "close"
        BY <1>3, <2>1 DEF Record
    <2>3. \A e \in Events : phase'[e] = phase[e]
        <3> SUFFICES ASSUME NEW e \in Events PROVE phase'[e] = phase[e]
            OBVIOUS
        <3>1. CASE e = closing
            BY <2>1, <2>2, <3>1, PhaseOf, PhaseNext
        <3>2. CASE e # closing
            BY <1>1, <2>1, <3>2, PhaseSame DEF Same, TypeOK
        <3> QED
            BY <3>1, <3>2
    <2> QED
        BY <1>1, <2>1, <2>3, PhaseType
<1>14. CASE EpollReturns \/ Abandon
    BY <1>4, <1>14 DEF EpollReturns, Ready, Abandon
<1>15. CASE Dispatch \/ CallbackDone
    <2> DEFINE f == batch[1][1]
    <2>1. /\ state # "freed" /\ UNCHANGED <<alloc, deleted>> /\ f \in Events /\ f \in Queued
          /\ UNCHANGED last \/ last' = [last EXCEPT ![f] = "event"]
        BY <1>1, <1>15, QueuedFacts
           DEF Dispatch, CallbackDone, IInv, FreedLast, LoopPlace
    <2>2. alloc[f] = "held" /\ last[f] # "close"
        BY <1>1, <1>3, <2>1 DEF Record, NotYet, Gone, TypeOK
    <2>3. phase[f] \in {"armed", "deleted"}
        BY <2>1, <2>2, PhaseOf
    <2>4. \A e \in Events : Same(e)
        BY <1>1, <2>1, <2>2 DEF Same, TypeOK
    <2>5. UNCHANGED phase
        BY <1>1, <2>4, PhaseKept
    <2>6. Source!Deliver(f) \/ UNCHANGED <<phase, last>>
        BY <2>1, <2>3, <2>5 DEF Source!Deliver
    <2> QED
        BY <2>1, <2>6 DEF Source!Next
<1>16. ASSUME NEW f \in Events, NEW flag \in Flags, EdgeArrives(f, flag)
       PROVE  UNCHANGED <<phase, last>>
    BY <1>4, <1>16 DEF EdgeArrives
<1>17. \A t \in Threads : call[t] # "idle" => on[t] \in Events
    BY <1>2
<1>18. ASSUME NEW t \in Threads, AddLink(t) \/ DelApply(t) PROVE on[t] \in Events
    BY <1>17, <1>18 DEF AddLink, DelApply
<1> QED
    BY <1>5, <1>6, <1>7, <1>8, <1>9, <1>10, <1>11, <1>12, <1>13, <1>14, <1>15, <1>16,
       <1>18 DEF Next, LoopStep, Finish, Control, Step, Ended, Source!Next

(* The loop implements EventSource: whatever the threads do, an event gets its
   callbacks between yod_evloop_add and CLOSE, CLOSE once and after its deletion
   only, and nothing after that. *)
THEOREM LoopImplementsEventSource == Spec => ImplementsEventSource
<1>1. Init => Source!Init
    <2> SUFFICES ASSUME Init PROVE Source!Init
        OBVIOUS
    <2>1. \A e \in Events : last[e] = "none" /\ alloc[e] = "none"
        BY DEF Init
    <2>2. phase = [e \in Events |-> "new"]
        BY <2>1 DEF phase
    <2> QED
        BY <2>2 DEF Init, Source!Init
<1>2. IInv /\ IInv' /\ [Next]_vars => [Source!Next]_Source!vars
    BY SourceStep
<1> QED
    BY Inductive, <1>1, <1>2, PTL DEF Spec, ImplementsEventSource, Source!Spec
=============================================================================
