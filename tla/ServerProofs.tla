---------------------------- MODULE ServerProofs ----------------------------
(***************************************************************************)
(* What Server promises of its connections, for any number of records,     *)
(* workers and openers, whatever closes them and whatever fails: a record  *)
(* is recycled exactly when nobody means it any more, it is counted as it  *)
(* is used, and a descriptor is lost only where a connection is given up.  *)
(***************************************************************************)
EXTENDS Server, FiniteSetTheorems, SequenceTheorems, TLAPS

Closing == {"close", "del", "forget"}
InWork  == {"connect", "connected", "input", "lock", "recv", "unlock", "destroy"}

(* Where each kind of thread can be; a worker's lock is held from its work's
   first label to its last. *)
Placed(t) ==
    /\ t \in Workers =>
           /\ busy[t] <=> pc[t] \in InWork \/ (pc[t] \in Closing /\ ret[t] # "idle")
           /\ pc[t] # "timeout"
           /\ pc[t] \in Closing => ret[t] # "delete"
    /\ t \in Openers => pc[t] \in {"idle", "run", "push"}
    /\ t = Ticker =>
           /\ pc[t] \in {"idle", "timeout"} \cup Closing
           /\ pc[t] \in Closing => ret[t] = "idle"
           /\ pc[t] # "idle" => rec[t] \in Records
           /\ pc[t] \in {"del", "forget"} => ses[t] \in Sessions
Shape == \A t \in Threads : Placed(t)

(* The records in use, each by a session of its own that was opened. *)
Uses ==
    /\ \A r \in Records : /\ session[r] # 0 <=> alloc[r] = "live"
                          /\ session[r] <= conns
                          /\ evloop[r] \in {0, session[r]}
                          /\ evloop[r] # 0 => event[session[r]] # "none"
    /\ \A r, q \in Records : session[r] = session[q] /\ session[r] # 0 => r = q

Watched(s) == event[s] \in {"armed", "deleted"}

(* A thread that is at work for a record: the record's session is the thread's own,
   and it has an event exactly when its connect_cb has run. *)
InLoop(w) == \/ pc[w] \in {"connected", "ref", "run", "push", "closed"}
             \/ pc[w] \in Closing /\ ret[w] = "idle"
Means(t) ==
    pc[t] \notin {"idle", "delete"} =>
        /\ rec[t] \in Records /\ ses[t] \in Sessions
        /\ session[rec[t]] = ses[t]
        /\ event[ses[t]] = "none" <=> t \in Openers \/ pc[t] = "connect"
        /\ t \in Workers /\ InLoop(t) => Watched(ses[t]) /\ owner[ses[t]] = t
Meant == \A t \in Workers \cup Openers : Means(t)

(* So is a work that is queued. *)
Queued ==
    \A w \in Workers : \A i \in DOMAIN queue[w] :
        LET work == queue[w][i] IN
        /\ session[work[2]] = work[3]
        /\ event[work[3]] = "none" <=> work[1] = "connect"

(* Events: whose they are, and who is to free them. *)
Events ==
    /\ \A s \in Sessions :
           /\ event[s] # "none" => s <= conns
           /\ edge[s] # {} => event[s] = "armed"
           /\ Watched(s) => /\ owner[s] \in Workers
                            /\ evRec[s] \in Records /\ session[evRec[s]] = s
    /\ \A w \in Workers :
           /\ Range(dead[w]) = {s \in Sessions : owner[s] = w /\ event[s] = "deleted"}
           /\ IsInjective(dead[w])

(* The delete phase of a loop: its lock is held, its batch is done. *)
Loops ==
    \A w \in Workers :
        /\ loopLock[w] = IF pc[w] \in {"delete", "closed"} THEN w ELSE None
        /\ pc[w] \in {"delete", "closed"} => batch[w] = {}
        /\ pc[w] = "closed" => dead[w] # <<>> /\ Head(dead[w]) = ses[w]
        /\ \A p \in batch[w] : owner[p[1]] = w /\ Watched(p[1])

(* Descriptors: a connection has its number until CLOSE. *)
Ended(s) == \E w \in Workers : pc[w] = "closed" /\ ses[w] = s
Held(r) == /\ session[r] # 0 /\ event[session[r]] # "freed"
           /\ ~Ended(session[r])
Numbers ==
    /\ \A r \in Records : Held(r) => fdOf[r] \in open /\ stream[fdOf[r]] = session[r]
    /\ \A s \in Sessions : Watched(s) => evFd[s] = fdOf[evRec[s]]
    /\ \A f \in open : stream[f] \in Sessions

(* Who is about to clear self->evloop has the event deleted; and an armed event is
   its record's, unless the ticker cleared the record for a former session. *)
Passed(s) == event[s] \in {"deleted", "freed"}
Steady ==
    /\ \A t \in Threads : pc[t] = "forget" => ses[t] \in Sessions /\ Passed(ses[t])
    /\ \A s \in Sessions : event[s] = "armed" => evloop[evRec[s]] = s \/ s \in cutOff

(* The references, and that there is one alone until the event is there. *)
Refs(r) == Cardinality(Works(r)) + Cardinality(Opening(r))
           + Cardinality(Watching(r)) + Cardinality(Serving(r))
Referred ==
    \A r \in Records :
        /\ IsFiniteSet(Works(r))
        /\ session[r] # 0 => /\ count[r] = Refs(r)
                             /\ event[session[r]] = "none" => count[r] = 1

(* The two lists of records, and root->tick. *)
Lists ==
    /\ linked = {r \in Records : alloc[r] = "live"} /\ IsFiniteSet(linked)
    /\ Range(heap) = {r \in Records : alloc[r] = "heap"} /\ IsInjective(heap)
    /\ total = Cardinality(linked) + Len(heap)

IInv == /\ TypeOK /\ Shape /\ Uses /\ Meant /\ Queued /\ Events /\ Loops
        /\ Numbers /\ Steady /\ Referred /\ Lists

(* An open number is a connection's own, unless the connection was given up. *)
Sound == \A f \in open : \/ stream[f] \in givenUp
                         \/ \E r \in Records :
                                Held(r) /\ session[r] = stream[f] /\ fdOf[r] = f

(* CONNECT has been called for whoever can be about to call INPUT. *)
Greeted ==
    /\ \A w \in Workers :
           /\ \A p \in batch[w] : told[p[1]] # "none"
           /\ \A i \in DOMAIN queue[w] :
                  queue[w][i][1] = "input" => told[queue[w][i][3]] # "none"
           /\ pc[w] \notin {"idle", "connect", "connected", "delete"} => told[ses[w]] # "none"
    /\ \A s \in Sessions :
           event[s] # "none" /\ told[s] = "none" =>
               Watched(s) /\ pc[owner[s]] = "connected" /\ ses[owner[s]] = s

(* What CloseTwice changes. *)
Twice ==
    /\ spoilt' = TRUE
    /\ UNCHANGED <<closers, stoping, heap, linked, total, conns, recVars, holder, eventVars,
                   loopLock, poolVars, sockVars, ticks, threadVars, told>>

-----------------------------------------------------------------------------
(* Types: each group is kept by every step that leaves its variables alone. *)
LEMMA Bounds ==
    /\ MaxConns \in Nat /\ 0 \in 0..MaxConns /\ 0 \notin Sessions
    /\ \A s : s \in Sessions <=> s \in 0..MaxConns /\ s # 0
    /\ Ticker \notin Workers \cup Openers /\ Workers \cap Openers = {}
    /\ \A t \in Threads : t = Ticker \/ t \in Workers \/ t \in Openers
    /\ Workers \subseteq Threads /\ Openers \subseteq Threads /\ Ticker \in Threads
    /\ None \notin Threads \cup Records \cup Fds
<1>1. MaxConns \in Nat
    BY ServerAssumption
<1> QED
    BY <1>1, ServerAssumption DEF Sessions, Threads

LEMMA TypeInit == Init => TypeOK
<1> SUFFICES ASSUME Init PROVE TypeOK
    OBVIOUS
<1>1. RootType
    <2>1. <<>> \in Seq(Records)
        BY EmptySeq
    <2> QED
        BY <2>1, Bounds DEF Init, RootType
<1>a. RecType
    BY ServerAssumption DEF Init, RecType
<1>2. EventType /\ PoolType
    BY ServerAssumption, EmptySeq DEF Init, EventType, PoolType
<1>3. SockType /\ ThreadType
    BY ServerAssumption DEF Init, SockType, ThreadType, Labels
<1> QED
    BY <1>1, <1>a, <1>2, <1>3, ServerAssumption DEF Init, TypeOK

LEMMA TypeKept ==
    /\ RootType /\ UNCHANGED rootVars => RootType'
    /\ RecType /\ UNCHANGED recVars => RecType'
    /\ EventType /\ UNCHANGED eventVars => EventType'
    /\ PoolType /\ UNCHANGED poolVars => PoolType'
    /\ SockType /\ UNCHANGED sockVars => SockType'
    /\ ThreadType /\ UNCHANGED threadVars => ThreadType'
<1>1. RootType /\ UNCHANGED rootVars => RootType'
    BY DEF rootVars, RootType
<1>2. RecType /\ UNCHANGED recVars => RecType'
    BY DEF recVars, RecType
<1>3. EventType /\ UNCHANGED eventVars => EventType'
    BY DEF eventVars, EventType
<1>4. PoolType /\ UNCHANGED poolVars => PoolType'
    BY DEF poolVars, PoolType
<1>5. SockType /\ UNCHANGED sockVars => SockType'
    BY DEF sockVars, SockType
<1>6. ThreadType /\ UNCHANGED threadVars => ThreadType'
    BY DEF threadVars, ThreadType
<1> QED
    BY <1>1, <1>2, <1>3, <1>4, <1>5, <1>6

Backs == {"idle", "destroy", "recv", "unlock", "delete"}

LEMMA GotoType ==
    ASSUME ThreadType, NEW t \in Threads, NEW label \in Labels, Goto(t, label)
    PROVE  ThreadType'
BY DEF ThreadType, Goto

LEMMA CallType ==
    ASSUME ThreadType, NEW t \in Threads, NEW label \in Labels, NEW r \in Records,
           NEW s \in 0..MaxConns, NEW back \in Backs, Call(t, label, r, s, back)
    PROVE  ThreadType'
BY DEF ThreadType, Call, Backs

(* What DropRef does when the count is not 0, as every caller has it. *)
LEMMA DropIs ==
    ASSUME TypeOK, NEW r \in Records, count[r] # 0, DropRef(r)
    PROVE  /\ holder[r] = None
           /\ count' = [count EXCEPT ![r] = count[r] - 1]
           /\ count[r] # 1 => UNCHANGED <<linked, heap, alloc, fdOf, evloop, timed, session>>
           /\ count[r] = 1 => /\ linked' = linked \ {r} /\ heap' = <<r>> \o heap
                              /\ alloc' = [alloc EXCEPT ![r] = "heap"]
                              /\ fdOf' = [fdOf EXCEPT ![r] = None]
                              /\ evloop' = [evloop EXCEPT ![r] = 0]
                              /\ timed' = [timed EXCEPT ![r] = FALSE]
                              /\ session' = [session EXCEPT ![r] = 0]
           /\ UNCHANGED <<closers, stoping, total, conns>>
<1>1. RecType /\ count[r] \in Nat \ {0}
    BY DEF TypeOK, RecType
<1>2. count[r] > 0
    BY <1>1
<1>3. CASE count[r] = 1
    BY <1>1, <1>2, <1>3 DEF DropRef, IsLast
<1>4. CASE count[r] # 1
    <2>1. count[r] - 1 # 0
        BY <1>1, <1>4
    <2>2. /\ holder[r] = None
          /\ count' = [count EXCEPT ![r] = count[r] - 1]
          /\ linked' = linked /\ heap' = heap
          /\ alloc' = [alloc EXCEPT ![r] = alloc[r]]
          /\ fdOf' = [fdOf EXCEPT ![r] = fdOf[r]]
          /\ evloop' = [evloop EXCEPT ![r] = evloop[r]]
          /\ timed' = [timed EXCEPT ![r] = timed[r]]
          /\ session' = [session EXCEPT ![r] = session[r]]
          /\ UNCHANGED <<closers, stoping, total, conns>>
        BY <1>2, <2>1 DEF DropRef, IsLast
    <2> QED
        BY <1>1, <1>4, <2>2 DEF RecType
<1> QED
    BY <1>3, <1>4

LEMMA DropType ==
    ASSUME TypeOK, NEW r \in Records, DropRef(r)
    PROVE  RootType' /\ RecType'
<1>1. RootType /\ RecType
    BY DEF TypeOK
<1>2. \A last \in BOOLEAN :
          /\ (IF last THEN linked \ {r} ELSE linked) \subseteq Records
          /\ (IF last THEN <<r>> \o heap ELSE heap) \in Seq(Records)
    BY <1>1 DEF RootType
<1>3. RootType'
    BY <1>1, <1>2 DEF DropRef, IsLast, RootType
<1>4. RecType'
    <2>1. /\ (IF count[r] > 0 THEN count[r] - 1 ELSE 0) \in Nat
          /\ 0 \in 0..MaxConns
        BY <1>1, ServerAssumption DEF RecType
    <2>2. count' \in [Records -> Nat]
        BY <1>1, <2>1 DEF DropRef, RecType
    <2>3. alloc' \in [Records -> {"none", "live", "heap", "freed"}]
        BY <1>1 DEF DropRef, RecType
    <2>4. fdOf' \in [Records -> Fds \cup {None}]
        BY <1>1 DEF DropRef, RecType
    <2>5. evloop' \in [Records -> 0..MaxConns] /\ session' \in [Records -> 0..MaxConns]
        BY <1>1, <2>1 DEF DropRef, RecType
    <2>6. timed' \in [Records -> BOOLEAN]
        BY <1>1 DEF DropRef, RecType
    <2> QED
        BY <2>2, <2>3, <2>4, <2>5, <2>6 DEF RecType
<1> QED
    BY <1>3, <1>4

(* A thread at work has a record, and unless it is the ticker a session. *)
LEMMA AtWork ==
    ASSUME IInv, NEW t \in Threads, pc[t] \notin {"idle", "delete"}
    PROVE  /\ rec[t] \in Records
           /\ t # Ticker => ses[t] \in Sessions /\ session[rec[t]] = ses[t]
           /\ evloop[rec[t]] \in 0..MaxConns /\ ret[t] \in Backs /\ ret[t] \in Labels
           /\ evloop[rec[t]] # 0 => evloop[rec[t]] \in Sessions
           /\ evloop[rec[t]] # 0 /\ t # Ticker => evloop[rec[t]] = ses[t]
<1>1. rec[t] \in Records /\ (t # Ticker => ses[t] \in Sessions /\ session[rec[t]] = ses[t])
    <2>1. CASE t = Ticker
        BY <2>1 DEF IInv, Shape, Placed
    <2>2. CASE t # Ticker
        BY <2>2, Bounds DEF IInv, Meant, Means
    <2> QED
        BY <2>1, <2>2
<1>2. evloop[rec[t]] \in 0..MaxConns /\ ret[t] \in Backs
    BY <1>1 DEF IInv, TypeOK, RecType, ThreadType, Backs
<1>3. evloop[rec[t]] \in {0, session[rec[t]]}
    BY <1>1 DEF IInv, Uses
<1> QED
    BY <1>1, <1>2, <1>3, Bounds DEF Backs, Labels

LEMMA DelIs ==
    ASSUME IInv, NEW t \in Threads, CloseDel(t)
    PROVE  ses[t] \in Sessions /\ event[ses[t]] = "armed" /\ owner[ses[t]] \in Workers
<1>1. pc[t] = "del" /\ event[ses[t]] = "armed"
    BY DEF CloseDel
<1>2. ses[t] \in Sessions
    BY <1>1, AtWork DEF IInv, Shape, Placed
<1> QED
    BY <1>1, <1>2 DEF IInv, Events, Watched

LEMMA TypeClose ==
    ASSUME IInv, NEW t \in Threads, Close(t) \/ CloseDel(t) \/ CloseForget(t)
    PROVE  TypeOK'
<1>1. TypeOK
    BY DEF IInv
<1>2. /\ RootType /\ RecType /\ EventType /\ PoolType /\ SockType /\ ThreadType
    BY <1>1 DEF TypeOK
<1>3. CASE Close(t)
    <2>1. /\ rec[t] \in Records /\ evloop[rec[t]] \in 0..MaxConns
          /\ ret[t] \in Backs /\ ret[t] \in Labels
        BY <1>3, AtWork DEF Close
    <2>2. ThreadType'
        BY <1>2, <1>3, <2>1, GotoType, CallType DEF Close, Labels
    <2>3. RecType'
        BY <1>2, <1>3, <2>1 DEF Close, RecType
    <2> QED
        BY <1>1, <1>3, <2>2, <2>3, TypeKept DEF Close, TypeOK
<1>4. CASE CloseDel(t)
    <2>1. ses[t] \in Sessions /\ owner[ses[t]] \in Workers
        BY <1>4, DelIs
    <2>2. ThreadType'
        BY <1>2, <1>4, GotoType DEF CloseDel, Labels
    <2>3. event' \in [Sessions -> {"none", "armed", "deleted", "freed"}]
        BY <1>2, <1>4 DEF CloseDel, EventType
    <2>4. edge' \in [Sessions -> SUBSET {"read", "error"}]
        BY <1>2, <1>4 DEF CloseDel, EventType
    <2>5. dead' \in [Workers -> Seq(Sessions)]
        BY <1>2, <1>4, <2>1 DEF CloseDel, PushDead, EventType
    <2>6. EventType'
        BY <1>2, <1>4, <2>3, <2>4, <2>5 DEF CloseDel, EventType
    <2> QED
        BY <1>1, <1>4, <2>2, <2>6, TypeKept DEF CloseDel, TypeOK
<1>5. CASE CloseForget(t)
    <2>1. /\ rec[t] \in Records /\ ret[t] \in Backs /\ ret[t] \in Labels
        BY <1>5, AtWork DEF CloseForget
    <2>2. ThreadType'
        BY <1>2, <1>5, <2>1, GotoType DEF CloseForget
    <2>3. RecType'
        BY <1>2, <1>5, <2>1, Bounds DEF CloseForget, RecType
    <2>4. EventType'
        <3>1. cutOff' \subseteq Sessions
            BY <1>2, <1>5, <2>1, Bounds DEF CloseForget, EventType, RecType
        <3> QED
            BY <1>2, <1>5, <3>1 DEF CloseForget, EventType
    <2> QED
        BY <1>1, <1>5, <2>2, <2>3, <2>4, TypeKept DEF CloseForget, TypeOK
<1> QED
    BY <1>3, <1>4, <1>5

LEMMA TypeRun ==
    ASSUME IInv, NEW t \in Threads,
           \/ RunLock(t) \/ RunPush(t) \/ RunFails(t)
           \/ OpenConnection(t) \/ OpenFails(t)
    PROVE  TypeOK'
<1>1. TypeOK
    BY DEF IInv
<1>2. /\ RootType /\ RecType /\ EventType /\ PoolType /\ SockType /\ ThreadType
    BY <1>1 DEF TypeOK
<1>3. CASE RunLock(t)
    <2>1. ThreadType'
        BY <1>2, <1>3, GotoType DEF RunLock, Labels
    <2>2. PoolType'
        BY <1>2, <1>3 DEF RunLock, PoolType
    <2> QED
        BY <1>1, <1>3, <2>1, <2>2, TypeKept DEF RunLock, TypeOK
<1>4. CASE RunPush(t)
    <2>1. rec[t] \in Records /\ ses[t] \in Sessions
        BY <1>4, AtWork, Bounds DEF IInv, Shape, Placed, RunPush, Closing
    <2>2. ThreadType'
        BY <1>2, <1>4, GotoType DEF RunPush, Labels
    <2>3. PoolType'
        <3> DEFINE x == <<IF t \in Workers THEN "input" ELSE "connect", rec[t], ses[t]>>
        <3>1. x \in {"connect", "input"} \X Records \X Sessions
            BY <2>1
        <3> HIDE DEF x
        <3>2. PICK w \in Workers : queue' = [queue EXCEPT ![w] = Append(@, x)]
            BY <1>4 DEF RunPush, x
        <3>3. Append(queue[w], x) \in Seq({"connect", "input"} \X Records \X Sessions)
            BY <1>2, <3>1 DEF PoolType
        <3> QED
            BY <1>2, <1>4, <3>2, <3>3 DEF RunPush, PoolType
    <2> QED
        BY <1>1, <1>4, <2>2, <2>3, TypeKept DEF RunPush, TypeOK
<1>5. CASE RunFails(t)
    <2>1. rec[t] \in Records
        BY <1>5, AtWork DEF RunFails
    <2>2. ThreadType'
        BY <1>2, <1>5, GotoType DEF RunFails, Labels
    <2>3. PoolType'
        BY <1>2, <1>5 DEF RunFails, PoolType
    <2>4. SockType'
        <3>1. t \in Openers => ses[t] \in Sessions
            BY <1>5, AtWork, Bounds DEF RunFails
        <3> QED
            BY <1>2, <1>5, <3>1 DEF RunFails, SockType
    <2> QED
        BY <1>1, <1>5, <2>1, <2>2, <2>3, <2>4, DropType, TypeKept DEF RunFails, TypeOK
<1>6. CASE OpenConnection(t)
    <2>1. /\ conns' = conns + 1 /\ conns' \in 0..MaxConns
        BY <1>2, <1>6, Bounds DEF OpenConnection, RootType
    <2>2. PICK r \in Records, f \in Fds \ open :
              /\ OpenRecord(r, f, conns') /\ open' = open \cup {f}
              /\ stream' = [stream EXCEPT ![f] = conns']
              /\ Call(t, "run", r, conns', "idle")
        BY <1>6 DEF OpenConnection
    <2>3. ThreadType'
        <3>1. \A c \in 0..MaxConns : Call(t, "run", r, c, "idle") => ThreadType'
            BY <1>2, CallType DEF Labels, Backs
        <3> QED
            BY <2>1, <2>2, <3>1
    <2>4. SockType'
        BY <1>2, <1>6, <2>1, <2>2 DEF OpenConnection, SockType
    <2>5. RecType'
        BY <1>2, <2>1, <2>2, Bounds DEF OpenRecord, RecType
    <2>6. RootType'
        <3>1. heap' \in Seq(Records) /\ total' \in Nat
            <4>1. heap # <<>> => Tail(heap) \in Seq(Records)
                BY <1>2 DEF RootType
            <4>2. \/ heap # <<>> /\ heap' = Tail(heap) /\ total' = total
                  \/ heap' = heap /\ total' = total + 1
                BY <2>2 DEF OpenRecord, TakeRecord
            <4> QED
                BY <1>2, <4>1, <4>2 DEF RootType
        <3> QED
            BY <1>2, <1>6, <2>1, <2>2, <3>1 DEF OpenConnection, OpenRecord, RootType
    <2> QED
        BY <1>1, <1>6, <2>3, <2>4, <2>5, <2>6, TypeKept DEF OpenConnection, TypeOK
<1>7. CASE OpenFails(t)
    <2>1. /\ conns' = conns + 1 /\ conns' \in 0..MaxConns
        BY <1>2, <1>7, Bounds DEF OpenFails, RootType
    <2>2. RootType'
        BY <1>2, <1>7, <2>1 DEF OpenFails, RootType
    <2>3. SockType'
        <3>1. conns' \in Sessions
            BY <1>2, <1>7, <2>1, Bounds DEF RootType, Sessions
        <3> QED
            BY <1>2, <1>7, <2>1, <3>1 DEF OpenFails, SockType
    <2> QED
        BY <1>1, <1>7, <2>2, <2>3, TypeKept DEF OpenFails, TypeOK
<1> QED
    BY <1>3, <1>4, <1>5, <1>6, <1>7

LEMMA TypeWork ==
    ASSUME IInv, NEW w \in Workers, Work(w)
    PROVE  TypeOK'
<1>1. TypeOK /\ w \in Threads
    BY Bounds DEF IInv
<1>2. /\ RootType /\ RecType /\ EventType /\ PoolType /\ SockType /\ ThreadType
    BY <1>1 DEF TypeOK
<1>3. WorkDone(w) => ThreadType' /\ busy' \in [Workers -> BOOLEAN]
    <2>1. WorkDone(w) => ThreadType'
        BY <1>1, <1>2, GotoType DEF WorkDone, Labels
    <2> QED
        BY <1>2, <2>1 DEF WorkDone, PoolType
<1>4. CASE TakeWork(w)
    <2> DEFINE x == Head(queue[w])
    <2>1. /\ queue[w] \in Seq({"connect", "input"} \X Records \X Sessions)
          /\ queue[w] # <<>>
        BY <1>2, <1>4 DEF TakeWork, PoolType
    <2>2. x \in {"connect", "input"} \X Records \X Sessions
          /\ Tail(queue[w]) \in Seq({"connect", "input"} \X Records \X Sessions)
        BY <2>1
    <2>3. x[1] \in Labels /\ x[2] \in Records /\ x[3] \in 0..MaxConns
        BY <2>2, Bounds DEF Labels
    <2>4. Call(w, x[1], x[2], x[3], "idle")
        BY <1>4 DEF TakeWork
    <2> HIDE DEF x
    <2>5. ThreadType'
        BY <1>1, <1>2, <2>3, <2>4, CallType DEF Backs
    <2>6. PoolType'
        BY <1>2, <1>4, <2>2 DEF TakeWork, PoolType
    <2> QED
        BY <1>1, <1>4, <2>5, <2>6, TypeKept DEF TakeWork, TypeOK
<1>5. CASE ConnectCb(w)
    <2>1. rec[w] \in Records /\ ses[w] \in Sessions
        BY <1>1, <1>5, AtWork, Bounds DEF ConnectCb
    <2>2. ThreadType'
        BY <1>1, <1>2, <1>5, GotoType DEF ConnectCb, Labels
    <2>3. RecType'
        BY <1>2, <1>5, <2>1, Bounds DEF ConnectCb, RecType
    <2>4. /\ event' \in [Sessions -> {"none", "armed", "deleted", "freed"}]
          /\ owner' \in [Sessions -> Workers \cup {None}]
        BY <1>2, <1>5 DEF ConnectCb, JoinLoop, EventType
    <2>5. /\ evFd' \in [Sessions -> Fds \cup {None}]
          /\ evRec' \in [Sessions -> Records \cup {None}]
        BY <1>2, <1>5, <2>1 DEF ConnectCb, EventType, RecType
    <2>6. edge' \in [Sessions -> SUBSET {"read", "error"}]
        BY <1>2, <1>5 DEF ConnectCb, EventType
    <2>7. EventType'
        BY <1>2, <1>5, <2>4, <2>5, <2>6 DEF ConnectCb, EventType
    <2> QED
        BY <1>1, <1>5, <2>2, <2>3, <2>7, TypeKept DEF ConnectCb, TypeOK
<1>6. CASE ConnectFunc(w)
    <2>1. told' \in [Sessions -> {"none", "connect", "input", "close"}]
        BY <1>1, <1>6 DEF ConnectFunc, TypeOK
    <2>2. PoolType'
        BY <1>2, <1>3, <1>6 DEF ConnectFunc, PoolType
    <2> QED
        BY <1>1, <1>3, <1>6, <2>1, <2>2, TypeKept DEF ConnectFunc, TypeOK
<1>7. CASE ConnectRefused(w)
    <2>1. rec[w] \in Records
        BY <1>1, <1>7, AtWork DEF ConnectRefused
    <2>2. PoolType'
        BY <1>2, <1>3, <1>7 DEF ConnectRefused, PoolType
    <2>3. SockType'
        <3>1. ses[w] \in Sessions
            BY <1>1, <1>7, AtWork, Bounds DEF ConnectRefused
        <3> QED
            BY <1>2, <1>7, <3>1 DEF ConnectRefused, SockType
    <2> QED
        BY <1>1, <1>3, <1>7, <2>1, <2>2, <2>3, DropType, TypeKept DEF ConnectRefused, TypeOK
<1>8. CASE InputCb(w)
    <2>1. rec[w] \in Records /\ ses[w] \in 0..MaxConns
        BY <1>1, <1>8, AtWork, Bounds DEF InputCb
    <2>2. ThreadType'
        BY <1>1, <1>2, <1>8, <2>1, GotoType, CallType DEF InputCb, Labels, Backs
    <2> QED
        BY <1>1, <1>8, <2>2, TypeKept DEF InputCb, TypeOK
<1>9. CASE InputLock(w)
    <2>1. ThreadType'
        BY <1>1, <1>2, <1>9, GotoType DEF InputLock, Labels
    <2>2. holder' \in [Records -> Workers \cup {None}]
        BY <1>1, <1>9 DEF InputLock, TypeOK
    <2> QED
        BY <1>1, <1>9, <2>1, <2>2, TypeKept DEF InputLock, TypeOK
<1>10. CASE RecvData(w)
    <2> DEFINE f == fdOf[rec[w]]
    <2>1. rec[w] \in Records /\ ses[w] \in 0..MaxConns
        BY <1>1, <1>10, AtWork, Bounds DEF RecvData
    <2>2. ThreadType'
        BY <1>1, <1>2, <1>10, <2>1, GotoType, CallType DEF RecvData, AfterData, Labels, Backs
    <2>3. unread' \in [Sessions -> Nat]
        <3>1. unread[stream[f]] > 0 /\ unread' = [unread EXCEPT ![stream[f]] = @ - 1]
            BY <1>10 DEF RecvData, HasData
        <3>2. unread \in [Sessions -> Nat]
            BY <1>2 DEF SockType
        <3> HIDE DEF f
        <3>3. CASE stream[f] \in Sessions
            BY <3>1, <3>2, <3>3
        <3>4. CASE stream[f] \notin Sessions
            BY <3>1, <3>2, <3>4
        <3> QED
            BY <3>3, <3>4
    <2>4. SockType'
        BY <1>2, <1>10, <2>3 DEF RecvData, SockType
    <2>5. told' \in [Sessions -> {"none", "connect", "input", "close"}]
        BY <1>1, <1>10 DEF RecvData, TypeOK
    <2> QED
        BY <1>1, <1>10, <2>2, <2>4, <2>5, TypeKept DEF RecvData, TypeOK
<1>11. CASE RecvAgain(w)
    <2>1. ThreadType'
        BY <1>1, <1>2, <1>11, GotoType DEF RecvAgain, Labels
    <2> QED
        BY <1>1, <1>11, <2>1, TypeKept DEF RecvAgain, TypeOK
<1>12. CASE RecvClosed(w)
    <2>1. rec[w] \in Records /\ evloop[rec[w]] \in 0..MaxConns
        BY <1>1, <1>12, AtWork DEF RecvClosed
    <2>2. ThreadType'
        BY <1>1, <1>2, <1>12, <2>1, GotoType, CallType DEF RecvClosed, Labels, Backs
    <2> QED
        BY <1>1, <1>12, <2>2, TypeKept DEF RecvClosed, TypeOK
<1>13. CASE InputUnlock(w)
    <2>1. ThreadType'
        BY <1>1, <1>2, <1>13, GotoType DEF InputUnlock, Labels
    <2>2. holder' \in [Records -> Workers \cup {None}]
        BY <1>1, <1>13 DEF InputUnlock, TypeOK
    <2> QED
        BY <1>1, <1>13, <2>1, <2>2, TypeKept DEF InputUnlock, TypeOK
<1>14. CASE InputDestroy(w)
    <2>1. rec[w] \in Records
        BY <1>1, <1>14, AtWork DEF InputDestroy
    <2>2. PoolType'
        BY <1>2, <1>3, <1>14 DEF InputDestroy, PoolType
    <2> QED
        BY <1>1, <1>3, <1>14, <2>1, <2>2, DropType, TypeKept DEF InputDestroy, TypeOK
<1> QED
    BY <1>4, <1>5, <1>6, <1>7, <1>8, <1>9, <1>10, <1>11, <1>12, <1>13, <1>14 DEF Work

LEMMA TypeLoop ==
    ASSUME IInv, NEW w \in Workers, LoopTurn(w)
    PROVE  TypeOK'
<1>1. TypeOK /\ w \in Threads
    BY Bounds DEF IInv
<1>2. /\ RootType /\ RecType /\ EventType /\ PoolType /\ SockType /\ ThreadType
    BY <1>1 DEF TypeOK
<1>3. CASE Fetch(w)
    <2>1. edge' \in [Sessions -> SUBSET {"read", "error"}]
        BY <1>2, <1>3 DEF Fetch, EventType
    <2>2. batch' \in [Workers -> SUBSET (Sessions \X {"read", "error"})]
        <3> DEFINE new == UNION {{s} \X edge[s] : s \in {x \in Sessions : owner[x] = w /\ edge[x] # {}}}
        <3>1. new \subseteq Sessions \X {"read", "error"}
            BY <1>2 DEF EventType
        <3>2. batch' = [batch EXCEPT ![w] = new]
            BY <1>3 DEF Fetch
        <3> HIDE DEF new
        <3> QED
            BY <1>2, <3>1, <3>2 DEF EventType
    <2>3. EventType'
        BY <1>2, <1>3, <2>1, <2>2 DEF Fetch, EventType
    <2> QED
        BY <1>1, <1>3, <2>3, TypeKept DEF Fetch, TypeOK
<1>4. CASE Ref(w)
    <2>1. ThreadType'
        BY <1>1, <1>2, <1>4, GotoType DEF Ref, Labels
    <2>2. count \in [Records -> Nat] /\ rec[w] \in Records
        BY <1>1, <1>2, <1>4, AtWork DEF Ref, RecType
    <2>3. count' \in [Records -> Nat]
        BY <1>4, <2>2 DEF Ref
    <2>4. RecType'
        BY <1>2, <1>4, <2>3 DEF Ref, RecType
    <2> QED
        BY <1>1, <1>4, <2>1, <2>4, TypeKept DEF Ref, TypeOK
<1>5. CASE BeginDelete(w)
    <2>1. ThreadType'
        BY <1>1, <1>2, <1>5, GotoType DEF BeginDelete, Labels
    <2>2. loopLock' \in [Workers -> Workers \cup {None}]
        BY <1>1, <1>5 DEF BeginDelete, TypeOK
    <2> QED
        BY <1>1, <1>5, <2>1, <2>2, TypeKept DEF BeginDelete, TypeOK
<1>6. CASE CloseCb(w)
    <2> DEFINE s == Head(dead[w])
    <2>1. s \in Sessions /\ s \in 0..MaxConns /\ event[s] = "deleted"
        <3>1. dead[w] \in Seq(Sessions) /\ dead[w] # <<>>
            BY <1>2, <1>6 DEF EventType, CloseCb
        <3>2. s \in Sessions /\ s \in Range(dead[w])
            BY <3>1 DEF Range
        <3> QED
            BY <3>2, Bounds DEF IInv, Events
    <2>2. evRec[s] \in Records
        BY <2>1 DEF IInv, Events, Watched
    <2>3. /\ CloseFd(s) /\ told' = [told EXCEPT ![s] = "close"]
          /\ Call(w, "closed", evRec[s], s, "delete")
        BY <1>6 DEF CloseCb
    <2> HIDE DEF s
    <2>4. ThreadType'
        BY <1>1, <1>2, <2>1, <2>2, <2>3, CallType DEF Labels, Backs
    <2>5. SockType'
        BY <1>2, <1>6, <2>3 DEF CloseCb, CloseFd, SockType
    <2>6. told' \in [Sessions -> {"none", "connect", "input", "close"}]
        BY <1>1, <2>3 DEF TypeOK
    <2> QED
        BY <1>1, <1>6, <2>4, <2>5, <2>6, TypeKept DEF CloseCb, TypeOK
<1>7. CASE CloseDestroy(w)
    <2>1. rec[w] \in Records /\ dead[w] # <<>>
        BY <1>1, <1>7, AtWork DEF CloseDestroy, IInv, Loops
    <2>2. ThreadType'
        BY <1>1, <1>2, <1>7, GotoType DEF CloseDestroy, Labels
    <2>3. EventType'
        <3>1. Tail(dead[w]) \in Seq(Sessions)
            BY <1>2, <2>1 DEF EventType
        <3>2. dead' \in [Workers -> Seq(Sessions)]
            BY <1>2, <1>7, <3>1 DEF EventType, CloseDestroy
        <3>3. event' \in [Sessions -> {"none", "armed", "deleted", "freed"}]
            BY <1>2, <1>7 DEF EventType, CloseDestroy
        <3> QED
            BY <1>2, <1>7, <3>2, <3>3 DEF EventType, CloseDestroy
    <2> QED
        BY <1>1, <1>7, <2>1, <2>2, <2>3, DropType, TypeKept DEF CloseDestroy, TypeOK
<1>8. CASE EndDelete(w)
    <2>1. ThreadType'
        BY <1>1, <1>2, <1>8, GotoType DEF EndDelete, Labels
    <2>2. loopLock' \in [Workers -> Workers \cup {None}]
        BY <1>1, <1>8 DEF EndDelete, TypeOK
    <2> QED
        BY <1>1, <1>8, <2>1, <2>2, TypeKept DEF EndDelete, TypeOK
<1>9. ASSUME NEW s \in Sessions, NEW flag, Handle(w, s, flag) PROVE TypeOK'
    <2>1. evRec[s] \in Records /\ s \in 0..MaxConns
        BY <1>9, Bounds DEF Handle, IInv, Loops, Events
    <2>2. ThreadType'
        BY <1>1, <1>2, <1>9, <2>1, CallType DEF Handle, Labels, Backs, threadVars, ThreadType
    <2>3. EventType'
        BY <1>2, <1>9 DEF Handle, EventType
    <2> QED
        BY <1>1, <1>9, <2>2, <2>3, TypeKept DEF Handle, TypeOK
<1> QED
    BY <1>3, <1>4, <1>5, <1>6, <1>7, <1>8, <1>9 DEF LoopTurn

LEMMA TypeRest ==
    ASSUME IInv, \/ Tick \/ Trim \/ Stop \/ Twice \/ UNCHANGED vars
                 \/ \E s \in Sessions : PeerSends(s) \/ PeerCloses(s) \/ PeerResets(s)
    PROVE  TypeOK'
<1>1. TypeOK
    BY DEF IInv
<1>2. /\ RootType /\ RecType /\ EventType /\ PoolType /\ SockType /\ ThreadType
    BY <1>1 DEF TypeOK
<1>3. CASE TickCall
    <2>1. pc[Ticker] = "timeout" /\ rec[Ticker] \in Records
        BY <1>3, Bounds DEF TickCall, IInv, Shape, Placed
    <2>2. session[rec[Ticker]] \in 0..MaxConns
        BY <1>2, <2>1 DEF RecType
    <2>3. ThreadType'
        BY <1>2, <1>3, <2>1, <2>2, Bounds, GotoType, CallType DEF TickCall, Labels, Backs
    <2> QED
        BY <1>1, <1>3, <2>3, TypeKept DEF TickCall, TypeOK
<1>4. ASSUME NEW r \in Records, TickSee(r) PROVE TypeOK'
    <2>1. session[r] \in 0..MaxConns /\ ticks' \in Nat
        BY <1>1, <1>2, <1>4 DEF RecType, TypeOK, TickSee
    <2>2. ThreadType'
        BY <1>2, <1>4, <2>1, Bounds, CallType DEF TickSee, Labels, Backs
    <2> QED
        BY <1>1, <1>4, <2>1, <2>2, TypeKept DEF TickSee, TypeOK
<1>5. CASE Trim
    <2> DEFINE spare == total - 2 * Cardinality(linked)
    <2>1. spare \in 1..Len(heap) /\ spare \in Nat
        <3>1. Cardinality(linked) \in Nat
            BY FS_CardinalityType DEF IInv, Lists
        <3> QED
            BY <1>2, <1>5, <3>1 DEF Trim, RootType
    <2>2. heap' = SubSeq(heap, spare + 1, Len(heap)) /\ total' = total - spare
        BY <1>5 DEF Trim
    <2>3. total - spare = 2 * Cardinality(linked)
        <3>1. Cardinality(linked) \in Nat
            BY FS_CardinalityType DEF IInv, Lists
        <3> QED
            BY <1>2, <3>1 DEF RootType
    <2>4. total' \in Nat
        <3>1. Cardinality(linked) \in Nat
            BY FS_CardinalityType DEF IInv, Lists
        <3> QED
            BY <2>2, <2>3, <3>1
    <2> HIDE DEF spare
    <2>5. heap' \in Seq(Records)
        BY <1>2, <2>1, <2>2, SubSeqProperties DEF RootType
    <2>6. RootType'
        BY <1>2, <1>5, <2>4, <2>5 DEF Trim, RootType
    <2>7. RecType'
        BY <1>2, <1>5 DEF Trim, RecType
    <2> QED
        BY <1>1, <1>5, <2>6, <2>7, TypeKept DEF Trim, TypeOK
<1>6. CASE Stop
    <2>1. RootType'
        BY <1>2, <1>6 DEF Stop, RootType
    <2> QED
        BY <1>1, <1>6, <2>1, TypeKept DEF Stop, TypeOK
<1>9. CASE Twice
    <2>1. RootType'
        BY <1>2, <1>9 DEF Twice, RootType
    <2> QED
        BY <1>1, <1>9, <2>1, TypeKept DEF Twice, TypeOK
<1>7. CASE UNCHANGED vars
    BY <1>1, <1>2, <1>7, TypeKept DEF vars, TypeOK
<1>8. ASSUME NEW s \in Sessions, PeerSends(s) \/ PeerCloses(s) \/ PeerResets(s)
      PROVE  TypeOK'
    <2>1. ASSUME NEW flags \in SUBSET {"read", "error"}, Reported(s, flags)
          PROVE  edge' \in [Sessions -> SUBSET {"read", "error"}]
        <3>1. edge \in [Sessions -> SUBSET {"read", "error"}]
            BY <1>2 DEF EventType
        <3> DEFINE mine == IF event[s] = "armed" THEN edge[s] \cup flags ELSE edge[s]
        <3>2. mine \in SUBSET {"read", "error"}
            BY <3>1
        <3>3. edge' = [edge EXCEPT ![s] = mine]
            BY <2>1 DEF Reported
        <3> HIDE DEF mine
        <3> QED
            BY <3>1, <3>2, <3>3
    <2>2. edge' \in [Sessions -> SUBSET {"read", "error"}]
        BY <1>8, <2>1 DEF PeerSends, PeerCloses, PeerResets
    <2>3. PeerUnchanged
        BY <1>8 DEF PeerSends, PeerCloses, PeerResets
    <2>4. EventType'
        BY <1>2, <2>2, <2>3 DEF PeerUnchanged, EventType
    <2>5. /\ unread' \in [Sessions -> Nat] /\ eof' \in [Sessions -> BOOLEAN]
          /\ sends' \in Nat
        <3>1. CASE PeerSends(s)
            BY <1>2, <3>1 DEF PeerSends, SockType
        <3>2. CASE PeerCloses(s)
            BY <1>2, <3>2 DEF PeerCloses, SockType
        <3>3. CASE PeerResets(s)
            BY <1>2, <3>3 DEF PeerResets, SockType
        <3> QED
            BY <1>8, <3>1, <3>2, <3>3
    <2>6. SockType'
        BY <1>2, <2>3, <2>5 DEF PeerUnchanged, SockType
    <2> QED
        BY <1>1, <2>3, <2>4, <2>6, TypeKept DEF PeerUnchanged, TypeOK
<1> QED
    BY <1>3, <1>4, <1>5, <1>6, <1>7, <1>8, <1>9 DEF Tick

LEMMA StepsAre ==
    ASSUME [Next]_vars
    PROVE  \/ \E t \in Threads : Shared(t) \/ RunFails(t) \/ OpenConnection(t) \/ OpenFails(t)
           \/ \E w \in Workers : Work(w) \/ LoopTurn(w)
           \/ Tick \/ Trim \/ Stop \/ Twice \/ UNCHANGED vars
           \/ \E s \in Sessions : PeerSends(s) \/ PeerCloses(s) \/ PeerResets(s)
<1>1. \A t \in Threads : CloseTwice(t) => Twice
    BY DEF CloseTwice, Twice
<1> QED
    BY <1>1 DEF Next, Step, Quiet

LEMMA TypeStep == IInv /\ [Next]_vars => TypeOK'
<1> SUFFICES ASSUME IInv, [Next]_vars PROVE TypeOK'
    OBVIOUS
<1>1. CASE \E t \in Threads : Shared(t) \/ RunFails(t) \/ OpenConnection(t) \/ OpenFails(t)
    BY <1>1, TypeClose, TypeRun DEF Shared
<1>2. CASE \E w \in Workers : Work(w) \/ LoopTurn(w)
    BY <1>2, TypeWork, TypeLoop
<1> QED
    BY <1>1, <1>2, StepsAre, TypeRest

-----------------------------------------------------------------------------
(* What a step of one thread leaves to the others. *)
Apart(t) ==
    \A u \in Threads \ {t} :
        /\ pc'[u] = pc[u] /\ rec'[u] = rec[u] /\ ses'[u] = ses[u] /\ ret'[u] = ret[u]
        /\ u \in Workers => busy'[u] = busy[u]

LEMMA GotoIs ==
    ASSUME TypeOK, NEW t \in Threads, NEW label, Goto(t, label)
    PROVE  /\ pc'[t] = label /\ rec'[t] = rec[t] /\ ses'[t] = ses[t] /\ ret'[t] = ret[t]
           /\ UNCHANGED busy => Apart(t)
           /\ t \in Workers /\ busy' = [busy EXCEPT ![t] = FALSE] => Apart(t) /\ ~busy'[t]
<1>1. /\ pc \in [Threads -> Labels] /\ busy \in [Workers -> BOOLEAN]
    BY DEF TypeOK, ThreadType, PoolType
<1>2. /\ pc'[t] = label /\ UNCHANGED <<rec, ses, ret>>
      /\ \A u \in Threads \ {t} : pc'[u] = pc[u]
    BY <1>1 DEF Goto
<1>3. UNCHANGED busy => Apart(t)
    BY <1>2 DEF Apart
<1>4. t \in Workers /\ busy' = [busy EXCEPT ![t] = FALSE] =>
          ~busy'[t] /\ \A u \in Workers \ {t} : busy'[u] = busy[u]
    BY <1>1
<1> QED
    BY <1>2, <1>3, <1>4 DEF Apart

LEMMA CallIs ==
    ASSUME TypeOK, NEW t \in Threads, NEW label, NEW r, NEW s, NEW back,
           Call(t, label, r, s, back)
    PROVE  /\ pc'[t] = label /\ rec'[t] = r /\ ses'[t] = s /\ ret'[t] = back
           /\ UNCHANGED busy => Apart(t)
           /\ t \in Workers /\ busy' = [busy EXCEPT ![t] = TRUE] => Apart(t) /\ busy'[t]
<1>1. /\ pc \in [Threads -> Labels] /\ busy \in [Workers -> BOOLEAN]
      /\ rec \in [Threads -> Records \cup {None}]
      /\ ses \in [Threads -> 0..MaxConns]
      /\ ret \in [Threads -> {"idle", "destroy", "recv", "unlock", "delete"}]
    BY DEF TypeOK, ThreadType, PoolType
<1>2. /\ pc'[t] = label /\ rec'[t] = r /\ ses'[t] = s /\ ret'[t] = back
      /\ \A u \in Threads \ {t} :
             pc'[u] = pc[u] /\ rec'[u] = rec[u] /\ ses'[u] = ses[u] /\ ret'[u] = ret[u]
    BY <1>1 DEF Call
<1>3. UNCHANGED busy => Apart(t)
    BY <1>2 DEF Apart
<1>4. t \in Workers /\ busy' = [busy EXCEPT ![t] = TRUE] =>
          busy'[t] /\ \A u \in Workers \ {t} : busy'[u] = busy[u]
    BY <1>1
<1> QED
    BY <1>2, <1>3, <1>4 DEF Apart

LEMMA ShapeFrom ==
    ASSUME Shape, NEW t \in Threads, Apart(t), Placed(t)' PROVE Shape'
BY DEF Shape, Placed, Apart

-----------------------------------------------------------------------------
(* Most steps only move a thread on: the records, the events and the works stay,
   and so does what the thread is at work for, with its reference. *)
Bears(t) == \/ t \in Openers /\ pc[t] # "idle"
            \/ /\ t \in Workers
               /\ (busy[t] /\ pc[t] # "connected") \/ pc[t] \in {"run", "push"}

life == <<linked, heap, total, conns, alloc, count, fdOf, session, event, owner,
          evFd, evRec, edge, batch, dead, queue, open, stream>>

Onward(t) ==
    /\ pc[t] \notin {"idle", "delete", "connect"} /\ pc'[t] \notin {"idle", "delete", "connect"}
    /\ rec'[t] = rec[t] /\ ses'[t] = ses[t]
    /\ Bears(t)' <=> Bears(t)
    /\ t \in Workers /\ InLoop(t)' => InLoop(t)
Aside(t) == pc'[t] \in {"idle", "delete"} /\ ~Bears(t) /\ ~Bears(t)'

Talk(t) ==
    /\ UNCHANGED life /\ Apart(t)
    /\ \A r \in Records : evloop'[r] \in {evloop[r], 0}
    /\ pc[t] # "closed" /\ pc'[t] # "closed"
    /\ t # Ticker => Onward(t) \/ Aside(t)

Stops == UNCHANGED <<loopLock, batch, dead, owner, event>>

LEMMA ClosingTalks ==
    ASSUME IInv, NEW t \in Threads, Close(t) \/ CloseForget(t)
    PROVE  Talk(t) /\ Placed(t)'
<1>1. /\ TypeOK /\ Shape /\ Placed(t)
      /\ evloop \in [Records -> 0..MaxConns] /\ rec[t] \in Records
      /\ t # Ticker /\ evloop[rec[t]] # 0 => evloop[rec[t]] = ses[t]
      /\ evloop[rec[t]] # 0 => evloop[rec[t]] \in Sessions
      /\ ret[t] \in Backs
    BY AtWork DEF IInv, TypeOK, RecType, Shape, Close, CloseForget
<1>2. /\ pc[t] \in {"close", "forget"} /\ t \notin Openers
      /\ t \in Workers => t # Ticker
    BY <1>1, Bounds DEF Close, CloseForget, Placed
<1>3. UNCHANGED life /\ UNCHANGED busy
    BY DEF Close, CloseForget, life, rootVars, eventVars, poolVars, sockVars
<1>4. \A r \in Records : evloop'[r] \in {evloop[r], 0}
    BY <1>1 DEF Close, CloseForget
<1>5. /\ Apart(t) /\ rec'[t] = rec[t] /\ ret'[t] = ret[t]
      /\ t # Ticker => ses'[t] = ses[t]
      /\ \/ pc'[t] = ret[t]
         \/ pc'[t] \in {"del", "forget"} /\ ses'[t] \in Sessions
    <2>1. CASE CloseForget(t)
        BY <1>1, <1>3, <2>1, GotoIs DEF CloseForget
    <2>2. CASE Close(t) /\ evloop[rec[t]] = 0
        BY <1>1, <1>3, <2>2, GotoIs DEF Close
    <2>3. CASE Close(t) /\ evloop[rec[t]] # 0
        BY <1>1, <1>3, <2>3, CallIs DEF Close
    <2> QED
        BY <2>1, <2>2, <2>3
<1>6. Placed(t)'
    BY <1>1, <1>2, <1>3, <1>5 DEF Placed, Closing, InWork, Backs
<1>7. t \in Workers => Onward(t) \/ Aside(t)
    <2>1. CASE ret[t] = "idle"
        <3>1. t \in Workers => ~busy[t] /\ ~busy'[t]
            BY <1>1, <1>2, <1>3, <2>1 DEF Placed, InWork, Closing
        <3> QED
            BY <1>1, <1>2, <1>5, <2>1, <3>1 DEF Onward, Aside, Bears, InLoop, Closing
    <2>2. CASE ret[t] # "idle"
        <3>1. t \in Workers => busy[t] /\ busy'[t]
            BY <1>1, <1>2, <1>3, <2>2 DEF Placed, InWork, Closing
        <3>2. t \in Workers => ret[t] \in {"destroy", "recv", "unlock"}
            BY <1>1, <1>2, <2>2 DEF Placed, Closing, Backs
        <3> QED
            BY <1>2, <1>5, <2>2, <3>1, <3>2 DEF Onward, Bears, InLoop, Closing
    <2> QED
        BY <2>1, <2>2
<1>8. pc'[t] # "closed"
    BY <1>1, <1>5 DEF Backs
<1> QED
    BY <1>2, <1>3, <1>4, <1>5, <1>6, <1>7, <1>8, Bounds DEF Talk

LEMMA RunTalks ==
    ASSUME IInv, NEW t \in Threads, RunLock(t)
    PROVE  Talk(t) /\ Placed(t)' /\ t # Ticker
<1>1. TypeOK /\ Placed(t) /\ pc[t] = "run"
    BY DEF IInv, Shape, RunLock
<1>2. t # Ticker
    BY <1>1 DEF Placed, Closing
<1>3. UNCHANGED life /\ UNCHANGED evloop /\ UNCHANGED busy
    BY DEF RunLock, life, rootVars, recVars, eventVars, sockVars
<1>4. /\ Apart(t) /\ pc'[t] = "push"
      /\ rec'[t] = rec[t] /\ ses'[t] = ses[t] /\ ret'[t] = ret[t]
    BY <1>1, <1>3, GotoIs DEF RunLock
<1>5. Placed(t)'
    BY <1>1, <1>2, <1>3, <1>4 DEF Placed, Closing, InWork
<1>6. Onward(t)
    BY <1>1, <1>3, <1>4 DEF Onward, Bears, InLoop
<1> QED
    BY <1>1, <1>2, <1>3, <1>4, <1>5, <1>6 DEF Talk

(* The labels of a work, from the event's callback on. *)
LEMMA InputTalks ==
    ASSUME IInv, NEW w \in Workers,
           \/ InputCb(w) \/ InputLock(w) \/ RecvData(w) \/ RecvAgain(w)
           \/ RecvClosed(w) \/ InputUnlock(w)
    PROVE  /\ Talk(w) /\ Placed(w)'
           /\ pc[w] \in InWork /\ pc'[w] \in InWork \cup Closing
           /\ UNCHANGED <<evloop, loopLock, busy>>
<1>1. TypeOK /\ Placed(w) /\ w \in Threads /\ w # Ticker /\ w \notin Openers
    BY Bounds DEF IInv, Shape
<1>2. /\ pc[w] \in {"input", "lock", "recv", "unlock"}
      /\ UNCHANGED life /\ UNCHANGED <<evloop, loopLock, busy>>
    <2>1. CASE InputCb(w)
        BY <2>1 DEF InputCb, life, rootVars, recVars, eventVars, poolVars, sockVars
    <2>2. CASE InputLock(w)
        BY <2>2 DEF InputLock, life, rootVars, recVars, eventVars, poolVars, sockVars
    <2>3. CASE RecvData(w)
        BY <2>3 DEF RecvData, life, rootVars, recVars, eventVars, poolVars, sockVars
    <2>4. CASE RecvAgain(w)
        BY <2>4 DEF RecvAgain, life, rootVars, recVars, eventVars, poolVars, sockVars
    <2>5. CASE RecvClosed(w)
        BY <2>5 DEF RecvClosed, life, rootVars, recVars, eventVars, poolVars, sockVars
    <2>6. CASE InputUnlock(w)
        BY <2>6 DEF InputUnlock, life, rootVars, recVars, eventVars, poolVars, sockVars
    <2> QED
        BY <2>1, <2>2, <2>3, <2>4, <2>5, <2>6
<1>3. /\ evloop[rec[w]] # 0 => evloop[rec[w]] = ses[w]
    BY <1>1, <1>2, AtWork
<1>4. /\ Apart(w) /\ rec'[w] = rec[w] /\ ses'[w] = ses[w]
      /\ \/ pc'[w] \in {"lock", "recv", "unlock", "destroy"}
         \/ pc'[w] \in Closing /\ ret'[w] \in {"destroy", "recv", "unlock"}
    <2>1. CASE InputCb(w)
        <3>1. \/ Goto(w, "destroy") \/ Goto(w, "lock")
              \/ Call(w, "close", rec[w], ses[w], "destroy")
            BY <2>1 DEF InputCb
        <3> QED
            BY <1>1, <1>2, <3>1, GotoIs, CallIs DEF Closing
    <2>2. CASE InputLock(w)
        BY <1>1, <1>2, <2>2, GotoIs DEF InputLock
    <2>3. CASE RecvData(w)
        <3>1. Goto(w, "recv") \/ Call(w, "close", rec[w], ses[w], "recv")
            BY <2>3 DEF RecvData, AfterData
        <3> QED
            BY <1>1, <1>2, <3>1, GotoIs, CallIs DEF Closing
    <2>4. CASE RecvAgain(w)
        BY <1>1, <1>2, <2>4, GotoIs DEF RecvAgain
    <2>5. CASE RecvClosed(w)
        <3>1. \/ Goto(w, "unlock")
              \/ Call(w, "del", rec[w], ses[w], "unlock")
              \/ Call(w, "forget", rec[w], ses[w], "unlock")
            BY <1>3, <2>5 DEF RecvClosed
        <3> QED
            BY <1>1, <1>2, <3>1, GotoIs, CallIs DEF Closing
    <2>6. CASE InputUnlock(w)
        BY <1>1, <1>2, <2>6, GotoIs DEF InputUnlock
    <2> QED
        BY <2>1, <2>2, <2>3, <2>4, <2>5, <2>6
<1>5. pc'[w] \in InWork \cup Closing /\ pc'[w] \notin {"connect", "connected", "closed"}
    BY <1>4 DEF InWork, Closing
<1>6. busy[w] /\ busy'[w]
    BY <1>1, <1>2 DEF Placed, InWork
<1>7. Placed(w)'
    BY <1>1, <1>4, <1>6 DEF Placed, InWork, Closing
<1>8. Onward(w)
    BY <1>1, <1>2, <1>4, <1>6 DEF Onward, Bears, InLoop, Closing
<1> QED
    BY <1>1, <1>2, <1>4, <1>5, <1>7, <1>8 DEF Talk, InWork

LEMMA ConnectedTalks ==
    ASSUME IInv, NEW w \in Workers, ConnectFunc(w)
    PROVE  Talk(w) /\ Placed(w)' /\ pc'[w] = "idle"
<1>1. TypeOK /\ Placed(w) /\ w \in Threads /\ w # Ticker /\ w \notin Openers
    BY Bounds DEF IInv, Shape
<1>2. /\ pc[w] = "connected" /\ Goto(w, "idle") /\ busy' = [busy EXCEPT ![w] = FALSE]
      /\ UNCHANGED life /\ UNCHANGED evloop
    BY DEF ConnectFunc, WorkDone, life, rootVars, recVars, eventVars, poolVars, sockVars
<1>3. /\ Apart(w) /\ pc'[w] = "idle" /\ ~busy'[w]
    BY <1>1, <1>2, GotoIs
<1>4. Placed(w)'
    BY <1>1, <1>3 DEF Placed, InWork, Closing
<1>5. Aside(w)
    BY <1>1, <1>2, <1>3 DEF Aside, Bears
<1> QED
    BY <1>1, <1>2, <1>3, <1>4, <1>5 DEF Talk

LEMMA DeletingTalks ==
    ASSUME IInv, NEW w \in Workers, BeginDelete(w) \/ EndDelete(w)
    PROVE  Talk(w) /\ Placed(w)'
<1>1. TypeOK /\ Placed(w) /\ w \in Threads /\ w # Ticker /\ w \notin Openers
    BY Bounds DEF IInv, Shape
<1>2. /\ pc[w] \in {"idle", "delete"} /\ (Goto(w, "delete") \/ Goto(w, "idle"))
      /\ UNCHANGED life /\ UNCHANGED <<evloop, busy>>
    BY DEF BeginDelete, EndDelete, life, rootVars, recVars, eventVars, poolVars, sockVars
<1>3. /\ Apart(w) /\ pc'[w] \in {"idle", "delete"}
    BY <1>1, <1>2, GotoIs
<1>4. ~busy[w] /\ ~busy'[w] /\ pc[w] \in {"idle", "delete"}
    BY <1>1, <1>2 DEF Placed, InWork, Closing, BeginDelete, EndDelete
<1>5. Placed(w)'
    BY <1>1, <1>3, <1>4 DEF Placed, InWork, Closing
<1>6. Aside(w)
    BY <1>1, <1>3, <1>4 DEF Aside, Bears
<1> QED
    BY <1>1, <1>2, <1>3, <1>4, <1>5, <1>6 DEF Talk

LEMMA TickTalks ==
    ASSUME IInv, Tick
    PROVE  /\ Talk(Ticker) /\ Placed(Ticker)' /\ UNCHANGED loopLock
           /\ pc'[Ticker] \in {"idle", "timeout", "close"}
<1>1. TypeOK /\ Placed(Ticker) /\ Ticker \in Threads
      /\ Ticker \notin Openers \cup Workers
    BY Bounds DEF IInv, Shape
<1>2. CASE TickCall
    <2>1. rec[Ticker] \in Records /\ pc[Ticker] = "timeout"
        BY <1>1, <1>2 DEF TickCall, Placed
    <2>2. UNCHANGED life /\ UNCHANGED <<evloop, busy, loopLock>>
        BY <1>2 DEF TickCall, life, rootVars, recVars, eventVars, poolVars, sockVars
    <2>3. /\ Apart(Ticker)
          /\ \/ pc'[Ticker] = "idle"
             \/ pc'[Ticker] = "close" /\ rec'[Ticker] \in Records /\ ret'[Ticker] = "idle"
        <3>1. \/ Goto(Ticker, "idle")
              \/ Call(Ticker, "close", rec[Ticker], session[rec[Ticker]], "idle")
            BY <1>2 DEF TickCall
        <3> QED
            BY <1>1, <2>1, <2>2, <3>1, GotoIs, CallIs
    <2>4. Placed(Ticker)'
        BY <1>1, <2>3 DEF Placed, Closing
    <2> QED
        BY <2>1, <2>2, <2>3, <2>4 DEF Talk
<1>3. ASSUME NEW r \in Records, TickSee(r)
      PROVE  /\ Talk(Ticker) /\ Placed(Ticker)' /\ UNCHANGED loopLock
             /\ pc'[Ticker] \in {"idle", "timeout", "close"}
    <2>1. UNCHANGED life /\ UNCHANGED <<evloop, busy, loopLock>> /\ pc[Ticker] = "idle"
        BY <1>3 DEF TickSee, life, rootVars, recVars, eventVars, poolVars, sockVars
    <2>2. /\ Apart(Ticker) /\ pc'[Ticker] = "timeout" /\ rec'[Ticker] = r
        BY <1>1, <1>3, <2>1, CallIs DEF TickSee
    <2>3. Placed(Ticker)'
        BY <1>1, <2>2 DEF Placed, Closing
    <2> QED
        BY <2>1, <2>2, <2>3 DEF Talk
<1> QED
    BY <1>2, <1>3 DEF Tick

-----------------------------------------------------------------------------
(* Who bears a reference: the two sets of threads, in terms of Bears. *)
LEMMA BearersAre ==
    ASSUME NEW r
    PROVE  /\ Opening(r) = {t \in Openers : rec[t] = r /\ Bears(t)}
           /\ Serving(r) = {w \in Workers : rec[w] = r /\ Bears(w)}
BY Bounds DEF Opening, Serving, Bears

(* The references of a record as long as no event and no work of it changes, and
   threads bear the references that they bore. *)
Bearing(t) == \/ rec'[t] = rec[t] /\ (Bears(t)' <=> Bears(t))
              \/ ~Bears(t) /\ ~Bears(t)'

LEMMA WorksAre ==
    ASSUME NEW r
    PROVE  /\ \A p : p \in Works(r) <=>
                  \E w \in Workers : \E i \in DOMAIN queue[w] :
                      p = <<w, i>> /\ queue[w][i][2] = r
           /\ \A p : p \in Works(r)' <=>
                  \E w \in Workers : \E i \in DOMAIN queue'[w] :
                      p = <<w, i>> /\ queue'[w][i][2] = r
BY DEF Works

LEMMA SameRefs ==
    ASSUME UNCHANGED <<queue, evRec>>, NEW r,
           \A s \in Sessions : Watched(s)' <=> Watched(s),
           \A t \in Workers \cup Openers : Bearing(t)
    PROVE  /\ Works(r)' = Works(r) /\ Watching(r)' = Watching(r)
           /\ Opening(r)' = Opening(r) /\ Serving(r)' = Serving(r)
<1>1. Works(r)' = Works(r)
    BY DEF Works
<1>2. Watching(r)' = Watching(r)
    BY DEF Watching, Watched
<1>3. /\ Opening(r)' = {t \in Openers : rec'[t] = r /\ Bears(t)'}
      /\ Serving(r)' = {w \in Workers : rec'[w] = r /\ Bears(w)'}
    BY Bounds DEF Opening, Serving, Bears
<1>4. Opening(r)' = Opening(r) /\ Serving(r)' = Serving(r)
    BY <1>3, BearersAre DEF Bearing
<1> QED
    BY <1>1, <1>2, <1>4

(* An event may be deleted meanwhile. *)
Moves(t) ==
    /\ UNCHANGED <<linked, heap, total, conns, alloc, count, fdOf, session, owner,
                   evFd, evRec, queue, open, stream>>
    /\ \A s \in Sessions : \/ event'[s] = event[s]
                           \/ event[s] = "armed" /\ event'[s] = "deleted"
    /\ Apart(t)
    /\ \A r \in Records : evloop'[r] \in {evloop[r], 0}
    /\ pc[t] # "closed" /\ pc'[t] # "closed"
    /\ t # Ticker => Onward(t) \/ Aside(t)

LEMMA MovesKeep ==
    ASSUME IInv, NEW t \in Threads, Moves(t)
    PROVE  Uses' /\ Meant' /\ Queued' /\ Numbers' /\ Referred' /\ Lists'
<1>1. /\ UNCHANGED <<linked, heap, total, conns, alloc, count, fdOf, session, owner>>
      /\ UNCHANGED <<evFd, evRec, queue, open, stream>>
    BY DEF Moves
<1>2. /\ Apart(t) /\ \A r \in Records : evloop'[r] \in {evloop[r], 0}
      /\ pc[t] # "closed" /\ pc'[t] # "closed"
      /\ t # Ticker => Onward(t) \/ Aside(t)
    BY DEF Moves
<1>a. \A s \in Sessions : /\ event'[s] = "none" <=> event[s] = "none"
                          /\ event'[s] = "freed" <=> event[s] = "freed"
                          /\ Watched(s)' <=> Watched(s)
    BY DEF Moves, Watched
<1>b. \A r \in Records : session[r] # 0 => session[r] \in Sessions
    BY Bounds DEF IInv, TypeOK, RecType
<1>3. Uses'
    BY <1>1, <1>2, <1>a, <1>b DEF IInv, Uses
<1>4. Meant'
    <2>1. ASSUME NEW u \in Workers \cup Openers PROVE Means(u)'
        <3>1. Means(u) /\ u # Ticker /\ u \in Threads
            BY Bounds DEF IInv, Meant
        <3>2. CASE u # t
            BY <1>1, <1>2, <1>a, <3>1, <3>2 DEF Means, Apart, InLoop
        <3>3. CASE u = t /\ Onward(t)
            BY <1>1, <1>2, <1>a, <3>1, <3>3 DEF Means, Onward
        <3>4. CASE u = t /\ Aside(t)
            BY <3>4 DEF Means, Aside
        <3> QED
            BY <1>2, <3>1, <3>2, <3>3, <3>4
    <2> QED
        BY <2>1 DEF Meant
<1>5. Queued' /\ Lists'
    <2>1. \A w \in Workers : \A i \in DOMAIN queue[w] : queue[w][i][3] \in Sessions
        <3> SUFFICES ASSUME NEW w \in Workers, NEW i \in DOMAIN queue[w]
                     PROVE  queue[w][i][3] \in Sessions
            OBVIOUS
        <3>1. queue[w] \in Seq({"connect", "input"} \X Records \X Sessions)
            BY DEF IInv, TypeOK, PoolType
        <3>2. queue[w][i] \in {"connect", "input"} \X Records \X Sessions
            BY <3>1
        <3> QED
            BY <3>2
    <2> QED
        BY <1>1, <1>a, <2>1 DEF IInv, Queued, Lists
<1>7. Numbers'
    <2>1. \A s : Ended(s)' <=> Ended(s)
        BY <1>2, Bounds DEF Ended, Apart
    <2>2. \A r \in Records : Held(r)' => Held(r)
        BY <1>1, <1>a, <1>b, <2>1 DEF Held
    <2> QED
        BY <1>1, <1>a, <2>2 DEF IInv, Numbers
<1>8. Referred'
    <2>1. \A u \in Workers \cup Openers : Bearing(u)
        <3> TAKE u \in Workers \cup Openers
        <3>1. u # Ticker /\ u \in Threads
            BY Bounds
        <3>2. CASE u # t
            BY <1>2, <3>1, <3>2 DEF Bearing, Bears, Apart
        <3>3. CASE u = t
            BY <1>2, <3>1, <3>3 DEF Bearing, Onward, Aside
        <3> QED
            BY <3>2, <3>3
    <2> QED
        BY <1>1, <1>a, <1>b, <2>1, SameRefs DEF IInv, Referred, Refs
<1> QED
    BY <1>3, <1>4, <1>5, <1>7, <1>8

LEMMA TalkKeeps ==
    ASSUME IInv, NEW t \in Threads, Talk(t)
    PROVE  Uses' /\ Meant' /\ Queued' /\ Events' /\ Numbers' /\ Referred' /\ Lists'
<1>1. Moves(t)
    BY DEF Talk, life, Moves
<1>2. UNCHANGED <<conns, session, event, owner, evRec, edge, dead>>
    BY DEF Talk, life
<1>3. Events'
    BY <1>2 DEF IInv, Events, Watched
<1> QED
    BY <1>1, <1>3, MovesKeep

(* The rest of the steps that concern no reference: no thread moves. *)
Still ==
    /\ UNCHANGED threadVars
    /\ UNCHANGED <<session, evloop, count, fdOf, event, owner, evFd, evRec, dead, queue, busy,
                   loopLock>>
    /\ conns <= conns' /\ \A r \in Records : alloc'[r] = "live" <=> alloc[r] = "live"
    /\ open \subseteq open' /\ \A f \in open : stream'[f] = stream[f]
    /\ \A f \in open' : f \in open \/ stream'[f] \in Sessions
    /\ \A s \in Sessions : edge'[s] # {} => edge[s] # {} \/ event[s] = "armed"

LEMMA StillKeeps ==
    ASSUME IInv, TypeOK', Still
    PROVE  Shape' /\ Uses' /\ Meant' /\ Queued' /\ Events' /\ Numbers' /\ Referred'
<1>1. /\ UNCHANGED <<pc, rec, ses, ret>>
      /\ UNCHANGED <<session, evloop, count, fdOf, event, owner, evFd, evRec, dead, queue, busy>>
      /\ conns <= conns' /\ \A r \in Records : alloc'[r] = "live" <=> alloc[r] = "live"
      /\ open \subseteq open' /\ \A f \in open : stream'[f] = stream[f]
      /\ \A f \in open' : f \in open \/ stream'[f] \in Sessions
      /\ \A s \in Sessions : edge'[s] # {} => edge[s] # {} \/ event[s] = "armed"
    BY DEF Still, threadVars
<1>2. /\ conns \in Nat /\ conns' \in Nat /\ \A r \in Records : session[r] \in Nat
      /\ Sessions \subseteq Nat
    BY Bounds DEF IInv, TypeOK, RootType, RecType, Sessions
<1>3. Shape'
    BY <1>1 DEF IInv, Shape, Placed
<1>4. Uses'
    <2>1. \A r \in Records : session[r] <= conns'
        BY <1>1, <1>2 DEF IInv, Uses
    <2> QED
        BY <1>1, <2>1 DEF IInv, Uses
<1>5. Meant'
    BY <1>1 DEF IInv, Meant, Means, InLoop, Watched
<1>6. Queued'
    BY <1>1 DEF IInv, Queued
<1>7. Events'
    <2>1. \A s \in Sessions : s <= conns => s <= conns'
        BY <1>1, <1>2
    <2> QED
        BY <1>1, <2>1 DEF IInv, Events, Watched
<1>8. Numbers'
    BY <1>1 DEF IInv, Numbers, Held, Ended, Watched
<1>9. Referred'
    <2>1. \A t \in Workers \cup Openers : Bearing(t)
        BY <1>1 DEF Bearing, Bears
    <2>2. \A s \in Sessions : Watched(s)' <=> Watched(s)
        BY <1>1 DEF Watched
    <2> QED
        BY <1>1, <2>1, <2>2, SameRefs DEF IInv, Referred, Refs
<1> QED
    BY <1>3, <1>4, <1>5, <1>6, <1>7, <1>8, <1>9

LEMMA Stills ==
    ASSUME IInv,
           \/ Trim \/ Stop \/ Twice \/ UNCHANGED vars
           \/ \E t \in Threads : OpenFails(t)
           \/ \E w \in Workers : Fetch(w)
           \/ \E s \in Sessions : PeerSends(s) \/ PeerCloses(s) \/ PeerResets(s)
    PROVE  Still
<1> USE DEF rootVars, recVars, eventVars, poolVars, sockVars
<1>1. /\ conns \in 0..MaxConns /\ MaxConns \in Nat /\ stream \in [Fds -> 0..MaxConns]
      /\ heap \in Seq(Records) /\ alloc \in [Records -> {"none", "live", "heap", "freed"}]
      /\ edge \in [Sessions -> SUBSET {"read", "error"}]
    BY Bounds DEF IInv, TypeOK, RootType, SockType, RecType, EventType
<1>2. CASE Trim
    <2>1. \A r \in Records : alloc'[r] = "live" <=> alloc[r] = "live"
        <3>1. Cardinality(linked) \in Nat
            BY FS_CardinalityType DEF IInv, Lists
        <3>2. \A i \in 1..(total - 2 * Cardinality(linked)) : i \in DOMAIN heap
            BY <1>1, <1>2, <3>1 DEF Trim, IInv, TypeOK, RootType
        <3>3. \A i \in DOMAIN heap : alloc[heap[i]] = "heap"
            BY <1>1 DEF IInv, Lists, Range
        <3> QED
            BY <1>2, <3>2, <3>3 DEF Trim
    <2> QED
        BY <1>1, <1>2, <2>1 DEF Trim, Still
<1>3. CASE Stop \/ Twice \/ UNCHANGED vars
    BY <1>1, <1>3 DEF Stop, Twice, vars, Still
<1>4. ASSUME NEW t \in Threads, OpenFails(t) PROVE Still
    <2>1. conns' \in Sessions /\ conns <= conns'
        BY <1>1, <1>4 DEF OpenFails, Sessions
    <2>2. /\ open \subseteq open' /\ \A f \in open : stream'[f] = stream[f]
          /\ \A f \in open' : f \in open \/ stream'[f] \in Sessions
        BY <1>1, <1>4, <2>1 DEF OpenFails
    <2> QED
        BY <1>4, <2>1, <2>2 DEF OpenFails, Still
<1>5. ASSUME NEW w \in Workers, Fetch(w) PROVE Still
    <2>1. \A s \in Sessions : edge'[s] # {} => edge[s] # {}
        BY <1>5 DEF Fetch
    <2> QED
        BY <1>1, <1>5, <2>1 DEF Fetch, Still
<1>6. ASSUME NEW s \in Sessions, PeerSends(s) \/ PeerCloses(s) \/ PeerResets(s) PROVE Still
    <2>1. PeerUnchanged /\ (Reported(s, {"read"}) \/ Reported(s, {"read", "error"}))
        BY <1>6 DEF PeerSends, PeerCloses, PeerResets
    <2>2. \A x \in Sessions : edge'[x] # {} => edge[x] # {} \/ event[x] = "armed"
        BY <1>1, <2>1 DEF Reported
    <2>3. PeerUnchanged
        BY <1>6 DEF PeerSends, PeerCloses, PeerResets
    <2> QED
        BY <1>1, <2>2, <2>3 DEF PeerUnchanged, Still
<1> QED
    BY <1>2, <1>3, <1>4, <1>5, <1>6

-----------------------------------------------------------------------------
(* Counting the references. *)
LEMMA RefSets ==
    ASSUME IInv, NEW r \in Records
    PROVE  /\ IsFiniteSet(Works(r)) /\ IsFiniteSet(Opening(r))
           /\ IsFiniteSet(Watching(r)) /\ IsFiniteSet(Serving(r))
           /\ Cardinality(Works(r)) \in Nat /\ Cardinality(Opening(r)) \in Nat
           /\ Cardinality(Watching(r)) \in Nat /\ Cardinality(Serving(r)) \in Nat
<1>1. IsFiniteSet(Works(r))
    BY DEF IInv, Referred
<1>2. IsFiniteSet(Opening(r)) /\ IsFiniteSet(Serving(r))
    <2>1. Opening(r) \in SUBSET Openers /\ Serving(r) \in SUBSET Workers
        BY DEF Opening, Serving
    <2> QED
        BY <2>1, ServerAssumption, FS_Subset
<1>3. IsFiniteSet(Watching(r))
    <2>1. Watching(r) \in SUBSET (1..MaxConns) /\ IsFiniteSet(1..MaxConns)
        BY Bounds, FS_Interval DEF Watching, Sessions
    <2> QED
        BY <2>1, FS_Subset
<1> QED
    BY <1>1, <1>2, <1>3, FS_CardinalityType

LEMMA Borne ==
    ASSUME IInv, NEW r \in Records, session[r] # 0,
           Works(r) \cup Opening(r) \cup Watching(r) \cup Serving(r) # {}
    PROVE  count[r] \in Nat /\ count[r] # 0 /\ count[r] = Refs(r)
<1>1. count[r] = Refs(r)
    BY DEF IInv, Referred
<1>2. \/ Cardinality(Works(r)) # 0 \/ Cardinality(Opening(r)) # 0
      \/ Cardinality(Watching(r)) # 0 \/ Cardinality(Serving(r)) # 0
    BY RefSets, FS_EmptySet
<1> QED
    BY <1>1, <1>2, RefSets DEF Refs

(* Whoever has the only reference is alone. *)
LEMMA Alone ==
    ASSUME IInv, NEW r \in Records, session[r] # 0, count[r] = 1
    PROVE  /\ Works(r) # {} => Opening(r) = {} /\ Watching(r) = {} /\ Serving(r) = {}
           /\ Opening(r) # {} => Works(r) = {} /\ Watching(r) = {} /\ Serving(r) = {}
           /\ Watching(r) # {} => Works(r) = {} /\ Opening(r) = {} /\ Serving(r) = {}
           /\ Serving(r) # {} => Works(r) = {} /\ Opening(r) = {} /\ Watching(r) = {}
           /\ \A x, y \in Works(r) : x = y
           /\ \A x, y \in Opening(r) : x = y
           /\ \A x, y \in Watching(r) : x = y
           /\ \A x, y \in Serving(r) : x = y
<1> DEFINE A == Works(r)
           B == Opening(r)
           C == Watching(r)
           D == Serving(r)
<1>1. Cardinality(A) + Cardinality(B) + Cardinality(C) + Cardinality(D) = 1
    BY DEF IInv, Referred, Refs
<1>2. /\ IsFiniteSet(A) /\ IsFiniteSet(B) /\ IsFiniteSet(C) /\ IsFiniteSet(D)
      /\ Cardinality(A) \in Nat /\ Cardinality(B) \in Nat
      /\ Cardinality(C) \in Nat /\ Cardinality(D) \in Nat
    BY RefSets
<1> HIDE DEF A, B, C, D
<1>3. /\ A = {} <=> Cardinality(A) = 0
      /\ B = {} <=> Cardinality(B) = 0
      /\ C = {} <=> Cardinality(C) = 0
      /\ D = {} <=> Cardinality(D) = 0
    BY <1>2, FS_EmptySet
<1>4. ASSUME NEW S, IsFiniteSet(S), Cardinality(S) \in {0, 1}
      PROVE  \A x, y \in S : x = y
    <2>1. S = {} \/ \E x : S = {x}
        BY <1>4, FS_EmptySet, FS_Singleton
    <2> QED
        BY <2>1
<1>5. /\ Cardinality(A) \in {0, 1} /\ Cardinality(B) \in {0, 1}
      /\ Cardinality(C) \in {0, 1} /\ Cardinality(D) \in {0, 1}
    <2>1. \A a, b, c, d \in Nat : a + b + c + d = 1 =>
              a \in {0, 1} /\ b \in {0, 1} /\ c \in {0, 1} /\ d \in {0, 1}
        OBVIOUS
    <2> QED
        BY <1>1, <1>2, <2>1
<1>6. /\ \A x, y \in A : x = y
      /\ \A x, y \in B : x = y
      /\ \A x, y \in C : x = y
      /\ \A x, y \in D : x = y
    BY <1>2, <1>4, <1>5
<1>7. /\ A # {} => B = {} /\ C = {} /\ D = {}
      /\ B # {} => A = {} /\ C = {} /\ D = {}
      /\ C # {} => A = {} /\ B = {} /\ D = {}
      /\ D # {} => A = {} /\ B = {} /\ C = {}
    BY <1>1, <1>2, <1>3
<1> QED
    BY <1>6, <1>7 DEF A, B, C, D

(* A thread at work for a record has a reference, or the event of its loop has. *)
LEMMA Backed ==
    ASSUME IInv, NEW t \in Workers \cup Openers, pc[t] \notin {"idle", "delete"}
    PROVE  /\ rec[t] \in Records /\ ses[t] \in Sessions /\ session[rec[t]] = ses[t]
           /\ \/ Bears(t)
              \/ t \in Workers /\ ses[t] \in Watching(rec[t]) /\ owner[ses[t]] = t
<1>1. /\ rec[t] \in Records /\ ses[t] \in Sessions /\ session[rec[t]] = ses[t]
      /\ t \in Workers /\ InLoop(t) => Watched(ses[t]) /\ owner[ses[t]] = t
    BY DEF IInv, Meant, Means
<1>2. CASE t \in Openers
    BY <1>1, <1>2 DEF Bears
<1>3. CASE t \in Workers
    <2>1. Placed(t) /\ pc[t] \in Labels
        BY <1>3, Bounds DEF IInv, Shape, TypeOK, ThreadType
    <2>2. InLoop(t) \/ Bears(t)
        BY <1>3, <2>1 DEF InLoop, Bears, Placed, InWork, Closing, Labels
    <2>3. Watched(ses[t]) => ses[t] \in Watching(rec[t])
        <3> SUFFICES ASSUME Watched(ses[t]) PROVE ses[t] \in Watching(rec[t])
            OBVIOUS
        <3>1. evRec[ses[t]] \in Records /\ session[evRec[ses[t]]] = ses[t]
            BY <1>1 DEF IInv, Events
        <3>2. evRec[ses[t]] = rec[t]
            BY <1>1, <3>1, Bounds DEF IInv, Uses
        <3> QED
            BY <1>1, <3>2 DEF Watching, Watched
    <2> QED
        BY <1>1, <1>3, <2>2, <2>3
<1> QED
    BY <1>2, <1>3

-----------------------------------------------------------------------------
(* A thread drops its own reference and is done.  If it was the last one, nobody
   means the record any more. *)
Leave(t) ==
    /\ pc[t] \notin {"idle", "delete", "closed"} /\ Bears(t) /\ DropRef(rec[t])
    /\ Apart(t) /\ pc'[t] = "idle" /\ (t \in Workers => ~busy'[t])
    /\ UNCHANGED <<event, owner, evFd, evRec, edge, batch, dead, queue, open, stream>>

LEMMA LeaveDrops ==
    ASSUME IInv, NEW t \in Workers \cup Openers, Leave(t)
    PROVE  /\ rec[t] \in Records /\ ses[t] \in Sessions /\ session[rec[t]] = ses[t]
           /\ t \in Opening(rec[t]) \/ t \in Serving(rec[t])
           /\ count[rec[t]] \in Nat \ {0} /\ count[rec[t]] = Refs(rec[t])
           /\ t # Ticker /\ t \in Threads
           /\ count[rec[t]] = 1 =>
                  /\ Works(rec[t]) = {} /\ Watching(rec[t]) = {}
                  /\ \A u \in (Workers \cup Openers) \ {t} :
                         pc[u] \notin {"idle", "delete"} => rec[u] # rec[t]
<1> DEFINE r == rec[t]
<1>1. /\ r \in Records /\ ses[t] \in Sessions /\ session[r] = ses[t] /\ session[r] # 0
      /\ t # Ticker /\ t \in Threads
    BY Backed, Bounds DEF Leave
<1>2. t \in Opening(r) \/ t \in Serving(r)
    BY BearersAre, Bounds DEF Leave, Bears
<1>3. count[r] \in Nat \ {0} /\ count[r] = Refs(r)
    BY <1>1, <1>2, Borne
<1>4. ASSUME count[r] = 1
      PROVE  /\ Works(r) = {} /\ Watching(r) = {}
             /\ \A u \in (Workers \cup Openers) \ {t} :
                    pc[u] \notin {"idle", "delete"} => rec[u] # r
    <2>1. Works(r) = {} /\ Watching(r) = {}
        BY <1>1, <1>2, <1>4, Alone
    <2>2. ASSUME NEW u \in (Workers \cup Openers) \ {t}, pc[u] \notin {"idle", "delete"},
                 rec[u] = r
          PROVE  FALSE
        <3>1. Bears(u)
            BY <2>1, <2>2, Backed
        <3>2. u \in Opening(r) \/ u \in Serving(r)
            BY <2>2, <3>1, BearersAre, Bounds DEF Bears
        <3> QED
            BY <1>1, <1>2, <1>4, <3>2, Alone
    <2> QED
        BY <2>1, <2>2
<1> QED
    BY <1>1, <1>2, <1>3, <1>4

LEMMA LeaveKeeps ==
    ASSUME IInv, NEW t \in Workers \cup Openers, Leave(t)
    PROVE  Uses' /\ Meant' /\ Queued' /\ Events' /\ Numbers'
<1> DEFINE r == rec[t]
<1>1. /\ r \in Records /\ ses[t] \in Sessions /\ session[r] = ses[t] /\ session[r] # 0
      /\ count[r] # 0 /\ t # Ticker /\ t \in Threads
      /\ count[r] = 1 =>
             /\ Works(r) = {} /\ Watching(r) = {}
             /\ \A u \in (Workers \cup Openers) \ {t} :
                    pc[u] \notin {"idle", "delete"} => rec[u] # r
    BY LeaveDrops, Bounds
<1>2. /\ Apart(t) /\ pc'[t] = "idle" /\ pc[t] # "closed"
      /\ UNCHANGED <<event, owner, evFd, evRec, edge, batch, dead, queue, open, stream>>
    BY DEF Leave
<1>3. \A s : Ended(s)' <=> Ended(s)
    BY <1>2, Bounds DEF Ended, Apart
<1>4. CASE count[r] # 1
    <2>1. UNCHANGED <<linked, heap, alloc, fdOf, evloop, session, conns>>
        BY <1>1, <1>4, DropIs DEF IInv, Leave
    <2>2. Uses' /\ Queued' /\ Events' /\ Numbers'
        BY <1>2, <1>3, <2>1 DEF IInv, Uses, Queued, Events, Numbers, Held, Watched
    <2>3. ASSUME NEW u \in Workers \cup Openers PROVE Means(u)'
        <3>1. Means(u) /\ u # Ticker /\ u \in Threads
            BY Bounds DEF IInv, Meant
        <3> QED
            BY <1>2, <2>1, <3>1 DEF Means, Apart, InLoop, Watched
    <2> QED
        BY <2>2, <2>3 DEF Meant
<1>5. CASE count[r] = 1
    <2>1. /\ alloc' = [alloc EXCEPT ![r] = "heap"] /\ fdOf' = [fdOf EXCEPT ![r] = None]
          /\ evloop' = [evloop EXCEPT ![r] = 0] /\ session' = [session EXCEPT ![r] = 0]
          /\ conns' = conns
        BY <1>1, <1>5, DropIs DEF IInv, Leave
    <2>2. /\ alloc \in [Records -> {"none", "live", "heap", "freed"}]
          /\ evloop \in [Records -> 0..MaxConns] /\ session \in [Records -> 0..MaxConns]
          /\ fdOf \in [Records -> Fds \cup {None}] /\ conns \in 0..MaxConns
        BY DEF IInv, TypeOK, RecType, RootType
    <2>3. /\ session'[r] = 0 /\ alloc'[r] = "heap" /\ evloop'[r] = 0
          /\ \A q \in Records \ {r} : /\ session'[q] = session[q] /\ alloc'[q] = alloc[q]
                                      /\ evloop'[q] = evloop[q] /\ fdOf'[q] = fdOf[q]
        BY <1>1, <2>1, <2>2
    <2>4. Uses'
        <3>1. 0 <= conns
            BY <2>2, Bounds
        <3>2. \A q \in Records : /\ session'[q] # 0 <=> alloc'[q] = "live"
                                 /\ session'[q] <= conns'
                                 /\ evloop'[q] \in {0, session'[q]}
                                 /\ evloop'[q] # 0 => event'[session'[q]] # "none"
            BY <1>2, <2>1, <2>3, <3>1 DEF IInv, Uses
        <3>3. \A q, p \in Records : session'[q] = session'[p] /\ session'[q] # 0 => q = p
            BY <2>3 DEF IInv, Uses
        <3> QED
            BY <3>2, <3>3 DEF Uses
    <2>5. Meant'
        <3>1. ASSUME NEW u \in Workers \cup Openers PROVE Means(u)'
            <4>1. Means(u) /\ u # Ticker /\ u \in Threads
                BY Bounds DEF IInv, Meant
            <4>2. CASE u = t
                BY <1>2, <4>2 DEF Means
            <4>3. CASE u # t /\ pc[u] \notin {"idle", "delete"}
                <5>1. rec[u] # r /\ rec[u] \in Records
                    BY <1>1, <1>5, <4>1, <4>3 DEF Means
                <5> QED
                    BY <1>2, <2>3, <4>1, <4>3, <5>1 DEF Means, Apart, InLoop, Watched
            <4>4. CASE u # t /\ pc[u] \in {"idle", "delete"}
                BY <1>2, <4>1, <4>4 DEF Means, Apart
            <4> QED
                BY <4>2, <4>3, <4>4
        <3> QED
            BY <3>1 DEF Meant
    <2>6. Queued'
        <3>1. \A w \in Workers : \A i \in DOMAIN queue[w] :
                  queue[w][i][2] # r /\ queue[w][i][2] \in Records
            <4> SUFFICES ASSUME NEW w \in Workers, NEW i \in DOMAIN queue[w]
                         PROVE  queue[w][i][2] # r /\ queue[w][i][2] \in Records
                OBVIOUS
            <4>1. queue[w] \in Seq({"connect", "input"} \X Records \X Sessions)
                BY DEF IInv, TypeOK, PoolType
            <4>2. queue[w][i] \in {"connect", "input"} \X Records \X Sessions
                BY <4>1
            <4>3. <<w, i>> \notin Works(r)
                BY <1>1, <1>5
            <4> QED
                BY <4>2, <4>3 DEF Works
        <3> QED
            BY <1>2, <2>3, <3>1 DEF IInv, Queued
    <2>7. \A s \in Sessions : Watched(s) => evRec[s] \in Records \ {r}
        BY <1>1, <1>5 DEF IInv, Events, Watching, Watched
    <2>8. Events'
        <3>1. \A s \in Sessions :
                  /\ event'[s] # "none" => s <= conns'
                  /\ edge'[s] # {} => event'[s] = "armed"
                  /\ Watched(s)' => /\ owner'[s] \in Workers
                                    /\ evRec'[s] \in Records /\ session'[evRec'[s]] = s
            BY <1>2, <2>1, <2>3, <2>7 DEF IInv, Events, Watched
        <3> QED
            BY <1>2, <3>1 DEF IInv, Events
    <2>9. Numbers'
        <3>1. \A q \in Records : Held(q)' => q # r /\ Held(q)
            BY <1>2, <1>3, <2>3 DEF Held
        <3>2. \A q \in Records : Held(q)' => fdOf'[q] \in open' /\ stream'[fdOf'[q]] = session'[q]
            BY <1>2, <2>3, <3>1 DEF IInv, Numbers
        <3>3. \A s \in Sessions : Watched(s)' => evFd'[s] = fdOf'[evRec'[s]]
            BY <1>2, <2>3, <2>7 DEF IInv, Numbers, Watched
        <3> QED
            BY <1>2, <3>2, <3>3 DEF IInv, Numbers
    <2> QED
        BY <2>4, <2>5, <2>6, <2>8, <2>9
<1> QED
    BY <1>4, <1>5

-----------------------------------------------------------------------------
(* The free list and the delete lists are pushed and popped at their heads. *)
LEMMA PushFront ==
    ASSUME NEW S, NEW s \in Seq(S), NEW e \in S
    PROVE  /\ Range(<<e>> \o s) = {e} \cup Range(s)
           /\ IsInjective(s) /\ e \notin Range(s) => IsInjective(<<e>> \o s)
           /\ Len(<<e>> \o s) = Len(s) + 1 /\ <<e>> \o s # <<>> /\ Head(<<e>> \o s) = e
<1> DEFINE r == <<e>> \o s
<1>1. /\ Len(s) \in Nat /\ DOMAIN s = 1 .. Len(s)
      /\ DOMAIN r = 1 .. Len(s) + 1
      /\ r[1] = e /\ \A i \in 1 .. Len(s) : r[i + 1] = s[i]
    BY LenProperties
<1> HIDE DEF r
<1>2. \A i \in DOMAIN r \ {1} : i - 1 \in DOMAIN s /\ r[i] = s[i - 1]
    <2> SUFFICES ASSUME NEW i \in DOMAIN r, i # 1
                 PROVE  i - 1 \in DOMAIN s /\ r[i] = s[i - 1]
        OBVIOUS
    <2>1. i - 1 \in 1 .. Len(s) /\ (i - 1) + 1 = i
        BY <1>1
    <2> QED
        BY <1>1, <2>1
<1>3. Range(r) = {e} \cup Range(s)
    <2>1. Range(r) \subseteq {e} \cup Range(s)
        BY <1>1, <1>2 DEF Range
    <2>2. \A i \in DOMAIN s : i + 1 \in DOMAIN r
        BY <1>1
    <2>3. {e} \cup Range(s) \subseteq Range(r)
        BY <1>1, <2>2 DEF Range
    <2> QED
        BY <2>1, <2>3
<1>4. ASSUME IsInjective(s), e \notin Range(s) PROVE IsInjective(r)
    <2> SUFFICES ASSUME NEW i \in DOMAIN r, NEW j \in DOMAIN r, r[i] = r[j] PROVE i = j
        BY DEF IsInjective
    <2>1. CASE i = 1 \/ j = 1
        BY <1>1, <1>2, <1>4, <2>1 DEF Range
    <2>2. CASE i # 1 /\ j # 1
        <3>1. i - 1 = j - 1
            BY <1>1, <1>2, <1>4, <2>2 DEF IsInjective
        <3> QED
            BY <1>1, <3>1
    <2> QED
        BY <2>1, <2>2
<1>5. Len(r) = Len(s) + 1 /\ r # <<>> /\ Head(r) = e
    BY DEF r
<1> QED
    BY <1>3, <1>4, <1>5 DEF r

LEMMA PopFront ==
    ASSUME NEW S, NEW s \in Seq(S), s # <<>>, IsInjective(s)
    PROVE  /\ Head(s) \in Range(s)
           /\ Range(Tail(s)) = Range(s) \ {Head(s)}
           /\ IsInjective(Tail(s)) /\ Len(Tail(s)) = Len(s) - 1
<1> DEFINE r == Tail(s)
<1>1. /\ Len(s) \in Nat \ {0} /\ DOMAIN s = 1 .. Len(s)
      /\ DOMAIN r = 1 .. Len(s) - 1
      /\ Head(s) = s[1] /\ \A i \in 1 .. Len(s) - 1 : r[i] = s[i + 1]
    BY EmptySeq, LenProperties
<1>2. \A i \in 2 .. Len(s) : i - 1 \in 1 .. Len(s) - 1 /\ s[i] = r[i - 1]
    BY <1>1
<1> HIDE DEF r
<1>3. Head(s) \in Range(s)
    BY <1>1 DEF Range
<1>4. Range(r) \subseteq Range(s) \ {Head(s)}
    BY <1>1 DEF Range, IsInjective
<1>5. Range(s) \ {Head(s)} \subseteq Range(r)
    <2> SUFFICES ASSUME NEW i \in 1 .. Len(s), s[i] # Head(s) PROVE s[i] \in Range(r)
        BY <1>1 DEF Range
    <2>1. i \in 2 .. Len(s)
        BY <1>1
    <2> QED
        BY <1>1, <1>2, <2>1 DEF Range
<1>6. IsInjective(r)
    BY <1>1 DEF IsInjective
<1>7. Len(r) = Len(s) - 1
    BY EmptySeq, LenProperties DEF r
<1> QED
    BY <1>3, <1>4, <1>5, <1>6, <1>7 DEF r

LEMMA DropLists ==
    ASSUME IInv, NEW r \in Records, session[r] # 0, count[r] # 0, DropRef(r)
    PROVE  Lists'
<1>1. /\ heap \in Seq(Records) /\ total \in Nat
      /\ alloc \in [Records -> {"none", "live", "heap", "freed"}]
      /\ alloc[r] = "live"
    BY DEF IInv, TypeOK, RootType, RecType, Uses
<1>2. /\ linked = {q \in Records : alloc[q] = "live"} /\ IsFiniteSet(linked)
      /\ Range(heap) = {q \in Records : alloc[q] = "heap"} /\ IsInjective(heap)
      /\ total = Cardinality(linked) + Len(heap)
    BY DEF IInv, Lists
<1>3. CASE count[r] # 1
    <2>1. UNCHANGED <<linked, heap, alloc, total>>
        BY <1>3, DropIs DEF IInv
    <2> QED
        BY <1>2, <2>1 DEF Lists
<1>4. CASE count[r] = 1
    <2>1. /\ linked' = linked \ {r} /\ heap' = <<r>> \o heap
          /\ alloc' = [alloc EXCEPT ![r] = "heap"] /\ total' = total
        BY <1>4, DropIs DEF IInv
    <2>2. /\ alloc'[r] = "heap" /\ \A q \in Records \ {r} : alloc'[q] = alloc[q]
        BY <1>1, <2>1
    <2>3. /\ Range(heap') = {r} \cup Range(heap) /\ IsInjective(heap')
          /\ Len(heap') = Len(heap) + 1
        BY <1>1, <1>2, <2>1, PushFront
    <2>4. linked' = {q \in Records : alloc'[q] = "live"}
        BY <1>2, <2>1, <2>2
    <2>5. Range(heap') = {q \in Records : alloc'[q] = "heap"}
        BY <1>2, <2>2, <2>3
    <2>6. IsFiniteSet(linked') /\ Cardinality(linked') = Cardinality(linked) - 1
          /\ Cardinality(linked) \in Nat
        BY <1>1, <1>2, <2>1, FS_RemoveElement, FS_CardinalityType
    <2>7. Len(heap) \in Nat
        BY <1>1
    <2>8. total' = Cardinality(linked') + Len(heap')
        BY <1>2, <2>1, <2>3, <2>6, <2>7
    <2> QED
        BY <2>3, <2>4, <2>5, <2>6, <2>8 DEF Lists
<1> QED
    BY <1>3, <1>4

LEMMA LeaveRefs ==
    ASSUME IInv, NEW t \in Workers \cup Openers, Leave(t)
    PROVE  Referred'
<1>0. PICK r \in Records : r = rec[t]
    BY LeaveDrops
<1>1. /\ session[r] # 0 /\ (t \in Opening(r) \/ t \in Serving(r))
      /\ count[r] \in Nat \ {0} /\ count[r] = Refs(r)
    BY <1>0, LeaveDrops, Bounds
<1>2. /\ Apart(t) /\ ~Bears(t)' /\ Bears(t)
      /\ UNCHANGED <<event, evRec, queue>>
    BY Bounds DEF Leave, Bears
<1>3. \A q : Works(q)' = Works(q) /\ Watching(q)' = Watching(q)
    BY <1>2 DEF Works, Watching
<1>4. \A q : /\ Opening(q)' = Opening(q) \ {t} /\ Serving(q)' = Serving(q) \ {t}
    <2> TAKE q
    <2>1. \A u \in (Workers \cup Openers) \ {t} : rec'[u] = rec[u] /\ (Bears(u)' <=> Bears(u))
        BY <1>2, Bounds DEF Apart, Bears
    <2>2. /\ Opening(q)' = {u \in Openers : rec'[u] = q /\ Bears(u)'}
          /\ Serving(q)' = {w \in Workers : rec'[w] = q /\ Bears(w)'}
        BY Bounds DEF Opening, Serving, Bears
    <2> QED
        BY <1>2, <2>1, <2>2, BearersAre
<1>5. \A q \in Records \ {r} : Refs(q)' = Refs(q)
    <2> TAKE q \in Records \ {r}
    <2>1. t \notin Opening(q) /\ t \notin Serving(q)
        BY <1>0 DEF Opening, Serving
    <2>2. Opening(q)' = Opening(q) /\ Serving(q)' = Serving(q)
        BY <1>4, <2>1
    <2> QED
        BY <1>3, <2>2 DEF Refs
<1>6. Refs(r)' = count[r] - 1
    <2>1. /\ IsFiniteSet(Works(r)) /\ IsFiniteSet(Opening(r))
          /\ IsFiniteSet(Watching(r)) /\ IsFiniteSet(Serving(r))
          /\ Cardinality(Works(r)) \in Nat /\ Cardinality(Opening(r)) \in Nat
          /\ Cardinality(Watching(r)) \in Nat /\ Cardinality(Serving(r)) \in Nat
        BY <1>1, RefSets
    <2>2. t \in Opening(r) => t \notin Serving(r)
        BY Bounds DEF Opening, Serving
    <2>3. /\ Refs(r)' = Cardinality(Works(r)') + Cardinality(Opening(r)')
                        + Cardinality(Watching(r)') + Cardinality(Serving(r)')
          /\ Works(r)' = Works(r) /\ Watching(r)' = Watching(r)
        BY <1>3 DEF Refs
    <2>4. \A a, b, c, d, n \in Nat : n = a + b + c + d =>
              a + (b - 1) + c + d = n - 1 /\ a + b + c + (d - 1) = n - 1
        OBVIOUS
    <2>5. \A S : IsFiniteSet(S) /\ t \in S => Cardinality(S \ {t}) = Cardinality(S) - 1
        BY FS_RemoveElement
    <2>6. count[r] = Cardinality(Works(r)) + Cardinality(Opening(r))
                     + Cardinality(Watching(r)) + Cardinality(Serving(r))
        BY <1>1 DEF Refs
    <2>7. CASE t \in Opening(r)
        <3>1. /\ Cardinality(Opening(r)') = Cardinality(Opening(r)) - 1
              /\ Serving(r)' = Serving(r)
            BY <1>4, <2>1, <2>2, <2>5, <2>7
        <3> QED
            BY <1>1, <2>1, <2>3, <2>4, <2>6, <3>1
    <2>8. CASE t \in Serving(r)
        <3>1. /\ Cardinality(Serving(r)') = Cardinality(Serving(r)) - 1
              /\ Opening(r)' = Opening(r)
            BY <1>4, <2>1, <2>2, <2>5, <2>8
        <3> QED
            BY <1>1, <2>1, <2>3, <2>4, <2>6, <3>1
    <2> QED
        BY <1>1, <2>7, <2>8
<1>7. count' = [count EXCEPT ![r] = count[r] - 1] /\ count \in [Records -> Nat]
    BY <1>0, <1>1, DropIs DEF IInv, Leave, TypeOK, RecType
<1>8. \A q \in Records : session'[q] # 0 =>
          /\ session'[q] = session[q] /\ count'[q] = Refs(q)'
          /\ event[session[q]] = "none" => count'[q] = 1
    <2>1. CASE count[r] = 1
        <3>1. session' = [session EXCEPT ![r] = 0] /\ session \in [Records -> 0..MaxConns]
            BY <1>0, <1>1, <2>1, DropIs DEF IInv, Leave, TypeOK, RecType
        <3> QED
            BY <1>1, <1>5, <1>7, <3>1 DEF IInv, Referred
    <2>2. CASE count[r] # 1
        <3>1. session' = session
            BY <1>0, <1>1, <2>2, DropIs DEF IInv, Leave
        <3>2. event[session[r]] # "none"
            BY <1>1, <2>2 DEF IInv, Referred
        <3> QED
            BY <1>1, <1>5, <1>6, <1>7, <3>1, <3>2 DEF IInv, Referred
    <2> QED
        BY <2>1, <2>2
<1> QED
    BY <1>2, <1>3, <1>8 DEF IInv, Referred

LEMMA Leaves ==
    ASSUME IInv, NEW t \in Threads,
           \/ RunFails(t)
           \/ t \in Workers /\ (ConnectRefused(t) \/ InputDestroy(t))
    PROVE  /\ t \in Workers \cup Openers /\ Leave(t) /\ Placed(t)'
           /\ UNCHANGED <<holder, loopLock>>
<1>1. TypeOK /\ Placed(t)
    BY DEF IInv, Shape
<1>2. CASE RunFails(t)
    <2>1. t \in Workers \cup Openers /\ t # Ticker /\ pc[t] = "push"
        BY <1>1, <1>2, Bounds DEF RunFails, Placed, Closing
    <2>2. /\ UNCHANGED busy /\ Goto(t, "idle") /\ DropRef(rec[t])
          /\ UNCHANGED <<event, owner, evFd, evRec, edge, batch, dead, queue, open, stream>>
          /\ UNCHANGED <<holder, loopLock>>
        BY <1>2 DEF RunFails, eventVars, sockVars
    <2>3. Apart(t) /\ pc'[t] = "idle" /\ rec'[t] = rec[t]
        BY <1>1, <2>2, GotoIs
    <2>4. t \in Workers => ~busy[t] /\ ~busy'[t]
        BY <1>1, <2>1, <2>2 DEF Placed, InWork, Closing
    <2>5. Placed(t)'
        BY <1>1, <2>1, <2>3, <2>4 DEF Placed, InWork, Closing
    <2> QED
        BY <2>1, <2>2, <2>3, <2>4, <2>5 DEF Leave, Bears
<1>3. CASE t \in Workers /\ (ConnectRefused(t) \/ InputDestroy(t))
    <2>1. /\ t \in Workers /\ t # Ticker /\ pc[t] \in {"connect", "destroy"} /\ t \notin Openers
        BY <1>3, Bounds DEF ConnectRefused, InputDestroy
    <2>2. /\ WorkDone(t) /\ DropRef(rec[t])
          /\ UNCHANGED <<event, owner, evFd, evRec, edge, batch, dead, queue, open, stream>>
          /\ UNCHANGED <<holder, loopLock>>
        BY <1>3 DEF ConnectRefused, InputDestroy, eventVars, sockVars
    <2>3. Apart(t) /\ pc'[t] = "idle" /\ rec'[t] = rec[t] /\ ~busy'[t]
        BY <1>1, <2>1, <2>2, GotoIs DEF WorkDone
    <2>4. busy[t]
        BY <1>1, <2>1 DEF Placed, InWork
    <2>5. Placed(t)'
        BY <1>1, <2>1, <2>3 DEF Placed, InWork, Closing
    <2> QED
        BY <2>1, <2>2, <2>3, <2>4, <2>5 DEF Leave, Bears
<1> QED
    BY <1>2, <1>3

-----------------------------------------------------------------------------
(* CLOSE has been called back: the event is freed and drops its reference. *)
LEMMA DestroyIs ==
    ASSUME IInv, NEW w \in Workers, CloseDestroy(w)
    PROVE  \E r \in Records, s \in Sessions :
               /\ r = rec[w] /\ s = ses[w] /\ session[r] = s /\ session[r] # 0
               /\ Watched(s) /\ owner[s] = w /\ evRec[s] = r /\ s \in Watching(r)
               /\ event[s] = "deleted" /\ dead[w] # <<>> /\ Head(dead[w]) = s
               /\ count[r] \in Nat \ {0} /\ count[r] = Refs(r)
               /\ \A u \in (Workers \cup Openers) \ {w} :
                      pc[u] \notin {"idle", "delete"} /\ ses[u] = s => Bears(u)
               /\ count[r] = 1 =>
                      /\ Works(r) = {} /\ Watching(r) = {s}
                      /\ \A u \in (Workers \cup Openers) \ {w} :
                             pc[u] \notin {"idle", "delete"} => rec[u] # r
<1>0. PICK r \in Records, s \in Sessions : r = rec[w] /\ s = ses[w] /\ session[r] = s
    BY AtWork, Bounds DEF CloseDestroy
<1>1. pc[w] = "closed" /\ w \in Threads /\ session[r] # 0
    BY <1>0, Bounds DEF CloseDestroy
<1>2. Watched(s) /\ owner[s] = w
    BY <1>0, <1>1 DEF IInv, Meant, Means, InLoop
<1>3. evRec[s] = r
    BY <1>0, <1>1, <1>2 DEF IInv, Events, Uses
<1>4. s \in Watching(r)
    BY <1>2, <1>3 DEF Watching, Watched
<1>5. dead[w] # <<>> /\ Head(dead[w]) = s /\ event[s] = "deleted"
    <2>1. dead[w] # <<>> /\ Head(dead[w]) = s
        BY <1>0, <1>1 DEF IInv, Loops
    <2>2. s \in Range(dead[w])
        BY <2>1, PopFront DEF IInv, TypeOK, EventType, Events
    <2> QED
        BY <2>1, <2>2 DEF IInv, Events
<1>6. count[r] \in Nat \ {0} /\ count[r] = Refs(r)
    BY <1>1, <1>4, Borne
<1>7. \A u \in (Workers \cup Openers) \ {w} :
          pc[u] \notin {"idle", "delete"} /\ ses[u] = s => Bears(u)
    BY <1>2, Backed
<1>8. ASSUME count[r] = 1
      PROVE  /\ Works(r) = {} /\ Watching(r) = {s}
             /\ \A u \in (Workers \cup Openers) \ {w} :
                    pc[u] \notin {"idle", "delete"} => rec[u] # r
    <2>1. Works(r) = {} /\ Opening(r) = {} /\ Serving(r) = {}
        BY <1>1, <1>4, <1>8, Alone
    <2>2. Watching(r) = {s}
        BY <1>1, <1>4, <1>8, Alone
    <2>3. ASSUME NEW u \in (Workers \cup Openers) \ {w}, pc[u] \notin {"idle", "delete"},
                 rec[u] = r
          PROVE  FALSE
        <3>1. ses[u] = s
            BY <1>0, <2>3, Backed
        <3>2. u \in Opening(r) \/ u \in Serving(r)
            BY <1>7, <2>3, <3>1, BearersAre, Bounds DEF Bears
        <3> QED
            BY <2>1, <3>2
    <2> QED
        BY <2>1, <2>2, <2>3
<1> QED
    <2> WITNESS r \in Records, s \in Sessions
    <2> QED
        BY <1>0, <1>1, <1>2, <1>3, <1>4, <1>5, <1>6, <1>7, <1>8

LEMMA DestroyKeeps ==
    ASSUME IInv, NEW w \in Workers, CloseDestroy(w)
    PROVE  Shape' /\ Uses' /\ Meant' /\ Queued' /\ Events' /\ Numbers' /\ Referred' /\ Lists'
<1>0. PICK r \in Records, s \in Sessions :
          /\ r = rec[w] /\ s = ses[w] /\ session[r] = s /\ session[r] # 0
          /\ Watched(s) /\ owner[s] = w /\ evRec[s] = r /\ s \in Watching(r)
          /\ event[s] = "deleted" /\ dead[w] # <<>> /\ Head(dead[w]) = s
          /\ count[r] \in Nat \ {0} /\ count[r] = Refs(r)
          /\ \A u \in (Workers \cup Openers) \ {w} :
                 pc[u] \notin {"idle", "delete"} /\ ses[u] = s => Bears(u)
          /\ count[r] = 1 =>
                 /\ Works(r) = {} /\ Watching(r) = {s}
                 /\ \A u \in (Workers \cup Openers) \ {w} :
                        pc[u] \notin {"idle", "delete"} => rec[u] # r
    BY DestroyIs
<1>1. /\ session[r] # 0 /\ Watched(s) /\ owner[s] = w /\ evRec[s] = r /\ s \in Watching(r)
      /\ event[s] = "deleted" /\ dead[w] # <<>> /\ Head(dead[w]) = s
      /\ count[r] \in Nat \ {0} /\ count[r] = Refs(r) /\ w \in Threads /\ w # Ticker
      /\ pc[w] = "closed" /\ w \notin Openers
    BY <1>0, Bounds DEF CloseDestroy
<1>3. count[r] = 1 =>
          /\ Works(r) = {} /\ Watching(r) = {s}
          /\ \A u \in (Workers \cup Openers) \ {w} :
                 pc[u] \notin {"idle", "delete"} => rec[u] # r
    BY <1>0
<1>4. /\ DropRef(r) /\ event' = [event EXCEPT ![s] = "freed"]
      /\ dead' = [dead EXCEPT ![w] = Tail(@)] /\ Goto(w, "delete") /\ conns' = conns
      /\ UNCHANGED <<owner, evFd, evRec, edge, batch, queue, busy, open, stream>>
    BY <1>0 DEF CloseDestroy, DropRef, poolVars, sockVars
<1>5. /\ Apart(w) /\ pc'[w] = "delete"
    BY <1>1, <1>4, GotoIs DEF IInv
<1>6. /\ alloc \in [Records -> {"none", "live", "heap", "freed"}]
      /\ evloop \in [Records -> 0..MaxConns] /\ session \in [Records -> 0..MaxConns]
      /\ fdOf \in [Records -> Fds \cup {None}] /\ conns \in 0..MaxConns
      /\ event \in [Sessions -> {"none", "armed", "deleted", "freed"}]
      /\ dead \in [Workers -> Seq(Sessions)] /\ count \in [Records -> Nat]
    BY DEF IInv, TypeOK, RecType, RootType, EventType
<1>7. event'[s] = "freed" /\ \A x \in Sessions \ {s} : event'[x] = event[x]
    BY <1>4, <1>6
<1>8. \A q \in Records \ {r} : /\ session'[q] = session[q] /\ alloc'[q] = alloc[q]
                               /\ evloop'[q] = evloop[q] /\ fdOf'[q] = fdOf[q]
                               /\ count'[q] = count[q]
    <2>1. count' = [count EXCEPT ![r] = count[r] - 1]
        BY <1>1, <1>4, DropIs DEF IInv
    <2>2. CASE count[r] = 1
        <3>1. /\ alloc' = [alloc EXCEPT ![r] = "heap"] /\ fdOf' = [fdOf EXCEPT ![r] = None]
              /\ evloop' = [evloop EXCEPT ![r] = 0] /\ session' = [session EXCEPT ![r] = 0]
            BY <1>1, <1>4, <2>2, DropIs DEF IInv
        <3> QED
            BY <1>6, <2>1, <3>1
    <2>3. CASE count[r] # 1
        <3>1. UNCHANGED <<alloc, fdOf, evloop, session>>
            BY <1>1, <1>4, <2>3, DropIs DEF IInv
        <3> QED
            BY <1>6, <2>1, <3>1
    <2> QED
        BY <2>2, <2>3
<1>9. \/ /\ count[r] = 1 /\ session'[r] = 0 /\ alloc'[r] = "heap" /\ evloop'[r] = 0
      \/ /\ count[r] # 1 /\ session'[r] = s /\ alloc'[r] = alloc[r] /\ evloop'[r] = evloop[r]
         /\ fdOf'[r] = fdOf[r]
    <2>2. CASE count[r] = 1
        <3>1. /\ alloc' = [alloc EXCEPT ![r] = "heap"] /\ evloop' = [evloop EXCEPT ![r] = 0]
              /\ session' = [session EXCEPT ![r] = 0]
            BY <1>1, <1>4, <2>2, DropIs DEF IInv
        <3> QED
            BY <1>6, <2>2, <3>1
    <2>3. CASE count[r] # 1
        BY <1>0, <1>1, <1>4, <2>3, DropIs DEF IInv
    <2> QED
        BY <2>2, <2>3
<1>10. \A q \in Records \ {r} : session[q] # s
    BY <1>0, <1>1 DEF IInv, Uses
<1>11. Shape'
    <2>1. ~busy[w]
        BY <1>1 DEF IInv, Shape, Placed, InWork, Closing
    <2>2. Placed(w)'
        BY <1>1, <1>4, <1>5, <2>1 DEF Placed, InWork, Closing
    <2> QED
        BY <1>1, <1>5, <2>2, ShapeFrom DEF IInv
<1>12. Uses'
    <2>1. 0 <= conns /\ s <= conns
        BY <1>0, <1>6, Bounds DEF IInv, Uses
    <2>2. \A q \in Records : /\ session'[q] # 0 <=> alloc'[q] = "live"
                             /\ session'[q] <= conns'
                             /\ evloop'[q] \in {0, session'[q]}
        BY <1>0, <1>4, <1>8, <1>9, <2>1 DEF IInv, Uses
    <2>3. \A q \in Records : evloop'[q] # 0 => event'[session'[q]] # "none"
        <3> TAKE q \in Records
        <3>1. CASE q = r
            BY <1>7, <1>9, <3>1
        <3>2. CASE q # r
            <4>1. evloop[q] # 0 => session[q] \in Sessions \ {s}
                BY <1>6, <1>10, <3>2, Bounds DEF IInv, Uses
            <4> QED
                BY <1>7, <1>8, <3>2, <4>1 DEF IInv, Uses
        <3> QED
            BY <3>1, <3>2
    <2>4. \A q, p \in Records : session'[q] = session'[p] /\ session'[q] # 0 => q = p
        BY <1>8, <1>9, <1>10 DEF IInv, Uses
    <2> QED
        BY <2>2, <2>3, <2>4 DEF Uses
<1>13. Meant'
    <2>1. ASSUME NEW u \in Workers \cup Openers PROVE Means(u)'
        <3>1. Means(u) /\ u # Ticker /\ u \in Threads
            BY Bounds DEF IInv, Meant
        <3>2. CASE u = w
            BY <1>5, <3>2 DEF Means
        <3>3. CASE u # w /\ pc[u] \in {"idle", "delete"}
            BY <1>5, <3>1, <3>3 DEF Means, Apart
        <3>4. CASE u # w /\ pc[u] \notin {"idle", "delete"}
            <4>1. /\ rec[u] \in Records /\ ses[u] \in Sessions /\ session[rec[u]] = ses[u]
                  /\ event[ses[u]] = "none" <=> u \in Openers \/ pc[u] = "connect"
                  /\ u \in Workers /\ InLoop(u) => Watched(ses[u]) /\ owner[ses[u]] = u
                BY <3>1, <3>4 DEF Means
            <4>2. /\ pc'[u] = pc[u] /\ rec'[u] = rec[u] /\ ses'[u] = ses[u] /\ ret'[u] = ret[u]
                BY <1>5, <3>1, <3>4 DEF Apart
            <4>3. session'[rec[u]] = session[rec[u]]
                BY <1>0, <1>3, <1>8, <1>9, <3>4, <4>1
            <4>4. event'[ses[u]] = "none" <=> event[ses[u]] = "none"
                BY <1>1, <1>7, <4>1
            <4>5. u \in Workers /\ InLoop(u) => ses[u] # s
                BY <1>1, <3>4, <4>1
            <4> QED
                BY <1>4, <1>7, <4>1, <4>2, <4>3, <4>4, <4>5 DEF Means, InLoop, Watched
        <3> QED
            BY <3>2, <3>3, <3>4
    <2> QED
        BY <2>1 DEF Meant
<1>14. Queued'
    <2>1. \A v \in Workers : \A i \in DOMAIN queue[v] :
              /\ queue[v][i][2] \in Records /\ queue[v][i][3] \in Sessions
              /\ count[r] = 1 => queue[v][i][2] # r
        <3> SUFFICES ASSUME NEW v \in Workers, NEW i \in DOMAIN queue[v]
                     PROVE  /\ queue[v][i][2] \in Records /\ queue[v][i][3] \in Sessions
                            /\ count[r] = 1 => queue[v][i][2] # r
            OBVIOUS
        <3>1. queue[v] \in Seq({"connect", "input"} \X Records \X Sessions)
            BY DEF IInv, TypeOK, PoolType
        <3>2. queue[v][i] \in {"connect", "input"} \X Records \X Sessions
            BY <3>1
        <3>3. count[r] = 1 => <<v, i>> \notin Works(r)
            BY <1>3
        <3> QED
            BY <3>2, <3>3 DEF Works
    <2>2. \A x \in Sessions : event'[x] = "none" <=> event[x] = "none"
        BY <1>1, <1>7
    <2>3. \A q \in Records : (count[r] = 1 => q # r) => session'[q] = session[q]
        BY <1>0, <1>8, <1>9
    <2> QED
        BY <1>4, <2>1, <2>2, <2>3 DEF IInv, Queued
<1>15. Events'
    <2>1. \A x \in Sessions :
              /\ event'[x] # "none" => x <= conns'
              /\ edge'[x] # {} => event'[x] = "armed"
        BY <1>1, <1>4, <1>7 DEF IInv, Events
    <2>2. \A x \in Sessions : Watched(x)' =>
              owner'[x] \in Workers /\ evRec'[x] \in Records /\ session'[evRec'[x]] = x
        <3> SUFFICES ASSUME NEW x \in Sessions, Watched(x)'
                     PROVE owner'[x] \in Workers /\ evRec'[x] \in Records /\ session'[evRec'[x]] = x
            OBVIOUS
        <3>1. x # s /\ Watched(x)
            BY <1>7 DEF Watched
        <3>2. owner[x] \in Workers /\ evRec[x] \in Records /\ session[evRec[x]] = x
            BY <3>1 DEF IInv, Events
        <3>3. evRec[x] # r
            BY <1>0, <3>1, <3>2
        <3> QED
            BY <1>4, <1>8, <3>2, <3>3
    <2>3. ASSUME NEW v \in Workers
          PROVE  /\ Range(dead'[v]) = {x \in Sessions : owner'[x] = v /\ event'[x] = "deleted"}
                 /\ IsInjective(dead'[v])
        <3>1. /\ Range(dead[v]) = {x \in Sessions : owner[x] = v /\ event[x] = "deleted"}
              /\ IsInjective(dead[v])
            BY DEF IInv, Events
        <3>2. CASE v = w
            <4>1. dead'[w] = Tail(dead[w]) /\ dead[w] \in Seq(Sessions)
                BY <1>4, <1>6
            <4>2. Range(dead'[w]) = Range(dead[w]) \ {s} /\ IsInjective(dead'[w])
                BY <1>1, <3>1, <3>2, <4>1, PopFront
            <4> QED
                BY <1>4, <1>7, <3>1, <3>2, <4>2
        <3>3. CASE v # w
            BY <1>1, <1>4, <1>6, <1>7, <3>1, <3>3
        <3> QED
            BY <3>2, <3>3
    <2> QED
        BY <2>1, <2>2, <2>3 DEF Events
<1>16. Numbers'
    <2>1. \A x : x # s => (Ended(x)' <=> Ended(x))
        <3> TAKE x
        <3>1. Ended(x)' <=> \E v \in Workers \ {w} : pc'[v] = "closed" /\ ses'[v] = x
            BY <1>5 DEF Ended
        <3>2. x # s => (Ended(x) <=> \E v \in Workers \ {w} : pc[v] = "closed" /\ ses[v] = x)
            BY <1>0 DEF Ended
        <3>3. \A v \in Workers \ {w} : pc'[v] = pc[v] /\ ses'[v] = ses[v]
            BY <1>5, Bounds DEF Apart
        <3> QED
            BY <3>1, <3>2, <3>3
    <2>2. ASSUME NEW q \in Records, Held(q)'
          PROVE  q # r /\ Held(q)
        <3>1. session'[q] # 0 /\ event'[session'[q]] # "freed" /\ ~Ended(session[q])'
            BY <2>2 DEF Held
        <3>2. q # r
            BY <1>7, <1>9, <3>1
        <3>3. session'[q] = session[q] /\ session[q] \in Sessions \ {s}
            BY <1>6, <1>8, <1>10, <3>1, <3>2, Bounds
        <3>4. PICK x \in Sessions \ {s} : x = session[q]
            BY <3>3
        <3>5. ~Ended(x)'
            BY <3>1, <3>2, <3>3, <3>4 DEF Ended
        <3> QED
            BY <1>7, <2>1, <3>1, <3>2, <3>3, <3>4, <3>5 DEF Held
    <2>3. \A q \in Records : Held(q)' => fdOf'[q] \in open' /\ stream'[fdOf'[q]] = session'[q]
        BY <1>4, <1>8, <2>2 DEF IInv, Numbers
    <2>4. \A x \in Sessions : Watched(x)' => evFd'[x] = fdOf'[evRec'[x]]
        <3> SUFFICES ASSUME NEW x \in Sessions, Watched(x)' PROVE evFd'[x] = fdOf'[evRec'[x]]
            OBVIOUS
        <3>1. x # s /\ Watched(x)
            BY <1>7 DEF Watched
        <3>2. evRec[x] \in Records /\ session[evRec[x]] = x
            BY <3>1 DEF IInv, Events
        <3>3. evRec[x] # r
            BY <1>0, <3>1, <3>2
        <3> QED
            BY <1>4, <1>8, <3>1, <3>2, <3>3 DEF IInv, Numbers
    <2> QED
        BY <1>4, <2>3, <2>4 DEF IInv, Numbers
<1>17. Referred'
    <2>1. \A t \in Workers \cup Openers : Bearing(t)
        <3> TAKE t \in Workers \cup Openers
        <3>1. t # Ticker /\ t \in Threads
            BY Bounds
        <3>2. CASE t # w
            BY <1>5, <3>1, <3>2 DEF Bearing, Bears, Apart
        <3>3. CASE t = w
            <4>1. ~busy[w]
                BY <1>1 DEF IInv, Shape, Placed, InWork, Closing
            <4> QED
                BY <1>1, <1>4, <1>5, <3>3, <4>1 DEF Bearing, Bears
        <3> QED
            BY <3>2, <3>3
    <2>2. \A q : Works(q)' = Works(q)
        BY <1>4 DEF Works
    <2>3. \A q : Opening(q)' = Opening(q) /\ Serving(q)' = Serving(q)
        <3> TAKE q
        <3>1. /\ Opening(q)' = {t \in Openers : rec'[t] = q /\ Bears(t)'}
              /\ Serving(q)' = {v \in Workers : rec'[v] = q /\ Bears(v)'}
            BY Bounds DEF Opening, Serving, Bears
        <3> QED
            BY <2>1, <3>1, BearersAre DEF Bearing
    <2>4. Watching(r)' = Watching(r) \ {s}
        BY <1>1, <1>4, <1>7 DEF Watching
    <2>5. \A q \in Records \ {r} : Watching(q)' = Watching(q)
        BY <1>1, <1>4, <1>7 DEF Watching
    <2>6. \A q \in Records \ {r} : Refs(q)' = Refs(q)
        BY <2>2, <2>3, <2>5 DEF Refs
    <2>7. Refs(r)' = count[r] - 1
        <3>1. /\ IsFiniteSet(Watching(r))
              /\ Cardinality(Works(r)) \in Nat /\ Cardinality(Opening(r)) \in Nat
              /\ Cardinality(Watching(r)) \in Nat /\ Cardinality(Serving(r)) \in Nat
            BY RefSets
        <3>2. Cardinality(Watching(r) \ {s}) = Cardinality(Watching(r)) - 1
            BY <1>1, <3>1, FS_RemoveElement
        <3>3. /\ Refs(r)' = Cardinality(Works(r)') + Cardinality(Opening(r)')
                            + Cardinality(Watching(r)') + Cardinality(Serving(r)')
              /\ count[r] = Cardinality(Works(r)) + Cardinality(Opening(r))
                            + Cardinality(Watching(r)) + Cardinality(Serving(r))
            BY <1>1 DEF Refs
        <3>4. \A a, b, c, d, n \in Nat :
                  n = a + b + c + d => a + b + (c - 1) + d = n - 1
            OBVIOUS
        <3> QED
            BY <1>1, <2>2, <2>3, <2>4, <3>1, <3>2, <3>3, <3>4
    <2>8. count' = [count EXCEPT ![r] = count[r] - 1]
        BY <1>1, <1>4, DropIs DEF IInv
    <2>9. \A q \in Records : session'[q] # 0 =>
              count'[q] = Refs(q)' /\ (event'[session'[q]] = "none" => count'[q] = 1)
        <3> TAKE q \in Records
        <3>1. CASE q = r
            BY <1>0, <1>6, <1>7, <1>9, <2>7, <2>8, <3>1
        <3>2. CASE q # r
            <4>1. session[q] # 0 => session[q] \in Sessions \ {s}
                BY <1>6, <1>10, <3>2, Bounds
            <4> QED
                BY <1>7, <1>8, <2>6, <3>2, <4>1 DEF IInv, Referred
        <3> QED
            BY <3>1, <3>2
    <2> QED
        BY <2>2, <2>9 DEF IInv, Referred
<1>18. Lists'
    BY <1>1, <1>4, DropLists
<1> QED
    BY <1>11, <1>12, <1>13, <1>14, <1>15, <1>16, <1>17, <1>18

-----------------------------------------------------------------------------
(* The event is deleted: its loop will close it. *)
LEMMA DelKeeps ==
    ASSUME IInv, NEW t \in Threads, CloseDel(t)
    PROVE  Shape' /\ Uses' /\ Meant' /\ Queued' /\ Events' /\ Numbers' /\ Referred' /\ Lists'
<1>0. PICK s \in Sessions, w \in Workers : s = ses[t] /\ w = owner[s] /\ event[s] = "armed"
    BY DelIs
<1>1. /\ pc[t] = "del" /\ Goto(t, "forget") /\ UNCHANGED busy
      /\ event' = [event EXCEPT ![s] = "deleted"] /\ edge' = [edge EXCEPT ![s] = {}]
      /\ dead' = [dead EXCEPT ![w] = <<s>> \o @] /\ evloop' = evloop
      /\ UNCHANGED <<linked, heap, total, conns, alloc, count, fdOf, session, owner,
                     evFd, evRec, queue, open, stream>>
    BY <1>0 DEF CloseDel, PushDead, rootVars, recVars, poolVars, sockVars
<1>2. /\ Apart(t) /\ pc'[t] = "forget" /\ rec'[t] = rec[t] /\ ses'[t] = ses[t]
      /\ ret'[t] = ret[t]
    BY <1>1, GotoIs DEF IInv
<1>3. Placed(t) /\ t \notin Openers /\ (t \in Workers => t # Ticker)
    BY <1>1, Bounds DEF IInv, Shape, Placed
<1>4. Shape'
    <2>1. Placed(t)'
        BY <1>1, <1>2, <1>3 DEF Placed, InWork, Closing
    <2> QED
        BY <1>2, <2>1, ShapeFrom DEF IInv
<1>5. /\ event \in [Sessions -> {"none", "armed", "deleted", "freed"}]
      /\ edge \in [Sessions -> SUBSET {"read", "error"}]
      /\ dead \in [Workers -> Seq(Sessions)]
    BY DEF IInv, TypeOK, EventType
<1>6. /\ event'[s] = "deleted" /\ \A x \in Sessions \ {s} : event'[x] = event[x]
      /\ edge'[s] = {} /\ \A x \in Sessions \ {s} : edge'[x] = edge[x]
    BY <1>1, <1>5
<1>7. Moves(t)
    <2>1. Onward(t) \/ t = Ticker
        BY <1>1, <1>2, <1>3, Bounds DEF Onward, Bears, InLoop, Closing
    <2> QED
        BY <1>0, <1>1, <1>2, <1>6, <2>1 DEF Moves
<1>8. Events'
    <2>1. \A x \in Sessions : Watched(x)' <=> Watched(x)
        BY <1>0, <1>6 DEF Watched
    <2>2. \A x \in Sessions :
              /\ event'[x] # "none" => x <= conns'
              /\ edge'[x] # {} => event'[x] = "armed"
        BY <1>0, <1>1, <1>6 DEF IInv, Events
    <2>3. ASSUME NEW v \in Workers
          PROVE  /\ Range(dead'[v]) = {x \in Sessions : owner'[x] = v /\ event'[x] = "deleted"}
                 /\ IsInjective(dead'[v])
        <3>1. /\ Range(dead[v]) = {x \in Sessions : owner[x] = v /\ event[x] = "deleted"}
              /\ IsInjective(dead[v])
            BY DEF IInv, Events
        <3>2. CASE v = w
            <4>1. dead'[w] = <<s>> \o dead[w] /\ dead[w] \in Seq(Sessions)
                BY <1>1, <1>5
            <4>2. Range(dead'[w]) = {s} \cup Range(dead[w]) /\ IsInjective(dead'[w])
                BY <1>0, <3>1, <3>2, <4>1, PushFront
            <4> QED
                BY <1>0, <1>1, <1>6, <3>1, <3>2, <4>2
        <3>3. CASE v # w
            BY <1>0, <1>1, <1>5, <1>6, <3>1, <3>3
        <3> QED
            BY <3>2, <3>3
    <2> QED
        BY <1>1, <2>1, <2>2, <2>3 DEF IInv, Events
<1> QED
    BY <1>4, <1>7, <1>8, MovesKeep

(* The thread's reference becomes the work's. *)
LEMMA PushKeeps ==
    ASSUME IInv, NEW t \in Threads, RunPush(t)
    PROVE  Shape' /\ Uses' /\ Meant' /\ Queued' /\ Events' /\ Numbers' /\ Referred' /\ Lists'
<1>0. pc[t] = "push" /\ t \in Workers \cup Openers /\ t # Ticker
    BY Bounds DEF IInv, Shape, Placed, Closing, RunPush
<1>1. PICK r \in Records, s \in Sessions : r = rec[t] /\ s = ses[t] /\ session[r] = s
    BY <1>0, Backed
<1> DEFINE kind == IF t \in Workers THEN "input" ELSE "connect"
           x    == <<kind, r, s>>
<1>2. PICK w \in Workers : queue' = [queue EXCEPT ![w] = Append(@, x)]
    BY <1>1 DEF RunPush
<1>3. /\ Goto(t, "idle") /\ UNCHANGED busy /\ UNCHANGED evloop
      /\ UNCHANGED <<linked, heap, total, conns, alloc, count, fdOf, session, event, owner>>
      /\ UNCHANGED <<evFd, evRec, edge, batch, dead, open, stream>>
    BY DEF RunPush, rootVars, recVars, eventVars, sockVars
<1>4. Apart(t) /\ pc'[t] = "idle" /\ rec'[t] = rec[t]
    BY <1>3, GotoIs DEF IInv
<1>5. t \in Workers => ~busy[t]
    BY <1>0, Bounds DEF IInv, Shape, Placed, InWork, Closing
<1>6. Shape'
    <2>1. Placed(t)'
        BY <1>0, <1>3, <1>4, <1>5 DEF Placed, InWork, Closing
    <2> QED
        BY <1>4, <2>1, ShapeFrom DEF IInv
<1>7. Uses' /\ Events' /\ Lists'
    BY <1>3 DEF IInv, Uses, Events, Lists, Watched
<1>8. Meant'
    <2>1. ASSUME NEW u \in Workers \cup Openers PROVE Means(u)'
        <3>1. Means(u) /\ u # Ticker /\ u \in Threads
            BY Bounds DEF IInv, Meant
        <3>2. CASE u # t
            BY <1>3, <1>4, <3>1, <3>2 DEF Means, Apart, InLoop, Watched
        <3>3. CASE u = t
            BY <1>4, <3>3 DEF Means
        <3> QED
            BY <3>2, <3>3
    <2> QED
        BY <2>1 DEF Meant
<1>9. Numbers'
    <2>1. \A y : Ended(y)' <=> Ended(y)
        BY <1>0, <1>4, Bounds DEF Ended, Apart
    <2> QED
        BY <1>3, <2>1 DEF IInv, Numbers, Held, Watched
<1>10. /\ queue[w] \in Seq({"connect", "input"} \X Records \X Sessions)
       /\ queue \in [Workers -> Seq({"connect", "input"} \X Records \X Sessions)]
       /\ x \in {"connect", "input"} \X Records \X Sessions
       /\ x[1] = kind /\ x[2] = r /\ x[3] = s
    BY DEF IInv, TypeOK, PoolType
<1> DEFINE n == Len(queue[w]) + 1
<1> HIDE DEF x
<1>11. /\ n \in Nat \ {0} /\ DOMAIN queue[w] = 1 .. n - 1
       /\ DOMAIN queue'[w] = 1 .. n /\ queue'[w][n] = x
       /\ \A i \in 1 .. n - 1 : queue'[w][i] = queue[w][i]
       /\ \A v \in Workers \ {w} : queue'[v] = queue[v]
    <2>1. queue'[w] = Append(queue[w], x) /\ \A v \in Workers \ {w} : queue'[v] = queue[v]
        BY <1>2, <1>10
    <2> QED
        BY <1>10, <2>1, AppendProperties, LenProperties
<1> HIDE DEF n
<1>a. DOMAIN queue'[w] = DOMAIN queue[w] \cup {n} /\ n \notin DOMAIN queue[w]
    BY <1>11
<1>12. Queued'
    <2>1. event[s] = "none" <=> kind = "connect"
        <3>1. Means(t)
            BY <1>0 DEF IInv, Meant
        <3> QED
            BY <1>0, <1>1, <3>1, Bounds DEF Means
    <2>2. ASSUME NEW v \in Workers, NEW i \in DOMAIN queue'[v]
          PROVE  /\ session'[queue'[v][i][2]] = queue'[v][i][3]
                 /\ event'[queue'[v][i][3]] = "none" <=> queue'[v][i][1] = "connect"
        <3>1. CASE v = w /\ i = n
            BY <1>1, <1>3, <1>10, <1>11, <2>1, <3>1
        <3>2. CASE ~(v = w /\ i = n)
            <4>1. i \in DOMAIN queue[v] /\ queue'[v][i] = queue[v][i]
                BY <1>11, <1>a, <2>2, <3>2
            <4> QED
                BY <1>3, <4>1 DEF IInv, Queued
        <3> QED
            BY <3>1, <3>2
    <2> QED
        BY <2>2 DEF Queued
<1>13. Referred'
    <2>1. Works(r)' = Works(r) \cup {<<w, n>>} /\ <<w, n>> \notin Works(r)
        <3>1. \A p : p \in Works(r)' <=> p \in Works(r) \/ p = <<w, n>>
            BY <1>10, <1>11, <1>a, WorksAre
        <3>2. <<w, n>> \notin Works(r)
            BY <1>a, WorksAre
        <3> QED
            BY <3>1, <3>2
    <2>2. \A q \in Records \ {r} : Works(q)' = Works(q)
        <3> TAKE q \in Records \ {r}
        <3>1. ASSUME NEW v \in Workers, NEW i
              PROVE  i \in DOMAIN queue'[v] /\ queue'[v][i][2] = q
                     <=> i \in DOMAIN queue[v] /\ queue[v][i][2] = q
            <4>1. CASE v # w
                BY <1>11, <4>1
            <4>2. CASE v = w /\ i # n
                BY <1>11, <1>a, <4>2
            <4>3. CASE v = w /\ i = n
                BY <1>10, <1>11, <1>a, <4>3
            <4> QED
                BY <4>1, <4>2, <4>3
        <3>2. \A p : p \in Works(q)' <=> p \in Works(q)
            BY <3>1, WorksAre
        <3> QED
            BY <3>2
    <2>3. \A q : Watching(q)' = Watching(q)
        BY <1>3 DEF Watching
    <2>4. \A q : /\ Opening(q)' = Opening(q) \ {t} /\ Serving(q)' = Serving(q) \ {t}
        <3> TAKE q
        <3>1. \A u \in (Workers \cup Openers) \ {t} : rec'[u] = rec[u] /\ (Bears(u)' <=> Bears(u))
            BY <1>4, Bounds DEF Apart, Bears
        <3>2. /\ Opening(q)' = {u \in Openers : rec'[u] = q /\ Bears(u)'}
              /\ Serving(q)' = {v \in Workers : rec'[v] = q /\ Bears(v)'}
            BY Bounds DEF Opening, Serving, Bears
        <3>3. ~Bears(t)'
            BY <1>3, <1>4, <1>5 DEF Bears
        <3> QED
            BY <3>1, <3>2, <3>3, BearersAre
    <2>5. t \in Opening(r) \/ t \in Serving(r)
        BY <1>0, <1>1 DEF Opening, Serving
    <2>6. t \in Opening(r) => t \notin Serving(r)
        BY Bounds DEF Opening, Serving
    <2>7. \A q \in Records \ {r} : Refs(q)' = Refs(q)
        <3> TAKE q \in Records \ {r}
        <3>1. t \notin Opening(q) /\ t \notin Serving(q)
            BY <1>1 DEF Opening, Serving
        <3>2. Opening(q)' = Opening(q) /\ Serving(q)' = Serving(q)
            BY <2>4, <3>1
        <3> QED
            BY <2>2, <2>3, <3>2 DEF Refs
    <2>8. /\ IsFiniteSet(Works(r)) /\ IsFiniteSet(Opening(r))
          /\ IsFiniteSet(Watching(r)) /\ IsFiniteSet(Serving(r))
          /\ Cardinality(Works(r)) \in Nat /\ Cardinality(Opening(r)) \in Nat
          /\ Cardinality(Watching(r)) \in Nat /\ Cardinality(Serving(r)) \in Nat
        BY RefSets
    <2>9. IsFiniteSet(Works(r)') /\ Cardinality(Works(r)') = Cardinality(Works(r)) + 1
        <3>1. \A S, e : IsFiniteSet(S) /\ e \notin S =>
                  IsFiniteSet(S \cup {e}) /\ Cardinality(S \cup {e}) = Cardinality(S) + 1
            BY FS_AddElement
        <3> QED
            BY <2>1, <2>8, <3>1
    <2>10. \A S : IsFiniteSet(S) /\ t \in S => Cardinality(S \ {t}) = Cardinality(S) - 1
        BY FS_RemoveElement
    <2>11. \A a, b, c, d \in Nat : /\ (a + 1) + (b - 1) + c + d = a + b + c + d
                                   /\ (a + 1) + b + c + (d - 1) = a + b + c + d
        OBVIOUS
    <2>12. Refs(r)' = Refs(r)
        <3>1. /\ Refs(r)' = Cardinality(Works(r)') + Cardinality(Opening(r)')
                            + Cardinality(Watching(r)') + Cardinality(Serving(r)')
              /\ Refs(r) = Cardinality(Works(r)) + Cardinality(Opening(r))
                           + Cardinality(Watching(r)) + Cardinality(Serving(r))
              /\ Watching(r)' = Watching(r)
            BY <2>3 DEF Refs
        <3>2. CASE t \in Opening(r)
            <4>1. /\ Cardinality(Opening(r)') = Cardinality(Opening(r)) - 1
                  /\ Serving(r)' = Serving(r)
                BY <2>4, <2>6, <2>8, <2>10, <3>2
            <4> QED
                BY <2>8, <2>9, <2>11, <3>1, <4>1
        <3>3. CASE t \in Serving(r)
            <4>1. /\ Cardinality(Serving(r)') = Cardinality(Serving(r)) - 1
                  /\ Opening(r)' = Opening(r)
                BY <2>4, <2>6, <2>8, <2>10, <3>3
            <4> QED
                BY <2>8, <2>9, <2>11, <3>1, <4>1
        <3> QED
            BY <2>5, <3>2, <3>3
    <2>13. \A q \in Records : IsFiniteSet(Works(q)') /\ Refs(q)' = Refs(q)
        <3> TAKE q \in Records
        <3>1. CASE q = r
            BY <2>9, <2>12, <3>1
        <3>2. CASE q # r
            BY <2>2, <2>7, <3>2, RefSets
        <3> QED
            BY <3>1, <3>2
    <2> QED
        BY <1>3, <2>13 DEF IInv, Referred
<1> QED
    BY <1>6, <1>7, <1>8, <1>9, <1>12, <1>13

-----------------------------------------------------------------------------
(* A worker takes its first work: the work's reference becomes the worker's. *)
LEMMA TailIs ==
    ASSUME NEW S, NEW s \in Seq(S), s # <<>>
    PROVE  /\ 1 \in DOMAIN s /\ Head(s) = s[1]
           /\ \A i : i \in DOMAIN Tail(s) <=> i \in Nat \ {0} /\ i + 1 \in DOMAIN s
           /\ \A i \in DOMAIN Tail(s) : Tail(s)[i] = s[i + 1]
           /\ \A i \in DOMAIN s \ {1} : i - 1 \in DOMAIN Tail(s) /\ (i - 1) + 1 = i
           /\ \A i \in DOMAIN s : i \in Nat
<1>1. /\ Len(s) \in Nat \ {0} /\ DOMAIN s = 1 .. Len(s)
      /\ DOMAIN Tail(s) = 1 .. Len(s) - 1 /\ Head(s) = s[1]
      /\ \A i \in 1 .. Len(s) - 1 : Tail(s)[i] = s[i + 1]
    BY EmptySeq, LenProperties
<1> DEFINE n == Len(s)
           T == Tail(s)
<1> HIDE DEF n, T
<1>2. /\ n \in Nat \ {0} /\ DOMAIN s = 1 .. n /\ DOMAIN T = 1 .. n - 1 /\ Head(s) = s[1]
      /\ \A i \in 1 .. n - 1 : T[i] = s[i + 1]
    BY <1>1 DEF n, T
<1>3. \A i : i \in DOMAIN T <=> i \in Nat \ {0} /\ i + 1 \in DOMAIN s
    BY <1>2
<1>4. \A i \in DOMAIN s \ {1} : i - 1 \in DOMAIN T /\ (i - 1) + 1 = i
    BY <1>2
<1> QED
    BY <1>2, <1>3, <1>4 DEF T

LEMMA TakeShift ==
    ASSUME IInv, NEW w \in Workers, queue[w] # <<>>, NEW q \in Records,
           queue' = [queue EXCEPT ![w] = Tail(@)]
    PROVE  /\ IsFiniteSet(Works(q)')
           /\ Cardinality(Works(q)') = Cardinality(Works(q) \ {<<w, 1>>})
<1>1. queue \in [Workers -> Seq({"connect", "input"} \X Records \X Sessions)]
    BY DEF IInv, TypeOK, PoolType
<1>2. queue'[w] = Tail(queue[w]) /\ \A v \in Workers \ {w} : queue'[v] = queue[v]
    BY <1>1
<1>3. /\ \A i : i \in DOMAIN queue'[w] <=> i \in Nat \ {0} /\ i + 1 \in DOMAIN queue[w]
      /\ \A i \in DOMAIN queue'[w] : queue'[w][i] = queue[w][i + 1]
      /\ \A i \in DOMAIN queue[w] \ {1} : i - 1 \in DOMAIN queue'[w] /\ (i - 1) + 1 = i
      /\ \A i \in DOMAIN queue[w] : i \in Nat
    BY <1>1, <1>2, TailIs
<1> DEFINE A == Works(q) \ {<<w, 1>>}
           f == [p \in A |-> IF p[1] = w THEN <<w, p[2] - 1>> ELSE p]
<1>4. IsFiniteSet(A)
    BY RefSets, FS_RemoveElement
<1>5. PICK B : B = Works(q)'
    OBVIOUS
<1>6. \A p : p \in A <=> \E v \in Workers : \E i \in DOMAIN queue[v] :
                             p = <<v, i>> /\ queue[v][i][2] = q /\ p # <<w, 1>>
    BY WorksAre
<1>7. \A p : p \in B <=> \E v \in Workers : \E i \in DOMAIN queue'[v] :
                             p = <<v, i>> /\ queue'[v][i][2] = q
    BY <1>5, WorksAre
<1> HIDE DEF A
<1>8. \A p \in A : f[p] \in B
    <2> SUFFICES ASSUME NEW p \in A PROVE f[p] \in B
        OBVIOUS
    <2>1. PICK v, i :
              v \in Workers /\ i \in DOMAIN queue[v] /\ p = <<v, i>> /\ queue[v][i][2] = q /\ p # <<w, 1>>
        BY <1>6
    <2>2. CASE v = w
        <3>1. i # 1 /\ i - 1 \in DOMAIN queue'[w] /\ queue'[w][i - 1] = queue[w][i]
            BY <1>3, <2>1, <2>2
        <3>2. f[p] = <<w, i - 1>>
            BY <2>1, <2>2
        <3> QED
            BY <1>7, <2>1, <2>2, <3>1, <3>2
    <2>3. CASE v # w
        <3>1. f[p] = p
            BY <2>1, <2>3
        <3> QED
            BY <1>2, <1>7, <2>1, <2>3, <3>1
    <2> QED
        BY <2>2, <2>3
<1>9. \A p, o \in A : f[p] = f[o] => p = o
    <2> SUFFICES ASSUME NEW p \in A, NEW o \in A, f[p] = f[o] PROVE p = o
        OBVIOUS
    <2>1. PICK v, i : v \in Workers /\ i \in DOMAIN queue[v] /\ p = <<v, i>>
        BY <1>6
    <2>2. PICK u, j : u \in Workers /\ j \in DOMAIN queue[u] /\ o = <<u, j>>
        BY <1>6
    <2>3. /\ f[p] = IF v = w THEN <<w, i - 1>> ELSE <<v, i>>
          /\ f[o] = IF u = w THEN <<w, j - 1>> ELSE <<u, j>>
        BY <2>1, <2>2
    <2>4. v = w => i \in Nat
        BY <1>3, <2>1
    <2>5. u = w => j \in Nat
        BY <1>3, <2>2
    <2>6. CASE v = w /\ u = w
        <3>1. i - 1 = j - 1
            BY <2>3, <2>6
        <3> QED
            BY <2>1, <2>2, <2>4, <2>5, <2>6, <3>1
    <2>7. CASE ~(v = w /\ u = w)
        BY <2>1, <2>2, <2>3, <2>7
    <2> QED
        BY <2>6, <2>7
<1>10. \A b \in B : \E p \in A : f[p] = b
    <2> SUFFICES ASSUME NEW b \in B PROVE \E p \in A : f[p] = b
        OBVIOUS
    <2>1. PICK v, i :
              v \in Workers /\ i \in DOMAIN queue'[v] /\ b = <<v, i>> /\ queue'[v][i][2] = q
        BY <1>7
    <2>2. CASE v = w
        <3>1. /\ i \in Nat \ {0} /\ i + 1 \in DOMAIN queue[w] /\ queue[w][i + 1][2] = q
            BY <1>3, <2>1, <2>2
        <3>2. i + 1 # 1 /\ (i + 1) - 1 = i
            BY <3>1
        <3>3. <<w, i + 1>> # <<w, 1>>
            BY <3>2
        <3>4. <<w, i + 1>> \in A
            BY <1>6, <3>1, <3>3
        <3>5. f[<<w, i + 1>>] = <<w, (i + 1) - 1>>
            BY <3>4
        <3> QED
            BY <2>1, <2>2, <3>2, <3>4, <3>5
    <2>3. CASE v # w
        <3>1. b \in A
            BY <1>2, <1>6, <2>1, <2>3
        <3> QED
            BY <2>1, <2>3, <3>1
    <2> QED
        BY <2>2, <2>3
<1>11. f \in Bijection(A, B)
    <2>1. f \in [A -> B]
        BY <1>8
    <2> HIDE DEF f
    <2>2. f \in Injection(A, B)
        BY <1>9, <2>1 DEF Injection, IsInjective
    <2>3. f \in Surjection(A, B)
        BY <1>10, <2>1 DEF Surjection
    <2> QED
        BY <2>2, <2>3 DEF Bijection
<1>12. ExistsBijection(A, B)
    <2> HIDE DEF f
    <2> QED
        BY <1>11 DEF ExistsBijection
<1> QED
    BY <1>4, <1>5, <1>12, FS_Bijection DEF A

(* The sums that references move in. *)
LEMMA Shifted ==
    ASSUME NEW a \in Nat, NEW b \in Nat, NEW c \in Nat, NEW d \in Nat
    PROVE  /\ (a - 1) + b + c + (d + 1) = a + b + c + d
           /\ a + b + (c + 1) + (d - 1) = a + b + c + d
           /\ a + b + c + (d + 1) = (a + b + c + d) + 1
OBVIOUS

LEMMA AddOne == \A S, x : IsFiniteSet(S) /\ x \notin S =>
                    IsFiniteSet(S \cup {x}) /\ Cardinality(S \cup {x}) = Cardinality(S) + 1
BY FS_AddElement

LEMMA RemoveOne == \A S, x : IsFiniteSet(S) /\ x \in S =>
                       IsFiniteSet(S \ {x}) /\ Cardinality(S \ {x}) = Cardinality(S) - 1
BY FS_RemoveElement

LEMMA TakeKeeps ==
    ASSUME IInv, NEW w \in Workers, TakeWork(w)
    PROVE  Shape' /\ Uses' /\ Meant' /\ Queued' /\ Events' /\ Numbers' /\ Referred' /\ Lists'
<1>1. /\ queue \in [Workers -> Seq({"connect", "input"} \X Records \X Sessions)]
      /\ queue[w] # <<>> /\ pc[w] = "idle"
    BY DEF IInv, TypeOK, PoolType, TakeWork
<1>2. PICK x \in {"connect", "input"} \X Records \X Sessions : x = Head(queue[w])
    BY <1>1
<1>3. PICK r \in Records, s \in Sessions : r = x[2] /\ s = x[3]
    BY <1>2
<1>4. /\ Call(w, x[1], r, s, "idle") /\ queue' = [queue EXCEPT ![w] = Tail(@)]
      /\ busy' = [busy EXCEPT ![w] = TRUE] /\ UNCHANGED evloop
      /\ UNCHANGED <<linked, heap, total, conns, alloc, count, fdOf, session, event, owner>>
      /\ UNCHANGED <<evFd, evRec, edge, batch, dead, open, stream>>
    BY <1>2, <1>3 DEF TakeWork, rootVars, recVars, eventVars, sockVars
<1>5. w \in Threads /\ w # Ticker /\ w \notin Openers /\ x[1] \in {"connect", "input"}
    BY <1>2, Bounds
<1>6. /\ Apart(w) /\ pc'[w] = x[1] /\ rec'[w] = r /\ ses'[w] = s /\ busy'[w]
    BY <1>4, <1>5, CallIs DEF IInv
<1>7. Shape'
    <2>1. Placed(w)'
        BY <1>5, <1>6 DEF Placed, InWork, Closing
    <2> QED
        BY <1>5, <1>6, <2>1, ShapeFrom DEF IInv
<1>8. Uses' /\ Events' /\ Lists'
    BY <1>4 DEF IInv, Uses, Events, Lists, Watched
<1>9. /\ 1 \in DOMAIN queue[w] /\ queue[w][1] = x
      /\ \A i \in DOMAIN queue'[w] : i + 1 \in DOMAIN queue[w] /\ queue'[w][i] = queue[w][i + 1]
      /\ \A v \in Workers \ {w} : queue'[v] = queue[v]
    <2>1. queue'[w] = Tail(queue[w]) /\ \A v \in Workers \ {w} : queue'[v] = queue[v]
        BY <1>1, <1>4
    <2> QED
        BY <1>1, <1>2, <2>1, TailIs
<1>10. session[r] = s /\ session[r] # 0 /\ (event[s] = "none" <=> x[1] = "connect")
    BY <1>3, <1>9, Bounds DEF IInv, Queued
<1>11. Meant'
    <2>1. ASSUME NEW u \in Workers \cup Openers PROVE Means(u)'
        <3>1. Means(u) /\ u # Ticker /\ u \in Threads
            BY Bounds DEF IInv, Meant
        <3>2. CASE u # w
            BY <1>4, <1>6, <3>1, <3>2 DEF Means, Apart, InLoop, Watched
        <3>3. CASE u = w
            BY <1>4, <1>5, <1>6, <1>10, <3>3 DEF Means, InLoop, Closing
        <3> QED
            BY <3>2, <3>3
    <2> QED
        BY <2>1 DEF Meant
<1>12. Queued'
    <2>1. ASSUME NEW v \in Workers, NEW i \in DOMAIN queue'[v]
          PROVE  /\ session'[queue'[v][i][2]] = queue'[v][i][3]
                 /\ event'[queue'[v][i][3]] = "none" <=> queue'[v][i][1] = "connect"
        <3>1. PICK j \in DOMAIN queue[v] : queue'[v][i] = queue[v][j]
            BY <1>9
        <3> QED
            BY <1>4, <3>1 DEF IInv, Queued
    <2> QED
        BY <2>1 DEF Queued
<1>13. Numbers'
    <2>1. \A y : Ended(y)' <=> Ended(y)
        BY <1>1, <1>5, <1>6, Bounds DEF Ended, Apart
    <2> QED
        BY <1>4, <2>1 DEF IInv, Numbers, Held, Watched
<1>14. Referred'
    <2>1. \A q : Watching(q)' = Watching(q)
        BY <1>4 DEF Watching
    <2>2. ~Bears(w)
        BY <1>1, <1>5 DEF IInv, Shape, Placed, Bears, InWork, Closing
    <2>3. \A q : /\ Opening(q)' = Opening(q)
                 /\ Serving(q)' = IF q = r THEN Serving(q) \cup {w} ELSE Serving(q)
        <3> TAKE q
        <3>1. \A u \in (Workers \cup Openers) \ {w} : rec'[u] = rec[u] /\ (Bears(u)' <=> Bears(u))
            BY <1>6, Bounds DEF Apart, Bears
        <3>2. /\ Opening(q)' = {u \in Openers : rec'[u] = q /\ Bears(u)'}
              /\ Serving(q)' = {v \in Workers : rec'[v] = q /\ Bears(v)'}
            BY Bounds DEF Opening, Serving, Bears
        <3>3. Bears(w)'
            BY <1>5, <1>6 DEF Bears
        <3> QED
            BY <1>5, <1>6, <2>2, <3>1, <3>2, <3>3, BearersAre
    <2>4. <<w, 1>> \in Works(r) /\ w \notin Serving(r)
        BY <1>3, <1>9, <2>2, WorksAre, BearersAre
    <2>5. \A q \in Records \ {r} : <<w, 1>> \notin Works(q)
        BY <1>3, <1>9, WorksAre
    <2>6. \A q \in Records : /\ IsFiniteSet(Works(q)')
                             /\ Cardinality(Works(q)') = Cardinality(Works(q) \ {<<w, 1>>})
        BY <1>1, <1>4, TakeShift
    <2>7. \A q \in Records \ {r} : Refs(q)' = Refs(q)
        <3> TAKE q \in Records \ {r}
        <3>1. Works(q) \ {<<w, 1>>} = Works(q) /\ Serving(q)' = Serving(q)
            BY <2>3, <2>5
        <3>2. Cardinality(Works(q)') = Cardinality(Works(q))
            BY <2>6, <3>1
        <3> QED
            BY <2>1, <2>3, <3>1, <3>2 DEF Refs
    <2>8. Refs(r)' = Refs(r)
        <3>1. /\ IsFiniteSet(Works(r)) /\ IsFiniteSet(Serving(r))
              /\ Cardinality(Works(r)) \in Nat /\ Cardinality(Opening(r)) \in Nat
              /\ Cardinality(Watching(r)) \in Nat /\ Cardinality(Serving(r)) \in Nat
            BY RefSets
        <3>2. Cardinality(Works(r)') = Cardinality(Works(r)) - 1
            BY <2>4, <2>6, <3>1, RemoveOne
        <3>3. Cardinality(Serving(r)') = Cardinality(Serving(r)) + 1
            BY <2>3, <2>4, <3>1, AddOne
        <3>4. /\ Refs(r)' = Cardinality(Works(r)') + Cardinality(Opening(r)')
                            + Cardinality(Watching(r)') + Cardinality(Serving(r)')
              /\ Refs(r) = Cardinality(Works(r)) + Cardinality(Opening(r))
                           + Cardinality(Watching(r)) + Cardinality(Serving(r))
              /\ Watching(r)' = Watching(r) /\ Opening(r)' = Opening(r)
            BY <2>1, <2>3 DEF Refs
        <3> QED
            BY <3>1, <3>2, <3>3, <3>4, Shifted
    <2> QED
        BY <1>4, <2>6, <2>7, <2>8 DEF IInv, Referred
<1> QED
    BY <1>7, <1>8, <1>11, <1>12, <1>13, <1>14

-----------------------------------------------------------------------------
(* connect_cb: the work's reference becomes the event's.  It was the only one, so
   nobody else means the session yet. *)
LEMMA ConnectIs ==
    ASSUME IInv, NEW w \in Workers, pc[w] = "connect"
    PROVE  \E r \in Records, s \in Sessions :
               /\ r = rec[w] /\ s = ses[w] /\ session[r] = s /\ session[r] # 0
               /\ event[s] = "none" /\ s <= conns /\ Bears(w) /\ w \in Serving(r)
               /\ s \notin Watching(r)
               /\ \A u \in (Workers \cup Openers) \ {w} :
                      pc[u] \notin {"idle", "delete"} => ses[u] # s
               /\ \A v \in Workers : \A i \in DOMAIN queue[v] : queue[v][i][3] # s
<1>1. PICK r \in Records, s \in Sessions : r = rec[w] /\ s = ses[w] /\ session[r] = s
    BY Backed
<1>2. session[r] # 0 /\ event[s] = "none" /\ s <= conns
    <2>1. Means(w)
        BY DEF IInv, Meant
    <2>2. session[r] # 0 /\ session[r] <= conns
        BY <1>1, Bounds DEF IInv, Uses
    <2> QED
        BY <1>1, <2>1, <2>2 DEF Means
<1>3. Bears(w) /\ w \in Serving(r)
    <2>1. busy[w]
        BY Bounds DEF IInv, Shape, Placed, InWork
    <2> QED
        BY <1>1, <2>1 DEF Bears, Serving
<1>4. count[r] = 1
    BY <1>1, <1>2 DEF IInv, Referred
<1>5. /\ Works(r) = {} /\ Opening(r) = {} /\ Watching(r) = {}
      /\ \A v \in Serving(r) : v = w
    BY <1>2, <1>3, <1>4, Alone
<1>6. ASSUME NEW u \in (Workers \cup Openers) \ {w}, pc[u] \notin {"idle", "delete"},
             ses[u] = s
      PROVE  FALSE
    <2>1. /\ rec[u] \in Records /\ session[rec[u]] = s
          /\ Bears(u) \/ ses[u] \in Watching(rec[u])
        BY <1>6, Backed
    <2>2. rec[u] = r
        BY <1>1, <1>2, <2>1 DEF IInv, Uses
    <2>3. u \in Opening(r) \/ u \in Serving(r)
        BY <1>5, <2>1, <2>2, BearersAre, Bounds DEF Bears
    <2> QED
        BY <1>5, <1>6, <2>3
<1>7. ASSUME NEW v \in Workers, NEW i \in DOMAIN queue[v], queue[v][i][3] = s PROVE FALSE
    <2>1. queue[v] \in Seq({"connect", "input"} \X Records \X Sessions)
        BY DEF IInv, TypeOK, PoolType
    <2>2. queue[v][i] \in {"connect", "input"} \X Records \X Sessions
        BY <2>1
    <2>3. session[queue[v][i][2]] = s /\ queue[v][i][2] \in Records
        BY <1>7, <2>2 DEF IInv, Queued
    <2>4. queue[v][i][2] = r
        BY <1>1, <1>2, <2>3 DEF IInv, Uses
    <2> QED
        BY <1>5, <2>4, WorksAre
<1> QED
    <2> WITNESS r \in Records, s \in Sessions
    <2> QED
        BY <1>1, <1>2, <1>3, <1>5, <1>6, <1>7

LEMMA ConnectKeeps ==
    ASSUME IInv, NEW w \in Workers, ConnectCb(w)
    PROVE  Shape' /\ Uses' /\ Meant' /\ Queued' /\ Events' /\ Numbers' /\ Referred' /\ Lists'
<1>0. PICK r \in Records, s \in Sessions :
          /\ r = rec[w] /\ s = ses[w] /\ session[r] = s /\ session[r] # 0
          /\ event[s] = "none" /\ s <= conns /\ Bears(w) /\ w \in Serving(r)
          /\ s \notin Watching(r)
          /\ \A u \in (Workers \cup Openers) \ {w} :
                 pc[u] \notin {"idle", "delete"} => ses[u] # s
          /\ \A v \in Workers : \A i \in DOMAIN queue[v] : queue[v][i][3] # s
    BY ConnectIs DEF ConnectCb
<1>1. /\ session[r] = s /\ session[r] # 0 /\ event[s] = "none" /\ s <= conns
      /\ w \in Threads /\ w # Ticker /\ w \notin Openers /\ pc[w] = "connect"
    BY <1>0, Bounds DEF ConnectCb
<1>2. /\ event' = [event EXCEPT ![s] = "armed"] /\ owner' = [owner EXCEPT ![s] = w]
      /\ evFd' = [evFd EXCEPT ![s] = fdOf[r]] /\ evRec' = [evRec EXCEPT ![s] = r]
      /\ \A x \in Sessions \ {s} : edge'[x] = edge[x]
      /\ evloop' = [evloop EXCEPT ![r] = s] /\ Goto(w, "connected") /\ UNCHANGED busy
      /\ UNCHANGED <<linked, heap, total, conns, alloc, count, fdOf, session>>
      /\ UNCHANGED <<dead, queue, open, stream>>
    <2>1. edge \in [Sessions -> SUBSET {"read", "error"}]
        BY DEF IInv, TypeOK, EventType
    <2> QED
        BY <1>0, <2>1 DEF ConnectCb, JoinLoop, rootVars, poolVars, sockVars
<1>3. /\ event \in [Sessions -> {"none", "armed", "deleted", "freed"}]
      /\ owner \in [Sessions -> Workers \cup {None}]
      /\ evFd \in [Sessions -> Fds \cup {None}] /\ evRec \in [Sessions -> Records \cup {None}]
      /\ evloop \in [Records -> 0..MaxConns] /\ session \in [Records -> 0..MaxConns]
    BY DEF IInv, TypeOK, EventType, RecType
<1>4. /\ event'[s] = "armed" /\ owner'[s] = w /\ evFd'[s] = fdOf[r] /\ evRec'[s] = r
      /\ \A x \in Sessions \ {s} : /\ event'[x] = event[x] /\ owner'[x] = owner[x]
                                   /\ evFd'[x] = evFd[x] /\ evRec'[x] = evRec[x]
      /\ evloop'[r] = s /\ \A q \in Records \ {r} : evloop'[q] = evloop[q]
    BY <1>2, <1>3
<1>5. Apart(w) /\ pc'[w] = "connected" /\ rec'[w] = r /\ ses'[w] = s
    BY <1>0, <1>1, <1>2, GotoIs DEF IInv
<1>6. busy[w] /\ busy'[w]
    BY <1>1, <1>2 DEF IInv, Shape, Placed, InWork
<1>7. Shape'
    <2>1. Placed(w)'
        BY <1>1, <1>5, <1>6 DEF Placed, InWork, Closing
    <2> QED
        BY <1>1, <1>5, <2>1, ShapeFrom DEF IInv
<1>8. \A q \in Records \ {r} : session[q] # s
    BY <1>1 DEF IInv, Uses
<1>9. Uses'
    <2>1. \A q \in Records : evloop'[q] \in {0, session'[q]}
                             /\ (evloop'[q] # 0 => event'[session'[q]] # "none")
        <3> TAKE q \in Records
        <3>1. CASE q = r
            BY <1>1, <1>2, <1>4, <3>1
        <3>2. CASE q # r
            <4>1. evloop[q] # 0 => session[q] \in Sessions \ {s}
                BY <1>3, <1>8, <3>2, Bounds DEF IInv, Uses
            <4> QED
                BY <1>2, <1>4, <3>2, <4>1 DEF IInv, Uses
        <3> QED
            BY <3>1, <3>2
    <2> QED
        BY <1>2, <2>1 DEF IInv, Uses
<1>10. Meant'
    <2>1. ASSUME NEW u \in Workers \cup Openers PROVE Means(u)'
        <3>1. Means(u) /\ u # Ticker /\ u \in Threads
            BY Bounds DEF IInv, Meant
        <3>2. CASE u # w /\ pc[u] \in {"idle", "delete"}
            BY <1>5, <3>1, <3>2 DEF Means, Apart
        <3>3. CASE u # w /\ pc[u] \notin {"idle", "delete"}
            <4>1. ses[u] # s
                BY <1>0, <3>3
            <4> QED
                BY <1>2, <1>4, <1>5, <3>1, <3>3, <4>1 DEF Means, Apart, InLoop, Watched
        <3>4. CASE u = w
            BY <1>1, <1>2, <1>4, <1>5, <3>4 DEF Means, Watched
        <3> QED
            BY <3>2, <3>3, <3>4
    <2> QED
        BY <2>1 DEF Meant
<1>11. Queued'
    <2>1. ASSUME NEW v \in Workers, NEW i \in DOMAIN queue[v]
          PROVE  queue[v][i][3] \in Sessions \ {s}
        <3>1. queue[v] \in Seq({"connect", "input"} \X Records \X Sessions)
            BY DEF IInv, TypeOK, PoolType
        <3>2. queue[v][i] \in {"connect", "input"} \X Records \X Sessions
            BY <3>1
        <3> QED
            BY <1>0, <3>2
    <2> QED
        BY <1>2, <1>4, <2>1 DEF IInv, Queued
<1>12. Events'
    <2>1. \A x \in Sessions :
              /\ event'[x] # "none" => x <= conns'
              /\ edge'[x] # {} => event'[x] = "armed"
        BY <1>1, <1>2, <1>4 DEF IInv, Events
    <2>2. \A x \in Sessions : Watched(x)' =>
              owner'[x] \in Workers /\ evRec'[x] \in Records /\ session'[evRec'[x]] = x
        <3> TAKE x \in Sessions
        <3>1. CASE x = s
            BY <1>1, <1>2, <1>4, <3>1
        <3>2. CASE x # s
            BY <1>2, <1>4, <3>2 DEF IInv, Events, Watched
        <3> QED
            BY <3>1, <3>2
    <2>3. \A v \in Workers : {x \in Sessions : owner'[x] = v /\ event'[x] = "deleted"}
                             = {x \in Sessions : owner[x] = v /\ event[x] = "deleted"}
        BY <1>1, <1>4
    <2> QED
        BY <1>2, <2>1, <2>2, <2>3 DEF IInv, Events
<1>13. Numbers'
    <2>1. \A y : Ended(y)' <=> Ended(y)
        BY <1>1, <1>5, Bounds DEF Ended, Apart
    <2>2. \A q \in Records : Held(q)' => Held(q)
        <3> TAKE q \in Records
        <3>1. session[q] # 0 => session[q] \in Sessions
            BY <1>3, Bounds
        <3> QED
            BY <1>1, <1>2, <1>4, <2>1, <3>1 DEF Held
    <2>3. \A x \in Sessions : Watched(x)' => evFd'[x] = fdOf'[evRec'[x]]
        BY <1>2, <1>4 DEF IInv, Numbers, Watched
    <2> QED
        BY <1>2, <2>2, <2>3 DEF IInv, Numbers
<1>14. Referred'
    <2>1. \A q : Works(q)' = Works(q)
        BY <1>2 DEF Works
    <2>2. \A q : /\ Opening(q)' = Opening(q) /\ Serving(q)' = Serving(q) \ {w}
        <3> TAKE q
        <3>1. \A u \in (Workers \cup Openers) \ {w} : rec'[u] = rec[u] /\ (Bears(u)' <=> Bears(u))
            BY <1>5, Bounds DEF Apart, Bears
        <3>2. /\ Opening(q)' = {u \in Openers : rec'[u] = q /\ Bears(u)'}
              /\ Serving(q)' = {v \in Workers : rec'[v] = q /\ Bears(v)'}
            BY Bounds DEF Opening, Serving, Bears
        <3>3. ~Bears(w)'
            BY <1>1, <1>5 DEF Bears
        <3> QED
            BY <1>1, <3>1, <3>2, <3>3, BearersAre
    <2>3. Watching(r)' = Watching(r) \cup {s} /\ s \notin Watching(r)
        BY <1>1, <1>4 DEF Watching
    <2>4. \A q \in Records \ {r} : Watching(q)' = Watching(q)
        BY <1>1, <1>4 DEF Watching
    <2>5. \A q \in Records \ {r} : Refs(q)' = Refs(q)
        <3> TAKE q \in Records \ {r}
        <3>1. Serving(q)' = Serving(q)
            BY <1>0, <2>2 DEF Serving
        <3> QED
            BY <2>1, <2>2, <2>4, <3>1 DEF Refs
    <2>6. Refs(r)' = Refs(r)
        <3>1. /\ IsFiniteSet(Watching(r)) /\ IsFiniteSet(Serving(r))
              /\ Cardinality(Works(r)) \in Nat /\ Cardinality(Opening(r)) \in Nat
              /\ Cardinality(Watching(r)) \in Nat /\ Cardinality(Serving(r)) \in Nat
            BY RefSets
        <3>2. Cardinality(Watching(r)') = Cardinality(Watching(r)) + 1
            BY <2>3, <3>1, AddOne
        <3>3. Cardinality(Serving(r)') = Cardinality(Serving(r)) - 1
            BY <1>0, <2>2, <3>1, RemoveOne
        <3>4. /\ Refs(r)' = Cardinality(Works(r)') + Cardinality(Opening(r)')
                            + Cardinality(Watching(r)') + Cardinality(Serving(r)')
              /\ Refs(r) = Cardinality(Works(r)) + Cardinality(Opening(r))
                           + Cardinality(Watching(r)) + Cardinality(Serving(r))
              /\ Works(r)' = Works(r) /\ Opening(r)' = Opening(r)
            BY <2>1, <2>2 DEF Refs
        <3> QED
            BY <3>1, <3>2, <3>3, <3>4, Shifted
    <2>7. \A q \in Records \ {r} : session[q] # 0 => event'[session[q]] = event[session[q]]
        BY <1>3, <1>4, <1>8, Bounds
    <2> QED
        BY <1>1, <1>2, <1>4, <2>1, <2>5, <2>6, <2>7 DEF IInv, Referred
<1>15. Lists'
    BY <1>2 DEF IInv, Lists
<1> QED
    BY <1>7, <1>9, <1>10, <1>11, <1>12, <1>13, <1>14, <1>15

(* The input work gets a reference of its own. *)
LEMMA RefKeeps ==
    ASSUME IInv, NEW w \in Workers, Ref(w)
    PROVE  Shape' /\ Uses' /\ Meant' /\ Queued' /\ Events' /\ Numbers' /\ Referred' /\ Lists'
<1>0. pc[w] = "ref" /\ w \in Threads /\ w # Ticker /\ w \notin Openers
    BY Bounds DEF Ref
<1>1. PICK r \in Records, s \in Sessions : r = rec[w] /\ s = ses[w] /\ session[r] = s
    BY <1>0, Backed
<1>2. /\ count' = [count EXCEPT ![r] = @ + 1] /\ Goto(w, "run") /\ UNCHANGED <<busy, evloop>>
      /\ UNCHANGED <<linked, heap, total, conns, alloc, fdOf, session, event, owner>>
      /\ UNCHANGED <<evFd, evRec, edge, batch, dead, queue, open, stream>>
    BY <1>1 DEF Ref, rootVars, eventVars, poolVars, sockVars
<1>3. Apart(w) /\ pc'[w] = "run" /\ rec'[w] = r /\ ses'[w] = s
    BY <1>0, <1>1, <1>2, GotoIs DEF IInv
<1>4. ~busy[w] /\ ~busy'[w] /\ count \in [Records -> Nat]
    BY <1>0, <1>2 DEF IInv, Shape, Placed, InWork, Closing, TypeOK, RecType
<1>5. Shape'
    <2>1. Placed(w)'
        BY <1>0, <1>3, <1>4 DEF Placed, InWork, Closing
    <2> QED
        BY <1>0, <1>3, <2>1, ShapeFrom DEF IInv
<1>6. Uses' /\ Events' /\ Lists' /\ Queued'
    BY <1>2 DEF IInv, Uses, Events, Lists, Watched, Queued
<1>7. Watched(s) /\ owner[s] = w /\ event[s] # "none"
    <2>1. Means(w)
        BY DEF IInv, Meant
    <2> QED
        BY <1>0, <1>1, <2>1 DEF Means, InLoop, Watched
<1>8. Meant'
    <2>1. ASSUME NEW u \in Workers \cup Openers PROVE Means(u)'
        <3>1. Means(u) /\ u # Ticker /\ u \in Threads
            BY Bounds DEF IInv, Meant
        <3>2. CASE u # w
            BY <1>2, <1>3, <3>1, <3>2 DEF Means, Apart, InLoop, Watched
        <3>3. CASE u = w
            BY <1>0, <1>1, <1>2, <1>3, <1>7, <3>3 DEF Means, Watched
        <3> QED
            BY <3>2, <3>3
    <2> QED
        BY <2>1 DEF Meant
<1>9. Numbers'
    <2>1. \A y : Ended(y)' <=> Ended(y)
        BY <1>0, <1>3, Bounds DEF Ended, Apart
    <2> QED
        BY <1>2, <2>1 DEF IInv, Numbers, Held, Watched
<1>10. Referred'
    <2>1. \A q : Works(q)' = Works(q) /\ Watching(q)' = Watching(q)
        BY <1>2 DEF Works, Watching
    <2>2. ~Bears(w) /\ Bears(w)'
        BY <1>0, <1>3, <1>4 DEF Bears
    <2>3. \A q : /\ Opening(q)' = Opening(q)
                 /\ Serving(q)' = IF q = r THEN Serving(q) \cup {w} ELSE Serving(q)
        <3> TAKE q
        <3>1. \A u \in (Workers \cup Openers) \ {w} : rec'[u] = rec[u] /\ (Bears(u)' <=> Bears(u))
            BY <1>3, Bounds DEF Apart, Bears
        <3>2. /\ Opening(q)' = {u \in Openers : rec'[u] = q /\ Bears(u)'}
              /\ Serving(q)' = {v \in Workers : rec'[v] = q /\ Bears(v)'}
            BY Bounds DEF Opening, Serving, Bears
        <3> QED
            BY <1>0, <1>3, <2>2, <3>1, <3>2, BearersAre
    <2>4. w \notin Serving(r)
        BY <2>2, BearersAre
    <2>5. \A q \in Records \ {r} : Refs(q)' = Refs(q)
        BY <2>1, <2>3 DEF Refs
    <2>6. Refs(r)' = Refs(r) + 1
        <3>1. /\ IsFiniteSet(Serving(r))
              /\ Cardinality(Works(r)) \in Nat /\ Cardinality(Opening(r)) \in Nat
              /\ Cardinality(Watching(r)) \in Nat /\ Cardinality(Serving(r)) \in Nat
            BY RefSets
        <3>2. Cardinality(Serving(r)') = Cardinality(Serving(r)) + 1
            BY <2>3, <2>4, <3>1, AddOne
        <3>3. /\ Refs(r)' = Cardinality(Works(r)') + Cardinality(Opening(r)')
                            + Cardinality(Watching(r)') + Cardinality(Serving(r)')
              /\ Refs(r) = Cardinality(Works(r)) + Cardinality(Opening(r))
                           + Cardinality(Watching(r)) + Cardinality(Serving(r))
              /\ Works(r)' = Works(r) /\ Opening(r)' = Opening(r)
              /\ Watching(r)' = Watching(r)
            BY <2>1, <2>3 DEF Refs
        <3> QED
            BY <3>1, <3>2, <3>3, Shifted
    <2>7. /\ count'[r] = count[r] + 1 /\ \A q \in Records \ {r} : count'[q] = count[q]
        BY <1>2, <1>4
    <2>8. session[r] # 0
        BY <1>1, Bounds
    <2>9. ASSUME NEW q \in Records, session'[q] # 0
          PROVE  count'[q] = Refs(q)' /\ (event'[session'[q]] = "none" => count'[q] = 1)
        <3>1. CASE q = r
            BY <1>1, <1>2, <1>7, <2>6, <2>7, <2>8, <3>1 DEF IInv, Referred
        <3>2. CASE q # r
            BY <1>2, <2>5, <2>7, <2>9, <3>2 DEF IInv, Referred
        <3> QED
            BY <3>1, <3>2
    <2> QED
        BY <2>1, <2>9 DEF IInv, Referred
<1> QED
    BY <1>5, <1>6, <1>8, <1>9, <1>10

(* The callback of an event: its loop's worker starts to close or to hand out a work. *)
LEMMA HandleKeeps ==
    ASSUME IInv, NEW w \in Workers, NEW s \in Sessions, NEW flag \in {"read", "error"},
           Handle(w, s, flag)
    PROVE  /\ Shape' /\ Uses' /\ Meant' /\ Queued' /\ Events' /\ Numbers' /\ Referred' /\ Lists'
           /\ Apart(w) /\ UNCHANGED <<busy, loopLock, holder, edge>>
           /\ pc'[w] \in {"idle", "close", "ref"}
           /\ \A v \in Workers : batch'[v] \subseteq batch[v]
           /\ pc'[w] = "close" => (stoping \/ flag = "error") /\ <<s, flag>> \in batch[w]
           /\ pc'[w] # "idle" => ses'[w] = s /\ ret'[w] = "idle"
<1>0. w \in Threads /\ w # Ticker /\ w \notin Openers
    BY Bounds
<1>1. /\ pc[w] = "idle" /\ <<s, flag>> \in batch[w]
      /\ batch' = [batch EXCEPT ![w] = @ \ {<<s, flag>>}]
      /\ IF evloop[evRec[s]] = 0 THEN UNCHANGED threadVars
         ELSE Call(w, IF stoping \/ flag = "error" THEN "close" ELSE "ref", evRec[s], s, "idle")
      /\ UNCHANGED <<linked, heap, total, conns, alloc, count, fdOf, evloop, session>>
      /\ UNCHANGED <<event, owner, evFd, evRec, edge, dead, queue, busy, open, stream>>
      /\ UNCHANGED <<loopLock, holder>>
    BY DEF Handle, rootVars, recVars, poolVars, sockVars
<1>2. \A v \in Workers : batch'[v] \subseteq batch[v]
    BY <1>1 DEF IInv, TypeOK, EventType
<1>3. CASE evloop[evRec[s]] = 0
    <2>1. UNCHANGED threadVars /\ UNCHANGED <<pc, rec, ses, ret>>
        BY <1>1, <1>3 DEF threadVars
    <2>2. Still
        <3>1. conns <= conns'
            BY <1>1 DEF IInv, TypeOK, RootType
        <3> QED
            BY <1>1, <2>1, <3>1 DEF Still
    <2>3. TypeOK'
        BY TypeLoop DEF LoopTurn
    <2>4. Lists'
        BY <1>1 DEF IInv, Lists
    <2>5. Shape' /\ Uses' /\ Meant' /\ Queued' /\ Events' /\ Numbers' /\ Referred'
        BY <2>2, <2>3, StillKeeps
    <2> QED
        BY <1>1, <1>2, <2>1, <2>4, <2>5 DEF Apart
<1>4. CASE evloop[evRec[s]] # 0
    <2>1. Watched(s) /\ owner[s] = w
        <3>1. owner[<<s, flag>>[1]] = w /\ Watched(<<s, flag>>[1])
            BY <1>1 DEF IInv, Loops
        <3> QED
            BY <3>1
    <2>2. PICK r \in Records : r = evRec[s] /\ session[r] = s
        BY <2>1 DEF IInv, Events
    <2>3. PICK label \in {"close", "ref"} :
              /\ Call(w, label, r, s, "idle")
              /\ label = "close" => stoping \/ flag = "error"
        BY <1>1, <1>4, <2>2
    <2>4. /\ pc'[w] = label /\ rec'[w] = r /\ ses'[w] = s /\ ret'[w] = "idle" /\ Apart(w)
        BY <1>0, <1>1, <2>3, CallIs DEF IInv
    <2>5. ~busy[w] /\ ~busy'[w]
        BY <1>0, <1>1 DEF IInv, Shape, Placed, InWork, Closing
    <2>6. ~Bears(w) /\ ~Bears(w)'
        BY <1>0, <1>1, <2>4, <2>5 DEF Bears
    <2>7. Shape'
        <3>1. Placed(w)'
            BY <1>0, <2>4, <2>5 DEF Placed, InWork, Closing
        <3> QED
            BY <1>0, <2>4, <3>1, ShapeFrom DEF IInv
    <2>8. Uses' /\ Events' /\ Lists' /\ Queued'
        BY <1>1 DEF IInv, Uses, Events, Lists, Watched, Queued
    <2>9. Meant'
        <3>1. ASSUME NEW u \in Workers \cup Openers PROVE Means(u)'
            <4>1. Means(u) /\ u # Ticker /\ u \in Threads
                BY Bounds DEF IInv, Meant
            <4>2. CASE u # w
                BY <1>1, <2>4, <4>1, <4>2 DEF Means, Apart, InLoop, Watched
            <4>3. CASE u = w
                BY <1>0, <1>1, <2>1, <2>2, <2>4, <4>3 DEF Means, Watched
            <4> QED
                BY <4>2, <4>3
        <3> QED
            BY <3>1 DEF Meant
    <2>10. Numbers'
        <3>1. \A y : Ended(y)' <=> Ended(y)
            BY <1>0, <1>1, <2>4, Bounds DEF Ended, Apart
        <3> QED
            BY <1>1, <3>1 DEF IInv, Numbers, Held, Watched
    <2>11. Referred'
        <3>1. \A u \in Workers \cup Openers : Bearing(u)
            <4> TAKE u \in Workers \cup Openers
            <4>1. CASE u = w
                BY <2>6, <4>1 DEF Bearing
            <4>2. CASE u # w
                BY <2>4, <4>2, Bounds DEF Bearing, Bears, Apart
            <4> QED
                BY <4>1, <4>2
        <3>2. \A y \in Sessions : Watched(y)' <=> Watched(y)
            BY <1>1 DEF Watched
        <3> QED
            BY <1>1, <3>1, <3>2, SameRefs DEF IInv, Referred, Refs
    <2> QED
        BY <1>1, <1>2, <2>3, <2>4, <2>7, <2>8, <2>9, <2>10, <2>11
<1> QED
    BY <1>3, <1>4

(* The loop closes the descriptor: no other connection has the number. *)
LEMMA CloseCbKeeps ==
    ASSUME IInv, NEW w \in Workers, CloseCb(w)
    PROVE  /\ Shape' /\ Uses' /\ Meant' /\ Queued' /\ Events' /\ Numbers' /\ Referred' /\ Lists'
           /\ Apart(w) /\ pc[w] = "delete" /\ pc'[w] = "closed"
           /\ ses'[w] = Head(dead[w])
<1>0. w \in Threads /\ w # Ticker /\ w \notin Openers
    BY Bounds
<1>1. PICK s : s = Head(dead[w])
    OBVIOUS
<1>2. /\ pc[w] = "delete" /\ dead[w] # <<>> /\ open' = open \ {evFd[s]}
      /\ Call(w, "closed", evRec[s], s, "delete")
      /\ UNCHANGED <<linked, heap, total, conns, alloc, count, fdOf, evloop, session>>
      /\ UNCHANGED <<event, owner, evFd, evRec, edge, batch, dead, queue, busy, stream>>
    BY <1>1 DEF CloseCb, CloseFd, rootVars, recVars, eventVars, poolVars
<1>3. s \in Sessions /\ owner[s] = w /\ Watched(s)
    <2>1. dead[w] \in Seq(Sessions)
        BY DEF IInv, TypeOK, EventType
    <2>2. s \in Range(dead[w])
        BY <1>1, <1>2, <2>1, PopFront DEF IInv, Events
    <2> QED
        BY <2>2 DEF IInv, Events, Watched
<1>4. PICK r \in Records : r = evRec[s] /\ session[r] = s /\ evFd[s] = fdOf[r]
    BY <1>3 DEF IInv, Events, Numbers
<1>5. Apart(w) /\ pc'[w] = "closed" /\ rec'[w] = r /\ ses'[w] = s
    BY <1>0, <1>2, <1>4, CallIs DEF IInv
<1>6. ~busy[w] /\ ~busy'[w]
    BY <1>0, <1>2 DEF IInv, Shape, Placed, InWork, Closing
<1>7. Shape'
    <2>1. Placed(w)'
        BY <1>0, <1>5, <1>6 DEF Placed, InWork, Closing
    <2> QED
        BY <1>0, <1>5, <2>1, ShapeFrom DEF IInv
<1>8. Uses' /\ Events' /\ Lists' /\ Queued'
    BY <1>2 DEF IInv, Uses, Events, Lists, Watched, Queued
<1>9. Meant'
    <2>1. ASSUME NEW u \in Workers \cup Openers PROVE Means(u)'
        <3>1. Means(u) /\ u # Ticker /\ u \in Threads
            BY Bounds DEF IInv, Meant
        <3>2. CASE u # w
            BY <1>2, <1>5, <3>1, <3>2 DEF Means, Apart, InLoop, Watched
        <3>3. CASE u = w
            BY <1>0, <1>2, <1>3, <1>4, <1>5, <3>3 DEF Means, Watched
        <3> QED
            BY <3>2, <3>3
    <2> QED
        BY <2>1 DEF Meant
<1>10. Numbers'
    <2>1. ~Ended(s)
        <3>1. ASSUME NEW v \in Workers, pc[v] = "closed", ses[v] = s PROVE FALSE
            <4>1. Means(v)
                BY DEF IInv, Meant
            <4>2. owner[s] = v
                BY <3>1, <4>1 DEF Means, InLoop
            <4> QED
                BY <1>2, <1>3, <3>1, <4>2
        <3> QED
            BY <3>1 DEF Ended
    <2>2. stream[evFd[s]] = s
        BY <1>3, <1>4, <2>1, Bounds DEF IInv, Numbers, Held, Watched
    <2>3. \A y : Ended(y)' <=> Ended(y) \/ y = s
        BY <1>0, <1>2, <1>5, Bounds DEF Ended, Apart
    <2>4. \A q \in Records : Held(q)' => fdOf'[q] \in open' /\ stream'[fdOf'[q]] = session'[q]
        <3> SUFFICES ASSUME NEW q \in Records, Held(q)'
                     PROVE  fdOf'[q] \in open' /\ stream'[fdOf'[q]] = session'[q]
            OBVIOUS
        <3>1. Held(q) /\ session[q] # s
            BY <1>2, <2>3 DEF Held
        <3>2. fdOf[q] \in open /\ stream[fdOf[q]] = session[q]
            BY <3>1 DEF IInv, Numbers
        <3> QED
            BY <1>2, <2>2, <3>1, <3>2
    <2> QED
        BY <1>2, <2>4 DEF IInv, Numbers, Watched
<1>11. Referred'
    <2>0. ~Bears(w) /\ ~Bears(w)'
        BY <1>0, <1>2, <1>5, <1>6 DEF Bears
    <2>1. \A u \in Workers \cup Openers : Bearing(u)
        <3> TAKE u \in Workers \cup Openers
        <3>1. CASE u = w
            BY <2>0, <3>1 DEF Bearing
        <3>2. CASE u # w
            BY <1>5, <3>2, Bounds DEF Bearing, Bears, Apart
        <3> QED
            BY <3>1, <3>2
    <2>2. \A y \in Sessions : Watched(y)' <=> Watched(y)
        BY <1>2 DEF Watched
    <2> QED
        BY <1>2, <2>1, <2>2, SameRefs DEF IInv, Referred, Refs
<1> QED
    BY <1>1, <1>2, <1>5, <1>7, <1>8, <1>9, <1>10, <1>11

(* A connection is opened on a record that nobody means. *)
LEMMA OpenIs ==
    ASSUME IInv, NEW t \in Threads, OpenConnection(t)
    PROVE  \E r \in Records, f \in Fds, n \in Sessions :
               /\ OpenRecord(r, f, n) /\ n = conns + 1 /\ conns' = n /\ conns \in Nat
               /\ f \notin open /\ open' = open \cup {f} /\ stream' = [stream EXCEPT ![f] = n]
               /\ Call(t, "run", r, n, "idle")
               /\ alloc[r] # "live" /\ session[r] = 0 /\ event[n] = "none"
               /\ \A q \in Records : session[q] \in Nat /\ session[q] # n
               /\ Works(r) = {} /\ Watching(r) = {} /\ Opening(r) = {} /\ Serving(r) = {}
<1>1. /\ pc[t] = "idle" /\ conns < MaxConns /\ conns' = conns + 1
      /\ \E r \in Records, f \in Fds \ open :
           /\ OpenRecord(r, f, conns')
           /\ open' = open \cup {f}
           /\ stream' = [stream EXCEPT ![f] = conns']
           /\ Call(t, "run", r, conns', "idle")
    BY DEF OpenConnection
<1>2. conns \in Nat /\ MaxConns \in Nat
    BY Bounds DEF IInv, TypeOK, RootType
<1>3. PICK n \in Sessions : n = conns + 1 /\ conns' = n
    BY <1>1, <1>2 DEF Sessions
<1>4. PICK r \in Records, f \in Fds \ open :
          /\ OpenRecord(r, f, n) /\ open' = open \cup {f}
          /\ stream' = [stream EXCEPT ![f] = n]
          /\ Call(t, "run", r, n, "idle")
    BY <1>1, <1>3
<1>5. alloc[r] # "live"
    <2>1. CASE heap # <<>>
        <3>1. r = Head(heap) /\ heap \in Seq(Records)
            BY <1>4, <2>1 DEF OpenRecord, TakeRecord, IInv, TypeOK, RootType
        <3>2. r \in Range(heap)
            BY <2>1, <3>1, PopFront DEF IInv, Lists
        <3> QED
            BY <3>2 DEF IInv, Lists
    <2>2. CASE heap = <<>>
        BY <1>4, <2>2 DEF OpenRecord, TakeRecord
    <2> QED
        BY <2>1, <2>2
<1>6. session[r] = 0
    BY <1>5 DEF IInv, Uses
<1>7. event[n] = "none"
    <2>1. ~(n <= conns)
        BY <1>2, <1>3
    <2> QED
        BY <2>1 DEF IInv, Events
<1>8. \A q \in Records : session[q] \in Nat /\ session[q] # n
    <2> TAKE q \in Records
    <2>1. session[q] \in Nat /\ session[q] <= conns
        BY Bounds DEF IInv, TypeOK, RecType, Uses
    <2> QED
        BY <1>2, <1>3, <2>1
<1>9. Works(r) = {}
    <2>1. ASSUME NEW w \in Workers, NEW i \in DOMAIN queue[w], queue[w][i][2] = r PROVE FALSE
        <3>1. queue[w] \in Seq({"connect", "input"} \X Records \X Sessions)
            BY DEF IInv, TypeOK, PoolType
        <3>2. queue[w][i] \in {"connect", "input"} \X Records \X Sessions
            BY <3>1
        <3>3. queue[w][i][3] \in Sessions
            BY <3>2
        <3>4. session[r] = queue[w][i][3]
            BY <2>1 DEF IInv, Queued
        <3> QED
            BY <1>6, <3>3, <3>4, Bounds
    <2> QED
        BY <2>1, WorksAre
<1>10. Watching(r) = {}
    BY <1>6, Bounds DEF IInv, Events, Watching, Watched
<1>11. \A u \in Workers \cup Openers : pc[u] \notin {"idle", "delete"} => rec[u] # r
    BY <1>6, Bounds DEF IInv, Meant, Means
<1>12. Opening(r) = {}
    <2>1. \A u \in Openers : pc[u] # "delete"
        BY Bounds DEF IInv, Shape, Placed
    <2> QED
        BY <1>11, <2>1 DEF Opening
<1>13. Serving(r) = {}
    <2>1. \A w \in Workers : busy[w] => pc[w] \notin {"idle", "delete"}
        BY Bounds DEF IInv, Shape, Placed, InWork, Closing
    <2> QED
        BY <1>11, <2>1 DEF Serving
<1> QED
    <2> WITNESS r \in Records, f \in Fds, n \in Sessions
    <2> QED
        BY <1>2, <1>3, <1>4, <1>5, <1>6, <1>7, <1>8, <1>9, <1>10, <1>12, <1>13

LEMMA OpenLists ==
    ASSUME IInv, NEW r \in Records, NEW f, NEW n, alloc[r] # "live", OpenRecord(r, f, n)
    PROVE  Lists'
<1>1. /\ heap \in Seq(Records) /\ linked = {q \in Records : alloc[q] = "live"}
      /\ IsFiniteSet(linked) /\ Range(heap) = {q \in Records : alloc[q] = "heap"}
      /\ IsInjective(heap) /\ total = Cardinality(linked) + Len(heap)
      /\ alloc \in [Records -> {"none", "live", "heap", "freed"}]
    BY DEF IInv, TypeOK, RootType, RecType, Lists
<1>2. linked' = linked \cup {r} /\ alloc' = [alloc EXCEPT ![r] = "live"]
    BY DEF OpenRecord
<1>3. /\ alloc'[r] = "live" /\ \A q \in Records \ {r} : alloc'[q] = alloc[q]
    BY <1>1, <1>2
<1>4. linked' = {q \in Records : alloc'[q] = "live"}
    BY <1>1, <1>2, <1>3
<1>5. /\ IsFiniteSet(linked') /\ Cardinality(linked') = Cardinality(linked) + 1
      /\ Cardinality(linked) \in Nat /\ Len(heap) \in Nat
    BY <1>1, <1>2, AddOne, FS_CardinalityType, LenProperties
<1>6. CASE heap # <<>>
    <2>1. r = Head(heap) /\ heap' = Tail(heap) /\ total' = total
        BY <1>6 DEF OpenRecord, TakeRecord
    <2>2. /\ Range(heap') = Range(heap) \ {r} /\ IsInjective(heap') /\ Len(heap') = Len(heap) - 1
        BY <1>1, <1>6, <2>1, PopFront
    <2>3. Range(heap') = {q \in Records : alloc'[q] = "heap"}
        BY <1>1, <1>3, <2>2
    <2>4. total' = Cardinality(linked') + Len(heap')
        BY <1>1, <1>5, <2>1, <2>2
    <2> QED
        BY <1>4, <1>5, <2>2, <2>3, <2>4 DEF Lists
<1>7. CASE heap = <<>>
    <2>1. alloc[r] = "none" /\ heap' = heap /\ total' = total + 1
        BY <1>7 DEF OpenRecord, TakeRecord
    <2>2. Range(heap') = {q \in Records : alloc'[q] = "heap"}
        BY <1>1, <1>3, <2>1
    <2>3. total' = Cardinality(linked') + Len(heap')
        BY <1>1, <1>5, <2>1
    <2> QED
        BY <1>1, <1>4, <1>5, <2>1, <2>2, <2>3 DEF Lists
<1> QED
    BY <1>6, <1>7

LEMMA OpenKeeps ==
    ASSUME IInv, NEW t \in Threads, OpenConnection(t)
    PROVE  /\ Shape' /\ Uses' /\ Meant' /\ Queued' /\ Events' /\ Numbers' /\ Referred' /\ Lists'
           /\ Apart(t) /\ t \in Openers /\ pc'[t] = "run"
<1>0. t \in Threads /\ t # Ticker /\ t \notin Workers /\ t \in Openers /\ pc[t] = "idle"
    BY Bounds DEF OpenConnection
<1>1. PICK r \in Records, f \in Fds, n \in Sessions :
               /\ OpenRecord(r, f, n) /\ n = conns + 1 /\ conns' = n /\ conns \in Nat
               /\ f \notin open /\ open' = open \cup {f} /\ stream' = [stream EXCEPT ![f] = n]
               /\ Call(t, "run", r, n, "idle")
               /\ alloc[r] # "live" /\ session[r] = 0 /\ event[n] = "none"
               /\ \A q \in Records : session[q] \in Nat /\ session[q] # n
               /\ Works(r) = {} /\ Watching(r) = {} /\ Opening(r) = {} /\ Serving(r) = {}
    BY OpenIs
<1>2. /\ alloc' = [alloc EXCEPT ![r] = "live"] /\ count' = [count EXCEPT ![r] = 1]
      /\ fdOf' = [fdOf EXCEPT ![r] = f] /\ evloop' = [evloop EXCEPT ![r] = 0]
      /\ session' = [session EXCEPT ![r] = n]
      /\ UNCHANGED <<event, owner, evFd, evRec, edge, batch, dead, queue, busy, loopLock, holder>>
    BY <1>1 DEF OpenConnection, OpenRecord, eventVars, poolVars
<1>3. /\ alloc'[r] = "live" /\ count'[r] = 1 /\ fdOf'[r] = f /\ evloop'[r] = 0 /\ session'[r] = n
      /\ \A q \in Records \ {r} :
             /\ alloc'[q] = alloc[q] /\ count'[q] = count[q] /\ fdOf'[q] = fdOf[q]
             /\ evloop'[q] = evloop[q] /\ session'[q] = session[q]
      /\ stream'[f] = n /\ \A g \in open : stream'[g] = stream[g]
    <2>1. RecType /\ stream \in [Fds -> 0..MaxConns] /\ open \subseteq Fds
        BY DEF IInv, TypeOK, SockType
    <2> QED
        BY <1>1, <1>2, <2>1 DEF RecType
<1>4. Apart(t) /\ pc'[t] = "run" /\ rec'[t] = r /\ ses'[t] = n
    BY <1>0, <1>1, <1>2, CallIs DEF IInv
<1>5. Shape'
    <2>1. Placed(t)'
        BY <1>0, <1>4 DEF Placed
    <2> QED
        BY <1>4, <2>1, ShapeFrom DEF IInv
<1>6. Lists'
    BY <1>1, OpenLists
<1>7. \A q \in Records : session[q] # 0 => session'[q] = session[q] /\ q # r
    BY <1>1, <1>3
<1>8. Uses'
    <2>1. ASSUME NEW q \in Records
          PROVE  /\ session'[q] # 0 <=> alloc'[q] = "live"
                 /\ session'[q] <= conns'
                 /\ evloop'[q] \in {0, session'[q]}
                 /\ evloop'[q] # 0 => event'[session'[q]] # "none"
        <3>1. CASE q = r
            BY <1>1, <1>3, <3>1, Bounds
        <3>2. CASE q # r
            <4>1. session[q] <= conns
                BY DEF IInv, Uses
            <4>2. session'[q] <= conns'
                BY <1>1, <1>3, <3>2, <4>1
            <4> QED
                BY <1>2, <1>3, <3>2, <4>2 DEF IInv, Uses
        <3> QED
            BY <3>1, <3>2
    <2>2. \A q, p \in Records : session'[q] = session'[p] /\ session'[q] # 0 => q = p
        BY <1>1, <1>3 DEF IInv, Uses
    <2> QED
        BY <2>1, <2>2 DEF Uses
<1>9. Meant'
    <2>1. ASSUME NEW u \in Workers \cup Openers PROVE Means(u)'
        <3>1. Means(u) /\ u # Ticker /\ u \in Threads
            BY Bounds DEF IInv, Meant
        <3>2. CASE u # t
            <4>1. pc[u] \notin {"idle", "delete"} => session'[rec[u]] = session[rec[u]]
                BY <1>7, <3>1, Bounds DEF Means
            <4> QED
                BY <1>2, <1>4, <3>1, <3>2, <4>1 DEF Means, Apart, InLoop, Watched
        <3>3. CASE u = t
            BY <1>0, <1>1, <1>2, <1>3, <1>4, <3>3 DEF Means
        <3> QED
            BY <3>2, <3>3
    <2> QED
        BY <2>1 DEF Meant
<1>10. Queued'
    <2>1. ASSUME NEW w \in Workers, NEW i \in DOMAIN queue[w]
          PROVE  /\ session'[queue[w][i][2]] = queue[w][i][3]
                 /\ event[queue[w][i][3]] = "none" <=> queue[w][i][1] = "connect"
        <3>1. queue[w] \in Seq({"connect", "input"} \X Records \X Sessions)
            BY DEF IInv, TypeOK, PoolType
        <3>2. queue[w][i] \in {"connect", "input"} \X Records \X Sessions
            BY <3>1
        <3>3. queue[w][i][2] \in Records /\ queue[w][i][3] \in Sessions
            BY <3>2
        <3>4. /\ session[queue[w][i][2]] = queue[w][i][3]
              /\ event[queue[w][i][3]] = "none" <=> queue[w][i][1] = "connect"
            BY DEF IInv, Queued
        <3> QED
            BY <1>7, <3>3, <3>4, Bounds
    <2> QED
        BY <1>2, <2>1 DEF Queued
<1>11. Events'
    <2>1. \A s \in Sessions : s <= conns => s <= conns'
        BY <1>1 DEF Sessions
    <2>2. \A s \in Sessions : Watched(s) => evRec[s] \in Records /\ session'[evRec[s]] = s
        BY <1>7, Bounds DEF IInv, Events
    <2> QED
        BY <1>2, <2>1, <2>2 DEF IInv, Events, Watched
<1>12. Numbers'
    <2>1. \A y : Ended(y)' <=> Ended(y)
        BY <1>0, <1>4, Bounds DEF Ended, Apart
    <2>2. ASSUME NEW q \in Records, Held(q)'
          PROVE  fdOf'[q] \in open' /\ stream'[fdOf'[q]] = session'[q]
        <3>1. CASE q = r
            BY <1>1, <1>3, <3>1
        <3>2. CASE q # r
            <4>1. Held(q)
                BY <1>2, <1>3, <2>1, <2>2, <3>2 DEF Held
            <4>2. fdOf[q] \in open /\ stream[fdOf[q]] = session[q]
                BY <4>1 DEF IInv, Numbers
            <4> QED
                BY <1>1, <1>3, <3>2, <4>2
        <3> QED
            BY <3>1, <3>2
    <2>3. \A s \in Sessions : Watched(s) => evFd[s] = fdOf'[evRec[s]]
        <3>1. \A s \in Sessions : Watched(s) => evRec[s] \in Records \ {r}
            BY <1>7, Bounds DEF IInv, Events
        <3> QED
            BY <1>3, <3>1 DEF IInv, Numbers
    <2>4. \A g \in open' : stream'[g] \in Sessions
        BY <1>1, <1>3 DEF IInv, Numbers
    <2> QED
        BY <1>2, <2>2, <2>3, <2>4 DEF Numbers, Watched
<1>13. Referred'
    <2>1. \A q : Works(q)' = Works(q) /\ Watching(q)' = Watching(q)
        BY <1>2 DEF Works, Watching
    <2>2. \A q : Serving(q)' = Serving(q)
        BY <1>0, <1>2, <1>4, Bounds DEF Serving, Apart
    <2>3. /\ \A q \in Records \ {r} : Opening(q)' = Opening(q)
          /\ Opening(r)' = {t}
        <3>1. \A u \in Openers \ {t} : pc'[u] = pc[u] /\ rec'[u] = rec[u]
            BY <1>4, Bounds DEF Apart
        <3> QED
            BY <1>0, <1>1, <1>4, <3>1 DEF Opening
    <2>4. \A q \in Records \ {r} : Refs(q)' = Refs(q)
        BY <2>1, <2>2, <2>3 DEF Refs
    <2>5. Refs(r)' = 1
        <3>1. /\ Works(r)' = {} /\ Watching(r)' = {} /\ Serving(r)' = {}
              /\ Opening(r)' = {t}
            BY <1>1, <2>1, <2>2, <2>3
        <3>2. Refs(r)' = Cardinality(Works(r)') + Cardinality(Opening(r)')
                            + Cardinality(Watching(r)') + Cardinality(Serving(r)')
            BY DEF Refs
        <3>3. Cardinality({}) = 0 /\ Cardinality({t}) = 1
            BY FS_EmptySet, FS_Singleton
        <3>4. Refs(r)' = 0 + 1 + 0 + 0
            BY <3>1, <3>2, <3>3
        <3> QED
            BY <3>4
    <2>6. ASSUME NEW q \in Records
          PROVE  /\ IsFiniteSet(Works(q)')
                 /\ session'[q] # 0 => /\ count'[q] = Refs(q)'
                                       /\ event'[session'[q]] = "none" => count'[q] = 1
        <3>1. IsFiniteSet(Works(q)')
            BY <2>1 DEF IInv, Referred
        <3>2. CASE q = r
            BY <1>3, <2>5, <3>1, <3>2
        <3>3. CASE q # r
            BY <1>2, <1>3, <2>4, <3>1, <3>3 DEF IInv, Referred
        <3> QED
            BY <3>2, <3>3
    <2> QED
        BY <2>6 DEF Referred
<1> QED
    BY <1>0, <1>4, <1>5, <1>6, <1>8, <1>9, <1>10, <1>11, <1>12, <1>13

(* The oldest spare records are freed. *)
LEMMA TrimLists ==
    ASSUME IInv, Trim PROVE Lists'
<1>1. /\ heap \in Seq(Records) /\ linked = {q \in Records : alloc[q] = "live"}
      /\ IsFiniteSet(linked) /\ Range(heap) = {q \in Records : alloc[q] = "heap"}
      /\ IsInjective(heap) /\ total = Cardinality(linked) + Len(heap)
      /\ alloc \in [Records -> {"none", "live", "heap", "freed"}]
    BY DEF IInv, TypeOK, RootType, RecType, Lists
<1>2. PICK spare : spare = total - 2 * Cardinality(linked)
    OBVIOUS
<1>3. /\ spare > 0 /\ spare <= Len(heap)
      /\ alloc' = [r \in Records |->
                    IF \E i \in 1..spare : heap[i] = r THEN "freed" ELSE alloc[r]]
      /\ heap' = SubSeq(heap, spare + 1, Len(heap))
      /\ total' = total - spare /\ linked' = linked
    BY <1>2 DEF Trim
<1>4. Cardinality(linked) \in Nat /\ Len(heap) \in Nat /\ DOMAIN heap = 1..Len(heap)
    BY <1>1, FS_CardinalityType, LenProperties
<1>5. spare \in Int
    BY <1>1, <1>2, <1>4
<1>6. spare \in 1..Len(heap)
    BY <1>3, <1>4, <1>5
<1>7. PICK n \in Nat : n = Len(heap) - spare
    <2>1. Len(heap) - spare \in Nat
        BY <1>4, <1>6
    <2> QED
        BY <2>1
<1>8. /\ Len(heap') = n /\ DOMAIN heap' = 1..n
      /\ \A i \in 1..n : heap'[i] = heap[spare + i] /\ spare + i \in DOMAIN heap
    <2>1. \A a, b \in 1..Len(heap) + 1 :
              b = Len(heap) =>
                  /\ Len(SubSeq(heap, a, b)) = IF a <= b THEN b - a + 1 ELSE 0
                  /\ \A i \in 1..b - a + 1 : SubSeq(heap, a, b)[i] = heap[a + i - 1]
        BY <1>1, <1>4, SubSeqProperties
    <2>2. spare + 1 \in 1..Len(heap) + 1 /\ Len(heap) \in 1..Len(heap) + 1
        BY <1>4, <1>6
    <2>3. /\ Len(heap') = IF spare + 1 <= Len(heap) THEN Len(heap) - (spare + 1) + 1 ELSE 0
          /\ \A i \in 1..Len(heap) - (spare + 1) + 1 : heap'[i] = heap[spare + 1 + i - 1]
        BY <1>3, <2>1, <2>2
    <2>4. Len(heap) - (spare + 1) + 1 = n /\ (~(spare + 1 <= Len(heap)) => n = 0)
        <3>1. \A l \in Nat : \A i \in 1..l : l - i = n =>
                  l - (i + 1) + 1 = n /\ (~(i + 1 <= l) => n = 0)
            OBVIOUS
        <3> QED
            BY <1>4, <1>6, <1>7, <3>1
    <2>5. Len(heap') = n /\ \A i \in 1..n : heap'[i] = heap[spare + 1 + i - 1]
        BY <2>3, <2>4
    <2>6. \A i \in 1..n : spare + 1 + i - 1 = spare + i /\ spare + i \in DOMAIN heap
        BY <1>4, <1>6, <1>7
    <2>7. DOMAIN heap' = 1..Len(heap')
        <3>1. heap' \in Seq(Records)
            BY TypeRest DEF TypeOK, RootType
        <3> QED
            BY <3>1, LenProperties
    <2> QED
        BY <2>5, <2>6, <2>7
<1>9. IsInjective(heap')
    <2>1. \A i, j \in 1..n : heap[spare + i] = heap[spare + j] => i = j
        BY <1>1, <1>6, <1>8 DEF IsInjective
    <2> QED
        BY <1>8, <2>1 DEF IsInjective
<1>10. Range(heap') = {q \in Records : alloc'[q] = "heap"}
    <2>1. \A q : q \in Range(heap) <=> \E i \in DOMAIN heap : heap[i] = q
        BY DEF Range
    <2>2. \A q : q \in Range(heap') <=> \E i \in 1..n : heap'[i] = q
        BY <1>8 DEF Range
    <2>3. ASSUME NEW q \in Range(heap') PROVE q \in Records /\ alloc'[q] = "heap"
        <3>1. PICK i \in 1..n : heap[spare + i] = q /\ spare + i \in DOMAIN heap
            BY <1>8, <2>2
        <3>2. q \in Records /\ alloc[q] = "heap"
            BY <1>1, <2>1, <3>1
        <3>3. \A j \in 1..spare : heap[j] # q
            <4>1. \A j \in 1..spare : j \in DOMAIN heap /\ j # spare + i
                BY <1>4, <1>6, <3>1
            <4> QED
                BY <1>1, <3>1, <4>1 DEF IsInjective
        <3> QED
            BY <1>3, <3>2, <3>3
    <2>4. ASSUME NEW q \in Records, alloc'[q] = "heap" PROVE q \in Range(heap')
        <3>1. alloc[q] = "heap" /\ \A j \in 1..spare : heap[j] # q
            BY <1>3, <2>4
        <3>2. PICK j \in 1..Len(heap) : heap[j] = q
            BY <1>1, <1>4, <2>1, <3>1
        <3>3. j - spare \in 1..n /\ spare + (j - spare) = j
            BY <1>4, <1>6, <1>7, <3>1, <3>2
        <3> QED
            BY <1>8, <2>2, <3>2, <3>3
    <2> QED
        BY <2>3, <2>4
<1>11. linked' = {q \in Records : alloc'[q] = "live"}
    <2>1. \A i \in 1..spare : heap[i] \in Records /\ alloc[heap[i]] = "heap"
        <3>1. \A i \in DOMAIN heap : heap[i] \in Range(heap)
            BY DEF Range
        <3>2. \A i \in 1..spare : i \in DOMAIN heap
            BY <1>4, <1>6
        <3> QED
            BY <1>1, <3>1, <3>2
    <2>2. \A q \in Records : alloc'[q] = "live" <=> alloc[q] = "live"
        BY <1>3, <2>1
    <2> QED
        BY <1>1, <1>3, <2>2
<1>12. total' = Cardinality(linked') + Len(heap')
    <2>1. \A c, l \in Nat : \A i \in Int : l - i = n => (c + l) - i = c + n
        OBVIOUS
    <2> QED
        <3>1. Len(heap) - spare = n /\ total' = (Cardinality(linked) + Len(heap)) - spare
            BY <1>1, <1>3, <1>7
        <3>2. total' = Cardinality(linked) + n
            BY <1>4, <1>5, <2>1, <3>1
        <3> QED
            BY <1>3, <1>8, <3>2
<1> QED
    BY <1>1, <1>3, <1>9, <1>10, <1>11, <1>12 DEF Lists

LEMMA StillLists ==
    ASSUME IInv,
           \/ Stop \/ Twice \/ UNCHANGED vars
           \/ \E t \in Threads : OpenFails(t)
           \/ \E w \in Workers : Fetch(w)
           \/ \E s \in Sessions : PeerSends(s) \/ PeerCloses(s) \/ PeerResets(s)
    PROVE  Lists'
<1>1. UNCHANGED <<linked, heap, total, alloc>>
    BY DEF Stop, Twice, vars, OpenFails, Fetch, PeerSends, PeerCloses, PeerResets, PeerUnchanged,
       rootVars, recVars
<1> QED
    BY <1>1 DEF IInv, Lists

(* A step of a thread outside the delete phase leaves the loops in order, if it
   neither frees an event nor adds to a batch. *)
LEMMA LoopsMove ==
    ASSUME IInv, NEW t \in Threads, Apart(t), UNCHANGED loopLock,
           \A v \in Workers : pc[v] = "closed" => dead'[v] = dead[v],
           \A v \in Workers : batch'[v] \subseteq batch[v],
           \A s \in Sessions : Watched(s) => Watched(s)' /\ owner'[s] = owner[s],
           t \in Workers => pc[t] \notin {"delete", "closed"} /\ pc'[t] \notin {"delete", "closed"}
    PROVE  Loops'
<1>1. ASSUME NEW v \in Workers
      PROVE  /\ loopLock'[v] = IF pc'[v] \in {"delete", "closed"} THEN v ELSE None
             /\ pc'[v] \in {"delete", "closed"} => batch'[v] = {}
             /\ pc'[v] = "closed" => dead'[v] # <<>> /\ Head(dead'[v]) = ses'[v]
             /\ \A p \in batch'[v] : owner'[p[1]] = v /\ Watched(p[1])'
    <2>1. /\ loopLock[v] = IF pc[v] \in {"delete", "closed"} THEN v ELSE None
          /\ pc[v] \in {"delete", "closed"} => batch[v] = {}
          /\ pc[v] = "closed" => dead[v] # <<>> /\ Head(dead[v]) = ses[v]
          /\ \A p \in batch[v] : owner[p[1]] = v /\ Watched(p[1])
        BY DEF IInv, Loops
    <2>2. /\ pc'[v] \in {"delete", "closed"} <=> pc[v] \in {"delete", "closed"}
          /\ pc'[v] = "closed" => pc[v] = "closed" /\ ses'[v] = ses[v]
        BY Bounds DEF Apart
    <2>3. \A p \in batch'[v] : p \in batch[v] /\ p[1] \in Sessions
        BY DEF IInv, TypeOK, EventType
    <2>4. \A p \in batch'[v] : owner'[p[1]] = v /\ Watched(p[1])'
        BY <2>1, <2>3
    <2> QED
        BY <2>1, <2>2, <2>4
<1> QED
    BY <1>1 DEF Loops

LEMMA LoopsTalk ==
    ASSUME IInv, NEW t \in Threads, Talk(t), UNCHANGED loopLock,
           t \in Workers => pc[t] # "delete" /\ pc'[t] # "delete"
    PROVE  Loops'
<1>1. UNCHANGED <<batch, dead, owner, event>> /\ Apart(t) /\ pc[t] # "closed" /\ pc'[t] # "closed"
    BY DEF Talk, life
<1> QED
    BY <1>1, LoopsMove DEF Watched

LEMMA LoopsShared ==
    ASSUME IInv, NEW t \in Threads, Shared(t) \/ RunFails(t) \/ OpenConnection(t)
    PROVE  Loops'
<1>1. CASE Close(t) \/ CloseForget(t)
    <2>1. Talk(t) /\ UNCHANGED loopLock /\ pc[t] \in Closing
        BY <1>1, ClosingTalks DEF Close, CloseForget, Closing
    <2>2. \E label \in {ret[t], "del", "forget"} : pc'[t] = label
        <3>1. CASE CloseForget(t)
            BY <3>1, GotoIs DEF CloseForget, IInv
        <3>2. CASE Close(t)
            <4>1. CASE evloop[rec[t]] = 0
                BY <3>2, <4>1, GotoIs DEF Close, IInv
            <4>2. CASE evloop[rec[t]] # 0
                <5>1. PICK label \in {"del", "forget"} :
                          Call(t, label, rec[t], evloop[rec[t]], ret[t])
                    BY <3>2, <4>2 DEF Close
                <5> QED
                    BY <5>1, CallIs DEF IInv
            <4> QED
                BY <4>1, <4>2
        <3> QED
            BY <1>1, <3>1, <3>2
    <2>3. t \in Workers => pc[t] # "delete" /\ pc'[t] # "delete"
        BY <2>1, <2>2 DEF IInv, Shape, Placed, Closing
    <2> QED
        BY <2>1, <2>3, LoopsTalk
<1>2. CASE CloseDel(t)
    <2>1. /\ pc[t] = "del" /\ loopLock[owner[ses[t]]] = None
          /\ event' = [event EXCEPT ![ses[t]] = "deleted"]
          /\ dead' = [dead EXCEPT ![owner[ses[t]]] = <<ses[t]>> \o @]
          /\ UNCHANGED <<owner, batch, loopLock, busy>> /\ Goto(t, "forget")
        BY <1>2 DEF CloseDel, PushDead, poolVars
    <2>2. Apart(t) /\ pc'[t] = "forget"
        BY <2>1, GotoIs DEF IInv
    <2>3. event \in [Sessions -> {"none", "armed", "deleted", "freed"}]
          /\ dead \in [Workers -> Seq(Sessions)]
        BY DEF IInv, TypeOK, EventType
    <2>4. \A s \in Sessions : Watched(s) => Watched(s)' /\ owner'[s] = owner[s]
        BY <2>1, <2>3 DEF Watched
    <2>5. \A v \in Workers : pc[v] = "closed" => dead'[v] = dead[v]
        <3>1. \A v \in Workers : pc[v] = "closed" => loopLock[v] # None
            BY Bounds DEF IInv, Loops
        <3> QED
            BY <2>1, <2>3, <3>1
    <2> QED
        BY <2>1, <2>2, <2>4, <2>5, LoopsMove
<1>3. CASE RunLock(t)
    <2>1. Talk(t) /\ UNCHANGED loopLock /\ pc[t] = "run" /\ pc'[t] = "push"
        BY <1>3, RunTalks, GotoIs DEF RunLock, IInv
    <2> QED
        BY <2>1, LoopsTalk
<1>4. CASE RunPush(t)
    <2>1. /\ pc[t] = "push" /\ Goto(t, "idle")
          /\ UNCHANGED <<event, owner, batch, dead, loopLock, busy>>
        BY <1>4 DEF RunPush, eventVars
    <2>2. Apart(t) /\ pc'[t] = "idle"
        BY <2>1, GotoIs DEF IInv
    <2> QED
        BY <2>1, <2>2, LoopsMove DEF Watched
<1>5. CASE RunFails(t)
    <2>1. Leave(t) /\ UNCHANGED loopLock /\ pc[t] = "push"
        BY <1>5, Leaves DEF RunFails
    <2>2. Apart(t) /\ pc'[t] = "idle" /\ UNCHANGED <<event, owner, batch, dead>>
        BY <2>1 DEF Leave
    <2> QED
        BY <2>1, <2>2, LoopsMove DEF Watched
<1>6. CASE OpenConnection(t)
    <2>1. /\ Apart(t) /\ t \in Openers
          /\ UNCHANGED <<event, owner, batch, dead, loopLock>>
        BY <1>6, OpenKeeps DEF OpenConnection, eventVars
    <2> QED
        BY <2>1, LoopsMove, Bounds DEF Watched
<1> QED
    BY <1>1, <1>2, <1>3, <1>4, <1>5, <1>6 DEF Shared

LEMMA TakeIs ==
    ASSUME IInv, NEW w \in Workers, TakeWork(w)
    PROVE  /\ Apart(w) /\ pc[w] = "idle" /\ queue[w] # <<>>
           /\ pc'[w] \in {"connect", "input"}
           /\ pc'[w] = Head(queue[w])[1] /\ ses'[w] = Head(queue[w])[3]
<1>0. w \in Threads
    BY Bounds
<1>1. PICK label, r, s : /\ label = Head(queue[w])[1] /\ s = Head(queue[w])[3]
                         /\ Call(w, label, r, s, "idle")
    BY DEF TakeWork
<1>2. pc[w] = "idle" /\ queue[w] # <<>> /\ busy' = [busy EXCEPT ![w] = TRUE] /\ TypeOK
    BY DEF TakeWork, IInv
<1>3. Call(w, label, r, s, "idle") /\ busy' = [busy EXCEPT ![w] = TRUE] /\ TypeOK
    BY <1>1, <1>2
<1>4. Apart(w) /\ pc'[w] = label /\ ses'[w] = s
    BY <1>0, <1>3, CallIs
<1>5. label \in {"connect", "input"}
    <2>1. queue[w] \in Seq({"connect", "input"} \X Records \X Sessions)
        BY DEF IInv, TypeOK, PoolType
    <2>2. Head(queue[w]) \in {"connect", "input"} \X Records \X Sessions
        BY <1>2, <2>1, HeadTailProperties
    <2> QED
        BY <1>1, <2>2
<1> QED
    BY <1>1, <1>2, <1>4, <1>5

LEMMA LoopsWork ==
    ASSUME IInv, NEW w \in Workers, Work(w)
    PROVE  Loops'
<1>0. w \in Threads
    BY Bounds
<1>1. CASE TakeWork(w)
    <2>1. UNCHANGED <<event, owner, batch, dead, loopLock>>
        BY <1>1 DEF TakeWork, eventVars
    <2> QED
        BY <1>0, <1>1, <2>1, TakeIs, LoopsMove DEF Watched
<1>2. CASE ConnectCb(w)
    <2>1. /\ pc[w] = "connect" /\ Goto(w, "connected")
          /\ event' = [event EXCEPT ![ses[w]] = "armed"]
          /\ owner' = [owner EXCEPT ![ses[w]] = w]
          /\ UNCHANGED <<batch, dead, loopLock, busy>>
        BY <1>2 DEF ConnectCb, JoinLoop, poolVars
    <2>2. Apart(w) /\ pc'[w] = "connected"
        BY <1>0, <2>1, GotoIs DEF IInv
    <2>3. event[ses[w]] = "none"
        BY <2>1, ConnectIs
    <2>4. \A s \in Sessions : Watched(s) => Watched(s)' /\ owner'[s] = owner[s]
        BY <2>1, <2>3 DEF Watched, IInv, TypeOK, EventType
    <2> QED
        BY <1>0, <2>1, <2>2, <2>4, LoopsMove
<1>3. CASE ConnectFunc(w)
    <2>1. Talk(w) /\ UNCHANGED loopLock /\ pc[w] = "connected" /\ pc'[w] = "idle"
        BY <1>3, ConnectedTalks DEF ConnectFunc
    <2> QED
        BY <1>0, <2>1, LoopsTalk
<1>4. CASE ConnectRefused(w) \/ InputDestroy(w)
    <2>1. Leave(w) /\ UNCHANGED loopLock /\ pc[w] \in {"connect", "destroy"}
        BY <1>0, <1>4, Leaves DEF ConnectRefused, InputDestroy
    <2>2. Apart(w) /\ pc'[w] = "idle" /\ UNCHANGED <<event, owner, batch, dead>>
        BY <2>1 DEF Leave
    <2> QED
        BY <1>0, <2>1, <2>2, LoopsMove DEF Watched
<1>5. CASE \/ InputCb(w) \/ InputLock(w) \/ RecvData(w) \/ RecvAgain(w)
           \/ RecvClosed(w) \/ InputUnlock(w)
    <2>1. /\ Talk(w) /\ UNCHANGED loopLock
          /\ pc[w] \in InWork /\ pc'[w] \in InWork \cup Closing
        BY <1>5, InputTalks
    <2> QED
        BY <1>0, <2>1, LoopsTalk DEF InWork, Closing
<1> QED
    BY <1>1, <1>2, <1>3, <1>4, <1>5 DEF Work

LEMMA LoopsTurn ==
    ASSUME IInv, NEW w \in Workers, LoopTurn(w)
    PROVE  Loops'
<1>0. w \in Threads /\ TypeOK
    BY Bounds DEF IInv
<1>a. \A v \in Workers :
          /\ loopLock[v] = IF pc[v] \in {"delete", "closed"} THEN v ELSE None
          /\ pc[v] \in {"delete", "closed"} => batch[v] = {}
          /\ pc[v] = "closed" => dead[v] # <<>> /\ Head(dead[v]) = ses[v]
          /\ \A p \in batch[v] : owner[p[1]] = v /\ Watched(p[1]) /\ p[1] \in Sessions
    BY DEF IInv, Loops, TypeOK, EventType
<1>1. CASE Fetch(w)
    <2>1. /\ pc[w] = "idle"
          /\ batch' = [batch EXCEPT ![w] = UNION {{s} \X edge[s] :
                           s \in {y \in Sessions : owner[y] = w /\ edge[y] # {}}}]
          /\ UNCHANGED <<event, owner, dead, loopLock, pc, rec, ses, ret>>
        BY <1>1 DEF Fetch, threadVars
    <2>2. \A p \in batch'[w] : owner[p[1]] = w /\ Watched(p[1])
        <3>1. batch'[w] = UNION {{s} \X edge[s] :
                           s \in {y \in Sessions : owner[y] = w /\ edge[y] # {}}}
            BY <1>0, <2>1 DEF TypeOK, EventType
        <3>2. ASSUME NEW p \in batch'[w] PROVE owner[p[1]] = w /\ Watched(p[1])
            <4>1. PICK s \in Sessions : owner[s] = w /\ edge[s] # {} /\ p \in {s} \X edge[s]
                BY <3>1
            <4>2. p[1] = s
                BY <4>1
            <4> QED
                BY <4>1, <4>2 DEF IInv, Events, Watched
        <3> QED
            BY <3>2
    <2>3. \A v \in Workers \ {w} : batch'[v] = batch[v]
        BY <1>0, <2>1 DEF TypeOK, EventType
    <2>4. ASSUME NEW v \in Workers
          PROVE  /\ loopLock'[v] = IF pc'[v] \in {"delete", "closed"} THEN v ELSE None
                 /\ pc'[v] \in {"delete", "closed"} => batch'[v] = {}
                 /\ pc'[v] = "closed" => dead'[v] # <<>> /\ Head(dead'[v]) = ses'[v]
                 /\ \A p \in batch'[v] : owner'[p[1]] = v /\ Watched(p[1])'
        <3>1. CASE v = w
            BY <1>a, <2>1, <2>2, <3>1 DEF Watched
        <3>2. CASE v # w
            BY <1>a, <2>1, <2>3, <3>2 DEF Watched
        <3> QED
            BY <3>1, <3>2
    <2> QED
        BY <2>4 DEF Loops
<1>2. CASE Ref(w)
    <2>1. /\ pc[w] = "ref" /\ Goto(w, "run")
          /\ UNCHANGED <<event, owner, batch, dead, loopLock, busy>>
        BY <1>2 DEF Ref, eventVars, poolVars
    <2>2. Apart(w) /\ pc'[w] = "run"
        BY <1>0, <2>1, GotoIs
    <2> QED
        BY <1>0, <2>1, <2>2, LoopsMove DEF Watched
<1>3. CASE BeginDelete(w)
    <2>1. /\ pc[w] = "idle" /\ batch[w] = {} /\ Goto(w, "delete")
          /\ loopLock' = [loopLock EXCEPT ![w] = w]
          /\ UNCHANGED <<event, owner, batch, dead, busy>>
        BY <1>3 DEF BeginDelete, eventVars, poolVars
    <2>2. Apart(w) /\ pc'[w] = "delete"
        BY <1>0, <2>1, GotoIs
    <2>3. loopLock'[w] = w /\ \A v \in Workers \ {w} : loopLock'[v] = loopLock[v]
        BY <1>0, <2>1 DEF TypeOK
    <2>4. \A v \in Workers \ {w} : pc'[v] = pc[v] /\ ses'[v] = ses[v]
        BY <2>2, Bounds DEF Apart
    <2> QED
        BY <1>a, <2>1, <2>2, <2>3, <2>4 DEF Loops, Watched
<1>4. CASE EndDelete(w)
    <2>1. /\ pc[w] = "delete" /\ Goto(w, "idle")
          /\ loopLock' = [loopLock EXCEPT ![w] = None]
          /\ UNCHANGED <<event, owner, batch, dead, busy>>
        BY <1>4 DEF EndDelete, eventVars, poolVars
    <2>2. Apart(w) /\ pc'[w] = "idle"
        BY <1>0, <2>1, GotoIs
    <2>3. loopLock'[w] = None /\ \A v \in Workers \ {w} : loopLock'[v] = loopLock[v]
        BY <1>0, <2>1 DEF TypeOK
    <2>4. \A v \in Workers \ {w} : pc'[v] = pc[v] /\ ses'[v] = ses[v]
        BY <2>2, Bounds DEF Apart
    <2> QED
        BY <1>a, <2>1, <2>2, <2>3, <2>4 DEF Loops, Watched
<1>5. CASE CloseCb(w)
    <2>1. /\ dead[w] # <<>> /\ pc[w] = "delete" /\ pc'[w] = "closed" /\ Apart(w)
          /\ ses'[w] = Head(dead[w])
          /\ UNCHANGED <<event, owner, batch, dead, loopLock>>
        BY <1>5, CloseCbKeeps DEF CloseCb, eventVars
    <2>2. \A v \in Workers \ {w} : pc'[v] = pc[v] /\ ses'[v] = ses[v]
        BY <2>1, Bounds DEF Apart
    <2> QED
        BY <1>a, <2>1, <2>2 DEF Loops, Watched
<1>6. CASE CloseDestroy(w)
    <2>1. PICK s \in Sessions : s = ses[w] /\ owner[s] = w
        BY <1>6, DestroyIs
    <2>2. /\ pc[w] = "closed" /\ Goto(w, "delete")
          /\ event' = [event EXCEPT ![s] = "freed"]
          /\ dead' = [dead EXCEPT ![w] = Tail(@)]
          /\ UNCHANGED <<owner, batch, loopLock, busy>>
        BY <1>6, <2>1 DEF CloseDestroy, poolVars
    <2>3. Apart(w) /\ pc'[w] = "delete"
        BY <1>0, <2>2, GotoIs
    <2>4. \A v \in Workers \ {w} : pc'[v] = pc[v] /\ ses'[v] = ses[v] /\ dead'[v] = dead[v]
        BY <1>0, <2>2, <2>3, Bounds DEF Apart, TypeOK, EventType
    <2>5. \A y \in Sessions \ {s} : event'[y] = event[y]
        BY <1>0, <2>2 DEF TypeOK, EventType
    <2>6. ASSUME NEW v \in Workers
          PROVE  /\ loopLock'[v] = IF pc'[v] \in {"delete", "closed"} THEN v ELSE None
                 /\ pc'[v] \in {"delete", "closed"} => batch'[v] = {}
                 /\ pc'[v] = "closed" => dead'[v] # <<>> /\ Head(dead'[v]) = ses'[v]
                 /\ \A p \in batch'[v] : owner'[p[1]] = v /\ Watched(p[1])'
        <3>1. CASE v = w
            BY <1>a, <2>2, <2>3, <3>1
        <3>2. CASE v # w
            <4>1. \A p \in batch[v] : p[1] \in Sessions \ {s} /\ Watched(p[1]) /\ owner[p[1]] = v
                BY <1>a, <2>1, <3>2
            <4>2. \A p \in batch[v] : Watched(p[1])'
                BY <2>5, <4>1 DEF Watched
            <4> QED
                BY <1>a, <2>2, <2>4, <3>2, <4>1, <4>2
        <3> QED
            BY <3>1, <3>2
    <2> QED
        BY <2>6 DEF Loops
<1>7. CASE \E s \in Sessions : Handle(w, s, "read") \/ Handle(w, s, "error")
    <2>1. PICK s \in Sessions, flag \in {"read", "error"} : Handle(w, s, flag)
        BY <1>7
    <2>2. /\ Apart(w) /\ UNCHANGED loopLock /\ pc'[w] \in {"idle", "close", "ref"}
          /\ \A v \in Workers : batch'[v] \subseteq batch[v]
        BY <2>1, HandleKeeps
    <2>3. pc[w] = "idle" /\ UNCHANGED <<event, owner, dead>>
        BY <2>1 DEF Handle
    <2> QED
        BY <1>0, <2>2, <2>3, LoopsMove DEF Watched
<1> QED
    BY <1>1, <1>2, <1>3, <1>4, <1>5, <1>6, <1>7 DEF LoopTurn

LEMMA LoopsRest ==
    ASSUME IInv, \/ Tick \/ Trim \/ Stop \/ Twice \/ UNCHANGED vars
                 \/ \E t \in Threads : OpenFails(t)
                 \/ \E s \in Sessions : PeerSends(s) \/ PeerCloses(s) \/ PeerResets(s)
    PROVE  Loops'
<1>1. CASE Tick
    BY <1>1, TickTalks, LoopsTalk, Bounds
<1>2. CASE ~Tick
    <2>1. UNCHANGED <<pc, ses, loopLock, batch, dead, owner, event>>
        BY <1>2 DEF Trim, Stop, Twice, vars, OpenFails, PeerSends, PeerCloses, PeerResets,
           PeerUnchanged,
           eventVars, threadVars
    <2> QED
        BY <2>1 DEF IInv, Loops, Watched
<1> QED
    BY <1>1, <1>2

(* A step of one thread keeps what is known of the events that are deleted and armed,
   if no record loses an event that stays armed. *)
LEMMA SteadyMove ==
    ASSUME Steady, NEW t \in Threads, Apart(t),
           \A s \in Sessions : Passed(s) => event'[s] \in {"deleted", "freed"},
           \A s \in Sessions :
               event'[s] = "armed" =>
                   \/ evloop'[evRec'[s]] = s \/ s \in cutOff'
                   \/ /\ event[s] = "armed" /\ evRec'[s] = evRec[s]
                      /\ evloop'[evRec[s]] = evloop[evRec[s]] /\ cutOff \subseteq cutOff',
           pc'[t] = "forget" => ses'[t] \in Sessions /\ event'[ses'[t]] \in {"deleted", "freed"}
    PROVE  Steady'
<1>1. ASSUME NEW u \in Threads, pc'[u] = "forget"
      PROVE  ses'[u] \in Sessions /\ event'[ses'[u]] \in {"deleted", "freed"}
    <2>1. CASE u = t
        BY <1>1, <2>1
    <2>2. CASE u # t
        <3>1. pc[u] = "forget" /\ ses'[u] = ses[u]
            BY <1>1, <2>2 DEF Apart
        <3>2. ses[u] \in Sessions /\ Passed(ses[u])
            BY <3>1 DEF Steady
        <3> QED
            BY <3>1, <3>2
    <2> QED
        BY <2>1, <2>2
<1>2. ASSUME NEW s \in Sessions, event'[s] = "armed"
      PROVE  evloop'[evRec'[s]] = s \/ s \in cutOff'
    BY <1>2 DEF Steady
<1> QED
    BY <1>1, <1>2 DEF Steady, Passed

(* Most steps change neither an event nor a record's. *)
LEMMA SteadyPlain ==
    ASSUME Steady, NEW t \in Threads, Apart(t),
           UNCHANGED <<event, evRec, evloop, cutOff>>,
           pc'[t] = "forget" => ses'[t] \in Sessions /\ Passed(ses'[t])
    PROVE  Steady'
BY SteadyMove DEF Passed

(* The record's event is deleted, if it is neither armed nor freed. *)
LEMMA NotArmed ==
    ASSUME IInv, NEW r \in Records, evloop[r] # 0, ~Dangling(r), event[evloop[r]] # "armed"
    PROVE  evloop[r] \in Sessions /\ Passed(evloop[r])
<1>1. evloop[r] = session[r] /\ event[session[r]] # "none"
    BY DEF IInv, Uses
<1>2. evloop[r] \in Sessions
    BY Bounds DEF IInv, TypeOK, RecType
<1>3. event[evloop[r]] \in {"none", "armed", "deleted", "freed"}
    BY <1>2 DEF IInv, TypeOK, EventType
<1> QED
    BY <1>1, <1>2, <1>3 DEF Dangling, Passed

(* No event that is armed has a record that somebody lets go of for the last time. *)
LEMMA SteadyDrop ==
    ASSUME IInv, NEW t \in Threads, NEW r \in Records, Apart(t), DropRef(r), count[r] # 0,
           count[r] = 1 => \A s \in Watching(r) : event[s] # "armed",
           UNCHANGED <<evRec, cutOff>>, pc'[t] # "forget",
           \A s \in Sessions : event'[s] = event[s] \/ event'[s] = "freed"
    PROVE  Steady'
<1>1. /\ count[r] # 1 => UNCHANGED evloop
      /\ count[r] = 1 => evloop' = [evloop EXCEPT ![r] = 0]
    BY DropIs DEF IInv
<1>2. \A s \in Sessions : Passed(s) => event'[s] \in {"deleted", "freed"}
    BY DEF Passed
<1>3. ASSUME NEW s \in Sessions, event'[s] = "armed"
      PROVE  event[s] = "armed" /\ evloop'[evRec[s]] = evloop[evRec[s]]
    <2>1. event[s] = "armed"
        BY <1>3
    <2>2. evRec[s] = r => s \in Watching(r)
        BY <2>1 DEF Watching
    <2>3. evRec[s] \in Records /\ evloop \in [Records -> 0..MaxConns]
        BY <2>1 DEF IInv, Events, Watched, TypeOK, RecType
    <2> QED
        BY <1>1, <2>1, <2>2, <2>3
<1> QED
    BY <1>2, <1>3, SteadyMove DEF IInv

LEMMA SteadyClose ==
    ASSUME IInv, NEW t \in Threads, Close(t) \/ CloseDel(t) \/ CloseForget(t)
    PROVE  Steady'
<1>0. TypeOK /\ Steady
    BY DEF IInv
<1>1. CASE Close(t)
    <2>1. Apart(t) /\ pc[t] = "close" /\ UNCHANGED <<event, evRec, evloop, cutOff>>
        BY <1>1, ClosingTalks DEF Talk, Close, eventVars
    <2>2. rec[t] \in Records /\ ret[t] \in Backs
        BY <2>1, AtWork
    <2>3. ASSUME pc'[t] = "forget" PROVE ses'[t] \in Sessions /\ Passed(ses'[t])
        <3>1. ~Goto(t, ret[t])
            BY <1>0, <2>2, <2>3, GotoIs DEF Backs
        <3>2. /\ evloop[rec[t]] # 0 /\ ~Dangling(rec[t])
              /\ Call(t, IF event[evloop[rec[t]]] = "armed" THEN "del" ELSE "forget",
                      rec[t], evloop[rec[t]], ret[t])
            BY <1>1, <3>1 DEF Close
        <3>3. /\ ses'[t] = evloop[rec[t]]
              /\ pc'[t] = IF event[evloop[rec[t]]] = "armed" THEN "del" ELSE "forget"
            BY <1>0, <3>2, CallIs
        <3>4. event[evloop[rec[t]]] # "armed"
            BY <2>3, <3>3
        <3> QED
            BY <2>2, <3>2, <3>3, <3>4, NotArmed
    <2> QED
        BY <1>0, <2>1, <2>3, SteadyPlain
<1>2. CASE CloseDel(t)
    <2>1. /\ Goto(t, "forget") /\ UNCHANGED <<evRec, evloop, cutOff, busy>>
          /\ event' = [event EXCEPT ![ses[t]] = "deleted"]
        BY <1>2 DEF CloseDel, recVars, poolVars
    <2>2. Apart(t) /\ ses'[t] = ses[t]
        BY <1>0, <2>1, GotoIs
    <2>3. ses[t] \in Sessions /\ event[ses[t]] = "armed"
        BY <1>2, DelIs
    <2>4. /\ event'[ses[t]] = "deleted"
          /\ \A s \in Sessions \ {ses[t]} : event'[s] = event[s]
        BY <1>0, <2>1, <2>3 DEF TypeOK, EventType
    <2>5. \A s \in Sessions : Passed(s) => event'[s] \in {"deleted", "freed"}
        BY <2>4 DEF Passed
    <2> QED
        BY <1>0, <2>1, <2>2, <2>3, <2>4, <2>5, SteadyMove
<1>3. CASE CloseForget(t)
    <2> DEFINE r == rec[t]
    <2>1. /\ Apart(t) /\ pc[t] = "forget" /\ UNCHANGED <<event, evRec>>
          /\ evloop' = [evloop EXCEPT ![r] = 0] /\ pc'[t] = ret[t]
          /\ cutOff' = IF t = Ticker THEN cutOff \cup ({evloop[r]} \ {0, ses[t]}) ELSE cutOff
        <3>1. Goto(t, ret[t])
            BY <1>3 DEF CloseForget
        <3>2. pc'[t] = ret[t]
            BY <1>0, <3>1, GotoIs
        <3> QED
            BY <1>3, <3>2, ClosingTalks DEF Talk, CloseForget
    <2>2. /\ r \in Records /\ ret[t] # "forget" /\ cutOff \subseteq cutOff'
          /\ evloop \in [Records -> 0..MaxConns]
          /\ t # Ticker => session[r] = ses[t]
        BY <1>0, <2>1, AtWork DEF Backs, TypeOK, RecType
    <2>3. ses[t] \in Sessions /\ Passed(ses[t])
        BY <1>0, <2>1 DEF Steady
    <2>4. \A q \in Records \ {r} : evloop'[q] = evloop[q]
        BY <2>1, <2>2
    <2>5. ASSUME NEW s \in Sessions, event[s] = "armed"
          PROVE  s \in cutOff' \/ evloop'[evRec[s]] = evloop[evRec[s]]
        <3>1. evRec[s] \in Records /\ session[evRec[s]] = s /\ s # ses[t] /\ s # 0
            BY <2>3, <2>5, Bounds DEF IInv, Events, Watched, Passed
        <3>2. evloop[evRec[s]] = s \/ s \in cutOff
            BY <1>0, <2>5 DEF Steady
        <3>3. CASE evRec[s] = r
            BY <2>1, <2>2, <3>1, <3>2, <3>3
        <3> QED
            BY <2>4, <3>1, <3>3
    <2> HIDE DEF r
    <2> QED
        BY <1>0, <2>1, <2>2, <2>5, SteadyMove DEF Passed
<1> QED
    BY <1>1, <1>2, <1>3

LEMMA SteadyLeaves ==
    ASSUME IInv, NEW t \in Threads, UNCHANGED cutOff,
           \/ RunFails(t)
           \/ t \in Workers /\ (ConnectRefused(t) \/ InputDestroy(t))
    PROVE  Steady'
<1>1. t \in Workers \cup Openers /\ Leave(t)
    BY Leaves
<1>2. PICK r \in Records : /\ r = rec[t] /\ count[r] # 0
                           /\ count[r] = 1 => Watching(r) = {}
    BY <1>1, LeaveDrops
<1>3. /\ DropRef(r) /\ Apart(t) /\ pc'[t] # "forget" /\ UNCHANGED <<event, evRec>>
    BY <1>1, <1>2 DEF Leave
<1> QED
    BY <1>2, <1>3, SteadyDrop

LEMMA SteadyShared ==
    ASSUME IInv, NEW t \in Threads, Shared(t) \/ RunFails(t) \/ OpenConnection(t)
    PROVE  Steady'
<1>0. TypeOK /\ Steady
    BY DEF IInv
<1>1. CASE Close(t) \/ CloseDel(t) \/ CloseForget(t)
    BY <1>1, SteadyClose
<1>2. CASE RunLock(t) \/ RunPush(t)
    <2>1. \E label \in {"push", "idle"} : Goto(t, label)
        BY <1>2 DEF RunLock, RunPush
    <2>2. UNCHANGED <<event, evRec, evloop, cutOff, busy>>
        BY <1>2 DEF RunLock, RunPush, recVars, eventVars
    <2>3. Apart(t) /\ pc'[t] # "forget"
        BY <1>0, <2>1, <2>2, GotoIs
    <2> QED
        BY <1>0, <2>2, <2>3, SteadyPlain
<1>3. CASE RunFails(t)
    BY <1>3, SteadyLeaves DEF RunFails, eventVars
<1>4. CASE OpenConnection(t)
    <2>1. PICK r \in Records, f \in Fds, n \in Sessions :
               /\ OpenRecord(r, f, n) /\ Watching(r) = {}
        BY <1>4, OpenIs
    <2>2. /\ evloop' = [evloop EXCEPT ![r] = 0] /\ evloop \in [Records -> 0..MaxConns]
        BY <1>0, <2>1 DEF OpenRecord, TypeOK, RecType
    <2>3. Apart(t) /\ UNCHANGED <<event, evRec, cutOff>>
        BY <1>4, OpenKeeps DEF OpenConnection, eventVars
    <2>4. pc'[t] # "forget"
        <3>1. \E q, c : Call(t, "run", q, c, "idle")
            BY <1>4 DEF OpenConnection
        <3> QED
            BY <1>0, <3>1, CallIs
    <2>5. ASSUME NEW s \in Sessions, event[s] = "armed"
          PROVE  evloop'[evRec[s]] = evloop[evRec[s]]
        <3>1. evRec[s] \in Records
            BY <2>5 DEF IInv, Events, Watched
        <3>2. evRec[s] # r
            BY <2>1, <2>5 DEF Watching
        <3> QED
            BY <2>2, <3>1, <3>2
    <2> QED
        BY <1>0, <2>3, <2>4, <2>5, SteadyMove DEF Passed
<1> QED
    BY <1>1, <1>2, <1>3, <1>4 DEF Shared

LEMMA SteadyWork ==
    ASSUME IInv, NEW w \in Workers, Work(w)
    PROVE  Steady'
<1>0. TypeOK /\ Steady /\ w \in Threads
    BY Bounds DEF IInv
<1>1. CASE TakeWork(w)
    <2>1. UNCHANGED <<event, evRec, evloop, cutOff>>
        BY <1>1 DEF TakeWork, recVars, eventVars
    <2>2. Apart(w) /\ pc'[w] # "forget"
        BY <1>1, TakeIs
    <2> QED
        BY <1>0, <2>1, <2>2, SteadyPlain
<1>2. CASE ConnectCb(w)
    <2>1. PICK r \in Records, s \in Sessions :
               r = rec[w] /\ s = ses[w] /\ session[r] = s /\ event[s] = "none"
        BY <1>2, ConnectIs DEF ConnectCb
    <2>2. /\ Goto(w, "connected") /\ UNCHANGED <<busy, cutOff>>
          /\ event' = [event EXCEPT ![s] = "armed"]
          /\ evRec' = [evRec EXCEPT ![s] = r]
          /\ evloop' = [evloop EXCEPT ![r] = s]
        BY <1>2, <2>1 DEF ConnectCb, poolVars
    <2>3. Apart(w) /\ pc'[w] # "forget"
        BY <1>0, <2>2, GotoIs
    <2>4. /\ evloop \in [Records -> 0..MaxConns]
          /\ event \in [Sessions -> {"none", "armed", "deleted", "freed"}]
          /\ evRec \in [Sessions -> Records \cup {None}]
        BY <1>0 DEF TypeOK, RecType, EventType
    <2>5. /\ evRec'[s] = r /\ evloop'[r] = s
          /\ \A x \in Sessions \ {s} : event'[x] = event[x] /\ evRec'[x] = evRec[x]
          /\ \A q \in Records \ {r} : evloop'[q] = evloop[q]
        BY <2>2, <2>4
    <2>6. \A x \in Sessions : Passed(x) => event'[x] \in {"deleted", "freed"}
        BY <2>1, <2>5 DEF Passed
    <2>7. ASSUME NEW x \in Sessions \ {s}, event'[x] = "armed"
          PROVE  /\ event[x] = "armed" /\ evRec'[x] = evRec[x]
                 /\ evloop'[evRec[x]] = evloop[evRec[x]]
        <3>1. event[x] = "armed" /\ evRec'[x] = evRec[x]
            BY <2>5, <2>7
        <3>2. evRec[x] \in Records /\ session[evRec[x]] = x
            BY <3>1 DEF IInv, Events, Watched
        <3> QED
            BY <2>1, <2>5, <3>1, <3>2
    <2> QED
        BY <1>0, <2>2, <2>3, <2>5, <2>6, <2>7, SteadyMove
<1>3. CASE ConnectFunc(w)
    <2>1. UNCHANGED <<event, evRec, evloop, cutOff>>
        BY <1>3 DEF ConnectFunc, recVars, eventVars
    <2> QED
        BY <1>0, <1>3, <2>1, ConnectedTalks, SteadyPlain DEF Talk
<1>4. CASE ConnectRefused(w) \/ InputDestroy(w)
    BY <1>0, <1>4, SteadyLeaves DEF ConnectRefused, InputDestroy, eventVars
<1>5. CASE InputCb(w) \/ InputLock(w) \/ RecvData(w) \/ RecvAgain(w) \/ InputUnlock(w)
    <2>1. Apart(w)
        BY <1>5, InputTalks DEF Talk
    <2>2. UNCHANGED <<event, evRec, evloop, cutOff>>
        BY <1>5 DEF InputCb, InputLock, RecvData, RecvAgain, InputUnlock, recVars, eventVars
    <2>3. pc'[w] # "forget"
        <3>1. \/ \E label \in {"destroy", "lock", "recv", "unlock"} : Goto(w, label)
              \/ \E r, s, back : Call(w, "close", r, s, back)
            BY <1>5 DEF InputCb, InputLock, RecvData, RecvAgain, InputUnlock, AfterData
        <3> QED
            BY <1>0, <3>1, GotoIs, CallIs
    <2> QED
        BY <1>0, <2>1, <2>2, <2>3, SteadyPlain
<1>6. CASE RecvClosed(w)
    <2>1. Apart(w) /\ pc[w] = "recv" /\ UNCHANGED <<event, evRec, evloop, cutOff>>
        BY <1>6, InputTalks DEF Talk, RecvClosed, recVars, eventVars
    <2>2. rec[w] \in Records
        BY <1>0, <2>1, AtWork
    <2>3. ASSUME pc'[w] = "forget" PROVE ses'[w] \in Sessions /\ Passed(ses'[w])
        <3>1. ~Goto(w, "unlock")
            BY <1>0, <2>3, GotoIs
        <3>2. /\ evloop[rec[w]] # 0 /\ ~Dangling(rec[w])
              /\ Call(w, IF event[evloop[rec[w]]] = "armed" THEN "del" ELSE "forget",
                      rec[w], evloop[rec[w]], "unlock")
            BY <1>6, <3>1 DEF RecvClosed
        <3>3. /\ ses'[w] = evloop[rec[w]]
              /\ pc'[w] = IF event[evloop[rec[w]]] = "armed" THEN "del" ELSE "forget"
            BY <1>0, <3>2, CallIs
        <3>4. event[evloop[rec[w]]] # "armed"
            BY <2>3, <3>3
        <3> QED
            BY <2>2, <3>2, <3>3, <3>4, NotArmed
    <2> QED
        BY <1>0, <2>1, <2>3, SteadyPlain
<1> QED
    BY <1>1, <1>2, <1>3, <1>4, <1>5, <1>6 DEF Work

LEMMA SteadyTurn ==
    ASSUME IInv, NEW w \in Workers, LoopTurn(w)
    PROVE  Steady'
<1>0. TypeOK /\ Steady /\ w \in Threads
    BY Bounds DEF IInv
<1>1. CASE Fetch(w)
    BY <1>0, <1>1 DEF Fetch, Steady, Passed, recVars, threadVars
<1>2. CASE Ref(w)
    <2>1. Goto(w, "run") /\ UNCHANGED <<event, evRec, evloop, cutOff, busy>>
        BY <1>2 DEF Ref, eventVars, poolVars
    <2>2. Apart(w) /\ pc'[w] # "forget"
        BY <1>0, <2>1, GotoIs
    <2> QED
        BY <1>0, <2>1, <2>2, SteadyPlain
<1>3. CASE BeginDelete(w) \/ EndDelete(w)
    <2>1. \E label \in {"delete", "idle"} : Goto(w, label)
        BY <1>3 DEF BeginDelete, EndDelete
    <2>2. UNCHANGED <<event, evRec, evloop, cutOff, busy>>
        BY <1>3 DEF BeginDelete, EndDelete, recVars, eventVars, poolVars
    <2>3. Apart(w) /\ pc'[w] # "forget"
        BY <1>0, <2>1, <2>2, GotoIs
    <2> QED
        BY <1>0, <2>2, <2>3, SteadyPlain
<1>4. CASE CloseCb(w)
    <2>1. Apart(w) /\ pc'[w] = "closed" /\ UNCHANGED <<event, evRec, evloop, cutOff>>
        BY <1>4, CloseCbKeeps DEF CloseCb, recVars, eventVars
    <2> QED
        BY <1>0, <2>1, SteadyPlain
<1>5. CASE CloseDestroy(w)
    <2>1. PICK r \in Records, s \in Sessions :
              /\ r = rec[w] /\ s = ses[w] /\ event[s] = "deleted" /\ count[r] # 0
              /\ count[r] = 1 => Watching(r) = {s}
        BY <1>5, DestroyIs
    <2>2. /\ DropRef(r) /\ event' = [event EXCEPT ![s] = "freed"]
          /\ Goto(w, "delete") /\ UNCHANGED <<evRec, cutOff, busy>>
        BY <1>5, <2>1 DEF CloseDestroy, poolVars
    <2>3. Apart(w) /\ pc'[w] # "forget"
        BY <1>0, <2>2, GotoIs
    <2>4. \A x \in Sessions : event'[x] = event[x] \/ event'[x] = "freed"
        BY <1>0, <2>2 DEF TypeOK, EventType
    <2>5. count[r] = 1 => \A x \in Watching(r) : event[x] # "armed"
        BY <2>1
    <2> QED
        BY <1>0, <2>1, <2>2, <2>3, <2>4, <2>5, SteadyDrop
<1>6. CASE \E s \in Sessions : Handle(w, s, "read") \/ Handle(w, s, "error")
    <2>1. PICK s \in Sessions, flag \in {"read", "error"} : Handle(w, s, flag)
        BY <1>6
    <2>2. Apart(w) /\ pc'[w] \in {"idle", "close", "ref"}
        BY <2>1, HandleKeeps
    <2>3. UNCHANGED <<event, evRec, evloop, cutOff>>
        BY <2>1 DEF Handle, recVars
    <2> QED
        BY <1>0, <2>2, <2>3, SteadyPlain
<1> QED
    BY <1>1, <1>2, <1>3, <1>4, <1>5, <1>6 DEF LoopTurn

LEMMA SteadyRest ==
    ASSUME IInv, \/ Tick \/ Trim \/ Stop \/ Twice \/ UNCHANGED vars
                 \/ \E t \in Threads : OpenFails(t)
                 \/ \E s \in Sessions : PeerSends(s) \/ PeerCloses(s) \/ PeerResets(s)
    PROVE  Steady'
<1>0. Steady
    BY DEF IInv
<1>1. CASE Tick
    <2>1. UNCHANGED <<event, evRec, evloop, cutOff>>
        BY <1>1 DEF Tick, TickCall, TickSee, recVars, eventVars
    <2> QED
        BY <1>0, <1>1, <2>1, TickTalks, Bounds, SteadyPlain DEF Talk
<1>2. CASE ~Tick
    <2>1. UNCHANGED <<event, evRec, evloop, cutOff, pc, ses>>
        BY <1>2 DEF Trim, Stop, Twice, vars, OpenFails, PeerSends, PeerCloses, PeerResets,
           PeerUnchanged, recVars, eventVars, threadVars
    <2> QED
        BY <1>0, <2>1 DEF Steady, Passed
<1> QED
    BY <1>1, <1>2

-----------------------------------------------------------------------------
(* The invariant holds initially, and every step keeps it. *)
LEMMA Starts == Init => IInv
<1> SUFFICES ASSUME Init PROVE IInv
    OBVIOUS
<1>1. TypeOK
    BY TypeInit
<1>2. /\ pc = [t \in Threads |-> "idle"] /\ busy = [w \in Workers |-> FALSE]
      /\ ret = [t \in Threads |-> "idle"]
      /\ session = [r \in Records |-> 0] /\ alloc = [r \in Records |-> "none"]
      /\ evloop = [r \in Records |-> 0] /\ conns = 0
      /\ event = [s \in Sessions |-> "none"] /\ edge = [s \in Sessions |-> {}]
      /\ batch = [w \in Workers |-> {}] /\ dead = [w \in Workers |-> <<>>]
      /\ loopLock = [w \in Workers |-> None] /\ queue = [w \in Workers |-> <<>>]
      /\ open = {} /\ eof = [s \in Sessions |-> FALSE] /\ ~stoping
      /\ heap = <<>> /\ linked = {} /\ total = 0
    BY DEF Init
<1>3. Shape
    BY <1>2, Bounds DEF Shape, Placed, InWork, Closing
<1>4. Uses
    <2>1. 0 <= 0
        OBVIOUS
    <2> QED
        BY <1>2, <2>1 DEF Uses
<1>5. Meant /\ Queued
    <2>1. \A t \in Workers \cup Openers : pc[t] = "idle"
        BY <1>2, Bounds
    <2>2. \A w \in Workers : DOMAIN queue[w] = {}
        BY <1>2
    <2> QED
        BY <2>1, <2>2 DEF Meant, Means, Queued
<1>6. Events
    <2>1. Range(<<>>) = {} /\ IsInjective(<<>>)
        BY DEF Range, IsInjective
    <2> QED
        BY <1>2, <2>1 DEF Events, Watched
<1>7. Loops
    <2>1. \A w \in Workers : pc[w] = "idle"
        BY <1>2, Bounds
    <2> QED
        BY <1>2, <2>1 DEF Loops
<1>8. Numbers
    BY <1>2 DEF Numbers, Held, Watched
<1>9. Steady
    BY <1>2 DEF Steady
<1>10. Referred
    <2>1. \A r \in Records : Works(r) = {}
        <3>1. \A w \in Workers : DOMAIN queue[w] = {}
            BY <1>2
        <3> QED
            BY <3>1, WorksAre
    <2> QED
        BY <1>2, <2>1, FS_EmptySet DEF Referred
<1>11. Lists
    <2>1. Range(<<>>) = {} /\ IsInjective(<<>>) /\ Len(<<>>) = 0
        BY DEF Range, IsInjective
    <2>2. IsFiniteSet({}) /\ Cardinality({}) = 0
        BY FS_EmptySet
    <2> QED
        BY <1>2, <2>1, <2>2 DEF Lists
<1> QED
    BY <1>1, <1>3, <1>4, <1>5, <1>6, <1>7, <1>8, <1>9, <1>10, <1>11 DEF IInv

Parts == Shape /\ Uses /\ Meant /\ Queued /\ Events /\ Numbers /\ Referred /\ Lists

LEMMA PartsTalk ==
    ASSUME IInv, NEW t \in Threads, Talk(t), Placed(t)'
    PROVE  Parts'
BY TalkKeeps, ShapeFrom DEF Talk, IInv, Parts

LEMMA PartsLeave ==
    ASSUME IInv, NEW t \in Threads,
           \/ RunFails(t)
           \/ t \in Workers /\ (ConnectRefused(t) \/ InputDestroy(t))
    PROVE  Parts'
<1>1. t \in Workers \cup Openers /\ Leave(t) /\ Placed(t)'
    BY Leaves
<1>2. /\ rec[t] \in Records /\ ses[t] \in Sessions /\ session[rec[t]] = ses[t]
      /\ count[rec[t]] # 0
    BY <1>1, LeaveDrops
<1>3. Lists'
    <2>1. DropRef(rec[t]) /\ session[rec[t]] # 0
        BY <1>1, <1>2, Bounds DEF Leave
    <2> QED
        BY <1>2, <2>1, DropLists
<1>4. Shape'
    BY <1>1, ShapeFrom DEF IInv, Leave
<1> QED
    BY <1>1, <1>3, <1>4, LeaveKeeps, LeaveRefs DEF Parts

LEMMA PartsStill ==
    ASSUME IInv,
           \/ Trim \/ Stop \/ Twice \/ UNCHANGED vars
           \/ \E t \in Threads : OpenFails(t)
           \/ \E w \in Workers : Fetch(w)
           \/ \E s \in Sessions : PeerSends(s) \/ PeerCloses(s) \/ PeerResets(s)
    PROVE  Parts'
<1>1. TypeOK'
    BY TypeRun, TypeLoop, TypeRest DEF LoopTurn
<1>2. Still
    BY Stills
<1>3. Lists'
    BY TrimLists, StillLists
<1> QED
    BY <1>1, <1>2, <1>3, StillKeeps DEF Parts

LEMMA PartsShared ==
    ASSUME IInv, NEW t \in Threads, Shared(t) \/ RunFails(t) \/ OpenConnection(t) \/ OpenFails(t)
    PROVE  Parts'
<1>1. CASE Close(t) \/ CloseForget(t)
    BY <1>1, ClosingTalks, PartsTalk
<1>2. CASE CloseDel(t)
    BY <1>2, DelKeeps DEF Parts
<1>3. CASE RunLock(t)
    BY <1>3, RunTalks, PartsTalk
<1>4. CASE RunPush(t)
    BY <1>4, PushKeeps DEF Parts
<1>5. CASE RunFails(t)
    BY <1>5, PartsLeave
<1>6. CASE OpenConnection(t)
    BY <1>6, OpenKeeps DEF Parts
<1>7. CASE OpenFails(t)
    BY <1>7, PartsStill
<1> QED
    BY <1>1, <1>2, <1>3, <1>4, <1>5, <1>6, <1>7 DEF Shared

LEMMA PartsWorker ==
    ASSUME IInv, NEW w \in Workers, Work(w) \/ LoopTurn(w)
    PROVE  Parts'
<1>0. w \in Threads
    BY Bounds
<1>1. CASE TakeWork(w)
    BY <1>1, TakeKeeps DEF Parts
<1>2. CASE ConnectCb(w)
    BY <1>2, ConnectKeeps DEF Parts
<1>3. CASE ConnectFunc(w)
    BY <1>0, <1>3, ConnectedTalks, PartsTalk
<1>4. CASE ConnectRefused(w) \/ InputDestroy(w)
    BY <1>0, <1>4, PartsLeave
<1>5. CASE \/ InputCb(w) \/ InputLock(w) \/ RecvData(w) \/ RecvAgain(w)
           \/ RecvClosed(w) \/ InputUnlock(w)
    BY <1>0, <1>5, InputTalks, PartsTalk
<1>6. CASE Fetch(w)
    BY <1>6, PartsStill
<1>7. CASE Ref(w)
    BY <1>7, RefKeeps DEF Parts
<1>8. CASE BeginDelete(w) \/ EndDelete(w)
    BY <1>0, <1>8, DeletingTalks, PartsTalk
<1>9. CASE CloseCb(w)
    BY <1>9, CloseCbKeeps DEF Parts
<1>10. CASE CloseDestroy(w)
    BY <1>10, DestroyKeeps DEF Parts
<1>11. CASE \E s \in Sessions : Handle(w, s, "read") \/ Handle(w, s, "error")
    <2>1. PICK s \in Sessions, flag \in {"read", "error"} : Handle(w, s, flag)
        BY <1>11
    <2> QED
        BY <2>1, HandleKeeps DEF Parts
<1> QED
    BY <1>1, <1>2, <1>3, <1>4, <1>5, <1>6, <1>7, <1>8, <1>9, <1>10, <1>11 DEF Work, LoopTurn

LEMMA PartsRest ==
    ASSUME IInv, \/ Tick \/ Trim \/ Stop \/ Twice \/ UNCHANGED vars
                 \/ \E s \in Sessions : PeerSends(s) \/ PeerCloses(s) \/ PeerResets(s)
    PROVE  Parts'
<1>1. CASE Tick
    BY <1>1, TickTalks, PartsTalk, Bounds
<1>2. CASE ~Tick
    BY <1>2, PartsStill
<1> QED
    BY <1>1, <1>2

LEMMA Kept == IInv /\ [Next]_vars => IInv'
<1> SUFFICES ASSUME IInv, [Next]_vars PROVE IInv'
    OBVIOUS
<1>1. TypeOK'
    BY TypeStep
<1>2. Parts' /\ Loops' /\ Steady'
    <2>1. CASE \E t \in Threads : Shared(t) \/ RunFails(t) \/ OpenConnection(t) \/ OpenFails(t)
        <3>1. PICK t \in Threads : Shared(t) \/ RunFails(t) \/ OpenConnection(t) \/ OpenFails(t)
            BY <2>1
        <3>2. Parts'
            BY <3>1, PartsShared
        <3>3. Loops'
            BY <3>1, LoopsShared, LoopsRest
        <3>4. Steady'
            BY <3>1, SteadyShared, SteadyRest
        <3> QED
            BY <3>2, <3>3, <3>4
    <2>2. CASE \E w \in Workers : Work(w) \/ LoopTurn(w)
        <3>1. PICK w \in Workers : Work(w) \/ LoopTurn(w)
            BY <2>2
        <3>2. Parts'
            BY <3>1, PartsWorker
        <3>3. Loops' /\ Steady'
            BY <3>1, LoopsWork, LoopsTurn, SteadyWork, SteadyTurn
        <3> QED
            BY <3>2, <3>3
    <2>3. CASE \/ Tick \/ Trim \/ Stop \/ Twice \/ UNCHANGED vars
               \/ \E s \in Sessions : PeerSends(s) \/ PeerCloses(s) \/ PeerResets(s)
        <3>1. Parts'
            BY <2>3, PartsRest
        <3>2. Loops'
            BY <2>3, LoopsRest
        <3>3. Steady'
            BY <2>3, SteadyRest
        <3> QED
            BY <3>1, <3>2, <3>3
    <2> QED
        BY <2>1, <2>2, <2>3, StepsAre
<1> QED
    BY <1>1, <1>2 DEF Parts, IInv

(* For any number of records, workers and openers, and whatever fails: the parts of
   the invariant hold throughout, whoever closes a connection, and until two threads
   delete one event. *)
LEMMA Invariance == Spec => []IInv
<1>1. Init => IInv
    BY Starts
<1>2. IInv /\ [Next]_vars => IInv'
    BY Kept
<1> QED
    BY <1>1, <1>2, PTL DEF Spec

(* Every variable has its type. *)
THEOREM Typed == Spec => []TypeOK
<1>1. IInv => TypeOK
    BY DEF IInv
<1> QED
    BY <1>1, Invariance, PTL

(* A record is never given to another session while a work, an event, an opener or a
   worker still means the first one by it: the references of _yod_server_handle_cb,
   _yod_server_accept_cb and yod_server_destroy are enough.  The ticker, which has no
   reference, can only cut the new session off; nothing else parts an event that is
   armed from its record. *)
THEOREM RecordsNotStale == Spec => []NoStaleRecord
<1>1. IInv => NoStaleRecord
    <2> SUFFICES ASSUME IInv PROVE NoStaleRecord
        OBVIOUS
    <2>1. \A w \in Workers : \A i \in DOMAIN queue[w] :
              session[queue[w][i][2]] = queue[w][i][3]
        BY DEF IInv, Queued
    <2>2. \A s \in Sessions :
              event[s] \in {"armed", "deleted"} => session[evRec[s]] = s
        BY DEF IInv, Events, Watched
    <2>3. \A t \in Threads \ {Ticker} :
              pc[t] \notin {"idle", "delete"} => session[rec[t]] = ses[t]
        BY Bounds DEF IInv, Meant, Means
    <2>4. \A s \in Sessions :
              event[s] = "armed" => evloop[evRec[s]] = s \/ s \in cutOff
        BY DEF IInv, Steady
    <2> QED
        BY <2>1, <2>2, <2>3, <2>4 DEF NoStaleRecord
<1> QED
    BY <1>1, Invariance, PTL

(* The count of a record in use is the number of those that will drop a reference to
   it, and root->tick is the number of records that are in one of the two lists. *)
THEOREM RecordsCounted == Spec => []RecordsAccounted
<1>1. IInv => RecordsAccounted
    <2> SUFFICES ASSUME IInv PROVE RecordsAccounted
        OBVIOUS
    <2>1. RefsCounted
        <3>1. \A r \in Records : alloc[r] = "live" => count[r] = Refs(r)
            BY DEF IInv, Uses, Referred
        <3> QED
            BY <3>1 DEF RefsCounted, Refs
    <2>2. total = Cardinality(linked) + Len(heap) /\ IsInjective(heap)
        BY DEF IInv, Lists
    <2>3. linked \cap Range(heap) = {}
        BY DEF IInv, Lists
    <2> QED
        BY <2>1, <2>2, <2>3 DEF RecordsAccounted
<1> QED
    BY <1>1, Invariance, PTL

-----------------------------------------------------------------------------
(* A descriptor is a connection's until CLOSE, or the connection was given up. *)
LEMMA SoundMove ==
    ASSUME Sound, UNCHANGED <<open, stream>>, givenUp \subseteq givenUp',
           \A r \in Records :
               Held(r) => \/ session[r] \in givenUp'
                          \/ Held(r)' /\ session'[r] = session[r] /\ fdOf'[r] = fdOf[r]
    PROVE  Sound'
<1>1. ASSUME NEW f \in open
      PROVE  \/ stream[f] \in givenUp'
             \/ \E r \in Records : Held(r)' /\ session'[r] = stream[f] /\ fdOf'[r] = f
    <2>1. CASE stream[f] \in givenUp
        BY <2>1
    <2>2. CASE stream[f] \notin givenUp
        <3>1. PICK r \in Records : Held(r) /\ session[r] = stream[f] /\ fdOf[r] = f
            BY <2>2 DEF Sound
        <3> QED
            BY <3>1
    <2> QED
        BY <2>1, <2>2
<1> QED
    BY <1>1 DEF Sound

LEMMA SoundStays ==
    ASSUME Sound, UNCHANGED <<open, givenUp, stream, session, fdOf>>,
           \A s : Ended(s)' => Ended(s),
           \A s \in Sessions : event'[s] = "freed" => event[s] = "freed",
           \A r \in Records : session[r] # 0 => session[r] \in Sessions
    PROVE  Sound'
<1>1. \A r \in Records : Held(r) => Held(r)'
    BY DEF Held
<1> QED
    BY <1>1, SoundMove

(* A thread that lets go of a record leaves no descriptor behind: the record still has
   its event, or the event has been closed. *)
LEMMA SoundDrop ==
    ASSUME IInv, Sound, NEW r \in Records, session[r] # 0, count[r] # 0, DropRef(r),
           UNCHANGED <<open, stream>>, givenUp \subseteq givenUp',
           \A s : Ended(s)' => Ended(s),
           \A s \in Sessions : s # session[r] /\ event'[s] = "freed" => event[s] = "freed",
           Held(r) => \/ session[r] \in givenUp'
                      \/ count[r] # 1 /\ event'[session[r]] # "freed"
    PROVE  Sound'
<1>1. /\ count[r] # 1 => UNCHANGED <<fdOf, session>>
      /\ count[r] = 1 => /\ fdOf' = [fdOf EXCEPT ![r] = None]
                         /\ session' = [session EXCEPT ![r] = 0]
    BY DropIs DEF IInv
<1>2. ASSUME NEW q \in Records, Held(q), session[q] \notin givenUp'
      PROVE  Held(q)' /\ session'[q] = session[q] /\ fdOf'[q] = fdOf[q]
    <2>1. session[q] \in Sessions
        BY <1>2, Bounds DEF Held, IInv, TypeOK, RecType
    <2>2. CASE q = r
        BY <1>1, <1>2, <2>2 DEF Held
    <2>3. CASE q # r
        <3>1. session'[q] = session[q] /\ fdOf'[q] = fdOf[q]
            BY <1>1, <2>3 DEF IInv, TypeOK, RecType
        <3>2. session[q] # session[r]
            BY <1>2, <2>3 DEF IInv, Uses, Held
        <3>3. event'[session[q]] # "freed"
            BY <1>2, <2>1, <3>2 DEF Held
        <3>4. ~Ended(session[q])'
            BY <1>2, <3>1 DEF Held
        <3> QED
            BY <1>2, <3>1, <3>3, <3>4 DEF Held
    <2> QED
        BY <2>2, <2>3
<1> QED
    BY <1>1, <1>2, SoundMove

LEMMA SoundTalk ==
    ASSUME IInv, Sound, NEW t \in Threads, Talk(t), UNCHANGED givenUp
    PROVE  Sound'
<1>1. /\ UNCHANGED <<open, stream, session, fdOf, event>> /\ Apart(t)
      /\ pc[t] # "closed" /\ pc'[t] # "closed"
    BY DEF Talk, life
<1>2. \A s : Ended(s)' => Ended(s)
    BY <1>1, Bounds DEF Ended, Apart
<1>3. \A r \in Records : session[r] # 0 => session[r] \in Sessions
    BY Bounds DEF IInv, TypeOK, RecType
<1> QED
    BY <1>1, <1>2, <1>3, SoundStays

(* Who is not closed by a step is not ended by it. *)
LEMMA EndedLess ==
    ASSUME NEW t \in Threads, Apart(t), t \in Workers => pc'[t] # "closed"
    PROVE  \A s : Ended(s)' => Ended(s)
BY Bounds DEF Ended, Apart

LEMMA SessionsAre ==
    ASSUME IInv PROVE \A r \in Records : session[r] # 0 => session[r] \in Sessions
BY Bounds DEF IInv, TypeOK, RecType

LEMMA SoundShared ==
    ASSUME IInv, Sound, NEW t \in Threads,
           Shared(t) \/ RunFails(t) \/ OpenConnection(t) \/ OpenFails(t)
    PROVE  Sound'
<1>1. CASE Close(t) \/ CloseForget(t)
    BY <1>1, ClosingTalks, SoundTalk DEF Close, CloseForget, sockVars
<1>2. CASE RunLock(t)
    BY <1>2, RunTalks, SoundTalk DEF RunLock, sockVars
<1>3. CASE CloseDel(t)
    <2>1. /\ Goto(t, "forget") /\ event' = [event EXCEPT ![ses[t]] = "deleted"]
          /\ UNCHANGED <<givenUp, open, stream, session, fdOf, busy>>
        BY <1>3 DEF CloseDel, rootVars, recVars, sockVars, poolVars
    <2>2. Apart(t) /\ pc'[t] = "forget"
        BY <2>1, GotoIs DEF IInv
    <2>3. \A s \in Sessions : event'[s] = "freed" => event[s] = "freed"
        BY <2>1 DEF IInv, TypeOK, EventType
    <2> QED
        BY <2>1, <2>2, <2>3, EndedLess, SessionsAre, SoundStays
<1>4. CASE RunPush(t)
    <2>1. Goto(t, "idle") /\ UNCHANGED <<event, givenUp, open, stream, session, fdOf, busy>>
        BY <1>4 DEF RunPush, rootVars, recVars, sockVars, eventVars
    <2>2. Apart(t) /\ pc'[t] = "idle"
        BY <2>1, GotoIs DEF IInv
    <2> QED
        BY <2>1, <2>2, EndedLess, SessionsAre, SoundStays
<1>5. CASE RunFails(t)
    <2>1. /\ pc[t] = "push" /\ givenUp' = IF t \in Openers THEN givenUp \cup {ses[t]} ELSE givenUp
          /\ DropRef(rec[t]) /\ UNCHANGED <<open, stream, event>>
        BY <1>5 DEF RunFails, eventVars
    <2>2. t \in Workers \cup Openers /\ Leave(t)
        BY <1>5, Leaves
    <2>3. PICK r \in Records : /\ r = rec[t] /\ session[r] = ses[t] /\ ses[t] \in Sessions
                               /\ count[r] # 0 /\ (count[r] = 1 => Watching(r) = {})
        BY <2>2, LeaveDrops
    <2>4. Apart(t) /\ pc'[t] = "idle"
        BY <2>2 DEF Leave
    <2>5. Held(r) => session[r] \in givenUp' \/ (count[r] # 1 /\ event'[session[r]] # "freed")
        <3>1. CASE t \in Openers
            BY <2>1, <2>3, <3>1
        <3>2. CASE t \notin Openers
            <4>1. t \in Workers
                BY <2>2, <3>2
            <4>2. Watched(ses[t])
                BY <2>1, <4>1 DEF IInv, Meant, Means, InLoop
            <4>3. evRec[ses[t]] \in Records /\ session[evRec[ses[t]]] = ses[t]
                BY <2>3, <4>2 DEF IInv, Events
            <4>4. evRec[ses[t]] = r
                BY <2>3, <4>3, Bounds DEF IInv, Uses
            <4>5. ses[t] \in Watching(r)
                BY <2>3, <4>2, <4>4 DEF Watching, Watched
            <4> QED
                BY <2>1, <2>3, <4>2, <4>5 DEF Watched
        <3> QED
            BY <3>1, <3>2
    <2>6. session[r] # 0 /\ givenUp \subseteq givenUp'
        BY <2>1, <2>3, Bounds
    <2>7. \A s : Ended(s)' => Ended(s)
        BY <2>4, EndedLess
    <2>8. \A s \in Sessions : s # session[r] /\ event'[s] = "freed" => event[s] = "freed"
        BY <2>1
    <2> QED
        BY <2>1, <2>3, <2>5, <2>6, <2>7, <2>8, SoundDrop
<1>7. CASE OpenFails(t)
    <2>1. PICK f \in Fds \ open : /\ open' = open \cup {f}
                                  /\ stream' = [stream EXCEPT ![f] = conns']
        BY <1>7 DEF OpenFails
    <2>2. /\ givenUp' = givenUp \cup {conns'}
          /\ UNCHANGED <<session, fdOf, event, pc, ses>>
        BY <1>7 DEF OpenFails, recVars, eventVars, threadVars
    <2>3. stream'[f] \in givenUp' /\ \A g \in open : stream'[g] = stream[g]
        BY <2>1, <2>2 DEF IInv, TypeOK, SockType
    <2>4. \A r \in Records : Held(r)' <=> Held(r)
        BY <2>2 DEF Held, Ended
    <2> QED
        BY <2>1, <2>2, <2>3, <2>4 DEF Sound
<1>6. CASE OpenConnection(t)
    <2>1. PICK r \in Records, f \in Fds, n \in Sessions :
               /\ OpenRecord(r, f, n) /\ f \notin open /\ open' = open \cup {f}
               /\ stream' = [stream EXCEPT ![f] = n]
               /\ session[r] = 0 /\ event[n] = "none"
        BY <1>6, OpenIs
    <2>2. /\ fdOf'[r] = f /\ session'[r] = n /\ stream'[f] = n
          /\ \A q \in Records \ {r} : fdOf'[q] = fdOf[q] /\ session'[q] = session[q]
          /\ \A g \in open : stream'[g] = stream[g]
        <3>1. /\ fdOf' = [fdOf EXCEPT ![r] = f] /\ session' = [session EXCEPT ![r] = n]
              /\ fdOf \in [Records -> Fds \cup {None}] /\ session \in [Records -> 0..MaxConns]
              /\ stream \in [Fds -> 0..MaxConns] /\ open \subseteq Fds
            BY <2>1 DEF OpenRecord, IInv, TypeOK, RecType, SockType
        <3> QED
            BY <2>1, <3>1
    <2>3. Apart(t) /\ t \in Openers /\ UNCHANGED <<givenUp, event>>
        BY <1>6, OpenKeeps DEF OpenConnection, eventVars
    <2>4. \A s : Ended(s)' => Ended(s)
        BY <2>3, EndedLess, Bounds
    <2>5. ~Ended(n)
        <3>1. ASSUME NEW v \in Workers, pc[v] = "closed", ses[v] = n PROVE FALSE
            <4>1. Means(v)
                BY DEF IInv, Meant
            <4> QED
                BY <2>1, <3>1, <4>1 DEF Means, InLoop, Watched
        <3> QED
            BY <3>1 DEF Ended
    <2>6. Held(r)'
        BY <2>1, <2>2, <2>3, <2>4, <2>5, Bounds DEF Held
    <2>7. ASSUME NEW g \in open, stream[g] \notin givenUp
          PROVE  \E q \in Records : Held(q)' /\ session'[q] = stream'[g] /\ fdOf'[q] = g
        <3>1. PICK q \in Records : Held(q) /\ session[q] = stream[g] /\ fdOf[q] = g
            BY <2>7 DEF Sound
        <3>2. q # r
            BY <2>1, <3>1 DEF Held
        <3>3. Held(q)'
            BY <2>2, <2>3, <2>4, <3>1, <3>2 DEF Held
        <3> QED
            BY <2>2, <3>1, <3>2, <3>3
    <2> QED
        BY <2>1, <2>2, <2>3, <2>6, <2>7 DEF Sound
<1> QED
    BY <1>1, <1>2, <1>3, <1>4, <1>5, <1>6, <1>7 DEF Shared

LEMMA SoundWork ==
    ASSUME IInv, Sound, NEW w \in Workers, Work(w)
    PROVE  Sound'
<1>0. w \in Threads
    BY Bounds
<1>1. CASE TakeWork(w)
    <2>1. UNCHANGED <<givenUp, open, stream, session, fdOf, event>>
        BY <1>1 DEF TakeWork, rootVars, recVars, sockVars, eventVars
    <2>2. Apart(w) /\ pc'[w] \in {"connect", "input"}
        BY <1>1, TakeIs
    <2> QED
        BY <1>0, <2>1, <2>2, EndedLess, SessionsAre, SoundStays
<1>2. CASE ConnectCb(w)
    <2>1. /\ Goto(w, "connected") /\ event' = [event EXCEPT ![ses[w]] = "armed"]
          /\ UNCHANGED <<givenUp, open, stream, session, fdOf, busy>>
        BY <1>2 DEF ConnectCb, rootVars, sockVars, poolVars
    <2>2. Apart(w) /\ pc'[w] = "connected"
        BY <1>0, <2>1, GotoIs DEF IInv
    <2>3. \A s \in Sessions : event'[s] = "freed" => event[s] = "freed"
        BY <2>1 DEF IInv, TypeOK, EventType
    <2> QED
        BY <1>0, <2>1, <2>2, <2>3, EndedLess, SessionsAre, SoundStays
<1>3. CASE ConnectFunc(w)
    BY <1>0, <1>3, ConnectedTalks, SoundTalk DEF ConnectFunc, sockVars
<1>4. CASE ConnectRefused(w)
    <2>1. /\ givenUp' = givenUp \cup {ses[w]} /\ UNCHANGED <<open, stream, event>>
        BY <1>4 DEF ConnectRefused, eventVars
    <2>2. Leave(w)
        BY <1>0, <1>4, Leaves
    <2>3. PICK r \in Records : /\ r = rec[w] /\ session[r] = ses[w] /\ ses[w] \in Sessions
                               /\ count[r] # 0
        BY <2>2, LeaveDrops
    <2>4. DropRef(r) /\ Apart(w) /\ pc'[w] = "idle"
        BY <2>2, <2>3 DEF Leave
    <2>5. session[r] # 0 /\ session[r] \in givenUp' /\ givenUp \subseteq givenUp'
        BY <2>1, <2>3, Bounds
    <2>6. \A s : Ended(s)' => Ended(s)
        BY <1>0, <2>4, EndedLess
    <2>7. \A s \in Sessions : s # session[r] /\ event'[s] = "freed" => event[s] = "freed"
        BY <2>1
    <2> QED
        BY <2>1, <2>3, <2>4, <2>5, <2>6, <2>7, SoundDrop
<1>5. CASE InputDestroy(w)
    <2>1. Leave(w) /\ pc[w] = "destroy"
        BY <1>0, <1>5, Leaves DEF InputDestroy
    <2>2. PICK r \in Records : /\ r = rec[w] /\ session[r] = ses[w] /\ ses[w] \in Sessions
                               /\ count[r] # 0 /\ (count[r] = 1 => Watching(r) = {})
        BY <2>1, LeaveDrops
    <2>3. /\ DropRef(r) /\ Apart(w) /\ pc'[w] = "idle"
          /\ UNCHANGED <<open, givenUp, stream, event>>
        BY <1>5, <2>1, <2>2 DEF Leave, InputDestroy, sockVars
    <2>4. event[session[r]] # "none"
        <3>1. Means(w)
            BY DEF IInv, Meant
        <3> QED
            BY <2>1, <2>2, <3>1, Bounds DEF Means
    <2>5. Held(r) => count[r] # 1 /\ event'[session[r]] # "freed"
        <3> SUFFICES ASSUME Held(r) PROVE count[r] # 1 /\ event'[session[r]] # "freed"
            OBVIOUS
        <3>1. event[session[r]] # "freed"
            BY DEF Held
        <3>2. event[session[r]] \in {"armed", "deleted"}
            BY <2>2, <2>4, <3>1 DEF IInv, TypeOK, EventType
        <3>3. evRec[session[r]] \in Records /\ session[evRec[session[r]]] = session[r]
            BY <2>2, <3>2 DEF IInv, Events, Watched
        <3>4. evRec[session[r]] = r
            BY <2>2, <3>3, Bounds DEF IInv, Uses
        <3>5. session[r] \in Watching(r)
            BY <2>2, <3>2, <3>4 DEF Watching
        <3> QED
            BY <2>2, <2>3, <3>1, <3>5
    <2>6. session[r] # 0
        BY <2>2, Bounds
    <2>7. \A s : Ended(s)' => Ended(s)
        BY <1>0, <2>3, EndedLess
    <2> QED
        BY <2>2, <2>3, <2>5, <2>6, <2>7, SoundDrop
<1>6. CASE \/ InputCb(w) \/ InputLock(w) \/ RecvData(w) \/ RecvAgain(w)
           \/ RecvClosed(w) \/ InputUnlock(w)
    <2>1. UNCHANGED givenUp
        BY <1>6 DEF InputCb, InputLock, RecvData, RecvAgain, RecvClosed, InputUnlock, sockVars
    <2> QED
        BY <1>0, <1>6, <2>1, InputTalks, SoundTalk
<1> QED
    BY <1>1, <1>2, <1>3, <1>4, <1>5, <1>6 DEF Work

LEMMA SoundTurn ==
    ASSUME IInv, Sound, NEW w \in Workers, LoopTurn(w)
    PROVE  Sound'
<1>0. w \in Threads
    BY Bounds
<1>1. CASE Fetch(w)
    <2>1. UNCHANGED <<givenUp, open, stream, session, fdOf, event, pc, ses>>
        BY <1>1 DEF Fetch, rootVars, recVars, sockVars, threadVars
    <2> QED
        BY <2>1 DEF Sound, Held, Ended
<1>2. CASE Ref(w)
    <2>1. Goto(w, "run") /\ UNCHANGED <<givenUp, open, stream, session, fdOf, event, busy>>
        BY <1>2 DEF Ref, rootVars, recVars, sockVars, eventVars, poolVars
    <2>2. Apart(w) /\ pc'[w] = "run"
        BY <1>0, <2>1, GotoIs DEF IInv
    <2> QED
        BY <1>0, <2>1, <2>2, EndedLess, SessionsAre, SoundStays
<1>3. CASE BeginDelete(w) \/ EndDelete(w)
    BY <1>0, <1>3, DeletingTalks, SoundTalk DEF BeginDelete, EndDelete, sockVars
<1>4. CASE CloseCb(w)
    <2>1. PICK s : s = Head(dead[w])
        OBVIOUS
    <2>2. /\ dead[w] # <<>> /\ open' = open \ {evFd[s]} /\ Apart(w) /\ ses'[w] = s /\ pc'[w] = "closed"
          /\ UNCHANGED <<givenUp, stream, session, fdOf, event>>
        BY <1>4, <2>1, CloseCbKeeps DEF CloseCb, CloseFd, rootVars, recVars, eventVars
    <2>3. s \in Sessions /\ Watched(s)
        <3>1. s \in Range(dead[w])
            <4>1. dead[w] \in Seq(Sessions)
                BY DEF IInv, TypeOK, EventType
            <4> QED
                BY <2>1, <2>2, <4>1, PopFront DEF IInv, Events
        <3> QED
            BY <3>1 DEF IInv, Events, Watched
    <2>4. PICK r \in Records : session[r] = s /\ evFd[s] = fdOf[r]
        BY <2>3 DEF IInv, Events, Numbers
    <2>5. \A y : Ended(y)' => Ended(y) \/ y = s
        BY <2>2, Bounds DEF Ended, Apart
    <2>6. ASSUME NEW f \in open', stream[f] \notin givenUp
          PROVE  \E q \in Records : Held(q)' /\ session'[q] = stream'[f] /\ fdOf'[q] = f
        <3>1. PICK q \in Records : Held(q) /\ session[q] = stream[f] /\ fdOf[q] = f
            BY <2>2, <2>6 DEF Sound
        <3>2. q # r
            BY <2>2, <2>4, <2>6, <3>1
        <3>3. session[q] # s
            BY <2>4, <3>1, <3>2 DEF IInv, Uses, Held
        <3>4. Held(q)'
            BY <2>2, <2>5, <3>1, <3>3 DEF Held
        <3> QED
            BY <2>2, <3>1, <3>4
    <2> QED
        BY <2>2, <2>6 DEF Sound
<1>5. CASE CloseDestroy(w)
    <2>1. PICK r \in Records, s \in Sessions :
              /\ r = rec[w] /\ s = ses[w] /\ session[r] = s /\ session[r] # 0 /\ count[r] # 0
        BY <1>5, DestroyIs
    <2>2. /\ DropRef(r) /\ event' = [event EXCEPT ![s] = "freed"] /\ pc[w] = "closed"
          /\ Goto(w, "delete") /\ UNCHANGED <<open, givenUp, stream, busy>>
        BY <1>5, <2>1 DEF CloseDestroy, sockVars, poolVars
    <2>3. Apart(w) /\ pc'[w] = "delete"
        BY <1>0, <2>2, GotoIs DEF IInv
    <2>4. \A y \in Sessions : y # session[r] /\ event'[y] = "freed" => event[y] = "freed"
        BY <2>1, <2>2 DEF IInv, TypeOK, EventType
    <2>5. ~Held(r)
        BY <2>1, <2>2 DEF Held, Ended
    <2>6. \A y : Ended(y)' => Ended(y)
        BY <1>0, <2>3, EndedLess
    <2> QED
        BY <2>1, <2>2, <2>4, <2>5, <2>6, SoundDrop
<1>6. CASE \E s \in Sessions : Handle(w, s, "read") \/ Handle(w, s, "error")
    <2>1. PICK s \in Sessions, flag \in {"read", "error"} : Handle(w, s, flag)
        BY <1>6
    <2>2. /\ Apart(w) /\ pc'[w] \in {"idle", "close", "ref"}
          /\ UNCHANGED <<givenUp, open, stream, session, fdOf, event>>
        BY <2>1, HandleKeeps DEF Handle, rootVars, recVars, sockVars
    <2> QED
        BY <1>0, <2>2, EndedLess, SessionsAre, SoundStays
<1> QED
    BY <1>1, <1>2, <1>3, <1>4, <1>5, <1>6 DEF LoopTurn

LEMMA SoundRest ==
    ASSUME IInv, Sound, \/ Tick \/ Trim \/ Stop \/ Twice \/ UNCHANGED vars
                 \/ \E s \in Sessions : PeerSends(s) \/ PeerCloses(s) \/ PeerResets(s)
    PROVE  Sound'
<1>1. CASE Tick
    <2>1. UNCHANGED givenUp
        BY <1>1 DEF Tick, TickSee, TickCall, sockVars
    <2> QED
        BY <1>1, <2>1, TickTalks, SoundTalk, Bounds
<1>2. CASE ~Tick
    <2>1. UNCHANGED <<givenUp, open, stream, session, fdOf, event, pc, ses>>
        BY <1>2 DEF Trim, Stop, Twice, vars, PeerSends, PeerCloses, PeerResets, PeerUnchanged,
           rootVars, recVars, sockVars, eventVars, threadVars
    <2> QED
        BY <2>1 DEF Sound, Held, Ended
<1> QED
    BY <1>1, <1>2

(* A descriptor that is open belongs to a record in use, which has it until CLOSE: no
   close is missed on the way from yod_evloop_del to the delete list and to close() in
   the loop.  Only the descriptors of connections that were given up before they had an
   event stay open: where malloc, the hand-over to the pool or the registration failed,
   or the server was stopping. *)
THEOREM DescriptorsKept == Spec => []NoDescriptorLost
<1>1. Init => IInv /\ Sound
    BY Starts DEF Init, Sound
<1>2. IInv /\ Sound /\ [Next]_vars => (IInv /\ Sound)'
    <2> SUFFICES ASSUME IInv, Sound, [Next]_vars PROVE (IInv /\ Sound)'
        OBVIOUS
    <2>1. IInv'
        BY Kept
    <2>2. Sound'
        BY SoundShared, SoundWork, SoundTurn, SoundRest, StepsAre
    <2> QED
        BY <2>1, <2>2
<1>3. IInv /\ Sound => NoDescriptorLost
    <2> SUFFICES ASSUME IInv, Sound, NEW f \in open, stream[f] \notin givenUp
                 PROVE  \E r \in linked : fdOf[r] = f /\ session[r] = stream[f]
        BY DEF NoDescriptorLost, IInv
    <2>1. PICK r \in Records : Held(r) /\ session[r] = stream[f] /\ fdOf[r] = f
        BY DEF Sound
    <2>2. r \in linked
        BY <2>1 DEF Held, IInv, Uses, Lists
    <2> QED
        BY <2>1, <2>2
<1> QED
    BY <1>1, <1>2, <1>3, PTL DEF Spec

-----------------------------------------------------------------------------
(* CONNECT comes first: whoever can be about to call INPUT has it called before. *)
Tells == \A s \in Sessions : told[s] # "none" => told'[s] # "none"

LEMMA GreetedMove ==
    ASSUME IInv, Greeted, NEW t \in Threads, Apart(t), Tells,
           \A w \in Workers : batch'[w] \subseteq batch[w],
           \A w \in Workers : \A i \in DOMAIN queue'[w] :
               queue'[w][i][1] = "input" => told'[queue'[w][i][3]] # "none",
           t \in Workers /\ pc'[t] \notin {"idle", "connect", "connected", "delete"} =>
               told'[ses'[t]] # "none",
           t \in Workers /\ pc[t] = "connected" => told'[ses[t]] # "none",
           \A s \in Sessions :
               event'[s] # "none" /\ told'[s] = "none" =>
                   /\ Watched(s)'
                   /\ \/ event[s] # "none" /\ owner'[s] = owner[s]
                      \/ owner'[s] = t /\ pc'[t] = "connected" /\ ses'[t] = s
    PROVE  Greeted'
<1>1. \A u \in Threads \ {t} : pc'[u] = pc[u] /\ ses'[u] = ses[u]
    BY DEF Apart
<1>2. ASSUME NEW w \in Workers
      PROVE  \A p \in batch'[w] : told'[p[1]] # "none"
    <2> TAKE p \in batch'[w]
    <2>1. p \in batch[w] /\ p[1] \in Sessions
        BY DEF IInv, TypeOK, EventType
    <2> QED
        BY <2>1 DEF Greeted, Tells
<1>3. ASSUME NEW w \in Workers, pc'[w] \notin {"idle", "connect", "connected", "delete"}
      PROVE  told'[ses'[w]] # "none"
    <2>1. CASE w = t
        BY <1>3, <2>1
    <2>2. CASE w # t
        <3>1. w \in Threads /\ w # Ticker /\ pc'[w] = pc[w] /\ ses'[w] = ses[w]
            BY <1>1, <2>2, Bounds
        <3>2. told[ses[w]] # "none" /\ ses[w] \in Sessions
            BY <1>3, <3>1, AtWork DEF Greeted
        <3> QED
            BY <3>1, <3>2 DEF Tells
    <2> QED
        BY <2>1, <2>2
<1>4. ASSUME NEW s \in Sessions, event'[s] # "none", told'[s] = "none"
      PROVE  Watched(s)' /\ pc'[owner'[s]] = "connected" /\ ses'[owner'[s]] = s
    <2>1. CASE owner'[s] = t /\ pc'[t] = "connected" /\ ses'[t] = s
        BY <1>4, <2>1
    <2>2. CASE event[s] # "none" /\ owner'[s] = owner[s]
        <3>1. told[s] = "none"
            BY <1>4 DEF Tells
        <3>2. Watched(s) /\ pc[owner[s]] = "connected" /\ ses[owner[s]] = s
            BY <2>2, <3>1 DEF Greeted
        <3>3. owner[s] \in Workers
            BY <3>2 DEF IInv, Events
        <3>4. owner[s] # t
            BY <1>4, <3>2, <3>3
        <3> QED
            BY <1>1, <1>4, <2>2, <3>2, <3>3, <3>4, Bounds
    <2> QED
        BY <1>4, <2>1, <2>2
<1> QED
    BY <1>2, <1>3, <1>4 DEF Greeted

LEMMA QueueTells ==
    ASSUME IInv, Greeted, Tells, UNCHANGED queue
    PROVE  \A w \in Workers : \A i \in DOMAIN queue'[w] :
               queue'[w][i][1] = "input" => told'[queue'[w][i][3]] # "none"
<1> SUFFICES ASSUME NEW w \in Workers, NEW i \in DOMAIN queue[w], queue[w][i][1] = "input"
             PROVE  told'[queue[w][i][3]] # "none"
    OBVIOUS
<1>1. queue[w] \in Seq({"connect", "input"} \X Records \X Sessions)
    BY DEF IInv, TypeOK, PoolType
<1>2. queue[w][i] \in {"connect", "input"} \X Records \X Sessions
    BY <1>1
<1>3. queue[w][i][3] \in Sessions
    BY <1>2
<1> QED
    BY <1>3 DEF Greeted, Tells

(* Steps that call nothing back and give no work. *)
LEMMA GreetedPlain ==
    ASSUME IInv, Greeted, NEW t \in Threads, Apart(t), UNCHANGED <<told, queue, owner>>,
           \A w \in Workers : batch'[w] \subseteq batch[w],
           t \in Workers => pc[t] # "connected",
           t \in Workers /\ pc'[t] \notin {"idle", "connect", "connected", "delete"} =>
               told[ses'[t]] # "none",
           \A s \in Sessions : \/ event'[s] = event[s]
                               \/ event[s] = "armed" /\ event'[s] = "deleted"
    PROVE  Greeted'
<1>1. Tells
    BY DEF Tells
<1>2. \A s \in Sessions :
          event'[s] # "none" /\ told'[s] = "none" =>
              Watched(s)' /\ event[s] # "none" /\ owner'[s] = owner[s]
    BY DEF Greeted, Watched
<1>3. \A w \in Workers : \A i \in DOMAIN queue'[w] :
          queue'[w][i][1] = "input" => told'[queue'[w][i][3]] # "none"
    BY <1>1, QueueTells
<1> QED
    BY <1>1, <1>2, <1>3, GreetedMove

LEMMA GreetedShared ==
    ASSUME IInv, Greeted, NEW t \in Threads,
           Shared(t) \/ RunFails(t) \/ OpenConnection(t) \/ OpenFails(t)
    PROVE  Greeted'
<1>1. CASE Close(t) \/ CloseForget(t)
    <2>1. /\ Apart(t) /\ pc[t] \in {"close", "forget"}
          /\ UNCHANGED <<told, queue, owner, batch, event>>
        BY <1>1, ClosingTalks DEF Talk, life, Close, CloseForget
    <2>2. t \in Workers => ses'[t] = ses[t]
        <3>1. t \in Workers => t # Ticker
            BY Bounds
        <3>2. CASE Goto(t, ret[t])
            BY <3>2, GotoIs DEF IInv
        <3>3. CASE ~Goto(t, ret[t])
            <4>1. Close(t) /\ evloop[rec[t]] # 0
                BY <1>1, <3>3 DEF Close, CloseForget
            <4>2. PICK label : Call(t, label, rec[t], evloop[rec[t]], ret[t])
                BY <3>3, <4>1 DEF Close
            <4> QED
                BY <2>1, <3>1, <4>1, <4>2, CallIs, AtWork DEF IInv
        <3> QED
            BY <3>2, <3>3
    <2>3. t \in Workers => told[ses'[t]] # "none"
        BY <2>1, <2>2 DEF Greeted
    <2> QED
        BY <2>1, <2>3, GreetedPlain
<1>2. CASE CloseDel(t) \/ RunLock(t)
    <2>1. /\ pc[t] \in {"del", "run"} /\ \E label \in {"forget", "push"} : Goto(t, label)
          /\ UNCHANGED <<told, queue, owner, batch, busy>>
        BY <1>2 DEF CloseDel, RunLock, eventVars, poolVars
    <2>2. Apart(t) /\ ses'[t] = ses[t]
        BY <2>1, GotoIs DEF IInv
    <2>3. \A s \in Sessions : \/ event'[s] = event[s]
                              \/ event[s] = "armed" /\ event'[s] = "deleted"
        <3>1. CASE RunLock(t)
            BY <3>1 DEF RunLock, eventVars
        <3>2. CASE CloseDel(t)
            BY <3>2 DEF CloseDel, IInv, TypeOK, EventType
        <3> QED
            BY <1>2, <3>1, <3>2
    <2>4. t \in Workers => told[ses'[t]] # "none"
        BY <2>1, <2>2 DEF Greeted
    <2> QED
        BY <2>1, <2>2, <2>3, <2>4, GreetedPlain
<1>3. CASE RunPush(t)
    <2>1. PICK v \in Workers :
              queue' = [queue EXCEPT ![v] =
                            Append(@, <<IF t \in Workers THEN "input" ELSE "connect",
                                        rec[t], ses[t]>>)]
        BY <1>3 DEF RunPush
    <2>2. /\ pc[t] = "push" /\ Goto(t, "idle") /\ UNCHANGED <<told, owner, batch, event, busy>>
        BY <1>3 DEF RunPush, eventVars
    <2>3. Apart(t) /\ pc'[t] = "idle"
        BY <2>2, GotoIs DEF IInv
    <2>4. PICK work : work = <<IF t \in Workers THEN "input" ELSE "connect", rec[t], ses[t]>>
        OBVIOUS
    <2>5. \A w \in Workers : queue[w] \in Seq({"connect", "input"} \X Records \X Sessions)
        BY DEF IInv, TypeOK, PoolType
    <2>6. work[1] = "input" => told[work[3]] # "none"
        <3>1. work[1] = "input" => t \in Workers
            BY <2>4
        <3>2. work[3] = ses[t]
            BY <2>4
        <3> QED
            BY <2>2, <3>1, <3>2 DEF Greeted
    <2>7. ASSUME NEW w \in Workers, NEW i \in DOMAIN queue'[w], queue'[w][i][1] = "input"
          PROVE  told[queue'[w][i][3]] # "none"
        <3>1. CASE w # v
            <4>1. queue'[w] = queue[w]
                BY <2>1, <3>1 DEF IInv, TypeOK, PoolType
            <4> QED
                BY <2>7, <4>1 DEF Greeted
        <3>2. CASE w = v
            <4>1. queue'[v] = Append(queue[v], work)
                BY <2>1, <2>4 DEF IInv, TypeOK, PoolType
            <4>2. Len(queue[v]) \in Nat /\ DOMAIN queue[v] = 1..Len(queue[v])
                BY <2>5, LenProperties
            <4>3. /\ DOMAIN Append(queue[v], work) = 1..Len(queue[v]) + 1
                  /\ \A j \in 1..Len(queue[v]) : Append(queue[v], work)[j] = queue[v][j]
                  /\ Append(queue[v], work)[Len(queue[v]) + 1] = work
                BY <2>5
            <4>4. CASE i = Len(queue[v]) + 1
                BY <2>6, <2>7, <3>2, <4>1, <4>3, <4>4
            <4>5. CASE i # Len(queue[v]) + 1
                <5>1. i \in 1..Len(queue[v])
                    BY <2>7, <3>2, <4>1, <4>2, <4>3, <4>5
                <5> QED
                    BY <2>7, <3>2, <4>1, <4>2, <4>3, <5>1 DEF Greeted
            <4> QED
                BY <4>4, <4>5
        <3> QED
            BY <3>1, <3>2
    <2>8. \A s \in Sessions :
              event'[s] # "none" /\ told'[s] = "none" =>
                  Watched(s)' /\ event[s] # "none" /\ owner'[s] = owner[s]
        BY <2>2 DEF Greeted, Watched
    <2>9. Tells
        BY <2>2 DEF Tells
    <2> QED
        BY <2>2, <2>3, <2>7, <2>8, <2>9, GreetedMove
<1>4. CASE RunFails(t)
    <2>1. Leave(t) /\ pc[t] = "push" /\ UNCHANGED told
        BY <1>4, Leaves DEF RunFails
    <2>2. Apart(t) /\ pc'[t] = "idle" /\ UNCHANGED <<queue, owner, batch, event>>
        BY <2>1 DEF Leave
    <2> QED
        BY <2>1, <2>2, GreetedPlain
<1>5. CASE OpenConnection(t)
    <2>1. /\ Apart(t) /\ t \in Openers
          /\ UNCHANGED <<told, queue, owner, batch, event>>
        BY <1>5, OpenKeeps DEF OpenConnection, eventVars, poolVars
    <2> QED
        BY <2>1, GreetedPlain, Bounds
<1>6. CASE OpenFails(t)
    BY <1>6 DEF OpenFails, eventVars, poolVars, threadVars, Greeted, Watched
<1> QED
    BY <1>1, <1>2, <1>3, <1>4, <1>5, <1>6 DEF Shared

LEMMA GreetedWork ==
    ASSUME IInv, Greeted, NEW w \in Workers, Work(w)
    PROVE  Greeted'
<1>0. w \in Threads /\ w # Ticker
    BY Bounds
<1>1. CASE TakeWork(w)
    <2>1. PICK work : work = Head(queue[w])
        OBVIOUS
    <2>2. /\ pc[w] = "idle" /\ queue[w] # <<>> /\ queue' = [queue EXCEPT ![w] = Tail(@)]
          /\ UNCHANGED <<told, owner, batch, event>>
        BY <1>1 DEF TakeWork, eventVars
    <2>3. Apart(w) /\ pc'[w] = work[1] /\ ses'[w] = work[3]
        BY <1>1, <2>1, TakeIs
    <2>4. queue[w] \in Seq({"connect", "input"} \X Records \X Sessions)
        BY DEF IInv, TypeOK, PoolType
    <2>5. 1 \in DOMAIN queue[w] /\ work = queue[w][1]
        BY <2>1, <2>2, <2>4, TailIs
    <2>6. work[1] \in {"connect", "input"}
        <3>1. work \in {"connect", "input"} \X Records \X Sessions
            BY <2>4, <2>5
        <3> QED
            BY <3>1
    <2>7. work[1] = "input" => told[work[3]] # "none"
        BY <2>5 DEF Greeted
    <2>8. ASSUME NEW v \in Workers, NEW i \in DOMAIN queue'[v], queue'[v][i][1] = "input"
          PROVE  told[queue'[v][i][3]] # "none"
        <3>1. CASE v # w
            <4>1. queue'[v] = queue[v]
                BY <2>2, <3>1 DEF IInv, TypeOK, PoolType
            <4> QED
                BY <2>8, <4>1 DEF Greeted
        <3>2. CASE v = w
            <4>1. queue'[w] = Tail(queue[w])
                BY <2>2 DEF IInv, TypeOK, PoolType
            <4>2. i + 1 \in DOMAIN queue[w] /\ Tail(queue[w])[i] = queue[w][i + 1]
                <5>1. i \in DOMAIN Tail(queue[w])
                    BY <2>8, <3>2, <4>1
                <5>2. i \in Nat /\ i + 1 \in DOMAIN queue[w]
                    BY <2>2, <2>4, <5>1, TailIs
                <5> QED
                    BY <2>2, <2>4, <5>1, <5>2, TailIs
            <4> QED
                BY <2>8, <3>2, <4>1, <4>2 DEF Greeted
        <3> QED
            BY <3>1, <3>2
    <2>9. \A s \in Sessions :
              event'[s] # "none" /\ told'[s] = "none" =>
                  Watched(s)' /\ event[s] # "none" /\ owner'[s] = owner[s]
        BY <2>2 DEF Greeted, Watched
    <2>10. Tells
        BY <2>2 DEF Tells
    <2> QED
        BY <1>0, <2>2, <2>3, <2>6, <2>7, <2>8, <2>9, <2>10, GreetedMove
<1>2. CASE ConnectCb(w)
    <2>1. PICK s \in Sessions : s = ses[w]
        BY <1>2, ConnectIs DEF ConnectCb
    <2>2. /\ pc[w] = "connect" /\ Goto(w, "connected")
          /\ event' = [event EXCEPT ![s] = "armed"] /\ owner' = [owner EXCEPT ![s] = w]
          /\ UNCHANGED <<told, queue, batch, busy>>
        BY <1>2, <2>1 DEF ConnectCb, JoinLoop, poolVars
    <2>3. Apart(w) /\ pc'[w] = "connected" /\ ses'[w] = s
        BY <1>0, <2>1, <2>2, GotoIs DEF IInv
    <2>4. Tells
        BY <2>2 DEF Tells
    <2>5. \A v \in Workers : \A i \in DOMAIN queue'[v] :
              queue'[v][i][1] = "input" => told'[queue'[v][i][3]] # "none"
        BY <2>2, <2>4, QueueTells
    <2>6. /\ event'[s] = "armed" /\ owner'[s] = w
          /\ \A y \in Sessions \ {s} : event'[y] = event[y] /\ owner'[y] = owner[y]
        BY <2>2 DEF IInv, TypeOK, EventType
    <2>7. \A y \in Sessions :
              event'[y] # "none" /\ told'[y] = "none" =>
                  /\ Watched(y)'
                  /\ \/ event[y] # "none" /\ owner'[y] = owner[y]
                     \/ owner'[y] = w /\ pc'[w] = "connected" /\ ses'[w] = y
        BY <2>2, <2>3, <2>6 DEF Greeted, Watched
    <2> QED
        BY <1>0, <2>2, <2>3, <2>4, <2>5, <2>7, GreetedMove
<1>3. CASE ConnectFunc(w)
    <2>1. /\ pc[w] = "connected" /\ told' = [told EXCEPT ![ses[w]] = "connect"]
          /\ Apart(w) /\ pc'[w] = "idle" /\ UNCHANGED <<queue, batch, event, owner>>
        BY <1>3, ConnectedTalks DEF ConnectFunc, Talk, eventVars
    <2>2. Tells /\ told'[ses[w]] # "none"
        <3>1. told \in [Sessions -> {"none", "connect", "input", "close"}] /\ ses[w] \in Sessions
            BY <1>0, <2>1, AtWork DEF IInv, TypeOK
        <3> QED
            BY <2>1, <3>1 DEF Tells
    <2>3. \A v \in Workers : \A i \in DOMAIN queue'[v] :
              queue'[v][i][1] = "input" => told'[queue'[v][i][3]] # "none"
        BY <2>1, <2>2, QueueTells
    <2>4. \A y \in Sessions :
              event'[y] # "none" /\ told'[y] = "none" =>
                  Watched(y)' /\ event[y] # "none" /\ owner'[y] = owner[y]
        BY <2>1, <2>2 DEF Greeted, Watched, Tells
    <2> QED
        BY <1>0, <2>1, <2>2, <2>3, <2>4, GreetedMove
<1>4. CASE ConnectRefused(w) \/ InputDestroy(w)
    <2>1. Leave(w) /\ pc[w] \in {"connect", "destroy"} /\ UNCHANGED told
        BY <1>0, <1>4, Leaves DEF ConnectRefused, InputDestroy
    <2>2. Apart(w) /\ pc'[w] = "idle" /\ UNCHANGED <<queue, owner, batch, event>>
        BY <2>1 DEF Leave
    <2> QED
        BY <1>0, <2>1, <2>2, GreetedPlain
<1>5. CASE \/ InputCb(w) \/ InputLock(w) \/ RecvAgain(w) \/ RecvClosed(w) \/ InputUnlock(w)
    <2>1. /\ Talk(w) /\ pc[w] \in {"input", "lock", "recv", "unlock"}
          /\ pc'[w] \in InWork \cup Closing
          /\ UNCHANGED told
        BY <1>5, InputTalks DEF InputCb, InputLock, RecvAgain, RecvClosed, InputUnlock
    <2>2. Onward(w) /\ Apart(w) /\ UNCHANGED <<queue, owner, batch, event>>
        BY <1>0, <2>1 DEF Talk, life, Aside, InWork, Closing
    <2>3. told[ses'[w]] # "none"
        BY <2>1, <2>2 DEF Greeted, Onward
    <2> QED
        BY <1>0, <2>1, <2>2, <2>3, GreetedPlain
<1>6. CASE RecvData(w)
    <2>1. /\ Talk(w) /\ pc[w] = "recv" /\ pc'[w] \in InWork \cup Closing
          /\ told' = [told EXCEPT ![ses[w]] = "input"]
        BY <1>6, InputTalks DEF RecvData
    <2>2. Onward(w) /\ Apart(w) /\ UNCHANGED <<queue, owner, batch, event>>
        BY <1>0, <2>1 DEF Talk, life, Aside, InWork, Closing
    <2>3. Tells /\ told'[ses'[w]] # "none"
        <3>1. told \in [Sessions -> {"none", "connect", "input", "close"}] /\ ses[w] \in Sessions
            BY <1>0, <2>1, AtWork DEF IInv, TypeOK
        <3> QED
            BY <2>1, <2>2, <3>1 DEF Tells, Onward
    <2>4. \A v \in Workers : \A i \in DOMAIN queue'[v] :
              queue'[v][i][1] = "input" => told'[queue'[v][i][3]] # "none"
        BY <2>2, <2>3, QueueTells
    <2>5. \A y \in Sessions :
              event'[y] # "none" /\ told'[y] = "none" =>
                  Watched(y)' /\ event[y] # "none" /\ owner'[y] = owner[y]
        BY <2>2, <2>3 DEF Greeted, Watched, Tells
    <2> QED
        BY <1>0, <2>1, <2>2, <2>3, <2>4, <2>5, GreetedMove
<1> QED
    BY <1>1, <1>2, <1>3, <1>4, <1>5, <1>6 DEF Work

LEMMA GreetedTurn ==
    ASSUME IInv, Greeted, NEW w \in Workers, LoopTurn(w)
    PROVE  Greeted'
<1>0. w \in Threads /\ w # Ticker /\ EventType
    BY Bounds DEF IInv, TypeOK
<1>1. CASE Fetch(w)
    <2>1. /\ pc[w] = "idle"
          /\ batch' = [batch EXCEPT ![w] = UNION {{s} \X edge[s] :
                           s \in {y \in Sessions : owner[y] = w /\ edge[y] # {}}}]
          /\ UNCHANGED <<told, queue, event, owner, pc, rec, ses, ret>>
        BY <1>1 DEF Fetch, threadVars, poolVars
    <2>2. ASSUME NEW v \in Workers, NEW p \in batch'[v] PROVE told[p[1]] # "none"
        <3>1. CASE v # w
            <4>1. p \in batch[v]
                BY <1>0, <2>1, <2>2, <3>1 DEF EventType
            <4> QED
                BY <4>1 DEF Greeted
        <3>2. CASE v = w
            <4>1. batch'[w] = UNION {{s} \X edge[s] :
                           s \in {y \in Sessions : owner[y] = w /\ edge[y] # {}}}
                BY <1>0, <2>1 DEF EventType
            <4>2. PICK s \in Sessions : owner[s] = w /\ edge[s] # {} /\ p \in {s} \X edge[s]
                BY <2>2, <3>2, <4>1
            <4>3. p[1] = s /\ event[s] # "none"
                BY <4>2 DEF IInv, Events
            <4>4. told[s] # "none"
                BY <2>1, <4>2, <4>3 DEF Greeted
            <4> QED
                BY <4>3, <4>4
        <3> QED
            BY <3>1, <3>2
    <2> QED
        BY <2>1, <2>2 DEF Greeted, Watched
<1>2. CASE Ref(w) \/ BeginDelete(w) \/ EndDelete(w)
    <2>1. /\ pc[w] \in {"ref", "idle", "delete"}
          /\ \/ pc[w] = "ref" /\ Goto(w, "run")
             \/ Goto(w, "delete") \/ Goto(w, "idle")
          /\ UNCHANGED <<told, queue, event, owner, batch, busy>>
        BY <1>2 DEF Ref, BeginDelete, EndDelete, eventVars, poolVars
    <2>2. /\ Apart(w) /\ ses'[w] = ses[w]
          /\ \/ pc[w] = "ref" /\ pc'[w] = "run"
             \/ pc'[w] \in {"delete", "idle"}
        BY <1>0, <2>1, GotoIs DEF IInv
    <2>3. pc[w] = "ref" => told[ses[w]] # "none"
        BY DEF Greeted
    <2> QED
        BY <1>0, <2>1, <2>2, <2>3, GreetedPlain
<1>3. CASE CloseCb(w)
    <2>1. PICK s : s = Head(dead[w])
        OBVIOUS
    <2>2. /\ dead[w] # <<>> /\ told' = [told EXCEPT ![s] = "close"]
          /\ Apart(w) /\ pc[w] = "delete" /\ pc'[w] = "closed" /\ ses'[w] = s
          /\ UNCHANGED <<queue, event, owner, batch>>
        BY <1>3, <2>1, CloseCbKeeps DEF CloseCb, eventVars, poolVars
    <2>3. s \in Sessions
        <3>1. dead[w] \in Seq(Sessions)
            BY <1>0 DEF EventType
        <3> QED
            BY <2>1, <2>2, <3>1, HeadTailProperties
    <2>4. Tells /\ told'[ses'[w]] # "none"
        <3>1. told \in [Sessions -> {"none", "connect", "input", "close"}]
            BY DEF IInv, TypeOK
        <3> QED
            BY <2>2, <2>3, <3>1 DEF Tells
    <2>5. \A v \in Workers : \A i \in DOMAIN queue'[v] :
              queue'[v][i][1] = "input" => told'[queue'[v][i][3]] # "none"
        BY <2>2, <2>4, QueueTells
    <2>6. \A y \in Sessions :
              event'[y] # "none" /\ told'[y] = "none" =>
                  Watched(y)' /\ event[y] # "none" /\ owner'[y] = owner[y]
        BY <2>2, <2>4 DEF Greeted, Watched, Tells
    <2> QED
        BY <1>0, <2>2, <2>4, <2>5, <2>6, GreetedMove
<1>4. CASE CloseDestroy(w)
    <2>1. PICK s \in Sessions : s = ses[w]
        BY <1>4, DestroyIs
    <2>2. /\ pc[w] = "closed" /\ Goto(w, "delete") /\ event' = [event EXCEPT ![s] = "freed"]
          /\ UNCHANGED <<told, queue, owner, batch, busy>>
        BY <1>4, <2>1 DEF CloseDestroy, poolVars
    <2>3. Apart(w) /\ pc'[w] = "delete"
        BY <1>0, <2>2, GotoIs DEF IInv
    <2>4. told[s] # "none"
        BY <2>1, <2>2 DEF Greeted
    <2>5. \A y \in Sessions \ {s} : event'[y] = event[y]
        BY <1>0, <2>2 DEF EventType
    <2>6. Tells
        BY <2>2 DEF Tells
    <2>7. \A v \in Workers : \A i \in DOMAIN queue'[v] :
              queue'[v][i][1] = "input" => told'[queue'[v][i][3]] # "none"
        BY <2>2, <2>6, QueueTells
    <2>8. \A y \in Sessions :
              event'[y] # "none" /\ told'[y] = "none" =>
                  Watched(y)' /\ event[y] # "none" /\ owner'[y] = owner[y]
        BY <2>2, <2>4, <2>5 DEF Greeted, Watched
    <2> QED
        BY <1>0, <2>2, <2>3, <2>6, <2>7, <2>8, GreetedMove
<1>5. CASE \E s \in Sessions : Handle(w, s, "read") \/ Handle(w, s, "error")
    <2>1. PICK s \in Sessions, flag \in {"read", "error"} : Handle(w, s, flag)
        BY <1>5
    <2>2. /\ Apart(w) /\ pc'[w] \in {"idle", "close", "ref"}
          /\ \A v \in Workers : batch'[v] \subseteq batch[v]
          /\ pc'[w] # "idle" => ses'[w] = s
        BY <2>1, HandleKeeps
    <2>3. /\ pc[w] = "idle" /\ <<s, flag>> \in batch[w] /\ UNCHANGED <<told, queue, event, owner>>
        BY <2>1 DEF Handle, poolVars
    <2>4. told[s] # "none"
        <3>1. told[<<s, flag>>[1]] # "none"
            BY <2>3 DEF Greeted
        <3> QED
            BY <3>1
    <2> QED
        BY <1>0, <2>2, <2>3, <2>4, GreetedPlain
<1> QED
    BY <1>1, <1>2, <1>3, <1>4, <1>5 DEF LoopTurn

LEMMA GreetedRest ==
    ASSUME IInv, Greeted, \/ Tick \/ Trim \/ Stop \/ Twice \/ UNCHANGED vars
                          \/ \E s \in Sessions : PeerSends(s) \/ PeerCloses(s) \/ PeerResets(s)
    PROVE  Greeted'
<1>1. CASE Tick
    <2>1. Apart(Ticker) /\ UNCHANGED <<told, queue, owner, batch, event>>
        BY <1>1, TickTalks DEF Talk, life, Tick, TickSee, TickCall
    <2> QED
        BY <2>1, GreetedPlain, Bounds
<1>2. CASE ~Tick
    <2>1. UNCHANGED <<told, queue, owner, batch, event, pc, ses>>
        BY <1>2 DEF Trim, Stop, Twice, vars, PeerSends, PeerCloses, PeerResets, PeerUnchanged,
           eventVars, poolVars, threadVars
    <2> QED
        BY <2>1 DEF Greeted, Watched
<1> QED
    BY <1>1, <1>2

(* INPUT is never called back for a session before CONNECT: the event may be armed and
   fetched while connect_cb still runs, but only by the loop of the same thread. *)
THEOREM ConnectsFirst == Spec => ConnectFirst
<1>1. Init => IInv /\ Greeted
    <2> SUFFICES ASSUME Init PROVE Greeted
        BY Starts
    <2>1. /\ pc = [t \in Threads |-> "idle"] /\ event = [s \in Sessions |-> "none"]
          /\ batch = [w \in Workers |-> {}] /\ queue = [w \in Workers |-> <<>>]
        BY DEF Init
    <2>2. \A w \in Workers : DOMAIN queue[w] = {} /\ pc[w] = "idle"
        BY <2>1, Bounds
    <2> QED
        BY <2>1, <2>2 DEF Greeted
<1>2. IInv /\ Greeted /\ [Next]_vars => (IInv /\ Greeted)'
    <2> SUFFICES ASSUME IInv, Greeted, [Next]_vars PROVE (IInv /\ Greeted)'
        OBVIOUS
    <2>1. IInv'
        BY Kept
    <2>2. Greeted'
        BY GreetedShared, GreetedWork, GreetedTurn, GreetedRest, StepsAre
    <2> QED
        BY <2>1, <2>2
<1>3. IInv /\ Greeted /\ [Next]_vars =>
          [\A s \in Sessions : told'[s] = "input" => told[s] # "none"]_vars
    <2> SUFFICES ASSUME IInv, Greeted, [Next]_vars, NEW s \in Sessions,
                        told'[s] = "input", told[s] = "none"
                 PROVE  FALSE
        BY DEF vars
    <2>1. CASE \E w \in Workers : RecvData(w)
        <3>1. PICK w \in Workers : RecvData(w)
            BY <2>1
        <3>2. pc[w] = "recv" /\ told' = [told EXCEPT ![ses[w]] = "input"]
            BY <3>1 DEF RecvData
        <3>3. told[ses[w]] # "none"
            BY <3>2 DEF Greeted
        <3>4. told'[s] = told[s]
            BY <3>2, <3>3 DEF IInv, TypeOK
        <3> QED
            BY <3>4
    <2>2. CASE ~\E w \in Workers : RecvData(w)
        <3>a. ASSUME NEW t \in Threads,
                     Shared(t) \/ RunFails(t) \/ OpenConnection(t) \/ OpenFails(t)
              PROVE  told' = told
            BY <3>a DEF Shared, Close, CloseDel, CloseForget, RunLock, RunPush, RunFails,
               OpenConnection, OpenFails
        <3>b. ASSUME NEW w \in Workers, Work(w)
              PROVE  told' = told \/ told' = [told EXCEPT ![ses[w]] = "connect"]
            BY <2>2, <3>b DEF Work, TakeWork, ConnectCb, ConnectFunc, ConnectRefused, InputCb,
               InputLock, RecvAgain, RecvClosed, InputUnlock, InputDestroy
        <3>c. ASSUME NEW w \in Workers, LoopTurn(w)
              PROVE  told' = told \/ told' = [told EXCEPT ![Head(dead[w])] = "close"]
            BY <3>c DEF LoopTurn, Fetch, Ref, BeginDelete, CloseCb, CloseDestroy, EndDelete, Handle
        <3>d. ASSUME \/ Tick \/ Trim \/ Stop \/ Twice \/ UNCHANGED vars
                     \/ \E y \in Sessions : PeerSends(y) \/ PeerCloses(y) \/ PeerResets(y)
              PROVE  told' = told
            BY <3>d DEF Tick, TickCall, TickSee, Trim, Stop, Twice, PeerSends, PeerCloses, PeerResets,
               PeerUnchanged, vars
        <3>1. \/ told' = told
              \/ \E y, c : c \in {"connect", "close"} /\ told' = [told EXCEPT ![y] = c]
            BY <3>a, <3>b, <3>c, <3>d, StepsAre
        <3>2. told \in [Sessions -> {"none", "connect", "input", "close"}]
            BY DEF IInv, TypeOK
        <3> QED
            BY <3>1, <3>2
    <2> QED
        BY <2>1, <2>2
<1> QED
    BY <1>1, <1>2, <1>3, PTL DEF Spec, ConnectFirst
=============================================================================
