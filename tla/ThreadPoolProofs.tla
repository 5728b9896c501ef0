-------------------------- MODULE ThreadPoolProofs --------------------------
(***************************************************************************)
(* No wakeup of a worker is lost, for any number of workers, callers and   *)
(* works, any pipe capacity, and whatever fails: ThreadPool's TypeOK,      *)
(* ByteAccounting, NoLostWakeup and ReadReturns, from one inductive        *)
(* invariant.                                                              *)
(***************************************************************************)
EXTENDS ThreadPool, SequenceTheorems, TLAPS

LEMMA TypeInit == Init => TypeOK
BY PoolAssumption, EmptySeq
   DEF Init, TypeOK, MainType, RootType, CallType, WorkType, SignalType, Threads, Labels

LEMMA GotoType ==
    ASSUME TypeOK, NEW t \in Threads, NEW label \in Labels, Goto(t, label)
    PROVE  pc' \in [Threads -> Labels]
BY DEF TypeOK, Goto

LEMMA LabelFacts ==
    /\ Labels = {"none", "start", "loop", "test", "read", "lock", "func",
                 "idle", "call", "push", "write"}
    /\ \A t : Home(t) \in Labels
    /\ Workers \subseteq Threads
BY DEF Labels, Home, Threads

(* What an action leaves alone keeps its type. *)
LEMMA TypeKept ==
    ASSUME TypeOK
    PROVE  /\ UNCHANGED mainVars => MainType'
           /\ UNCHANGED <<rootLock, list, cursor>> => RootType'
           /\ UNCHANGED callVars => CallType'
           /\ UNCHANGED workVars => WorkType'
           /\ UNCHANGED signalVars => SignalType'
<1>1. UNCHANGED mainVars => MainType'
    BY DEF TypeOK, MainType, mainVars
<1>2. UNCHANGED <<rootLock, list, cursor>> => RootType'
    BY DEF TypeOK, RootType
<1>3. UNCHANGED callVars => CallType'
    BY DEF TypeOK, CallType, callVars
<1>4. UNCHANGED workVars => WorkType'
    BY DEF TypeOK, WorkType, workVars
<1>5. UNCHANGED signalVars => SignalType'
    BY DEF TypeOK, SignalType, signalVars
<1> QED
    BY <1>1, <1>2, <1>3, <1>4, <1>5

LEMMA TypeStep == TypeOK /\ SubmitterHoldsLock /\ [Next]_vars => TypeOK'
<1> SUFFICES ASSUME TypeOK, SubmitterHoldsLock, [Next]_vars PROVE TypeOK'
    OBVIOUS
<1>1. ASSUME NEW w \in Workers, AddThread(w) PROVE TypeOK'
    <2>1. pc' \in [Threads -> Labels]
        BY <1>1, LabelFacts DEF AddThread, TypeOK, Goto
    <2>2. MainType'
        BY <1>1 DEF AddThread, TypeOK, MainType
    <2> QED
        BY <1>1, <2>1, <2>2, TypeKept DEF AddThread, TypeOK
<1>2. CASE AddFails
    <2>1. MainType'
        BY <1>2 DEF AddFails, TypeOK, MainType
    <2> QED
        BY <1>2, <2>1, TypeKept DEF AddFails, TypeOK
<1>3. CASE AddCreateFails
    <2>1. MainType'
        BY <1>3 DEF AddCreateFails, TypeOK, MainType
    <2> QED
        BY <1>3, <2>1, TypeKept DEF AddCreateFails, TypeOK
<1>4. CASE NewBeginWait
    <2>1. MainType'
        BY <1>4 DEF NewBeginWait, TypeOK, MainType
    <2> QED
        BY <1>4, <2>1, TypeKept DEF NewBeginWait, TypeOK
<1>5. CASE NewCheck
    <2>1. MainType'
        BY <1>5 DEF NewCheck, TypeOK, MainType
    <2> QED
        BY <1>5, <2>1, TypeKept DEF NewCheck, TypeOK
<1>6. ASSUME NEW w \in Workers, Register(w) PROVE TypeOK'
    <2>1. pc' \in [Threads -> Labels]
        BY <1>6, LabelFacts DEF Register, Signal, TypeOK, Goto
    <2>2. MainType'
        BY <1>6 DEF Register, Signal, TypeOK, MainType
    <2>3. RootType'
        BY <1>6 DEF Register, Signal, TypeOK, RootType
    <2> QED
        BY <1>6, <2>1, <2>2, <2>3, TypeKept DEF Register, Signal, TypeOK
<1>7. ASSUME NEW t \in Threads, RunChoose(t) PROVE TypeOK'
    <2>1. pc' \in [Threads -> Labels]
        BY <1>7, LabelFacts DEF RunChoose, TypeOK, Goto
    <2>2. RootType'
        <3>1. list # <<>> => Head(list) \in Workers
            BY DEF TypeOK, RootType
        <3> QED
            BY <1>7, <3>1 DEF RunChoose, TypeOK, RootType
    <2>3. CallType'
        <3>1. arg[t] \in Nat /\ cursor' \in Workers \cup {None} /\ UNCHANGED <<arg, jobs>>
            BY <1>7, <2>2 DEF RunChoose, TypeOK, CallType, RootType
        <3> QED
            BY <1>7, <3>1 DEF RunChoose, TypeOK, CallType
    <2> QED
        BY <1>7, <2>1, <2>2, <2>3, TypeKept DEF RunChoose, TypeOK
<1>8. ASSUME NEW t \in Threads, RunPush(t) PROVE TypeOK'
    <2>1. pc' \in [Threads -> Labels]
        BY <1>8, LabelFacts DEF RunPush, Link, TypeOK, Goto
    <2>2. RootType'
        BY <1>8 DEF RunPush, Link, TypeOK, RootType, Successor
    <2>3. WorkType'
        <3>1. target[t] \in Workers /\ arg[t] \in Nat
            BY <1>8 DEF RunPush, Link, SubmitterHoldsLock, TypeOK, CallType
        <3>2. /\ cnt' = [cnt EXCEPT ![target[t]] = @ + 1]
              /\ queue' = [queue EXCEPT ![target[t]] = Append(@, arg[t])]
            BY <1>8 DEF RunPush, Link
        <3>3. queue' \in [Workers -> Seq(Nat)] /\ cnt' \in [Workers -> Nat]
            BY <3>1, <3>2 DEF TypeOK, WorkType
        <3>4. heap' \in [Workers -> Nat] /\ cur' = cur
            BY <1>8, <3>1 DEF RunPush, TypeOK, WorkType
        <3> QED
            BY <3>3, <3>4 DEF TypeOK, WorkType
    <2> QED
        BY <1>8, <2>1, <2>2, <2>3, TypeKept DEF RunPush, Link, TypeOK
<1>9. ASSUME NEW t \in Threads, RunRefused(t) PROVE TypeOK'
    <2>1. pc' \in [Threads -> Labels]
        BY <1>9, LabelFacts DEF RunRefused, UnlockRoot, TypeOK, Goto
    <2>2. RootType'
        BY <1>9 DEF RunRefused, UnlockRoot, TypeOK, RootType
    <2>3. CallType'
        BY <1>9 DEF RunRefused, UnlockRoot, TypeOK, CallType
    <2> QED
        BY <1>9, <2>1, <2>2, <2>3, TypeKept DEF RunRefused, UnlockRoot, TypeOK
<1>10. ASSUME NEW t \in Threads, RunWrite(t) PROVE TypeOK'
    <2>1. pc' \in [Threads -> Labels]
        BY <1>10, LabelFacts DEF RunWrite, UnlockRoot, TypeOK, Goto
    <2>2. RootType'
        BY <1>10 DEF RunWrite, UnlockRoot, TypeOK, RootType
    <2>3. SignalType'
        <3>1. target[t] \in Workers
            BY <1>10 DEF RunWrite, UnlockRoot, SubmitterHoldsLock
        <3> QED
            BY <1>10, <3>1 DEF RunWrite, UnlockRoot, TypeOK, SignalType
    <2> QED
        BY <1>10, <2>1, <2>2, <2>3, TypeKept DEF RunWrite, UnlockRoot, TypeOK
<1>11. ASSUME NEW t \in Threads, RunWriteFails(t) PROVE TypeOK'
    <2>1. pc' \in [Threads -> Labels]
        BY <1>11, LabelFacts DEF RunWriteFails, UnlockRoot, TypeOK, Goto
    <2>2. RootType'
        BY <1>11 DEF RunWriteFails, UnlockRoot, TypeOK, RootType
    <2>3. SignalType'
        <3>1. target[t] \in Workers
            BY <1>11 DEF RunWriteFails, UnlockRoot, SubmitterHoldsLock
        <3> QED
            BY <1>11, <3>1 DEF RunWriteFails, UnlockRoot, TypeOK, SignalType
    <2> QED
        BY <1>11, <2>1, <2>2, <2>3, TypeKept DEF RunWriteFails, UnlockRoot, TypeOK
<1>12. ASSUME NEW w \in Workers, LoopWait(w) PROVE TypeOK'
    <2>1. pc' \in [Threads -> Labels]
        BY <1>12, LabelFacts DEF LoopWait, Readable, TypeOK, Goto
    <2>2. SignalType'
        BY <1>12 DEF LoopWait, Readable, TypeOK, SignalType
    <2> QED
        BY <1>12, <2>1, <2>2, TypeKept DEF LoopWait, Readable, TypeOK
<1>13. ASSUME NEW w \in Workers, TestCount(w) PROVE TypeOK'
    <2>1. pc' \in [Threads -> Labels]
        BY <1>13, LabelFacts DEF TestCount, HasWork, TypeOK, Goto
    <2> QED
        BY <1>13, <2>1, TypeKept DEF TestCount, HasWork, TypeOK
<1>14. ASSUME NEW w \in Workers, ReadByte(w) PROVE TypeOK'
    <2>1. pc' \in [Threads -> Labels]
        BY <1>14, LabelFacts DEF ReadByte, Readable, TypeOK, Goto
    <2>2. SignalType'
        BY <1>14 DEF ReadByte, Readable, TypeOK, SignalType
    <2> QED
        BY <1>14, <2>1, <2>2, TypeKept DEF ReadByte, Readable, TypeOK
<1>15. ASSUME NEW w \in Workers, ReadFails(w) PROVE TypeOK'
    <2>1. pc' \in [Threads -> Labels]
        BY <1>15, LabelFacts DEF ReadFails, TypeOK, Goto
    <2>2. SignalType'
        BY <1>15 DEF ReadFails, TypeOK, SignalType
    <2> QED
        BY <1>15, <2>1, <2>2, TypeKept DEF ReadFails, TypeOK
<1>16. ASSUME NEW w \in Workers, PopWork(w) PROVE TypeOK'
    <2>1. pc' \in [Threads -> Labels]
        BY <1>16, LabelFacts DEF PopWork, Oldest, TypeOK, Goto
    <2>2. WorkType'
        <3>1. queue[w] # <<>> => Head(queue[w]) \in Nat /\ Tail(queue[w]) \in Seq(Nat)
            BY DEF TypeOK, WorkType
        <3>2. CASE queue[w] = <<>>
            BY <1>16, <3>2 DEF PopWork, Oldest, TypeOK, WorkType
        <3>3. CASE queue[w] # <<>>
            <4>0. (IF cnt[w] > 0 THEN cnt[w] - 1 ELSE cnt[w]) \in Nat
                BY DEF TypeOK, WorkType
            <4>1. cnt' \in [Workers -> Nat]
                BY <1>16, <3>3, <4>0 DEF PopWork, Oldest, TypeOK, WorkType
            <4>2. queue' \in [Workers -> Seq(Nat)]
                BY <1>16, <3>1, <3>3 DEF PopWork, Oldest, TypeOK, WorkType
            <4>3. cur' \in [Workers -> Nat]
                BY <1>16, <3>1, <3>3 DEF PopWork, Oldest, TypeOK, WorkType
            <4>4. UNCHANGED heap
                BY <1>16 DEF PopWork, Oldest
            <4> QED
                BY <4>1, <4>2, <4>3, <4>4 DEF TypeOK, WorkType
        <3> QED
            BY <3>2, <3>3
    <2> QED
        BY <1>16, <2>1, <2>2, TypeKept DEF PopWork, Oldest, TypeOK
<1>17. ASSUME NEW w \in Workers, FuncReturns(w) PROVE TypeOK'
    <2>1. pc' \in [Threads -> Labels]
        BY <1>17, LabelFacts DEF FuncReturns, TypeOK, Goto
    <2>2. WorkType'
        BY <1>17 DEF FuncReturns, TypeOK, WorkType
    <2>3. finished' \in [Workers -> Seq(Nat)]
        BY <1>17 DEF FuncReturns, TypeOK, WorkType
    <2> QED
        BY <1>17, <2>1, <2>2, <2>3, TypeKept DEF FuncReturns, TypeOK
<1>19. ASSUME NEW t \in Threads, RunEnter(t) PROVE TypeOK'
    <2>1. pc' \in [Threads -> Labels]
        BY <1>19, LabelFacts DEF RunEnter, TypeOK, Goto
    <2>2. CallType'
        <3>1. jobs' \in Nat /\ UNCHANGED <<target, refused>>
            BY <1>19 DEF RunEnter, TypeOK, CallType
        <3> QED
            BY <1>19, <3>1 DEF RunEnter, TypeOK, CallType
    <2> QED
        BY <1>19, <2>1, <2>2, TypeKept DEF RunEnter, TypeOK
<1>18. CASE UNCHANGED vars
    BY <1>18, TypeKept DEF vars, TypeOK
<1> QED
    BY <1>1, <1>2, <1>3, <1>4, <1>5, <1>6, <1>7, <1>8, <1>9, <1>10,
       <1>11, <1>12, <1>13, <1>14, <1>15, <1>16, <1>17, <1>18, <1>19
       DEF Next, New, Serve, Submit, Ended

LEMMA InvInit == Init => IInv
<1> SUFFICES ASSUME Init PROVE IInv
    OBVIOUS
<1>1. TypeOK
    BY TypeInit
<1>2. SubmitterHoldsLock
    BY DEF Init, SubmitterHoldsLock, Threads
<1>3. CountStays
    BY DEF Init, CountStays, Threads
<1>4. ByteAccounting
    <2> SUFFICES ASSUME NEW w \in Workers PROVE Accounted(w)
        BY <1>1 DEF ByteAccounting
    <2>1. pc[w] = "none" /\ ~Promised(w)
        BY DEF Init, Promised, Threads
    <2>2. cnt[w] = 0 /\ queue[w] = <<>> /\ pipe[w] = 0 /\ unsent[w] = 0 /\ unread[w] = 0
        BY DEF Init
    <2> QED
        BY <2>1, <2>2 DEF One, Accounted
<1>5. EdgeKept
    BY DEF Init, EdgeKept, Edge
<1> QED
    BY <1>1, <1>2, <1>3, <1>4, <1>5 DEF IInv

(* The lock is handed over whole: one submitter leaves before the next enters. *)
LEMMA LockStep == IInv /\ [Next]_vars => SubmitterHoldsLock'
<1> SUFFICES ASSUME IInv, [Next]_vars PROVE SubmitterHoldsLock'
    OBVIOUS
<1>t. /\ pc \in [Threads -> Labels] /\ target \in [Threads -> Workers \cup {None}]
      /\ cursor \in Workers \cup {None} /\ list \in Seq(Workers)
      /\ Workers \subseteq Threads /\ None \notin Threads
      /\ SubmitterHoldsLock
    BY PoolAssumption DEF IInv, ByteAccounting, TypeOK, CallType, RootType, Threads
<1>1. ASSUME NEW w \in Workers, AddThread(w) PROVE SubmitterHoldsLock'
    BY <1>1, <1>t DEF AddThread, SubmitterHoldsLock, Goto, Home, callVars
<1>2. CASE AddFails
    BY <1>2, <1>t DEF AddFails, SubmitterHoldsLock, Goto, Home, callVars
<1>3. CASE AddCreateFails
    BY <1>3, <1>t DEF AddCreateFails, SubmitterHoldsLock, Goto, Home, callVars
<1>4. CASE NewBeginWait
    BY <1>4, <1>t DEF NewBeginWait, SubmitterHoldsLock, Goto, Home, callVars
<1>5. CASE NewCheck
    BY <1>5, <1>t DEF NewCheck, SubmitterHoldsLock, Goto, Home, callVars
<1>6. ASSUME NEW w \in Workers, Register(w) PROVE SubmitterHoldsLock'
    BY <1>6, <1>t DEF Register, Signal, SubmitterHoldsLock, Goto, Home, callVars
<1>7. ASSUME NEW t \in Threads, RunChoose(t) PROVE SubmitterHoldsLock'
    <2>1. CASE list = <<>>
        BY <1>7, <2>1, <1>t DEF RunChoose, SubmitterHoldsLock, Goto, Home
    <2>2. CASE list # <<>>
        <3>1. cursor' \in Workers
            BY <1>7, <2>2, <1>t DEF RunChoose
        <3> QED
            BY <1>7, <2>2, <3>1, <1>t DEF RunChoose, SubmitterHoldsLock, Goto
    <2> QED
        BY <2>1, <2>2
<1>8. ASSUME NEW t \in Threads, RunPush(t) PROVE SubmitterHoldsLock'
    BY <1>8, <1>t DEF RunPush, Link, SubmitterHoldsLock, Goto, Home, callVars
<1>9. ASSUME NEW t \in Threads, RunRefused(t) PROVE SubmitterHoldsLock'
    BY <1>9, <1>t DEF RunRefused, UnlockRoot, SubmitterHoldsLock, Goto, Home, callVars
<1>10. ASSUME NEW t \in Threads, RunWrite(t) PROVE SubmitterHoldsLock'
    BY <1>10, <1>t DEF RunWrite, UnlockRoot, SubmitterHoldsLock, Goto, Home, callVars
<1>11. ASSUME NEW t \in Threads, RunWriteFails(t) PROVE SubmitterHoldsLock'
    BY <1>11, <1>t DEF RunWriteFails, UnlockRoot, SubmitterHoldsLock, Goto, Home, callVars
<1>12. ASSUME NEW w \in Workers, LoopWait(w) PROVE SubmitterHoldsLock'
    BY <1>12, <1>t DEF LoopWait, Readable, SubmitterHoldsLock, Goto, Home, callVars
<1>13. ASSUME NEW w \in Workers, TestCount(w) PROVE SubmitterHoldsLock'
    BY <1>13, <1>t DEF TestCount, HasWork, SubmitterHoldsLock, Goto, Home, callVars
<1>14. ASSUME NEW w \in Workers, ReadByte(w) PROVE SubmitterHoldsLock'
    BY <1>14, <1>t DEF ReadByte, Readable, SubmitterHoldsLock, Goto, Home, callVars
<1>15. ASSUME NEW w \in Workers, ReadFails(w) PROVE SubmitterHoldsLock'
    BY <1>15, <1>t DEF ReadFails, SubmitterHoldsLock, Goto, Home, callVars
<1>16. ASSUME NEW w \in Workers, PopWork(w) PROVE SubmitterHoldsLock'
    BY <1>16, <1>t DEF PopWork, Oldest, SubmitterHoldsLock, Goto, Home, callVars
<1>17. ASSUME NEW w \in Workers, FuncReturns(w) PROVE SubmitterHoldsLock'
    BY <1>17, <1>t DEF FuncReturns, SubmitterHoldsLock, Goto, Home, callVars
<1>19. ASSUME NEW t \in Threads, RunEnter(t) PROVE SubmitterHoldsLock'
    BY <1>19, <1>t DEF RunEnter, SubmitterHoldsLock, Goto
<1>18. CASE UNCHANGED vars
    BY <1>18, <1>t DEF vars, SubmitterHoldsLock, Goto, Home, callVars
<1> QED
    BY <1>1, <1>2, <1>3, <1>4, <1>5, <1>6, <1>7, <1>8, <1>9, <1>10,
       <1>11, <1>12, <1>13, <1>14, <1>15, <1>16, <1>17, <1>18, <1>19
       DEF Next, New, Serve, Submit, Ended

(* Others only add to self->count; the worker tests it before it reads. *)
LEMMA CountStep == IInv /\ [Next]_vars => CountStays'
<1> SUFFICES ASSUME IInv, [Next]_vars PROVE CountStays'
    OBVIOUS
<1>t. /\ pc \in [Threads -> Labels] /\ cnt \in [Workers -> Nat]
      /\ Workers \subseteq Threads
      /\ SubmitterHoldsLock /\ CountStays
    BY DEF IInv, ByteAccounting, TypeOK, WorkType, Threads
<1>1. ASSUME NEW w \in Workers, AddThread(w) PROVE CountStays'
    BY <1>1, <1>t DEF AddThread, CountStays, Goto, Home, workVars
<1>2. CASE AddFails
    BY <1>2, <1>t DEF AddFails, CountStays, Goto, Home, workVars
<1>3. CASE AddCreateFails
    BY <1>3, <1>t DEF AddCreateFails, CountStays, Goto, Home, workVars
<1>4. CASE NewBeginWait
    BY <1>4, <1>t DEF NewBeginWait, CountStays, Goto, Home, workVars
<1>5. CASE NewCheck
    BY <1>5, <1>t DEF NewCheck, CountStays, Goto, Home, workVars
<1>6. ASSUME NEW w \in Workers, Register(w) PROVE CountStays'
    BY <1>6, <1>t DEF Register, Signal, CountStays, Goto, Home, workVars
<1>7. ASSUME NEW t \in Threads, RunChoose(t) PROVE CountStays'
    <2>1. UNCHANGED cnt /\ \A u \in Workers : pc'[u] = pc[u] \/ pc'[u] \in {"push", "loop", "idle"}
        BY <1>7, <1>t DEF RunChoose, Goto, Home, workVars
    <2> QED
        BY <2>1, <1>t DEF CountStays
<1>8. ASSUME NEW t \in Threads, RunPush(t) PROVE CountStays'
    <2>1. target[t] \in Workers
        BY <1>8, <1>t DEF RunPush, Link, SubmitterHoldsLock
    <2>2. \A u \in Workers : cnt'[u] = cnt[u] \/ cnt'[u] = cnt[u] + 1
        <3>1. cnt' = [cnt EXCEPT ![target[t]] = @ + 1]
            BY <1>8 DEF RunPush, Link
        <3> QED
            BY <3>1, <2>1, <1>t
    <2>3. \A u \in Workers : pc'[u] = pc[u] \/ pc'[u] = "write"
        BY <1>8, <1>t DEF RunPush, Link, Goto
    <2> QED
        BY <2>2, <2>3, <1>t DEF CountStays
<1>9. ASSUME NEW t \in Threads, RunRefused(t) PROVE CountStays'
    BY <1>9, <1>t DEF RunRefused, UnlockRoot, CountStays, Goto, Home, workVars
<1>10. ASSUME NEW t \in Threads, RunWrite(t) PROVE CountStays'
    BY <1>10, <1>t DEF RunWrite, UnlockRoot, CountStays, Goto, Home, workVars
<1>11. ASSUME NEW t \in Threads, RunWriteFails(t) PROVE CountStays'
    BY <1>11, <1>t DEF RunWriteFails, UnlockRoot, CountStays, Goto, Home, workVars
<1>12. ASSUME NEW w \in Workers, LoopWait(w) PROVE CountStays'
    BY <1>12, <1>t DEF LoopWait, Readable, CountStays, Goto, Home, workVars
<1>13. ASSUME NEW w \in Workers, TestCount(w) PROVE CountStays'
    BY <1>13, <1>t DEF TestCount, HasWork, CountStays, Goto, Home, workVars
<1>14. ASSUME NEW w \in Workers, ReadByte(w) PROVE CountStays'
    BY <1>14, <1>t DEF ReadByte, Readable, CountStays, Goto, Home, workVars
<1>15. ASSUME NEW w \in Workers, ReadFails(w) PROVE CountStays'
    BY <1>15, <1>t DEF ReadFails, CountStays, Goto, Home, workVars
<1>16. ASSUME NEW w \in Workers, PopWork(w) PROVE CountStays'
    <2>1. pc'[w] \in {"test", "func"} /\ \A u \in Workers \ {w} : pc'[u] = pc[u] /\ cnt'[u] = cnt[u]
        BY <1>16, <1>t DEF PopWork, Oldest, Goto
    <2> QED
        BY <2>1, <1>t DEF CountStays
<1>17. ASSUME NEW w \in Workers, FuncReturns(w) PROVE CountStays'
    BY <1>17, <1>t DEF FuncReturns, CountStays, Goto, Home, workVars
<1>19. ASSUME NEW t \in Threads, RunEnter(t) PROVE CountStays'
    BY <1>19, <1>t DEF RunEnter, CountStays, Goto, workVars
<1>18. CASE UNCHANGED vars
    BY <1>18, <1>t DEF vars, CountStays, Goto, Home, workVars
<1> QED
    BY <1>1, <1>2, <1>3, <1>4, <1>5, <1>6, <1>7, <1>8, <1>9, <1>10,
       <1>11, <1>12, <1>13, <1>14, <1>15, <1>16, <1>17, <1>18, <1>19
       DEF Next, New, Serve, Submit, Ended

LEMMA AccountedKept ==
    ASSUME NEW u \in Workers, Accounted(u),
           pipe'[u] = pipe[u], cnt'[u] = cnt[u], queue'[u] = queue[u],
           unsent'[u] = unsent[u], unread'[u] = unread[u],
           (pc'[u] = "lock") <=> (pc[u] = "lock"),
           Promised(u)' <=> Promised(u)
    PROVE  Accounted(u)'
BY DEF Accounted, One

LEMMA PromisedKept ==
    ASSUME NEW u \in Workers, UNCHANGED target,
           \A t \in Threads : (pc'[t] = "write") <=> (pc[t] = "write")
    PROVE  Promised(u)' <=> Promised(u)
BY DEF Promised

(* Nobody else is at its write while t has the lock. *)
LEMMA OnePromise ==
    ASSUME SubmitterHoldsLock, NEW t \in Threads, pc[t] \in {"push", "write"}
    PROVE  /\ \A s \in Threads : pc[s] = "write" => s = t
           /\ \A u \in Workers : Promised(u) <=> pc[t] = "write" /\ target[t] = u
BY DEF SubmitterHoldsLock, Promised

(* The sum in Accounted when work is linked, a read fails, work is popped. *)
LEMMA SumWhenLinked ==
    ASSUME NEW a \in Int, NEW b \in Int, NEW c \in Int, NEW d \in Int,
           NEW e \in Int, NEW f \in Int, a + b + c + d = e + f
    PROVE  a + b + (c + 1) + d = (e + 1) + f
OBVIOUS
LEMMA SumWhenUnread ==
    ASSUME NEW a \in Int, NEW b \in Int, NEW c \in Int, NEW d \in Int,
           NEW e \in Int, NEW f \in Int, a + b + c + d = e + f
    PROVE  a + (b + 1) + c + d = e + (f + 1)
OBVIOUS
LEMMA SumWhenPopped ==
    ASSUME NEW a \in Int, NEW c \in Int, NEW d \in Int,
           NEW e \in Int, NEW f \in Int, a + 1 + c + d = e + f
    PROVE  a + 0 + c + d = e - 1 + f
OBVIOUS

(* Every byte stays accounted for. *)
LEMMA BytesStep ==
    ASSUME IInv, [Next]_vars, NEW u \in Workers PROVE Accounted(u)'
<1>t. /\ pc \in [Threads -> Labels]
      /\ cnt \in [Workers -> Nat] /\ queue \in [Workers -> Seq(Nat)]
      /\ pipe \in [Workers -> Nat]
      /\ unsent \in [Workers -> Nat] /\ unread \in [Workers -> Nat]
      /\ target \in [Threads -> Workers \cup {None}] /\ arg \in [Threads -> Nat]
      /\ Workers \subseteq Threads
    BY DEF IInv, ByteAccounting, TypeOK, CallType, WorkType, SignalType, Threads
<1>n. /\ pipe[u] \in Nat /\ cnt[u] \in Nat /\ Len(queue[u]) \in Nat
      /\ unsent[u] \in Nat /\ unread[u] \in Nat
    BY <1>t
<1>o. One(TRUE) = 1 /\ One(FALSE) = 0
    BY DEF One
<1>i. SubmitterHoldsLock /\ CountStays /\ Accounted(u)
    BY DEF IInv, ByteAccounting
<1>1. ASSUME NEW w \in Workers, AddThread(w) PROVE Accounted(u)'
    <2>1. /\ UNCHANGED <<queue, cnt, pipe, unsent, unread, target>>
          /\ \A t \in Threads : (pc'[t] = "write") <=> (pc[t] = "write")
          /\ (pc'[u] = "lock") <=> (pc[u] = "lock")
        BY <1>1, <1>t DEF AddThread, Goto, Home, workVars, signalVars, callVars
    <2> QED
        BY <2>1, <1>i, AccountedKept, PromisedKept
<1>2. CASE AddFails
    <2>1. /\ UNCHANGED <<queue, cnt, pipe, unsent, unread, target>>
          /\ \A t \in Threads : (pc'[t] = "write") <=> (pc[t] = "write")
          /\ (pc'[u] = "lock") <=> (pc[u] = "lock")
        BY <1>2, <1>t DEF AddFails, Goto, Home, workVars, signalVars, callVars
    <2> QED
        BY <2>1, <1>i, AccountedKept, PromisedKept
<1>3. CASE AddCreateFails
    <2>1. /\ UNCHANGED <<queue, cnt, pipe, unsent, unread, target>>
          /\ \A t \in Threads : (pc'[t] = "write") <=> (pc[t] = "write")
          /\ (pc'[u] = "lock") <=> (pc[u] = "lock")
        BY <1>3, <1>t DEF AddCreateFails, Goto, Home, workVars, signalVars, callVars
    <2> QED
        BY <2>1, <1>i, AccountedKept, PromisedKept
<1>4. CASE NewBeginWait
    <2>1. /\ UNCHANGED <<queue, cnt, pipe, unsent, unread, target>>
          /\ \A t \in Threads : (pc'[t] = "write") <=> (pc[t] = "write")
          /\ (pc'[u] = "lock") <=> (pc[u] = "lock")
        BY <1>4, <1>t DEF NewBeginWait, Goto, Home, workVars, signalVars, callVars
    <2> QED
        BY <2>1, <1>i, AccountedKept, PromisedKept
<1>5. CASE NewCheck
    <2>1. /\ UNCHANGED <<queue, cnt, pipe, unsent, unread, target>>
          /\ \A t \in Threads : (pc'[t] = "write") <=> (pc[t] = "write")
          /\ (pc'[u] = "lock") <=> (pc[u] = "lock")
        BY <1>5, <1>t DEF NewCheck, Goto, Home, workVars, signalVars, callVars
    <2> QED
        BY <2>1, <1>i, AccountedKept, PromisedKept
<1>6. ASSUME NEW w \in Workers, Register(w) PROVE Accounted(u)'
    <2>1. /\ UNCHANGED <<queue, cnt, pipe, unsent, unread, target>>
          /\ \A t \in Threads : (pc'[t] = "write") <=> (pc[t] = "write")
          /\ (pc'[u] = "lock") <=> (pc[u] = "lock")
        BY <1>6, <1>t DEF Register, Signal, Goto, Home, workVars, signalVars, callVars
    <2> QED
        BY <2>1, <1>i, AccountedKept, PromisedKept
<1>7. ASSUME NEW t \in Threads, RunChoose(t) PROVE Accounted(u)'
    <2>1. /\ UNCHANGED <<queue, cnt, pipe, unsent, unread>>
          /\ (pc'[u] = "lock") <=> (pc[u] = "lock")
        BY <1>7, <1>t DEF RunChoose, Home, Goto, workVars, signalVars
    <2>2. /\ \A s \in Threads : (pc'[s] = "write") <=> (pc[s] = "write")
          /\ \A s \in Threads : pc[s] = "write" => target'[s] = target[s]
        BY <1>7, <1>t DEF RunChoose, Home, Goto
    <2>3. Promised(u)' <=> Promised(u)
        BY <2>2 DEF Promised
    <2> QED
        BY <2>1, <2>3, <1>i, AccountedKept
<1>8. ASSUME NEW t \in Threads, RunPush(t) PROVE Accounted(u)'
    <2> DEFINE w == target[t]
    <2>1. pc[t] = "push" /\ w \in Workers
        BY <1>8, <1>i DEF RunPush, Link, SubmitterHoldsLock
    <2>2. /\ UNCHANGED <<target, pipe, unsent, unread>>
          /\ cnt' = [cnt EXCEPT ![w] = @ + 1]
          /\ queue' = [queue EXCEPT ![w] = Append(@, arg[t])]
          /\ pc' = [pc EXCEPT ![t] = "write"]
        BY <1>8 DEF RunPush, Link, Goto, signalVars, callVars
    <2>3. ~Promised(u) /\ (Promised(u)' <=> u = w)
        <3>1. \A s \in Threads : pc[s] # "write"
            BY <2>1, <1>i, OnePromise
        <3>2. \A s \in Threads : pc'[s] = "write" <=> s = t
            BY <2>2, <3>1, <1>t
        <3> QED
            BY <2>2, <3>1, <3>2 DEF Promised
    <2>4. (pc'[u] = "lock") <=> (pc[u] = "lock")
        BY <2>1, <2>2, <1>t
    <2>5. CASE u = w
        <3>1. Len(queue'[u]) = Len(queue[u]) + 1 /\ cnt'[u] = cnt[u] + 1
            BY <2>2, <2>5, <1>t
        <3>2. /\ One(Promised(u)) = 0 /\ One(Promised(u))' = 1
              /\ One(pc[u] = "lock")' = One(pc[u] = "lock")
              /\ One(pc[u] = "lock") \in {0, 1}
            BY <2>3, <2>4, <2>5 DEF One
        <3>3. pipe'[u] = pipe[u] /\ unsent'[u] = unsent[u] /\ unread'[u] = unread[u]
            BY <2>2
        <3>4. /\ pipe[u] + One(pc[u] = "lock") + One(Promised(u)) + unsent[u]
                    = cnt[u] + unread[u]
              /\ One(Promised(u)) \in Int /\ One(pc[u] = "lock") \in Int
              /\ pipe[u] \in Int /\ unsent[u] \in Int
              /\ cnt[u] \in Int /\ unread[u] \in Int
            BY <3>1, <3>2, <3>3, <1>n, <1>i DEF Accounted
        <3>5. pipe[u] + One(pc[u] = "lock") + (One(Promised(u)) + 1) + unsent[u]
                  = (cnt[u] + 1) + unread[u]
            BY <3>4, SumWhenLinked
        <3>6. /\ One(Promised(u))' = One(Promised(u)) + 1
              /\ One(pc[u] = "lock")' = One(pc[u] = "lock")
            BY <3>1, <3>2, <3>3
        <3>7. cnt'[u] = Len(queue'[u])
            BY <3>1, <3>2, <3>3, <1>n, <1>i DEF Accounted
        <3> QED
            BY <3>5, <3>6, <3>7, <3>1, <3>2, <3>3 DEF Accounted
    <2>6. CASE u # w
        BY <2>2, <2>3, <2>4, <2>6, <1>t, <1>i, AccountedKept
    <2> QED
        BY <2>5, <2>6
<1>9. ASSUME NEW t \in Threads, RunRefused(t) PROVE Accounted(u)'
    <2>1. /\ UNCHANGED <<queue, cnt, pipe, unsent, unread, target>>
          /\ \A s \in Threads : (pc'[s] = "write") <=> (pc[s] = "write")
          /\ (pc'[u] = "lock") <=> (pc[u] = "lock")
        BY <1>9, <1>t DEF RunRefused, UnlockRoot, Goto, Home, workVars, signalVars, callVars
    <2> QED
        BY <2>1, <1>i, AccountedKept, PromisedKept
<1>10. ASSUME NEW t \in Threads, RunWrite(t) PROVE Accounted(u)'
    <2> DEFINE w == target[t]
    <2>1. pc[t] = "write" /\ w \in Workers
        BY <1>10, <1>i DEF RunWrite, UnlockRoot, SubmitterHoldsLock
    <2>2. /\ UNCHANGED <<target, queue, cnt, unsent, unread>>
          /\ pipe' = [pipe EXCEPT ![w] = @ + 1]
          /\ pc' = [pc EXCEPT ![t] = Home(t)]
        BY <1>10 DEF RunWrite, UnlockRoot, Goto, workVars, callVars
    <2>3. Home(t) \notin {"write", "lock"}
        BY DEF Home
    <2>4. (Promised(u) <=> u = w) /\ ~Promised(u)'
        BY <2>1, <2>2, <2>3, <1>t, <1>i, OnePromise DEF Promised
    <2>5. (pc'[u] = "lock") <=> (pc[u] = "lock")
        BY <2>1, <2>2, <2>3, <1>t
    <2>6. CASE u = w
        <3>1. pipe'[u] = pipe[u] + 1
            BY <2>2, <2>6, <1>t
        <3>2. /\ One(Promised(u)) = 1 /\ One(Promised(u))' = 0
              /\ One(pc[u] = "lock")' = One(pc[u] = "lock")
              /\ One(pc[u] = "lock") \in {0, 1}
            BY <2>4, <2>5, <2>6 DEF One
        <3>3. /\ queue'[u] = queue[u] /\ cnt'[u] = cnt[u]
              /\ unsent'[u] = unsent[u] /\ unread'[u] = unread[u]
            BY <2>2
        <3> QED
            BY <3>1, <3>2, <3>3, <1>n, <1>i DEF Accounted
    <2>7. CASE u # w
        BY <2>2, <2>4, <2>5, <2>7, <1>t, <1>i, AccountedKept
    <2> QED
        BY <2>6, <2>7
<1>11. ASSUME NEW t \in Threads, RunWriteFails(t) PROVE Accounted(u)'
    <2> DEFINE w == target[t]
    <2>1. pc[t] = "write" /\ w \in Workers
        BY <1>11, <1>i DEF RunWriteFails, UnlockRoot, SubmitterHoldsLock
    <2>2. /\ UNCHANGED <<target, queue, cnt, pipe, unread>>
          /\ unsent' = [unsent EXCEPT ![w] = @ + 1]
          /\ pc' = [pc EXCEPT ![t] = Home(t)]
        BY <1>11 DEF RunWriteFails, UnlockRoot, Goto, workVars, callVars
    <2>3. Home(t) \notin {"write", "lock"}
        BY DEF Home
    <2>8. Promised(u) <=> u = w
        BY <2>1, <1>i, OnePromise
    <2>9. \A s \in Threads : pc'[s] # "write"
        BY <2>1, <2>2, <2>3, <1>t, <1>i, OnePromise
    <2>4. (Promised(u) <=> u = w) /\ ~Promised(u)'
        BY <2>8, <2>9 DEF Promised
    <2>5. (pc'[u] = "lock") <=> (pc[u] = "lock")
        BY <2>1, <2>2, <2>3, <1>t
    <2>6. CASE u = w
        <3>1. unsent'[u] = unsent[u] + 1
            BY <2>2, <2>6, <1>t
        <3>2. /\ One(Promised(u)) = 1 /\ One(Promised(u))' = 0
              /\ One(pc[u] = "lock")' = One(pc[u] = "lock")
              /\ One(pc[u] = "lock") \in {0, 1}
            BY <2>4, <2>5, <2>6 DEF One
        <3>3. /\ queue'[u] = queue[u] /\ cnt'[u] = cnt[u]
              /\ pipe'[u] = pipe[u] /\ unread'[u] = unread[u]
            BY <2>2
        <3> DEFINE lock == One(pc[u] = "lock")
        <3>5. lock \in Nat
            BY <3>2
        <3> HIDE DEF lock
        <3>4. pipe[u] + lock + 1 + unsent[u] = pipe[u] + lock + 0 + (unsent[u] + 1)
            BY <3>5, <1>n
        <3> QED
            BY <3>1, <3>2, <3>3, <3>4, <1>i DEF Accounted, lock
    <2>7. CASE u # w
        BY <2>2, <2>4, <2>5, <2>7, <1>t, <1>i, AccountedKept
    <2> QED
        BY <2>6, <2>7
<1>12. ASSUME NEW w \in Workers, LoopWait(w) PROVE Accounted(u)'
    <2>1. /\ UNCHANGED <<queue, cnt, pipe, unsent, unread, target>>
          /\ \A t \in Threads : (pc'[t] = "write") <=> (pc[t] = "write")
          /\ (pc'[u] = "lock") <=> (pc[u] = "lock")
        BY <1>12, <1>t DEF LoopWait, Readable, Goto, Home, workVars, signalVars, callVars
    <2> QED
        BY <2>1, <1>i, AccountedKept, PromisedKept
<1>13. ASSUME NEW w \in Workers, TestCount(w) PROVE Accounted(u)'
    <2>1. /\ UNCHANGED <<queue, cnt, pipe, unsent, unread, target>>
          /\ \A t \in Threads : (pc'[t] = "write") <=> (pc[t] = "write")
          /\ (pc'[u] = "lock") <=> (pc[u] = "lock")
        BY <1>13, <1>t DEF TestCount, HasWork, Goto, Home, workVars, signalVars, callVars
    <2> QED
        BY <2>1, <1>i, AccountedKept, PromisedKept
<1>14. ASSUME NEW w \in Workers, ReadByte(w) PROVE Accounted(u)'
    <2>1. /\ UNCHANGED <<target, queue, cnt, unsent, unread>>
          /\ pipe' = [pipe EXCEPT ![w] = @ - 1] /\ pipe[w] > 0
          /\ pc[w] = "read" /\ pc' = [pc EXCEPT ![w] = "lock"]
        BY <1>14 DEF ReadByte, Readable, Goto, workVars, callVars
    <2>2. Promised(u)' <=> Promised(u)
        BY <2>1, <1>t, PromisedKept
    <2>3. CASE u = w
        <3>1. /\ One(Promised(u))' = One(Promised(u)) /\ One(Promised(u)) \in {0, 1}
              /\ One(pc[u] = "lock") = 0 /\ One(pc[u] = "lock")' = 1
            BY <2>1, <2>2, <2>3, <1>t DEF One
        <3>2. /\ queue'[u] = queue[u] /\ cnt'[u] = cnt[u]
              /\ unsent'[u] = unsent[u] /\ unread'[u] = unread[u]
              /\ pipe'[u] = pipe[u] - 1
            BY <2>1, <2>3, <1>t
        <3> QED
            BY <3>1, <3>2, <1>n, <1>i DEF Accounted
    <2>4. CASE u # w
        BY <2>1, <2>2, <2>4, <1>t, <1>i, AccountedKept
    <2> QED
        BY <2>3, <2>4
<1>15. ASSUME NEW w \in Workers, ReadFails(w) PROVE Accounted(u)'
    <2>1. /\ UNCHANGED <<target, queue, cnt, unsent, pipe>>
          /\ unread' = [unread EXCEPT ![w] = @ + 1]
          /\ pc[w] = "read" /\ pc' = [pc EXCEPT ![w] = "lock"]
        BY <1>15 DEF ReadFails, Goto, workVars, callVars
    <2>2. Promised(u)' <=> Promised(u)
        BY <2>1, <1>t, PromisedKept
    <2>3. CASE u = w
        <3>1. /\ One(Promised(u))' = One(Promised(u)) /\ One(Promised(u)) \in {0, 1}
              /\ One(pc[u] = "lock") = 0 /\ One(pc[u] = "lock")' = 1
            BY <2>1, <2>2, <2>3, <1>t DEF One
        <3>2. /\ queue'[u] = queue[u] /\ cnt'[u] = cnt[u]
              /\ unsent'[u] = unsent[u] /\ pipe'[u] = pipe[u]
              /\ unread'[u] = unread[u] + 1
            BY <2>1, <2>3, <1>t
        <3>4. /\ pipe[u] + One(pc[u] = "lock") + One(Promised(u)) + unsent[u]
                    = cnt[u] + unread[u]
              /\ One(Promised(u)) \in Int /\ One(pc[u] = "lock") \in Int
              /\ pipe[u] \in Int /\ unsent[u] \in Int
              /\ cnt[u] \in Int /\ unread[u] \in Int
            BY <3>1, <3>2, <1>n, <1>i DEF Accounted
        <3>5. pipe[u] + (One(pc[u] = "lock") + 1) + One(Promised(u)) + unsent[u]
                  = cnt[u] + (unread[u] + 1)
            BY <3>4, SumWhenUnread
        <3>6. /\ One(Promised(u))' = One(Promised(u))
              /\ One(pc[u] = "lock")' = One(pc[u] = "lock") + 1
            BY <3>1, <3>2
        <3>7. cnt'[u] = Len(queue'[u])
            BY <3>1, <3>2, <1>n, <1>i DEF Accounted
        <3> QED
            BY <3>5, <3>6, <3>7, <3>1, <3>2 DEF Accounted
    <2>4. CASE u # w
        BY <2>1, <2>2, <2>4, <1>t, <1>i, AccountedKept
    <2> QED
        BY <2>3, <2>4
<1>16. ASSUME NEW w \in Workers, PopWork(w) PROVE Accounted(u)'
    <2>1. pc[w] = "lock" /\ UNCHANGED <<target, pipe, unsent, unread>>
        BY <1>16 DEF PopWork, Oldest, signalVars, callVars
    <2>2. cnt[w] = Len(queue[w]) /\ cnt[w] > 0 /\ queue[w] # <<>>
        BY <2>1, <1>t DEF IInv, CountStays, ByteAccounting, Accounted
    <2>3. /\ queue' = [queue EXCEPT ![w] = Tail(@)]
          /\ cnt' = [cnt EXCEPT ![w] = @ - 1]
          /\ pc' = [pc EXCEPT ![w] = "func"]
        BY <1>16, <2>2, <1>t DEF PopWork, Oldest, Goto
    <2>4. Promised(u)' <=> Promised(u)
        BY <2>1, <2>3, <1>t, PromisedKept
    <2>5. CASE u = w
        <3>1. Len(Tail(queue[w])) = Len(queue[w]) - 1
            BY <2>2, <1>t
        <3>2. /\ One(Promised(u))' = One(Promised(u)) /\ One(Promised(u)) \in {0, 1}
              /\ One(pc[u] = "lock") = 1 /\ One(pc[u] = "lock")' = 0
            BY <2>1, <2>3, <2>4, <2>5, <1>t DEF One
        <3>3. /\ Len(queue'[u]) = Len(queue[u]) - 1 /\ cnt'[u] = cnt[u] - 1
              /\ pipe'[u] = pipe[u] /\ unsent'[u] = unsent[u] /\ unread'[u] = unread[u]
            BY <3>1, <2>1, <2>3, <2>5, <1>t
        <3>4. pipe[u] + 1 + One(Promised(u)) + unsent[u] = cnt[u] + unread[u]
            BY <3>2, <1>i DEF Accounted
        <3>5. /\ One(Promised(u)) \in Int /\ pipe[u] \in Int /\ unsent[u] \in Int
              /\ cnt[u] \in Int /\ unread[u] \in Int
            BY <3>2, <1>n
        <3>6. pipe[u] + 0 + One(Promised(u)) + unsent[u] = cnt[u] - 1 + unread[u]
            BY <3>4, <3>5, SumWhenPopped
        <3>7. cnt'[u] = Len(queue'[u])
            BY <3>2, <3>3, <1>n, <1>i DEF Accounted
        <3> QED
            BY <3>2, <3>3, <3>6, <3>7 DEF Accounted
    <2>6. CASE u # w
        BY <2>1, <2>3, <2>4, <2>6, <1>t, <1>i, AccountedKept
    <2> QED
        BY <2>5, <2>6
<1>17. ASSUME NEW w \in Workers, FuncReturns(w) PROVE Accounted(u)'
    <2>1. /\ UNCHANGED <<queue, cnt, pipe, unsent, unread, target>>
          /\ \A t \in Threads : (pc'[t] = "write") <=> (pc[t] = "write")
          /\ (pc'[u] = "lock") <=> (pc[u] = "lock")
        BY <1>17, <1>t DEF FuncReturns, Goto, Home, workVars, signalVars, callVars
    <2> QED
        BY <2>1, <1>i, AccountedKept, PromisedKept
<1>19. ASSUME NEW t \in Threads, RunEnter(t) PROVE Accounted(u)'
    <2>1. /\ UNCHANGED <<queue, cnt, pipe, unsent, unread, target>>
          /\ \A s \in Threads : (pc'[s] = "write") <=> (pc[s] = "write")
          /\ (pc'[u] = "lock") <=> (pc[u] = "lock")
        BY <1>19, <1>t DEF RunEnter, MaySubmit, Goto, workVars, signalVars
    <2> QED
        BY <2>1, <1>i, AccountedKept, PromisedKept
<1>18. CASE UNCHANGED vars
    <2>1. /\ UNCHANGED <<queue, cnt, pipe, unsent, unread, target>>
          /\ \A t \in Threads : (pc'[t] = "write") <=> (pc[t] = "write")
          /\ (pc'[u] = "lock") <=> (pc[u] = "lock")
        BY <1>18, <1>t DEF vars, Goto, Home, workVars, signalVars, callVars
    <2> QED
        BY <2>1, <1>i, AccountedKept, PromisedKept
<1> QED
    BY <1>1, <1>2, <1>3, <1>4, <1>5, <1>6, <1>7, <1>8, <1>9, <1>10,
       <1>11, <1>12, <1>13, <1>14, <1>15, <1>16, <1>17, <1>18, <1>19
       DEF Next, New, Serve, Submit, Ended

LEMMA EdgeKeptBy ==
    ASSUME NEW u \in Workers, Edge(u),
           pc'[u] \in Serving \/ pc[u] \notin Serving,
           unsent'[u] = unsent[u], unread'[u] = unread[u],
           pipe'[u] = pipe[u], ready'[u] = ready[u]
    PROVE  Edge(u)'
BY DEF Edge

(* The worker that finds self->count at zero has emptied the pipe. *)
LEMMA NoCountNoByte ==
    ASSUME NEW u \in Workers, TypeOK, Accounted(u), cnt[u] = 0, unread[u] = 0
    PROVE  pipe[u] = 0
<1>1. One(pc[u] = "lock") \in Nat /\ One(Promised(u)) \in Nat
    BY DEF One
<1>2. pipe[u] \in Nat /\ unsent[u] \in Nat
    BY DEF TypeOK, SignalType
<1>3. pipe[u] + One(pc[u] = "lock") + One(Promised(u)) + unsent[u] = 0
    BY DEF Accounted
<1> QED
    BY <1>1, <1>2, <1>3

(* A worker leaves its callback with an empty pipe, and a write to an empty pipe
   is an edge. *)
LEMMA EdgeStep == IInv /\ [Next]_vars => EdgeKept'
<1> SUFFICES ASSUME IInv, [Next]_vars, NEW u \in Workers PROVE Edge(u)'
    BY DEF EdgeKept
<1>t. /\ pc \in [Threads -> Labels]
      /\ pipe \in [Workers -> Nat] /\ ready \in [Workers -> BOOLEAN]
      /\ unsent \in [Workers -> Nat] /\ unread \in [Workers -> Nat]
      /\ cnt \in [Workers -> Nat]
      /\ Workers \subseteq Threads
    BY DEF IInv, ByteAccounting, TypeOK, WorkType, SignalType, Threads
<1>i. TypeOK /\ SubmitterHoldsLock /\ Accounted(u) /\ Edge(u)
    BY DEF IInv, ByteAccounting, EdgeKept
<1>h. \A t : Home(t) \notin Serving
    BY DEF Home, Serving
<1>1. ASSUME NEW w \in Workers, AddThread(w) PROVE Edge(u)'
    <2>1. UNCHANGED <<pipe, ready, unsent, unread>>
        BY <1>1 DEF AddThread, signalVars
    <2>2. pc'[u] \in Serving \/ pc[u] \notin Serving
        BY <1>1, <1>t, <1>h DEF AddThread, Goto, Serving
    <2> QED
        BY <2>1, <2>2, <1>i, EdgeKeptBy
<1>2. CASE AddFails
    <2>1. UNCHANGED <<pipe, ready, unsent, unread>>
        BY <1>2 DEF AddFails, signalVars
    <2>2. pc'[u] \in Serving \/ pc[u] \notin Serving
        BY <1>2, <1>t, <1>h DEF AddFails, Goto, Serving
    <2> QED
        BY <2>1, <2>2, <1>i, EdgeKeptBy
<1>3. CASE AddCreateFails
    <2>1. UNCHANGED <<pipe, ready, unsent, unread>>
        BY <1>3 DEF AddCreateFails, signalVars
    <2>2. pc'[u] \in Serving \/ pc[u] \notin Serving
        BY <1>3, <1>t, <1>h DEF AddCreateFails, Goto, Serving
    <2> QED
        BY <2>1, <2>2, <1>i, EdgeKeptBy
<1>4. CASE NewBeginWait
    <2>1. UNCHANGED <<pipe, ready, unsent, unread>>
        BY <1>4 DEF NewBeginWait, signalVars
    <2>2. pc'[u] \in Serving \/ pc[u] \notin Serving
        BY <1>4, <1>t, <1>h DEF NewBeginWait, Goto, Serving
    <2> QED
        BY <2>1, <2>2, <1>i, EdgeKeptBy
<1>5. CASE NewCheck
    <2>1. UNCHANGED <<pipe, ready, unsent, unread>>
        BY <1>5 DEF NewCheck, signalVars
    <2>2. pc'[u] \in Serving \/ pc[u] \notin Serving
        BY <1>5, <1>t, <1>h DEF NewCheck, Goto, Serving
    <2> QED
        BY <2>1, <2>2, <1>i, EdgeKeptBy
<1>6. ASSUME NEW w \in Workers, Register(w) PROVE Edge(u)'
    <2>1. UNCHANGED <<pipe, ready, unsent, unread>>
        BY <1>6 DEF Register, Signal, signalVars
    <2>2. pc'[u] \in Serving \/ pc[u] \notin Serving
        BY <1>6, <1>t, <1>h DEF Register, Signal, Goto, Serving
    <2> QED
        BY <2>1, <2>2, <1>i, EdgeKeptBy
<1>7. ASSUME NEW t \in Threads, RunChoose(t) PROVE Edge(u)'
    <2>1. UNCHANGED <<pipe, ready, unsent, unread>>
        BY <1>7 DEF RunChoose, signalVars
    <2>2. pc'[u] \in Serving \/ pc[u] \notin Serving
        BY <1>7, <1>t, <1>h DEF RunChoose, Home, Goto, Serving
    <2> QED
        BY <2>1, <2>2, <1>i, EdgeKeptBy
<1>8. ASSUME NEW t \in Threads, RunPush(t) PROVE Edge(u)'
    <2>1. UNCHANGED <<pipe, ready, unsent, unread>>
        BY <1>8 DEF RunPush, Link, signalVars
    <2>2. pc'[u] \in Serving \/ pc[u] \notin Serving
        BY <1>8, <1>t, <1>h DEF RunPush, Link, Goto, Serving
    <2> QED
        BY <2>1, <2>2, <1>i, EdgeKeptBy
<1>9. ASSUME NEW t \in Threads, RunRefused(t) PROVE Edge(u)'
    <2>1. UNCHANGED <<pipe, ready, unsent, unread>>
        BY <1>9 DEF RunRefused, UnlockRoot, signalVars
    <2>2. pc'[u] \in Serving \/ pc[u] \notin Serving
        BY <1>9, <1>t, <1>h DEF RunRefused, UnlockRoot, Goto, Serving
    <2> QED
        BY <2>1, <2>2, <1>i, EdgeKeptBy
<1>10. ASSUME NEW t \in Threads, RunWrite(t) PROVE Edge(u)'
    <2> DEFINE w == target[t]
    <2>1. pc[t] = "write" /\ w \in Workers
        BY <1>10, <1>i DEF RunWrite, UnlockRoot, SubmitterHoldsLock
    <2>2. PICK edge \in BOOLEAN :
              /\ pipe[w] = 0 \/ ready[w] => edge
              /\ ready' = [ready EXCEPT ![w] = edge]
        BY <1>10 DEF RunWrite, UnlockRoot
    <2>3. /\ UNCHANGED <<unsent, unread>>
          /\ pipe' = [pipe EXCEPT ![w] = @ + 1]
          /\ pc' = [pc EXCEPT ![t] = Home(t)]
        BY <1>10 DEF RunWrite, UnlockRoot, Goto
    <2>4. pc'[u] \in Serving \/ pc[u] \notin Serving
        BY <2>1, <2>3, <1>t, <1>h DEF Serving
    <2>5. CASE u = w
        <3>1. SUFFICES ASSUME pc'[u] \notin Serving, unsent[u] = 0, unread[u] = 0
                       PROVE  ready'[u]
            BY <2>3 DEF Edge
        <3>2. pipe[u] = 0 \/ pipe[u] > 0
            BY <1>t
        <3>3. pipe[u] = 0 \/ ready[u]
            BY <3>1, <3>2, <2>4, <1>i DEF Edge
        <3> QED
            BY <3>3, <2>2, <2>5, <1>t
    <2>6. CASE u # w
        BY <2>2, <2>3, <2>4, <2>6, <1>t, <1>i, EdgeKeptBy
    <2> QED
        BY <2>5, <2>6
<1>11. ASSUME NEW t \in Threads, RunWriteFails(t) PROVE Edge(u)'
    <2> DEFINE w == target[t]
    <2>1. pc[t] = "write" /\ w \in Workers
        BY <1>11, <1>i DEF RunWriteFails, UnlockRoot, SubmitterHoldsLock
    <2>2. /\ UNCHANGED <<pipe, ready, unread>>
          /\ unsent' = [unsent EXCEPT ![w] = @ + 1]
          /\ pc' = [pc EXCEPT ![t] = Home(t)]
        BY <1>11 DEF RunWriteFails, UnlockRoot, Goto
    <2>3. pc'[u] \in Serving \/ pc[u] \notin Serving
        BY <2>1, <2>2, <1>t, <1>h DEF Serving
    <2>4. CASE u = w
        <3>1. unsent'[u] = unsent[u] + 1
            BY <2>2, <2>4, <1>t
        <3>2. unsent'[u] # 0
            BY <3>1, <1>t
        <3> QED
            BY <3>2 DEF Edge
    <2>5. CASE u # w
        BY <2>2, <2>3, <2>5, <1>t, <1>i, EdgeKeptBy
    <2> QED
        BY <2>4, <2>5
<1>12. ASSUME NEW w \in Workers, LoopWait(w) PROVE Edge(u)'
    <2>1. /\ UNCHANGED <<pipe, unsent, unread>>
          /\ ready' = [ready EXCEPT ![w] = FALSE]
          /\ pc' = [pc EXCEPT ![w] = IF pipe[w] > 0 THEN "test" ELSE "loop"]
        BY <1>12 DEF LoopWait, Readable, Goto
    <2>2. CASE u = w /\ pipe[u] > 0
        <3>1. pc'[u] = "test"
            BY <2>1, <2>2, <1>t
        <3> QED
            BY <3>1 DEF Edge, Serving
    <2>3. CASE u = w /\ ~(pipe[u] > 0)
        BY <2>1, <2>3 DEF Edge
    <2>4. CASE u # w
        BY <2>1, <2>4, <1>t, <1>i, EdgeKeptBy
    <2> QED
        BY <2>2, <2>3, <2>4
<1>13. ASSUME NEW w \in Workers, TestCount(w) PROVE Edge(u)'
    <2>1. /\ UNCHANGED <<pipe, ready, unsent, unread>>
          /\ pc' = [pc EXCEPT ![w] = IF cnt[w] > 0 THEN "read" ELSE "loop"]
        BY <1>13 DEF TestCount, HasWork, Goto, signalVars
    <2>2. CASE u = w /\ cnt[u] > 0
        <3>1. pc'[u] = "read"
            BY <2>1, <2>2, <1>t
        <3> QED
            BY <3>1 DEF Edge, Serving
    <2>3. CASE u = w /\ ~(cnt[u] > 0)
        <3>1. cnt[u] = 0
            BY <2>3, <1>t
        <3>2. unread[u] = 0 => pipe[u] = 0
            BY <3>1, <1>i, NoCountNoByte
        <3> QED
            BY <3>2, <2>1 DEF Edge
    <2>4. CASE u # w
        BY <2>1, <2>4, <1>t, <1>i, EdgeKeptBy
    <2> QED
        BY <2>2, <2>3, <2>4
<1>14. ASSUME NEW w \in Workers, ReadByte(w) PROVE Edge(u)'
    <2>1. pc' = [pc EXCEPT ![w] = "lock"]
        BY <1>14 DEF ReadByte, Readable, Goto
    <2>2. CASE u = w
        <3>1. pc'[u] = "lock"
            BY <2>1, <2>2, <1>t
        <3> QED
            BY <3>1 DEF Edge, Serving
    <2>3. CASE u # w
        BY <1>14, <2>1, <2>3, <1>t, <1>i, EdgeKeptBy DEF ReadByte, Readable
    <2> QED
        BY <2>2, <2>3
<1>15. ASSUME NEW w \in Workers, ReadFails(w) PROVE Edge(u)'
    <2>1. pc' = [pc EXCEPT ![w] = "lock"]
        BY <1>15 DEF ReadFails, Goto
    <2>2. CASE u = w
        <3>1. pc'[u] = "lock"
            BY <2>1, <2>2, <1>t
        <3> QED
            BY <3>1 DEF Edge, Serving
    <2>3. CASE u # w
        BY <1>15, <2>1, <2>3, <1>t, <1>i, EdgeKeptBy DEF ReadFails
    <2> QED
        BY <2>2, <2>3
<1>16. ASSUME NEW w \in Workers, PopWork(w) PROVE Edge(u)'
    <2>1. UNCHANGED <<pipe, ready, unsent, unread>>
        BY <1>16 DEF PopWork, Oldest, signalVars
    <2>2. /\ u = w => pc'[u] \in {"test", "func"}
          /\ u # w => pc'[u] = pc[u]
        BY <1>16, <1>t DEF PopWork, Oldest, Goto
    <2>3. pc'[u] \in Serving \/ pc[u] \notin Serving
        BY <2>2 DEF Serving
    <2> QED
        BY <2>1, <2>3, <1>i, EdgeKeptBy
<1>17. ASSUME NEW w \in Workers, FuncReturns(w) PROVE Edge(u)'
    <2>1. UNCHANGED <<pipe, ready, unsent, unread>>
        BY <1>17 DEF FuncReturns, signalVars
    <2>2. /\ u = w => pc'[u] \in {"test", "func"}
          /\ u # w => pc'[u] = pc[u]
        BY <1>17, <1>t DEF FuncReturns, Goto
    <2>3. pc'[u] \in Serving \/ pc[u] \notin Serving
        BY <2>2 DEF Serving
    <2> QED
        BY <2>1, <2>3, <1>i, EdgeKeptBy
<1>19. ASSUME NEW t \in Threads, RunEnter(t) PROVE Edge(u)'
    <2>1. UNCHANGED <<pipe, ready, unsent, unread>>
        BY <1>19 DEF RunEnter, signalVars
    <2>2. pc'[u] \in Serving \/ pc[u] \notin Serving
        BY <1>19, <1>t, <1>h DEF RunEnter, MaySubmit, Goto, Serving
    <2> QED
        BY <2>1, <2>2, <1>i, EdgeKeptBy
<1>18. CASE UNCHANGED vars
    BY <1>18, <1>i, EdgeKeptBy DEF vars, signalVars
<1> QED
    BY <1>1, <1>2, <1>3, <1>4, <1>5, <1>6, <1>7, <1>8, <1>9, <1>10,
       <1>11, <1>12, <1>13, <1>14, <1>15, <1>16, <1>17, <1>18, <1>19
       DEF Next, New, Serve, Submit, Ended

LEMMA InvStep == IInv /\ [Next]_vars => IInv'
<1> SUFFICES ASSUME IInv, [Next]_vars PROVE IInv'
    OBVIOUS
<1>1. TypeOK'
    BY TypeStep DEF IInv, ByteAccounting
<1>2. ByteAccounting'
    BY <1>1, BytesStep DEF ByteAccounting
<1> QED
    BY <1>2, LockStep, CountStep, EdgeStep DEF IInv

LEMMA Inductive == Spec => []IInv
BY InvInit, InvStep, PTL DEF Spec

(* yod_thread_new, yod_thread_run and the workers keep every variable, the lists
   and the cursor of the pool in particular, within its type. *)
THEOREM PoolTypeOK == Spec => []TypeOK
<1>1. IInv => TypeOK
    BY DEF IInv, ByteAccounting
<1> QED
    BY <1>1, Inductive, PTL

(* self->count and the bytes of the pipe agree with the work list of every
   worker, between any two steps of any number of threads. *)
THEOREM BytesAccounted == Spec => []ByteAccounting
<1>1. IInv => ByteAccounting
    BY DEF IInv
<1> QED
    BY <1>1, Inductive, PTL

(* Work given to a worker in its loop is always signalled to it by epoll, or its
   submitter is at the write: no wakeup is lost. *)
THEOREM WakeupsKept == Spec => []NoLostWakeup
<1>1. ASSUME IInv PROVE NoLostWakeup
    <2> SUFFICES ASSUME NEW w \in Workers, pc[w] = "loop", queue[w] # <<>>,
                        unsent[w] = 0, unread[w] = 0, ~Promised(w)
                 PROVE  ready[w] /\ pipe[w] > 0
        BY DEF NoLostWakeup
    <2>1. /\ pipe[w] \in Nat /\ cnt[w] \in Nat /\ queue[w] \in Seq(Nat)
          /\ Accounted(w) /\ Edge(w)
        BY <1>1 DEF IInv, TypeOK, WorkType, SignalType, ByteAccounting, EdgeKept
    <2>2. cnt[w] > 0
        BY <2>1 DEF Accounted
    <2>3. One(pc[w] = "lock") = 0 /\ One(Promised(w)) = 0
        BY DEF One
    <2>4. pipe[w] = cnt[w]
        BY <2>1, <2>3 DEF Accounted
    <2>5. pipe[w] > 0
        BY <2>2, <2>4
    <2> QED
        BY <2>1, <2>5 DEF Edge, Serving
<1> QED
    BY <1>1, Inductive, PTL

(* A worker blocks in read on its pipe only while the byte is there or its
   submitter is at the write. *)
THEOREM ReadsReturn == Spec => []ReadReturns
<1>1. ASSUME IInv PROVE ReadReturns
    <2> SUFFICES ASSUME NEW w \in Workers, pc[w] = "read", unsent[w] = 0, ~Promised(w)
                 PROVE  pipe[w] > 0
        BY DEF ReadReturns
    <2>1. /\ pipe[w] \in Nat /\ cnt[w] \in Nat /\ unread[w] \in Nat
          /\ Accounted(w) /\ cnt[w] > 0
        BY <1>1 DEF IInv, TypeOK, WorkType, SignalType, ByteAccounting, CountStays
    <2>2. One(pc[w] = "lock") = 0 /\ One(Promised(w)) = 0
        BY DEF One
    <2>3. pipe[w] = cnt[w] + unread[w]
        BY <2>1, <2>2 DEF Accounted
    <2> QED
        BY <2>1, <2>3
<1> QED
    BY <1>1, Inductive, PTL
=============================================================================
