--------------------------- MODULE PoolJobsProofs ----------------------------
(***************************************************************************)
(* What thread.c owes to the callers of yod_thread_run, for any number of  *)
(* workers, callers and works, and whatever fails: -1 is returned for a    *)
(* job exactly when no worker runs it, and the pool implements WorkPool.   *)
(* Then whom it deals the work to: yod_thread_new returns with the workers *)
(* it counted, and the cursor gives each of them its turn.                 *)
(***************************************************************************)
EXTENDS ThreadPoolProofs, FiniteSetTheorems

(* The jobs of one worker. *)
JobsOf(w) == Elements(queue[w]) \cup Elements(finished[w]) \cup
             (IF pc[w] = "func" THEN {cur[w]} ELSE {})

(* The job that a submitter has not linked yet is new, and its own. *)
Carries(t) == pc[t] \in {"call", "push"}
Carried    == {arg[t] : t \in {u \in Threads : Carries(u)}}
CarriedIsNew ==
    \A t \in Threads : Carries(t) =>
        /\ arg[t] \in 1 .. jobs /\ arg[t] \notin refused \cup Accepted
        /\ \A u \in Threads \ {t} : Carries(u) => arg[u] # arg[t]

JobInv == NoJobLost /\ CarriedIsNew /\ jobs <= MaxJobs

-----------------------------------------------------------------------------
(* The actions that leave the works, the calls and who runs one alone. *)
Aside ==
    /\ UNCHANGED <<queue, cur, finished, arg, jobs, refused>>
    /\ \A t \in Threads : /\ pc'[t] = "func" <=> pc[t] = "func"
                          /\ pc'[t] = "push" <=> pc[t] = "push"
                          /\ pc'[t] = "call" <=> pc[t] = "call"

LEMMA Moves ==
    ASSUME TypeOK, NEW t \in Threads, NEW label \in Labels \ {"func", "push", "call"},
           pc[t] \notin {"func", "push", "call"}, Goto(t, label)
    PROVE  \A u \in Threads : /\ pc'[u] = "func" <=> pc[u] = "func"
                              /\ pc'[u] = "push" <=> pc[u] = "push"
                              /\ pc'[u] = "call" <=> pc[u] = "call"
BY DEF TypeOK, Goto

LEMMA HomeLabel == \A t : Home(t) \in Labels \ {"func", "push", "call"}
BY DEF Home, Labels

LEMMA WorkCases ==
    ASSUME IInv, [Next]_vars
    PROVE  \/ Aside
           \/ \E t \in Threads : RunEnter(t) \/ RunChoose(t) \/ RunPush(t) \/ RunRefused(t)
           \/ \E w \in Workers : PopWork(w) \/ FuncReturns(w)
<1> USE DEF mainVars, callVars, workVars, signalVars
<1>1. TypeOK /\ Workers \subseteq Threads
    BY DEF IInv, ByteAccounting, Threads
<1>2. Labels \ {"func", "push", "call"} = {"none", "start", "loop", "test", "read",
                                           "lock", "idle", "write"}
    BY DEF Labels
<1>3. ASSUME NEW w \in Workers, AddThread(w) PROVE Aside
    BY <1>1, <1>2, <1>3, Moves DEF AddThread, Aside
<1>4. CASE New
    BY <1>4 DEF New, AddFails, AddCreateFails, NewBeginWait, NewCheck, Aside
<1>5. ASSUME NEW w \in Workers, Register(w) PROVE Aside
    BY <1>1, <1>2, <1>5, Moves DEF Register, Aside
<1>6. ASSUME NEW t \in Threads, RunWrite(t) \/ RunWriteFails(t) PROVE Aside
    BY <1>1, <1>6, HomeLabel, Moves DEF RunWrite, RunWriteFails, Aside
<1>7. ASSUME NEW w \in Workers, LoopWait(w) PROVE Aside
    BY <1>1, <1>2, <1>7, Moves DEF LoopWait, Aside
<1>8. ASSUME NEW w \in Workers, TestCount(w) PROVE Aside
    BY <1>1, <1>2, <1>8, Moves DEF TestCount, Aside
<1>9. ASSUME NEW w \in Workers, ReadByte(w) \/ ReadFails(w) PROVE Aside
    BY <1>1, <1>2, <1>9, Moves DEF ReadByte, ReadFails, Aside
<1>10. CASE UNCHANGED vars
    BY <1>10 DEF vars, Aside
<1> QED
    BY <1>3, <1>4, <1>5, <1>6, <1>7, <1>8, <1>9, <1>10
       DEF Next, Serve, Submit, Ended

-----------------------------------------------------------------------------
LEMMA ElementsAppend ==
    ASSUME NEW S, NEW s \in Seq(S), NEW x \in S
    PROVE  Elements(Append(s, x)) = Elements(s) \cup {x}
<1>1. /\ Len(s) \in Nat /\ DOMAIN s = 1 .. Len(s)
      /\ DOMAIN Append(s, x) = 1 .. Len(s) + 1
      /\ Append(s, x)[Len(s) + 1] = x
      /\ \A i \in 1 .. Len(s) : Append(s, x)[i] = s[i]
    OBVIOUS
<1>2. 1 .. Len(s) + 1 = (1 .. Len(s)) \cup {Len(s) + 1}
    BY <1>1
<1> QED
    BY <1>1, <1>2 DEF Elements

LEMMA ElementsPop ==
    ASSUME NEW S, NEW s \in Seq(S), s # <<>>
    PROVE  Elements(s) = {Head(s)} \cup Elements(Tail(s))
<1>1. /\ Len(s) \in Nat \ {0} /\ DOMAIN s = 1 .. Len(s)
      /\ DOMAIN Tail(s) = 1 .. Len(s) - 1
      /\ Head(s) = s[1] /\ \A i \in 1 .. Len(s) - 1 : Tail(s)[i] = s[i + 1]
    OBVIOUS
<1>2. ASSUME NEW i \in DOMAIN s, i # 1 PROVE i - 1 \in DOMAIN Tail(s) /\ Tail(s)[i - 1] = s[i]
    BY <1>1, <1>2
<1>3. Elements(s) \subseteq {Head(s)} \cup Elements(Tail(s))
    <2> SUFFICES ASSUME NEW i \in DOMAIN s PROVE s[i] \in {Head(s)} \cup Elements(Tail(s))
        BY DEF Elements
    <2>1. CASE i = 1
        BY <1>1, <2>1
    <2>2. CASE i # 1
        BY <1>2, <2>2 DEF Elements
    <2> QED
        BY <2>1, <2>2
<1>4. Elements(Tail(s)) \subseteq Elements(s)
    <2>1. \A i \in DOMAIN Tail(s) : i + 1 \in DOMAIN s
        BY <1>1
    <2> QED
        BY <1>1, <2>1 DEF Elements
<1>5. Head(s) \in Elements(s)
    BY <1>1 DEF Elements
<1> QED
    BY <1>3, <1>4, <1>5

LEMMA AcceptedIs ==
    /\ Accepted = UNION {JobsOf(w) : w \in Workers}
    /\ Accepted' = UNION {JobsOf(w)' : w \in Workers}
BY DEF Accepted, JobsOf

(* The accepted jobs grow by the one that is linked; taking and finishing a work
   leaves them alone. *)
LEMMA AcceptedStep ==
    ASSUME IInv, [Next]_vars
    PROVE  /\ \A t \in Threads : RunPush(t) => Accepted' = Accepted \cup {arg[t]}
           /\ (\A t \in Threads : ~RunPush(t)) => Accepted' = Accepted
<1> USE DEF mainVars, callVars, workVars, signalVars
<1>1. TypeOK /\ Workers \subseteq Threads
    BY DEF IInv, ByteAccounting, Threads
<1>2. ASSUME NEW t \in Threads, RunPush(t) PROVE Accepted' = Accepted \cup {arg[t]}
    <2> DEFINE x == target[t]
    <2>1. /\ x \in Workers /\ arg[t] \in Nat /\ queue[x] \in Seq(Nat)
          /\ pc[x] # "func" /\ pc[t] = "push" /\ pc' = [pc EXCEPT ![t] = "write"]
          /\ queue' = [queue EXCEPT ![x] = Append(@, arg[t])]
          /\ UNCHANGED <<cur, finished>>
        BY <1>1, <1>2 DEF RunPush, Link, LockFree, Goto, IInv, SubmitterHoldsLock,
               TypeOK, CallType, WorkType
    <2>2. \A w \in Workers : w # x => JobsOf(w)' = JobsOf(w)
        BY <1>1, <2>1 DEF JobsOf, TypeOK, WorkType
    <2>3. \A w \in Workers : w = x => JobsOf(w)' = JobsOf(w) \cup {arg[t]}
        <3>1. Elements(Append(queue[x], arg[t])) = Elements(queue[x]) \cup {arg[t]}
            BY <2>1, ElementsAppend
        <3>2. queue'[x] = Append(queue[x], arg[t]) /\ pc'[x] # "func"
            BY <1>1, <2>1 DEF TypeOK, WorkType
        <3> HIDE DEF x
        <3> QED
            BY <2>1, <3>1, <3>2 DEF JobsOf
    <2> QED
        BY <2>1, <2>2, <2>3, AcceptedIs
<1>3. ASSUME \A w \in Workers : JobsOf(w)' = JobsOf(w) PROVE Accepted' = Accepted
    BY <1>3, AcceptedIs
<1>4. ASSUME Aside PROVE Accepted' = Accepted
    BY <1>1, <1>3, <1>4 DEF Aside, JobsOf
<1>5. ASSUME NEW t \in Threads, RunEnter(t) \/ RunChoose(t) \/ RunRefused(t)
      PROVE  Accepted' = Accepted
    <2>1. UNCHANGED <<queue, cur, finished>>
        BY <1>5 DEF RunEnter, RunChoose, RunRefused
    <2>2. pc'[t] # "func" /\ pc[t] # "func" /\ \A w \in Workers \ {t} : pc'[w] = pc[w]
        BY <1>1, <1>5, HomeLabel, PoolAssumption
           DEF RunEnter, RunChoose, RunRefused, MaySubmit, Goto, TypeOK, Threads
    <2> QED
        BY <1>3, <2>1, <2>2 DEF JobsOf
<1>6. ASSUME NEW w \in Workers, PopWork(w) PROVE Accepted' = Accepted
    <2>1. pc[w] = "lock" /\ UNCHANGED finished
        BY <1>6 DEF PopWork
    <2>2. CASE queue[w] = <<>>
        <3>1. UNCHANGED <<queue, cur>> /\ pc' = [pc EXCEPT ![w] = "test"]
            BY <1>6, <2>2 DEF PopWork, Goto
        <3> QED
            BY <1>1, <1>3, <2>1, <3>1 DEF JobsOf, TypeOK
    <2>3. CASE queue[w] # <<>>
        <3>1. /\ cur' = [cur EXCEPT ![w] = Head(queue[w])]
              /\ queue' = [queue EXCEPT ![w] = Tail(@)]
              /\ pc' = [pc EXCEPT ![w] = "func"]
            BY <1>6, <2>3 DEF PopWork, Goto, Oldest
        <3>2. Elements(queue[w]) = {Head(queue[w])} \cup Elements(Tail(queue[w]))
            BY <1>1, <2>3, ElementsPop DEF TypeOK, WorkType
        <3> QED
            BY <1>1, <1>3, <2>1, <3>1, <3>2 DEF JobsOf, TypeOK, WorkType
    <2> QED
        BY <2>2, <2>3
<1>7. ASSUME NEW w \in Workers, FuncReturns(w) PROVE Accepted' = Accepted
    <2>1. /\ pc[w] = "func" /\ pc' = [pc EXCEPT ![w] = "test"] /\ UNCHANGED <<queue, cur>>
          /\ finished' = [finished EXCEPT ![w] = Append(@, cur[w])]
        BY <1>7 DEF FuncReturns, Goto
    <2>2. finished[w] \in Seq(Nat) /\ cur[w] \in Nat
        BY <1>1, <1>7 DEF TypeOK, WorkType
    <2>3. Elements(Append(finished[w], cur[w])) = Elements(finished[w]) \cup {cur[w]}
        BY <2>2, ElementsAppend
    <2> QED
        BY <1>1, <1>3, <2>1, <2>3 DEF JobsOf, TypeOK
<1> QED
    BY <1>2, <1>4, <1>5, <1>6, <1>7, WorkCases

-----------------------------------------------------------------------------
LEMMA JobStep == IInv /\ JobInv /\ [Next]_vars => JobInv'
<1> SUFFICES ASSUME IInv, JobInv, [Next]_vars PROVE JobInv'
    OBVIOUS
<1> USE DEF mainVars, callVars, workVars, signalVars
<1>1. /\ TypeOK /\ SubmitterHoldsLock /\ Workers \subseteq Threads
      /\ jobs \in Nat /\ MaxJobs \in Nat
    BY PoolAssumption DEF IInv, ByteAccounting, TypeOK, CallType, Threads
<1>2. /\ refused \cap Accepted = {} /\ 1 .. jobs = refused \cup Accepted \cup Carried
      /\ CarriedIsNew /\ jobs <= MaxJobs
    BY DEF JobInv, NoJobLost, Carried, Carries
<1>3. ASSUME refused' \cap Accepted' = {}, CarriedIsNew', jobs' <= MaxJobs,
             1 .. jobs' = refused' \cup Accepted' \cup Carried'
      PROVE  JobInv'
    BY <1>3 DEF JobInv, NoJobLost, Carried, Carries
<1>4. ASSUME UNCHANGED <<jobs, refused, arg>>, \A t \in Threads : ~RunPush(t),
             \A t \in Threads : Carries(t)' <=> Carries(t)
      PROVE  JobInv'
    <2>1. Accepted' = Accepted
        BY <1>4, AcceptedStep
    <2>2. Carried' = Carried
        BY <1>4 DEF Carried
    <2>3. CarriedIsNew'
        BY <1>2, <1>4, <2>1 DEF CarriedIsNew
    <2> QED
        BY <1>2, <1>3, <1>4, <2>1, <2>2, <2>3
<1>5. ASSUME NEW t \in Threads, UNCHANGED <<jobs, arg>>,
             Carries(t), \A u \in Threads : Carries(u)' <=> Carries(u) /\ u # t,
             \/ refused' = refused \cup {arg[t]} /\ Accepted' = Accepted
             \/ refused' = refused /\ Accepted' = Accepted \cup {arg[t]}
      PROVE  JobInv'
    <2>1. arg[t] \notin refused \cup Accepted
        BY <1>2, <1>5 DEF CarriedIsNew
    <2>2. Carried = Carried' \cup {arg[t]}
        BY <1>5 DEF Carried
    <2>3. refused' \cup Accepted' = refused \cup Accepted \cup {arg[t]}
        BY <1>5
    <2>4. CarriedIsNew'
        BY <1>2, <1>5, <2>3 DEF CarriedIsNew
    <2>5. refused' \cap Accepted' = {}
        BY <1>2, <1>5, <2>1
    <2>6. 1 .. jobs' = refused' \cup Accepted' \cup Carried'
        BY <1>2, <1>5, <2>2, <2>3
    <2> QED
        BY <1>2, <1>3, <1>5, <2>4, <2>5, <2>6
<1>6. ASSUME NEW t \in Threads, NEW label, Goto(t, label), label # "write"
      PROVE  \A u \in Threads : /\ ~RunPush(u)
                                /\ Carries(u)' <=> IF u = t THEN label \in {"call", "push"}
                                                             ELSE Carries(u)
    <2>1. \A u \in Threads : pc'[u] = IF u = t THEN label ELSE pc[u]
        BY <1>1, <1>6 DEF Goto, TypeOK
    <2>2. ASSUME NEW u \in Threads, RunPush(u) PROVE FALSE
        <3>1. pc[u] = "push" /\ pc'[u] = "write"
            BY <1>1, <2>2 DEF RunPush, Goto, TypeOK
        <3> QED
            BY <1>6, <2>1, <3>1
    <2> QED
        BY <2>1, <2>2 DEF Carries
<1>7. CASE Aside
    <2>1. \A t \in Threads : ~RunPush(t)
        <3> SUFFICES ASSUME NEW t \in Threads, RunPush(t) PROVE FALSE
            OBVIOUS
        <3>1. pc[t] = "push" /\ pc'[t] = "write"
            BY <1>1 DEF RunPush, Goto, TypeOK
        <3> QED
            BY <1>7, <3>1 DEF Aside
    <2>2. \A t \in Threads : Carries(t)' <=> Carries(t)
        BY <1>7 DEF Aside, Carries
    <2> QED
        BY <1>4, <1>7, <2>1, <2>2 DEF Aside
<1>8. ASSUME NEW t \in Threads, RunEnter(t) PROVE JobInv'
    <2>1. /\ jobs' = jobs + 1 /\ jobs < MaxJobs /\ UNCHANGED refused
          /\ arg' = [arg EXCEPT ![t] = jobs'] /\ Goto(t, "call") /\ ~Carries(t)
        BY <1>8 DEF RunEnter, MaySubmit, Carries
    <2>2. /\ \A u \in Threads : ~RunPush(u)
          /\ \A u \in Threads : Carries(u)' <=> Carries(u) \/ u = t
        BY <1>6, <2>1
    <2>3. Accepted' = Accepted
        BY <2>2, AcceptedStep
    <2>4. jobs' \notin 1 .. jobs /\ 1 .. jobs' = (1 .. jobs) \cup {jobs'} /\ jobs' <= MaxJobs
        BY <1>1, <2>1
    <2>5. arg'[t] = jobs' /\ \A u \in Threads \ {t} : arg'[u] = arg[u]
        BY <1>1, <2>1 DEF TypeOK, CallType
    <2>6. Carried' = Carried \cup {jobs'}
        BY <2>1, <2>2, <2>5 DEF Carried
    <2>7. CarriedIsNew'
        BY <1>2, <2>1, <2>2, <2>3, <2>4, <2>5 DEF CarriedIsNew
    <2>8. 1 .. jobs' = refused' \cup Accepted' \cup Carried'
        BY <1>2, <2>1, <2>3, <2>4, <2>6
    <2> QED
        BY <1>2, <1>3, <2>1, <2>3, <2>4, <2>7, <2>8
<1>9. ASSUME NEW t \in Threads, RunChoose(t) PROVE JobInv'
    <2>1. pc[t] = "call" /\ UNCHANGED <<arg, jobs>>
        BY <1>9 DEF RunChoose
    <2>2. CASE list = <<>>
        <3>1. refused' = refused \cup {arg[t]} /\ Goto(t, Home(t))
            BY <1>9, <2>2 DEF RunChoose
        <3>2. /\ \A u \in Threads : ~RunPush(u)
              /\ \A u \in Threads : Carries(u)' <=> Carries(u) /\ u # t
            BY <1>6, <3>1 DEF Home
        <3>3. Accepted' = Accepted
            BY <3>2, AcceptedStep
        <3> QED
            BY <1>5, <2>1, <3>1, <3>2, <3>3 DEF Carries
    <2>3. CASE list # <<>>
        <3>1. Goto(t, "push") /\ UNCHANGED refused
            BY <1>9, <2>3 DEF RunChoose
        <3>2. \A u \in Threads : ~RunPush(u) /\ (Carries(u)' <=> Carries(u))
            BY <1>6, <2>1, <3>1 DEF Carries
        <3> QED
            BY <1>4, <2>1, <3>1, <3>2
    <2> QED
        BY <2>2, <2>3
<1>10. ASSUME NEW t \in Threads, RunPush(t) PROVE JobInv'
    <2>1. Accepted' = Accepted \cup {arg[t]} /\ UNCHANGED <<jobs, arg, refused>>
        BY <1>10, AcceptedStep DEF RunPush
    <2>2. pc[t] = "push" /\ \A u \in Threads : pc'[u] = IF u = t THEN "write" ELSE pc[u]
        BY <1>1, <1>10 DEF RunPush, Goto, TypeOK
    <2>3. Carries(t) /\ \A u \in Threads : Carries(u)' <=> Carries(u) /\ u # t
        BY <2>2 DEF Carries
    <2> QED
        BY <1>5, <2>1, <2>3
<1>11. ASSUME NEW t \in Threads, RunRefused(t) PROVE JobInv'
    <2>1. /\ refused' = refused \cup {arg[t]} /\ UNCHANGED <<jobs, arg>>
          /\ pc[t] = "push" /\ Goto(t, Home(t))
        BY <1>11 DEF RunRefused
    <2>2. /\ \A u \in Threads : ~RunPush(u)
          /\ \A u \in Threads : Carries(u)' <=> Carries(u) /\ u # t
        BY <1>6, <2>1 DEF Home
    <2>3. Accepted' = Accepted
        BY <2>2, AcceptedStep
    <2> QED
        BY <1>5, <2>1, <2>2, <2>3 DEF Carries
<1>12. ASSUME NEW w \in Workers, PopWork(w) \/ FuncReturns(w) PROVE JobInv'
    <2>1. /\ UNCHANGED <<jobs, refused, arg>> /\ pc[w] \in {"lock", "func"}
          /\ Goto(w, "test") \/ Goto(w, "func")
        BY <1>12 DEF PopWork, FuncReturns
    <2>2. \A u \in Threads : ~RunPush(u) /\ (Carries(u)' <=> Carries(u))
        BY <1>1, <1>6, <2>1 DEF Carries
    <2> QED
        BY <1>4, <2>1, <2>2
<1> QED
    BY <1>7, <1>8, <1>9, <1>10, <1>11, <1>12, WorkCases

LEMMA JobInit == Init => JobInv
<1> SUFFICES ASSUME Init PROVE JobInv
    OBVIOUS
<1>1. jobs = 0 /\ refused = {} /\ \A t \in Threads : pc[t] \notin {"call", "push"}
    BY DEF Init
<1>2. Accepted = {}
    BY DEF Init, Accepted, Elements, Threads
<1>3. NoJobLost
    BY <1>1, <1>2 DEF NoJobLost
<1> QED
    BY <1>1, <1>3, PoolAssumption DEF JobInv, CarriedIsNew, Carries

LEMMA JobsInductive == Spec => [](IInv /\ JobInv)
<1>1. Init => JobInv
    BY JobInit
<1>2. IInv /\ JobInv /\ [Next]_vars => JobInv'
    BY JobStep
<1> QED
    BY Inductive, <1>1, <1>2, PTL DEF Spec

(* yod_thread_run answers -1 for a job exactly when no worker ever runs it: each
   call is refused, accepted or under way, and no job is dropped on the way from
   the list to the worker's function. *)
THEOREM NoJobIsLost == Spec => []NoJobLost
BY JobsInductive, PTL DEF JobInv

-----------------------------------------------------------------------------
(* The pool implements WorkPool. *)

WaitingOf(w) == IF pc[w] = "func" THEN <<cur[w]>> \o queue[w] ELSE queue[w]

LEMMA WaitingType ==
    ASSUME TypeOK, NEW w \in Workers
    PROVE  /\ queue[w] \in Seq(Nat) /\ cur[w] \in Nat /\ WaitingOf(w) \in Seq(Nat)
           /\ waiting[w] = WaitingOf(w) /\ waiting'[w] = WaitingOf(w)'
BY DEF TypeOK, WorkType, WaitingOf, waiting

(* A work under way stands before the others: taking it from the queue moves
   nothing, and its return takes the head away. *)
LEMMA Uncons ==
    ASSUME NEW S, NEW s \in Seq(S), NEW x \in S
    PROVE  /\ <<x>> \o s # <<>>
           /\ Head(<<x>> \o s) = x /\ Tail(<<x>> \o s) = s
           /\ s # <<>> => <<Head(s)>> \o Tail(s) = s
           /\ Elements(<<x>> \o s) = {x} \cup Elements(s)
<1>1. /\ <<x>> \o s \in Seq(S) /\ <<x>> \o s # <<>>
      /\ Head(<<x>> \o s) = x /\ Tail(<<x>> \o s) = s
    OBVIOUS
<1>2. s # <<>> => <<Head(s)>> \o Tail(s) = s
    OBVIOUS
<1>3. Elements(<<x>> \o s) = {x} \cup Elements(s)
    BY <1>1, ElementsPop
<1> QED
    BY <1>1, <1>2, <1>3

LEMMA AcceptedSame == TypeOK => Pool!Accepted = Accepted
<1> SUFFICES ASSUME TypeOK PROVE Pool!Accepted = Accepted
    OBVIOUS
<1>1. Pool!Accepted = UNION {Elements(waiting[w]) \cup Elements(finished[w]) : w \in Workers}
    BY DEF Pool!Accepted, Elements
<1>2. ASSUME NEW w \in Workers
      PROVE  Elements(waiting[w]) \cup Elements(finished[w]) = JobsOf(w)
    <2>1. Elements(<<cur[w]>> \o queue[w]) = {cur[w]} \cup Elements(queue[w])
        BY <1>2, WaitingType, Uncons
    <2> QED
        BY <1>2, <2>1, WaitingType DEF WaitingOf, JobsOf
<1> QED
    BY <1>1, <1>2, AcceptedIs

LEMMA PoolInit == Init => Pool!Init
<1> SUFFICES ASSUME Init PROVE Pool!Init
    OBVIOUS
<1>1. \A w \in Workers : pc[w] # "func" /\ queue[w] = <<>>
    BY DEF Init, Threads
<1> QED
    BY <1>1 DEF Init, Pool!Init, waiting

LEMMA PoolStep ==
    IInv /\ JobInv /\ [Next]_vars => [Pool!Next]_(Pool!vars)
<1> SUFFICES ASSUME IInv, JobInv, [Next]_vars PROVE [Pool!Next]_(Pool!vars)
    OBVIOUS
<1> USE DEF mainVars, callVars, workVars, signalVars
<1>1. /\ TypeOK /\ SubmitterHoldsLock /\ Workers \subseteq Threads
      /\ jobs \in Nat /\ MaxJobs \in Nat /\ jobs <= MaxJobs /\ CarriedIsNew
    BY PoolAssumption DEF IInv, ByteAccounting, JobInv, TypeOK, CallType, Threads
<1>2. ASSUME UNCHANGED finished, \A w \in Workers : WaitingOf(w)' = WaitingOf(w)
      PROVE  UNCHANGED Pool!vars
    BY <1>2 DEF Pool!vars, waiting, WaitingOf
<1>3. CASE Aside
    BY <1>1, <1>2, <1>3 DEF Aside, WaitingOf
<1>4. ASSUME NEW t \in Threads, RunEnter(t) \/ RunChoose(t) \/ RunRefused(t)
      PROVE  UNCHANGED Pool!vars
    <2>1. UNCHANGED <<queue, cur, finished>>
        BY <1>4 DEF RunEnter, RunChoose, RunRefused
    <2>2. pc'[t] # "func" /\ pc[t] # "func" /\ \A w \in Workers \ {t} : pc'[w] = pc[w]
        BY <1>1, <1>4, HomeLabel, PoolAssumption
           DEF RunEnter, RunChoose, RunRefused, MaySubmit, Goto, TypeOK, Threads
    <2> QED
        BY <1>2, <2>1, <2>2 DEF WaitingOf
<1>5. ASSUME NEW t \in Threads, RunPush(t) PROVE Pool!Next
    <2> DEFINE x == target[t]
    <2>1. /\ x \in Workers /\ arg[t] \in Nat /\ queue[x] \in Seq(Nat)
          /\ pc[x] # "func" /\ pc[t] = "push" /\ pc' = [pc EXCEPT ![t] = "write"]
          /\ queue' = [queue EXCEPT ![x] = Append(@, arg[t])]
          /\ UNCHANGED <<cur, finished>>
        BY <1>1, <1>5 DEF RunPush, Link, LockFree, Goto,
               SubmitterHoldsLock, TypeOK, CallType, WorkType
    <2>2. \A w \in Workers : pc'[w] = "func" <=> pc[w] = "func"
        BY <1>1, <2>1 DEF TypeOK
    <2>3. \A w \in Workers : WaitingOf(w)' = IF w = x THEN Append(WaitingOf(w), arg[t])
                                                      ELSE WaitingOf(w)
        BY <1>1, <2>1, <2>2 DEF WaitingOf, TypeOK, WorkType
    <2>4. waiting' = [waiting EXCEPT ![x] = Append(@, arg[t])]
        BY <2>3 DEF waiting, WaitingOf
    <2>5. arg[t] \in 1 .. jobs /\ arg[t] \notin Accepted
        BY <1>1, <1>5, <2>1 DEF CarriedIsNew, Carries
    <2>6. arg[t] \in Jobs /\ arg[t] \notin Pool!Accepted
        BY <1>1, <2>5, AcceptedSame DEF Jobs
    <2>7. Pool!Accept(x, arg[t])
        BY <2>1, <2>4, <2>6 DEF Pool!Accept
    <2> QED
        BY <2>1, <2>6, <2>7 DEF Pool!Next
<1>6. ASSUME NEW w \in Workers, PopWork(w) PROVE UNCHANGED Pool!vars
    <2>1. pc[w] = "lock" /\ UNCHANGED finished
        BY <1>6 DEF PopWork
    <2>2. CASE queue[w] = <<>>
        <3>1. UNCHANGED <<queue, cur>> /\ pc' = [pc EXCEPT ![w] = "test"]
            BY <1>6, <2>2 DEF PopWork, Goto
        <3> QED
            BY <1>1, <1>2, <2>1, <3>1 DEF WaitingOf, TypeOK
    <2>3. CASE queue[w] # <<>>
        <3>1. /\ cur' = [cur EXCEPT ![w] = Head(queue[w])]
              /\ queue' = [queue EXCEPT ![w] = Tail(@)]
              /\ pc' = [pc EXCEPT ![w] = "func"]
            BY <1>6, <2>3 DEF PopWork, Goto, Oldest
        <3>2. <<Head(queue[w])>> \o Tail(queue[w]) = queue[w]
            BY <1>1, <1>6, <2>3, WaitingType, Uncons
        <3>3. WaitingOf(w)' = WaitingOf(w)
            BY <1>1, <1>6, <2>1, <3>1, <3>2 DEF WaitingOf, TypeOK, WorkType
        <3>4. \A u \in Workers \ {w} : WaitingOf(u)' = WaitingOf(u)
            BY <1>1, <3>1 DEF WaitingOf, TypeOK, WorkType
        <3> QED
            BY <1>2, <2>1, <3>3, <3>4
    <2> QED
        BY <2>2, <2>3
<1>7. ASSUME NEW w \in Workers, FuncReturns(w) PROVE Pool!Run(w)
    <2>1. /\ pc[w] = "func" /\ pc' = [pc EXCEPT ![w] = "test"] /\ UNCHANGED <<queue, cur>>
          /\ finished' = [finished EXCEPT ![w] = Append(@, cur[w])]
        BY <1>7 DEF FuncReturns, Goto
    <2>2. /\ waiting[w] = <<cur[w]>> \o queue[w] /\ waiting[w] # <<>>
          /\ Head(waiting[w]) = cur[w] /\ Tail(waiting[w]) = queue[w]
        <3>1. waiting[w] = <<cur[w]>> \o queue[w]
            BY <1>1, <1>7, <2>1, WaitingType DEF WaitingOf
        <3> DEFINE q == queue[w]
                   x == cur[w]
        <3>2. q \in Seq(Nat) /\ x \in Nat
            BY <1>1, <1>7, WaitingType
        <3> HIDE DEF q, x
        <3>3. <<x>> \o q # <<>> /\ Head(<<x>> \o q) = x /\ Tail(<<x>> \o q) = q
            BY <3>2, Uncons
        <3> QED
            BY <3>1, <3>3 DEF q, x
    <2>3. \A u \in Workers : WaitingOf(u)' = IF u = w THEN queue[w] ELSE WaitingOf(u)
        BY <1>1, <2>1 DEF WaitingOf, TypeOK
    <2>4. waiting' = [waiting EXCEPT ![w] = queue[w]]
        BY <2>3 DEF waiting, WaitingOf
    <2> QED
        BY <2>1, <2>2, <2>4 DEF Pool!Run
<1> QED
    BY <1>3, <1>4, <1>5, <1>6, <1>7, WorkCases DEF Pool!Next

(* Every worker runs the works it was given in the order in which yod_thread_run
   linked them, each exactly once, and nothing else: thread.c implements
   WorkPool, whatever calls, signals and failures interleave. *)
THEOREM PoolImplementsWorkPool == Spec => ImplementsWorkPool
<1>1. Init => Pool!Init
    BY PoolInit
<1>2. IInv /\ JobInv /\ [Next]_vars => [Pool!Next]_(Pool!vars)
    BY PoolStep
<1> QED
    BY <1>1, <1>2, JobsInductive, PTL DEF Spec, ImplementsWorkPool, Pool!Spec

-----------------------------------------------------------------------------
(* The workers in the list, and the cursor. *)

Places == 1 .. Len(list)

(* The workers in the list registered, each once. *)
Listed ==
    \A i \in Places :
        /\ pc[list[i]] \notin {"none", "start"}
        /\ \A j \in Places : list[i] = list[j] => i = j

(* The threads that exist and have not registered yet. *)
Joining == {w \in Workers : pc[w] = "start"}

(* thread_num is what is still to come or has come, until yod_thread_new is done
   and others add workers. *)
Counted ==
    /\ IsFiniteSet(Joining)
    /\ todo >= 0 => want = todo + Len(list) + Cardinality(Joining) + silent
    /\ mpc # "adding" => todo <= 0
    /\ mpc # "ready" => todo >= 0
    /\ want >= 0
    /\ mpc = "ready" => Len(list) >= want

(* Nothing is submitted before yod_thread_new returns. *)
Untouched ==
    mpc # "ready" => /\ cursor = None
                     /\ \A w \in Workers : Given(w) = 0
                     /\ \A t \in Threads : pc[t] \notin {"call", "push"}

(* The cursor is at a registered worker, and stays there until the work is linked. *)
CursorHeld ==
    /\ cursor # None => \E i \in Places : list[i] = cursor
    /\ \A t \in Threads : pc[t] = "push" => target[t] = cursor

(* The cursor has yet to come to place i. *)
Passed(i) == \E k \in Places : k > i /\ list[k] = cursor

(* The founders before the cursor have one work more than the others. *)
DealtAt(c) ==
    \A i \in Founders : /\ Passed(i) => Given(list[i]) = c + 1
                        /\ ~Passed(i) => Given(list[i]) = c
Dealt == mpc = "ready" => \E c \in Nat : DealtAt(c)

TurnInv == Listed /\ Counted /\ Untouched /\ CursorHeld /\ Dealt

-----------------------------------------------------------------------------
LEMMA GivenType ==
    ASSUME TypeOK, NEW w \in Workers
    PROVE  Given(w) \in Nat
BY DEF TypeOK, WorkType, Given, One

Done(w) == Len(finished[w])
Due(w)  == Len(queue[w])
Busy(w) == IF pc[w] = "func" THEN 1 ELSE 0

Bit(u, w) == IF u = w THEN 1 ELSE 0

LEMMA Sums ==
    /\ \A f, q, b, g \in Nat : f + (q + g) + b = (f + q + b) + g
    /\ \A f, q, b, g \in Nat : f + (q - g) + (b + g) = f + q + b
    /\ \A f, q, b, g \in Nat : (f + g) + q + b = f + q + (b + g)
OBVIOUS

LEMMA GivenIs ==
    ASSUME NEW w \in Workers
    PROVE  /\ Given(w) = Done(w) + Due(w) + Busy(w)
           /\ Given(w)' = Done(w)' + Due(w)' + Busy(w)'
           /\ Busy(w) \in Nat /\ Busy(w)' \in Nat
           /\ (pc'[w] = "func" <=> pc[w] = "func") => Busy(w)' = Busy(w)
BY DEF Given, One, Done, Due, Busy

(* A worker is given a work by the link alone: what it takes and what it finishes
   was already its own. *)
LEMMA GivenStep ==
    ASSUME IInv, [Next]_vars
    PROVE  /\ \A t \in Threads : RunPush(t) =>
                  \A w \in Workers : Given(w)' = Given(w) + One(w = target[t])
           /\ (\A t \in Threads : ~RunPush(t)) => \A w \in Workers : Given(w)' = Given(w)
<1> USE DEF mainVars, callVars, workVars, signalVars
<1>1. TypeOK /\ Workers \subseteq Threads
    BY DEF IInv, ByteAccounting, Threads
<1>2. \A w \in Workers : /\ Done(w) \in Nat /\ Due(w) \in Nat
                         /\ finished[w] \in Seq(Nat) /\ queue[w] \in Seq(Nat)
    BY <1>1 DEF TypeOK, WorkType, Done, Due
<1>3. ASSUME NEW t \in Threads, RunPush(t)
      PROVE  \A w \in Workers : Given(w)' = Given(w) + One(w = target[t])
    <2> DEFINE x == target[t]
    <2>1. /\ x \in Workers /\ arg[t] \in Nat
          /\ pc[x] # "func" /\ pc[t] = "push" /\ pc' = [pc EXCEPT ![t] = "write"]
          /\ queue' = [queue EXCEPT ![x] = Append(@, arg[t])]
          /\ UNCHANGED <<cur, finished>>
        BY <1>1, <1>3 DEF RunPush, Link, LockFree, Goto, IInv, SubmitterHoldsLock,
               TypeOK, CallType
    <2>2. \A w \in Workers : pc'[w] = "func" <=> pc[w] = "func"
        BY <1>1, <2>1 DEF TypeOK
    <2>3. Len(Append(queue[x], arg[t])) = Len(queue[x]) + 1
        BY <1>2, <2>1
    <2>4. ASSUME NEW w \in Workers PROVE Due(w)' = Due(w) + Bit(w, x)
        <3>1. CASE w = x
            BY <1>1, <2>1, <2>3, <3>1 DEF TypeOK, WorkType, Bit, Due
        <3>2. CASE w # x
            BY <1>1, <1>2, <2>1, <3>2 DEF TypeOK, WorkType, Bit, Due
        <3> QED
            BY <3>1, <3>2
    <2>5. \A w \in Workers : Busy(w)' = Busy(w) /\ Busy(w) \in Nat /\ Bit(w, x) \in Nat
        BY <2>2, GivenIs DEF Bit
    <2>6. \A w \in Workers : Done(w)' = Done(w)
        BY <2>1 DEF Done
    <2> HIDE DEF x
    <2>7. \A w \in Workers : Given(w)' = Given(w) + Bit(w, x)
        <3> SUFFICES ASSUME NEW w \in Workers PROVE Given(w)' = Given(w) + Bit(w, x)
            OBVIOUS
        <3>1. Given(w) = Done(w) + Due(w) + Busy(w)
            BY GivenIs
        <3>2. Given(w)' = Done(w)' + Due(w)' + Busy(w)'
            BY GivenIs
        <3>3. Given(w)' = Done(w) + (Due(w) + Bit(w, x)) + Busy(w)
            BY <2>4, <2>5, <2>6, <3>2
        <3>4. Done(w) \in Nat /\ Due(w) \in Nat /\ Busy(w) \in Nat /\ Bit(w, x) \in Nat
            BY <1>2, <2>5
        <3>5. Done(w) + (Due(w) + Bit(w, x)) + Busy(w)
                  = (Done(w) + Due(w) + Busy(w)) + Bit(w, x)
            BY <3>4, Sums
        <3> QED
            BY <3>1, <3>3, <3>5
    <2> QED
        BY <2>7 DEF x, Bit, One
<1>4. ASSUME Aside PROVE \A w \in Workers : Given(w)' = Given(w)
    BY <1>1, <1>4, GivenIs DEF Aside, Done, Due
<1>5. ASSUME NEW t \in Threads, RunEnter(t) \/ RunChoose(t) \/ RunRefused(t)
      PROVE  \A w \in Workers : Given(w)' = Given(w)
    <2>1. UNCHANGED <<queue, cur, finished>>
        BY <1>5 DEF RunEnter, RunChoose, RunRefused
    <2>2. pc'[t] # "func" /\ pc[t] # "func" /\ \A w \in Workers \ {t} : pc'[w] = pc[w]
        BY <1>1, <1>5, HomeLabel, PoolAssumption
           DEF RunEnter, RunChoose, RunRefused, MaySubmit, Goto, TypeOK, Threads
    <2> QED
        BY <2>1, <2>2, GivenIs DEF Done, Due
<1>6. ASSUME NEW w \in Workers, PopWork(w)
      PROVE  \A u \in Workers : Given(u)' = Given(u)
    <2>1. pc[w] = "lock" /\ UNCHANGED finished
        BY <1>6 DEF PopWork
    <2>2. CASE queue[w] = <<>>
        <3>1. UNCHANGED queue /\ pc' = [pc EXCEPT ![w] = "test"]
            BY <1>6, <2>2 DEF PopWork, Goto
        <3> QED
            BY <1>1, <2>1, <3>1, GivenIs DEF TypeOK, Done, Due
    <2>3. CASE queue[w] # <<>>
        <3>1. /\ queue' = [queue EXCEPT ![w] = Tail(@)]
              /\ pc' = [pc EXCEPT ![w] = "func"]
            BY <1>6, <2>3 DEF PopWork, Goto, Oldest
        <3>2. Len(Tail(queue[w])) = Len(queue[w]) - 1
            BY <1>2, <1>6, <2>3
        <3>3. \A u \in Workers : /\ Due(u)' = Due(u) - Bit(u, w)
                                 /\ Busy(u)' = Busy(u) + Bit(u, w)
            <4>1. /\ queue'[w] = Tail(queue[w]) /\ pc'[w] = "func"
                  /\ \A u \in Workers \ {w} : queue'[u] = queue[u] /\ pc'[u] = pc[u]
                BY <1>1, <1>6, <3>1 DEF TypeOK, WorkType
            <4>2. \A u \in Workers : Due(u)' = Due(u) - Bit(u, w)
                <5>1. Due(w)' = Due(w) - 1
                    BY <3>2, <4>1 DEF Due
                <5>2. \A u \in Workers \ {w} : Due(u)' = Due(u)
                    BY <4>1 DEF Due
                <5> QED
                    BY <1>2, <5>1, <5>2 DEF Bit
            <4>3. \A u \in Workers : Busy(u)' = Busy(u) + Bit(u, w)
                BY <2>1, <4>1 DEF Busy, Bit
            <4> QED
                BY <4>2, <4>3
        <3>4. \A u \in Workers : Busy(u) \in Nat /\ Bit(u, w) \in Nat
            BY DEF Bit, Busy
        <3>5. \A u \in Workers : Done(u)' = Done(u)
            BY <2>1 DEF Done
        <3> SUFFICES ASSUME NEW u \in Workers PROVE Given(u)' = Given(u)
            OBVIOUS
        <3>6. Given(u)' = Done(u) + (Due(u) - Bit(u, w)) + (Busy(u) + Bit(u, w))
            BY <3>3, <3>5, GivenIs
        <3>7. Done(u) \in Nat /\ Due(u) \in Nat /\ Busy(u) \in Nat /\ Bit(u, w) \in Nat
            BY <1>2, <3>4
        <3>8. Given(u)' = Done(u) + Due(u) + Busy(u)
            BY <3>6, <3>7, Sums
        <3> QED
            BY <3>8, GivenIs
    <2> QED
        BY <2>2, <2>3
<1>7. ASSUME NEW w \in Workers, FuncReturns(w)
      PROVE  \A u \in Workers : Given(u)' = Given(u)
    <2>1. /\ pc[w] = "func" /\ pc' = [pc EXCEPT ![w] = "test"] /\ UNCHANGED queue
          /\ finished' = [finished EXCEPT ![w] = Append(@, cur[w])]
        BY <1>7 DEF FuncReturns, Goto
    <2>2. Len(Append(finished[w], cur[w])) = Len(finished[w]) + 1
        BY <1>1, <1>2, <1>7 DEF TypeOK, WorkType
    <2>3. \A u \in Workers : /\ Done(u)' = Done(u) + Bit(u, w)
                             /\ Busy(u) = Busy(u)' + Bit(u, w)
        <3>1. /\ finished'[w] = Append(finished[w], cur[w]) /\ pc'[w] = "test"
              /\ \A u \in Workers \ {w} : finished'[u] = finished[u] /\ pc'[u] = pc[u]
            BY <1>1, <1>7, <2>1 DEF TypeOK
        <3>2. \A u \in Workers : Done(u)' = Done(u) + Bit(u, w)
            <4>1. Done(w)' = Done(w) + 1
                BY <2>2, <3>1 DEF Done
            <4>2. \A u \in Workers \ {w} : Done(u)' = Done(u)
                BY <3>1 DEF Done
            <4> QED
                BY <1>2, <4>1, <4>2 DEF Bit
        <3>3. \A u \in Workers : Busy(u) = Busy(u)' + Bit(u, w)
            BY <2>1, <3>1 DEF Busy, Bit
        <3> QED
            BY <3>2, <3>3
    <2>4. \A u \in Workers : Busy(u)' \in Nat /\ Bit(u, w) \in Nat
        BY DEF Bit, Busy
    <2>5. \A u \in Workers : Due(u)' = Due(u)
        BY <2>1 DEF Due
    <2> SUFFICES ASSUME NEW u \in Workers PROVE Given(u)' = Given(u)
        OBVIOUS
    <2>6. Given(u)' = (Done(u) + Bit(u, w)) + Due(u) + Busy(u)'
        BY <2>3, <2>5, GivenIs
    <2>7. /\ Done(u) \in Nat /\ Due(u) \in Nat
          /\ Busy(u)' \in Nat /\ Bit(u, w) \in Nat
        BY <1>2, <2>4
    <2>8. Given(u)' = Done(u) + Due(u) + (Busy(u)' + Bit(u, w))
        BY <2>6, <2>7, Sums
    <2> QED
        BY <2>3, <2>8, GivenIs
<1> QED
    BY <1>3, <1>4, <1>5, <1>6, <1>7, WorkCases

(* The actions that leave the list, the cursor and what each worker was given alone. *)
Standing ==
    /\ UNCHANGED <<mpc, todo, want, silent, list, cursor>>
    /\ \A t \in Threads : /\ pc'[t] = "none" <=> pc[t] = "none"
                          /\ pc'[t] = "start" <=> pc[t] = "start"
                          /\ pc'[t] = "push" => pc[t] = "push" /\ target'[t] = target[t]
                          /\ pc'[t] = "call" => pc[t] = "call" \/ mpc = "ready"
    /\ \A w \in Workers : Given(w)' = Given(w)

LEMMA TurnCases ==
    ASSUME IInv, [Next]_vars
    PROVE  \/ Standing
           \/ AddFails \/ AddCreateFails \/ NewBeginWait \/ NewCheck
           \/ \E w \in Workers : AddThread(w) \/ Register(w)
           \/ \E t \in Threads : RunChoose(t) \/ RunPush(t)
<1> USE DEF mainVars, callVars, workVars, signalVars
<1>1. TypeOK /\ Workers \subseteq Threads
    BY DEF IInv, ByteAccounting, Threads
<1>3. ASSUME NEW t \in Threads, NEW label \in Labels \ {"none", "start", "push", "write"},
             pc[t] \notin {"none", "start"}, Goto(t, label), UNCHANGED target
      PROVE  /\ \A u \in Threads : ~RunPush(u)
             /\ \A u \in Threads : /\ pc'[u] = "none" <=> pc[u] = "none"
                                   /\ pc'[u] = "start" <=> pc[u] = "start"
                                   /\ pc'[u] = "push" => pc[u] = "push" /\ target'[u] = target[u]
                                   /\ pc'[u] = "call" => pc[u] = "call" \/ label = "call"
    <2>1. \A u \in Threads : pc'[u] = IF u = t THEN label ELSE pc[u]
        BY <1>1, <1>3 DEF Goto, TypeOK
    <2>2. ASSUME NEW u \in Threads, RunPush(u) PROVE FALSE
        <3>1. pc[u] = "push" /\ pc'[u] = "write"
            BY <1>1, <2>2 DEF RunPush, Goto, TypeOK
        <3> QED
            BY <1>3, <2>1, <3>1
    <2> QED
        BY <1>3, <2>1, <2>2
<1>4. Labels \ {"none", "start", "push", "write"} = {"loop", "test", "read", "lock",
                                                     "func", "idle", "call"}
    BY DEF Labels
<1>5. \A t : Home(t) \in {"loop", "idle"}
    BY DEF Home
<1>6. ASSUME NEW t \in Threads, RunWrite(t) \/ RunWriteFails(t) \/ RunRefused(t) PROVE Standing
    <2>1. /\ pc[t] \notin {"none", "start"} /\ Goto(t, Home(t)) /\ UNCHANGED target
          /\ UNCHANGED <<mpc, todo, want, silent, list, cursor>>
        BY <1>6 DEF RunWrite, RunWriteFails, RunRefused
    <2> QED
        BY <1>3, <1>4, <1>5, <2>1, GivenStep DEF Standing
<1>7. ASSUME NEW w \in Workers, Serve(w) PROVE Standing
    <2>1. /\ pc[w] \notin {"none", "start"} /\ UNCHANGED target
          /\ UNCHANGED <<mpc, todo, want, silent, list, cursor>>
        BY <1>7 DEF Serve, LoopWait, TestCount, ReadByte, ReadFails, PopWork, FuncReturns
    <2>2. \E label \in {"loop", "test", "read", "lock", "func"} : Goto(w, label)
        BY <1>7 DEF Serve, LoopWait, TestCount, ReadByte, ReadFails, PopWork, FuncReturns
    <2> QED
        BY <1>1, <1>3, <1>4, <1>7, <2>1, <2>2, GivenStep DEF Standing
<1>8. ASSUME NEW t \in Threads, RunEnter(t) PROVE Standing
    <2>1. /\ pc[t] \notin {"none", "start"} /\ Goto(t, "call") /\ mpc = "ready"
          /\ UNCHANGED <<target, mpc, todo, want, silent, list, cursor>>
        BY <1>8 DEF RunEnter, MaySubmit
    <2> QED
        BY <1>3, <1>4, <2>1, GivenStep DEF Standing
<1>9. CASE UNCHANGED vars
    BY <1>9, GivenIs DEF vars, Standing, Done, Due
<1> QED
    BY <1>6, <1>7, <1>8, <1>9 DEF Next, New, Submit, Ended

LEMMA GivenKept ==
    ASSUME UNCHANGED <<queue, finished>>,
           \A w \in Workers : pc'[w] = "func" <=> pc[w] = "func"
    PROVE  \A w \in Workers : Given(w)' = Given(w)
BY GivenIs DEF Done, Due

(* What yod_thread_new and yod_thread_add do before the new thread runs. *)
Builds ==
    \/ AddFails \/ AddCreateFails \/ NewBeginWait \/ NewCheck
    \/ \E w \in Workers : AddThread(w)

LEMMA BuildFacts ==
    ASSUME TypeOK, Builds
    PROVE  /\ UNCHANGED <<list, cursor, target>>
           /\ \A w \in Workers : Given(w)' = Given(w)
           /\ \A t \in Threads :
                  /\ pc'[t] = "push" <=> pc[t] = "push"
                  /\ pc'[t] = "call" <=> pc[t] = "call"
                  /\ pc'[t] \in {"none", "start"} <=> pc[t] \in {"none", "start"}
           /\ mpc' # "ready" => mpc # "ready"
<1> USE DEF mainVars, callVars, workVars, signalVars
<1>1. UNCHANGED <<list, cursor, target, queue, finished>> /\ (mpc' # "ready" => mpc # "ready")
    BY DEF Builds, AddFails, AddCreateFails, NewBeginWait, NewCheck, AddThread
<1>2. \A t \in Threads :
          /\ pc'[t] = "func" <=> pc[t] = "func"
          /\ pc'[t] = "push" <=> pc[t] = "push"
          /\ pc'[t] = "call" <=> pc[t] = "call"
          /\ pc'[t] \in {"none", "start"} <=> pc[t] \in {"none", "start"}
    <2>1. CASE UNCHANGED pc
        BY <2>1
    <2>2. ASSUME NEW w \in Workers, AddThread(w)
          PROVE  pc[w] = "none" /\ pc' = [pc EXCEPT ![w] = "start"]
        BY <2>2 DEF AddThread, Goto
    <2> QED
        BY <2>1, <2>2
           DEF Builds, AddFails, AddCreateFails, NewBeginWait, NewCheck, TypeOK
<1>3. \A w \in Workers : Given(w)' = Given(w)
    BY <1>1, <1>2, GivenKept DEF Threads
<1> QED
    BY <1>1, <1>2, <1>3

LEMMA RegisterFacts ==
    ASSUME TypeOK, NEW w \in Workers, Register(w)
    PROVE  /\ list' = <<w>> \o list /\ Len(list') = Len(list) + 1
           /\ list'[1] = w /\ \A i \in Places : list'[i + 1] = list[i]
           /\ pc[w] = "start" /\ pc' = [pc EXCEPT ![w] = "loop"]
           /\ UNCHANGED <<todo, want, silent, cursor, target>>
           /\ mpc' = IF mpc = "wait" THEN "check" ELSE mpc
           /\ \A u \in Workers : Given(u)' = Given(u)
<1> USE DEF mainVars, callVars, workVars, signalVars
<1>1. /\ list' = <<w>> \o list /\ pc[w] = "start" /\ pc' = [pc EXCEPT ![w] = "loop"]
      /\ UNCHANGED <<todo, want, silent, cursor, target, queue, finished>>
      /\ mpc' = IF mpc = "wait" THEN "check" ELSE mpc
    BY DEF Register, Signal, Goto
<1>2. list \in Seq(Workers)
    BY DEF TypeOK, RootType
<1>3. /\ Len(<<w>> \o list) = Len(list) + 1 /\ (<<w>> \o list)[1] = w
      /\ \A i \in Places : (<<w>> \o list)[i + 1] = list[i]
    BY <1>2 DEF Places
<1>4. \A u \in Workers : Given(u)' = Given(u)
    BY <1>1, GivenKept DEF TypeOK, Threads
<1> QED
    BY <1>1, <1>3, <1>4

LEMMA ChooseFacts ==
    ASSUME TypeOK, SubmitterHoldsLock, Untouched, NEW t \in Threads, RunChoose(t)
    PROVE  /\ UNCHANGED <<mainVars, list>> /\ mpc = "ready"
           /\ \A w \in Workers : Given(w)' = Given(w)
           /\ \A u \in Threads : pc[u] # "push"
           /\ \A u \in Threads : /\ pc'[u] = "none" <=> pc[u] = "none"
                                 /\ pc'[u] = "start" <=> pc[u] = "start"
           /\ list = <<>> => UNCHANGED cursor /\ \A u \in Threads : pc'[u] # "push"
           /\ list # <<>> => /\ cursor' = IF cursor = None THEN list[1] ELSE cursor
                             /\ target'[t] = cursor'
                             /\ \A u \in Threads : pc'[u] = "push" => u = t
<1> USE DEF callVars, workVars, signalVars
<1>1. /\ UNCHANGED <<mainVars, list, queue, finished>> /\ mpc = "ready"
      /\ pc[t] = "call"
    BY DEF RunChoose, Untouched
<1>2. None \notin Threads /\ Workers \subseteq Threads
    BY PoolAssumption DEF Threads
<1>3. \A u \in Threads : pc[u] # "push"
    BY <1>2 DEF RunChoose, SubmitterHoldsLock
<1>4. CASE list = <<>>
    <2>1. UNCHANGED cursor /\ pc' = [pc EXCEPT ![t] = Home(t)]
        BY <1>4 DEF RunChoose, Goto
    <2>2. /\ \A w \in Workers : pc'[w] = "func" <=> pc[w] = "func"
          /\ \A u \in Threads : /\ pc'[u] = "none" <=> pc[u] = "none"
                                /\ pc'[u] = "start" <=> pc[u] = "start"
                                /\ pc'[u] # "push"
        BY <1>1, <1>2, <1>3, <2>1 DEF TypeOK, Home
    <2> QED
        BY <1>1, <1>3, <1>4, <2>1, <2>2, GivenKept
<1>5. CASE list # <<>>
    <2>1. /\ cursor' = IF cursor = None THEN Head(list) ELSE cursor
          /\ target' = [target EXCEPT ![t] = cursor']
          /\ pc' = [pc EXCEPT ![t] = "push"]
        BY <1>5 DEF RunChoose, Goto
    <2>2. Head(list) = list[1]
        BY <1>5 DEF TypeOK, RootType
    <2>3. /\ \A w \in Workers : pc'[w] = "func" <=> pc[w] = "func"
          /\ \A u \in Threads : /\ pc'[u] = "none" <=> pc[u] = "none"
                                /\ pc'[u] = "start" <=> pc[u] = "start"
                                /\ pc'[u] = "push" => u = t
        BY <1>1, <1>2, <1>3, <2>1 DEF TypeOK
    <2>4. target'[t] = cursor'
        BY <2>1 DEF TypeOK, CallType
    <2> QED
        BY <1>1, <1>3, <1>5, <2>1, <2>2, <2>3, <2>4, GivenKept
<1> QED
    BY <1>4, <1>5

LEMMA PushFacts ==
    ASSUME IInv, [Next]_vars, NEW t \in Threads, RunPush(t)
    PROVE  /\ UNCHANGED <<mainVars, list>>
           /\ pc[t] = "push" /\ target[t] \in Workers
           /\ \A w \in Workers : Given(w)' = Given(w) + One(w = target[t])
           /\ \A u \in Threads : pc'[u] # "push"
           /\ \A u \in Threads : /\ pc'[u] = "none" <=> pc[u] = "none"
                                 /\ pc'[u] = "start" <=> pc[u] = "start"
           /\ cursor' = Successor(target[t])
<1>1. TypeOK /\ SubmitterHoldsLock
    BY DEF IInv, ByteAccounting
<1>2. /\ UNCHANGED <<mainVars, list>> /\ cursor' = Successor(target[t])
      /\ pc[t] = "push" /\ pc' = [pc EXCEPT ![t] = "write"]
    BY DEF RunPush, Goto
<1>3. target[t] \in Workers /\ \A u \in Threads : pc[u] = "push" => u = t
    BY <1>1, <1>2 DEF SubmitterHoldsLock
<1>4. \A w \in Workers : Given(w)' = Given(w) + One(w = target[t])
    BY GivenStep
<1> QED
    BY <1>1, <1>2, <1>3, <1>4 DEF TypeOK

(* self->next, in a list without repetition. *)
LEMMA SuccessorIs ==
    ASSUME TypeOK, Listed, NEW k \in Places
    PROVE  Successor(list[k]) = IF k < Len(list) THEN list[k + 1] ELSE None
<1>1. Len(list) \in Nat
    BY DEF TypeOK, RootType
<1>2. \A j \in Places : list[j] = list[k] => j = k
    BY DEF Listed
<1>3. CASE k < Len(list)
    <2>1. {i \in 1 .. (Len(list) - 1) : list[i] = list[k]} = {k}
        BY <1>1, <1>2, <1>3 DEF Places
    <2>2. (CHOOSE i \in {k} : TRUE) = k
        OBVIOUS
    <2> QED
        BY <1>3, <2>1, <2>2 DEF Successor
<1>4. CASE ~(k < Len(list))
    <2>1. {i \in 1 .. (Len(list) - 1) : list[i] = list[k]} = {}
        BY <1>1, <1>2, <1>4 DEF Places
    <2> QED
        BY <1>4, <2>1 DEF Successor
<1> QED
    BY <1>3, <1>4

-----------------------------------------------------------------------------
LEMMA Cases ==
    ASSUME IInv, [Next]_vars
    PROVE  \/ Standing \/ Builds
           \/ \E w \in Workers : Register(w)
           \/ \E t \in Threads : RunChoose(t) \/ RunPush(t)
BY TurnCases DEF Builds

LEMMA ListFacts ==
    TypeOK => /\ Len(list) \in Nat /\ Workers \subseteq Threads
              /\ \A i \in Places : list[i] \in Workers
BY DEF TypeOK, RootType, Places, Threads

LEMMA ListedStep == IInv /\ TurnInv /\ [Next]_vars => Listed'
<1> SUFFICES ASSUME IInv, TurnInv, [Next]_vars PROVE Listed'
    OBVIOUS
<1>1. TypeOK /\ SubmitterHoldsLock /\ Listed /\ Untouched
    BY DEF IInv, ByteAccounting, TurnInv
<1>2. ASSUME UNCHANGED list,
             \A t \in Threads : pc'[t] \in {"none", "start"} => pc[t] \in {"none", "start"}
      PROVE  Listed'
    BY <1>1, <1>2, ListFacts DEF Listed, Places
<1>3. CASE Standing
    BY <1>2, <1>3 DEF Standing
<1>4. CASE Builds
    BY <1>1, <1>2, <1>4, BuildFacts
<1>5. ASSUME NEW w \in Workers, Register(w) PROVE Listed'
    <2>1. /\ Len(list) \in Nat /\ Len(list') = Len(list) + 1 /\ list'[1] = w
          /\ \A i \in Places : list'[i + 1] = list[i] /\ list[i] \in Workers
          /\ pc[w] = "start" /\ w \in Threads
          /\ \A t \in Threads : pc'[t] = IF t = w THEN "loop" ELSE pc[t]
        BY <1>1, <1>5, RegisterFacts, ListFacts DEF TypeOK
    <2>2. \A i \in Places : list[i] # w
        BY <1>1, <2>1 DEF Listed
    <2>3. ASSUME NEW i \in Places'
          PROVE  i = 1 \/ (i - 1 \in Places /\ list'[i] = list[i - 1])
        <3>1. i \in 1 .. Len(list) + 1
            BY <2>1, <2>3 DEF Places
        <3>2. i # 1 => i - 1 \in Places /\ (i - 1) + 1 = i
            BY <2>1, <3>1 DEF Places
        <3> QED
            BY <2>1, <3>2
    <2>4. ASSUME NEW i \in Places' PROVE pc'[list'[i]] \notin {"none", "start"}
        <3>1. CASE i = 1
            BY <2>1, <3>1
        <3>2. CASE i # 1
            BY <1>1, <2>1, <2>2, <2>3, <3>2, ListFacts DEF Listed
        <3> QED
            BY <3>1, <3>2
    <2>5. ASSUME NEW i \in Places', NEW j \in Places', list'[i] = list'[j] PROVE i = j
        <3>1. i \in Int /\ j \in Int
            BY <2>1 DEF Places
        <3>2. CASE i # 1 /\ j # 1
            <4>1. i - 1 \in Places /\ j - 1 \in Places /\ list[i - 1] = list[j - 1]
                BY <2>3, <2>5, <3>2
            <4>2. i - 1 = j - 1
                BY <1>1, <4>1 DEF Listed
            <4> QED
                BY <3>1, <4>2
        <3>3. CASE i = 1 \/ j = 1
            BY <2>1, <2>2, <2>3, <2>5, <3>3
        <3> QED
            BY <3>2, <3>3
    <2> QED
        BY <2>4, <2>5 DEF Listed
<1>6. ASSUME NEW t \in Threads, RunChoose(t) PROVE Listed'
    BY <1>1, <1>2, <1>6, ChooseFacts
<1>7. ASSUME NEW t \in Threads, RunPush(t) PROVE Listed'
    BY <1>1, <1>2, <1>7, PushFacts
<1> QED
    BY <1>3, <1>4, <1>5, <1>6, <1>7, Cases

Members == Len(list)

LEMMA CountedStep == IInv /\ TurnInv /\ [Next]_vars => Counted'
<1> SUFFICES ASSUME IInv, TurnInv, [Next]_vars PROVE Counted'
    OBVIOUS
<1> USE DEF mainVars, callVars, workVars, signalVars
<1>1. /\ TypeOK /\ SubmitterHoldsLock /\ Counted /\ Untouched /\ Workers \subseteq Threads
      /\ todo \in Int /\ want \in Int /\ silent \in Nat /\ Members \in Nat
      /\ IsFiniteSet(Joining) /\ Cardinality(Joining) \in Nat
    BY ListFacts, FS_CardinalityType
       DEF IInv, ByteAccounting, TurnInv, Counted, Members, TypeOK, MainType
<1>2. /\ todo >= 0 => want = todo + Members + Cardinality(Joining) + silent
      /\ mpc # "adding" => todo <= 0
      /\ mpc # "ready" => todo >= 0
      /\ want >= 0
      /\ mpc = "ready" => Members >= want
    BY <1>1 DEF Counted, Members
<1>3. ASSUME IsFiniteSet(Joining'),
             todo' >= 0 => want' = todo' + Members' + Cardinality(Joining') + silent',
             mpc' # "adding" => todo' <= 0, mpc' # "ready" => todo' >= 0, want' >= 0,
             mpc' = "ready" => Members' >= want'
      PROVE  Counted'
    BY <1>3 DEF Counted, Members
<1>4. ASSUME UNCHANGED <<mpc, todo, want, silent, list>>,
             \A t \in Threads : pc'[t] = "start" <=> pc[t] = "start"
      PROVE  Counted'
    <2>1. Joining' = Joining /\ Members' = Members
        BY <1>1, <1>4 DEF Joining, Members
    <2> QED
        BY <1>1, <1>2, <1>3, <1>4, <2>1
<1>5. CASE Standing
    BY <1>4, <1>5 DEF Standing
<1>6. CASE AddFails \/ AddCreateFails \/ NewBeginWait \/ NewCheck
    <2>1. Joining' = Joining /\ Members' = Members
        BY <1>6 DEF AddFails, AddCreateFails, NewBeginWait, NewCheck, Joining, Members
    <2>2. CASE AddFails
        <3>1. /\ MayAdd /\ todo' = todo - 1 /\ UNCHANGED <<mpc, silent>>
              /\ want' = IF mpc = "adding" THEN want - 1 ELSE want
            BY <2>2 DEF AddFails
        <3>2. todo' >= 0 => want' = todo' + Members' + Cardinality(Joining') + silent'
            BY <1>1, <1>2, <2>1, <3>1 DEF MayAdd
        <3>3. want' >= 0
            BY <1>1, <1>2, <3>1 DEF MayAdd
        <3> QED
            BY <1>1, <1>2, <1>3, <2>1, <3>1, <3>2, <3>3 DEF MayAdd
    <2>3. CASE AddCreateFails
        <3>1. MayAdd /\ todo' = todo - 1 /\ silent' = silent + 1 /\ UNCHANGED <<mpc, want>>
            BY <2>3 DEF AddCreateFails
        <3> QED
            BY <1>1, <1>2, <1>3, <2>1, <3>1 DEF MayAdd
    <2>4. CASE NewBeginWait
        <3>1. mpc' = "check" /\ todo = 0 /\ UNCHANGED <<todo, silent, want>>
            BY <2>4 DEF NewBeginWait
        <3> QED
            BY <1>1, <1>2, <1>3, <2>1, <3>1
    <2>5. CASE NewCheck
        <3>1. /\ mpc = "check" /\ UNCHANGED <<todo, silent, want>>
              /\ mpc' = IF Members < want THEN "wait" ELSE "ready"
            BY <2>5 DEF NewCheck, Members
        <3> QED
            BY <1>1, <1>2, <1>3, <2>1, <3>1
    <2> QED
        BY <1>6, <2>2, <2>3, <2>4, <2>5
<1>7. ASSUME NEW w \in Workers, AddThread(w) PROVE Counted'
    <2>1. /\ MayAdd /\ todo' = todo - 1 /\ UNCHANGED <<mpc, want, silent, list>>
          /\ pc[w] = "none" /\ pc' = [pc EXCEPT ![w] = "start"]
        BY <1>7 DEF AddThread, Goto
    <2>2. Joining' = Joining \cup {w} /\ w \notin Joining /\ Members' = Members
        BY <1>1, <1>7, <2>1 DEF Joining, Members, TypeOK
    <2>3. IsFiniteSet(Joining') /\ Cardinality(Joining') = Cardinality(Joining) + 1
        BY <1>1, <2>2, FS_AddElement
    <2> QED
        BY <1>1, <1>2, <1>3, <2>1, <2>2, <2>3 DEF MayAdd
<1>8. ASSUME NEW w \in Workers, Register(w) PROVE Counted'
    <2>1. /\ UNCHANGED <<todo, want, silent>> /\ Len(list') = Len(list) + 1
          /\ mpc' = (IF mpc = "wait" THEN "check" ELSE mpc)
          /\ pc[w] = "start" /\ pc' = [pc EXCEPT ![w] = "loop"]
        BY <1>1, <1>8, RegisterFacts
    <2>2. Members' = Members + 1
        BY <2>1 DEF Members
    <2>3. Joining' = Joining \ {w} /\ w \in Joining
        BY <1>1, <1>8, <2>1 DEF Joining, TypeOK
    <2>4. IsFiniteSet(Joining') /\ Cardinality(Joining') = Cardinality(Joining) - 1
        BY <1>1, <2>3, FS_RemoveElement
    <2> QED
        BY <1>1, <1>2, <1>3, <2>1, <2>2, <2>4
<1>9. ASSUME NEW t \in Threads, RunChoose(t) PROVE Counted'
    BY <1>1, <1>4, <1>9, ChooseFacts
<1>10. ASSUME NEW t \in Threads, RunPush(t) PROVE Counted'
    BY <1>1, <1>4, <1>10, PushFacts
<1> QED
    BY <1>5, <1>6, <1>7, <1>8, <1>9, <1>10, TurnCases

LEMMA UntouchedStep == IInv /\ TurnInv /\ [Next]_vars => Untouched'
<1> SUFFICES ASSUME IInv, TurnInv, [Next]_vars, mpc' # "ready"
             PROVE  /\ cursor' = None
                    /\ \A w \in Workers : Given(w)' = 0
                    /\ \A t \in Threads : pc'[t] \notin {"call", "push"}
    BY DEF Untouched
<1>1. TypeOK /\ SubmitterHoldsLock /\ Untouched
    BY DEF IInv, ByteAccounting, TurnInv
<1>2. ASSUME mpc # "ready", UNCHANGED cursor, \A w \in Workers : Given(w)' = Given(w),
             \A t \in Threads : /\ pc'[t] = "push" => pc[t] = "push"
                                /\ pc'[t] = "call" => pc[t] = "call"
      PROVE  /\ cursor' = None
             /\ \A w \in Workers : Given(w)' = 0
             /\ \A t \in Threads : pc'[t] \notin {"call", "push"}
    BY <1>1, <1>2 DEF Untouched
<1>3. CASE Standing
    BY <1>2, <1>3 DEF Standing
<1>4. CASE Builds
    BY <1>1, <1>2, <1>4, BuildFacts
<1>5. ASSUME NEW w \in Workers, Register(w)
      PROVE  /\ cursor' = None
             /\ \A u \in Workers : Given(u)' = 0
             /\ \A t \in Threads : pc'[t] \notin {"call", "push"}
    BY <1>1, <1>2, <1>5, RegisterFacts DEF TypeOK
<1>6. ASSUME NEW t \in Threads, RunChoose(t) \/ RunPush(t) PROVE FALSE
    BY <1>1, <1>6, ChooseFacts, PushFacts DEF Untouched, mainVars
<1> QED
    BY <1>3, <1>4, <1>5, <1>6, Cases

LEMMA CursorStep == IInv /\ TurnInv /\ [Next]_vars => CursorHeld'
<1> SUFFICES ASSUME IInv, TurnInv, [Next]_vars PROVE CursorHeld'
    OBVIOUS
<1>1. TypeOK /\ SubmitterHoldsLock /\ CursorHeld /\ Listed /\ Untouched
    BY DEF IInv, ByteAccounting, TurnInv
<1>2. ASSUME UNCHANGED <<list, cursor>>,
             \A t \in Threads : pc'[t] = "push" => pc[t] = "push" /\ target'[t] = target[t]
      PROVE  CursorHeld'
    BY <1>1, <1>2 DEF CursorHeld, Places
<1>3. CASE Standing
    BY <1>2, <1>3 DEF Standing
<1>4. CASE Builds
    BY <1>1, <1>2, <1>4, BuildFacts
<1>5. ASSUME NEW w \in Workers, Register(w) PROVE CursorHeld'
    <2>1. /\ Len(list) \in Nat /\ Len(list') = Len(list) + 1
          /\ \A i \in Places : list'[i + 1] = list[i]
          /\ UNCHANGED <<cursor, target>>
          /\ \A t \in Threads : pc'[t] = "push" => pc[t] = "push"
        BY <1>1, <1>5, RegisterFacts, ListFacts DEF TypeOK
    <2>2. \A i \in Places : i + 1 \in Places'
        BY <2>1 DEF Places
    <2>3. cursor' # None => \E i \in Places' : list'[i] = cursor'
        <3> SUFFICES ASSUME cursor # None PROVE \E i \in Places' : list'[i] = cursor
            BY <2>1
        <3>1. PICK i \in Places : list[i] = cursor
            BY <1>1 DEF CursorHeld
        <3> QED
            BY <2>1, <2>2, <3>1
    <2> QED
        BY <1>1, <2>1, <2>3 DEF CursorHeld
<1>6. ASSUME NEW t \in Threads, RunChoose(t) PROVE CursorHeld'
    <2>1. CASE list = <<>>
        BY <1>1, <1>2, <1>6, <2>1, ChooseFacts
    <2>2. CASE list # <<>>
        <3>1. /\ UNCHANGED list /\ target'[t] = cursor'
              /\ cursor' = IF cursor = None THEN list[1] ELSE cursor
              /\ \A u \in Threads : pc'[u] = "push" => u = t
            BY <1>1, <1>6, <2>2, ChooseFacts
        <3>2. 1 \in Places
            BY <1>1, <2>2 DEF Places, TypeOK, RootType
        <3>3. \E i \in Places : list[i] = cursor'
            BY <1>1, <3>1, <3>2 DEF CursorHeld
        <3>4. Places' = Places
            BY <3>1 DEF Places
        <3> QED
            BY <3>1, <3>3, <3>4 DEF CursorHeld
    <2> QED
        BY <2>1, <2>2
<1>7. ASSUME NEW t \in Threads, RunPush(t) PROVE CursorHeld'
    <2>1. /\ UNCHANGED list /\ cursor' = Successor(target[t]) /\ target[t] \in Workers
          /\ pc[t] = "push" /\ \A u \in Threads : pc'[u] # "push"
        BY <1>7, PushFacts
    <2>2. PICK k \in Places : list[k] = target[t]
        BY <1>1, <2>1, PoolAssumption DEF CursorHeld
    <2>3. cursor' = IF k < Len(list) THEN list[k + 1] ELSE None
        BY <1>1, <2>1, <2>2, SuccessorIs
    <2>4. k < Len(list) => k + 1 \in Places
        BY <1>1, ListFacts DEF Places
    <2>5. Places' = Places
        BY <2>1 DEF Places
    <2> QED
        BY <2>1, <2>3, <2>4, <2>5 DEF CursorHeld
<1> QED
    BY <1>3, <1>4, <1>5, <1>6, <1>7, Cases

LEMMA DealtFrom ==
    ASSUME NEW c \in Nat, TypeOK',
           \A i \in Founders' : \A w \in Workers : w = list'[i] =>
               /\ Passed(i)' => Given(w)' = c + 1
               /\ ~Passed(i)' => Given(w)' = c,
           \A i \in Founders' : i \in Places'
    PROVE  Dealt'
<1>1. \A i \in Founders' : list'[i] \in Workers
    BY DEF TypeOK, RootType, Places
<1>2. \A i \in Founders' : /\ Passed(i)' => Given(list[i])' = c + 1
                           /\ ~Passed(i)' => Given(list[i])' = c
    BY <1>1 DEF Given
<1> QED
    BY <1>2 DEF Dealt, DealtAt

(* The turns do not depend on what a step leaves alone. *)
LEMMA DealtSame ==
    ASSUME TypeOK, TypeOK', Counted, Dealt, UNCHANGED <<mpc, want, list, cursor>>,
           \A w \in Workers : Given(w)' = Given(w)
    PROVE  Dealt'
<1> SUFFICES ASSUME mpc = "ready" PROVE Dealt'
    BY DEF Dealt
<1>1. PICK c \in Nat : DealtAt(c)
    BY DEF Dealt
<1>2. Founders' = Founders /\ Places' = Places /\ \A i : Passed(i)' <=> Passed(i)
    BY DEF Founders, Places, Passed
<1>3. \A i \in Founders : i \in Places
    BY ListFacts DEF Founders, Places, Counted, TypeOK, MainType
<1> QED
    BY <1>1, <1>2, <1>3, DealtFrom DEF DealtAt

LEMMA DealtStep == IInv /\ TurnInv /\ [Next]_vars => Dealt'
<1> SUFFICES ASSUME IInv, TurnInv, [Next]_vars, mpc' = "ready" PROVE Dealt'
    BY DEF Dealt
<1>1. /\ TypeOK /\ SubmitterHoldsLock /\ Listed /\ Counted /\ Untouched /\ CursorHeld /\ Dealt
      /\ None \notin Workers
    BY PoolAssumption DEF IInv, ByteAccounting, TurnInv
<1>2. TypeOK' /\ Counted' /\ Listed'
    BY <1>1, TypeStep, CountedStep, ListedStep
<1>3. /\ \A i \in Founders' : i \in Places' /\ list'[i] \in Workers
      /\ mpc = "ready" => \A i \in Founders : i \in Places /\ list[i] \in Workers
    <2>1. mpc = "ready" => \A i \in Founders : i \in Places
        BY <1>1, ListFacts DEF Founders, Places, Counted, TypeOK, MainType
    <2>2. /\ list' \in Seq(Workers) /\ Len(list') \in Nat /\ want' \in Int
          /\ want' >= 0 /\ Len(list') >= want'
        BY <1>2 DEF Counted, TypeOK, MainType, RootType
    <2>3. \A i \in Founders' : i \in Places' 
        BY <2>2 DEF Founders, Places
    <2> QED
        BY <1>1, <2>1, <2>2, <2>3, ListFacts DEF Places
<1>4. CASE Standing
    BY <1>1, <1>2, <1>4, DealtSame DEF Standing
<1>5. CASE Builds
    <2>1. UNCHANGED <<list, cursor>> /\ \A w \in Workers : Given(w)' = Given(w)
        BY <1>1, <1>5, BuildFacts
    <2>2. CASE mpc = "ready"
        <3>1. UNCHANGED <<mpc, want>>
            BY <1>5, <2>2 DEF Builds, AddFails, AddCreateFails, NewBeginWait, NewCheck,
                   AddThread, mainVars
        <3> QED
            BY <1>1, <1>2, <2>1, <3>1, DealtSame
    <2>3. CASE mpc # "ready"
        <3>1. cursor' = None /\ \A w \in Workers : Given(w)' = 0
            BY <1>1, <2>1, <2>3 DEF Untouched
        <3>2. \A i \in Founders' : ~Passed(i)'
            BY <1>1, <1>2, <3>1 DEF Passed, Places, TypeOK, RootType
        <3> QED
            BY <1>2, <1>3, <3>1, <3>2, DealtFrom
    <2> QED
        BY <2>2, <2>3
<1>6. ASSUME NEW w \in Workers, Register(w) PROVE Dealt'
    <2>1. /\ Len(list) \in Nat /\ Len(list') = Len(list) + 1 /\ list'[1] = w
          /\ \A i \in Places : list'[i + 1] = list[i]
          /\ UNCHANGED <<want, cursor>> /\ want \in Int /\ mpc = "ready"
          /\ \A u \in Workers : Given(u)' = Given(u)
        BY <1>1, <1>6, RegisterFacts, ListFacts DEF TypeOK, MainType
    <2>2. PICK c \in Nat : DealtAt(c)
        BY <1>1, <2>1 DEF Dealt
    <2>3. ASSUME NEW i \in Founders'
          PROVE  /\ i - 1 \in Founders /\ i - 1 \in Places /\ list'[i] = list[i - 1]
                 /\ Passed(i)' <=> Passed(i - 1)
        <3>1. i \in Int /\ i - 1 \in Founders /\ i - 1 \in Places /\ (i - 1) + 1 = i
            BY <1>3, <2>1, <2>3 DEF Founders, Places
        <3>2. list'[i] = list[i - 1]
            BY <2>1, <3>1
        <3>3. \A k \in Places : /\ k + 1 \in Places' /\ list'[k + 1] = list[k]
                                /\ k + 1 > i <=> k > i - 1
            BY <2>1, <3>1 DEF Places
        <3>4. Passed(i - 1) => Passed(i)'
            BY <2>1, <3>3 DEF Passed
        <3>5. Passed(i)' => Passed(i - 1)
            <4> SUFFICES ASSUME NEW k \in Places', k > i, list'[k] = cursor' PROVE Passed(i - 1)
                BY DEF Passed
            <4>1. k \in Int /\ k - 1 \in Places /\ (k - 1) + 1 = k /\ k - 1 > i - 1
                BY <2>1, <3>1 DEF Places
            <4> QED
                BY <2>1, <3>3, <4>1 DEF Passed
        <3> QED
            BY <3>1, <3>2, <3>4, <3>5
    <2>4. \A i \in Founders' : \A u \in Workers : u = list'[i] =>
              /\ Passed(i)' => Given(u)' = c + 1
              /\ ~Passed(i)' => Given(u)' = c
        BY <2>1, <2>2, <2>3 DEF DealtAt
    <2> QED
        BY <1>2, <1>3, <2>4, DealtFrom
<1>7. ASSUME NEW t \in Threads, RunChoose(t) PROVE Dealt'
    <2>1. /\ UNCHANGED <<mpc, want, list>> /\ mpc = "ready"
          /\ \A w \in Workers : Given(w)' = Given(w)
        BY <1>1, <1>7, ChooseFacts DEF mainVars
    <2>2. CASE list = <<>>
        BY <1>1, <1>2, <1>7, <2>1, <2>2, ChooseFacts, DealtSame
    <2>3. CASE list # <<>>
        <3>1. cursor' = IF cursor = None THEN list[1] ELSE cursor
            BY <1>1, <1>7, <2>3, ChooseFacts
        <3>2. PICK c \in Nat : DealtAt(c)
            BY <1>1, <2>1 DEF Dealt
        <3>3. Founders' = Founders /\ Places' = Places /\ 1 \in Places
            BY <1>1, <2>1, <2>3 DEF Founders, Places, TypeOK, RootType
        <3>4. \A i \in Founders : Passed(i)' <=> Passed(i)
            <4>1. CASE cursor = None
                <5>1. \A k \in Places : list[k] = list[1] => k = 1
                    BY <1>1, <3>3 DEF Listed
                <5>2. \A i \in Founders : i >= 1 /\ i \in Int
                    BY <1>1, <1>3, <2>1, ListFacts DEF Places
                <5>3. \A i \in Founders : ~Passed(i)
                    BY <1>1, <4>1, ListFacts DEF Passed
                <5>4. \A i \in Founders : ~Passed(i)'
                    BY <2>1, <3>1, <3>3, <4>1, <5>1, <5>2 DEF Passed
                <5> QED
                    BY <5>3, <5>4
            <4>2. CASE cursor # None
                BY <2>1, <3>1, <3>3, <4>2 DEF Passed
            <4> QED
                BY <4>1, <4>2
        <3> QED
            BY <1>2, <1>3, <2>1, <3>2, <3>3, <3>4, DealtFrom DEF DealtAt
    <2> QED
        BY <2>2, <2>3
<1>8. ASSUME NEW t \in Threads, RunPush(t) PROVE Dealt'
    <2>1. /\ UNCHANGED <<mpc, want, list>> /\ cursor' = Successor(target[t])
          /\ target[t] \in Workers /\ mpc = "ready" /\ pc[t] = "push"
        BY <1>1, <1>8, PushFacts DEF mainVars
    <2>2. \A w \in Workers : Given(w)' = Given(w) + One(w = target[t])
        BY <1>8, PushFacts
    <2>3. PICK k \in Places : list[k] = target[t] /\ cursor = target[t]
        BY <1>1, <2>1 DEF CursorHeld
    <2>4. cursor' = IF k < Len(list) THEN list[k + 1] ELSE None
        BY <1>1, <2>1, <2>3, SuccessorIs
    <2>5. /\ Founders' = Founders /\ Places' = Places /\ Len(list) \in Nat
          /\ \A i \in Founders : i \in Places /\ i \in Int /\ list[i] \in Workers
          /\ k \in Int /\ k <= Len(list)
        BY <1>1, <1>3, <2>1, ListFacts DEF Founders, Places
    <2>6. \A i \in Founders : Passed(i) <=> i < k
        BY <1>1, <2>3, <2>5 DEF Passed, Listed
    <2>7. k < Len(list) => /\ k + 1 \in Places
                           /\ \A j \in Places : list[j] = list[k + 1] => j = k + 1
        <3>1. k < Len(list) => k + 1 \in Places
            BY <2>5 DEF Places
        <3> QED
            BY <1>1, <3>1 DEF Listed
    <2>8. \A i \in Founders : Passed(i)' <=> k < Len(list) /\ i < k + 1
        <3>1. CASE k < Len(list)
            BY <2>1, <2>4, <2>5, <2>7, <3>1 DEF Passed
        <3>2. CASE ~(k < Len(list))
            <4>1. cursor' = None /\ \A j \in Places : list[j] # None
                BY <1>1, <2>4, <3>2, ListFacts
            <4> QED
                BY <2>1, <2>5, <3>2, <4>1 DEF Passed
        <3> QED
            BY <3>1, <3>2
    <2>9. PICK c \in Nat : DealtAt(c)
        BY <1>1, <2>1 DEF Dealt
    <2>10. ASSUME NEW i \in Founders
           PROVE  /\ i < k => Given(list[i]) = c + 1
                  /\ ~(i < k) => Given(list[i]) = c
                  /\ \A w \in Workers : w = list[i] =>
                         Given(w)' = Given(w) + (IF i = k THEN 1 ELSE 0)
        <3>1. list[i] = target[t] <=> i = k
            BY <1>1, <2>3, <2>5 DEF Listed
        <3> QED
            BY <2>2, <2>6, <2>9, <3>1 DEF DealtAt, One
    <2>11. CASE k < Len(list)
        <3>1. \A i \in Founders : \A w \in Workers : w = list[i] =>
                  /\ Passed(i)' => Given(w)' = c + 1
                  /\ ~Passed(i)' => Given(w)' = c
            BY <2>5, <2>8, <2>10, <2>11
        <3> QED
            BY <1>2, <1>3, <2>1, <2>5, <3>1, DealtFrom
    <2>12. CASE ~(k < Len(list))
        <3>1. \A i \in Founders : \A w \in Workers : w = list[i] =>
                  ~Passed(i)' /\ Given(w)' = c + 1
            BY <2>5, <2>8, <2>10, <2>12 DEF Places
        <3> QED
            BY <1>2, <1>3, <2>1, <2>5, <3>1, DealtFrom
    <2> QED
        BY <2>11, <2>12
<1> QED
    BY <1>4, <1>5, <1>6, <1>7, <1>8, Cases

LEMMA TurnInit == Init => TurnInv
<1> SUFFICES ASSUME Init PROVE TurnInv
    OBVIOUS
<1>1. /\ mpc = "adding" /\ list = <<>> /\ cursor = None /\ todo = want /\ silent = 0
      /\ \A t \in Threads : pc[t] \in {"none", "idle"}
      /\ want \in Nat
    BY PoolAssumption DEF Init
<1>2. Listed
    BY <1>1 DEF Listed, Places
<1>3. Joining = {}
    BY <1>1 DEF Joining, Threads
<1>4. Counted
    BY <1>1, <1>3, FS_EmptySet DEF Counted
<1>5. \A w \in Workers : Given(w) = 0
    <2> SUFFICES ASSUME NEW w \in Workers PROVE Given(w) = 0
        OBVIOUS
    <2>1. finished[w] = <<>> /\ queue[w] = <<>> /\ pc[w] # "func"
        BY <1>1 DEF Init, Threads
    <2>2. Done(w) = 0 /\ Due(w) = 0 /\ Busy(w) = 0
        BY <2>1 DEF Done, Due, Busy
    <2> QED
        BY <2>2, GivenIs
<1>6. \A t \in Threads : pc[t] # "push"
    BY <1>1
<1>7. Untouched
    BY <1>1, <1>5, <1>6 DEF Untouched
<1>9. Dealt
    BY <1>1 DEF Dealt
<1>8. CursorHeld
    BY <1>1, <1>6 DEF CursorHeld
<1> QED
    BY <1>2, <1>4, <1>7, <1>8, <1>9 DEF TurnInv

LEMMA TurnsInductive == Spec => [](IInv /\ TurnInv)
<1>1. Init => TurnInv
    BY TurnInit
<1>2. IInv /\ TurnInv /\ [Next]_vars => TurnInv'
    BY ListedStep, CountedStep, UntouchedStep, CursorStep, DealtStep DEF TurnInv
<1> QED
    BY Inductive, <1>1, <1>2, PTL DEF Spec

LEMMA TurnsSuffice == IInv /\ TurnInv => ReadyIsComplete
<1> SUFFICES ASSUME IInv, TurnInv, mpc = "ready"
             PROVE  /\ Len(list) >= want /\ (todo = 0 => Len(list) = want)
                    /\ \A i, j \in Founders :
                           i < j => Given(list[i]) - Given(list[j]) \in {0, 1}
    BY DEF ReadyIsComplete, Balance
<1>1. TypeOK /\ Counted /\ Dealt
    BY DEF IInv, ByteAccounting, TurnInv
<1>2. Len(list) >= want /\ (todo = 0 => Len(list) = want)
    <2>1. /\ Members >= want /\ Members \in Nat /\ want \in Int /\ silent \in Nat
          /\ Cardinality(Joining) \in Nat
          /\ todo = 0 => want = 0 + Members + Cardinality(Joining) + silent
        BY <1>1, FS_CardinalityType, ListFacts DEF Counted, Members, TypeOK, MainType
    <2>2. todo = 0 => Members = want
        BY <2>1
    <2> QED
        BY <2>1, <2>2 DEF Members
<1>3. ASSUME NEW i \in Founders, NEW j \in Founders, i < j
      PROVE  Given(list[i]) - Given(list[j]) \in {0, 1}
    <2>1. PICK c \in Nat : DealtAt(c)
        BY <1>1 DEF Dealt
    <2>2. Passed(j) => Passed(i)
        <3>1. i \in Int /\ j \in Int /\ \A k \in Places : k \in Int
            BY <1>1, ListFacts DEF Founders, Places, TypeOK, MainType
        <3> QED
            BY <1>3, <3>1 DEF Passed
    <2> QED
        BY <2>1, <2>2 DEF DealtAt
<1> QED
    BY <1>2, <1>3

(* yod_thread_new returns with exactly the workers it counted, and the cursor deals
   the works to them in turn, whatever failed, was refused or joined since. *)
THEOREM EachInTurn == Spec => []ReadyIsComplete
BY TurnsInductive, TurnsSuffice, PTL
=============================================================================
