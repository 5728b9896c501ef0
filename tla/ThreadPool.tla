----------------------------- MODULE ThreadPool -----------------------------
(***************************************************************************)
(* thread.c: the pool that yod_thread_new builds, the threads that submit  *)
(* work with yod_thread_run and the worker threads that run it.            *)
(*                                                                         *)
(* A worker is an OS thread in its own event loop; the loop watches the    *)
(* read end of a pipe, edge-triggered, and calls _yod_thread_run_cb when   *)
(* bytes arrive.  A linked list is a sequence here, the free list of work  *)
(* records a number.  The worker's mutex is held exactly while it runs a   *)
(* user function (pc = "func"); every other section under it is one step.  *)
(***************************************************************************)
EXTENDS Integers, Sequences

CONSTANTS Workers,        \* records that yod_thread_add may create
          Callers,        \* client threads that call yod_thread_run
          ThreadNum,      \* the argument of yod_thread_new
          NumMax,         \* YOD_THREAD_NUM_MAX
          LateAdds,       \* calls of yod_thread_add after yod_thread_new
          MaxJobs,        \* bound: calls of yod_thread_run
          PipeCap,        \* bytes a pipe holds before write blocks
          WorkersSubmit,  \* handlers dispatched by a worker's loop submit too
          Inner,          \* per worker, the caller that stands for the functions it
                          \* runs when they call yod_thread_run, or None
          MayRefuse,      \* malloc may fail
          MaxAddFails,    \* bound: yod_thread_add returns -1
          MaxSilentFails, \* bound: pthread_create fails (and returns an errno)
          MaxWriteFails,  \* bound, per worker: write to its pipe fails
          MaxReadFails,   \* bound, per worker: read from its pipe fails
          None

ASSUME PoolAssumption ==
    /\ ThreadNum \in Nat \ {0}
    /\ NumMax \in Nat \ {0} /\ PipeCap \in Nat \ {0}
    /\ {LateAdds, MaxJobs, MaxAddFails, MaxSilentFails} \subseteq Nat
    /\ {MaxWriteFails, MaxReadFails} \subseteq Nat
    /\ {WorkersSubmit, MayRefuse} \subseteq BOOLEAN
    /\ Workers \cap Callers = {}
    /\ None \notin Workers \cup Callers
    /\ Inner \in [Workers -> Callers \cup {None}]
    /\ \A v, w \in Workers : v # w /\ Inner[v] = Inner[w] => Inner[w] = None

VARIABLES mpc,       \* the thread in yod_thread_new: adding, check, wait, ready
          todo,      \* yod_thread_add calls yod_thread_new has left
          want,      \* thread_num
          failed,    \* adds that returned -1
          silent,    \* adds that returned 0 without a thread
          rootLock,  \* owner of root->lock
          list,      \* root->next and on: the registered workers
          cursor,    \* root->prev: the worker the next job goes to
          pc,        \* where each worker and caller is
          target,    \* per thread in yod_thread_run, the worker it chose
          arg,       \* per thread in yod_thread_run, the job it carries
          queue,     \* per worker, tail to head: the jobs not yet popped
          cnt,       \* per worker, self->count
          heap,      \* per worker, recycled work records
          cur,       \* per worker, the job whose function is running
          pipe,      \* per worker, bytes in the pipe
          ready,     \* per worker, epoll holds an edge for the pipe
          jobs,      \* calls of yod_thread_run so far; a job is its number
          refused,   \* jobs that yod_thread_run answered with -1
          unsent,    \* per worker, bytes whose write failed
          unread,    \* per worker, reads that failed
          finished   \* per worker, the jobs whose function returned, in order

mainVars   == <<mpc, todo, want, failed, silent>>
workVars   == <<queue, cnt, heap, cur>>
signalVars == <<pipe, ready, unsent, unread>>
callVars   == <<target, arg, jobs, refused>>
vars == <<mainVars, rootLock, list, cursor, pc, callVars, workVars, signalVars,
          finished>>

Threads == Workers \cup Callers
Jobs    == 1..MaxJobs
Home(t) == IF t \in Workers THEN "loop" ELSE "idle"

Goto(t, label) == pc' = [pc EXCEPT ![t] = label]

Init ==
    /\ mpc = "adding"
    /\ want = IF ThreadNum > NumMax THEN NumMax ELSE ThreadNum
    /\ todo = want
    /\ failed = 0 /\ silent = 0
    /\ rootLock = None /\ list = <<>> /\ cursor = None
    /\ pc = [t \in Threads |-> IF t \in Workers THEN "none" ELSE "idle"]
    /\ target = [t \in Threads |-> None]
    /\ arg = [t \in Threads |-> 0]
    /\ queue = [w \in Workers |-> <<>>]
    /\ cnt = [w \in Workers |-> 0]
    /\ heap = [w \in Workers |-> 0]
    /\ cur = [w \in Workers |-> 0]
    /\ pipe = [w \in Workers |-> 0]
    /\ ready = [w \in Workers |-> FALSE]
    /\ unsent = [w \in Workers |-> 0]
    /\ unread = [w \in Workers |-> 0]
    /\ jobs = 0 /\ refused = {}
    /\ finished = [w \in Workers |-> <<>>]

-----------------------------------------------------------------------------
(* yod_thread_new and yod_thread_add. *)

MayAdd == \/ mpc = "adding" /\ todo > 0
          \/ mpc = "ready" /\ todo > -LateAdds

(* The new thread exists, but has not registered itself yet. *)
AddThread(w) ==
    /\ MayAdd
    /\ pc[w] = "none"
    /\ Goto(w, "start")
    /\ todo' = todo - 1
    /\ UNCHANGED <<mpc, want, failed, silent, rootLock, list, cursor, callVars,
                   workVars, signalVars, finished>>

(* malloc, the loop, the pipe or evloop_add failed: -1, and yod_thread_new
   lowers thread_num. *)
AddFails ==
    /\ MayAdd
    /\ failed < MaxAddFails
    /\ failed' = failed + 1
    /\ todo' = todo - 1
    /\ want' = IF mpc = "adding" THEN want - 1 ELSE want
    /\ UNCHANGED <<mpc, silent, rootLock, list, cursor, pc, callVars, workVars,
                   signalVars, finished>>

(* pthread_create reports an error by its positive result, which is compared
   with -1: yod_thread_add returns 0 and no thread runs. *)
AddCreateFails ==
    /\ MayAdd
    /\ silent < MaxSilentFails
    /\ silent' = silent + 1
    /\ todo' = todo - 1
    /\ UNCHANGED <<mpc, want, failed, rootLock, list, cursor, pc, callVars,
                   workVars, signalVars, finished>>

NewBeginWait ==
    /\ mpc = "adding" /\ todo = 0
    /\ mpc' = "check"
    /\ UNCHANGED <<todo, want, failed, silent, rootLock, list, cursor, pc,
                   callVars, workVars, signalVars, finished>>

(* Under root->lock: while (self->count < thread_num) pthread_cond_wait. *)
NewCheck ==
    /\ mpc = "check" /\ rootLock = None
    /\ mpc' = IF Len(list) < want THEN "wait" ELSE "ready"
    /\ UNCHANGED <<todo, want, failed, silent, rootLock, list, cursor, pc,
                   callVars, workVars, signalVars, finished>>

(* Mutants of Signal: the waiter does not test the count again, or sleeps on. *)
SignalDone == IF mpc = "wait" THEN "ready" ELSE mpc
SignalLost == mpc

(* pthread_cond_signal wakes the waiter, which tests the count again. *)
Signal == IF mpc = "wait" THEN "check" ELSE mpc

(* _yod_thread_add_cb: the worker links itself first and signals the waiter. *)
Register(w) ==
    /\ pc[w] = "start" /\ rootLock = None
    /\ list' = <<w>> \o list
    /\ mpc' = Signal
    /\ Goto(w, "loop")
    /\ UNCHANGED <<todo, want, failed, silent, rootLock, cursor, callVars,
                   workVars, signalVars, finished>>

-----------------------------------------------------------------------------
(* yod_thread_run, called by t. *)

(* Mutant of Successor: the cursor stays. *)
SameWorker(w) == w

(* self->next *)
Successor(w) ==
    LET before == {i \in 1..(Len(list) - 1) : list[i] = w}
    IN  IF before = {} THEN None ELSE list[(CHOOSE i \in before : TRUE) + 1]

(* A client thread, a handler that a worker's loop dispatched, or the function that
   a worker runs with its own lock held. *)
MaySubmit(t) ==
    /\ mpc = "ready" /\ jobs < MaxJobs
    /\ \/ t \in Callers /\ pc[t] = "idle"
          /\ \A w \in Workers : Inner[w] = t => pc[w] = "func"
       \/ t \in Workers /\ WorkersSubmit /\ pc[t] = "loop"

RunEnter(t) ==
    /\ MaySubmit(t)
    /\ jobs' = jobs + 1
    /\ arg' = [arg EXCEPT ![t] = jobs']
    /\ Goto(t, "call")
    /\ UNCHANGED <<mainVars, rootLock, list, cursor, target, refused, workVars,
                   signalVars, finished>>

(* Take root->lock and wrap the cursor; without any worker, give up. *)
RunChoose(t) ==
    /\ pc[t] = "call" /\ rootLock = None
    /\ IF list = <<>>
       THEN /\ refused' = refused \cup {arg[t]}
            /\ Goto(t, Home(t))
            /\ UNCHANGED <<rootLock, cursor, target>>
       ELSE /\ rootLock' = t
            /\ cursor' = IF cursor = None THEN Head(list) ELSE cursor
            /\ target' = [target EXCEPT ![t] = cursor']
            /\ Goto(t, "push")
            /\ UNCHANGED refused
    /\ UNCHANGED <<mainVars, list, arg, jobs, workVars, signalVars, finished>>

(* Mutants of Link: the work is not counted, or takes the place of the others. *)
LinkUncounted(w, job) ==
    /\ queue' = [queue EXCEPT ![w] = Append(@, job)]
    /\ cnt' = cnt
LinkAlone(w, job) ==
    /\ queue' = [queue EXCEPT ![w] = <<job>>]
    /\ cnt' = [cnt EXCEPT ![w] = @ + 1]

Link(w, job) ==
    /\ queue' = [queue EXCEPT ![w] = Append(@, job)]
    /\ cnt' = [cnt EXCEPT ![w] = @ + 1]

(* Mutant of LockFree: the worker waits in its loop without unlocking. *)
LockKept(w) == pc[w] \notin {"func", "loop"}

(* The worker's lock is free. *)
LockFree(w) == pc[w] # "func"

(* Under the worker's lock: link the work and advance the cursor. *)
RunPush(t) ==
    LET w == target[t] IN
    /\ pc[t] = "push" /\ LockFree(w)
    /\ heap' = [heap EXCEPT ![w] = IF @ > 0 THEN @ - 1 ELSE 0]
    /\ Link(w, arg[t])
    /\ cursor' = Successor(w)
    /\ Goto(t, "write")
    /\ UNCHANGED <<mainVars, rootLock, list, callVars, cur, signalVars, finished>>

UnlockRoot == rootLock' = None

(* No recycled record and malloc fails: both locks are released. *)
RunRefused(t) ==
    LET w == target[t] IN
    /\ MayRefuse
    /\ pc[t] = "push" /\ LockFree(w) /\ heap[w] = 0
    /\ refused' = refused \cup {arg[t]}
    /\ UnlockRoot
    /\ Goto(t, Home(t))
    /\ UNCHANGED <<mainVars, list, cursor, target, arg, jobs, workVars,
                   signalVars, finished>>

(* One byte into the pipe, still under root->lock.  A write to an empty pipe
   is an edge; whether a later one is depends on the kernel. *)
RunWrite(t) ==
    LET w == target[t] IN
    /\ pc[t] = "write" /\ pipe[w] < PipeCap
    /\ pipe' = [pipe EXCEPT ![w] = @ + 1]
    /\ \E edge \in BOOLEAN :
           /\ pipe[w] = 0 \/ ready[w] => edge
           /\ ready' = [ready EXCEPT ![w] = edge]
    /\ UnlockRoot
    /\ Goto(t, Home(t))
    /\ UNCHANGED <<mainVars, list, cursor, callVars, workVars, unsent,
                   unread, finished>>

(* The write fails: it is logged and yod_thread_run returns 0 all the same. *)
RunWriteFails(t) ==
    LET w == target[t] IN
    /\ pc[t] = "write"
    /\ unsent[w] < MaxWriteFails
    /\ unsent' = [unsent EXCEPT ![w] = @ + 1]
    /\ UnlockRoot
    /\ Goto(t, Home(t))
    /\ UNCHANGED <<mainVars, list, cursor, callVars, workVars, pipe, ready,
                   unread, finished>>

Submit(t) == \/ RunEnter(t) \/ RunChoose(t) \/ RunPush(t) \/ RunRefused(t)
             \/ RunWrite(t) \/ RunWriteFails(t)

-----------------------------------------------------------------------------
(* The worker: its loop and _yod_thread_run_cb. *)

(* Mutants of HasWork: off by one, and >= for >. *)
HasTwoWorks(w) == cnt[w] > 1
HasAnyCount(w) == cnt[w] >= 0

HasWork(w) == cnt[w] > 0

(* Mutant of Readable: the pipe is in non-blocking mode. *)
AlwaysReadable(w) == TRUE

Readable(w) == pipe[w] > 0

(* Mutant of Oldest: the wrong end of the list. *)
Newest(w) == queue[w][Len(queue[w])]

Oldest(w) == Head(queue[w])

(* epoll_wait takes the edge and reports it only if the pipe is readable. *)
LoopWait(w) ==
    /\ pc[w] = "loop" /\ ready[w]
    /\ ready' = [ready EXCEPT ![w] = FALSE]
    /\ Goto(w, IF Readable(w) THEN "test" ELSE "loop")
    /\ UNCHANGED <<mainVars, rootLock, list, cursor, callVars, workVars, pipe,
                   unsent, unread, finished>>

(* while (self->count > 0), read without the lock. *)
TestCount(w) ==
    /\ pc[w] = "test"
    /\ Goto(w, IF HasWork(w) THEN "read" ELSE "loop")
    /\ UNCHANGED <<mainVars, rootLock, list, cursor, callVars, workVars,
                   signalVars, finished>>

(* The pipe is in blocking mode. *)
ReadByte(w) ==
    /\ pc[w] = "read" /\ Readable(w)
    /\ pipe' = [pipe EXCEPT ![w] = @ - 1]
    /\ Goto(w, "lock")
    /\ UNCHANGED <<mainVars, rootLock, list, cursor, callVars, workVars, ready,
                   unsent, unread, finished>>

(* The read fails: it is logged, and the work is taken all the same. *)
ReadFails(w) ==
    /\ pc[w] = "read"
    /\ unread[w] < MaxReadFails
    /\ unread' = [unread EXCEPT ![w] = @ + 1]
    /\ Goto(w, "lock")
    /\ UNCHANGED <<mainVars, rootLock, list, cursor, callVars, workVars, pipe,
                   ready, unsent, finished>>

(* Take the worker's lock; unlink the oldest work and call its function. *)
PopWork(w) ==
    /\ pc[w] = "lock"
    /\ IF queue[w] = <<>>
       THEN /\ Goto(w, "test")
            /\ UNCHANGED <<queue, cnt, cur>>
       ELSE /\ cur' = [cur EXCEPT ![w] = Oldest(w)]
            /\ queue' = [queue EXCEPT ![w] = Tail(@)]
            /\ cnt' = [cnt EXCEPT ![w] = IF @ > 0 THEN @ - 1 ELSE @]
            /\ Goto(w, "func")
    /\ UNCHANGED <<mainVars, rootLock, list, cursor, callVars, heap, signalVars,
                   finished>>

(* The function returns, once its own calls have; the record is recycled and the
   lock released. *)
FuncReturns(w) ==
    /\ pc[w] = "func" /\ (Inner[w] # None => pc[Inner[w]] = "idle")
    /\ finished' = [finished EXCEPT ![w] = Append(@, cur[w])]
    /\ heap' = [heap EXCEPT ![w] = @ + 1]
    /\ Goto(w, "test")
    /\ UNCHANGED <<mainVars, rootLock, list, cursor, callVars, queue, cnt, cur,
                   signalVars>>

Serve(w) == \/ LoopWait(w) \/ TestCount(w) \/ ReadByte(w) \/ ReadFails(w)
            \/ PopWork(w) \/ FuncReturns(w)

-----------------------------------------------------------------------------
(* Every call was made and served: the bounded model has nothing left to do. *)
Quiescent ==
    /\ mpc = "ready" /\ jobs = MaxJobs
    /\ \A t \in Threads : pc[t] \in {"none", Home(t)}
    /\ \A w \in Workers : queue[w] = <<>> /\ ~ready[w]

InRun(t) == t # None /\ pc[t] \in {"call", "push", "write"}

(* Who holds root->lock waits for w: for its lock, which w keeps until its function
   returns, or for room in its pipe, which w makes when it reads. *)
Awaits(t, w) ==
    /\ rootLock = t /\ target[t] = w
    /\ (pc[t] = "push" /\ ~LockFree(w)) \/ (pc[t] = "write" /\ pipe[w] = PipeCap)

(* The ring is closed: w waits for root->lock, or is that holder itself. *)
Ring == \E t \in Threads, w \in Workers :
            /\ Awaits(t, w)
            /\ InRun(Inner[w]) \/ InRun(w)

(* yod_thread_new waits for threads that pthread_create did not make. *)
Forsaken == mpc = "wait" /\ silent > 0 /\ Len(list) + silent = want

Ended == (Quiescent \/ Ring \/ Forsaken) /\ UNCHANGED vars

New == AddFails \/ AddCreateFails \/ NewBeginWait \/ NewCheck

Next == \/ New
        \/ \E w \in Workers : AddThread(w) \/ Register(w) \/ Serve(w)
        \/ \E t \in Threads : Submit(t)
        \/ Ended

(* Threads run and user functions return; nobody is obliged to submit. *)
Fairness ==
    /\ WF_vars(New \/ \E w \in Workers : AddThread(w))
    /\ \A w \in Workers : WF_vars(Register(w)) /\ WF_vars(Serve(w))
    /\ \A t \in Threads :
           WF_vars(RunChoose(t)) /\ WF_vars(RunPush(t)) /\ WF_vars(RunWrite(t))

Spec     == Init /\ [][Next]_vars
FairSpec == Spec /\ Fairness

-----------------------------------------------------------------------------
(* What the pool promises. *)

Labels == {"none", "start", "loop", "test", "read", "lock", "func",
           "idle", "call", "push", "write"}

MainType ==
    /\ mpc \in {"adding", "check", "wait", "ready"}
    /\ todo \in Int /\ want \in Int /\ failed \in Nat /\ silent \in Nat
RootType ==
    /\ rootLock \in Threads \cup {None}
    /\ list \in Seq(Workers)
    /\ cursor \in Workers \cup {None}
CallType ==
    /\ target \in [Threads -> Workers \cup {None}]
    /\ arg \in [Threads -> Nat]
    /\ jobs \in Nat /\ refused \subseteq Nat
WorkType ==
    /\ queue \in [Workers -> Seq(Nat)]
    /\ cnt \in [Workers -> Nat] /\ heap \in [Workers -> Nat] /\ cur \in [Workers -> Nat]
SignalType ==
    /\ pipe \in [Workers -> Nat] /\ ready \in [Workers -> BOOLEAN]
    /\ unsent \in [Workers -> Nat] /\ unread \in [Workers -> Nat]

(* Every variable has its type; in particular the cursor is a worker's record
   or null. *)
TypeOK ==
    /\ MainType /\ RootType /\ CallType /\ WorkType /\ SignalType
    /\ pc \in [Threads -> Labels]
    /\ finished \in [Workers -> Seq(Nat)]

(* A work was linked for w and its byte is still to be written. *)
Promised(w) == \E t \in Threads : pc[t] = "write" /\ target[t] = w

One(cond) == IF cond THEN 1 ELSE 0

Accounted(w) ==
    /\ cnt[w] = Len(queue[w])
    /\ pipe[w] + One(pc[w] = "lock") + One(Promised(w)) + unsent[w]
           = cnt[w] + unread[w]

(* self->count, which _yod_thread_run_cb reads without the lock to decide
   whether to block in read, agrees with the work list, and each work has one
   byte: in the pipe, taken by the worker, or about to be written by the thread
   that linked the work. *)
ByteAccounting == TypeOK /\ \A w \in Workers : Accounted(w)

(* A worker that waits in its loop while it has work was signalled: epoll holds
   the edge and there is a byte to report, or the submitter is about to write. *)
NoLostWakeup ==
    \A w \in Workers :
        (pc[w] = "loop" /\ queue[w] # <<>> /\ unsent[w] = 0 /\ unread[w] = 0)
            => (ready[w] /\ pipe[w] > 0) \/ Promised(w)

(* A worker blocks in read only for a byte that is there or about to come. *)
ReadReturns ==
    \A w \in Workers :
        (pc[w] = "read" /\ unsent[w] = 0) => pipe[w] > 0 \/ Promised(w)

(* Between its choice of a worker and its write a submitter holds root->lock,
   so that at most one byte is promised. *)
SubmitterHoldsLock ==
    \A t \in Threads :
        pc[t] \in {"push", "write"} => rootLock = t /\ target[t] \in Workers

(* Only the worker itself takes work: what it saw in self->count stays true
   until it has the lock. *)
CountStays ==
    \A w \in Workers : pc[w] \in {"read", "lock"} => cnt[w] > 0

Serving == {"test", "read", "lock", "func"}   \* inside _yod_thread_run_cb

(* Outside _yod_thread_run_cb an unread byte is an edge in epoll. *)
Edge(w) ==
    (pc[w] \notin Serving /\ unsent[w] = 0 /\ unread[w] = 0 /\ pipe[w] > 0) => ready[w]

EdgeKept == \A w \in Workers : Edge(w)

(* The inductive invariant that ThreadPoolProofs proves: all wakeups of all
   workers are kept, whichever thread stands between which two steps. *)
IInv == ByteAccounting /\ SubmitterHoldsLock /\ CountStays /\ EdgeKept

Given(w) == Len(finished[w]) + Len(queue[w]) + One(pc[w] = "func")

(* The workers that yod_thread_new waited for; later ones come before them. *)
Founders == (Len(list) - want + 1)..Len(list)

(* The cursor deals the work in turn: an earlier founder is at most one work
   ahead of a later one, whatever was refused and whoever was added since. *)
Balance ==
    mpc = "ready" =>
        \A i, j \in Founders :
            i < j => Given(list[i]) - Given(list[j]) \in {0, 1}

(* yod_thread_new returns with exactly the workers it counted, and the work that
   comes then is dealt to them in turn. *)
ReadyIsComplete ==
    /\ mpc = "ready" => Len(list) >= want /\ (todo = 0 => Len(list) = want)
    /\ Balance

Elements(s) == {s[i] : i \in DOMAIN s}

Accepted == UNION { Elements(queue[w]) \cup Elements(finished[w]) \cup
                    (IF pc[w] = "func" THEN {cur[w]} ELSE {}) : w \in Workers }

(* Every call of yod_thread_run is refused, accepted or still under way: -1 is
   returned for a job exactly when no worker will ever run it. *)
NoJobLost ==
    /\ refused \cap Accepted = {}
    /\ 1..jobs = refused \cup Accepted \cup
                 {arg[t] : t \in {u \in Threads : pc[u] \in {"call", "push"}}}

(* The pool implements WorkPool: a work waits from its link until its function
   returns. *)
waiting == [w \in Workers |->
               IF pc[w] = "func" THEN <<cur[w]>> \o queue[w] ELSE queue[w]]
Pool == INSTANCE WorkPool
ImplementsWorkPool == Pool!Spec

(* Every accepted work is run in the end, unless a ring of waits is closed. *)
EveryJobRuns ==
    \A w \in Workers, j \in Jobs :
        (j \in Elements(queue[w])) ~> (j \in Elements(finished[w]) \/ Ring)

(* yod_thread_run waits for a worker's lock and for room in its pipe with root->lock
   held, and yet every call returns, unless that very worker, or the function it
   runs, is in yod_thread_run as well.  yod_thread_new returns, unless it waits for
   exactly the threads that pthread_create failed to make. *)
CallsReturn ==
    /\ \A t \in Threads : (pc[t] = "call") ~> (pc[t] = Home(t) \/ Ring)
    /\ <>(mpc = "ready" \/ Forsaken)
=============================================================================
