----------------------------- MODULE EventLoop ------------------------------
(***************************************************************************)
(* evloop.c on epoll: the thread inside yod_evloop_start, and the threads  *)
(* that call yod_evloop_add, _set, _del and _stop, of which the loop's own *)
(* thread is one while it is in a callback.                                *)
(*                                                                         *)
(* Interest and readiness are sets of directions; the doubly linked list   *)
(* of events is the set of events that are linked, the delete list the     *)
(* sequence of events that yod_evloop_del pushed.  A record that was freed *)
(* is not allocated again, so that a use of it can be told.                *)
(*                                                                         *)
(* What the callers owe the loop: one call at a time on an event, none     *)
(* once it was deleted, other than another yod_evloop_del.                 *)
(***************************************************************************)
EXTENDS Naturals, FiniteSets, Sequences, SequencesExt, Functions

CONSTANTS Events,     \* event records
          Fds,        \* descriptor numbers, given again once closed
          Loop,       \* the thread that calls yod_evloop_start
          Users,      \* other threads that call into the loop
          Adders,     \* those that call yod_evloop_add, and Loop's own adds
          Chunk,      \* 1024: room for events at first and at each realloc
          MaxEdges,   \* bound: readiness edges
          MaxStarts,  \* bound: calls of yod_evloop_start
          MaxStops,   \* bound: calls of yod_evloop_stop
          MayFail,    \* epoll_ctl(ADD) or malloc may fail in yod_evloop_add
          MayBreak,   \* realloc may fail in yod_evloop_add
          None

Dirs  == {"read", "write"}
Flags == Dirs \cup {"error"}

ASSUME LoopAssumption ==
    /\ Chunk \in Nat \ {0}
    /\ {MaxEdges, MaxStarts, MaxStops} \subseteq Nat
    /\ {MayFail, MayBreak} \subseteq BOOLEAN
    /\ IsFiniteSet(Events) /\ IsFiniteSet(Adders)
    /\ Loop \notin Users /\ Adders \subseteq Users \cup {Loop}
    /\ None \notin Users \cup {Loop} \cup Events \cup Fds
    /\ \A dirs \in SUBSET Dirs : dirs # None

VARIABLES state,     \* root->what: initial, running, stoping, freed
          lock,      \* owner of root->lock
          linked,    \* root->next and on
          count,     \* root->count
          room,      \* root->fd, the length of root->evfd
          moved,     \* realloc moved the array that epoll_wait was called with
          spoilt,    \* an array was used that is freed or too short
          crossed,   \* an add came from another thread than the loop's while it
                     \* ran, or while another add was under way (history)
          deleted,   \* root->heap and on
          alloc,     \* per event: none, held, freed
          what,      \* per event, self->what
          fd,        \* per event, self->fd
          known,     \* events whose caller was given *evl
          epoll,     \* per event, its interest in the kernel or None
          edge,      \* per event, directions ready and not yet fetched
          open,      \* descriptors that are open
          batch,     \* root->evfd[i..nfds-1]: each event with the directions left
          lpc,       \* where yod_evloop_start is
          closing,   \* the event in its CLOSE callback, or None
          call,      \* per thread, the call it is in
          on,        \* per thread, the event that call is about
          ask,       \* per thread, the what argument of that call
          last,      \* per event, the last callback it got (history)
          edges, starts, stops  \* counters of the bounds

arrayVars == <<room, moved, spoilt, crossed>>
rootVars  == <<state, linked, count, deleted, arrayVars>>
eventVars == <<alloc, what, fd, known>>
kernel    == <<epoll, edge, open>>
callVars  == <<call, on, ask>>
loopVars  == <<batch, lpc, closing>>
bounds    == <<edges, starts, stops>>
vars == <<rootVars, lock, eventVars, kernel, loopVars, callVars, last,
          bounds>>

Threads == Users \cup {Loop}

Init ==
    /\ state = "initial" /\ lock = None
    /\ linked = {} /\ count = 0 /\ room = Chunk /\ deleted = <<>>
    /\ moved = FALSE /\ spoilt = FALSE /\ crossed = FALSE
    /\ alloc = [e \in Events |-> "none"]
    /\ what = [e \in Events |-> {}]
    /\ fd = [e \in Events |-> None]
    /\ known = {}
    /\ epoll = [e \in Events |-> None]
    /\ edge = [e \in Events |-> {}]
    /\ open = {}
    /\ batch = <<>>
    /\ lpc = "out" /\ closing = None
    /\ call = [t \in Threads |-> "idle"]
    /\ on = [t \in Threads |-> None]
    /\ ask = [t \in Threads |-> {}]
    /\ last = [e \in Events |-> "none"]
    /\ edges = 0 /\ starts = 0 /\ stops = 0

(* A thread may call: the loop's own from a callback or before it starts. *)
MayCall(t) ==
    /\ call[t] = "idle" /\ state # "freed"
    /\ t = Loop => lpc \in {"out", "func", "callback"}

Enter(t, name, e, w) ==
    /\ call' = [call EXCEPT ![t] = name]
    /\ on' = [on EXCEPT ![t] = e]
    /\ ask' = [ask EXCEPT ![t] = w]

Return(t) ==
    /\ call' = [call EXCEPT ![t] = "idle"]
    /\ on' = [on EXCEPT ![t] = None]
    /\ ask' = [ask EXCEPT ![t] = {}]

-----------------------------------------------------------------------------
(* Mutant of NeedsRoom: one event too late. *)
NeedsRoomLate == count > room

NeedsRoom == count + 1 > room

(* realloc may move the array: an epoll_wait under way still has the old one, and
   a loop that is looking at its entries may be about to read it. *)
MakeRoom(t) ==
    IF NeedsRoom
    THEN /\ room' = room + Chunk
         /\ moved' \in {moved, lpc = "waiting"}
         /\ spoilt' \in {spoilt, spoilt \/ (t # Loop /\ batch # <<>>)}
    ELSE UNCHANGED <<room, moved, spoilt>>

Crossing(t) == (t # Loop /\ lpc # "out") \/ \E u \in Threads : call[u] = "add"

(* yod_evloop_add: room under the lock, malloc without it, the rest under it. *)

AddReserve(t) ==
    /\ t \in Adders /\ MayCall(t) /\ lock = None
    /\ \E e \in Events, f \in Fds \ open, w \in SUBSET Dirs \ {{}} :
           /\ alloc[e] = "none" /\ \A u \in Threads : on[u] # e
           /\ Enter(t, "add", e, w)
           /\ fd' = [fd EXCEPT ![e] = f]
           /\ open' = open \cup {f}
    /\ MakeRoom(t)
    /\ crossed' = (crossed \/ Crossing(t))
    /\ UNCHANGED <<state, linked, count, deleted, lock, alloc, what, known, epoll,
                   edge, loopVars, last, bounds>>

(* realloc fails: -1 is returned, and root->lock is still held. *)
AddBreaks(t) ==
    /\ MayBreak /\ t \in Adders /\ MayCall(t) /\ lock = None
    /\ NeedsRoom
    /\ lock' = t
    /\ UNCHANGED <<rootVars, eventVars, kernel, loopVars, callVars, last, bounds>>

(* Mutant of LinkEvent: root->count is not raised. *)
LinkUncounted(e) == linked' = linked \cup {e} /\ count' = count

LinkEvent(e) == linked' = linked \cup {e} /\ count' = count + 1

AddLink(t) ==
    LET e == on[t] IN
    /\ call[t] = "add" /\ lock = None
    /\ alloc' = [alloc EXCEPT ![e] = "held"]
    /\ what' = [what EXCEPT ![e] = ask[t]]
    /\ epoll' = [epoll EXCEPT ![e] = ask[t]]
    /\ LinkEvent(e)
    /\ call' = [call EXCEPT ![t] = "publish"]
    /\ UNCHANGED <<state, arrayVars, deleted, lock, fd, known, edge, open, loopVars,
                   on, ask, last, bounds>>

(* malloc or epoll_ctl failed; the caller closes its descriptor. *)
AddFails(t) ==
    LET e == on[t] IN
    /\ MayFail /\ call[t] = "add" /\ lock = None
    /\ alloc' = [alloc EXCEPT ![e] = "freed"]
    /\ open' = open \ {fd[e]}
    /\ Return(t)
    /\ UNCHANGED <<rootVars, lock, what, fd, known, epoll, edge, loopVars,
                   last, bounds>>

(* *evl = self, after the lock. *)
AddPublish(t) ==
    /\ call[t] = "publish"
    /\ known' = known \cup {on[t]}
    /\ Return(t)
    /\ UNCHANGED <<rootVars, lock, alloc, what, fd, kernel, loopVars, last, bounds>>

-----------------------------------------------------------------------------
(* yod_evloop_set and yod_evloop_del: self->what is tested before the lock. *)

MayTouch(t, e) == e \in known /\ last[e] # "close" /\ \A u \in Threads : on[u] # e

SetTest(t, e, w) ==
    /\ MayCall(t) /\ MayTouch(t, e) /\ e \notin Range(deleted)
    /\ ~ (w \subseteq what[e]) /\ w # {}
    /\ Enter(t, "set", e, w)
    /\ UNCHANGED <<rootVars, lock, eventVars, kernel, loopVars, last, bounds>>

SetWhat(e, w) ==
    /\ epoll' = [epoll EXCEPT ![e] = what[e]]
    /\ what' = [what EXCEPT ![e] = @ \cup w]

(* The kernel is given self->what as it was: the new directions come after. *)
SetApply(t) ==
    LET e == on[t] IN
    /\ call[t] = "set" /\ lock = None
    /\ SetWhat(e, ask[t])
    /\ Return(t)
    /\ UNCHANGED <<rootVars, lock, alloc, fd, known, edge, open, loopVars,
                   last, bounds>>

DelTest(t, e, w) ==
    /\ MayCall(t) /\ MayTouch(t, e)
    /\ what[e] \cap w # {}
    /\ Enter(t, "del", e, w)
    /\ UNCHANGED <<rootVars, lock, eventVars, kernel, loopVars, last, bounds>>

(* Mutants of Unwatch: the event stays in the kernel, or is still reported. *)
KeepWatch(e, left) == UNCHANGED <<epoll, edge>>
KeepEdge(e, left) ==
    /\ epoll' = [epoll EXCEPT ![e] = IF left = {} THEN None ELSE left]
    /\ UNCHANGED edge

(* EPOLL_CTL_MOD, or EPOLL_CTL_DEL when nothing is left. *)
Unwatch(e, left) ==
    /\ epoll' = [epoll EXCEPT ![e] = IF left = {} THEN None ELSE left]
    /\ edge' = [edge EXCEPT ![e] = IF left = {} THEN {} ELSE @]

(* Mutant of PushDeleted: whatever is left. *)
PushAlways(e, left) == deleted' = <<e>> \o deleted

PushDeleted(e, left) == deleted' = IF left = {} THEN <<e>> \o deleted ELSE deleted

DelApply(t) ==
    LET e    == on[t]
        left == what[e] \ ask[t]
    IN
    /\ call[t] = "del" /\ lock = None
    /\ what' = [what EXCEPT ![e] = left]
    /\ Unwatch(e, left) /\ PushDeleted(e, left)
    /\ Return(t)
    /\ UNCHANGED <<state, linked, count, arrayVars, lock, alloc, fd, known, open,
                   loopVars, last, bounds>>

Stop(t) ==
    /\ MayCall(t) /\ stops < MaxStops
    /\ stops' = stops + 1
    /\ state' = "stoping"
    /\ UNCHANGED <<lock, linked, count, arrayVars, deleted, eventVars, kernel, batch,
                   lpc, closing, callVars, last, edges, starts>>

(* yod_evloop_free, once the loop has returned and nobody calls into it: the
   events are freed as they are, their descriptors stay open. *)
Free ==
    /\ lpc = "out" /\ starts = MaxStarts /\ lock = None
    /\ state # "freed" /\ \A t \in Threads : call[t] = "idle"
    /\ state' = "freed"
    /\ linked' = {} /\ count' = 0
    /\ alloc' = [e \in Events |-> IF e \in linked THEN "freed" ELSE alloc[e]]
    /\ epoll' = [e \in Events |-> None]
    /\ edge' = [e \in Events |-> {}]
    /\ UNCHANGED <<arrayVars, deleted, lock, what, fd, known, open, loopVars,
                   callVars, last, bounds>>

-----------------------------------------------------------------------------
(* yod_evloop_start. *)

LoopUnchanged == UNCHANGED <<callVars, bounds>>

(* Mutant of Running: root->what is not tested. *)
RunningAlways == TRUE

Running == state = "running"

(* Mutant of NoEvents: a single event counts as none. *)
FewEvents == count <= 1

NoEvents == count = 0

Unlock == lock' = None

Start ==
    /\ lpc = "out" /\ call[Loop] = "idle" /\ starts < MaxStarts
    /\ state \notin {"running", "freed"}
    /\ starts' = starts + 1
    /\ state' = "running"
    /\ lpc' = "top"
    /\ UNCHANGED <<lock, linked, count, arrayVars, deleted, eventVars, kernel, batch,
                   closing, callVars, last, edges, stops>>

(* The head of the loop: return when stopped, else the loop function. *)
Top ==
    /\ lpc = "top"
    /\ lpc' = IF Running THEN "func" ELSE "out"
    /\ LoopUnchanged
    /\ UNCHANGED <<rootVars, lock, eventVars, kernel, batch, closing, last>>

(* The function returned; without any event the loop sleeps and starts over. *)
FuncDone ==
    /\ lpc = "func" /\ call[Loop] = "idle"
    /\ lpc' = IF NoEvents THEN "top" ELSE "lock"
    /\ LoopUnchanged
    /\ UNCHANGED <<rootVars, lock, eventVars, kernel, batch, closing, last>>

BeginDelete ==
    /\ lpc = "lock" /\ lock = None
    /\ lock' = Loop
    /\ lpc' = "delete"
    /\ LoopUnchanged
    /\ UNCHANGED <<rootVars, eventVars, kernel, batch, closing, last>>

(* Pop one deleted event, close its descriptor and call it back with CLOSE. *)
PopDeleted ==
    LET e == Head(deleted) IN
    /\ lpc = "delete" /\ deleted # <<>>
    /\ deleted' = Tail(deleted)
    /\ open' = open \ {fd[e]}
    /\ last' = [last EXCEPT ![e] = "close"]
    /\ closing' = e
    /\ lpc' = "closing"
    /\ LoopUnchanged
    /\ UNCHANGED <<state, linked, count, arrayVars, lock, eventVars, epoll, edge,
                   batch>>

(* The CLOSE callback returned: unlink the record and free it. *)
FreeDeleted ==
    /\ lpc = "closing"
    /\ linked' = linked \ {closing}
    /\ count' = count - 1
    /\ alloc' = [alloc EXCEPT ![closing] = "freed"]
    /\ closing' = None
    /\ lpc' = "delete"
    /\ LoopUnchanged
    /\ UNCHANGED <<state, arrayVars, deleted, lock, what, fd, known, kernel, batch,
                   last>>

EndDelete ==
    /\ lpc = "delete" /\ deleted = <<>>
    /\ Unlock
    /\ lpc' = "wait"
    /\ LoopUnchanged
    /\ UNCHANGED <<rootVars, eventVars, kernel, batch, closing, last>>

(* epoll_wait is called with root->evfd as it is now, and without the lock. *)
EpollWait ==
    /\ lpc = "wait"
    /\ lpc' = "waiting"
    /\ moved' = FALSE
    /\ LoopUnchanged
    /\ UNCHANGED <<state, linked, count, deleted, room, spoilt, crossed, lock,
                   eventVars, kernel, batch, closing, last>>

Ready == {e \in Events : edge[e] # {}}

(* What the kernel writes does not fit, or goes to an array that realloc freed. *)
Astray == Cardinality(Ready) > room \/ (moved /\ Ready # {})

(* epoll_wait takes every edge; the order of the events is the kernel's. *)
EpollReturns ==
    /\ lpc = "waiting" /\ ~Astray
    /\ \E order \in SetToSeqs(Ready) :
           batch' = [i \in DOMAIN order |-> <<order[i], edge[order[i]]>>]
    /\ edge' = [e \in Events |-> {}]
    /\ lpc' = "batch"
    /\ LoopUnchanged
    /\ UNCHANGED <<rootVars, lock, eventVars, epoll, open, closing, last>>

(* The edges are written elsewhere, and the loop would look at as many entries of
   the array that the root has by now: old ones, of events that may be freed, and
   zero ones.  What follows is undefined; the model ends here. *)
EpollSpoils ==
    /\ lpc = "waiting" /\ Astray
    /\ spoilt' = TRUE
    /\ LoopUnchanged
    /\ UNCHANGED <<state, linked, count, deleted, room, moved, crossed, lock,
                   eventVars, kernel, loopVars, last>>

(* The order of the three tests that an event's directions go through. *)
First(flags) == CASE "read" \in flags -> "read"
                  [] "read" \notin flags /\ "write" \in flags -> "write"
                  [] OTHER -> "error"

(* Mutant of Left: an else between the directions. *)
LeftNone(flags) == {}

(* The directions that the tests after this one still find. *)
Left(flags) == flags \ {First(flags)}

(* root->what is looked at once per event, not once per callback. *)
Dispatch ==
    /\ lpc = "batch" /\ batch # <<>> /\ Running
    /\ last' = [last EXCEPT ![batch[1][1]] = "event"]
    /\ lpc' = "callback"
    /\ LoopUnchanged
    /\ UNCHANGED <<rootVars, lock, eventVars, kernel, batch, closing>>

(* The callback returned: the same event's next direction, or the next event. *)
CallbackDone ==
    LET e    == batch[1][1]
        left == Left(batch[1][2])
    IN
    /\ lpc = "callback" /\ call[Loop] = "idle"
    /\ \/ /\ left # {}
          /\ batch' = <<<<e, left>>>> \o Tail(batch)
          /\ last' = [last EXCEPT ![e] = "event"]
          /\ UNCHANGED lpc
       \/ /\ left = {}
          /\ batch' = Tail(batch)
          /\ lpc' = "batch"
          /\ UNCHANGED last
    /\ LoopUnchanged
    /\ UNCHANGED <<rootVars, lock, eventVars, kernel, closing>>

EndBatch ==
    /\ lpc = "batch" /\ batch = <<>>
    /\ lpc' = "top"
    /\ LoopUnchanged
    /\ UNCHANGED <<rootVars, lock, eventVars, kernel, batch, closing, last>>

(* Stopped in the middle of a batch: the rest of it is dropped. *)
Abandon ==
    /\ lpc = "batch" /\ batch # <<>> /\ ~Running
    /\ batch' = <<>>
    /\ lpc' = "out"
    /\ LoopUnchanged
    /\ UNCHANGED <<rootVars, lock, eventVars, kernel, closing, last>>
-----------------------------------------------------------------------------
(* The kernel reports a direction of interest, or an error, as an edge. *)
EdgeArrives(e, flag) ==
    /\ epoll[e] # None /\ edges < MaxEdges
    /\ flag \in (epoll[e] \cup {"error"}) \ edge[e]
    /\ edge' = [edge EXCEPT ![e] = @ \cup {flag}]
    /\ edges' = edges + 1
    /\ UNCHANGED <<rootVars, lock, eventVars, epoll, open, loopVars,
                   callVars, last, starts, stops>>

Ended == (state = "freed" \/ spoilt) /\ UNCHANGED vars

LoopStep == \/ Top \/ FuncDone \/ BeginDelete \/ PopDeleted \/ FreeDeleted
            \/ EndDelete \/ EpollWait \/ EpollReturns \/ EpollSpoils \/ Dispatch
            \/ CallbackDone \/ EndBatch \/ Abandon

Finish(t) == AddLink(t) \/ AddPublish(t) \/ SetApply(t) \/ DelApply(t)

Step == \/ Start \/ LoopStep \/ Free
        \/ \E t \in Threads :
               \/ AddReserve(t) \/ AddBreaks(t) \/ AddFails(t) \/ Finish(t)
               \/ Stop(t)
               \/ \E e \in Events, w \in SUBSET Dirs : SetTest(t, e, w) \/ DelTest(t, e, w)
        \/ \E e \in Events, flag \in Flags : EdgeArrives(e, flag)

Next == (~spoilt /\ Step) \/ Ended

(* A callback makes a finite number of calls; whoever waits for the lock gets it
   in the end: the loop leaves it free in every epoll_wait and usleep. *)
Fairness == /\ SF_vars(LoopStep)
            /\ \A t \in Threads : SF_vars(Finish(t))

Spec     == Init /\ [][Next]_vars
FairSpec == Spec /\ Fairness

-----------------------------------------------------------------------------
(* What the loop promises. *)

Queued == {batch[i][1] : i \in DOMAIN batch}

TypeOK ==
    /\ state \in {"initial", "running", "stoping", "freed"}
    /\ lock \in Threads \cup {None}
    /\ linked \subseteq Events /\ known \subseteq Events
    /\ count \in Nat /\ room \in Nat
    /\ {moved, spoilt, crossed} \subseteq BOOLEAN
    /\ deleted \in Seq(Events)
    /\ alloc \in [Events -> {"none", "held", "freed"}]
    /\ what \in [Events -> SUBSET Dirs]
    /\ fd \in [Events -> Fds \cup {None}]
    /\ epoll \in [Events -> (SUBSET Dirs) \cup {None}]
    /\ edge \in [Events -> SUBSET Flags]
    /\ open \subseteq Fds
    /\ batch \in Seq(Events \X SUBSET Flags)
    /\ lpc \in {"out", "top", "func", "lock", "delete", "closing", "wait",
                "waiting", "batch", "callback"}
    /\ closing \in Events \cup {None}
    /\ call \in [Threads -> {"idle", "add", "publish", "set", "del"}]
    /\ on \in [Threads -> Events \cup {None}]
    /\ ask \in [Threads -> SUBSET Dirs]
    /\ last \in [Events -> {"none", "event", "close"}]

(* The array that the kernel fills and the loop reads is not one that was freed, and
   holds all that is reported, as long as events are added one at a time before the
   loop starts and by its own thread after: as thread.c and server.c do. *)
ArraySound == spoilt => crossed

(* A record that was freed is nowhere any more: not in a list, not in the
   kernel, not in the batch that was fetched before it was deleted, and not in
   the hands of a call under way.  (This and what follows: until the array is
   spoilt, where the model ends.) *)
NoUseAfterFree ==
    state # "freed" =>
        \A e \in Events : alloc[e] = "freed" =>
            /\ e \notin linked \cup Range(deleted) \cup Queued \cup {closing}
            /\ epoll[e] = None
            /\ \A t \in Threads : on[t] # e

(* The array is at most one event short for each thread beyond the first that adds:
   each saw room for its own event and not for those of the others. *)
RoomForAll ==
    Cardinality({e \in Events : epoll[e] # None}) + 1 <= room + Cardinality(Adders)

(* The two lists, the counter and the room for the kernel's answer agree: an event
   is on the delete list once at most, still linked, and out of the kernel. *)
ListsAgree ==
    /\ TypeOK /\ RoomForAll
    /\ state # "freed" =>
        /\ count = Cardinality(linked)
        /\ IsInjective(deleted)
        /\ Range(deleted) \subseteq linked
        /\ \A e \in Range(deleted) : epoll[e] = None /\ what[e] = {}

(* The kernel watches open descriptors only, each for one event, although a
   number is given again as soon as the loop closed it. *)
OwnDescriptor ==
    \A e \in Events : epoll[e] # None =>
        /\ fd[e] \in open
        /\ \A g \in Events \ {e} : epoll[g] # None => fd[g] # fd[e]

(* An edge that was reported reaches a callback, unless its event is deleted
   or the loop is stopped. *)
Pending == {p \in Events \X Flags :
               \/ p[2] \in edge[p[1]]
               \/ \E i \in DOMAIN batch : batch[i][1] = p[1] /\ p[2] \in batch[i][2]}
EdgesReachCallbacks ==
    [][\A p \in Pending : \/ p \in Pending'
                          \/ lpc = "callback" /\ p = <<batch[1][1], First(batch[1][2])>>
                          \/ epoll'[p[1]] = None
                          \/ state # "running"]_vars

(* Seen from outside an event is what EventSource describes. *)
phase == [e \in Events |->
             CASE last[e] = "close" -> "closed"
               [] last[e] # "close" /\ alloc[e] = "none" -> "new"
               [] last[e] # "close" /\ alloc[e] = "freed" -> "dropped"
               [] last[e] # "close" /\ alloc[e] = "held" ->
                      IF e \in Range(deleted) THEN "deleted" ELSE "armed"]
Source == INSTANCE EventSource
ImplementsEventSource == Source!Spec

(* A deleted event is closed, called back and freed by a loop that runs. *)
DeletedIsFreed ==
    \A e \in Events : (e \in Range(deleted)) ~> (alloc[e] = "freed" \/ lpc = "out")

(* yod_evloop_stop makes a loop that is running return, and every call that waits
   for the lock returns: the loop gives the lock back however often it needs it. *)
StopReturns ==
    /\ (state = "stoping" /\ lpc # "out") ~> (lpc = "out")
    /\ \A t \in Threads : (call[t] # "idle") ~> (call[t] = "idle")
=============================================================================
