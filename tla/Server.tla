------------------------------- MODULE Server -------------------------------
(***************************************************************************)
(* server.c on top of the loops and the pool: a connection's record from   *)
(* yod_server_open to yod_server_destroy, and the threads that share it.   *)
(*                                                                         *)
(*  - an opener runs the accept loop or calls yod_server_connect;          *)
(*  - a worker runs the pool's works (connect_cb, input_cb) and, in the    *)
(*    same thread, the events of the connections it connected (handle_cb); *)
(*  - the ticker calls TIMEOUT back and frees spare records.               *)
(*                                                                         *)
(* The pool is WorkPool with the locks of yod_thread_run; a worker's lock  *)
(* is held exactly while it runs a work (busy).  Each use of a record is a *)
(* session of its own number, which also names its event and its stream;   *)
(* the code has no such number, the properties need one.  root->lock       *)
(* protects sections without any other lock in them: they are one step.    *)
(***************************************************************************)
EXTENDS Naturals, FiniteSets, Sequences, SequencesExt, Functions

CONSTANTS Records,   \* connection records that malloc may return
          Fds,       \* descriptor numbers, given again once closed
          Workers,
          Openers,
          Ticker,
          MaxConns,  \* bound: connections opened
          MaxSends,  \* bound: messages of the peers
          MaxTicks,  \* bound: TIMEOUT callbacks
          Closers,   \* the sets, one per behaviour, of what closes a
                     \* connection: eof, func, error, timeout, stop
          MayFail,   \* malloc or yod_thread_run may fail
          MayTrim,   \* the ticker frees spare records
          None

Sessions == 1..MaxConns
Threads  == Workers \cup Openers \cup {Ticker}
Reasons  == {"eof", "func", "error", "timeout", "stop"}

ASSUME ServerAssumption ==
    /\ {MaxConns, MaxSends, MaxTicks} \subseteq Nat
    /\ Closers \subseteq SUBSET Reasons
    /\ {MayFail, MayTrim} \subseteq BOOLEAN
    /\ IsFiniteSet(Workers) /\ IsFiniteSet(Openers)
    /\ Workers \cap Openers = {} /\ Ticker \notin Workers \cup Openers
    /\ None \notin Threads \cup Records \cup Fds

VARIABLES closers,   \* what closes a connection in this behaviour
          stoping,   \* root->what = YOD_SERVER_STATE_STOPING
          spoilt,    \* an event was deleted twice, or used after its loop freed it
          heap,      \* root->heap and on: recycled records
          linked,    \* root->next and on
          total,     \* root->tick: records allocated and not freed
          conns,     \* connections opened so far
          givenUp,   \* those that got no event: a step failed, or the server stopped
          alloc,     \* per record: none, live, heap, freed
          count,     \* per record, self->count
          fdOf,      \* per record, self->fd
          evloop,    \* per record, self->evloop: the session of the event or 0
          timed,     \* per record, (self->what & __EVS_TIMEOUT) != 0
          holder,    \* per record, owner of self->lock
          session,   \* per record, the session that uses it
          event,     \* per session, its event: none, armed, deleted, freed
          owner,     \* per session, the worker whose loop has the event
          evFd,      \* per session, the event's descriptor
          evRec,     \* per session, the event's arg
          edge,      \* per session, edges that epoll has not reported
          batch,     \* per worker, edges its loop fetched and not yet dispatched
          dead,      \* per worker, its loop's delete list
          cutOff,    \* sessions whose evloop the ticker cleared for a former one
          loopLock,  \* per worker, owner of its loop's lock
          queue,     \* per worker, its works
          busy,      \* per worker, it runs a work with its lock held
          poolLock,  \* owner of the pool's root->lock
          open,      \* descriptors that are open
          stream,    \* per descriptor, the session of the socket
          unread,    \* per session, messages in the socket's buffer
          eof,       \* per session, the peer closed
          sends, ticks,  \* counters of the bounds
          pc, rec, ses, ret, \* per thread: label, record, its session, return label
          told       \* per session, the last callback: none, connect, input, close

rootVars  == <<closers, stoping, spoilt, heap, linked, total, conns>>
recVars   == <<alloc, count, fdOf, evloop, timed, session>>
eventVars == <<event, owner, evFd, evRec, edge, batch, dead, cutOff>>
poolVars  == <<queue, busy, poolLock>>
sockVars  == <<open, givenUp, stream, unread, eof, sends>>
threadVars == <<pc, rec, ses, ret>>
vars == <<rootVars, recVars, holder, eventVars, loopLock, poolVars, sockVars,
          ticks, threadVars, told>>

Init ==
    /\ closers \in Closers
    /\ stoping = FALSE /\ spoilt = FALSE
    /\ heap = <<>> /\ linked = {} /\ total = 0 /\ conns = 0
    /\ alloc = [r \in Records |-> "none"]
    /\ count = [r \in Records |-> 0]
    /\ fdOf = [r \in Records |-> None]
    /\ evloop = [r \in Records |-> 0]
    /\ timed = [r \in Records |-> FALSE]
    /\ session = [r \in Records |-> 0]
    /\ holder = [r \in Records |-> None]
    /\ event = [s \in Sessions |-> "none"]
    /\ owner = [s \in Sessions |-> None]
    /\ evFd = [s \in Sessions |-> None]
    /\ evRec = [s \in Sessions |-> None]
    /\ edge = [s \in Sessions |-> {}]
    /\ batch = [w \in Workers |-> {}]
    /\ dead = [w \in Workers |-> <<>>]
    /\ loopLock = [w \in Workers |-> None]
    /\ queue = [w \in Workers |-> <<>>]
    /\ busy = [w \in Workers |-> FALSE]
    /\ poolLock = None
    /\ cutOff = {} /\ open = {} /\ givenUp = {}
    /\ stream = [f \in Fds |-> 0]
    /\ unread = [s \in Sessions |-> 0]
    /\ eof = [s \in Sessions |-> FALSE]
    /\ sends = 0 /\ ticks = 0
    /\ pc = [t \in Threads |-> "idle"]
    /\ rec = [t \in Threads |-> None]
    /\ ses = [t \in Threads |-> 0]
    /\ ret = [t \in Threads |-> "idle"]
    /\ told = [s \in Sessions |-> "none"]

Goto(t, label) == pc' = [pc EXCEPT ![t] = label] /\ UNCHANGED <<rec, ses, ret>>

Call(t, label, r, s, back) ==
    /\ pc' = [pc EXCEPT ![t] = label]
    /\ rec' = [rec EXCEPT ![t] = r]
    /\ ses' = [ses EXCEPT ![t] = s]
    /\ ret' = [ret EXCEPT ![t] = back]

-----------------------------------------------------------------------------
(* yod_server_open, yod_server_destroy and yod_server_close. *)

(* Mutant of TakeRecord: root->tick counts a recycled record again. *)
TakeCounted(r) ==
    /\ IF heap # <<>> THEN r = Head(heap) /\ heap' = Tail(heap)
       ELSE alloc[r] = "none" /\ UNCHANGED heap
    /\ total' = total + 1

(* A record is taken from the free list or allocated. *)
TakeRecord(r) ==
    IF heap # <<>>
    THEN r = Head(heap) /\ heap' = Tail(heap) /\ UNCHANGED total
    ELSE alloc[r] = "none" /\ total' = total + 1 /\ UNCHANGED heap

OpenRecord(r, f, s) ==
    /\ TakeRecord(r)
    /\ linked' = linked \cup {r}
    /\ alloc' = [alloc EXCEPT ![r] = "live"]
    /\ count' = [count EXCEPT ![r] = 1]
    /\ fdOf' = [fdOf EXCEPT ![r] = f]
    /\ evloop' = [evloop EXCEPT ![r] = 0]
    /\ timed' = [timed EXCEPT ![r] = TRUE]
    /\ session' = [session EXCEPT ![r] = s]

(* Mutant of IsLast: one too early. *)
IsLastButOne(left) == left <= 1

IsLast(left) == left = 0

(* A reference is dropped under self->lock; the last one recycles the record. *)
DropRef(r) ==
    LET left == IF count[r] > 0 THEN count[r] - 1 ELSE 0
        last == IsLast(left)
    IN
    /\ holder[r] = None
    /\ count' = [count EXCEPT ![r] = left]
    /\ linked' = IF last THEN linked \ {r} ELSE linked
    /\ heap' = IF last THEN <<r>> \o heap ELSE heap
    /\ alloc' = [alloc EXCEPT ![r] = IF last THEN "heap" ELSE @]
    /\ fdOf' = [fdOf EXCEPT ![r] = IF last THEN None ELSE @]
    /\ evloop' = [evloop EXCEPT ![r] = IF last THEN 0 ELSE @]
    /\ timed' = [timed EXCEPT ![r] = IF last THEN FALSE ELSE @]
    /\ session' = [session EXCEPT ![r] = IF last THEN 0 ELSE @]
    /\ UNCHANGED <<closers, stoping, spoilt, total, conns>>

(* evloop is cleared after the deletion, and by then the loop may have freed the event. *)
Dangling(r) == evloop[r] # 0 /\ event[evloop[r]] = "freed"

(* yod_server_close, entered with Call(t, "close", r, s, back): what = 0, and
   yod_evloop_del tests the event before it takes the loop's lock. *)
Close(t) ==
    LET r == rec[t] IN
    /\ pc[t] = "close" /\ ~Dangling(r)
    /\ timed' = [timed EXCEPT ![r] = FALSE]
    /\ IF evloop[r] = 0 THEN Goto(t, ret[t])
       ELSE Call(t, IF event[evloop[r]] = "armed" THEN "del" ELSE "forget",
                 r, evloop[r], ret[t])
    /\ UNCHANGED <<rootVars, alloc, count, fdOf, evloop, session, holder, eventVars,
                   loopLock, poolVars, sockVars, ticks, told>>

(* Mutant of PushDead: the event is not linked for its loop to delete. *)
ForgetDead(w, s) == UNCHANGED dead

PushDead(w, s) == dead' = [dead EXCEPT ![w] = <<s>> \o @]

CloseDel(t) ==
    LET s == ses[t]
        w == owner[s]
    IN
    /\ pc[t] = "del" /\ loopLock[w] = None /\ event[s] = "armed"
    /\ event' = [event EXCEPT ![s] = "deleted"]
    /\ edge' = [edge EXCEPT ![s] = {}]
    /\ PushDead(w, s)
    /\ Goto(t, "forget")
    /\ UNCHANGED <<rootVars, recVars, holder, owner, evFd, evRec, batch, cutOff, loopLock,
                   poolVars, sockVars, ticks, told>>

(* The record is cleared, whosever it is by now: the ticker had no reference. *)
CloseForget(t) ==
    LET r == rec[t] IN
    /\ pc[t] = "forget"
    /\ evloop' = [evloop EXCEPT ![r] = 0]
    /\ cutOff' = IF t = Ticker THEN cutOff \cup ({evloop[r]} \ {0, ses[t]}) ELSE cutOff
    /\ Goto(t, ret[t])
    /\ UNCHANGED <<rootVars, alloc, count, fdOf, timed, session, holder, event, owner,
                   evFd, evRec, edge, batch, dead, loopLock, poolVars, sockVars, ticks,
                   told>>

(* recv returns 0: end of stream, or an error such as a closed descriptor. *)
RecvEnds(r) == fdOf[r] \in open => unread[stream[fdOf[r]]] = 0 /\ eof[stream[fdOf[r]]]

(* Two threads close one connection: the event that the other has deleted, or its
   loop freed, is deleted again, or tested.  What comes of it is not defined, and the
   model ends. *)
CloseTwice(t) ==
    /\ \/ pc[t] = "close" /\ Dangling(rec[t])
       \/ pc[t] = "recv" /\ RecvEnds(rec[t]) /\ Dangling(rec[t])
       \/ pc[t] = "del" /\ loopLock[owner[ses[t]]] = None /\ event[ses[t]] # "armed"
    /\ spoilt' = TRUE
    /\ UNCHANGED <<closers, stoping, heap, linked, total, conns, recVars, holder, eventVars,
                   loopLock, poolVars, sockVars, ticks, threadVars, told>>

-----------------------------------------------------------------------------
(* yod_thread_run(root->thread, ...) by t for its record: pc "run", "push". *)

RunLock(t) ==
    /\ pc[t] = "run" /\ poolLock = None
    /\ poolLock' = t
    /\ Goto(t, "push")
    /\ UNCHANGED <<rootVars, recVars, holder, eventVars, loopLock, queue, busy,
                   sockVars, ticks, told>>

RunPush(t) ==
    /\ pc[t] = "push"
    /\ \E w \in Workers :
           /\ ~busy[w]
           /\ queue' = [queue EXCEPT ![w] =
                            Append(@, <<IF t \in Workers THEN "input" ELSE "connect",
                                        rec[t], ses[t]>>)]
    /\ poolLock' = None
    /\ Goto(t, "idle")
    /\ UNCHANGED <<rootVars, recVars, holder, eventVars, loopLock, busy, sockVars,
                   ticks, told>>

(* It failed: the caller drops the reference that the work would have had; an
   opener's was the only one, and nobody closes its descriptor. *)
RunFails(t) ==
    /\ MayFail /\ pc[t] = "push"
    /\ givenUp' = IF t \in Openers THEN givenUp \cup {ses[t]} ELSE givenUp
    /\ DropRef(rec[t])
    /\ poolLock' = None
    /\ Goto(t, "idle")
    /\ UNCHANGED <<holder, eventVars, loopLock, queue, busy, open, stream, unread, eof,
                   sends, ticks, told>>

-----------------------------------------------------------------------------
(* _yod_server_accept_cb and yod_server_connect. *)

OpenConnection(t) ==
    /\ t \in Openers /\ pc[t] = "idle" /\ conns < MaxConns
    /\ conns' = conns + 1
    /\ \E r \in Records, f \in Fds \ open :
           /\ OpenRecord(r, f, conns')
           /\ open' = open \cup {f}
           /\ stream' = [stream EXCEPT ![f] = conns']
           /\ Call(t, "run", r, conns', "idle")
    /\ UNCHANGED <<closers, stoping, spoilt, holder, eventVars, loopLock, poolVars, givenUp,
                   unread, eof, sends, ticks, told>>

(* malloc fails: the accepted descriptor is neither used nor closed. *)
OpenFails(t) ==
    /\ MayFail /\ heap = <<>>
    /\ t \in Openers /\ pc[t] = "idle" /\ conns < MaxConns
    /\ conns' = conns + 1
    /\ givenUp' = givenUp \cup {conns'}
    /\ \E f \in Fds \ open : open' = open \cup {f} /\ stream' = [stream EXCEPT ![f] = conns']
    /\ UNCHANGED <<closers, stoping, spoilt, heap, linked, total, recVars, holder,
                   eventVars, loopLock, poolVars, unread, eof, sends, ticks, threadVars, told>>

-----------------------------------------------------------------------------
(* A worker takes its next work, with its lock held until the work is done. *)

TakeWork(w) ==
    /\ pc[w] = "idle" /\ queue[w] # <<>>
    /\ LET work == Head(queue[w]) IN Call(w, work[1], work[2], work[3], "idle")
    /\ queue' = [queue EXCEPT ![w] = Tail(@)]
    /\ busy' = [busy EXCEPT ![w] = TRUE]
    /\ UNCHANGED <<rootVars, recVars, holder, eventVars, loopLock, poolLock,
                   sockVars, ticks, told>>

WorkDone(w) == Goto(w, "idle") /\ busy' = [busy EXCEPT ![w] = FALSE]

(* Mutant of JoinLoop: the loop of any worker. *)
JoinAnyLoop(w, s) == \E v \in Workers : owner' = [owner EXCEPT ![s] = v]

JoinLoop(w, s) == owner' = [owner EXCEPT ![s] = w]

(* _yod_server_connect_cb: register in this worker's loop, then CONNECT. *)
ConnectCb(w) ==
    LET r == rec[w]
        s == ses[w]
    IN
    /\ pc[w] = "connect" /\ ~stoping /\ loopLock[w] = None
    /\ event' = [event EXCEPT ![s] = "armed"]
    /\ JoinLoop(w, s)
    /\ evFd' = [evFd EXCEPT ![s] = fdOf[r]]
    /\ evRec' = [evRec EXCEPT ![s] = r]
    /\ edge' = [edge EXCEPT ![s] = IF unread[s] > 0 \/ eof[s] THEN {"read"} ELSE {}]
    /\ evloop' = [evloop EXCEPT ![r] = s]
    /\ Goto(w, "connected")
    /\ UNCHANGED <<rootVars, alloc, count, fdOf, timed, session, holder, batch, dead,
                   cutOff, loopLock, poolVars, sockVars, ticks, told>>

ConnectFunc(w) ==
    /\ pc[w] = "connected"
    /\ told' = [told EXCEPT ![ses[w]] = "connect"]
    /\ WorkDone(w)
    /\ UNCHANGED <<rootVars, recVars, holder, eventVars, loopLock, queue, poolLock,
                   sockVars, ticks>>

(* Stopping, or yod_evloop_add fails: the record goes, its descriptor stays. *)
ConnectRefused(w) ==
    /\ pc[w] = "connect" /\ (stoping \/ MayFail)
    /\ givenUp' = givenUp \cup {ses[w]}
    /\ DropRef(rec[w])
    /\ WorkDone(w)
    /\ UNCHANGED <<holder, eventVars, loopLock, queue, poolLock, open, stream, unread, eof,
                   sends, ticks, told>>

-----------------------------------------------------------------------------
(* _yod_server_input_cb. *)

(* Without a lock: closing, stopping, or on to self->lock. *)
InputCb(w) ==
    /\ pc[w] = "input"
    /\ IF evloop[rec[w]] = 0 THEN Goto(w, "destroy")
       ELSE IF stoping THEN Call(w, "close", rec[w], ses[w], "destroy")
       ELSE Goto(w, "lock")
    /\ UNCHANGED <<rootVars, recVars, holder, eventVars, loopLock, poolVars, sockVars,
                   ticks, told>>

InputLock(w) ==
    /\ pc[w] = "lock" /\ holder[rec[w]] = None
    /\ holder' = [holder EXCEPT ![rec[w]] = w]
    /\ Goto(w, "recv")
    /\ UNCHANGED <<rootVars, recVars, eventVars, loopLock, poolVars, sockVars, ticks, told>>

(* Mutant of HasData: recv's 0 counts as data. *)
HasDataOrNone(f) == unread[stream[f]] >= 0

HasData(f) == unread[stream[f]] > 0

(* Mutant of AfterData: an if for the while. *)
AfterOne == "unlock"

AfterData == "recv"

(* A message of whatever socket now has the record's descriptor; the INPUT
   callback may close the connection. *)
RecvData(w) ==
    LET r == rec[w]
        f == fdOf[r]
    IN
    /\ pc[w] = "recv" /\ f \in open /\ HasData(f)
    /\ unread' = [unread EXCEPT ![stream[f]] = @ - 1]
    /\ told' = [told EXCEPT ![ses[w]] = "input"]
    /\ \/ Goto(w, AfterData)
       \/ "func" \in closers /\ Call(w, "close", r, ses[w], AfterData)
    /\ UNCHANGED <<rootVars, recVars, holder, eventVars, loopLock, poolVars, open, givenUp,
                   stream, eof, sends, ticks>>

(* Nothing more to read: leave. *)
RecvAgain(w) ==
    LET f == fdOf[rec[w]] IN
    /\ pc[w] = "recv" /\ f \in open /\ unread[stream[f]] = 0 /\ ~eof[stream[f]]
    /\ Goto(w, "unlock")
    /\ UNCHANGED <<rootVars, recVars, holder, eventVars, loopLock, poolVars, sockVars,
                   ticks, told>>

(* The event is deleted unless somebody did. *)
RecvClosed(w) ==
    LET r == rec[w]
        s == evloop[r]
    IN
    /\ pc[w] = "recv" /\ RecvEnds(r) /\ ~Dangling(r)
    /\ IF s = 0 THEN Goto(w, "unlock")
       ELSE Call(w, IF event[s] = "armed" THEN "del" ELSE "forget", r, s, "unlock")
    /\ UNCHANGED <<rootVars, recVars, holder, eventVars, loopLock, poolVars, sockVars,
                   ticks, told>>

InputUnlock(w) ==
    /\ pc[w] = "unlock"
    /\ holder' = [holder EXCEPT ![rec[w]] = None]
    /\ Goto(w, "destroy")
    /\ UNCHANGED <<rootVars, recVars, eventVars, loopLock, poolVars, sockVars, ticks, told>>

InputDestroy(w) ==
    /\ pc[w] = "destroy"
    /\ DropRef(rec[w])
    /\ WorkDone(w)
    /\ UNCHANGED <<holder, eventVars, loopLock, queue, poolLock, sockVars, ticks, told>>

-----------------------------------------------------------------------------
(* The worker's loop and _yod_server_handle_cb. *)

(* epoll_wait reports the edges of every event of this loop. *)
Fetch(w) ==
    LET mine == {s \in Sessions : owner[s] = w /\ edge[s] # {}} IN
    /\ pc[w] = "idle" /\ batch[w] = {} /\ mine # {}
    /\ batch' = [batch EXCEPT ![w] = UNION {{s} \X edge[s] : s \in mine}]
    /\ edge' = [s \in Sessions |-> IF s \in mine THEN {} ELSE edge[s]]
    /\ UNCHANGED <<rootVars, recVars, holder, event, owner, evFd, evRec, dead, cutOff,
                   loopLock,
                   poolVars, sockVars, ticks, threadVars, told>>

(* One callback of one event; it may have been deleted since it was fetched. *)
Handle(w, s, flag) ==
    LET r == evRec[s] IN
    /\ pc[w] = "idle" /\ <<s, flag>> \in batch[w]
    /\ flag = "error" => <<s, "read">> \notin batch[w]
    /\ batch' = [batch EXCEPT ![w] = @ \ {<<s, flag>>}]
    /\ IF evloop[r] = 0 THEN UNCHANGED threadVars
       ELSE Call(w, IF stoping \/ flag = "error" THEN "close" ELSE "ref", r, s, "idle")
    /\ UNCHANGED <<rootVars, recVars, holder, event, owner, evFd, evRec, edge, dead,
                   cutOff, loopLock, poolVars, sockVars, ticks, told>>

(* Mutant of Ref: the input work gets no reference. *)
RefUncounted(w) ==
    /\ pc[w] = "ref" /\ holder[rec[w]] = None
    /\ Goto(w, "run")
    /\ UNCHANGED <<rootVars, recVars, holder, eventVars, loopLock, poolVars, sockVars,
                   ticks, told>>

(* Under self->lock: the input work gets a reference of its own. *)
Ref(w) ==
    /\ pc[w] = "ref" /\ holder[rec[w]] = None
    /\ count' = [count EXCEPT ![rec[w]] = @ + 1]
    /\ Goto(w, "run")
    /\ UNCHANGED <<rootVars, alloc, fdOf, evloop, timed, session, holder, eventVars,
                   loopLock, poolVars, sockVars, ticks, told>>

(* The delete phase, with the loop's lock held from here to EndDelete. *)
BeginDelete(w) ==
    /\ pc[w] = "idle" /\ batch[w] = {}
    /\ dead[w] # <<>> /\ loopLock[w] = None
    /\ loopLock' = [loopLock EXCEPT ![w] = w]
    /\ Goto(w, "delete")
    /\ UNCHANGED <<rootVars, recVars, holder, eventVars, poolVars, sockVars, ticks, told>>

(* Mutant of CloseFd: the descriptor is left open. *)
LeaveFd(s) == UNCHANGED open

CloseFd(s) == open' = open \ {evFd[s]}

(* Close the descriptor and call CLOSE back; then the reference goes. *)
CloseCb(w) ==
    LET s == Head(dead[w]) IN
    /\ pc[w] = "delete" /\ dead[w] # <<>>
    /\ CloseFd(s)
    /\ told' = [told EXCEPT ![s] = "close"]
    /\ Call(w, "closed", evRec[s], s, "delete")
    /\ UNCHANGED <<rootVars, recVars, holder, eventVars, loopLock, poolVars, givenUp,
                   stream, unread, eof, sends, ticks>>

CloseDestroy(w) ==
    LET s == ses[w] IN
    /\ pc[w] = "closed"
    /\ DropRef(rec[w])
    /\ event' = [event EXCEPT ![s] = "freed"]
    /\ dead' = [dead EXCEPT ![w] = Tail(@)]
    /\ Goto(w, "delete")
    /\ UNCHANGED <<holder, owner, evFd, evRec, edge, batch, cutOff, loopLock, poolVars,
                   sockVars, ticks, told>>

EndDelete(w) ==
    /\ pc[w] = "delete" /\ dead[w] = <<>>
    /\ loopLock' = [loopLock EXCEPT ![w] = None]
    /\ Goto(w, "idle")
    /\ UNCHANGED <<rootVars, recVars, holder, eventVars, poolVars, sockVars, ticks, told>>

-----------------------------------------------------------------------------
(* _yod_server_tick_cb walks the list without a lock. *)

(* self->evloop is set and the deadline has passed. *)
TickSee(r) ==
    /\ pc[Ticker] = "idle" /\ ticks < MaxTicks
    /\ r \in linked /\ evloop[r] # 0
    /\ ticks' = ticks + 1
    /\ Call(Ticker, "timeout", r, session[r], "idle")
    /\ UNCHANGED <<rootVars, recVars, holder, eventVars, loopLock, poolVars, sockVars, told>>

(* What the record holds by now decides; its callback may close it. *)
TickCall ==
    LET r == rec[Ticker] IN
    /\ pc[Ticker] = "timeout"
    /\ \/ Goto(Ticker, "idle")
       \/ /\ "timeout" \in closers /\ timed[r]
          /\ Call(Ticker, "close", r, session[r], "idle")
    /\ UNCHANGED <<rootVars, recVars, holder, eventVars, loopLock, poolVars, sockVars,
                   ticks, told>>

(* Under root->lock: while (root->tick > root->count * 2), free a spare record. *)
Trim ==
    LET spare == total - 2 * Cardinality(linked) IN
    /\ MayTrim /\ pc[Ticker] = "idle"
    /\ spare > 0 /\ spare <= Len(heap)
    /\ alloc' = [r \in Records |->
                    IF \E i \in 1..spare : heap[i] = r THEN "freed" ELSE alloc[r]]
    /\ heap' = SubSeq(heap, spare + 1, Len(heap))
    /\ total' = total - spare
    /\ UNCHANGED <<closers, stoping, spoilt, linked, conns, count, fdOf, evloop, timed,
                   session, holder, eventVars, loopLock, poolVars, sockVars, ticks, threadVars, told>>

(* yod_server_stop: the accept loop ends, the rest is left to the callbacks. *)
Stop ==
    /\ "stop" \in closers /\ ~stoping
    /\ stoping' = TRUE
    /\ UNCHANGED <<closers, spoilt, heap, linked, total, conns, recVars, holder,
                   eventVars, loopLock, poolVars, sockVars, ticks, threadVars, told>>

-----------------------------------------------------------------------------
(* The peers. *)

Reported(s, flags) ==
    edge' = [edge EXCEPT ![s] = IF event[s] = "armed" THEN @ \cup flags ELSE @]

PeerUnchanged == UNCHANGED <<rootVars, recVars, holder, event, owner, evFd, evRec, batch,
                             dead, cutOff, loopLock, poolVars, open, givenUp, stream,
                             ticks, threadVars, told>>

Connected(s) == ~eof[s] /\ \E f \in open : stream[f] = s

PeerSends(s) ==
    /\ Connected(s) /\ sends < MaxSends
    /\ sends' = sends + 1
    /\ unread' = [unread EXCEPT ![s] = @ + 1]
    /\ Reported(s, {"read"})
    /\ UNCHANGED eof /\ PeerUnchanged

PeerCloses(s) ==
    /\ "eof" \in closers /\ Connected(s)
    /\ eof' = [eof EXCEPT ![s] = TRUE]
    /\ Reported(s, {"read"})
    /\ UNCHANGED <<unread, sends>> /\ PeerUnchanged

PeerResets(s) ==
    /\ "error" \in closers /\ Connected(s)
    /\ eof' = [eof EXCEPT ![s] = TRUE]
    /\ Reported(s, {"read", "error"})
    /\ UNCHANGED <<unread, sends>> /\ PeerUnchanged

(* Nothing is under way: what the peers and openers do next is up to them. *)
Quiet ==
    /\ conns = MaxConns \/ Fds \subseteq open
    /\ \A t \in Threads : pc[t] = "idle"
    /\ \A w \in Workers : queue[w] = <<>> /\ batch[w] = {} /\ dead[w] = <<>>
    /\ UNCHANGED vars

Work(w) == \/ TakeWork(w) \/ ConnectCb(w) \/ ConnectFunc(w) \/ ConnectRefused(w)
           \/ InputCb(w) \/ InputLock(w) \/ RecvData(w) \/ RecvAgain(w)
           \/ RecvClosed(w) \/ InputUnlock(w) \/ InputDestroy(w)

LoopTurn(w) == \/ Fetch(w) \/ Ref(w) \/ BeginDelete(w) \/ CloseCb(w)
               \/ CloseDestroy(w) \/ EndDelete(w)
               \/ \E s \in Sessions : Handle(w, s, "read") \/ Handle(w, s, "error")

Shared(t) == Close(t) \/ CloseDel(t) \/ CloseForget(t) \/ RunLock(t) \/ RunPush(t)

Tick == TickCall \/ \E r \in Records : TickSee(r)

Step == \/ \E t \in Threads : \/ Shared(t) \/ CloseTwice(t)
                                \/ RunFails(t) \/ OpenConnection(t) \/ OpenFails(t)
        \/ \E w \in Workers : Work(w) \/ LoopTurn(w)
        \/ Tick \/ Trim \/ Stop \/ Quiet
        \/ \E s \in Sessions : PeerSends(s) \/ PeerCloses(s) \/ PeerResets(s)

Next == (~spoilt /\ Step) \/ (spoilt /\ UNCHANGED vars)

(* Threads that can take a step take one; nobody is obliged to connect or send. *)
Fairness == /\ \A t \in Threads : WF_vars(~spoilt /\ Shared(t))
            /\ \A w \in Workers : WF_vars(~spoilt /\ (Work(w) \/ LoopTurn(w)))
            /\ WF_vars(~spoilt /\ TickCall)

Spec     == Init /\ [][Next]_vars
FairSpec == Spec /\ Fairness

-----------------------------------------------------------------------------
(* What the server promises. *)

Labels == {"idle", "run", "push", "connect", "connected", "input", "lock", "recv",
           "unlock", "destroy", "close", "del", "forget", "ref", "delete", "closed",
           "timeout"}

RootType ==
    /\ closers \in Closers /\ {stoping, spoilt} \subseteq BOOLEAN
    /\ heap \in Seq(Records) /\ linked \subseteq Records
    /\ total \in Nat /\ conns \in 0..MaxConns
RecType ==
    /\ alloc \in [Records -> {"none", "live", "heap", "freed"}]
    /\ count \in [Records -> Nat]
    /\ fdOf \in [Records -> Fds \cup {None}]
    /\ evloop \in [Records -> 0..MaxConns] /\ session \in [Records -> 0..MaxConns]
    /\ timed \in [Records -> BOOLEAN]
EventType ==
    /\ event \in [Sessions -> {"none", "armed", "deleted", "freed"}]
    /\ owner \in [Sessions -> Workers \cup {None}]
    /\ evFd \in [Sessions -> Fds \cup {None}]
    /\ evRec \in [Sessions -> Records \cup {None}]
    /\ edge \in [Sessions -> SUBSET {"read", "error"}]
    /\ batch \in [Workers -> SUBSET (Sessions \X {"read", "error"})]
    /\ dead \in [Workers -> Seq(Sessions)] /\ cutOff \subseteq Sessions
PoolType ==
    /\ queue \in [Workers -> Seq({"connect", "input"} \X Records \X Sessions)]
    /\ busy \in [Workers -> BOOLEAN] /\ poolLock \in Threads \cup {None}
SockType ==
    /\ open \subseteq Fds /\ givenUp \subseteq Sessions /\ stream \in [Fds -> 0..MaxConns]
    /\ unread \in [Sessions -> Nat] /\ eof \in [Sessions -> BOOLEAN]
    /\ sends \in Nat
ThreadType ==
    /\ pc \in [Threads -> Labels]
    /\ rec \in [Threads -> Records \cup {None}]
    /\ ses \in [Threads -> 0..MaxConns]
    /\ ret \in [Threads -> {"idle", "destroy", "recv", "unlock", "delete"}]

TypeOK ==
    /\ RootType /\ RecType /\ EventType /\ PoolType /\ SockType /\ ThreadType
    /\ holder \in [Records -> Workers \cup {None}]
    /\ loopLock \in [Workers -> Workers \cup {None}]
    /\ ticks \in Nat
    /\ told \in [Sessions -> {"none", "connect", "input", "close"}]

(* Who has a reference to a record: works, openers, the event, and the workers that
   serve it or are about to hand out a work for it. *)
Works(r) == {p \in UNION {{w} \X DOMAIN queue[w] : w \in Workers} :
                 queue[p[1]][p[2]][2] = r}
Opening(r) == {t \in Openers : rec[t] = r /\ pc[t] # "idle"}
Watching(r) == {s \in Sessions : evRec[s] = r /\ event[s] \in {"armed", "deleted"}}
Serving(r) == {w \in Workers : /\ rec[w] = r
                               /\ \/ busy[w] /\ pc[w] # "connected"
                                  \/ pc[w] \in {"run", "push"}}

(* Every reference that is counted has somebody who will drop it, and every
   thread that will drop one has it counted. *)
RefsCounted ==
    \A r \in Records :
        alloc[r] = "live" =>
            count[r] = Cardinality(Works(r)) + Cardinality(Opening(r))
                       + Cardinality(Watching(r)) + Cardinality(Serving(r))

(* A record is never given to another session while something that has a reference
   to it (a work, an event, an opener, a worker) still means the first one by it.
   The ticker has none, and closes whatever the record has become: all it does to
   another session so is to cut it off from its event (server.c:535), and no event
   that is armed is without its record in any other way. *)
NoStaleRecord ==
    /\ \A w \in Workers : \A i \in DOMAIN queue[w] :
           session[queue[w][i][2]] = queue[w][i][3]
    /\ \A s \in Sessions :
           event[s] \in {"armed", "deleted"} => session[evRec[s]] = s
    /\ \A t \in Threads \ {Ticker} :
           pc[t] \notin {"idle", "delete"} => session[rec[t]] = ses[t]
    /\ \A s \in Sessions :
           event[s] = "armed" => evloop[evRec[s]] = s \/ s \in cutOff

(* root->tick counts the records in use and the recycled ones, each once; so
   there is always a spare record for the ticker's loop to free; and the references
   of each record in use are those that somebody will drop. *)
RecordsAccounted ==
    /\ RefsCounted
    /\ total = Cardinality(linked) + Len(heap)
    /\ IsInjective(heap) /\ linked \cap Range(heap) = {}

(* CONNECT comes before INPUT. *)
ConnectFirst ==
    [][\A s \in Sessions : told'[s] = "input" => told[s] # "none"]_vars

(* A descriptor that is open belongs to a session that will close it, or to a
   connection that was given up before it had an event: malloc, the hand-over to
   the pool or the registration failed, or the server was stopping.  Nobody closes
   those; there are no others. *)
NoDescriptorLost ==
    TypeOK /\ \A f \in open :
        \/ \E r \in linked : fdOf[r] = f /\ session[r] = stream[f]
        \/ event[stream[f]] \in {"armed", "deleted"}
        \/ stream[f] \in givenUp

(* After CLOSE a session gets no further callback. *)
CloseIsLast == [][\A s \in Sessions : told[s] = "close" => told'[s] = "close"]_vars

(* A session that is closing is closed: its loop calls CLOSE back and frees the
   event, and its record is recycled once the last work has let go of it. *)
CloseComes ==
    \A s \in Sessions :
        (event[s] = "deleted")
            ~> (event[s] = "freed" /\ \A r \in Records : session[r] # s)

(* Edge-triggered reading leaves nothing behind: what a peer sent is read, or
   the connection is closed. *)
NoDataStranded ==
    \A s \in Sessions :
        (event[s] = "armed" /\ unread[s] > 0) ~> (unread[s] = 0 \/ event[s] # "armed")
=============================================================================
