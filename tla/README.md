# libyod: a verification development

libyod is a C library: an epoll event loop, a pool of worker threads that each
run one, a TCP server on top of both, a small HTTP daemon on top of the server,
a MySQL connection pool, a hash table, a red-black tree, a JSON value, logging
and codecs.  This directory holds TLA+ modules of its components, TLC
configurations that check them on small instances, and TLAPS proofs of what the
runs check.  Line numbers refer to `src/libyod/`.

## 1. Inventory

### thread.c - the worker pool
State: the root record (lock, cond, `count`, list of workers at `next`, the
round-robin cursor at `prev`) and per worker a lock, `count`, a work list
(`head`/`tail`), a free list (`heap`), an event loop and a pipe whose read end
is registered in that loop.
Operations: `new` (adds `thread_num` workers and waits on the condition until
they have all registered), `add`, `run` (choose the worker at the cursor, push
the work, advance the cursor, write one byte to its pipe), `free`; callbacks
`add_cb` (the worker thread: registers itself and enters its loop) and `run_cb`
(the pipe is readable: read one byte and run one work, while `count > 0`).
Hard: `run` holds the root lock while it takes the worker's lock and while it
writes to the pipe; `run_cb` runs the user's function with the worker's lock
held; `count` is tested without a lock; the pipe is edge-triggered, so a byte
that is not accounted for is a wakeup lost forever.

### evloop.c - the event loop
State: the root record (lock, `count`, `what` = running or stopping, list of
events, delete list `heap`, loop function) and per event `fd`, `what`, callback.
Operations: `new`, `free`, `start` (the loop), `stop`, `loop`, `add`, `set`,
`del`.  `del` only clears interest and links the event into the delete list; the
loop thread closes the descriptor, calls back with CLOSE and frees the event at
the top of its next turn.
Hard: `del` tests `what` before it takes the lock; `stop` is a plain store that
`start` may overwrite; `set` and `del` come from any thread while the loop
dispatches a batch fetched earlier; the CLOSE callback runs with the lock held;
`epoll_wait` fills, without the lock, an array that `add` may reallocate.

### server.c - connections
State: the root (lock, `count`, `tick` = records ever allocated and not yet
freed, list, free list `heap`, accept loop, pool) and per connection a reference
count `count`, `fd`, `evloop` (the event, NULL when closing), deadline, buffer.
Operations: `new`, `free`, `start`, `stop`, `listen`, `connect`, `tick`, `recv`,
`send`, `close`, `setcb`; internal `open`, `destroy`; callbacks `accept_cb`,
`connect_cb`, `handle_cb`, `input_cb`, `tick_cb`.
Hard: a connection is touched by the accept thread, the worker that owns its
event, any worker that the pool picks for its input, and the tick thread; its
record is recycled by count; `evloop` is tested and cleared without a lock.

### shttpd.c - HTTP sessions on the server
State: the root (routes, status table, list and count of sessions, its own
`status`) and per session a reference count, the request `hreq`, the output
buffer, the server connection.
Operations: `new`, `route`, `free`; callbacks `connect_cb`, `input_cb`, `close_cb`,
`timeout_cb` behind `handle_cb`; internal `request`, `response`, `write`, `clean`.
Hard: CLOSE comes in the loop's thread, without the connection's lock, while a
worker's INPUT parses; `strtok_r` cuts text that stays in the buffer when the
request is not complete; what is left of a request is seen by the next one of a
kept-alive connection; a connection without a session speaks for the root.

### dbconn.c - MySQL connection pool
State: the root list of links, each IDLE or HOLD, and the statement a link keeps.
Operations: `open`, `close`, `begin`/`commit`/`rollback`, statements.
Hard: a pooled link that no longer answers a ping; a link returned in the middle
of a transaction.

### htable.c - hash table
State: bucket array, mask, collision chains (`v_next`/`v_prev`), insertion-order
list (`next`/`prev`), iteration cursor `curr`, reference count.
Hard: resizing relinks every chain; two linked structures must agree; deletion
under an iteration.

### rbtree.c - red-black tree
State: tree with one sentinel leaf, parent pointers, in-order threading
(`next`/`prev`), `head`, `tail`, cursor `curr`, `count`.
Hard: the fix-up loops; keeping the threading in step with the tree; duplicates.

### jvalue.c - JSON values
State: trees of values; objects are arrays sorted by name with binary search.
Operations: constructors, `object_set/get`, `array_add/set/get`, `clone`,
`encode`, `dump`, `load`, `decode`.
Hard: decode reads a text twice, counts in the first pass and writes in the
second into what was counted; encode without a buffer must count what encode with
one writes; the search by halves inserts where it ends; clone and free walk trees
without a stack.

### stdlog.c - logging
State: the list of loggers, a level and a format table each.

### common.c, crypto.c, system.c, socket.c
Codecs (big-endian integers, variable-length integers, hex, URL), path
normalisation, MD5 and CRC-32, the debug allocator, wrappers over BSD sockets.

## 2. How the components interact

* `server_start` runs the accept loop in the caller's thread; `accept_cb` opens a
  connection and hands `connect_cb` to the pool; the worker that runs it registers
  the descriptor in *its own* event loop, so every event of that connection is
  dispatched by that worker.
* `handle_cb` (owner's loop) takes a reference and hands `input_cb` to the pool,
  which may run it on *any* worker; the reference is dropped when it returns.
* Closing clears `evloop` and calls `evloop_del`; the owner's loop delivers CLOSE
  on its next turn, which drops the first reference.
* `destroy` recycles the record when the count is zero; the tick thread frees
  recycled records when there are more than needed.
* shttpd keeps one session per connection, dropped by the CLOSE callback.

## 3. Modules and how they correspond to the code

| code | module | abstract specification | instance |
|---|---|---|---|
| thread.c | `ThreadPool` | `WorkPool` | `MCThreadPool`, proofs in `ThreadPoolProofs`, `PoolJobsProofs` |
| evloop.c | `EventLoop` | `EventSource` | `MCEventLoop`, proofs in `EventLoopProofs` |
| server.c | `Server` (on the pool and the loops) | - | `MCServer`, proofs in `ServerProofs` |
| dbconn.c | `DbPool` | - | `MCDbPool`, proofs in `DbPoolProofs` |
| htable.c | `HashTable` | `OrderedMap` | `MCHashTable`, proofs in `HashTableProofs` |
| rbtree.c | `RbTree` | `SortedBag` | `MCRbTree` |
| jvalue.c | `JValue` (values), `JText` (encode and decode, on `JValue`) | a document and its text: `ReadsBack` | `MCJValue` |
| shttpd.c | `SHttpd` (on the connections of server.c) | - | `MCSHttpd`, proofs in `SHttpdProofs` |

**Grain.**  A step is one call where the code holds one lock from its first access
to its last (HashTable, RbTree) or shares nothing (JValue).  Elsewhere a step is
what lies between two places where another thread can come in: a critical section
without any other lock in it, a test made outside the lock, a system call.

**ThreadPool.**  `mpc`, `todo`, `want` are `yod_thread_new`'s loop and its wait;
`list` and `cursor` are `root->next` and `root->prev`; `queue`, `cnt`, `heap` are
a worker's works, its `count` and its spare work records; `pipe`, `ready`, `unsent` and `unread`
are the pipe, the edge that epoll holds and the bytes that a failed write or read
left out of step.  `RunChoose`, `RunPush`, `RunWrite` are the three stretches of
`yod_thread_run` (root lock taken; worker's lock for the link; byte written, root
lock dropped); `LoopWait`, `TestCount`, `ReadByte`, `PopWork`, `FuncReturns` are
`_yod_thread_run_cb`.  `RunEnter` is the call up to its wait for the root lock.
Who calls is a client, a worker from its loop when `WorkersSubmit` (as server.c
does for what its loop dispatched), or the function that a worker runs: `Inner`
names for each worker the caller that stands for its functions, which submits only
while the function runs, with the worker's lock held, and for whose return the
function waits.  `Ring` describes how such calls can wait for each other for ever
(section 7); `Forsaken` is `new` waiting for threads that were not made.

**EventLoop.**  `what`, `linked`, `count`, `deleted`, `room` are the fields of
root and events; `epoll`, `edge`, `open` are the kernel's side (external:
`EdgeArrives`); `batch` is what `epoll_wait` returned and is still to be looked at,
events with the flags reported on them (`First` and `Left` are the order in which
the loop tests the flags of one event); `lpc` is the loop thread's place.
`epoll_wait` is two steps: `EpollWait` hands it the array as it is, and
`EpollReturns` has it filled.  In between, and while the loop looks at the entries, an
add of another thread may move the array (`MakeRoom`: `moved`), and adds that saw
the same room may have made it too short.  `Astray` says that what is reported would go to
freed memory or past the end; what the loop reads then is undefined, so
`EpollSpoils` sets `spoilt` and the behaviour ends there, as it does when the array moves under
the loop's eyes.  `crossed` remembers whether an add came from another thread
than the loop's while it ran, or beside another add.  A call of
add, set or del is its unlocked test (`AddReserve`, `SetTest`, `DelTest`) and what it
does under the lock (`AddLink`, `SetApply`, `DelApply`);
`AddPublish` stores the record for the caller, after the lock and so after the
loop may have called back for it.

**Server.**  One record is used again and again; a *session* is one use of it, and
the event and the stream carry the session's number.  `evloop` is `self->evloop`
(0 for NULL), `count` the reference count, `owner` the worker whose loop has the
event, `dead` that loop's delete list.  The pool is kept as the queue of each
worker with the locks of `yod_thread_run`, and the loop as the states of an event,
just as `WorkPool` and `EventSource` describe them.  `Dangling` is an `evloop` whose
event the loop has freed; `CloseTwice` is the second deletion of an event, or the
test of one that was freed, with which the behaviour ends (`spoilt`).  Two history
variables say what the code leaves undone: `givenUp`, the connections that got no
event, and `cutOff`, the sessions whose `evloop` the ticker cleared when it closed a
former one of the same record.

**DbPool.**  `OpenStart` .. `ScanEnds` are the scan of `yod_dbconn_open` with the
root lock; `grow` is the stretch without it before `Grow` takes it again.  `stmt`,
`given` and `result` say which statement record is whose.

**HashTable, RbTree.**  Pointers are functions on nodes (`next`, `prev`, `chain`;
`tree.kid`, `tree.parent`), so that a pointer that is left over stays left over;
RbTree's mirrored branches are one branch for a side and its other side.

**JValue.**  `slots` is the data of a container, `place` its `_reserved.index`.
`Clone` iterates `Turn`, one turn of the code's while loop, over a record of its
locals and of the memory.  `object_init` and `array_init` do what new and then set
or add do, and readers change nothing: no action of their own.

**JText.**  A step is one turn of decode's loop: one character (token), seen with
the flags, the value at the top and the pass; `d` is the record of its locals and
of the values on the chain.  A text is extended by a token only when decode is
about to look at it or at the one behind it, so that texts with the same front
share their states.  `Mode` is the order of the loop's tests; each action is one of its
branches.  `Encode` is `dump`: `Encoded` walks a document as encode does, with
the count of encode without a buffer beside it (`room`).  `Make` is `decode_new`;
where the second pass would take a value of another type, or none, it goes
`astray`, which `PassesAgree` excludes.

**SHttpd.**  `own` says whose argument the server calls back with, `alive`, `refs`,
`closed` are a session's memory, `count` and `status`, and `linked` the list of the root.
`input` is where a worker's INPUT is, from the test of `self->evloop` in server.c (`InputTest`),
the lock (`InputLock`) and each recv (`Receive`) to the callback (`InputCall`,
`InputHold`, `Parse...`, `Respond`, `InputDrop`) and what the server takes from its
buffer afterwards (`Return`); `loop` is where the CLOSE is (`CloseMark`, `CloseDrop`);
`ticks` says that the ticker is in TIMEOUT (`TimeoutCall`, `Timeout`).  The loop closes
a connection that its peer resets (`Reset`) and the ticker one that it finds idle,
both at any step of an INPUT.  `InputCall` is handle_cb's test of `status`,
`InputHold` the reference, `InputFetch` what `yod_server_recv` returns: between the first two the INPUT has no
reference, and if the CLOSE frees the session there, the model's INPUT goes no further, for
what the code's does is undefined (section 7); the same holds for the ticker.
A text is a sequence of lines with their places in the stream.  A line that recv has
broken is a front and a back; one that `strtok_r` has found is cut, and whoever
reads the buffer again sees the text end there.  `hreq` holds for each
field the place of the line that set it, so that a property can say whose it is.
The pool and the loop under it are as `Server` shows them: works queued per
connection, one INPUT at a time, an edge for what arrives.

## 4. What the runs check

`tlc -config <run>.cfg <module>`.  All but the last pass.

| run | what it shows | instance |
|---|---|---|
| `pool` | no wakeup is lost, reads return, the pool is a `WorkPool`, and every accepted job runs and every call returns unless a ring of waits is closed, or `new` waits for threads that were not made | 2 workers, 1 client, the workers' loops and the functions they run, 3 jobs, pipes of 1 byte, a failed add, a thread that is not created |
| `pool_faults` | works and bytes stay accounted, no accepted job disappears, and `new` returns a complete pool whose cursor deals in turn | 3 records of which 2 are started and 1 comes late; a failed add, a thread that is not created, a failed write, a failed read |
| `evloop` | reported edges reach callbacks, deleted events are freed, stop and waiting calls return | 2 events on one descriptor number, 1 user, 2 edges, 2 starts, 1 stop |
| `evloop_shared` | the array under `epoll_wait` goes wrong only through adds that cross the loop or each other; until then no use of a freed event, lists, counter and room agree, descriptors are not confused, and each event is an `EventSource` | 2 events on 2 numbers (alike), the loop's thread and a user thread that both add, an array that grows by one, a failing realloc |
| `server` | CONNECT first, closing ends, no data stranded | 2 workers, 2 connections in turn on one number, 2 sends, closed by the peer or by a callback |
| `server_faults` | references, records and the ticker's count agree, no stale record, no descriptor lost but those of connections given up | 1 worker, 2 numbers; timeouts, errors and `yod_server_stop` in one behaviour; malloc, add and run fail; the ticker trims |
| `shttpd` | sessions live while a callback holds them, a request sees nothing of an earlier one but its query string and is answered once, a polite client is answered unless it is cut off | 1 client with any lines broken anywhere, or 1 with whole requests, or 2 silent ones; 2 segments of 2 lines; timeouts, resets, malloc, realloc and send that fail |
| `dbpool` | one holder per link, no more links than users, statements accounted | 3 threads, 4 links, 3 records, one failed select |
| `hashtable` | both kinds of links agree, values are freed once, and the table is an `OrderedMap` | 4 keys (one collision), 3 nodes, 1 to 4 buckets |
| `rbtree` | red-black, threaded in order, and with its cursor a `SortedBag` | 10 nodes with one duplicate key; the cursor in trees of up to 5 |
| `jvalue` | objects sorted and searchable, each value owned once, a clone is one; decode's passes agree on every text; a document is read back from its own text | 4 values, 2 containers of size 3, 2 NULLs, one clone with a malloc that may fail; texts of 6 tokens over 7 alphabets; documents of 4 values |
| `server_closed_input` | *violation*: `CloseIsLast` | as `server` |

**Why the bounds are enough.**  Two workers are the least with a cursor that
moves, three jobs the least that puts two on one worker while the other runs one,
and a pipe of one byte is full with the first job, so that the second waits with the
root lock held; two functions that call run are the least that can wait for each other;
a third worker record lets an add fail and another come late.  Two events on one
number give a number that is used again while the first event waits for its CLOSE;
two events on two numbers outgrow an array of one, before, in and after an
`epoll_wait`, and with two adders find it short.  Two connections over two records
reuse a record, a number and an event; `Closers` of `server_faults` is one set with all
that closes without a lock, so that any two of them meet.  Three threads and four links are one link
more than any schedule of the pool needs, so that the bound in `HeldByOne` could fail.  Four
buckets are two doublings; three nodes are a chain with a middle.  Ten nodes are
the first size at which a deletion leaves a deficit that climbs two levels.  Four
values and a NULL make `[[a,b,NULL]]`, a tree whose clone loses `b`, and a full
container with another one in it a clear behind the data.  Six tokens make every
text of two values in a container, an escape in a name or a string, a comment
between any two tokens, a number with point or exponent that turns out to be
a word; seven alphabets keep apart what does not meet in one text of that length.
Two segments of two lines are a request with a query string that is kept alive and
one without after it, one broken inside the other, or a line that is no request before one; two
connections are one with a session and one that was refused it.

**Bounds that are not the code's** are the constants called `Max...` (and
`LateAdds`, `FailsAt`); a guard at the action that they bound uses them.

**Deadlock** is not checked where the system really stops: in `pool_faults` (a
worker that was never created), `evloop_shared` (a failed realloc returns with the
lock held), `jvalue` (all values made and freed, a text decoded), `shttpd` (the
clients have sent what they may and all is closed).

**Where a model ends.**  Three modules reach states in which the code's behaviour is
undefined, and stop there rather than guess: `EventLoop` when the array is used that
was freed or is too short (`spoilt`), `Server` when an event is deleted twice or
used after its free (`spoilt`), `SHttpd` where a callback without a reference finds its
session freed (that thread goes no further).  Their properties are about everything
up to there; `ArraySound` and `CloseComes` say who never gets there, and section 7 lists the
faults.  `ThreadPool` goes on through its deadlocks: `Ring` and `Forsaken` name
them, and the liveness properties hold in all other states.

`Closers` says who closes connections in an instance: in `server` those that hold the
connection's lock, in `server_faults` those that do not.
`evloop` and `evloop_shared` leave the calls on one event to one thread at a time,
as the comment of the module says.

## 5. Fairness

* ThreadPool: weak fairness of `new`, of each worker and of each submitter from its wait
  for the root lock on - operating-system threads that are not blocked run.  That the
  lock is free again and again need not be enough for a waiter: the jobs of an
  instance are finite, so in the end it is free for good.  Nobody is obliged to
  submit, and nothing is fair that fails.
* EventLoop: strong fairness of the loop's steps and of each call that waits for
  the lock.  A mutex is not fair by itself; but every holder drops it without
  waiting for anything else, and the loop leaves it free through every
  `epoll_wait`, so a waiter finds it free again and again.
* Server: weak fairness of each worker's work and loop, of whatever a thread is in
  the middle of, and of a ticker that is in a callback, as long as nothing is
  spoilt.  Nobody is obliged to connect, send or close.
* SHttpd: weak fairness of each connection's read event and callbacks: loops and
  workers run.  Clients, the ticker, resets, a full memory and the owner owe nothing.
* The other modules claim safety only.

## 6. What is proved

`ThreadPoolProofs`, for any number of workers, callers and jobs, any pipe
capacity and any combination of failures, from `PoolAssumption` alone:

| theorem | property |
|---|---|
| `PoolTypeOK` | `TypeOK`, a part of `ByteAccounting` |
| `BytesAccounted` | `ByteAccounting`: well typed, and bytes in the pipe, taken and promised = works counted, up to the bytes that failed writes and reads cost |
| `WakeupsKept` | `NoLostWakeup`: a worker that waits while it has work has an edge and a byte, or is promised one |
| `ReadsReturn` | `ReadReturns`: a worker reads only what is there or about to come |

None of the last three is inductive.  The invariant `IInv` adds

* `SubmitterHoldsLock`: from its choice to its write a submitter has the root
  lock.  Without it two submitters could promise bytes to one worker, and
  `ByteAccounting`, which counts one promise, could not be kept by `RunPush`.
* `CountStays`: between `count > 0` seen without the lock and the work taken under
  it, `count` does not fall - only the worker itself takes work.  Without it
  `PopWork` could find an empty list.
* `EdgeKept`: outside the callback an unread byte is an edge in epoll.  It is what
  turns "there is a byte" into "the worker will be woken": when `TestCount` leaves
  the callback, `ByteAccounting` with `count = 0` gives an empty pipe.

`InvInit` and `InvStep` (one lemma per conjunct: `TypeStep`, `LockStep`,
`CountStep`, `BytesStep`, `EdgeStep`, one step per action in each) give the lemma
`Inductive`; each theorem is its consequence.

`DbPoolProofs`, for any finite number of threads and records, any set of links and
any bound on failures, from `PoolAssumption` (finite, because they are counted):

| theorem | property |
|---|---|
| `LinksHeldByOne` | `HeldByOne`: one holder per link in use, each link on the list once, no more links than threads |
| `StatementsKept` | `StatementsAccounted`: a result is open and its client's own; statements lost are no more than failed selects |

`PoolBounded`, a part of `HeldByOne`, is what is not inductive: a thread that is
about to add a link decided so from a list that has changed since.  `Scanned` carries
the argument: during a scan there are at least as many idle clients as links that
the scan has passed and links ahead that are held.  A skip moves one from the second
to the first; a close only takes from those ahead, since nobody can open before the
scan ends; so when a scan ends there is an idle client for each link of the list, and
the one that scanned is the room for the link it adds.  `ScanLocked`, `Listed`
and `OneHolder` say who scans and relate holders to links; `Owned` says whose each
record is, so that a query finds none that a client still reads, and `Counted` is
kept because a record that is taken over while open was counted as loose before.
There is one lemma per conjunct (`TypeStep`, `LockStep`, `ListStep`, `HolderStep`,
`ScanStep`, `BoundStep`, `OwnStep`, `CountStep`), with a step per action.

`PoolJobsProofs` (on `ThreadPoolProofs`, from the same assumption):

| theorem | property |
|---|---|
| `NoJobIsLost` | `NoJobLost`: the accepted jobs are exactly those with a submitter, queued, running or done, and -1 is returned for the others |
| `PoolImplementsWorkPool` | `ImplementsWorkPool`: each step of the pool is a step of `WorkPool` or none of its business |

`JobInv` adds `CarriedIsNew`: the job of a call that waits for the root lock or for
the link is numbered already and nowhere else, two such calls have two jobs.  `WorkCases` splits the next-state relation
into the few actions that move a job and those that leave all jobs alone (`Aside`);
`PoolStep` maps a link, a job taken, a job returned and a refusal to WorkPool's
actions, with the job that is running at the front of WorkPool's queue.

and, in the second part of the module:

| theorem | property |
|---|---|
| `EachInTurn` | `ReadyIsComplete`: `new` returns with the workers it counted, and the cursor deals to each of them in turn |

`TurnInv` has five parts.  `Listed`: the list holds registered workers, each once.
`Counted`: `thread_num` is what `new` has still to add, what has registered, what was
created and has not registered, and what was never created.  `Untouched`: nothing is
submitted before `new` returns.  `CursorHeld`: the cursor stays at the chosen worker
from the choice to the link, which is what the root lock is for.  `Dealt`: there is a
number of jobs that each founder has, but for those before the cursor, which
have one more.

`EventLoopProofs`, for any finite set of events, any descriptors, users and bounds,
from `LoopAssumption` (events are finite because the loop counts them):

| theorem | property |
|---|---|
| `NothingUsedAfterFree` | `NoUseAfterFree` |
| `DescriptorsOwned` | `OwnDescriptor` |
| `ListsInStep` | `ListsAgree`: the array is short of one event at most for each adder beyond the first |
| `ArrayIsSound` | `ArraySound`: no array that was freed or is too short is used unless adds crossed |
| `EdgesKept` | `EdgesReachCallbacks` |
| `LoopImplementsEventSource` | `ImplementsEventSource` |

No theorem restricts who adds.  `IInv` is `TypeOK` with
`FreedLast` (when the loop is freed nothing is under way), `LoopPlace` (where a batch
or a CLOSE can be), `OneCall` and `CallsLive` (a call that waits for the lock is about
a record that is still in the phase in which it was made), `Records` (what each
phase of a record - not yet in the loop, in it, gone - says of the list, the delete
list, epoll, the batch and the last callback), `Counted` (the counter is the size of
the list; nothing is deleted twice) and `Owned` (an event with a descriptor has it
alone, also while it is being added).  `Records` is the heart: an event is in the
batch or waits for its edge only while it is linked, so freeing it at the top of
a turn, when the batch is empty, leaves nobody with it.

Two more invariants are about the array.  `Roomy`: the events, the adds under way
and one more are at most the room and the number of adders, since each of them saw room for its own
event.  `Uncrossed`: as long as adds did not cross, a thread that adds is alone and has the
room it saw, and `moved` and `spoilt` are false; an `epoll_wait` that returns then fits,
as what is ready is watched, and what is watched is linked and counted
(`WatchedCounted`).  libyod keeps to that by itself: thread.c:282 and server.c:349
add before the loop starts, server.c:839 in the loop's own thread; a caller of
`yod_evloop_add` who does not is section 7's.

`SHttpdProofs`, for any finite set of connections, any text in any pieces, and
whatever fails, from `SHttpdAssumption`:

| theorem | property |
|---|---|
| `SessionsOutliveTheirCallbacks` | `NoUseAfterFree` |
| `SessionsAreAccounted` | `SessionsAccounted` |

`Session(c)` is what is inductive: a session has a reference for the CLOSE to
come until it has come, and one for an INPUT from `InputHold` to its `InputDrop`, wherever
timeouts and resets fall; an event that is armed or waits for its CLOSE has its session live.  `Listed` ties the list
and its counter to the live sessions.  `TypeInv` is `TypeOK` with what types rest on
here: the answer lies within the buffer (`Within`) and each whole line has a place
before it, for a front that a broken recv leaves (`Numbered`).  The lemmas in front
are about texts: what a text is after its last line is broken (`ReceiveIs`), joined with its
back (`JoinPlaces`), cut (`CutIs`), searched (`LastLineIs`) and parsed
(`ParsedType`), with the least and the greatest of a set of places from the
library's well-founded order (`MinIs`, `MaxIs`).

The second part of the module is about requests:

| theorem | property |
|---|---|
| `RequestsAreFresh` | `FreshRequest`: nothing of a request came before the last answer |
| `RequestsAnsweredOnce` | `AnsweredOnce`: each request line is answered once at most, in the order of the stream |

Both follow from where the text is that nobody has answered.  `Ordered`: the lines of
the buffer and behind them those of the socket are in the order in which they were
sent, with a place for the front of each whole line.  `Unread`: all of it that the
parser has not passed lies behind the last answer (`AnsweredTo`).  `Asked`: so do the lines of which
`hreq` is made - which is what `clean` and the server's taking of the
buffer have to keep in step.  `Sensible` bounds places by what was sent, so that
a new line is behind all others; `Logged` keeps the answers in order.  One lemma per
kind of step (`SendKeeps`, `ReceiveKeeps`, `ReturnKeeps`, `CutKeeps`, `ReadsKeeps`,
`RespondKeeps`) shows it for the connection that moves, and `ApartKeep` for the others.

`ServerProofs`, for any finite sets of workers and openers, any records, any number
of connections, any descriptor numbers, any `Closers`, whatever fails and whether or not
the server is stopped, from `ServerAssumption` alone:

| theorem | property |
|---|---|
| `RecordsNotStale` | `NoStaleRecord` |
| `RecordsCounted` | `RecordsAccounted` |
| `DescriptorsKept` | `NoDescriptorLost`: an open number is a live connection's, or one's that was given up |
| `ConnectsFirst` | `ConnectFirst` |

They hold in every state that the module reaches, that is up to a second deletion of an
event, whoever the closers are that race for it.

`IInv` is `TypeOK` with

* `Shape`: where each kind of thread can be, and that a worker's lock is held from
  its work's first step to its last.
* `Uses`, `Meant`, `Queued`, `Events`: each record in use has a session of its own;
  a thread that is at work, a work in a queue and an event in a loop name the record of
  their own session; the event exists exactly from `connect_cb` on; an event that was
  deleted is in the delete list of its own loop, once.
* `Loops`: in its delete phase a loop has its lock and no batch, so nothing that was
  fetched names an event that it frees.
* `Numbers`: a connection has its descriptor number until CLOSE.
* `Steady`: who is about to clear `evloop` has the event deleted (`Passed`), and an armed event
  is its record's own, unless the ticker cut it off (`cutOff`).  This is what the
  ticker's clear, without a reference and of a record that may have been opened again,
  comes down to.
* `Referred`: the count of a record is the number of works, openers, events and
  serving workers that mean it, and one until it has its event.  That the count is not
  0 while somebody means the record is what makes `NoStaleRecord` inductive, and that
  nobody else has the one reference is what lets `connect_cb` refuse and recycle.
* `Lists`: the list has the records in use, the free list the others, and `tick` is
  the number of both.

The proof changes a reference at a time: `Parts` lemmas say which conjuncts a step
leaves alone, and the others have one lemma per conjunct and group of actions.
`DescriptorsKept` adds `Sound` (an open number belongs to a record in use that has
not been closed, or to a connection that was given up), `ConnectsFirst` adds `Greeted`: while `connect_cb` is between the
registration and CONNECT, its event can be armed, but the loop that would fetch it is
the same thread's.

`HashTableProofs`, for any keys, any hash function, any finite set of nodes, any
number of buckets and whatever allocations fail, from `TableAssumption`:

| theorem | property |
|---|---|
| `LinksAgreeAlways` | `LinksAgree`: list and chains hold the same nodes, each key once, and each node is found |
| `ValuesAccountedAlways` | `ValuesAccounted`: values taken are held, passed to vfree or lost in a reset |
| `IsOrderedMap` | `ImplementsOrderedMap`: each call is a step of a map whose keys are in the order they came |

The properties follow pointers with a loop: `List` along `next`, `Lookup` along a
chain.  `HInv` says the same without a loop: there *is* a sequence (`Listed`) whose
neighbours `next` and `prev` link, with the nodes in use as its members, and
for each bucket there is one whose neighbours `chain` links (`Hashed`).  `FollowIs`
shows once that the loop over linked pointers returns that sequence, whatever its length; the
rest is about sequences: what a node put at the end, unlinked from the middle or pushed
on a chain does to one, and that doubling, which walks the list and pushes each node on
the chain of its new bucket, leaves every node in the bucket of its key
(`RelinkedChained`).  `KeysApart` is what makes the first node that a lookup meets the only one.
The refinement shows the map's order and cursor step by step from the same sequence
(`StepIsMapStep`), and that `Lookup` and the map's function agree for each key.

The induction that this takes is not the library's, which wants an operator as
a parameter: `Induction` is about a *set* of naturals and rests on the least
one that is not in it, by the library's well-founded order; `Recursion` gives a
function of 0..N from a base and a step, and so unfolds a loop that is written as
a recursive function of one argument.

The inductive invariants hold on the instances of the runs as well: TLC checks them
there as it checks the properties.

Only model-checked: liveness and fairness (out of the prover's reach); `CloseIsLast`, which the code does not
keep; and the properties of RbTree, JValue and JText.  The loops of the first would
unfold as those of HashTable do; what JValue and JText say is about trees of values and texts
of any depth, with recursion over both.

## 7. What the models showed about the code

A run that fails, with the comment of the code it contradicts:

* `CloseIsLast` (`server_closed_input`): `/* closing */` at server.c:957 is tested
  before the lock; an input work that waits for the lock, or is in its receive
  loop, reads on after CLOSE from a number that may be another connection's.

Seen while modelling, kept in the models unless it says otherwise:

* thread.c:302 compares the result of `pthread_create` with -1; errors are
  positive.  The add succeeds without a thread and `new` waits for ever
  (`AddCreateFails`).
* thread.c:426 and 605: failed writes and reads of the wakeup byte are logged
  only; the job waits for the next byte (`unsent`, `unread`).
* thread.c:610-636: the user's function runs under the worker's lock, so a
  function that submits to its own worker waits for itself, and two functions that
  submit to each other's workers wait for each other; 425: the byte
  is written with the root lock held, so a full pipe blocks every submitter, and with them
  the worker that would read it if its function is one (`Ring`;
  `yod_server_connect` from a callback can do that, server.c:389).
* thread.c:164-214: `free` releases the records of running threads (not modelled).
* evloop.c:368: `epoll_wait` is called on `root->evfd` without the lock.  An add of
  another thread that finds the array full reallocates it (521-527): the kernel
  writes to freed memory, and the loop looks at as many entries of the new array, old ones
  of events that may be freed, and zero ones; or the array moves while the loop looks at it
  (`Astray`, `EpollSpoils`, `MakeRoom`).  It takes 1024 events and a caller that adds from
  another thread than the loop's: `ArraySound` shows that nothing else does it.
* evloop.c:520-530: capacity is tested, then the lock dropped: each of several threads
  that add sees room for its own event, and the array can be too short
  (`RoomForAll`, in `ListsAgree`, says by how much).  521-523: a
  failed realloc returns with the lock held (`AddBreaks`).
* evloop.c:692-711: on epoll `set` registers the *old* `what` with the kernel.
* evloop.c:371: a stop in the middle of a batch drops its edges; 245: `start`
  overwrites a stop that came before it; 205-209: `free` leaves descriptors open
  and calls no CLOSE; 597-621: the kernel may report an event before its record is
  linked.
* server.c:994: `ptr[ret] = 0` writes behind a buffer that was filled to the end;
  982-985: a failed realloc drops data (buffers are not modelled).
* server.c:731-743: destroy unlocks a record that the ticker may have freed;
  1058-1071: the ticker walks the list without the lock and may call TIMEOUT for a
  record that was recycled, or before CONNECT; 972/1018 and 703: opposite lock
  orders, kept apart by the single deletion only.
* server.c:533-535: the ticker closes a record without a reference.  While it is in
  `yod_evloop_del` the session can end, the record be recycled and opened again; the clear
  of `evloop` then cuts the new session off from its event: whatever arrives for it is
  ignored, and nobody deletes the event, so that it gets neither INPUT nor CLOSE (`cutOff`).
* server.c:533, 1017 and evloop.c:767 test `self->evloop` and `what` without the loop's
  lock: an error in the loop, a timeout, a close and the end of stream in an input work
  can both get through, the event is deleted twice and freed twice, or deleted after
  its loop freed it, while `evloop` still points there (`Dangling`, `CloseTwice`).
* server.c:784-787, 824-828 and 840-842: a connection for which there is no record, no
  work or no event, or that `connect_cb` meets after a stop, gets its record back to the free
  list but its descriptor is not closed (`OpenFails`, `RunFails`, `ConnectRefused`):
  the `givenUp` of `NoDescriptorLost`.
* htable.c:228-275: `reset` clears the head before the loop that frees from the
  head: all values are lost (`lost` in HashTable).  395: deletion leaves the cursor
  on the freed node (`stale`).  777: after a failed resize `add` unlocks twice (not
  modelled: one thread).
* rbtree.c: deletion of the cursor's node moves the cursor on, so that a loop of
  `next` skips one node; with duplicates, find meets the topmost.
* dbconn.c:214-227: an idle link without an answer makes `open` give up although
  others are idle; 526-570: a failed select leaves its open statement in the link,
  where the next query overwrites it (`leaked`); 135-194: `free` does not close
  statements; 422 and 446: the result of switching autocommit on again is ignored.
* jvalue.c:402: clone clears the entry named by the *outermost* value's count: in an
  inner array with two items more it takes a clone away (`[[a,b,c]]` becomes
  `[[a,NULL,c]]`), and where that count is the array's size or more it writes
  behind the data (`damaged`).  Clones leave NULL entries out, so later indices of
  an array shift.  A clone whose data could not be allocated loses the clones of
  its items (`lost`).
* jvalue.c, decode: 1600 counts the size of a container again in the second pass,
  so that it is twice the room allocated (`data` in JText): a later set or add
  goes past it, and a clone reads there.  1257: the test for null is turned round,
  so that `null` is a string and a word like `nope` is NULL.  1541: a number with
  anything but a comma behind it becomes a string.  1532: another flag is tested
  than the one that a minus sets, so negative integers come out positive (the
  value of numbers is not modelled).  1064: a word that begins with a slash where a
  comment may come becomes a value without a name, and takes the place of an
  object's first entry.  Of two equal names the earlier value is forgotten, not
  freed.  1201: the tests for the literal words look one byte past the text, which
  load does not terminate.  1629: after a failed malloc in the second pass an object
  frees an entry that was not read yet, and open containers are lost (not
  modelled).  encode of a value with a parent goes on into the parent;
  encode_strlen counts three for an escape of two, which is harmless.
* shttpd.c:379: a connection accepted before `new` has ended, or whose session could
  not be allocated, has the root for its argument; its CLOSE marks the root
  closed, and no later connection gets a session or an answer (`deaf`).  695: a
  request line of which only the front has come sets the status 600, which stays
  when the rest comes: the function of a route that sets no status then answers with
  a page for 600.
  702: a line that is no request stays in the buffer and blocks the connection
  until it times out; so does a request whose realloc failed (760, 788).  780:
  everything that has come is taken for one request's header, pipelined requests
  and bodies too: one answer per INPUT.  1204: a send that was cut short counts as
  sent.
* shttpd.c:1220-1316: `clean` resets every field of a request but `qstr`, and 774-778
  sets it only where the path has a `?`: the next request of the connection is seen with
  the query string of an earlier one, which points into the path's buffer and
  is dangling when that was reallocated for a longer path (760).  `FreshRequest` is about the
  other fields; TLC finds at once that it fails with `qstr` among them.
* shttpd.c:370-532: an INPUT tests `status` and takes its reference later; a CLOSE in between,
  for a reset (server.c:916) or a timeout, frees the session that the INPUT then locks.
  So does an INPUT of a connection that is closed already (`CloseIsLast`).  The ticker
  has no reference at all in TIMEOUT (`Timeout`).
* common.c (not modelled yet): the two-byte form of variable-length integers begins
  one too late (128).

## 8. Not modelled, and the plan

Out of reach or without state: digests (crypto.c), the wrappers of system.c and
socket.c, text formatting (stdlog.c), the kqueue and select branches of evloop.c,
the SSL and Windows branches.

Left out of modelled components: `yod_thread_free`; in EventLoop a failure of
`epoll_ctl` in set and del (in add it is modelled); what goes on after undefined behaviour
(section 4); the server's listen, start, send, recv, free and buffers;
transactions of dbconn.c; the value and sign of numbers in JText; in SHttpd what is on a page.

The plan, in the order in which it was made and is being followed:

1. `ThreadPool` with `WorkPool` and its proofs; `EventLoop` with `EventSource`;
   `Server` on both - the concurrent core.  *Done*, but for what is listed above.
2. `HashTable`/`OrderedMap`, `RbTree`/`SortedBag`, `DbPool`, `JValue`.  *Done*.
3. `SHttpd` on the connections of `Server`; `JText`, encode and the decoder's two
   passes.  *Done*.
4. `Codec`: variable-length integers, hex, URL and path functions as operators
   against reference definitions; `StdLog`'s list of loggers; transactions of DbPool.
5. Proofs.  ThreadPool and its WorkPool, DbPool, EventLoop and its EventSource,
   SHttpd, Server, HashTable and its OrderedMap: *done*.  What is left are RbTree
   (`RedBlack` first) and the memory of JValue.
