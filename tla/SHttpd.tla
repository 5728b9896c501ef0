------------------------------- MODULE SHttpd -------------------------------
(***************************************************************************)
(* shttpd.c: the sessions of the http daemon, between the callbacks of a   *)
(* connection (server.c) and the text its client sends.                    *)
(*                                                                         *)
(* A connection calls its daemon back in three threads: CONNECT and CLOSE  *)
(* in the thread of its loop, TIMEOUT in the ticker, INPUT in any worker,  *)
(* one INPUT at a time (with conn->lock held).  CLOSE takes no lock of the *)
(* connection: a session that INPUT works on must outlive it by the        *)
(* session's own count.                                                    *)
(*                                                                         *)
(* The text is a sequence of lines, each with its place in the stream (an  *)
(* even number).  recv takes any number of them and may break the next one *)
(* in two; the front of a broken line is at the odd place before.          *)
(* strtok_r writes a 0 over the end of each line it finds: such a line is  *)
(* cut, and whoever reads the buffer later sees the text end there.        *)
(***************************************************************************)
EXTENDS Naturals, FiniteSets, Sequences, SequencesExt, FiniteSetsExt

CONSTANTS Conns,     \* connections, each used once
          Segments,  \* the sequences of kinds of lines a client sends at once
          MaxSends,  \* bound: segments that clients send
          Manners,   \* one for each behaviour: clients that send whole
                     \* requests one by one, any text, nothing, or do not come
          MayFail    \* malloc, realloc or a send may fail

Kinds  == {"get", "ask", "keep", "field"}  \* an ask is a get with a '?'
Known  == {200, 404, 500, 600}  \* of root->http_status
Codes  == {0, 999} \cup Known   \* 999 stands for what the table has not

ASSUME SHttpdAssumption ==
    /\ Segments \subseteq Seq(Kinds) \ {<<>>}
    /\ MaxSends \in Nat
    /\ Manners \subseteq [Conns -> {"whole", "any", "mute", "none"}]
    /\ MayFail \in BOOLEAN

VARIABLES
    manners,    \* how clients behave in this behaviour
    (* the daemon: yod_shttpd_t, the root *)
    init,       \* yod_shttpd_init__: new (0), ready (1), freed (0 again)
    deaf,       \* root->status = YOD_SHTTPD_STATE_CLOSED
    linked,     \* root->next and on: the connections whose sessions they are
    count,      \* root->count
    (* the connection: yod_server_t and its works *)
    event,      \* none, armed (evloop is set), deleted, closed
    own,        \* self->arg is a session of its own (else the root)
    works,      \* queued input works
    waiting,    \* input works that passed the test and wait for conn->lock
    edge,       \* epoll has an edge to report
    stream,     \* lines in the socket's buffer
    eof,        \* the peer closed
    data,       \* self->data
    (* the session *)
    alive,      \* none, live, freed
    refs,       \* self->count
    closed,     \* self->status = YOD_SHTTPD_STATE_CLOSED
    server,     \* self->server is set
    hreq,       \* self->hreq: for each field the place of the line it is from
    (* the threads *)
    input,      \* where the INPUT of the connection is
    at,         \* lines of data it has answered
    loop,       \* where the CLOSE of the connection is
    ticks,      \* the ticker calls TIMEOUT of the connection
    (* histories the properties need *)
    sends,      \* segments sent
    place,      \* lines sent
    log,        \* requests given to yod_shttpd_response
    aborted     \* closed by a timeout or by the peer's reset

rootVars == <<init, deaf>>
listVars == <<linked, count>>
workVars == <<works, waiting, edge>>
connVars == <<event, own, workVars>>
textVars == <<stream, eof, sends, place>>
sessVars == <<alive, refs, closed>>
tickVars == <<ticks, aborted>>
vars == <<manners, rootVars, listVars, connVars, textVars, data, sessVars,
          server, hreq, input, at, loop, log, tickVars>>

Blank == [req |-> 0, qstr |-> 0, keep |-> 0, field |-> 0, code |-> 0, by |-> 0]

Line == [kind : Kinds, place : Nat, part : {"all", "front", "back"},
         cut : BOOLEAN]
Fields == {"req", "keep", "field", "by"}
Request == [req : Nat, qstr : Nat, keep : Nat, field : Nat, code : Codes,
            by : Nat]
Answer == [req : Nat, upto : Nat]

TypeOK ==
    /\ manners \in Manners
    /\ init \in {"new", "ready", "freed"} /\ deaf \in BOOLEAN
    /\ linked \subseteq Conns /\ count \in Nat
    /\ event \in [Conns -> {"none", "armed", "deleted", "closed"}]
    /\ {own, edge, eof, closed, server, ticks, aborted}
          \subseteq [Conns -> BOOLEAN]
    /\ {works, waiting, refs, at, sends, place} \subseteq [Conns -> Nat]
    /\ {stream, data} \subseteq [Conns -> Seq(Line)]
    /\ alive \in [Conns -> {"none", "live", "freed"}]
    /\ hreq \in [Conns -> Request] /\ log \in [Conns -> Seq(Answer)]
    /\ input \in [Conns -> {"idle", "recv", "call", "hold", "fetch",
                            "parse", "respond", "drop", "return"}]
    /\ loop \in [Conns -> {"idle", "drop"}]

Each(v) == [c \in Conns |-> v]

(* yod_shttpd_new up to yod_server_listen: connections may come from here on,
   if the loops run already. *)
Init ==
    /\ manners \in Manners
    /\ init = "new" /\ deaf = FALSE
    /\ linked = {} /\ count = 0
    /\ event = Each("none") /\ own = Each(FALSE)
    /\ works = Each(0) /\ waiting = Each(0) /\ edge = Each(FALSE)
    /\ stream = Each(<<>>) /\ eof = Each(FALSE) /\ data = Each(<<>>)
    /\ alive = Each("none") /\ refs = Each(0) /\ closed = Each(FALSE)
    /\ server = Each(FALSE) /\ hreq = Each(Blank)
    /\ input = Each("idle") /\ at = Each(0) /\ loop = Each("idle")
    /\ sends = Each(0) /\ place = Each(0) /\ log = Each(<<>>)
    /\ ticks = Each(FALSE) /\ aborted = Each(FALSE)

Goto(c, label) == input' = [input EXCEPT ![c] = label]

(* yod_server_close on a connection: only the first call finds its evloop. *)
Closed(c) == IF event[c] = "armed" THEN "deleted" ELSE event[c]

-----------------------------------------------------------------------------
(* The owner's calls. *)

(* yod_shttpd_new: the last thing it does. *)
Ready ==
    /\ init = "new" /\ init' = "ready"
    /\ UNCHANGED <<manners, deaf, listVars, connVars, textVars, data,
                   sessVars, server, hreq, input, at, loop, log, tickVars>>

(* yod_shttpd_free: the sessions of the list and the root.  The server has been
   freed before, so no callback runs and no connection is left. *)
Free ==
    /\ init = "ready" /\ init' = "freed"
    /\ \A c \in Conns : input[c] = "idle" /\ loop[c] = "idle" /\ ~ticks[c]
    /\ alive' = [c \in Conns |-> IF c \in linked THEN "freed" ELSE alive[c]]
    /\ linked' = {}
    /\ event' = Each("closed") /\ works' = Each(0) /\ waiting' = Each(0)
    /\ edge' = Each(FALSE)
    /\ UNCHANGED <<manners, deaf, count, own, textVars, data, refs,
                   closed, server, hreq, input, at, loop, log, tickVars>>

-----------------------------------------------------------------------------
(* The client and the connection. *)

(* A client with manners sends a request when the last one was answered, if the
   connection is still open. *)
Polite(c, seg) ==
    /\ Head(seg) \in {"get", "ask"} /\ Range(Tail(seg)) \subseteq {"keep", "field"}
    /\ event[c] = "armed" /\ Len(log[c]) = sends[c]

(* What all clients together have sent, against MaxSends. *)
Sent == MapThenSumSet(LAMBDA d : sends[d], Conns)

Send(c, seg) ==
    /\ event[c] # "none" /\ init # "freed" /\ ~eof[c]
    /\ Sent < MaxSends
    /\ \/ manners[c] = "any"
       \/ manners[c] = "whole" /\ Polite(c, seg)
    /\ stream' = [stream EXCEPT ![c] = @ \o
           [i \in DOMAIN seg |-> [kind |-> seg[i], place |-> 2 * (place[c] + i),
                                  part |-> "all", cut |-> FALSE]]]
    /\ place' = [place EXCEPT ![c] = @ + Len(seg)]
    /\ sends' = [sends EXCEPT ![c] = @ + 1]
    /\ edge' = [edge EXCEPT ![c] = TRUE]
    /\ UNCHANGED <<manners, rootVars, listVars, event, own, works, waiting, eof,
                   data, sessVars, server, hreq, input, at, loop, log, tickVars>>

HangUp(c) ==
    /\ event[c] # "none" /\ init # "freed" /\ ~eof[c]
    /\ eof' = [eof EXCEPT ![c] = TRUE]
    /\ edge' = [edge EXCEPT ![c] = TRUE]
    /\ UNCHANGED <<manners, rootVars, listVars, event, own, works, waiting,
                   stream, sends, place, data, sessVars, server, hreq, input, at,
                   loop, log, tickVars>>

(* The read event: the loop of the connection queues an input work. *)
ReadEvent(c) ==
    /\ edge[c] /\ event[c] = "armed"
    /\ edge' = [edge EXCEPT ![c] = FALSE]
    /\ works' = [works EXCEPT ![c] = @ + 1]
    /\ UNCHANGED <<manners, rootVars, listVars, event, own, waiting, textVars,
                   data, sessVars, server, hreq, input, at, loop, log, tickVars>>

-----------------------------------------------------------------------------
(* CONNECT, TIMEOUT and CLOSE. *)

(* connect_cb after its tests: a blank session with one reference, linked and
   made the argument of the later callbacks. *)
NewSession(c) ==
    /\ alive' = [alive EXCEPT ![c] = "live"]
    /\ refs' = [refs EXCEPT ![c] = 1]
    /\ server' = [server EXCEPT ![c] = TRUE]
    /\ linked' = linked \cup {c} /\ count' = count + 1
    /\ own' = [own EXCEPT ![c] = TRUE]

(* The server registers the connection and calls CONNECT back with the root: a
   deaf daemon, one that is not ready and a failed malloc leave it the root. *)
Connect(c) ==
    /\ event[c] = "none" /\ init # "freed" /\ manners[c] # "none"
    /\ event' = [event EXCEPT ![c] = "armed"]
    /\ \/ init = "ready" /\ ~deaf /\ NewSession(c)
       \/ /\ init = "new" \/ deaf \/ MayFail
          /\ UNCHANGED <<alive, refs, server, listVars, own>>
    /\ UNCHANGED <<manners, rootVars, workVars, textVars, data, closed, hreq,
                   input, at, loop, log, tickVars>>

(* The ticker finds the connection open and its time past, whatever its loop and
   its workers do with it; the root has no connection and ignores a TIMEOUT. *)
TimeoutCall(c) ==
    /\ event[c] = "armed" /\ own[c] /\ \A d \in Conns : ~ticks[d]
    /\ ticks' = [ticks EXCEPT ![c] = TRUE]
    /\ UNCHANGED <<manners, rootVars, listVars, connVars, textVars, data,
                   sessVars, server, hreq, input, at, loop, log, aborted>>

(* handle_cb and timeout_cb: the ticker holds no reference to the session, and
   what it does with one that CLOSE has freed is undefined (the model ends). *)
Timeout(c) ==
    /\ ticks[c] /\ alive[c] = "live"
    /\ ticks' = [ticks EXCEPT ![c] = FALSE]
    /\ IF ~closed[c] /\ server[c]
       THEN /\ event' = [event EXCEPT ![c] = Closed(c)]
            /\ aborted' = [aborted EXCEPT ![c] = @ \/ event[c] = "armed"]
       ELSE UNCHANGED <<event, aborted>>
    /\ UNCHANGED <<manners, rootVars, listVars, own, workVars, textVars, data,
                   sessVars, server, hreq, input, at, loop, log>>

(* The peer resets the connection, and its loop closes it for the ERROR event. *)
Reset(c) ==
    /\ event[c] = "armed"
    /\ event' = [event EXCEPT ![c] = Closed(c)]
    /\ eof' = [eof EXCEPT ![c] = TRUE]
    /\ aborted' = [aborted EXCEPT ![c] = TRUE]
    /\ UNCHANGED <<manners, rootVars, listVars, own, workVars, stream, sends,
                   place, data, sessVars, server, hreq, input, at, loop, log,
                   ticks>>

(* Mutant of Unref: the session is unlinked and not counted out. *)
UnrefUncounted(c) ==
    /\ refs' = [refs EXCEPT ![c] = @ - 1]
    /\ IF refs[c] = 1
       THEN /\ alive' = [alive EXCEPT ![c] = "freed"]
            /\ linked' = linked \ {c} /\ UNCHANGED count
       ELSE UNCHANGED <<alive, listVars>>

(* close_cb gives a reference back; the last one frees the session. *)
Unref(c) ==
    /\ refs' = [refs EXCEPT ![c] = @ - 1]
    /\ IF refs[c] = 1
       THEN /\ alive' = [alive EXCEPT ![c] = "freed"]
            /\ linked' = linked \ {c} /\ count' = count - 1
       ELSE UNCHANGED <<alive, listVars>>

(* The CLOSE event with the root as its argument: whatever connection it was,
   the root is closed, and handle_cb takes no event of it any more. *)
CloseRoot(c) ==
    /\ event[c] = "deleted" /\ ~own[c]
    /\ deaf' = TRUE
    /\ event' = [event EXCEPT ![c] = "closed"]
    /\ UNCHANGED <<manners, init, listVars, own, workVars, textVars,
                   data, sessVars, server, hreq, input, at, loop, log, tickVars>>

CloseMark(c) ==
    /\ event[c] = "deleted" /\ own[c] /\ loop[c] = "idle" /\ alive[c] = "live"
    /\ closed' = [closed EXCEPT ![c] = TRUE]
    /\ loop' = [loop EXCEPT ![c] = "drop"]
    /\ UNCHANGED <<manners, rootVars, listVars, connVars, textVars, data, alive,
                   refs, server, hreq, input, at, log, tickVars>>

CloseDrop(c) ==
    /\ loop[c] = "drop" /\ alive[c] = "live"
    /\ Unref(c)
    /\ loop' = [loop EXCEPT ![c] = "idle"]
    /\ event' = [event EXCEPT ![c] = "closed"]
    /\ UNCHANGED <<manners, rootVars, own, workVars, textVars, data, closed,
                   server, hreq, input, at, log, tickVars>>

-----------------------------------------------------------------------------
(* The input work of the server and the INPUT callback in it. *)

(* Mutant of InputTest: a connection that the peer closed counts as closed. *)
InputTestEof(c) ==
    /\ works[c] > 0
    /\ works' = [works EXCEPT ![c] = @ - 1]
    /\ waiting' = [waiting EXCEPT ![c] =
                    IF event[c] = "armed" /\ ~eof[c] THEN @ + 1 ELSE @]
    /\ UNCHANGED <<manners, rootVars, listVars, event, own, edge, textVars, data,
                   sessVars, server, hreq, input, at, loop, log, tickVars>>

(* The work tests that the connection is not closed before it takes its lock. *)
InputTest(c) ==
    /\ works[c] > 0
    /\ works' = [works EXCEPT ![c] = @ - 1]
    /\ waiting' = [waiting EXCEPT ![c] = IF event[c] = "armed" THEN @ + 1 ELSE @]
    /\ UNCHANGED <<manners, rootVars, listVars, event, own, edge, textVars, data,
                   sessVars, server, hreq, input, at, loop, log, tickVars>>

InputLock(c) ==
    /\ waiting[c] > 0 /\ input[c] = "idle"
    /\ waiting' = [waiting EXCEPT ![c] = @ - 1]
    /\ Goto(c, "recv")
    /\ UNCHANGED <<manners, rootVars, listVars, event, own, works, edge, textVars,
                   data, sessVars, server, hreq, at, loop, log, tickVars>>

Part(line, part) == [line EXCEPT !.part = part]
FrontOf(line) == [line EXCEPT !.part = "front", !.place = @ - 1]

(* A line that came in two pieces is whole again when both are in the buffer. *)
Join(buffer, text) ==
    IF buffer # <<>> /\ Last(buffer).part = "front"
    THEN Front(buffer) \o <<Part(Head(text), "all")>> \o Tail(text)
    ELSE buffer \o text

(* recv returns lines, and maybe a piece of the next. *)
Receive(c, n, broken) ==
    /\ input[c] = "recv"
    /\ n + (IF broken THEN 1 ELSE 0) \in 1..Len(stream[c])
    /\ manners[c] = "whole" => n = Len(stream[c])
    /\ LET rest == SubSeq(stream[c], n + 1, Len(stream[c]))
           text == SubSeq(stream[c], 1, n)
       IN IF broken
          THEN /\ Head(rest).part = "all"
               /\ data' = [data EXCEPT ![c] = Join(@, Append(text, FrontOf(Head(rest))))]
               /\ stream' = [stream EXCEPT ![c] = <<Part(Head(rest), "back")>> \o Tail(rest)]
          ELSE /\ data' = [data EXCEPT ![c] = Join(@, text)]
               /\ stream' = [stream EXCEPT ![c] = rest]
    /\ Goto(c, "call")
    /\ UNCHANGED <<manners, rootVars, listVars, connVars, eof, sends, place,
                   sessVars, server, hreq, at, loop, log, tickVars>>

(* recv has nothing or fails (the loop has closed the descriptor): the work ends,
   and at the end of the stream it closes the connection. *)
ReceiveEnd(c) ==
    /\ input[c] = "recv" /\ (stream[c] = <<>> \/ event[c] = "closed")
    /\ event' = [event EXCEPT ![c] = IF eof[c] THEN Closed(c) ELSE @]
    /\ Goto(c, "idle")
    /\ UNCHANGED <<manners, rootVars, listVars, own, workVars, textVars, data,
                   sessVars, server, hreq, at, loop, log, tickVars>>

(* Mutant of Return: input_cb answers 0 whatever it has answered. *)
ReturnNothing(c) ==
    /\ input[c] = "return"
    /\ at' = [at EXCEPT ![c] = 0]
    /\ Goto(c, "recv")
    /\ UNCHANGED <<manners, rootVars, listVars, connVars, textVars, data,
                   sessVars, server, hreq, loop, log, tickVars>>

(* The server takes from its buffer what the callback answered: -1 takes all. *)
Return(c) ==
    /\ input[c] = "return"
    /\ data' = [data EXCEPT ![c] = SubSeq(@, at[c] + 1, Len(@))]
    /\ at' = [at EXCEPT ![c] = 0]
    /\ Goto(c, "recv")
    /\ UNCHANGED <<manners, rootVars, listVars, connVars, textVars, sessVars,
                   server, hreq, loop, log, tickVars>>

(* handle_cb and the tests of input_cb: the root and a session whose answer
   could not be sent take the text and drop it; a closed one leaves it.  The
   INPUT has no reference yet: what it does with a session that CLOSE has freed
   is undefined, here and where it takes the reference (the model ends). *)
InputRoot(c) ==
    /\ input[c] = "call" /\ ~own[c]
    /\ at' = [at EXCEPT ![c] = IF deaf THEN 0 ELSE Len(data[c])]
    /\ Goto(c, "return")
    /\ UNCHANGED <<manners, rootVars, listVars, connVars, textVars, data,
                   sessVars, server, hreq, loop, log, tickVars>>

InputCall(c) ==
    /\ input[c] = "call" /\ own[c] /\ alive[c] = "live"
    /\ IF server[c] /\ ~closed[c]
       THEN Goto(c, "hold") /\ UNCHANGED at
       ELSE /\ at' = [at EXCEPT ![c] = IF closed[c] THEN 0 ELSE Len(data[c])]
            /\ Goto(c, "return")
    /\ UNCHANGED <<manners, rootVars, listVars, connVars, textVars, data,
                   sessVars, server, hreq, loop, log, tickVars>>

(* Mutant of InputHold: no reference is taken. *)
InputUnheld(c) ==
    /\ input[c] = "hold" /\ alive[c] = "live"
    /\ Goto(c, "fetch")
    /\ UNCHANGED <<manners, rootVars, listVars, connVars, textVars, data,
                   sessVars, server, hreq, at, loop, log, tickVars>>

(* The session's own reference. *)
InputHold(c) ==
    /\ input[c] = "hold" /\ alive[c] = "live"
    /\ refs' = [refs EXCEPT ![c] = @ + 1]
    /\ Goto(c, "fetch")
    /\ UNCHANGED <<manners, rootVars, listVars, connVars, textVars, data, alive,
                   closed, server, hreq, at, loop, log, tickVars>>

(* yod_server_recv: a closed connection has no text. *)
InputFetch(c) ==
    /\ input[c] = "fetch" /\ alive[c] = "live"
    /\ Goto(c, IF event[c] = "armed" THEN "parse" ELSE "drop")
    /\ UNCHANGED <<manners, rootVars, listVars, connVars, textVars, data,
                   sessVars, server, hreq, at, loop, log, tickVars>>

InputDrop(c) ==
    /\ input[c] = "drop" /\ alive[c] = "live"
    /\ Unref(c)
    /\ Goto(c, "return")
    /\ UNCHANGED <<manners, rootVars, connVars, textVars, data, closed, server,
                   hreq, at, loop, log, tickVars>>

-----------------------------------------------------------------------------
(* yod_shttpd_request: one request is the text from here to the first cut. *)

Cuts(c) == {i \in DOMAIN data[c] : i > at[c] /\ data[c][i].cut}

(* The last line strtok_r finds. *)
LastLine(c) == IF Cuts(c) = {} THEN Len(data[c]) ELSE Min(Cuts(c))

(* strtok_r up to line n: only a line that has its end in the buffer is cut. *)
CutTo(c, n) ==
    [i \in DOMAIN data[c] |->
       [data[c][i] EXCEPT !.cut = @ \/ (i \in at[c] + 1..n /\ data[c][i].part # "front")]]

Found(c, kind, n) ==
    {i \in at[c] + 2..n : data[c][i].kind = kind /\ data[c][i].part # "back"
                          /\ (kind = "keep" => data[c][i].part = "all")}

PlaceOf(c, S, old) == IF S = {} THEN old ELSE data[c][Max(S)].place

(* The fields that lines up to n set; only a path with a '?' sets qstr. *)
Parsed(c, n) ==
    [hreq[c] EXCEPT !.req = data[c][at[c] + 1].place,
                    !.qstr = IF data[c][at[c] + 1].kind = "ask"
                             THEN data[c][at[c] + 1].place ELSE @,
                    !.keep = PlaceOf(c, Found(c, "keep", n), @),
                    !.field = PlaceOf(c, Found(c, "field", n), @)]

IsRequest(line) == line.kind \in {"get", "ask"} /\ line.part = "all"

ParseNone(c) ==
    /\ input[c] = "parse" /\ at[c] >= Len(data[c])
    /\ Goto(c, "drop")
    /\ UNCHANGED <<manners, rootVars, listVars, connVars, textVars, data,
                   sessVars, server, hreq, at, loop, log, tickVars>>

(* No request line, or not yet: the text stays for the next INPUT. *)
ParseBad(c) ==
    /\ input[c] = "parse" /\ at[c] < Len(data[c])
    /\ LET line == data[c][at[c] + 1] IN
       /\ ~IsRequest(line)
       /\ hreq' = [hreq EXCEPT ![c] = [@ EXCEPT !.code = 600, !.by = line.place]]
    /\ data' = [data EXCEPT ![c] = CutTo(c, at[c] + 1)]
    /\ Goto(c, "drop")
    /\ UNCHANGED <<manners, rootVars, listVars, connVars, textVars, sessVars,
                   server, at, loop, log, tickVars>>

(* A realloc fails at line n, of the path or of a field: what was set before
   stays set, and the text stays. *)
ParseFail(c, n) ==
    /\ MayFail /\ input[c] = "parse" /\ n \in at[c] + 1..LastLine(c)
    /\ IsRequest(data[c][at[c] + 1])
    /\ n > at[c] + 1 => n \in Found(c, "field", n)
    /\ hreq' = [hreq EXCEPT ![c] =
         [(IF n = at[c] + 1 THEN @ ELSE Parsed(c, n - 1)) EXCEPT
            !.code = 500, !.by = data[c][n].place]]
    /\ data' = [data EXCEPT ![c] = CutTo(c, n)]
    /\ Goto(c, "drop")
    /\ UNCHANGED <<manners, rootVars, listVars, connVars, textVars, sessVars,
                   server, at, loop, log, tickVars>>

Parse(c) ==
    /\ input[c] = "parse" /\ at[c] < Len(data[c]) /\ IsRequest(data[c][at[c] + 1])
    /\ hreq' = [hreq EXCEPT ![c] = Parsed(c, LastLine(c))]
    /\ data' = [data EXCEPT ![c] = CutTo(c, LastLine(c))]
    /\ at' = [at EXCEPT ![c] = LastLine(c)]
    /\ Goto(c, "respond")
    /\ UNCHANGED <<manners, rootVars, listVars, connVars, textVars, sessVars,
                   server, loop, log, tickVars>>

-----------------------------------------------------------------------------
(* yod_shttpd_response, write and clean. *)

(* The status: the function of a route (root->routes, an OrderedMap) sets one
   or leaves what is there; a file is found or not, and one that is no regular
   file leaves what is there. *)
Outcomes(c) ==
    LET codes == {200, 404, 999, hreq[c].code} \cup (IF MayFail THEN {500} ELSE {})
    IN {IF code = 0 THEN 200 ELSE code : code \in codes}

(* Mutant of Cleaned: clean forgets keep_alive. *)
CleanedButKeep(r) == [Blank EXCEPT !.keep = r.keep, !.qstr = r.qstr]

(* clean resets every field but the query string, which goes on pointing into
   the path. *)
Cleaned(r) == [Blank EXCEPT !.qstr = r.qstr]

(* write: the status must be in the table, its memory must be got; a send that
   fails closes the connection, whose text is lost, and disowns it. *)
Respond(c, code, outcome) ==
    /\ input[c] = "respond" /\ code \in Outcomes(c)
    /\ CASE outcome = "sent"   -> server[c] /\ code \in Known
         [] outcome = "unsent" -> ~server[c] \/ code \notin Known \/ MayFail
         [] outcome = "error"  -> server[c] /\ code \in Known /\ MayFail
    /\ server' = [server EXCEPT ![c] = @ /\ outcome # "error"]
    /\ stream' = [stream EXCEPT ![c] = IF outcome = "error" THEN <<>> ELSE @]
    /\ eof' = [eof EXCEPT ![c] = @ \/ outcome = "error"]
    /\ event' = [event EXCEPT ![c] =
         IF outcome = "error" \/ (hreq[c].keep = 0 /\ server[c]) THEN Closed(c)
         ELSE @]
    /\ log' = [log EXCEPT ![c] =
         Append(@, [req |-> hreq[c].req, upto |-> data[c][at[c]].place])]
    /\ hreq' = [hreq EXCEPT ![c] = Cleaned(@)]
    /\ Goto(c, "parse")
    /\ UNCHANGED <<manners, rootVars, listVars, own, workVars, sends, place, data,
                   sessVars, at, loop, tickVars>>

-----------------------------------------------------------------------------
Callback(c) ==
    \/ CloseRoot(c) \/ CloseMark(c) \/ CloseDrop(c)
    \/ InputTest(c) \/ InputLock(c) \/ ReceiveEnd(c) \/ Return(c)
    \/ \E n \in 0..Len(stream[c]), broken \in BOOLEAN : Receive(c, n, broken)
    \/ InputRoot(c) \/ InputCall(c) \/ InputHold(c) \/ InputFetch(c)
    \/ InputDrop(c)
    \/ ParseNone(c) \/ ParseBad(c) \/ Parse(c)
    \/ \E n \in DOMAIN data[c] : ParseFail(c, n)
    \/ \E code \in Codes, outcome \in {"sent", "unsent", "error"} :
          Respond(c, code, outcome)

Environment(c) ==
    \/ \E seg \in Segments : Send(c, seg)
    \/ HangUp(c) \/ TimeoutCall(c) \/ Timeout(c) \/ Reset(c)

Next ==
    \/ Ready \/ Free
    \/ \E c \in Conns : Connect(c) \/ ReadEvent(c) \/ Callback(c) \/ Environment(c)

Spec == Init /\ [][Next]_vars

(* The loops and the workers run; clients, ticker and owner need not. *)
FairSpec ==
    Spec /\ \A c \in Conns : WF_vars(ReadEvent(c)) /\ WF_vars(Callback(c))

-----------------------------------------------------------------------------
(* Properties. *)

(* Where an INPUT has its reference. *)
Holding == {"fetch", "parse", "respond", "drop"}

(* An INPUT that has its reference and the CLOSE never find the session freed,
   whenever the CLOSE comes: they end in either order, and the session goes with
   the last of them, after the connection's last event. *)
NoUseAfterFree ==
    \A c \in Conns : own[c] /\ alive[c] = "freed" =>
        /\ input[c] \notin Holding
        /\ loop[c] # "drop"
        /\ event[c] = "closed"

(* The daemon takes no event any more only after a connection that it refused a
   session (it was not ready, or malloc failed) was closed. *)
DeafAfterRefusal ==
    deaf => \E c \in Conns : event[c] = "closed" /\ alive[c] = "none"

(* The list, its counter and the references agree: a session is linked as long as
   it lives, and lives as long as its CLOSE is to come or an INPUT holds it; and only
   a connection without a session deafens the daemon. *)
SessionsAccounted ==
    /\ TypeOK
    /\ linked = {c \in Conns : alive[c] = "live"}
    /\ init # "freed" => count = Cardinality(linked)
    /\ \A c \in linked :
          refs[c] = (IF event[c] = "closed" THEN 0 ELSE 1)
                    + (IF input[c] \in Holding THEN 1 ELSE 0)
    /\ DeafAfterRefusal

AnsweredTo(c) == IF log[c] = <<>> THEN 0 ELSE Last(log[c]).upto

(* What a route's function and the answer are made of (path, fields, keep-alive,
   a status left by a line that was no request) came in after all the text that
   was answered before: nothing of a request is seen by a later one, but for the
   query string, which a path without a '?' leaves as an earlier request set it. *)
FreshRequest ==
    \A c \in Conns : \A f \in Fields :
        hreq[c][f] = 0 \/ hreq[c][f] > AnsweredTo(c)

(* However the text is broken, kept back, cut and joined again, a request line
   is answered at most once, in the order of the stream. *)
AnsweredOnce ==
    \A c \in Conns : \A i, j \in DOMAIN log[c] :
        i < j => log[c][i].upto < log[c][j].req

Served(c) == {log[c][i].req : i \in DOMAIN log[c]}

(* Each request of a client that sends them whole and one by one is given to
   yod_shttpd_response, whether the client hangs up after it or not, unless a
   realloc failed (such a request stays in the buffer and has no answer) or the
   connection was timed out or reset before. *)
RequestsServed ==
    \A c \in Conns :
        manners[c] = "whole" /\ own[c] /\ Cardinality(Served(c)) < sends[c]
            ~> \/ Cardinality(Served(c)) = sends[c] \/ hreq[c].code = 500
               \/ aborted[c] \/ init = "freed"
=============================================================================
