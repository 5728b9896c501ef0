------------------------------- MODULE DbPool --------------------------------
(***************************************************************************)
(* dbconn.c: the list of MySQL links that threads open and give back, and  *)
(* the statement record that travels between a link and its holder.        *)
(*                                                                         *)
(* A link's own lock is held for one test or one assignment, so each such  *)
(* section is one step; root->lock is held along a scan of the list, and   *)
(* in one step by whoever adds a link.  MySQL is external: its calls work  *)
(* or fail.  Transactions and the decoding of rows are left out.           *)
(*                                                                         *)
(* What the callers owe the pool: a thread has one link at a time, closes  *)
(* it once, and cleans each result it was given before it closes the link  *)
(* and, when the link kept the record, before it sends the next query.     *)
(***************************************************************************)
EXTENDS Naturals, FiniteSets, Sequences, SequencesExt

CONSTANTS Clients,
          Links,      \* connections that malloc may return in yod_dbconn_open
          Recs,       \* statement records that malloc may return
          MaxFailed,  \* bound: selects that fail
          None

ASSUME PoolAssumption ==
    /\ IsFiniteSet(Clients) /\ IsFiniteSet(Recs)
    /\ MaxFailed \in Nat
    /\ None \notin Clients \cup Links \cup Recs

VARIABLES rootLock,
          list,      \* root->next and on; root->count is its length
          state,     \* per link: none, idle, hold
          pc,        \* in yod_dbconn_open: scan (with root->lock), grow
          at,        \* per client, the position of its scan
          held,      \* per client, the link yod_dbconn_open returned
          stmt,      \* per link, self->stmt
          live,      \* records that are allocated
          handle,    \* records whose MYSQL_STMT is open
          given,     \* per client, the record that yod_dbconn_select gave away
          result,    \* per client, the record that its link kept
          failed,    \* selects that failed (history)
          leaked,    \* MYSQL_STMTs that nothing points to any more (history)
          alive

linkVars == <<rootLock, list, state, pc, at, held>>
recVars  == <<stmt, live, handle, given, result, failed, leaked>>
vars == <<linkVars, recVars, alive>>

Init ==
    /\ rootLock = None /\ list = <<>> /\ alive = TRUE
    /\ state = [l \in Links |-> "none"]
    /\ pc = [c \in Clients |-> "idle"] /\ at = [c \in Clients |-> 1]
    /\ held = [c \in Clients |-> None]
    /\ stmt = [l \in Links |-> None]
    /\ live = {} /\ handle = {}
    /\ given = [c \in Clients |-> None] /\ result = [c \in Clients |-> None]
    /\ failed = 0 /\ leaked = 0

-----------------------------------------------------------------------------
(* yod_dbconn_open *)

OpenStart(c) ==
    /\ alive /\ pc[c] = "idle" /\ held[c] = None /\ rootLock = None
    /\ rootLock' = c
    /\ pc' = [pc EXCEPT ![c] = "scan"] /\ at' = [at EXCEPT ![c] = 1]
    /\ UNCHANGED <<list, state, held, recVars, alive>>

Scanning(c, s) ==
    /\ pc[c] = "scan" /\ at[c] <= Len(list)
    /\ state[list[at[c]]] = s

Skip(c) ==
    /\ Scanning(c, "hold")
    /\ at' = [at EXCEPT ![c] = @ + 1]
    /\ UNCHANGED <<rootLock, list, state, pc, held, recVars, alive>>

(* Mutant of Taken: the link is given out and stays IDLE. *)
TakenIdle(l) == state

Taken(l) == [state EXCEPT ![l] = "hold"]

(* An idle link that answers the ping. *)
Take(c) ==
    /\ Scanning(c, "idle")
    /\ state' = Taken(list[at[c]])
    /\ held' = [held EXCEPT ![c] = list[at[c]]]
    /\ rootLock' = None /\ pc' = [pc EXCEPT ![c] = "idle"]
    /\ UNCHANGED <<list, at, recVars, alive>>

AfterPing == "idle"

(* It does not answer: NULL, whatever other links there are. *)
PingFails(c) ==
    /\ Scanning(c, "idle")
    /\ rootLock' = None /\ pc' = [pc EXCEPT ![c] = AfterPing]
    /\ UNCHANGED <<list, state, at, held, recVars, alive>>

(* Every link was in use when the scan came by. *)
ScanEnds(c) ==
    /\ pc[c] = "scan" /\ at[c] > Len(list)
    /\ rootLock' = None /\ pc' = [pc EXCEPT ![c] = "grow"]
    /\ UNCHANGED <<list, state, at, held, recVars, alive>>

(* A new link that connects goes to the front of the list. *)
Grow(c, l) ==
    /\ pc[c] = "grow" /\ rootLock = None /\ state[l] = "none"
    /\ state' = [state EXCEPT ![l] = "hold"]
    /\ list' = <<l>> \o list
    /\ held' = [held EXCEPT ![c] = l]
    /\ pc' = [pc EXCEPT ![c] = "idle"]
    /\ UNCHANGED <<rootLock, at, recVars, alive>>

(* No memory, a bad URL, or no connection: NULL. *)
GrowFails(c) ==
    /\ pc[c] = "grow"
    /\ pc' = [pc EXCEPT ![c] = "idle"]
    /\ UNCHANGED <<rootLock, list, state, at, held, recVars, alive>>

Close(c) ==
    /\ held[c] # None /\ given[c] = None /\ result[c] = None
    /\ state' = [state EXCEPT ![held[c]] = "idle"]
    /\ held' = [held EXCEPT ![c] = None]
    /\ UNCHANGED <<rootLock, list, pc, at, recVars, alive>>

-----------------------------------------------------------------------------
(* Queries on the link a client holds, without any lock. *)

MayQuery(c) == held[c] # None /\ result[c] = None

(* _yod_dbconn_stmt_query uses the link's record or allocates one. *)
RecordOf(l) == IF stmt[l] # None THEN {stmt[l]} ELSE Recs \ live

(* mysql_stmt_init overwrites the pointer to a statement that was not closed. *)
Overwrites(r) == leaked' = IF r \in handle THEN leaked + 1 ELSE leaked

(* mysql_stmt_init opens the statement, and what fails after it leaves it open. *)
Executed(r) == handle \cup {r}

(* Mutant of HandlesAfter: a statement that was executed is not closed. *)
Unclean(r) == handle \cup {r}

(* _yod_dbconn_stmt_clean comes last, whether or not the query worked. *)
HandlesAfter(r) == handle \ {r}

(* yod_dbconn_execute, _insert, _update, _delete and _count. *)
Execute(c) ==
    /\ MayQuery(c)
    /\ \E r \in RecordOf(held[c]) :
           /\ stmt' = [stmt EXCEPT ![held[c]] = r]
           /\ live' = live \cup {r}
           /\ Overwrites(r)
           /\ handle' = HandlesAfter(r)
    /\ UNCHANGED <<linkVars, given, result, failed, alive>>

(* yod_dbconn_select works; with away the record goes to the caller for good. *)
Select(c, away) ==
    /\ MayQuery(c)
    /\ \E r \in RecordOf(held[c]) :
           /\ live' = live \cup {r} /\ handle' = Executed(r)
           /\ Overwrites(r)
           /\ \/ /\ away /\ given[c] = None
                 /\ given' = [given EXCEPT ![c] = r]
                 /\ stmt' = [stmt EXCEPT ![held[c]] = None]
                 /\ UNCHANGED result
              \/ /\ ~away
                 /\ result' = [result EXCEPT ![c] = r]
                 /\ stmt' = [stmt EXCEPT ![held[c]] = r]
                 /\ UNCHANGED given
    /\ UNCHANGED <<linkVars, failed, alive>>

(* It fails: the caller gets NULL, and the link keeps what was opened so far. *)
SelectFails(c) ==
    /\ MayQuery(c) /\ failed < MaxFailed
    /\ \E r \in RecordOf(held[c]) :
           /\ stmt' = [stmt EXCEPT ![held[c]] = r]
           /\ live' = live \cup {r}
           /\ Overwrites(r)
           /\ \/ handle' = Executed(r)
              \/ handle' = handle \ {r}    \* mysql_stmt_init failed
    /\ failed' = failed + 1
    /\ UNCHANGED <<linkVars, given, result, alive>>

(* yod_dbconn_clean *)
Clean(c) ==
    /\ \/ /\ given[c] # None
          /\ handle' = handle \ {given[c]} /\ live' = live \ {given[c]}
          /\ given' = [given EXCEPT ![c] = None]
          /\ UNCHANGED result
       \/ /\ result[c] # None
          /\ handle' = handle \ {result[c]}
          /\ result' = [result EXCEPT ![c] = None]
          /\ UNCHANGED <<live, given>>
    /\ UNCHANGED <<linkVars, stmt, failed, leaked, alive>>

-----------------------------------------------------------------------------
(* yod_dbconn_free, when nobody uses the pool: the statements that links still
   have are not closed. *)
Free ==
    /\ alive /\ \A c \in Clients : pc[c] = "idle" /\ held[c] = None
    /\ alive' = FALSE
    /\ list' = <<>> /\ state' = [l \in Links |-> "none"]
    /\ stmt' = [l \in Links |-> None]
    /\ live' = {} /\ handle' = {} /\ leaked' = leaked + Cardinality(handle)
    /\ UNCHANGED <<rootLock, pc, at, held, given, result, failed>>

Gone == ~alive /\ UNCHANGED vars

Next == \/ \E c \in Clients :
               \/ OpenStart(c) \/ Skip(c) \/ Take(c) \/ PingFails(c) \/ ScanEnds(c)
               \/ GrowFails(c) \/ (\E l \in Links : Grow(c, l)) \/ Close(c)
               \/ Execute(c) \/ (\E away \in BOOLEAN : Select(c, away))
               \/ SelectFails(c) \/ Clean(c)
        \/ Free \/ Gone

Spec == Init /\ [][Next]_vars

-----------------------------------------------------------------------------
(* What the pool promises. *)

(* Pointers to statement records lead to records that are allocated. *)
TypeOK ==
    LET Rec == live \cup {None} IN
    /\ rootLock \in Clients \cup {None}
    /\ list \in Seq(Links)
    /\ state \in [Links -> {"none", "idle", "hold"}]
    /\ pc \in [Clients -> {"idle", "scan", "grow"}]
    /\ at \in [Clients -> Nat]
    /\ held \in [Clients -> Links \cup {None}]
    /\ live \subseteq Recs /\ handle \subseteq live
    /\ stmt \in [Links -> Rec]
    /\ given \in [Clients -> Rec] /\ result \in [Clients -> Rec]
    /\ failed \in Nat /\ leaked \in Nat /\ alive \in BOOLEAN

Holders(l) == {c \in Clients : held[c] = l}

(* A scan that ends may be out of date when the link is added; the pool still
   never has more links than threads that use it. *)
PoolBounded ==
    Len(list) + Cardinality({c \in Clients : pc[c] = "grow"}) <= Cardinality(Clients)

(* Whatever opens, closes and scans come between one another, a link that is in use
   has one holder, one that is idle none, each is on the list once, and there are no
   more of them than threads that use them. *)
HeldByOne ==
    /\ TypeOK /\ PoolBounded
    /\ \A l \in Links : Cardinality(Holders(l)) = IF state[l] = "hold" THEN 1 ELSE 0
    /\ IsInjective(list) /\ ToSet(list) = {l \in Links : state[l] # "none"}
    /\ \A c \in Clients : pc[c] = "scan" => rootLock = c

(* A result that a client was given is open, and its own until it is cleaned; and
   each statement is closed, or a later call can still close it, save those of
   selects that failed. *)
StatementsAccounted ==
    /\ \A c \in Clients :
           /\ given[c] # None =>
                  /\ given[c] \in handle
                  /\ \A l \in Links : stmt[l] # given[c]
                  /\ \A d \in Clients \ {c} : given[d] # given[c]
           /\ result[c] # None => result[c] \in handle /\ stmt[held[c]] = result[c]
    /\ \A l, m \in Links : stmt[l] = stmt[m] => l = m \/ stmt[l] = None
    /\ LET wanted == {given[c] : c \in Clients} \cup {result[c] : c \in Clients}
       IN  leaked + Cardinality(handle \ wanted) <= failed
=============================================================================
