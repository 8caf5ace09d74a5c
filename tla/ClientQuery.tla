----------------------------- MODULE ClientQuery -----------------------------
(***************************************************************************)
(* Queries of concurrent requests on one client: the pool of connections   *)
(* behind client.db, read-only mode, and the query history                 *)
(* (pkg/client/client.go).                                                 *)
(*                                                                         *)
(* The pool is database/sql's: a statement takes an idle connection or     *)
(* opens one, and gives it back when it is done, with whatever mode and    *)
(* transaction block the statement left on it.  Read-only mode is the      *)
(* default of a connection's transactions, which a query that sets its     *)
(* transaction's own mode overrides; SetReadOnlyMode's SHOW and SET and    *)
(* the query itself are three statements, each on whatever connection it   *)
(* gets.                                                                   *)
(***************************************************************************)
EXTENDS Sequences, FiniteSets, Integers, Functions

CONSTANTS
    Queries,        \* the queries that users send
    Requests,       \* request goroutines, each running one query at a time
    Conns,          \* connections; one per request is as many as are needed
    NoConn,
    MaxIdle,        \* idle connections the pool keeps (database/sql: 2)
    ReadOnly,       \* --readonly, or a client of a read-only bookmark
    ConnsFail       \* the server may drop connections

\* Queries, by what the client and the server make of them.  "alter" writes with
\* no restricted keyword in it; "selectAlter" is two statements, and the rows of
\* the first are answered before the second runs; "setOff" turns the connection's
\* default_transaction_read_only off; "begin" and "end" open and close a block;
\* "beginWrite" asks for a read-write block (BEGIN READ WRITE, SET TRANSACTION
\* READ WRITE), and "writeBlock" sets the mode of its own transaction and writes
\* in it, in one query (BEGIN READ WRITE; ALTER ...; COMMIT).
AllQueries == {"select", "update", "alter", "selectAlter", "setOff",
               "begin", "end", "beginWrite", "writeBlock"}

ASSUME QueryAssumption ==
    /\ Queries \subseteq AllQueries
    /\ NoConn \notin Conns
    /\ MaxIdle \in Nat \ {0}
    /\ {ReadOnly, ConnsFail} \subseteq BOOLEAN

Writes     == {"update", "alter", "selectAlter", "writeBlock"}
WithRows   == {"select", "selectAlter"}
Overriding == {"beginWrite", "writeBlock"}
Restricted == {"update"}

VARIABLES
    conns,      \* the connections
    closed,     \* client.closed
    req,        \* per request: its next statement, query, connection, and the
                \* history it read
    History

\* History variables, which no step reads.
VARIABLES
    answered,   \* queries for which Query returned no error
    succeeded,  \* queries the server carried out to their end
    written,    \* the modes of the transactions that changed the database
    alone       \* so far no two requests overlapped and no idle connection was lost

ghosts == <<answered, succeeded, written, alone>>
vars == <<conns, closed, req, History, answered, succeeded, written, alone>>

\* The mode of a transaction: "overridden" is read-write because the query said
\* so, "readWrite" because it was the connection's default.
Modes  == {"readOnly", "readWrite", "overridden"}
Blocks == Modes \cup {"none", "aborted"}

ConnRecord == [state : {"none", "idle", "busy"}, readonly : BOOLEAN, block : Blocks]
Unused     == [state |-> "none", readonly |-> FALSE, block |-> "none"]

Steps == {"done", "show", "set", "run", "checkHistory", "append", "save"}

Statements == {"show", "set", "run"}

Idle == {c \in Conns : conns[c].state = "idle"}

Goto(r, pc) == req' = [req EXCEPT ![r].pc = pc, ![r].conn = NoConn]

\* The statement r runs on the pool, once it has a connection.
running(r, statement) == req[r].pc = statement /\ req[r].conn # NoConn

connOf(r) == conns[req[r].conn]

aborted(r) == connOf(r).block = "aborted"

\* Give r's connection back with its mode and block: the pool keeps at most
\* MaxIdle idle connections, and none when it is closed.
Release(r, readonly, block) ==
    conns' = [conns EXCEPT ![req[r].conn] =
                IF closed \/ Cardinality(Idle) >= MaxIdle THEN Unused
                ELSE [state |-> "idle", readonly |-> readonly, block |-> block]]

GiveBack(r) == Release(r, connOf(r).readonly, connOf(r).block)

-----------------------------------------------------------------------------
Init ==
    /\ conns = [c \in Conns |-> Unused]
    /\ closed = FALSE
    /\ req = [r \in Requests |-> [pc |-> "done", query |-> "select",
                                  conn |-> NoConn, seen |-> <<>>]]
    /\ History = <<>>
    /\ answered = {} /\ succeeded = {}
    /\ written = {}
    /\ alone = TRUE

\* Mutant of Query: read-only mode is forced on the client's first query only.
QueryForcesOnce(r) ==
    /\ req[r].pc = "done"
    /\ alone' = (alone /\ \A q \in Requests : req[q].pc = "done")
    /\ \E query \in Queries :
         req' = [req EXCEPT ![r].pc = IF ReadOnly /\ succeeded = {} THEN "show" ELSE "run",
                            ![r].query = query]
    /\ UNCHANGED <<conns, closed, History, answered, succeeded, written>>

\* Client.Query starts: in read-only mode query() first forces the mode.
Query(r) ==
    /\ req[r].pc = "done"
    /\ alone' = (alone /\ \A q \in Requests : req[q].pc = "done")
    /\ \E query \in Queries :
         req' = [req EXCEPT ![r].pc = IF ReadOnly THEN "show" ELSE "run",
                            ![r].query = query]
    /\ UNCHANGED <<conns, closed, History, answered, succeeded, written>>

\* db.Get, db.Exec and db.QueryxContext take an idle connection, or open one
\* when there is none.
Acquire(r) ==
    /\ req[r].pc \in Statements
    /\ req[r].conn = NoConn
    /\ ~closed
    /\ \E c \in Conns :
         /\ IF Idle # {} THEN c \in Idle ELSE conns[c].state = "none"
         /\ conns' = [conns EXCEPT ![c].state = "busy"]
         /\ req' = [req EXCEPT ![r].conn = c]
    /\ UNCHANGED <<closed, History, ghosts>>

\* No connection to be had: the pool is closed or the server does not answer.
AcquireFails(r) ==
    /\ req[r].pc \in Statements
    /\ req[r].conn = NoConn
    /\ closed \/ (ConnsFail /\ Idle = {})
    /\ Goto(r, "done")
    /\ UNCHANGED <<conns, closed, History, ghosts>>

-----------------------------------------------------------------------------
(***************************************************************************)
(* SetReadOnlyMode.                                                        *)
(***************************************************************************)

\* containsRestrictedKeywords, once the mode is set.
AfterMode(r) == Goto(r, IF req[r].query \in Restricted THEN "done" ELSE "run")

ShowMode(r) ==
    /\ running(r, "show")
    /\ ~aborted(r)
    /\ GiveBack(r)
    /\ IF connOf(r).readonly THEN AfterMode(r) ELSE Goto(r, "set")
    /\ UNCHANGED <<closed, History, ghosts>>

SetMode(r) ==
    /\ running(r, "set")
    /\ ~aborted(r)
    /\ Release(r, TRUE, connOf(r).block)
    /\ AfterMode(r)
    /\ UNCHANGED <<closed, History, ghosts>>

\* Mutant of ModeFails: an error of SHOW and SET is ignored.
ModeFailsIgnored(r) ==
    /\ req[r].pc \in {"show", "set"}
    /\ req[r].conn # NoConn
    /\ aborted(r)
    /\ GiveBack(r)
    /\ AfterMode(r)
    /\ UNCHANGED <<closed, History, ghosts>>

\* In a block that a failed statement aborted, SHOW and SET fail like every
\* statement but the block's end, and query() returns their error.
ModeFails(r) ==
    /\ req[r].pc \in {"show", "set"}
    /\ req[r].conn # NoConn
    /\ aborted(r)
    /\ GiveBack(r)
    /\ Goto(r, "done")
    /\ UNCHANGED <<closed, History, ghosts>>

-----------------------------------------------------------------------------
(***************************************************************************)
(* The query itself, on the connection it got.                             *)
(***************************************************************************)

\* The mode of the transaction the query runs in.
Mode(conn, query) ==
    CASE query \in Overriding -> "overridden"
      [] query \notin Overriding /\ conn.block \in Modes -> conn.block
      [] OTHER -> IF conn.readonly THEN "readOnly" ELSE "readWrite"

Permitted(conn, query) ==
    /\ conn.block = "aborted" => query = "end"
    /\ query \in Writes => Mode(conn, query) # "readOnly"

\* The block a query leaves when it is carried out.
BlockAfter(conn, query) ==
    CASE query = "beginWrite" -> "overridden"
      [] query = "begin" -> Mode(conn, query)
      [] query \in {"end", "writeBlock"} -> "none"
      [] OTHER -> conn.block

\* A block that is rolled back takes the changes of the default with it, to a
\* default it began with that the model does not keep.
DefaultsAfter(conn, query) ==
    CASE query = "setOff" -> {FALSE}
      [] query = "writeBlock" \/ (query = "end" /\ conn.block # "none") -> BOOLEAN
      [] OTHER -> {conn.readonly}

\* When a statement fails, the block it is in is aborted.
BlocksAfterFailure(conn, query) ==
    IF query = "end" THEN {"none"}
    ELSE IF conn.block # "none" THEN {"aborted"}
    ELSE IF query = "writeBlock" THEN {"none", "aborted"} ELSE {"none"}

DefaultsAfterFailure(conn, query) ==
    IF conn.block = "none" /\ query # "writeBlock" THEN {conn.readonly} ELSE BOOLEAN

RunQuery(r) ==
    /\ running(r, "run")
    /\ Permitted(connOf(r), req[r].query)
    /\ \E readonly \in DefaultsAfter(connOf(r), req[r].query) :
         Release(r, readonly, BlockAfter(connOf(r), req[r].query))
    /\ written' = written \cup
                    (IF req[r].query \in Writes THEN {Mode(connOf(r), req[r].query)} ELSE {})
    /\ answered' = answered \cup {req[r].query}
    /\ succeeded' = succeeded \cup {req[r].query}
    /\ Goto(r, "checkHistory")
    /\ UNCHANGED <<closed, History, alone>>

ReleaseFailed(r) ==
    \E readonly \in DefaultsAfterFailure(connOf(r), req[r].query),
       block \in BlocksAfterFailure(connOf(r), req[r].query) : Release(r, readonly, block)

\* Mutant of QueryFails: the history is kept for failed queries too.
QueryFailsRecorded(r) ==
    /\ running(r, "run")
    /\ ReleaseFailed(r)
    /\ Goto(r, "checkHistory")
    /\ UNCHANGED <<closed, History, ghosts>>

\* A query the server refuses, or that fails before its first row: any may.
QueryFails(r) ==
    /\ running(r, "run")
    /\ ReleaseFailed(r)
    /\ Goto(r, "done")
    /\ UNCHANGED <<closed, History, ghosts>>

\* The rows end: by a failure too, which the loop over rows.Next takes for the
\* last row, as nothing reads rows.Err().
QueryCutShort(r) ==
    /\ running(r, "run")
    /\ req[r].query \in WithRows
    /\ ~aborted(r)
    /\ ReleaseFailed(r)
    /\ answered' = answered \cup {req[r].query}
    /\ Goto(r, "checkHistory")
    /\ UNCHANGED <<closed, History, succeeded, written, alone>>

\* The connection of a statement goes: the server drops it, or the driver when
\* the query's time is over, which SHOW and SET have no limit for.  Rows that
\* came before are answered.
StatementLost(r) ==
    /\ req[r].pc \in Statements
    /\ req[r].conn # NoConn
    /\ ConnsFail \/ req[r].pc = "run"
    /\ conns' = [conns EXCEPT ![req[r].conn] = Unused]
    /\ \/ Goto(r, "done") /\ UNCHANGED answered
       \/ /\ req[r].pc = "run"
          /\ req[r].query \in WithRows
          /\ Goto(r, "checkHistory")
          /\ answered' = answered \cup {req[r].query}
    /\ UNCHANGED <<closed, History, succeeded, written, alone>>

\* The server drops an idle connection, which is replaced when it is next needed.
IdleLost(c) ==
    /\ ConnsFail
    /\ c \in Idle
    /\ conns' = [conns EXCEPT ![c] = Unused]
    /\ alone' = FALSE
    /\ UNCHANGED <<closed, req, History, answered, succeeded, written>>

-----------------------------------------------------------------------------
(***************************************************************************)
(* The history.                                                            *)
(***************************************************************************)

\* Mutant of hasHistoryRecord: only the last record is compared.
lastHistoryRecord(query) == 
    History # <<>> /\ History[Len(History)] = query

hasHistoryRecord(query) == \E i \in DOMAIN History : History[i] = query

\* The history is checked, read and replaced with no lock: what another request
\* stores in between is lost, or recorded twice.
CheckHistory(r) ==
    /\ req[r].pc = "checkHistory"
    /\ Goto(r, IF hasHistoryRecord(req[r].query) THEN "done" ELSE "append")
    /\ UNCHANGED <<conns, closed, History, ghosts>>

ReadHistory(r) ==
    /\ req[r].pc = "append"
    /\ req' = [req EXCEPT ![r].pc = "save", ![r].seen = History]
    /\ UNCHANGED <<conns, closed, History, ghosts>>

\* append writes its record past the slice it read: in an array of its own, or
\* into the array of a longer slice that was stored since.
OverwriteRecord(r) ==
    /\ req[r].pc = "save"
    /\ Len(History) > Len(req[r].seen)
    /\ History' = [History EXCEPT ![Len(req[r].seen) + 1] = req[r].query]
    /\ UNCHANGED <<conns, closed, req, ghosts>>

SaveHistory(r) ==
    /\ req[r].pc = "save"
    /\ \E array \in {req[r].seen, History} :
         /\ Len(array) >= Len(req[r].seen)
         /\ History' = Append(SubSeq(array, 1, Len(req[r].seen)), req[r].query)
    /\ req' = [req EXCEPT ![r].pc = "done", ![r].seen = <<>>]
    /\ UNCHANGED <<conns, closed, ghosts>>

\* Client.Close: idle connections go, busy ones when their statement is done.
CloseClient ==
    /\ ~closed
    /\ closed' = TRUE
    /\ conns' = [c \in Conns |-> IF c \in Idle THEN Unused ELSE conns[c]]
    /\ UNCHANGED <<req, History, ghosts>>

Statement(r) ==
    \/ Acquire(r) \/ AcquireFails(r) \/ ShowMode(r) \/ SetMode(r) \/ ModeFails(r)
    \/ RunQuery(r) \/ QueryFails(r) \/ QueryCutShort(r) \/ StatementLost(r)

Record(r) ==
    \/ CheckHistory(r) \/ ReadHistory(r) \/ OverwriteRecord(r) \/ SaveHistory(r)

Next ==
    \/ \E r \in Requests : Query(r) \/ Statement(r) \/ Record(r)
    \/ \E c \in Conns : IdleLost(c)
    \/ CloseClient

Spec == Init /\ [][Next]_vars

-----------------------------------------------------------------------------
(***************************************************************************)
(* The inductive invariant.                                                *)
(***************************************************************************)

RequestRecord ==
    [pc : Steps, query : AllQueries, conn : Conns \cup {NoConn}, seen : Seq(AllQueries)]

TypeOK ==
    /\ conns \in [Conns -> ConnRecord]
    /\ req \in [Requests -> RequestRecord]
    /\ History \in Seq(AllQueries)
    /\ answered \subseteq AllQueries /\ succeeded \subseteq AllQueries
    /\ written \subseteq Modes
    /\ {closed, alone} \subseteq BOOLEAN

\* A busy connection is busy with the statement of the one request that has it.
Busy ==
    /\ \A r \in Requests :
          req[r].conn # NoConn =>
              req[r].pc \in Statements /\ conns[req[r].conn].state = "busy"
    /\ \A c \in Conns :
          conns[c].state = "busy" => \E r \in Requests : req[r].conn = c
    /\ \A r, q \in Requests :
          req[r].conn = req[q].conn /\ req[r].conn # NoConn => r = q

\* While requests come one at a time and no connection is lost, the client has
\* one request and one connection at most.
OneRequest ==
    alone => \A r, q \in Requests : req[r].pc # "done" /\ req[q].pc # "done" => r = q

OneConn ==
    alone => \A c, d \in Conns :
                 conns[c].state # "none" /\ conns[d].state # "none" => c = d

\* A connection on which pc may run, once SHOW has answered: it is in no aborted
\* block, and the query itself finds its mode forced.
Ready(conn, pc) ==
    conn.block # "aborted" /\ (pc = "run" => conn.readonly)

ForcedOf(R) ==
    R.pc \in {"set", "run"} =>
        IF R.conn = NoConn
        THEN closed \/ \E c \in Conns : conns[c].state = "idle" /\ Ready(conns[c], R.pc)
        ELSE Ready(conns[R.conn], R.pc)

Forced ==
    ReadOnly /\ alone =>
        /\ written \subseteq {"overridden"}
        /\ \A c \in Conns : conns[c].block # "readWrite"
        /\ \A r \in Requests : ForcedOf(req[r])

ModeInv == TypeOK /\ Busy /\ OneRequest /\ OneConn /\ Forced

\* Whatever is in the history, in a slice read from it, or on its way into it,
\* was answered.
RecordedOf(R) ==
    /\ R.pc \in {"checkHistory", "append", "save"} => R.query \in answered
    /\ \A i \in DOMAIN R.seen : R.seen[i] \in answered

HistoryInv ==
    /\ TypeOK
    /\ \A i \in DOMAIN History : History[i] \in answered
    /\ \A r \in Requests : RecordedOf(req[r])

\* While requests come one at a time, the query on its way into the history is
\* not in it, and the slice it will be appended to is the history itself.
NewOf(R) ==
    /\ R.pc \in {"append", "save"} => ~hasHistoryRecord(R.query)
    /\ R.pc = "save" => R.seen = History

UniqueInv ==
    /\ ModeInv
    /\ alone => IsInjective(History) /\ \A r \in Requests : NewOf(req[r])

-----------------------------------------------------------------------------
\* In read-only mode, as long as the client works on one connection, whatever
\* changes the database runs in a transaction whose mode the user set: the default
\* is on for every query, after one that turned it off, in a block or out of it,
\* too.  SetReadOnlyMode's SHOW, its SET and the query land on one connection.
DefaultForced == ReadOnly /\ alone => written \subseteq {"overridden"}

\* The price of client.go:494: in read-only mode a block that a failed statement
\* aborted stays, as SHOW fails in it before the user's ROLLBACK is sent, until
\* the connection is lost or closed.
AbortedStays ==
    [][ReadOnly /\ alone' =>
         \A c \in Conns :
            conns[c].block = "aborted" =>
                conns'[c].block = "aborted" \/ conns'[c].state = "none"]_vars

\* However requests interleave and whatever records get lost, the history holds
\* only queries that were answered without an error (client.go:412): none that
\* the keywords or the server refused.
HistoryAnswered == \A i \in DOMAIN History : History[i] \in answered

\* client_test.go:638, "unique queries": no query is in the history twice while
\* requests come one at a time.
HistoryUnique == alone => IsInjective(History)

-----------------------------------------------------------------------------
(***************************************************************************)
(* What the comments of the code say, and what it does not keep.  Each has *)
(* a run in which TLC finds the counterexample.                            *)
(***************************************************************************)

\* client.go:411, "Save history records only if query did not fail": a query that
\* fails after its first row is saved.
HistorySucceeded == \A i \in DOMAIN History : History[i] \in succeeded

\* client.go:491, "We're going to force-set transaction mode on every query.
\* This is needed so that default mode could not be changed by user": the same as
\* DefaultForced when requests overlap.  The query may get a connection the SET
\* did not.
DefaultHolds == ReadOnly => written \subseteq {"overridden"}
=============================================================================
