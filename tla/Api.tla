-------------------------------- MODULE Api --------------------------------
(***************************************************************************)
(* The HTTP API of pgweb: concurrent requests, each a goroutine running    *)
(* the middleware and one handler, over the shared clients, the session    *)
(* map (--sessions) or the single DbClient, and the idle session worker    *)
(* (pkg/api/api.go, middleware.go, helpers.go, session_manager.go).        *)
(*                                                                         *)
(* A handler is cut into steps where it reads or writes shared state or    *)
(* waits for the network; what happens between two such points is one      *)
(* step.  A request is a record: pc is the step it is about to take and    *)
(* the other fields are the handler's local variables.                     *)
(***************************************************************************)
EXTENDS SessionManager

CONSTANTS
    Requests,       \* request goroutines; one runs many requests in turn
    Ops,            \* the handlers requests may call
    Sessions,       \* --sessions
    LockSession,    \* --lock-session
    HeaderOnConnect,\* GET /connect/:resource may already carry x-session-id
    SerialClients   \* nobody sends a request for a session before the
                    \* previous one for that session was answered

AllOps == {"connect", "switchdb", "disconnect", "backend",
           "query", "rows", "databases", "localQuery", "history"}

ASSUME ApiAssumption ==
    /\ {Sessions, LockSession, HeaderOnConnect, SerialClients} \subseteq BOOLEAN
    /\ Ops \subseteq AllOps
    /\ "backend" \in Ops => Sessions        \* ParseOptions requires --sessions
    /\ "localQuery" \in Ops => ~Sessions    \* configureLocalQueryStore

VARIABLES
    DbClient,   \* the client of single-session mode
    req,        \* the requests
    uuids       \* unused, drawn by a backend request, or told to the browser

vars == <<client, sessions, stale, DbClient, req, uuids>>

Answers == {"ok", "refused", "panic"}

Steps == {"dbCheck", "handle", "runQuery", "rereadDB", "runAgain",
          "test", "info", "readCurrent", "closeCurrent", "store",
          "closeOld", "close", "clear"}

RequestRecord ==
    [pc   : Answers \cup Steps,
     op   : AllOps,
     sid  : Sids \cup {NoSid},   \* what getSessionId answers for the request
     uuid : Uuids \cup {NoSid},  \* ConnectWithBackend's sid
     conn : MaybeClient,         \* the handler's first DB(c)
     cur  : MaybeClient,         \* a second DB(c): setClient's currentClient, or
                                 \* the client of the second query
     cl   : MaybeClient]         \* the client being set up

Answered(answer) ==
    [pc |-> answer, op |-> "query", sid |-> NoSid, uuid |-> NoSid,
     conn |-> NoClient, cur |-> NoClient, cl |-> NoClient]

Active(r) == req[r].pc \notin Answers

Move(r, next) == req' = [req EXCEPT ![r] = next]

Respond(r, answer) == Move(r, Answered(answer))

Goto(r, pc) == Move(r, [req[r] EXCEPT !.pc = pc])

at(r, pc, ops) == req[r].pc = pc /\ req[r].op \in ops

\* Mutant of DB: a request whose session has no client gets another session's.
DBOrAny(r) ==
    IF /\ req[r].sid # NoSid /\ Get(req[r].sid) = NoClient
       /\ \E s \in Sids : sessions[s] # NoClient
    THEN sessions[CHOOSE s \in Sids : sessions[s] # NoClient]
    ELSE Get(req[r].sid)

DB(r) == IF Sessions THEN Get(req[r].sid) ELSE DbClient

(***************************************************************************)
(* Which clients something still refers to.  A client nothing refers to    *)
(* and that is closed is garbage, and its object may be allocated again.   *)
(***************************************************************************)
Installed(c) == c = DbClient \/ \E s \in Sids : sessions[s] = c

Referenced(c) ==
    Installed(c) \/ \E r \in Requests : c \in {req[r].conn, req[r].cur, req[r].cl}

Allocatable == {c \in Clients : ~client[c].open /\ ~Referenced(c)}

Allocate(c, new) == client' = [client EXCEPT ![c] = new]

-----------------------------------------------------------------------------
(***************************************************************************)
(* Arrival and the middleware.                                             *)
(***************************************************************************)

allowedPaths == {"connect", "history"}

\* Ids a browser can send: its own, and those a redirect has told it.
KnownSids == BrowserSids \cup {u \in Uuids : uuids[u] = "told"} \cup {NoSid}

SameSession(sid, q) == ~Sessions \/ (sid \in Sids /\ req[q].sid = sid)

MayArrive(r, sid) ==
    SerialClients => \A q \in Requests \ {r} : Active(q) => ~SameSession(sid, q)

Arrive(r) ==
    /\ ~Active(r)
    /\ \E op \in Ops, sid \in IF Sessions THEN KnownSids ELSE {NoSid} :
         /\ op = "backend" /\ ~HeaderOnConnect => sid = NoSid
         /\ MayArrive(r, sid)
         /\ Move(r, [Answered("ok") EXCEPT
                       !.op = op, !.sid = sid,
                       !.pc = IF op \in allowedPaths \cup {"backend"}
                              THEN "handle" ELSE "dbCheck"])
    /\ UNCHANGED <<client, sessions, stale, DbClient, uuids>>

\* Mutant of DbCheck: the middleware lets every request through.
DbCheckNothing(r) ==
    /\ req[r].pc = "dbCheck"
    /\ Goto(r, "handle")
    /\ UNCHANGED <<client, sessions, stale, DbClient, uuids>>

\* dbCheckMiddleware: no session id, or no client, is a refusal.
DbCheck(r) ==
    /\ req[r].pc = "dbCheck"
    /\ IF DB(r) = NoClient THEN Respond(r, "refused") ELSE Goto(r, "handle")
    /\ UNCHANGED <<client, sessions, stale, DbClient, uuids>>

-----------------------------------------------------------------------------
(***************************************************************************)
(* Handlers that query.  "query" stands for every handler that reads DB(c) *)
(* once (RunQuery, GetObjects, GetSchemas, GetTable, GetTablesStats,       *)
(* DataExport, ...).  "rows" (GetTableRows), "databases" (GetDatabases) and*)
(* "localQuery" (RunLocalQuery) read it twice.  A nil client is            *)
(* dereferenced: the handler panics and gin's Recovery answers.            *)
(***************************************************************************)

QueryOps == {"query", "rows", "localQuery"}

StartQuery(r) ==
    /\ at(r, "handle", QueryOps)
    /\ IF DB(r) = NoClient THEN Respond(r, "panic")
       ELSE Move(r, [req[r] EXCEPT !.pc = "runQuery", !.conn = DB(r)])
    /\ UNCHANGED <<client, sessions, stale, DbClient, uuids>>

\* GetHistory reads the field History of whatever DB(c) returned.
GetHistory(r) ==
    /\ at(r, "handle", {"history"})
    /\ Respond(r, IF DB(r) = NoClient THEN "panic" ELSE "ok")
    /\ UNCHANGED <<client, sessions, stale, DbClient, uuids>>

\* Mutant of GetDatabases: the check of External is gone.
ListAnyClient(r) ==
    /\ at(r, "handle", {"databases"})
    /\ DB(r) # NoClient
    /\ Move(r, [req[r] EXCEPT !.pc = "rereadDB", !.conn = DB(r)])
    /\ UNCHANGED <<client, sessions, stale, DbClient, uuids>>

\* GetDatabases up to its second DB(c): backend clients may not be listed.
GetDatabases(r) ==
    /\ at(r, "handle", {"databases"})
    /\ \/ LockSession /\ Respond(r, "ok")
       \/ ~LockSession /\ DB(r) = NoClient /\ Respond(r, "panic")
       \/ /\ ~LockSession
          /\ DB(r) # NoClient
          /\ IF client[DB(r)].external THEN Respond(r, "refused")
             ELSE Move(r, [req[r] EXCEPT !.pc = "rereadDB", !.conn = DB(r)])
    /\ UNCHANGED <<client, sessions, stale, DbClient, uuids>>

\* The query returns: never a result from a pool that is closed or out of reach.
Answerable(c) == client[c].open /\ Reachable(c)

QueryDone(r) ==
    /\ req[r].pc = "runQuery"
    /\ TouchUsage(req[r].conn)
    /\ \/ Respond(r, "refused")
       \/ /\ Answerable(req[r].conn)
          /\ IF req[r].op = "query" THEN Respond(r, "ok") ELSE Goto(r, "rereadDB")
    /\ UNCHANGED <<sessions, stale, DbClient, uuids>>

\* The handler calls DB(c) again instead of using the client it already has.
RereadDB(r) ==
    /\ req[r].pc = "rereadDB"
    /\ IF DB(r) = NoClient THEN Respond(r, "panic")
       ELSE Move(r, [req[r] EXCEPT !.pc = "runAgain", !.cur = DB(r)])
    /\ UNCHANGED <<client, sessions, stale, DbClient, uuids>>

QueryAgainDone(r) ==
    /\ req[r].pc = "runAgain"
    /\ TouchUsage(req[r].cur)
    /\ \/ Respond(r, "refused")
       \/ Answerable(req[r].cur) /\ Respond(r, "ok")
    /\ UNCHANGED <<sessions, stale, DbClient, uuids>>

-----------------------------------------------------------------------------
(***************************************************************************)
(* Handlers that install a client: Connect, SwitchDb, ConnectWithBackend.  *)
(***************************************************************************)

\* NewTunnel finds no port and returns nil, which NewFromUrl closes.
NoTunnelPort(r) ==
    /\ req[r].op = "connect"
    /\ ~LockSession
    /\ ~DisableSSH
    /\ FindAvailablePort(PortsInUse) = {}

\* The early returns, before anything is opened or closed: errSessionLocked, or
\* missing parameters, an unknown bookmark, a bad URL, no credentials, no tunnel.
Refused(r) ==
    /\ at(r, "handle", {"connect", "switchdb", "backend", "disconnect"})
    /\ req[r].op = "disconnect" => LockSession
    /\ Respond(r, "refused") \/ (NoTunnelPort(r) /\ Respond(r, "panic"))
    /\ UNCHANGED <<client, sessions, stale, DbClient, uuids>>

ConnectWithURL ==
    IF BookmarksOnly THEN {} ELSE UNION {NewFromUrl(PortsInUse, NoPort, ssh) : ssh \in BOOLEAN}

Connect(r) ==
    /\ at(r, "handle", {"connect"})
    /\ ~LockSession
    /\ \E c \in Allocatable, new \in ConnectWithURL \cup NewFromBookmark(PortsInUse) :
         /\ Allocate(c, new)
         /\ Move(r, [req[r] EXCEPT !.pc = "test", !.cl = c])
    /\ UNCHANGED <<sessions, stale, DbClient, uuids>>

\* Mutant of SwitchDb: a locked session may switch.
SwitchDbUnlocked(r) ==
    /\ at(r, "handle", {"switchdb"})
    /\ DB(r) # NoClient
    /\ \E c \in Allocatable, new \in NewFromUrl(PortsInUse, client[DB(r)].dial, FALSE) :
         /\ Allocate(c, new)
         /\ Move(r, [req[r] EXCEPT !.pc = "test", !.conn = DB(r), !.cl = c])
    /\ UNCHANGED <<sessions, stale, DbClient, uuids>>

\* The new client gets the current one's connection string with another
\* database in it, and nothing else of it.
SwitchDb(r) ==
    /\ at(r, "handle", {"switchdb"})
    /\ ~LockSession
    /\ DB(r) # NoClient
    /\ ~client[DB(r)].external
    /\ \E c \in Allocatable, new \in NewFromUrl(PortsInUse, client[DB(r)].dial, FALSE) :
         /\ Allocate(c, new)
         /\ Move(r, [req[r] EXCEPT !.pc = "test", !.conn = DB(r), !.cl = c])
    /\ UNCHANGED <<sessions, stale, DbClient, uuids>>

\* A fresh id is added to the request's headers.  getSessionId returns the
\* first one, so an id the request came with stays the id of the request.
EffectiveSid(r, uuid) == IF req[r].sid = NoSid THEN uuid ELSE req[r].sid

\* Mutant of ConnectWithBackend: a pool that is already open is used again.
ConnectWithOpenPool(r) ==
    /\ at(r, "handle", {"backend"})
    /\ \E c \in {d \in Clients : client[d].open}, u \in Uuids :
         /\ uuids[u] = "unused"
         /\ uuids' = [uuids EXCEPT ![u] = "drawn"]
         /\ Move(r, [req[r] EXCEPT !.pc = "info", !.cl = c, !.uuid = u,
                                   !.sid = EffectiveSid(r, u)])
    /\ UNCHANGED <<client, sessions, stale, DbClient>>

ConnectWithBackend(r) ==
    /\ at(r, "handle", {"backend"})
    /\ \E c \in Allocatable, new \in NewFromUrl(PortsInUse, NoPort, FALSE), u \in Uuids :
         /\ uuids[u] = "unused"
         /\ uuids' = [uuids EXCEPT ![u] = "drawn"]
         /\ Allocate(c, [new EXCEPT !.external = TRUE])
         /\ Move(r, [req[r] EXCEPT !.pc = "info", !.cl = c, !.uuid = u,
                                   !.sid = EffectiveSid(r, u)])
    /\ UNCHANGED <<sessions, stale, DbClient>>

\* cl.Test() pings.  When it fails the handler returns without closing cl.
TestClient(r) ==
    /\ req[r].pc = "test"
    /\ \/ Respond(r, "refused")
       \/ Reachable(req[r].cl) /\ Goto(r, "info")
    /\ UNCHANGED <<client, sessions, stale, DbClient, uuids>>

\* cl.Info() queries.  When it fails the handler closes cl.
InfoClient(r) ==
    /\ req[r].pc = "info"
    /\ \/ Close(req[r].cl) /\ Respond(r, "refused")
       \/ /\ Reachable(req[r].cl)
          /\ TouchUsage(req[r].cl)
          /\ Goto(r, "readCurrent")
    /\ UNCHANGED <<sessions, stale, DbClient, uuids>>

\* setClient: the current client is read, then closed, then replaced.
ReadCurrent(r) ==
    /\ req[r].pc = "readCurrent"
    /\ Move(r, [req[r] EXCEPT !.cur = DB(r),
                  !.pc = IF DB(r) = NoClient THEN "store" ELSE "closeCurrent"])
    /\ UNCHANGED <<client, sessions, stale, DbClient, uuids>>

\* Mutant of CloseCurrent: the client that is replaced is not closed.
LeaveCurrentOpen(r) ==
    /\ req[r].pc = "closeCurrent"
    /\ Goto(r, "store")
    /\ UNCHANGED <<client, sessions, stale, DbClient, uuids>>

\* Mutant of CloseCurrent: the session is removed until the new client is stored.
RemoveCurrent(r) ==
    /\ req[r].pc = "closeCurrent"
    /\ Remove(req[r].sid)
    /\ Goto(r, "store")
    /\ UNCHANGED <<stale, DbClient, uuids>>

CloseCurrent(r) ==
    /\ req[r].pc = "closeCurrent"
    /\ Close(req[r].cur)
    /\ Goto(r, "store")
    /\ UNCHANGED <<sessions, stale, DbClient, uuids>>

\* Connect answers, SwitchDb still closes the client it started from, and
\* ConnectWithBackend redirects the browser to the id it drew.
AfterStore(r) ==
    IF req[r].op = "switchdb" THEN Goto(r, "closeOld") ELSE Respond(r, "ok")

TellUuid(r) ==
    uuids' = IF req[r].op = "backend" THEN [uuids EXCEPT ![req[r].uuid] = "told"]
             ELSE uuids

StoreDbClient(r) ==
    /\ req[r].pc = "store"
    /\ ~Sessions
    /\ DbClient' = req[r].cl
    /\ AfterStore(r)
    /\ UNCHANGED <<client, sessions, stale, uuids>>

StoreSession(r) ==
    /\ req[r].pc = "store"
    /\ Sessions
    /\ req[r].sid # NoSid
    /\ Add(req[r].sid, req[r].cl)
    /\ TellUuid(r)
    /\ AfterStore(r)
    /\ UNCHANGED <<client, stale, DbClient>>

\* errSessionRequired: the handler closes the client it could not install.
StoreRefused(r) ==
    /\ req[r].pc = "store"
    /\ Sessions
    /\ req[r].sid = NoSid
    /\ Close(req[r].cl)
    /\ Respond(r, "refused")
    /\ UNCHANGED <<sessions, stale, DbClient, uuids>>

\* Mutant of CloseOld: the current client is read again and closed.
CloseCurrentAgain(r) ==
    /\ req[r].pc = "closeOld"
    /\ DB(r) # NoClient
    /\ Close(DB(r))
    /\ Respond(r, "ok")
    /\ UNCHANGED <<sessions, stale, DbClient, uuids>>

\* The last line of SwitchDb: conn.Close().
CloseOld(r) ==
    /\ req[r].pc = "closeOld"
    /\ Close(req[r].conn)
    /\ Respond(r, "ok")
    /\ UNCHANGED <<sessions, stale, DbClient, uuids>>

-----------------------------------------------------------------------------
(***************************************************************************)
(* Disconnect, and the worker that removes idle sessions.                  *)
(***************************************************************************)

DisconnectSession(r) ==
    /\ at(r, "handle", {"disconnect"})
    /\ ~LockSession
    /\ Sessions
    /\ Remove(req[r].sid)
    /\ Respond(r, "ok")
    /\ UNCHANGED <<stale, DbClient, uuids>>

\* Single-session mode: read, close, forget.
DisconnectRead(r) ==
    /\ at(r, "handle", {"disconnect"})
    /\ ~LockSession
    /\ ~Sessions
    /\ IF DB(r) = NoClient THEN Respond(r, "refused")
       ELSE Move(r, [req[r] EXCEPT !.pc = "close", !.conn = DB(r)])
    /\ UNCHANGED <<client, sessions, stale, DbClient, uuids>>

\* Mutant of DisconnectClose: the client is forgotten and never closed.
DisconnectForgets(r) ==
    /\ req[r].pc = "close"
    /\ Goto(r, "clear")
    /\ UNCHANGED <<client, sessions, stale, DbClient, uuids>>

\* Closing the pool may report an error; the client is closed all the same.
DisconnectClose(r) ==
    /\ req[r].pc = "close"
    /\ Close(req[r].conn)
    /\ Respond(r, "refused") \/ Goto(r, "clear")
    /\ UNCHANGED <<sessions, stale, DbClient, uuids>>

DisconnectClear(r) ==
    /\ req[r].pc = "clear"
    /\ DbClient' = NoClient
    /\ Respond(r, "ok")
    /\ UNCHANGED <<client, sessions, stale, uuids>>

Worker ==
    /\ Sessions
    /\ CleanupStart \/ \E id \in Sids : CleanupRemove(id)
    /\ UNCHANGED <<DbClient, req, uuids>>

\* Time passes without a query of client c finishing.
TimePasses ==
    /\ IdleTimeoutOn
    /\ \E c \in Clients : GoIdle(c)
    /\ UNCHANGED <<sessions, stale, DbClient, req, uuids>>

-----------------------------------------------------------------------------
\* initClient: without --sessions a client may have been opened at start-up.
InitialClients ==
    IF Sessions THEN {} ELSE {Opened(NoPort, NoPort)} \cup NewFromBookmark({})

Init ==
    /\ sessions = [s \in Sids |-> NoClient]
    /\ stale = {}
    /\ uuids = [u \in Uuids |-> "unused"]
    /\ req = [r \in Requests |-> Answered("ok")]
    /\ \/ /\ DbClient = NoClient
          /\ client = [c \in Clients |-> Unallocated]
       \/ \E new \in InitialClients :
            /\ DbClient \in Clients
            /\ client = [c \in Clients |-> IF c = DbClient THEN new ELSE Unallocated]

QuerySteps(r) ==
    \/ StartQuery(r) \/ GetHistory(r) \/ GetDatabases(r)
    \/ QueryDone(r) \/ RereadDB(r) \/ QueryAgainDone(r)

SetUpSteps(r) ==
    \/ Refused(r) \/ Connect(r) \/ SwitchDb(r) \/ ConnectWithBackend(r)
    \/ TestClient(r) \/ InfoClient(r) \/ ReadCurrent(r) \/ CloseCurrent(r)
    \/ StoreDbClient(r) \/ StoreSession(r) \/ StoreRefused(r) \/ CloseOld(r)

DisconnectSteps(r) ==
    \/ DisconnectSession(r) \/ DisconnectRead(r) \/ DisconnectClose(r)
    \/ DisconnectClear(r)

Serve(r) == DbCheck(r) \/ QuerySteps(r) \/ SetUpSteps(r) \/ DisconnectSteps(r)

Next ==
    \/ \E r \in Requests : Arrive(r) \/ Serve(r)
    \/ Worker
    \/ TimePasses

Spec == Init /\ [][Next]_vars

-----------------------------------------------------------------------------
(***************************************************************************)
(* Properties.                                                             *)
(***************************************************************************)

\* Every variable holds a value of its kind.
TypeOK ==
    /\ client \in [Clients -> ClientRecord]
    /\ sessions \in [Sids -> MaybeClient]
    /\ stale \subseteq Sids
    /\ DbClient \in MaybeClient
    /\ uuids \in [Uuids -> {"unused", "drawn", "told"}]
    /\ req \in [Requests -> RequestRecord]

\* Two sessions never share a client, whatever requests and the worker do:
\* DbSessions.Add always gets a client that no other session was given.
NoSharing ==
    \A s, t \in Sids :
        s # t /\ sessions[s] # NoClient => sessions[s] # sessions[t]

\* The client of a session is only ever closed by a request of that session
\* or by the worker removing that session: a handler that kept the client it
\* read from DB(c) (SwitchDb, setClient) never hits another session with it.
ClosedOnlyByOwnSession ==
    [][\A s \in Sids :
          /\ sessions[s] # NoClient
          /\ client[sessions[s]].open
          /\ ~client'[sessions[s]].open
          => \/ s \in stale /\ s \notin stale'
             \/ \E r \in Requests : req[r].sid = s /\ req'[r] # req[r]]_vars

\* A session is left with a closed client only while a request that closed it
\* is about to store its own: setClient's close and Add are two steps, and
\* however they interleave with other handlers and the worker, no session
\* ends up bound to a client that answers "sql: database is closed".
ClosedOnlyWhileReplaced ==
    \A s \in Sids :
        sessions[s] # NoClient /\ ~client[sessions[s]].open
        => \E r \in Requests : req[r].pc = "store" /\ req[r].sid = s

\* GetDatabases checks External on one DB(c) and lists with another: the
\* client it lists with is never one a connect backend supplied.
ListNeverExternal ==
    \A r \in Requests :
        at(r, "runAgain", {"databases"}) => ~client[req[r].cur].external

\* The register of sessions in this state: what every session, or single-session
\* mode, is bound to, and which clients are open.
Slots == IF Sessions THEN Sids ELSE {NoSid}

Bound == IF Sessions THEN sessions ELSE [s \in {NoSid} |-> DbClient]

OpenClients == {c \in Clients : client[c].open}

Register == INSTANCE SessionRegister WITH bound <- Bound, opened <- OpenClients

\* Requests and worker together implement the register of sessions: a session
\* gets its next client only after the previous one is closed, and no client
\* is let go of while open.  The code keeps this when the requests of one
\* session come one at a time (SerialClients).
ImplementsRegister == Register!Spec

\* A client a handler set up is open when the session gets it, whatever other
\* requests closed or stored while Connect, SwitchDb and ConnectWithBackend were
\* testing it; and SwitchDb's last line, which closes the client it read before all
\* that (api.go:242), does not hit the one in use by then.
ConnectedIsOpen ==
    [][\A r \in Requests :
          /\ req[r].pc = "store" /\ req'[r].pc \in {"ok", "closeOld"} =>
               /\ client'[req[r].cl].open
               /\ req[r].cl = IF Sessions THEN sessions'[req[r].sid] ELSE DbClient'
          /\ req[r].pc = "closeOld" /\ req'[r].pc = "ok" =>
               \A c \in Clients : Installed(c)' /\ client[c].open => client'[c].open]_vars

\* Overlapping requests may leave an open client behind, that nobody closes (the
\* register says so), but only one of a kind: a handler that stores or clears
\* without having seen the client, which another request stored after the handler's
\* read (api.go:46, 296).  What setClient or Disconnect has read is closed by the
\* time the session lets go of it, whoever else closed, stored or cleared meanwhile.
ForgetsOnlyUnread ==
    [][\A c \in Clients :
          /\ Installed(c) /\ ~Installed(c)'
          /\ client[c].open /\ client'[c].open
          => \E r \in Requests :
               \/ /\ req[r].pc = "store" /\ req'[r].pc \in {"ok", "closeOld"}
                  /\ req[r].cur # c
               \/ /\ req[r].pc = "clear" /\ req'[r].pc = "ok"
                  /\ req[r].conn # c]_vars

\* A request for a connect backend that brought an id of its own, which then stays
\* the id of the request.
KeepsOwnId(r) == req[r].op = "backend" /\ req[r].sid # req[r].uuid

\* With --lock-session a session keeps the connection it has.  Only the worker, when
\* it is idle, takes it away, and of all requests only one to the connect route that
\* already carries the session's id: that route has no check (api.go:94) and relies
\* on the fresh id it draws.
LockedKeepsClient ==
    [][LockSession =>
         \A c \in Clients :
            /\ Installed(c) /\ client[c].open
            /\ ~(Installed(c)' /\ client'[c].open)
            => \/ \E s \in stale \ stale' : sessions[s] = c
               \/ \E r \in Requests :
                    KeepsOwnId(r) /\ req'[r] # req[r] /\ Get(req[r].sid) = c]_vars

\* The worker gets to every session that stays idle: such a session is
\* eventually removed, replaced, or used again.
IdleIsReclaimed ==
    \A s \in Sids, c \in Clients :
        []<>~(sessions[s] = c /\ client[c].idle)

-----------------------------------------------------------------------------
(***************************************************************************)
(* What the code's own comments and change log say, and what it does not   *)
(* keep.  Each has a run in which TLC finds the counterexample.            *)
(***************************************************************************)

\* CHANGELOG.md:55, "FIX Unclosed database sessions and tunnels": a client that
\* no session has and no handler works with is closed.  Connect and SwitchDb
\* return on a failed cl.Test() without cl.Close(), and of two overlapping
\* connects of one session the second drops the first one's client.
OpenIsReferenced == \A c \in Clients : client[c].open => Referenced(c)

\* api.go:220, "SwitchDb perform database switch for the client connection":
\* after a switch that succeeded the session's client can reach its server.
\* The new client dials the tunnel of the old one, which is then closed.
SwitchedIsReachable ==
    [][\A r \in Requests, c \in Clients :
          at(r, "closeOld", {"switchdb"}) /\ req'[r].pc = "ok" /\ c = req[r].cl
          => Reachable(c)']_vars
=============================================================================
