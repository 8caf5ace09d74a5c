---------------------------- MODULE ApiInvariant ----------------------------
(***************************************************************************)
(* The inductive invariant behind the safety properties of Api: which      *)
(* local variables a request has set at each of its steps, and how the     *)
(* clients they name relate to the clients sessions use.                   *)
(***************************************************************************)
EXTENDS Api

\* The steps of a request that owns a client nobody else knows yet.
Building == {"test", "info", "readCurrent", "closeCurrent", "store"}

\* Which locals are set where.
LocalsOf(R) ==
    /\ R.pc \in {"dbCheck", "handle"} => {R.conn, R.cur, R.cl} = {NoClient}
    /\ R.pc \in Building => R.cl \in Clients
    /\ R.pc \in {"runQuery", "closeOld", "close"} => R.conn \in Clients
    /\ R.pc \in {"closeCurrent", "runAgain"} => R.cur \in Clients
    /\ R.pc \in Building /\ R.op = "switchdb" => R.conn \in Clients
    /\ R.pc \in {"close", "clear"} => ~Sessions
    /\ Sessions /\ R.pc = "handle" /\ R.op = "disconnect" => R.sid \in Sids

LocalsSet == \A r \in Requests : LocalsOf(req[r])

\* Each mode leaves the other mode's state alone.
ModesApart ==
    IF Sessions THEN DbClient = NoClient
    ELSE \A s \in Sids : sessions[s] = NoClient

\* A client under construction is open, in no session, and in no other local.
BuildingFresh ==
    \A r \in Requests : req[r].pc \in Building =>
        /\ client[req[r].cl].open
        /\ ~Installed(req[r].cl)
        /\ req[r].cl \notin {req[r].conn, req[r].cur}
        /\ \A q \in Requests \ {r} :
               req[r].cl \notin {req[q].conn, req[q].cur, req[q].cl}

\* A client a request read with DB(c) is in no session but the request's own.
StaysHome ==
    \A r \in Requests, s \in Sids :
        sessions[s] # NoClient /\ sessions[s] \in {req[r].conn, req[r].cur}
        => s = req[r].sid

\* By the time SwitchDb closes the client it started from, no session has it.
OldGone ==
    \A r \in Requests, s \in Sids :
        req[r].pc = "closeOld" => sessions[s] # req[r].conn

\* The same of the client of single-session mode.
OldForgotten ==
    \A r \in Requests : req[r].pc = "closeOld" => DbClient # req[r].conn

\* What a request is about to replace, or to forget, is closed: what it has read.
ReadShut ==
    \A r \in Requests :
        /\ req[r].pc = "store" /\ req[r].cur # NoClient => ~client[req[r].cur].open
        /\ req[r].pc = "clear" => req[r].conn # NoClient /\ ~client[req[r].conn].open

ApiInv ==
    /\ TypeOK
    /\ LocalsSet
    /\ ModesApart
    /\ BuildingFresh
    /\ StaysHome
    /\ OldGone
    /\ NoSharing
    /\ ClosedOnlyWhileReplaced
-----------------------------------------------------------------------------
(***************************************************************************)
(* What the properties about ids, backends and locks rest on besides.      *)
(***************************************************************************)

\* Which handlers have which steps.
StepsOf(R) ==
    /\ R.pc = "dbCheck" => R.op # "backend"
    /\ R.pc = "runQuery" => R.op \in QueryOps
    /\ R.pc = "rereadDB" => R.op \in QueryOps \cup {"databases"}
    /\ R.pc \in Building => R.op \in {"connect", "switchdb", "backend"}
    /\ R.pc = "closeOld" => R.op = "switchdb"
    /\ R.op = "backend" => Sessions

StepsApart == \A r \in Requests : StepsOf(req[r])

DrawsId(r) == req[r].pc \in Building /\ req[r].op = "backend"

\* A drawn id belongs to the one request that drew it until the browser is told.
DrawnApart ==
    /\ \A r \in Requests : DrawsId(r) =>
         /\ req[r].uuid \in Uuids
         /\ uuids[req[r].uuid] = "drawn"
         /\ HeaderOnConnect \/ req[r].sid = req[r].uuid
         /\ \A q \in Requests \ {r} : DrawsId(q) => req[q].uuid # req[r].uuid
    /\ \A r \in Requests : req[r].sid \in Uuids =>
         \/ uuids[req[r].sid] = "told"
         \/ DrawsId(r) /\ req[r].sid = req[r].uuid
    /\ ~HeaderOnConnect => \A r \in Requests :
         req[r].op = "backend" /\ req[r].pc = "handle" => req[r].sid = NoSid

\* No session has an id before the browser is told of it.
UntoldEmpty == \A u \in Uuids : uuids[u] # "told" => sessions[u] = NoClient

IdInv == ApiInv /\ StepsApart /\ DrawnApart /\ UntoldEmpty

\* A client of a backend is set up by the backend route, and a session whose
\* databases are being listed has none.
BackendsApart ==
    /\ \A r \in Requests :
         req[r].pc \in Building /\ client[req[r].cl].external => req[r].op = "backend"
    /\ \A r \in Requests : at(r, "rereadDB", {"databases"}) /\ DB(r) # NoClient
                           => ~client[DB(r)].external
    /\ ListNeverExternal

\* With --lock-session nothing but the backend route sets up a client, and of its
\* requests only those that brought an id of their own find one to replace.
OnlyBackendBuilds ==
    \A r \in Requests :
        /\ req[r].pc \in Building => req[r].op = "backend"
        /\ req[r].pc = "closeCurrent" => KeepsOwnId(r)
        /\ req[r].pc \notin {"closeOld", "close", "clear"}

-----------------------------------------------------------------------------
(***************************************************************************)
(* Requests of one session that come one at a time.                        *)
(***************************************************************************)

OneAtATime ==
    \A q, r \in Requests :
        q # r /\ Active(q) /\ Active(r) => ~SameSession(req[r].sid, q)

\* The client a handler read is still its session's, or the session has ended.
ReadsStay ==
    \A r \in Requests :
        /\ req[r].pc \in {"runQuery", "rereadDB", "close"} => DB(r) \in {req[r].conn, NoClient}
        /\ req[r].pc = "runAgain" => req[r].cur = req[r].conn
        /\ req[r].pc = "closeCurrent" => DB(r) \in {req[r].cur, NoClient}
        /\ req[r].pc \in {"store", "clear"} => DB(r) = NoClient \/ ~client[DB(r)].open

SerialInv == IdInv /\ OneAtATime /\ ReadsStay
=============================================================================
