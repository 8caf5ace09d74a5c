---------------------------- MODULE HandlerReads ----------------------------
(***************************************************************************)
(* Handlers never hold on to a lock between two looks at their session: the*)
(* middleware looks whether there is a client (middleware.go:41), the      *)
(* handler looks again, and some handlers look once more while they answer *)
(* (api.go:353, 425, 725).  This module watches requests that overlap and  *)
(* the worker, and remembers what they did between those looks.            *)
(***************************************************************************)
EXTENDS ApiInvariant

\* History variables, which no step reads.
VARIABLES
    replaced,   \* requests between two reads whose session was given a client
    ended       \* requests after the check whose session lost its client

readsVars == <<client, sessions, stale, DbClient, req, uuids, replaced, ended>>

\* Another request of the session of r stores its client.
StoredForIt(r) ==
    \E q \in Requests \ {r} :
        SameSession(req[r].sid, q) /\ (StoreDbClient(q) \/ StoreSession(q))

\* The worker, or another request of the session of r, ends it.
TakenFromIt(r) ==
    \/ CleanupRemove(req[r].sid)
    \/ \E q \in Requests \ {r} :
         SameSession(req[r].sid, q) /\ (DisconnectSession(q) \/ DisconnectClear(q))

BetweenReads(r) == req[r].pc \in {"runQuery", "rereadDB"}

AfterCheck(r) == BetweenReads(r) \/ req[r].pc = "handle"

ReadsInit == Init /\ replaced = {} /\ ended = {}

ReadsNext ==
    /\ Next
    /\ replaced' = {r \in Requests : BetweenReads(r) /\ (r \in replaced \/ StoredForIt(r))}
    /\ ended' = {r \in Requests : AfterCheck(r) /\ (r \in ended \/ TakenFromIt(r))}

ReadsSpec == ReadsInit /\ [][ReadsNext]_readsVars

\* RunPeriodicCleanup loops for as long as the process runs.
FairReadsSpec == ReadsSpec /\ WF_vars(Worker)

-----------------------------------------------------------------------------
\* A handler that reads DB(c) twice works on one client, unless another request of
\* its session stored a client in between: the page and the row count of
\* GetTableRows, the check and the list of GetDatabases, the permission and the run
\* of RunLocalQuery.  The worker, a disconnect and the requests of other sessions
\* cannot make the two differ, in whatever order their steps come.
ReadsDifferOnlyIfReplaced ==
    [][\A r \in Requests :
          req[r].pc = "rereadDB" /\ req'[r].pc = "runAgain" /\ req'[r].cur # req'[r].conn
          => r \in replaced]_readsVars

\* A handler behind dbCheckMiddleware meets a nil client only when the worker or a
\* disconnect of its own session ended the session since the check: a session that
\* is replaced, by however many connects and switches at once, has a client at
\* every moment in between.
PanicsOnlyIfEnded ==
    [][\A r \in Requests :
          /\ Active(r) /\ req'[r].pc = "panic"
          /\ req[r].op \notin allowedPaths
          => r \in ended]_readsVars

-----------------------------------------------------------------------------
\* What makes these inductive.
ReadsWatched ==
    \A r \in Requests :
        /\ BetweenReads(r) => DB(r) \in {req[r].conn, NoClient} \/ r \in replaced
        /\ AfterCheck(r) /\ req[r].op \notin allowedPaths \cup {"backend"} =>
             DB(r) # NoClient \/ r \in ended

ReadsInv == IdInv /\ ReadsWatched
=============================================================================
