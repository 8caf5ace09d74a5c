--------------------------- MODULE SessionManager ---------------------------
(***************************************************************************)
(* The map from session id to client behind --sessions and the worker that *)
(* removes idle sessions (pkg/api/session_manager.go).  Every method holds *)
(* the manager's mutex from its first line to its last, so each one is a   *)
(* single step; Cleanup holds it once for the snapshot of stale ids and    *)
(* once more for every removal, so it is several.                          *)
(***************************************************************************)
EXTENDS ClientLifecycle

CONSTANTS
    BrowserSids,    \* ids browsers make up for themselves
    Uuids,          \* ids ConnectWithBackend draws
    NoSid,          \* a request that carries no id
    IdleTimeoutOn   \* the cleanup worker runs (off with --no-idle-timeout)

Sids == BrowserSids \cup Uuids

ASSUME SessionAssumption ==
    /\ BrowserSids \cap Uuids = {}
    /\ NoSid \notin Sids
    /\ IdleTimeoutOn \in BOOLEAN

VARIABLES
    sessions,   \* SessionManager.sessions, NoClient where the map has no key
    stale       \* ids the running Cleanup has still to remove

managerVars == <<sessions, stale>>

Get(id) == IF id \in Sids THEN sessions[id] ELSE NoClient

Add(id, c) == sessions' = [sessions EXCEPT ![id] = c]

\* Mutant of Remove: the client is closed and its key stays in the map.
RemoveKeepsKey(id) ==
    /\ UNCHANGED sessions
    /\ IF sessions[id] = NoClient THEN UNCHANGED client ELSE Close(sessions[id])

\* Remove: close the client and drop the key, both under the mutex.
Remove(id) ==
    /\ sessions' = [sessions EXCEPT ![id] = NoClient]
    /\ IF sessions[id] = NoClient THEN UNCHANGED client ELSE Close(sessions[id])

staleSessions == {id \in Sids : sessions[id] # NoClient /\ client[sessions[id]].idle}

\* A tick of RunPeriodicCleanup that finds something: the snapshot is taken.
CleanupStart ==
    /\ IdleTimeoutOn
    /\ stale = {}
    /\ staleSessions # {}
    /\ stale' = staleSessions
    /\ UNCHANGED <<client, sessions>>

\* One turn of Cleanup's loop.  The id is removed whatever became of it since
\* the snapshot.
CleanupRemove(id) ==
    /\ id \in stale
    /\ Remove(id)
    /\ stale' = stale \ {id}
=============================================================================
