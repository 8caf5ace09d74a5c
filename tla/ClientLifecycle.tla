--------------------------- MODULE ClientLifecycle ---------------------------
(***************************************************************************)
(* The life of a *client.Client: a pool of database connections, reached   *)
(* directly or through an SSH tunnel that the client owns                  *)
(* (pkg/client/client.go, pkg/client/tunnel.go).  Clients are objects on   *)
(* the heap: an element of Clients stands for one such object and may be   *)
(* taken again once it is closed and nothing refers to it.                 *)
(*                                                                         *)
(* Queries, history and read-only mode inside one client are the subject   *)
(* of ClientQuery; the steps of opening a tunnel are the subject of Tunnel.*)
(***************************************************************************)
EXTENDS Integers

CONSTANTS
    Clients,          \* the client objects
    NoClient,         \* nil
    Ports,            \* local ports a tunnel may listen on (portStart .. +portLimit)
    NoPort,           \* no tunnel, or a connection string that names no tunnel port
    DisableSSH,       \* --no-ssh
    BookmarksOnly     \* --bookmarks-only

ASSUME ClientAssumption ==
    /\ NoClient \notin Clients
    /\ Ports \subseteq Int
    /\ NoPort \notin Ports
    /\ {DisableSSH, BookmarksOnly} \subseteq BOOLEAN

VARIABLE client

MaybeClient == Clients \cup {NoClient}

ClientRecord ==
    [open     : BOOLEAN,                \* ~closed
     external : BOOLEAN,                \* credentials came from a connect backend
     idle     : BOOLEAN,                \* now - lastQueryTime > idleTimeout
     tunnel   : Ports \cup {NoPort},    \* the port its own tunnel listens on
     dial     : Ports \cup {NoPort}]    \* the tunnel port its ConnectionString names

Opened(tunnel, dial) ==
    [open |-> TRUE, external |-> FALSE, idle |-> FALSE,
     tunnel |-> tunnel, dial |-> dial]

\* An object not allocated yet, which no step distinguishes from a closed client.
Unallocated == [Opened(NoPort, NoPort) EXCEPT !.open = FALSE]

PortsInUse == {client[d].tunnel : d \in Clients}

\* Mutant of FindAvailablePort: one above the highest port in use, without the
\* limit of the range.
NextPortUp(used) ==
    IF used \cap Ports = {} THEN {p \in Ports : \A q \in Ports : p <= q}
    ELSE {p + 1 : p \in {q \in used \cap Ports : \A x \in used \cap Ports : x <= q}}

\* FindAvailablePort: the lowest port nobody listens on, none when all are taken.
FindAvailablePort(used) == {p \in Ports \ used : \A q \in Ports \ used : p <= q}

(***************************************************************************)
(* What the constructors may return while the ports used are taken; the    *)
(* empty set when they can only fail.  Every constructor may also fail:    *)
(* each of their callers has that branch.  The connection string given to  *)
(* NewFromUrl names port dial, and is rewritten to 127.0.0.1:port when the *)
(* client opens its own tunnel.                                            *)
(***************************************************************************)
NewFromUrl(used, dial, ssh) ==
    IF ~ssh THEN {Opened(NoPort, dial)}
    ELSE {Opened(p, p) : p \in IF DisableSSH THEN {} ELSE FindAvailablePort(used)}

NewFromBookmark(used) ==
    UNION {NewFromUrl(used, NoPort, ssh) : ssh \in BOOLEAN}

\* The server answers on the address the client dials: it is a direct address,
\* or the port of a tunnel that still runs.
Reachable(c) == client[c].dial \in {NoPort} \cup PortsInUse

\* Client.Close: stops the tunnel and the pool; closing twice does nothing.
Closed(c) == [client EXCEPT ![c].open = FALSE, ![c].tunnel = NoPort]

Close(c) == client' = Closed(c)

\* Client.query, when it returns: the last usage time is now, on success or not.
TouchUsage(c) == client' = [client EXCEPT ![c].idle = FALSE]

\* The client's last query is now further away than the idle timeout.
GoIdle(c) ==
    /\ client[c].open
    /\ ~client[c].idle
    /\ client' = [client EXCEPT ![c].idle = TRUE]
=============================================================================
