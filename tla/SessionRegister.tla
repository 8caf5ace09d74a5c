--------------------------- MODULE SessionRegister ---------------------------
(***************************************************************************)
(* What the sessions of pgweb promise, without requests, workers or        *)
(* mutexes: each session has at most one open connection at a time.  A     *)
(* connection is opened before a session gets it; a session gets one that  *)
(* nobody else has, and only once the one it had is shut; and it never     *)
(* lets go of a connection without shutting it.                            *)
(***************************************************************************)
CONSTANTS Slots, Clients, NoClient

VARIABLES
    bound,  \* the client each session uses, NoClient when not connected
    opened  \* the clients that are open

Unbound(c) == \A s \in Slots : bound[s] # c

Init ==
    /\ bound \in [Slots -> Clients \cup {NoClient}]
    /\ \A s, t \in Slots : s # t /\ bound[s] # NoClient => bound[s] # bound[t]
    /\ opened = {bound[s] : s \in Slots} \ {NoClient}

\* A connection is set up for some session, or given up before it has one.
SetUp(c) ==
    /\ Unbound(c)
    /\ opened' \in {opened \cup {c}, opened \ {c}}
    /\ UNCHANGED bound

\* A session that has no open connection gets one that is.
Bind(s, c) ==
    /\ bound[s] \notin opened
    /\ c \in opened
    /\ Unbound(c)
    /\ bound' = [bound EXCEPT ![s] = c]
    /\ UNCHANGED opened

\* The connection of a session is shut; the session keeps the shut connection,
\* or ends.
Shut(s) ==
    /\ bound[s] # NoClient
    /\ bound' \in {bound, [bound EXCEPT ![s] = NoClient]}
    /\ opened' = opened \ {bound[s]}

Next ==
    \/ \E c \in Clients : SetUp(c) \/ \E s \in Slots : Bind(s, c)
    \/ \E s \in Slots : Shut(s)

Spec == Init /\ [][Next]_<<bound, opened>>
=============================================================================
