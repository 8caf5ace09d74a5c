------------------------------- MODULE Tunnel -------------------------------
(***************************************************************************)
(* SSH tunnels (pkg/client/tunnel.go, pkg/connection/port.go, and the part *)
(* of NewFromUrl that opens one): concurrent requests look for a free      *)
(* local port by probing, dial the SSH server, listen on the port, hand    *)
(* the listener to a goroutine that accepts connections, and are closed    *)
(* while it runs.  ClientLifecycle takes all of this as one step.  The     *)
(* connections that go through a tunnel are left out.                      *)
(***************************************************************************)
EXTENDS Integers

CONSTANTS
    Openers,        \* calls of NewFromUrl with SSH settings, and their tunnels
    portStart,
    portLimit,      \* the highest port tried is portStart + portLimit
    Nobody,         \* owner of a port nobody listens on
    Stranger        \* some other program listening

Ports == portStart .. portStart + portLimit

ASSUME TunnelAssumption ==
    /\ portStart \in Nat \ {0}
    /\ portLimit \in Nat
    /\ Nobody # Stranger
    /\ Openers \cap {Nobody, Stranger} = {}

VARIABLES
    owner,  \* who listens on each port of 127.0.0.1
    tun     \* per opener: where NewFromUrl is, and its Tunnel

vars == <<owner, tun>>

Owners == Openers \cup {Nobody, Stranger}

TunnelRecord ==
    [pc     : {"new", "probe", "dial", "listen", "start", "open",
               "ready", "failed", "panic", "nodatabase", "closing", "closed"},
     port   : Ports \cup {0},       \* the port being probed, then Tunnel.Port
     ssh    : BOOLEAN,              \* Tunnel.Client is there and open
     listen : BOOLEAN,              \* Tunnel.Listener is there and open
     loop   : {"none", "accept", "ended"}]   \* the goroutine running Start

NewTunnel ==
    [pc |-> "new", port |-> 0, ssh |-> FALSE, listen |-> FALSE, loop |-> "none"]

Goto(o, pc) == tun' = [tun EXCEPT ![o].pc = pc]

\* The ports once o's listener is closed, which does nothing the second time.
Freed(o) == IF tun[o].listen THEN [owner EXCEPT ![tun[o].port] = Nobody] ELSE owner

-----------------------------------------------------------------------------
Init ==
    /\ owner \in [Ports -> {Nobody, Stranger}]
    /\ tun = [o \in Openers |-> NewTunnel]

\* A call of NewFromUrl; what an earlier call left is garbage by now.
Begin(o) ==
    /\ tun[o].pc \in {"new", "failed", "panic", "nodatabase", "closed"}
    /\ tun[o].loop # "accept"
    /\ ~tun[o].ssh /\ ~tun[o].listen
    /\ tun' = [tun EXCEPT ![o] = [NewTunnel EXCEPT !.pc = "probe", !.port = portStart]]
    /\ UNCHANGED owner

\* FindAvailablePort's loop: a port that refuses the probe is free.  When none
\* is, NewTunnel returns no tunnel and NewFromUrl closes that nil tunnel.
Probe(o) ==
    /\ tun[o].pc = "probe"
    /\ \/ owner[tun[o].port] = Nobody /\ Goto(o, "dial")
       \/ /\ owner[tun[o].port] # Nobody
          /\ tun[o].port < portStart + portLimit
          /\ tun' = [tun EXCEPT ![o].port = @ + 1]
       \/ /\ owner[tun[o].port] # Nobody
          /\ tun[o].port = portStart + portLimit
          /\ Goto(o, "panic")
    /\ UNCHANGED owner

\* Configure, up to ssh.Dial: no key, no server, no access.
SshDial(o) ==
    /\ tun[o].pc = "dial"
    /\ \/ tun' = [tun EXCEPT ![o].pc = "listen", ![o].ssh = TRUE]
       \/ Goto(o, "failed")
    /\ UNCHANGED owner

\* Mutant of Listen: the SSH client is not closed when the port is taken.
ListenLeaks(o) ==
    /\ tun[o].pc = "listen"
    /\ \/ /\ owner[tun[o].port] = Nobody
          /\ owner' = [owner EXCEPT ![tun[o].port] = o]
          /\ tun' = [tun EXCEPT ![o].pc = "start", ![o].listen = TRUE]
       \/ /\ owner[tun[o].port] # Nobody
          /\ Goto(o, "failed")
          /\ UNCHANGED owner

\* Mutant of Listen: its error is ignored.
ListenIgnored(o) ==
    /\ tun[o].pc = "listen"
    /\ IF owner[tun[o].port] = Nobody
       THEN /\ owner' = [owner EXCEPT ![tun[o].port] = o]
            /\ tun' = [tun EXCEPT ![o].pc = "start", ![o].listen = TRUE]
       ELSE /\ UNCHANGED owner
            /\ Goto(o, "start")

\* Configure's net.Listen.  The port may have been taken since the probe: the
\* tunnel is closed.
Listen(o) ==
    /\ tun[o].pc = "listen"
    /\ \/ /\ owner[tun[o].port] = Nobody
          /\ owner' = [owner EXCEPT ![tun[o].port] = o]
          /\ tun' = [tun EXCEPT ![o].pc = "start", ![o].listen = TRUE]
       \/ /\ owner[tun[o].port] # Nobody
          /\ tun' = [tun EXCEPT ![o].pc = "failed", ![o].ssh = FALSE]
          /\ UNCHANGED owner

\* go tunnel.Start()
Start(o) ==
    /\ tun[o].pc = "start"
    /\ tun' = [tun EXCEPT ![o].pc = "open", ![o].loop = "accept"]
    /\ UNCHANGED owner

\* The rest of NewFromUrl.  A URL without a database name is an error, and one
\* that leaves the tunnel running: nobody has it to close it.
Open(o) ==
    /\ tun[o].pc = "open"
    /\ Goto(o, "ready") \/ Goto(o, "nodatabase")
    /\ UNCHANGED owner

-----------------------------------------------------------------------------
\* Tunnel.Close, called by Client.Close: the SSH client, then the listener.
CloseSsh(o) ==
    /\ tun[o].pc = "ready"
    /\ tun' = [tun EXCEPT ![o].pc = "closing", ![o].ssh = FALSE]
    /\ UNCHANGED owner

\* Mutant of CloseListener: only the SSH client is closed.
CloseSshOnly(o) ==
    /\ tun[o].pc = "closing"
    /\ Goto(o, "closed")
    /\ UNCHANGED owner

CloseListener(o) ==
    /\ tun[o].pc = "closing"
    /\ owner' = Freed(o)
    /\ tun' = [tun EXCEPT ![o].pc = "closed", ![o].listen = FALSE]

\* Accept fails, as it does once the listener is closed and may at any time
\* (too many open files): the loop returns, and its deferred Close closes both.
AcceptEnds(o) ==
    /\ tun[o].loop = "accept"
    /\ owner' = Freed(o)
    /\ tun' = [tun EXCEPT ![o].loop = "ended", ![o].listen = FALSE, ![o].ssh = FALSE]

\* Other programs come and go.
StrangerListens(p) ==
    /\ owner[p] \in {Nobody, Stranger}
    /\ owner' = [owner EXCEPT ![p] = IF @ = Nobody THEN Stranger ELSE Nobody]
    /\ UNCHANGED tun

NewFromUrl(o) == Begin(o) \/ Probe(o) \/ SshDial(o) \/ Listen(o) \/ Start(o) \/ Open(o)

Close(o) == CloseSsh(o) \/ CloseListener(o)

Next ==
    \/ \E o \in Openers : NewFromUrl(o) \/ Close(o) \/ AcceptEnds(o)
    \/ \E p \in Ports : StrangerListens(p)

Spec == Init /\ [][Next]_vars

\* The runtime keeps running the goroutine a tunnel has started, and a Close
\* that has begun.
FairSpec ==
    /\ Spec
    /\ \A o \in Openers : WF_vars(CloseListener(o)) /\ WF_vars(AcceptEnds(o) /\ ~tun[o].listen)

-----------------------------------------------------------------------------
(***************************************************************************)
(* The inductive invariant.                                                *)
(***************************************************************************)

TypeOK ==
    /\ owner \in [Ports -> Owners]
    /\ tun \in [Openers -> TunnelRecord]

\* A port is a tunnel's exactly as long as the tunnel's listener is open on it.
PortsAccounted ==
    \A o \in Openers, p \in Ports :
        owner[p] = o <=> tun[o].listen /\ tun[o].port = p

\* What a tunnel consists of at each step of NewFromUrl and Close.
StageOf(t) ==
    /\ t.pc # "new" => t.port \in Ports
    /\ t.pc \in {"new", "probe", "dial", "failed", "panic"} => ~t.ssh
    /\ t.pc \in {"new", "probe", "dial", "listen", "failed", "panic", "closed"} => ~t.listen
    /\ t.pc \in {"new", "probe", "dial", "listen", "start", "failed", "panic"} => t.loop = "none"
    /\ t.pc = "start" => t.listen
    /\ t.pc \in {"open", "ready", "nodatabase"} /\ t.loop = "accept" => t.listen

Stages == \A o \in Openers : StageOf(tun[o])

TunnelInv == TypeOK /\ PortsAccounted /\ Stages

-----------------------------------------------------------------------------
\* As long as its accept loop runs, the port a client dials is one its own
\* tunnel listens on, although the port was found free by a probe and taken
\* later: two requests that probe at once, or another program, never make a
\* client dial somebody else.
DialsOwnTunnel ==
    \A o \in Openers :
        tun[o].pc \in {"open", "ready"} /\ tun[o].loop = "accept"
        => owner[tun[o].port] = o

\* A NewFromUrl that found no port, had no SSH server, or lost its port to
\* somebody else leaves no SSH client, no listener and no accept loop.
FailedLeavesNothing ==
    \A o \in Openers :
        tun[o].pc \in {"failed", "panic"} =>
            ~tun[o].ssh /\ ~tun[o].listen /\ tun[o].loop # "accept"

\* A closed tunnel's accept loop ends.
LoopEnds ==
    \A o \in Openers : tun[o].pc = "closed" ~> tun[o].loop # "accept"
=============================================================================
