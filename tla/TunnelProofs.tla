---------------------------- MODULE TunnelProofs ----------------------------
(***************************************************************************)
(* TunnelInv is inductive, and what Tunnel promises of a client's port and *)
(* of a failed NewFromUrl follows from it, for any number of calls, any    *)
(* range of ports and any behaviour of the other programs.                 *)
(***************************************************************************)
EXTENDS Tunnel, TLAPS

LEMMA InitInv == Init => TunnelInv
BY TunnelAssumption
DEF Init, TunnelInv, TypeOK, PortsAccounted, Stages, StageOf, NewTunnel, TunnelRecord, Owners

\* A step of one opener that leaves the ports alone, and the port and the
\* listener of its tunnel.
LEMMA StayInv ==
    ASSUME TunnelInv, UNCHANGED owner,
           NEW o \in Openers, NEW t \in TunnelRecord,
           tun' = [tun EXCEPT ![o] = t],
           StageOf(t),
           t.listen <=> tun[o].listen,
           t.listen => t.port = tun[o].port
    PROVE  TunnelInv'
<1>1. TypeOK'
  BY DEF TunnelInv, TypeOK
<1>2. PortsAccounted'
  BY DEF TunnelInv, TypeOK, PortsAccounted
<1>3. Stages'
  BY DEF TunnelInv, TypeOK, Stages
<1> QED
  BY <1>1, <1>2, <1>3 DEF TunnelInv

\* A step that closes whatever o listens on.
LEMMA FreeInv ==
    ASSUME TunnelInv,
           NEW o \in Openers, NEW t \in TunnelRecord,
           owner' = Freed(o),
           tun' = [tun EXCEPT ![o] = t],
           StageOf(t), ~t.listen
    PROVE  TunnelInv'
<1> USE TunnelAssumption
<1>1. tun[o].listen => tun[o].port \in Ports /\ owner[tun[o].port] = o
  BY DEF TunnelInv, TypeOK, PortsAccounted, Stages, StageOf, TunnelRecord
<1>2. TypeOK'
  BY <1>1 DEF TunnelInv, TypeOK, Freed, Owners
<1>3. \A p \in Ports : owner'[p] = IF owner[p] = o THEN Nobody ELSE owner[p]
  BY <1>1 DEF TunnelInv, TypeOK, PortsAccounted, Freed
<1>4. PortsAccounted'
  BY <1>3 DEF TunnelInv, TypeOK, PortsAccounted, Owners
<1>5. Stages'
  BY DEF TunnelInv, TypeOK, Stages
<1> QED
  BY <1>2, <1>4, <1>5 DEF TunnelInv

LEMMA NextInv == TunnelInv /\ [Next]_vars => TunnelInv'
<1> SUFFICES ASSUME TunnelInv, [Next]_vars PROVE TunnelInv'
  OBVIOUS
<1> USE TunnelAssumption
<1>a. \A o \in Openers : tun[o] \in TunnelRecord /\ StageOf(tun[o])
  BY DEF TunnelInv, TypeOK, Stages
<1>1. ASSUME NEW o \in Openers, Begin(o) PROVE TunnelInv'
  <2> DEFINE t == [NewTunnel EXCEPT !.pc = "probe", !.port = portStart]
  <2>1. t \in TunnelRecord /\ StageOf(t) /\ ~t.listen
    <3>1. portStart \in Ports
      BY DEF Ports
    <3>2. /\ NewTunnel \in TunnelRecord
          /\ ~NewTunnel.ssh /\ ~NewTunnel.listen /\ NewTunnel.loop = "none"
      BY DEF NewTunnel, TunnelRecord
    <3> QED
      BY <3>1, <3>2 DEF TunnelRecord, StageOf
  <2>2. UNCHANGED owner /\ tun' = [tun EXCEPT ![o] = t] /\ ~tun[o].listen
    BY <1>1 DEF Begin
  <2> HIDE DEF t
  <2> QED
    BY <2>1, <2>2, StayInv
<1>2. ASSUME NEW o \in Openers, Probe(o) PROVE TunnelInv'
  <2>1. CASE Goto(o, "dial") \/ Goto(o, "panic")
    <3>1. PICK pc \in {"dial", "panic"} : tun' = [tun EXCEPT ![o].pc = pc]
      BY <2>1 DEF Goto
    <3> DEFINE t == [tun[o] EXCEPT !.pc = pc]
    <3>2. UNCHANGED owner /\ tun' = [tun EXCEPT ![o] = t]
      BY <1>2, <3>1 DEF Probe
    <3>3. t \in TunnelRecord /\ StageOf(t) /\ ~t.listen /\ ~tun[o].listen
      BY <1>2, <1>a DEF Probe, TunnelRecord, StageOf
    <3> HIDE DEF t
    <3> QED
      BY <3>2, <3>3, StayInv
  <2>2. CASE /\ tun[o].port < portStart + portLimit
             /\ tun' = [tun EXCEPT ![o].port = @ + 1]
    <3> DEFINE t == [tun[o] EXCEPT !.port = @ + 1]
    <3>1. UNCHANGED owner /\ tun' = [tun EXCEPT ![o] = t]
      BY <1>2, <2>2 DEF Probe
    <3>2. tun[o].port + 1 \in Ports
      BY <1>2, <1>a, <2>2 DEF Probe, StageOf, Ports
    <3>3. t \in TunnelRecord /\ StageOf(t) /\ ~t.listen /\ ~tun[o].listen
      BY <1>2, <1>a, <3>2 DEF Probe, TunnelRecord, StageOf
    <3> HIDE DEF t
    <3> QED
      BY <3>1, <3>3, StayInv
  <2> QED
    BY <1>2, <2>1, <2>2 DEF Probe
<1>3. ASSUME NEW o \in Openers, SshDial(o) PROVE TunnelInv'
  <2>1. CASE tun' = [tun EXCEPT ![o].pc = "listen", ![o].ssh = TRUE]
    <3> DEFINE t == [tun[o] EXCEPT !.pc = "listen", !.ssh = TRUE]
    <3>1. UNCHANGED owner /\ tun' = [tun EXCEPT ![o] = t]
      BY <1>3, <2>1 DEF SshDial
    <3>2. t \in TunnelRecord /\ StageOf(t) /\ ~t.listen /\ ~tun[o].listen
      BY <1>3, <1>a DEF SshDial, TunnelRecord, StageOf
    <3> HIDE DEF t
    <3> QED
      BY <3>1, <3>2, StayInv
  <2>2. CASE Goto(o, "failed")
    <3> DEFINE t == [tun[o] EXCEPT !.pc = "failed"]
    <3>1. UNCHANGED owner /\ tun' = [tun EXCEPT ![o] = t]
      BY <1>3, <2>2 DEF SshDial, Goto
    <3>2. t \in TunnelRecord /\ StageOf(t) /\ ~t.listen /\ ~tun[o].listen
      BY <1>3, <1>a DEF SshDial, TunnelRecord, StageOf
    <3> HIDE DEF t
    <3> QED
      BY <3>1, <3>2, StayInv
  <2> QED
    BY <1>3, <2>1, <2>2 DEF SshDial
<1>4. ASSUME NEW o \in Openers, Listen(o) PROVE TunnelInv'
  <2>1. CASE owner[tun[o].port] = Nobody
    <3> DEFINE t == [tun[o] EXCEPT !.pc = "start", !.listen = TRUE]
    <3>1. t \in TunnelRecord /\ StageOf(t) /\ t.listen /\ t.port = tun[o].port
      BY <1>4, <1>a DEF Listen, TunnelRecord, StageOf
    <3>2. /\ owner' = [owner EXCEPT ![t.port] = o]
          /\ tun' = [tun EXCEPT ![o] = t]
          /\ t.port \in Ports
          /\ ~tun[o].listen
      BY <1>4, <1>a, <2>1, <3>1 DEF Listen, StageOf
    <3>3. owner[t.port] = Nobody
      BY <2>1, <3>1
    <3> HIDE DEF t
    <3>4. TypeOK'
      BY <3>1, <3>2 DEF TunnelInv, TypeOK, Owners
    <3>5. PortsAccounted'
      BY <3>1, <3>2, <3>3 DEF TunnelInv, TypeOK, PortsAccounted
    <3>6. Stages'
      BY <3>1, <3>2 DEF TunnelInv, TypeOK, Stages
    <3> QED
      BY <3>4, <3>5, <3>6 DEF TunnelInv
  <2>2. CASE owner[tun[o].port] # Nobody
    <3> DEFINE t == [tun[o] EXCEPT !.pc = "failed", !.ssh = FALSE]
    <3>1. /\ UNCHANGED owner
          /\ tun' = [tun EXCEPT ![o] = t]
      BY <1>4, <1>a, <2>2 DEF Listen
    <3>2. t \in TunnelRecord /\ StageOf(t) /\ ~t.listen /\ ~tun[o].listen
      BY <1>4, <1>a DEF Listen, TunnelRecord, StageOf
    <3> HIDE DEF t
    <3> QED
      BY <3>1, <3>2, StayInv
  <2> QED
    BY <2>1, <2>2
<1>5. ASSUME NEW o \in Openers, Start(o) PROVE TunnelInv'
  <2> DEFINE t == [tun[o] EXCEPT !.pc = "open", !.loop = "accept"]
  <2>1. UNCHANGED owner /\ tun' = [tun EXCEPT ![o] = t]
    BY <1>5 DEF Start
  <2>2. /\ t \in TunnelRecord /\ StageOf(t)
        /\ (t.listen <=> tun[o].listen) /\ t.port = tun[o].port
    BY <1>5, <1>a DEF Start, TunnelRecord, StageOf
  <2> HIDE DEF t
  <2> QED
    BY <2>1, <2>2, StayInv
<1>6. ASSUME NEW o \in Openers, Open(o) PROVE TunnelInv'
  <2>1. PICK pc \in {"ready", "nodatabase"} : tun' = [tun EXCEPT ![o].pc = pc]
    BY <1>6 DEF Open, Goto
  <2> DEFINE t == [tun[o] EXCEPT !.pc = pc]
  <2>2. UNCHANGED owner /\ tun' = [tun EXCEPT ![o] = t]
    BY <1>6, <2>1 DEF Open
  <2>3. /\ t \in TunnelRecord /\ StageOf(t)
        /\ (t.listen <=> tun[o].listen) /\ t.port = tun[o].port
    BY <1>6, <1>a DEF Open, TunnelRecord, StageOf
  <2> HIDE DEF t
  <2> QED
    BY <2>2, <2>3, StayInv
<1>7. ASSUME NEW o \in Openers, CloseSsh(o) PROVE TunnelInv'
  <2> DEFINE t == [tun[o] EXCEPT !.pc = "closing", !.ssh = FALSE]
  <2>1. UNCHANGED owner /\ tun' = [tun EXCEPT ![o] = t]
    BY <1>7 DEF CloseSsh
  <2>2. /\ t \in TunnelRecord /\ StageOf(t)
        /\ (t.listen <=> tun[o].listen) /\ t.port = tun[o].port
    BY <1>7, <1>a DEF CloseSsh, TunnelRecord, StageOf
  <2> HIDE DEF t
  <2> QED
    BY <2>1, <2>2, StayInv
<1>8. ASSUME NEW o \in Openers, CloseListener(o) PROVE TunnelInv'
  <2> DEFINE t == [tun[o] EXCEPT !.pc = "closed", !.listen = FALSE]
  <2>1. owner' = Freed(o) /\ tun' = [tun EXCEPT ![o] = t]
    BY <1>8 DEF CloseListener
  <2>2. t \in TunnelRecord /\ StageOf(t) /\ ~t.listen
    BY <1>8, <1>a DEF CloseListener, TunnelRecord, StageOf
  <2> HIDE DEF t
  <2> QED
    BY <2>1, <2>2, FreeInv
<1>9. ASSUME NEW o \in Openers, AcceptEnds(o) PROVE TunnelInv'
  <2> DEFINE t == [tun[o] EXCEPT !.loop = "ended", !.listen = FALSE, !.ssh = FALSE]
  <2>1. owner' = Freed(o) /\ tun' = [tun EXCEPT ![o] = t]
    BY <1>9 DEF AcceptEnds
  <2>2. t \in TunnelRecord /\ StageOf(t) /\ ~t.listen
    BY <1>9, <1>a DEF AcceptEnds, TunnelRecord, StageOf
  <2> HIDE DEF t
  <2> QED
    BY <2>1, <2>2, FreeInv
<1>10. ASSUME NEW p \in Ports, StrangerListens(p) PROVE TunnelInv'
  <2>1. TypeOK'
    BY <1>10 DEF StrangerListens, TunnelInv, TypeOK, Owners
  <2>2. PortsAccounted'
    BY <1>10 DEF StrangerListens, TunnelInv, TypeOK, PortsAccounted
  <2>3. Stages'
    BY <1>10 DEF StrangerListens, TunnelInv, Stages
  <2> QED
    BY <2>1, <2>2, <2>3 DEF TunnelInv
<1>11. CASE UNCHANGED vars
  BY <1>11 DEF vars, TunnelInv, TypeOK, PortsAccounted, Stages
<1> QED
  BY <1>1, <1>2, <1>3, <1>4, <1>5, <1>6, <1>7, <1>8, <1>9, <1>10, <1>11
  DEF Next, NewFromUrl, Close

\* The invariant of tunnels and ports.
THEOREM TunnelInvariance == Spec => []TunnelInv
BY InitInv, NextInv, PTL DEF Spec

\* While its accept loop runs, the port a client dials is its own tunnel's,
\* whoever else probed or took it in the meantime.
THEOREM OwnTunnel == Spec => []DialsOwnTunnel
<1>1. TunnelInv => DialsOwnTunnel
  BY DEF TunnelInv, PortsAccounted, Stages, StageOf, DialsOwnTunnel
<1> QED
  BY <1>1, TunnelInvariance, PTL

\* A NewFromUrl that failed before its last check leaves nothing behind.
THEOREM NothingLeft == Spec => []FailedLeavesNothing
<1>1. TunnelInv => FailedLeavesNothing
  BY DEF TunnelInv, Stages, StageOf, FailedLeavesNothing
<1> QED
  BY <1>1, TunnelInvariance, PTL
=============================================================================
