----------------------------- MODULE MCTunnel -----------------------------
(* Small instances of Tunnel for TLC.                                      *)
EXTENDS Tunnel

CONSTANTS o1, o2, o3
=============================================================================
