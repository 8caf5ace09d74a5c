----------------------------- MODULE MCStartup -----------------------------
(* Small instances of Startup for TLC.                                     *)
EXTENDS Startup, TLC

CONSTANTS b1, b2, u1, u2, c1, c2, c3, c4, r1, r2
=============================================================================
