--------------------------- MODULE MCClientQuery ---------------------------
(* Small instances of ClientQuery for TLC.                                 *)
EXTENDS ClientQuery, TLC

CONSTANTS r1, r2, d1, d2

\* Request goroutines and connections are interchangeable.
Symmetry == Permutations(Requests) \cup Permutations(Conns)
=============================================================================
