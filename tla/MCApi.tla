------------------------------- MODULE MCApi -------------------------------
(* Small instances of Api for TLC.                                         *)
EXTENDS Api, TLC

CONSTANTS b1, b2, u1, u2, c1, c2, c3, c4, r1, r2

\* Objects, goroutines and browser-made ids are interchangeable.
Symmetry == Permutations(Clients) \cup Permutations(Requests) \cup Permutations(BrowserSids)
=============================================================================
