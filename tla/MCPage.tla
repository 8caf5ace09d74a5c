------------------------------- MODULE MCPage -------------------------------
(* Page with a table and a function.                                       *)
EXTENDS Page

CONSTANTS t1, f1
=============================================================================
