------------------------------ MODULE MCEditor ------------------------------
(***************************************************************************)
(* Editor with a blank line, lines at the ends of UTF-8's one, two and     *)
(* three byte ranges, and a delimited one.                                 *)
(***************************************************************************)
EXTENDS Editor

MCLines == {<<>>, <<45, 45, 127, 128, 2047>>, <<2048, 59, 65535>>}
=============================================================================
