----------------------------- MODULE Pagination -----------------------------
(***************************************************************************)
(* The arithmetic of pages: the offset the page asks for                   *)
(* (static/js/app.js), the rows the server answers and the numbers it      *)
(* sends with them (pkg/api/api.go, pkg/client/client.go).  Rows are the   *)
(* numbers 1..rows in the order of the query.  Page leaves the numbers     *)
(* open; PagesCover says what they are good for.                           *)
(***************************************************************************)
EXTENDS Integers

\* getPaginationOffset.
Offset(page, limit) == (page - 1) * limit

\* Division of Go integers, which rounds towards zero.
Quotient(a, b) == IF a >= 0 THEN a \div b ELSE -((-a) \div b)

\* parseIntFormValue: the limit, whose default is not 0, has to be positive; an
\* offset may be any number.
Accepted(limit) == limit > 0

\* TableRows: LIMIT, and OFFSET when it is positive.
TableRows(rows, limit, offset) ==
    LET first == IF offset > 0 THEN offset ELSE 0
    IN  {k \in 1 .. rows : first < k /\ k <= first + limit}

\* Mutant of NumPages: the rows left over get no page of their own.
FullPages(rows, limit) == Quotient(rows, limit)

NumPages(rows, limit) ==
    Quotient(rows, limit) + IF Quotient(rows, limit) * limit < rows THEN 1 ELSE 0

PageNumber(limit, offset) == Quotient(offset, limit) + 1

\* Row k is on exactly one of the pages the server counts, every counted page
\* has a row, and the number that comes back is that of the page asked for.
PagesCover(rows, limit) ==
    /\ \A k \in 1 .. rows : \E p \in 1 .. NumPages(rows, limit) :
         k \in TableRows(rows, limit, Offset(p, limit))
    /\ \A p, q \in 1 .. NumPages(rows, limit) :
         TableRows(rows, limit, Offset(p, limit)) \cap
         TableRows(rows, limit, Offset(q, limit)) # {} => p = q
    /\ \A p \in 1 .. NumPages(rows, limit) :
         /\ TableRows(rows, limit, Offset(p, limit)) # {}
         /\ PageNumber(limit, Offset(p, limit)) = p
=============================================================================
