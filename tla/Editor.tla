------------------------------- MODULE Editor -------------------------------
(***************************************************************************)
(* The query tab's editor (static/js/app.js): which of the statements in   *)
(* it a button runs, found by a scan over its lines; how that query gets   *)
(* to the server; the draft kept in localStorage; the local queries loaded *)
(* over it.  JavaScript is single-threaded: nothing happens during a scan. *)
(*                                                                         *)
(* Rows count from 1, and a pair of rows <<a, b>> stands for the rows from *)
(* a to b - 1 with their line ends, as Ace's ranges at column 0 do.        *)
(* Columns are left out: a selection is of whole rows.                     *)
(***************************************************************************)
EXTENDS QueryCodec

CONSTANTS
    Lines,      \* what a line of the editor may hold; no surrogates
    MaxLines,   \* bound: lines in the editor
    MaxCalls    \* bound: calls for a local query pending at once

ASSUME LinesAssumption == Lines \subseteq Seq(Chars \ {Newline}) /\ <<>> \in Lines

ASSUME BoundsAssumption == MaxLines \in Nat \ {0} /\ MaxCalls \in Nat

VARIABLES
    text,       \* the lines of the editor, at least one
    cursor,     \* the row of the cursor
    selection,  \* the rows of the selection, or NoRows
    saved,      \* pgweb_query in localStorage
    timer,      \* writeQueryTimeout is running
    scan,       \* the loop of getSubquery, or NoScan
    request,    \* the call that the last step sent, or NoRequest
    calls,      \* calls for a local query that are not answered
    ran         \* the rows last run, if nothing was done since, or NoRows

vars == <<text, cursor, selection, saved, timer, scan, request, calls, ran>>

Texts == UNION {[1 .. n -> Lines] : n \in 1 .. MaxLines}
Empty == << <<>> >>
Ops   == {"run", "explain", "export"}

NoRows    == <<0, 0>>
NoScan    == [row |-> 0, op |-> "none"]
NoRequest == [op |-> "none", query |-> <<>>]

IsBlank(line) == \A k \in DOMAIN line : IsSpace(line[k])

RowsOf(rows) == rows[1] .. rows[2] - 1

\* The text of rows, without the last line's end.
Query(rows) == Join(SubSeq(text, rows[1], rows[2] - 1))

AllRows == <<1, Len(text) + 1>>

\* The selection has something in it.
Selected == selection # NoRows /\ \E r \in RowsOf(selection) : ~IsBlank(text[r])

Delimited == \E r \in DOMAIN text : Contains(text[r], 59)

Idle == scan = NoScan

-----------------------------------------------------------------------------
\* The ready handler's initEditor: the draft is restored, which is a change.
initEditor(draft) ==
    /\ text' = draft
    /\ cursor' = Len(draft)
    /\ timer' = (draft # Empty)

Init ==
    /\ saved \in Texts
    /\ text = saved /\ cursor = Len(saved) /\ timer = (saved # Empty)
    /\ selection = NoRows /\ ran = NoRows
    /\ scan = NoScan /\ request = NoRequest
    /\ calls = 0

\* F5, or the reload after switching databases.
Reload ==
    /\ Idle
    /\ initEditor(saved)
    /\ selection' = NoRows /\ ran' = NoRows
    /\ request' = NoRequest
    /\ calls' = 0
    /\ UNCHANGED <<saved, scan>>

\* Mutant of Changed: a change during the wait stops it and starts none.
ChangedToggles(t) ==
    /\ text' = t
    /\ timer' = ~timer
    /\ request' = NoRequest /\ ran' = NoRows

\* The change event: the wait of a second starts, or starts again.
Changed(t) ==
    /\ text' = t
    /\ timer' = TRUE
    /\ request' = NoRequest /\ ran' = NoRows

\* The user types or pastes.
Edit ==
    /\ Idle
    /\ \E t \in Texts : Changed(t) /\ t # text /\ cursor' \in 1 .. Len(t)
    /\ selection' = NoRows
    /\ UNCHANGED <<saved, scan, calls>>

MoveCursor ==
    /\ Idle
    /\ cursor' \in DOMAIN text
    /\ selection' = NoRows
    /\ request' = NoRequest /\ ran' = NoRows
    /\ UNCHANGED <<text, saved, timer, scan, calls>>

\* Mutant of CursorAt: not kept inside the text.
CursorAtAny(r) == r

\* The cursor ends at either end of the selection; behind the last row it
\* stays in it.
CursorAt(r) == IF r > Len(text) THEN Len(text) ELSE r

Select ==
    /\ Idle
    /\ \E a \in DOMAIN text, b \in 2 .. Len(text) + 1 :
         /\ a < b
         /\ selection' = <<a, b>>
         /\ cursor' \in {a, CursorAt(b)}
    /\ request' = NoRequest /\ ran' = NoRows
    /\ UNCHANGED <<text, saved, timer, scan, calls>>

\* The timeout of a second.
WriteQuery ==
    /\ Idle /\ timer
    /\ saved' = text
    /\ timer' = FALSE
    /\ request' = NoRequest
    /\ UNCHANGED <<text, cursor, selection, scan, calls, ran>>

-----------------------------------------------------------------------------
\* A click sends a call for every handler that a successful connect has bound.
ClickLocalQuery ==
    /\ Idle
    /\ \E bound \in 1 .. MaxCalls - calls : calls' = calls + bound
    /\ request' = NoRequest
    /\ UNCHANGED <<text, cursor, selection, saved, timer, scan, ran>>

\* Its answer; an error has no query, with which setValue empties the editor.
LocalQueryAnswered ==
    /\ Idle /\ calls > 0
    /\ calls' = calls - 1
    /\ \E query \in Texts : Changed(query) /\ cursor' = Len(query)
    /\ selection' = NoRows
    /\ UNCHANGED <<saved, scan>>

-----------------------------------------------------------------------------
\* executeQuery, explainQuery or openInNewWindow, unless the query is empty.
Ask(op, query) ==
    request' = IF query = <<>> THEN NoRequest ELSE [op |-> op, query |-> query]

\* runQuery, runExplain, exportTo: getEditorSelection.  The selection, or all
\* of a text with a delimiter, is run; otherwise getSubquery looks at the lines.
Run(op) ==
    /\ Idle
    /\ \/ /\ Selected
          /\ Ask(op, Trim(Query(selection)))
          /\ ran' = selection
          /\ UNCHANGED scan
       \/ /\ ~Selected /\ Delimited
          /\ Ask(op, Query(AllRows))
          /\ ran' = AllRows
          /\ UNCHANGED scan
       \/ /\ ~Selected /\ ~Delimited
          /\ scan' = [row |-> 1, op |-> op, start |-> 0, ranges |-> <<>>, chunks |-> 0]
          /\ request' = NoRequest
          /\ UNCHANGED ran
    /\ UNCHANGED <<text, cursor, selection, saved, timer, calls>>

Scanning == ~Idle /\ scan.row \in DOMAIN text

Scanned == ~Idle /\ scan.row > Len(text)

\* The cursor is in the rows or on the row that follows them.
AtCursor(rows) == rows[1] <= cursor /\ cursor <= rows[2]

\* Mutant of BlankRow: the next chunk starts where this one did.
BlankRowNoReset ==
    /\ Scanning /\ IsBlank(text[scan.row])
    /\ LET chunk == <<scan.start, scan.row>> IN
       scan' = [scan EXCEPT
           !.row = @ + 1, !.chunks = @ + 1,
           !.ranges = IF scan.start # 0 /\ AtCursor(chunk) THEN Append(@, chunk) ELSE @]
    /\ UNCHANGED <<text, cursor, selection, saved, timer, request, calls, ran>>

\* A blank row ends a chunk, which counts when it is at the cursor.
BlankRow ==
    /\ Scanning /\ IsBlank(text[scan.row])
    /\ LET chunk == <<scan.start, scan.row>> IN
       scan' = [scan EXCEPT
           !.row = @ + 1, !.start = 0, !.chunks = @ + 1,
           !.ranges = IF scan.start # 0 /\ AtCursor(chunk) THEN Append(@, chunk) ELSE @]
    /\ UNCHANGED <<text, cursor, selection, saved, timer, request, calls, ran>>

\* Another row starts a chunk or goes on with one.  The last row ends its
\* chunk, which counts wherever the cursor is.
QueryRow ==
    /\ Scanning /\ ~IsBlank(text[scan.row])
    /\ LET start == IF scan.start = 0 THEN scan.row ELSE scan.start
           last  == scan.row = Len(text)
       IN scan' = [scan EXCEPT
              !.row = @ + 1, !.start = start,
              !.chunks = IF last THEN @ + 1 ELSE @,
              !.ranges = IF last THEN Append(@, <<start, scan.row + 1>>) ELSE @]
    /\ UNCHANGED <<text, cursor, selection, saved, timer, request, calls, ran>>

\* The rows to run once all are scanned.
Chosen == IF scan.ranges = <<>> THEN AllRows ELSE scan.ranges[1]

\* Mutant of Highlighted: the highlight ends a row early.
HighlightedShort(rows) == <<rows[1], rows[2] - 1>>

\* setSelectionRange from the first row to the one that follows.
Highlighted(rows) == rows

\* With several chunks the one that is run is highlighted.
ScanDone ==
    /\ Scanned
    /\ IF scan.ranges # <<>> /\ scan.chunks > 1
       THEN selection' = Highlighted(Chosen) /\ cursor' = CursorAt(Chosen[2])
       ELSE UNCHANGED <<selection, cursor>>
    /\ Ask(scan.op, Query(Chosen))
    /\ ran' = Chosen
    /\ scan' = NoScan
    /\ UNCHANGED <<text, saved, timer, calls>>

Next ==
    \/ Reload \/ Edit \/ MoveCursor \/ Select \/ WriteQuery
    \/ ClickLocalQuery \/ LocalQueryAnswered
    \/ \E op \in Ops : Run(op)
    \/ BlankRow \/ QueryRow \/ ScanDone

Spec == Init /\ [][Next]_vars

-----------------------------------------------------------------------------
\* How the query gets to the server: a plain form field, which the browser
\* sends as UTF-8, or the parameter of an export's URL.
Value == IF request.op = "export" THEN encodeQuery(request.query) ELSE Utf8Encode(request.query)

TextRows == (1 .. Len(text)) \X (1 .. Len(text) + 1)

Scans ==
    [row : 1 .. Len(text) + 1, op : Ops, start : 0 .. Len(text),
     ranges : Seq(TextRows), chunks : Nat]

Requests == [op : Ops \cup {"none"}, query : Seq(Chars)]

\* Every variable holds a value of its kind; cursor and selection are inside
\* the text.
TypeOK ==
    /\ {text, saved} \subseteq Texts
    /\ cursor \in DOMAIN text
    /\ {selection, ran} \subseteq {rows \in TextRows : rows[1] < rows[2]} \cup {NoRows}
    /\ timer \in BOOLEAN
    /\ scan \in Scans \cup {NoScan}
    /\ request \in Requests
    /\ calls \in 0 .. MaxCalls

\* A longest run of rows that are not blank.
IsChunk(rows) ==
    /\ rows[1] < rows[2]
    /\ \A r \in RowsOf(rows) : ~IsBlank(text[r])
    /\ rows[1] = 1 \/ IsBlank(text[rows[1] - 1])
    /\ rows[2] = Len(text) + 1 \/ IsBlank(text[rows[2]])

\* What getSubquery is for: the chunk at the cursor; without one, the last
\* chunk if the text ends with it, or else everything.
IsWanted(rows) ==
    IF \E c \in TextRows : IsChunk(c) /\ AtCursor(c) THEN IsChunk(rows) /\ AtCursor(rows)
    ELSE IF IsBlank(text[Len(text)]) THEN rows = AllRows
    ELSE IsChunk(rows) /\ rows[2] = Len(text) + 1

\* app.js:819, "Determine which query we should run when there are multiple
\* queries without a delimiter": the scan, which looks at each line once, finds
\* the right rows whatever the lines and wherever the cursor.
ScanFindsChunk == Scanned => IsWanted(Chosen)

\* A scan may move the cursor and make a selection, but run again with nothing
\* done in between the same rows are run, by whatever button.
RunAgainIsSame == [][ran # NoRows /\ ran' # NoRows => ran' = ran]_vars

\* A draft that no timer is about to write is written: whatever changes the
\* editor, a reload a second later brings it back.
DraftIsKept == ~timer => saved = text

\* Whatever the text, PostgreSQL is given by an export what was in the editor:
\* no digit of it is taken for a comment, lost in the URL, or not put back.  And
\* what Explain sends, which is not encoded, is never decoded: it is the query,
\* less its comments.  (What Run sends may be: "show" is valid base64.)
QueryArrives ==
    /\ request.op = "export" => Utf8Text(Executed("export", Value)) = request.query
    /\ request.op = "explain" =>
         LET query == cleanQuery(Value)
         IN Executed("explain", Value) = IF query = <<>> THEN <<>> ELSE Explain \o query

\* What makes these inductive.  During a scan: where the current chunk starts,
\* that no chunk passed so far was at the cursor, and what the first range is.
ScanInv ==
    ~Idle =>
        /\ ~Selected /\ ~Delimited
        /\ scan.start = 0 => scan.row = 1 \/ IsBlank(text[scan.row - 1])
        /\ scan.start # 0 =>
             /\ scan.start < scan.row
             /\ \A r \in scan.start .. scan.row - 1 : ~IsBlank(text[r])
             /\ scan.start = 1 \/ IsBlank(text[scan.start - 1])
        /\ scan.ranges = <<>> =>
             /\ \A c \in TextRows : IsChunk(c) /\ AtCursor(c) => c[2] >= scan.row
             /\ Scanned => IsBlank(text[Len(text)])
        /\ scan.ranges # <<>> =>
             /\ scan.ranges[1] \in TextRows
             /\ IsChunk(scan.ranges[1])
             /\ \/ AtCursor(scan.ranges[1])
                \/ /\ Scanned /\ scan.ranges[1][2] = Len(text) + 1
                   /\ ~\E c \in TextRows : IsChunk(c) /\ AtCursor(c)

\* Between scans: running again would choose the rows that were run.
RanInv ==
    ran # NoRows =>
        IF Selected THEN ran = selection
        ELSE IF Delimited THEN ran = AllRows ELSE IsWanted(ran)

EditorInv == TypeOK /\ DraftIsKept /\ ScanInv /\ RanInv
=============================================================================
