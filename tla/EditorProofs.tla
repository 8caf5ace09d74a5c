---------------------------- MODULE EditorProofs ----------------------------
(***************************************************************************)
(* Proofs about Editor: the scan finds the chunk at the cursor for every   *)
(* text, running again runs the same, the draft is kept, and the query     *)
(* that is run arrives.                                                    *)
(***************************************************************************)
EXTENDS Editor, QueryCodecProofs

-----------------------------------------------------------------------------
(***************************************************************************)
(* Texts and chunks.                                                       *)
(***************************************************************************)

LEMMA TextFacts ==
  \A t \in Texts : /\ Len(t) \in 1 .. MaxLines
                  /\ DOMAIN t = 1 .. Len(t)
                  /\ t \in Seq(Lines)
<1> TAKE t \in Texts
<1>1. PICK n \in 1 .. MaxLines : t \in [1 .. n -> Lines]
  BY DEF Texts
<1>2. n \in Nat /\ n \in 1 .. MaxLines
  BY BoundsAssumption DEF BoundsAssumption
<1>3. t \in Seq(Lines)
  BY <1>1, <1>2, SeqDef
<1>4. DOMAIN t = 1 .. n /\ DOMAIN t = 1 .. Len(t) /\ Len(t) \in Nat
  BY <1>1, <1>3, LenProperties
<1>5. Len(t) = n
  BY <1>2, <1>4
<1> QED
  BY <1>2, <1>3, <1>4, <1>5

LEMMA EmptyIsText == Empty \in Texts
<1>1. Empty \in [1 .. 1 -> Lines]
  BY LinesAssumption DEF LinesAssumption, Empty
<1>2. 1 \in 1 .. MaxLines
  BY BoundsAssumption DEF BoundsAssumption
<1> QED
  BY <1>1, <1>2 DEF Texts

\* The text and the cursor are where the loop believes they are.
Placed ==
    /\ text \in Texts /\ cursor \in DOMAIN text
    /\ DOMAIN text = 1 .. Len(text) /\ Len(text) \in Nat \ {0}
    /\ cursor \in 1 .. Len(text)

LEMMA Places == TypeOK => Placed
BY TextFacts, BoundsAssumption DEF BoundsAssumption, TypeOK, Placed

\* Two chunks that end at the same row are the same, and so are two chunks at
\* the cursor.
LEMMA SameEnd ==
  ASSUME Placed, NEW c \in TextRows, NEW d \in TextRows,
         IsChunk(c), IsChunk(d), c[2] = d[2]
  PROVE  c = d
<1>1. c[1] \in Int /\ c[2] \in Int /\ d[1] \in Int /\ c = <<c[1], c[2]>> /\ d = <<d[1], d[2]>>
  BY DEF TextRows, Placed
<1>2. ASSUME NEW x \in TextRows, NEW y \in TextRows, IsChunk(x), IsChunk(y),
             x[2] = y[2], x[1] < y[1]
      PROVE  FALSE
  <2>1. x[1] \in 1 .. Len(text) /\ y[1] \in 1 .. Len(text) /\ x[2] \in Int
    BY DEF TextRows, Placed
  <2>2. y[1] - 1 \in RowsOf(x)
    BY <1>2, <2>1 DEF RowsOf, IsChunk, Placed
  <2>3. y[1] # 1
    BY <1>2, <2>1
  <2> QED
    BY <1>2, <2>2, <2>3 DEF IsChunk
<1>3. ~(c[1] < d[1]) /\ ~(d[1] < c[1])
  BY <1>2
<1> QED
  BY <1>1, <1>3

LEMMA SameCursor ==
  ASSUME Placed, NEW c \in TextRows, NEW d \in TextRows,
         IsChunk(c), IsChunk(d), AtCursor(c), AtCursor(d)
  PROVE  c = d
<1>1. ASSUME NEW x \in TextRows, NEW y \in TextRows, IsChunk(x), IsChunk(y),
             AtCursor(x), AtCursor(y), x[2] < y[2]
      PROVE  FALSE
  <2>1. /\ x[1] \in 1 .. Len(text) /\ y[1] \in 1 .. Len(text)
        /\ x[2] \in 1 .. Len(text) + 1 /\ y[2] \in 1 .. Len(text) + 1
        /\ cursor \in Int
    BY DEF TextRows, Placed
  <2>2. x[2] # Len(text) + 1 /\ IsBlank(text[x[2]])
    BY <1>1, <2>1 DEF IsChunk, Placed
  <2>3. x[2] \in RowsOf(y)
    BY <1>1, <2>1 DEF AtCursor, RowsOf
  <2> QED
    BY <1>1, <2>2, <2>3 DEF IsChunk
<1>2. c[2] \in Int /\ d[2] \in Int
  BY DEF TextRows, Placed
<1>3. c[2] = d[2]
  BY <1>1, <1>2
<1> QED
  BY <1>3, SameEnd

\* What a text and a cursor call for is one pair of rows.
LEMMA WantedIsOne ==
  ASSUME Placed, NEW c \in TextRows, NEW d \in TextRows, IsWanted(c), IsWanted(d)
  PROVE  c = d
<1>1. CASE \E e \in TextRows : IsChunk(e) /\ AtCursor(e)
  BY <1>1, SameCursor DEF IsWanted
<1>2. CASE ~\E e \in TextRows : IsChunk(e) /\ AtCursor(e)
  <2>1. CASE IsBlank(text[Len(text)])
    BY <1>2, <2>1 DEF IsWanted
  <2>2. CASE ~IsBlank(text[Len(text)])
    BY <1>2, <2>2, SameEnd DEF IsWanted
  <2> QED
    BY <2>1, <2>2
<1> QED
  BY <1>1, <1>2

-----------------------------------------------------------------------------
(***************************************************************************)
(* Requests: a query is made of characters.                                *)
(***************************************************************************)

LEMMA NoRequestType == NoRequest \in Requests
BY EmptySeq DEF NoRequest, Requests

LEMMA LineFacts ==
  \A line \in Lines : line \in Strings /\ \A j \in 1 .. Len(line) : line[j] \in Chars
<1> TAKE line \in Lines
<1>1. line \in Seq(Chars \ {Newline})
  BY LinesAssumption DEF LinesAssumption
<1>2. PICK n \in Nat : n = Len(line) /\ line = [j \in 1 .. n |-> line[j]]
                       /\ \A j \in 1 .. n : line[j] \in Chars \ {Newline}
  BY <1>1, LenProperties, ElementOfSeq
<1>3. \A j \in 1 .. n : line[j] \in Chars /\ line[j] \in Int
  <2>1. \A x \in Chars : x \in Int
    BY CharRange
  <2> QED
    BY <1>2, <2>1
<1>4. line \in [1 .. n -> Int]
  BY <1>2, <1>3
<1> QED
  BY <1>2, <1>3, <1>4, IsSequence DEF Strings

LEMMA QueryType ==
  ASSUME Placed, NEW rows \in TextRows
  PROVE  Query(rows) \in Seq(Chars)
<1>1. PICK a \in 1 .. Len(text), b \in 1 .. Len(text) + 1 : rows = <<a, b>>
  BY DEF TextRows
<1>2. text \in Seq(Lines) /\ Len(text) \in Nat
  BY TextFacts DEF Placed
<1> DEFINE ss == SubSeq(text, a, b - 1)
<1>3. ss \in Seq(Lines)
  <2>1. a \in Int /\ b - 1 \in Int /\ \A i \in a .. b - 1 : i \in 1 .. Len(text)
    BY <1>1, <1>2
  <2>2. \A i \in a .. b - 1 : text[i] \in Lines
    BY <1>2, <2>1, ElementOfSeq
  <2> QED
    BY <2>1, <2>2, SubSeqProperties
<1>4. Query(rows) = Join(ss)
  BY <1>1 DEF Query
<1> HIDE DEF ss
<1>5. PICK n \in Nat : ss = [k \in 1 .. n |-> ss[k]] /\ \A k \in 1 .. n : ss[k] \in Lines
  BY <1>3, LenProperties, ElementOfSeq
<1>6. ss \in [1 .. n -> Strings] /\ \A k \in 1 .. n : \A j \in 1 .. Len(ss[k]) : ss[k][j] \in Chars
  BY <1>5, LineFacts
<1>7. Chars \in SUBSET Int /\ Newline \in Chars
  BY DEF Chars, Newline
<1> QED
  BY <1>4, <1>5, <1>6, <1>7, JoinType

LEMMA AskType ==
  ASSUME NEW op \in Ops, NEW query \in Seq(Chars), Ask(op, query)
  PROVE  request' \in Requests
<1>1. CASE query = <<>>
  BY <1>1, NoRequestType DEF Ask
<1>2. CASE query # <<>>
  <2>1. request' = [op |-> op, query |-> query]
    BY <1>2 DEF Ask
  <2> QED
    BY <2>1 DEF Requests
<1> QED
  BY <1>1, <1>2

-----------------------------------------------------------------------------
(***************************************************************************)
(* EditorInv is inductive.                                                 *)
(***************************************************************************)

LEMMA ScanRows == ASSUME TypeOK, ~Idle PROVE scan \in Scans
BY DEF TypeOK, Idle

LEMMA NoRowsNoChunk == NoRows \notin TextRows
BY DEF NoRows, TextRows

LEMMA InitHolds == Init => EditorInv
<1> SUFFICES ASSUME Init PROVE EditorInv
  OBVIOUS
<1>1. Len(saved) \in 1 .. MaxLines /\ DOMAIN saved = 1 .. Len(saved)
  BY TextFacts DEF Init
<1>2. cursor \in DOMAIN text /\ timer \in BOOLEAN
  BY <1>1, BoundsAssumption DEF BoundsAssumption, Init
<1>3. TypeOK
  BY <1>2, BoundsAssumption, NoRequestType DEF BoundsAssumption, Init, TypeOK
<1> QED
  BY <1>3 DEF EditorInv, Init, DraftIsKept, ScanInv, RanInv, Idle

\* What the user or an answer does to the editor: no rows have been run since.
LEMMA NothingRun ==
  ASSUME EditorInv, Idle, scan' = scan, ran' = NoRows, selection' = NoRows \/ UNCHANGED text,
         text' \in Texts, saved' \in Texts, cursor' \in DOMAIN text', timer' \in BOOLEAN,
         selection' = NoRows \/ selection' \in {rows \in TextRows : rows[1] < rows[2]},
         request' = NoRequest, calls' \in 0 .. MaxCalls, DraftIsKept'
  PROVE  EditorInv'
<1>1. Idle' /\ scan' = NoScan
  BY DEF Idle
<1>2. UNCHANGED text => TextRows' = TextRows
  BY DEF TextRows
<1>3. TypeOK'
  BY <1>1, <1>2, NoRequestType DEF TypeOK
<1> QED
  BY <1>1, <1>3 DEF EditorInv, ScanInv, RanInv

LEMMA UserSteps ==
  ASSUME EditorInv, Reload \/ Edit \/ MoveCursor \/ Select \/ LocalQueryAnswered
  PROVE  EditorInv'
<1>1. TypeOK /\ DraftIsKept /\ Placed
  BY Places DEF EditorInv
<1>2. \A t \in Texts : Len(t) \in DOMAIN t
  BY TextFacts, BoundsAssumption DEF BoundsAssumption
<1>3. CASE Reload
  <2>1. saved \in Texts /\ Len(saved) \in DOMAIN saved
    BY <1>1, <1>2 DEF TypeOK
  <2> QED
    BY <1>3, <2>1, NothingRun, BoundsAssumption
    DEF BoundsAssumption, Reload, initEditor, DraftIsKept
<1>4. CASE Edit
  <2>1. PICK t \in Texts : Changed(t) /\ cursor' \in 1 .. Len(t)
    BY <1>4 DEF Edit
  <2>2. DOMAIN t = 1 .. Len(t)
    BY TextFacts
  <2> QED
    BY <1>1, <1>4, <2>1, <2>2, NothingRun DEF Edit, Changed, TypeOK, DraftIsKept
<1>5. CASE MoveCursor
  BY <1>1, <1>5, NothingRun DEF MoveCursor, TypeOK, DraftIsKept
<1>6. CASE Select
  <2>1. PICK a \in DOMAIN text, b \in 2 .. Len(text) + 1 :
          a < b /\ selection' = <<a, b>> /\ cursor' \in {a, CursorAt(b)}
    BY <1>6 DEF Select
  <2>2. CursorAt(b) \in DOMAIN text /\ a \in DOMAIN text
    BY <1>1 DEF CursorAt, Placed
  <2>3. <<a, b>> \in TextRows
    BY <1>1 DEF TextRows, Placed
  <2> QED
    BY <1>1, <1>6, <2>1, <2>2, <2>3, NothingRun DEF Select, TypeOK, DraftIsKept
<1>7. CASE LocalQueryAnswered
  <2>1. PICK t \in Texts : Changed(t) /\ cursor' = Len(t)
    BY <1>7 DEF LocalQueryAnswered
  <2>2. calls' \in 0 .. MaxCalls
    BY <1>1, <1>7, BoundsAssumption DEF BoundsAssumption, LocalQueryAnswered, TypeOK
  <2> QED
    BY <1>1, <1>2, <1>7, <2>1, <2>2, NothingRun
    DEF LocalQueryAnswered, Changed, TypeOK, DraftIsKept
<1> QED
  BY <1>3, <1>4, <1>5, <1>6, <1>7

\* Nothing that ScanInv and RanInv are about changes.
LEMMA EditorKept ==
  ASSUME EditorInv, UNCHANGED <<text, cursor, selection, scan, ran>>,
         saved' \in Texts, timer' \in BOOLEAN, DraftIsKept',
         request' = request \/ request' = NoRequest, calls' \in 0 .. MaxCalls
  PROVE  EditorInv'
<1>1. TypeOK'
  BY NoRequestType DEF EditorInv, TypeOK, TextRows, Scans
<1>2. ScanInv'
  BY DEF EditorInv, ScanInv, Idle, Selected, Delimited, TextRows, IsChunk, AtCursor, RowsOf,
         Scanned
<1>3. RanInv'
  BY DEF EditorInv, RanInv, Selected, Delimited, TextRows, IsChunk, AtCursor, RowsOf,
         AllRows, IsWanted
<1> QED
  BY <1>1, <1>2, <1>3 DEF EditorInv

LEMMA QuietSteps ==
  ASSUME EditorInv, WriteQuery \/ ClickLocalQuery \/ UNCHANGED vars
  PROVE  EditorInv'
<1>1. CASE WriteQuery
  BY <1>1, EditorKept DEF WriteQuery, EditorInv, TypeOK, DraftIsKept
<1>2. CASE ClickLocalQuery
  <2>1. calls' \in 0 .. MaxCalls
    BY <1>2, BoundsAssumption DEF BoundsAssumption, ClickLocalQuery, EditorInv, TypeOK
  <2> QED
    BY <1>2, <2>1, EditorKept DEF ClickLocalQuery, EditorInv, TypeOK, DraftIsKept
<1>3. CASE UNCHANGED vars
  BY <1>3, EditorKept DEF vars, EditorInv, TypeOK, DraftIsKept
<1> QED
  BY <1>1, <1>2, <1>3

LEMMA RunStep ==
  ASSUME EditorInv, NEW op \in Ops, Run(op)
  PROVE  EditorInv'
<1>1. TypeOK /\ DraftIsKept /\ RanInv /\ Placed
  BY Places DEF EditorInv
<1>2. AllRows \in TextRows /\ AllRows[1] < AllRows[2]
  BY <1>1 DEF AllRows, TextRows, Placed
<1>3. UNCHANGED <<text, cursor, selection, saved, timer, calls>> /\ Idle
  BY DEF Run
<1>4. TextRows' = TextRows /\ DraftIsKept' /\ Selected' = Selected /\ Delimited' = Delimited
  BY <1>1, <1>3 DEF TextRows, DraftIsKept, Selected, Delimited, RowsOf
<1>5. request' \in Requests
  <2>1. CASE Selected
    <3>1. Ask(op, Trim(Query(selection))) /\ selection \in TextRows
      BY <1>1, <2>1 DEF Run, Selected, TypeOK
    <3>2. Trim(Query(selection)) \in Seq(Chars)
      BY <1>1, <3>1, QueryType, TrimType
    <3> QED
      BY <3>1, <3>2, AskType
  <2>2. CASE ~Selected /\ Delimited
    <3>1. Ask(op, Query(AllRows))
      BY <2>2 DEF Run
    <3> QED
      BY <1>1, <1>2, <3>1, QueryType, AskType
  <2>3. CASE ~Selected /\ ~Delimited
    BY <2>3, NoRequestType DEF Run
  <2> QED
    BY <2>1, <2>2, <2>3
<1>6. CASE Selected \/ Delimited
  <2>1. scan' = scan /\ Idle'
    BY <1>3, <1>6 DEF Run, Idle
  <2>2. IF Selected THEN ran' = selection ELSE ran' = AllRows
    BY <1>6 DEF Run
  <2>4. TypeOK'
    BY <1>1, <1>2, <1>3, <1>4, <1>5, <2>1, <2>2 DEF TypeOK, Selected, Idle
  <2>5. AllRows' = AllRows
    BY <1>3 DEF AllRows
  <2>6. RanInv'
    BY <1>3, <1>4, <1>6, <2>2, <2>5 DEF RanInv
  <2> QED
    BY <1>4, <2>1, <2>4, <2>6 DEF EditorInv, ScanInv
<1>7. CASE ~Selected /\ ~Delimited
  <2>1. /\ scan' = [row |-> 1, op |-> op, start |-> 0, ranges |-> <<>>, chunks |-> 0]
        /\ request' = NoRequest /\ ran' = ran
    BY <1>7 DEF Run
  <2>2. scan' \in Scans' /\ scan'.row = 1 /\ scan'.start = 0 /\ scan'.ranges = <<>>
    BY <1>1, <1>3, <1>4, <2>1 DEF Scans, Placed
  <2>3. TypeOK'
    BY <1>1, <1>3, <1>4, <2>1, <2>2, NoRequestType DEF TypeOK
  <2>4. \A c \in TextRows : c[2] >= 1
    BY <1>1 DEF TextRows, Placed
  <2>5. ~Scanned'
    BY <1>1, <1>3, <2>2 DEF Scanned, Placed
  <2>6. ScanInv'
    BY <1>4, <1>7, <2>2, <2>4, <2>5 DEF ScanInv
  <2>7. RanInv'
    BY <1>1, <1>3, <1>4, <2>1
    DEF RanInv, AllRows, IsWanted, IsChunk, AtCursor, RowsOf
  <2> QED
    BY <1>4, <2>3, <2>6, <2>7 DEF EditorInv
<1> QED
  BY <1>6, <1>7

-----------------------------------------------------------------------------
\* What a step of the loop leaves alone.
LEMMA LoopKept ==
  ASSUME EditorInv, UNCHANGED <<text, cursor, selection, saved, timer, request, calls, ran>>,
         scan' \in Scans
  PROVE  TypeOK' /\ DraftIsKept' /\ RanInv'
<1>1. TypeOK'
  BY DEF EditorInv, TypeOK, TextRows, Scans
<1>2. DraftIsKept'
  BY DEF EditorInv, DraftIsKept
<1>3. RanInv'
  BY DEF EditorInv, RanInv, Selected, Delimited, TextRows, IsChunk, AtCursor, RowsOf,
         AllRows, IsWanted
<1> QED
  BY <1>1, <1>2, <1>3

\* A loop that has started a chunk at scan.start and stands at its end has the
\* whole chunk.
LEMMA ChunkEnds ==
  ASSUME EditorInv, Scanning, NEW start \in 1 .. Len(text), NEW end \in 2 .. Len(text) + 1,
         start < end,
         \A r \in start .. end - 1 : ~IsBlank(text[r]),
         start = 1 \/ IsBlank(text[start - 1]),
         end = Len(text) + 1 \/ IsBlank(text[end])
  PROVE  <<start, end>> \in TextRows /\ IsChunk(<<start, end>>)
<1>1. Placed
  BY Places DEF EditorInv
<1> QED
  BY <1>1 DEF IsChunk, RowsOf, TextRows, Placed

LEMMA BlankRowStep ==
  ASSUME EditorInv, BlankRow
  PROVE  EditorInv'
<1> DEFINE r == scan.row
           chunk == <<scan.start, r>>
           hit == scan.start # 0 /\ AtCursor(chunk)
<1>1. TypeOK /\ ScanInv /\ Placed /\ ~Idle /\ scan \in Scans
  BY Places, ScanRows DEF EditorInv, BlankRow, Scanning
<1>2. /\ r \in 1 .. Len(text) /\ IsBlank(text[r]) /\ scan.start \in 0 .. Len(text)
      /\ scan.ranges \in Seq(TextRows) /\ scan.chunks \in Nat /\ scan.op \in Ops
  BY <1>1 DEF BlankRow, Scanning, Scans, Placed
<1>3. hit => chunk \in TextRows /\ IsChunk(chunk)
  BY <1>1, <1>2, ChunkEnds DEF ScanInv, BlankRow
<1>4. /\ scan' = [row |-> r + 1, op |-> scan.op, start |-> 0, chunks |-> scan.chunks + 1,
                  ranges |-> IF hit THEN Append(scan.ranges, chunk) ELSE scan.ranges]
      /\ UNCHANGED <<text, cursor, selection, saved, timer, request, calls, ran>>
  BY <1>1 DEF BlankRow, Scans
<1> HIDE DEF hit, chunk
<1>5. scan'.ranges \in Seq(TextRows)
  BY <1>2, <1>3, <1>4
<1>6. scan' \in Scans
  BY <1>1, <1>2, <1>4, <1>5 DEF Scans, Placed
<1>7. TextRows' = TextRows /\ ~Idle' /\ ~Selected' /\ ~Delimited'
  BY <1>1, <1>2, <1>4 DEF TextRows, Idle, ScanInv, Selected, Delimited, RowsOf, NoScan
<1>8. \A c \in TextRows : IsChunk(c)' = IsChunk(c) /\ AtCursor(c)' = AtCursor(c)
  BY <1>4 DEF IsChunk, AtCursor, RowsOf
<1>9. Scanned' <=> r = Len(text)
  BY <1>1, <1>2, <1>4, <1>7 DEF Scanned, Placed
<1>10. scan'.ranges = <<>> =>
          /\ \A c \in TextRows : IsChunk(c) /\ AtCursor(c) => c[2] >= r + 1
          /\ Scanned' => IsBlank(text[Len(text)])
  <2> SUFFICES ASSUME scan'.ranges = <<>>,
                      NEW c \in TextRows, IsChunk(c), AtCursor(c)
               PROVE  c[2] >= r + 1
    BY <1>2, <1>9
  <2>1. scan.ranges = <<>> /\ ~hit
    BY <1>2, <1>3, <1>4, AppendProperties
  <2>2. c[2] >= r /\ c[1] \in 1 .. Len(text) /\ c[2] \in 1 .. Len(text) + 1
    BY <1>1, <2>1 DEF ScanInv, TextRows, Placed
  <2>3. CASE c[2] = r
    <3>1. r - 1 \in RowsOf(c) /\ r # 1
      BY <1>2, <2>2, <2>3 DEF IsChunk, RowsOf
    <3>2. ~IsBlank(text[r - 1])
      BY <3>1 DEF IsChunk
    <3>3. scan.start # 0
      BY <1>1, <3>1, <3>2 DEF ScanInv
    <3>4. chunk \in TextRows /\ IsChunk(chunk)
      BY <1>1, <1>2, <3>3, ChunkEnds, SMTT(30) DEF ScanInv, BlankRow, chunk
    <3>5. c = chunk
      BY <1>1, <2>3, <3>4, SameEnd DEF chunk
    <3> QED
      BY <2>1, <3>3, <3>5 DEF hit
  <2> QED
    BY <1>2, <2>2, <2>3
<1>11. scan'.ranges # <<>> =>
          scan'.ranges[1] \in TextRows /\ IsChunk(scan'.ranges[1]) /\ AtCursor(scan'.ranges[1])
  <2>1. CASE scan.ranges # <<>>
    <3>1. scan'.ranges[1] = scan.ranges[1]
      BY <1>2, <1>3, <1>4, <2>1
    <3>2. ~Scanned
      BY <1>1, <1>2 DEF Scanned, Placed
    <3> QED
      BY <1>1, <2>1, <3>1, <3>2 DEF ScanInv
  <2>2. CASE scan.ranges = <<>>
    BY <1>2, <1>3, <1>4, <2>2 DEF hit
  <2> QED
    BY <2>1, <2>2
<1>12. ScanInv'
  BY <1>2, <1>4, <1>7, <1>8, <1>10, <1>11 DEF ScanInv
<1> QED
  BY <1>4, <1>6, <1>12, LoopKept DEF EditorInv

LEMMA QueryRowStep ==
  ASSUME EditorInv, QueryRow
  PROVE  EditorInv'
<1> DEFINE r == scan.row
           start == IF scan.start = 0 THEN r ELSE scan.start
           chunk == <<start, r + 1>>
           last == r = Len(text)
<1>1. TypeOK /\ ScanInv /\ Placed /\ ~Idle /\ scan \in Scans
  BY Places, ScanRows DEF EditorInv, QueryRow, Scanning
<1>2. /\ r \in 1 .. Len(text) /\ ~IsBlank(text[r]) /\ scan.start \in 0 .. Len(text)
      /\ scan.ranges \in Seq(TextRows) /\ scan.chunks \in Nat /\ scan.op \in Ops
  BY <1>1 DEF QueryRow, Scanning, Scans, Placed
<1>3. /\ start \in 1 .. Len(text) /\ start < r + 1
      /\ \A q \in start .. r : ~IsBlank(text[q])
      /\ start = 1 \/ IsBlank(text[start - 1])
  BY <1>1, <1>2 DEF ScanInv, Placed
<1>4. last => chunk \in TextRows /\ IsChunk(chunk)
  BY <1>1, <1>2, <1>3, ChunkEnds DEF QueryRow
<1>5. /\ scan' = [row |-> r + 1, op |-> scan.op, start |-> start,
                  chunks |-> IF last THEN scan.chunks + 1 ELSE scan.chunks,
                  ranges |-> IF last THEN Append(scan.ranges, chunk) ELSE scan.ranges]
      /\ UNCHANGED <<text, cursor, selection, saved, timer, request, calls, ran>>
  BY <1>1 DEF QueryRow, Scans
<1> HIDE DEF start, chunk
<1>6. scan'.ranges \in Seq(TextRows) /\ scan'.chunks \in Nat
  BY <1>2, <1>4, <1>5
<1>7. scan' \in Scans
  BY <1>1, <1>2, <1>3, <1>5, <1>6 DEF Scans, Placed
<1>8. TextRows' = TextRows /\ ~Idle' /\ ~Selected' /\ ~Delimited'
  BY <1>1, <1>2, <1>5 DEF TextRows, Idle, ScanInv, Selected, Delimited, RowsOf, NoScan
<1>9. \A c \in TextRows : IsChunk(c)' = IsChunk(c) /\ AtCursor(c)' = AtCursor(c)
  BY <1>5 DEF IsChunk, AtCursor, RowsOf
<1>10. Scanned' <=> last
  BY <1>1, <1>2, <1>5, <1>8 DEF Scanned, Placed
\* The row is not blank, so no chunk ends at it.
<1>11. scan.ranges = <<>> =>
          \A c \in TextRows : IsChunk(c) /\ AtCursor(c) => c[2] >= r + 1
  <2> SUFFICES ASSUME scan.ranges = <<>>,
                      NEW c \in TextRows, IsChunk(c), AtCursor(c)
               PROVE  c[2] >= r + 1
    OBVIOUS
  <2>1. c[2] >= r /\ c[2] \in Int
    BY <1>1 DEF ScanInv, TextRows, Placed
  <2>2. c[2] # r
    BY <1>2 DEF IsChunk
  <2> QED
    BY <1>2, <2>1, <2>2
\* What ScanInv says of the chunk that goes on.
<1>12. /\ scan'.start # 0 /\ scan'.start < scan'.row
       /\ \A q \in scan'.start .. scan'.row - 1 : ~IsBlank(text'[q])
       /\ scan'.start = 1 \/ IsBlank(text'[scan'.start - 1])
  <2>1. scan'.start = start /\ scan'.row - 1 = r /\ scan'.row = r + 1 /\ text' = text
    BY <1>2, <1>5
  <2> QED
    BY <1>3, <2>1
<1>13. ASSUME last PROVE ScanInv'
  <2>1. scan'.ranges # <<>>
    BY <1>2, <1>4, <1>5, <1>13, AppendProperties
  <2>2. /\ scan'.ranges[1] \in TextRows /\ IsChunk(scan'.ranges[1])
        /\ \/ AtCursor(scan'.ranges[1])
           \/ /\ scan'.ranges[1][2] = Len(text) + 1
              /\ ~\E c \in TextRows : IsChunk(c) /\ AtCursor(c)
    <3>1. CASE scan.ranges # <<>>
      <4>1. scan'.ranges[1] = scan.ranges[1]
        BY <1>2, <1>4, <1>5, <1>13, <3>1
      <4>2. ~Scanned
        BY <1>1, <1>2 DEF Scanned, Placed
      <4> QED
        BY <1>1, <3>1, <4>1, <4>2 DEF ScanInv
    <3>2. CASE scan.ranges = <<>>
      <4>1. scan'.ranges[1] = chunk
        BY <1>2, <1>4, <1>5, <1>13, <3>2
      <4>2. chunk[2] = Len(text) + 1
        BY <1>13 DEF chunk
      <4>3. ASSUME NEW c \in TextRows, IsChunk(c), AtCursor(c)
            PROVE  AtCursor(chunk)
        <5>1. c[2] >= r + 1 /\ c[2] \in 1 .. Len(text) + 1
          BY <1>1, <1>11, <3>2, <4>3 DEF TextRows, Placed
        <5>2. c[2] = chunk[2]
          BY <1>2, <1>13, <4>2, <5>1
        <5> QED
          BY <1>1, <1>4, <1>13, <4>3, <5>2, SameEnd
      <4> QED
        BY <1>4, <1>13, <4>1, <4>2, <4>3
    <3> QED
      BY <3>1, <3>2
  <2>3. text' = text
    BY <1>5
  <2> QED
    BY <1>8, <1>9, <1>10, <1>12, <1>13, <2>1, <2>2, <2>3 DEF ScanInv
<1>14. ASSUME ~last PROVE ScanInv'
  <2>1. scan'.ranges = scan.ranges /\ scan'.row = r + 1 /\ text' = text
    BY <1>5, <1>14
  <2>2. ~Scanned /\ ~Scanned'
    BY <1>1, <1>2, <1>10, <1>14 DEF Scanned, Placed
  <2>3. scan.ranges # <<>> =>
           /\ scan.ranges[1] \in TextRows /\ IsChunk(scan.ranges[1])
           /\ AtCursor(scan.ranges[1])
    BY <1>1, <2>2 DEF ScanInv
  <2> QED
    BY <1>8, <1>9, <1>11, <1>12, <2>1, <2>2, <2>3 DEF ScanInv
<1> QED
  BY <1>5, <1>7, <1>13, <1>14, LoopKept DEF EditorInv

-----------------------------------------------------------------------------
\* When all rows are scanned, the first range, or else all rows, is wanted.
LEMMA ChosenIsWanted ==
  ASSUME EditorInv, Scanned
  PROVE  /\ IsWanted(Chosen)
         /\ Chosen \in TextRows /\ Chosen[1] < Chosen[2]
         /\ scan.ranges # <<>> => IsChunk(Chosen)
<1>1. TypeOK /\ ScanInv /\ Placed /\ ~Idle /\ scan \in Scans
  BY Places, ScanRows DEF EditorInv, Scanned
<1>2. CASE scan.ranges = <<>>
  <2>1. Chosen = AllRows
    BY <1>2 DEF Chosen
  <2>2. IsBlank(text[Len(text)])
    BY <1>1, <1>2 DEF ScanInv
  <2>3. ~\E c \in TextRows : IsChunk(c) /\ AtCursor(c)
    <3> SUFFICES ASSUME NEW c \in TextRows, IsChunk(c), AtCursor(c) PROVE FALSE
      OBVIOUS
    <3>1. c[2] >= scan.row /\ scan.row > Len(text) /\ scan.row \in Int
      BY <1>1, <1>2 DEF ScanInv, Scanned, Scans, Placed
    <3>2. c[1] \in 1 .. Len(text) /\ c[2] \in 1 .. Len(text) + 1
      BY <1>1 DEF TextRows, Placed
    <3>3. Len(text) \in RowsOf(c)
      BY <1>1, <3>1, <3>2 DEF RowsOf, Placed
    <3> QED
      BY <2>2, <3>3 DEF IsChunk
  <2>4. AllRows \in TextRows /\ AllRows[1] < AllRows[2]
    BY <1>1 DEF AllRows, TextRows, Placed
  <2> QED
    BY <1>2, <2>1, <2>2, <2>3, <2>4 DEF IsWanted
<1>3. CASE scan.ranges # <<>>
  <2>1. Chosen = scan.ranges[1]
    BY <1>3 DEF Chosen
  <2>2. /\ Chosen \in TextRows /\ IsChunk(Chosen)
        /\ \/ AtCursor(Chosen)
           \/ /\ Chosen[2] = Len(text) + 1
              /\ ~\E c \in TextRows : IsChunk(c) /\ AtCursor(c)
    BY <1>1, <1>3, <2>1 DEF ScanInv
  <2>3. CASE AtCursor(Chosen)
    BY <2>2, <2>3 DEF IsWanted, IsChunk
  <2>4. CASE ~AtCursor(Chosen)
    <3>1. Len(text) \in RowsOf(Chosen)
      BY <1>1, <2>2, <2>4 DEF RowsOf, TextRows, Placed, IsChunk
    <3>2. ~IsBlank(text[Len(text)])
      BY <2>2, <3>1 DEF IsChunk
    <3> QED
      BY <2>2, <2>4, <3>2 DEF IsWanted, IsChunk
  <2> QED
    BY <2>3, <2>4
<1> QED
  BY <1>2, <1>3

LEMMA ScanDoneStep ==
  ASSUME EditorInv, ScanDone
  PROVE  EditorInv'
<1> DEFINE rows == Chosen
<1>1. TypeOK /\ DraftIsKept /\ ScanInv /\ Placed /\ ~Idle /\ scan \in Scans /\ Scanned
  BY Places, ScanRows DEF EditorInv, ScanDone, Scanned
<1>2. /\ IsWanted(rows) /\ rows \in TextRows /\ rows[1] < rows[2]
      /\ scan.ranges # <<>> => IsChunk(rows)
  BY <1>1, ChosenIsWanted
<1>3. /\ UNCHANGED <<text, saved, timer, calls>>
      /\ ran' = rows /\ scan' = NoScan /\ Idle'
      /\ Ask(scan.op, Query(rows))
  BY DEF ScanDone, Idle
<1> HIDE DEF rows
<1>4. TextRows' = TextRows /\ DraftIsKept' /\ ~Delimited'
  BY <1>1, <1>3 DEF TextRows, DraftIsKept, Delimited, ScanInv
<1>5. request' \in Requests
  <2>1. scan.op \in Ops
    BY <1>1 DEF Scans
  <2> QED
    BY <1>1, <1>2, <1>3, <2>1, QueryType, AskType
<1>6. CASE scan.ranges # <<>> /\ scan.chunks > 1
  <2>1. selection' = rows /\ cursor' = CursorAt(rows[2])
    BY <1>6 DEF ScanDone, Highlighted, rows
  <2>2. cursor' \in DOMAIN text
    BY <1>1, <1>2, <2>1 DEF CursorAt, TextRows, Placed
  <2>3. TypeOK'
    BY <1>1, <1>2, <1>3, <1>4, <1>5, <2>1, <2>2 DEF TypeOK
  <2>4. Selected'
    <3>1. rows[1] \in RowsOf(rows) /\ ~IsBlank(text[rows[1]])
      BY <1>1, <1>2, <1>6 DEF RowsOf, IsChunk, TextRows, Placed
    <3>2. selection' # NoRows
      BY <1>1, <1>2, <2>1 DEF NoRows, TextRows, Placed
    <3> QED
      BY <1>3, <2>1, <3>1, <3>2 DEF Selected, RowsOf
  <2>5. RanInv'
    BY <1>3, <2>1, <2>4 DEF RanInv
  <2> QED
    BY <1>3, <1>4, <2>3, <2>5 DEF EditorInv, ScanInv
<1>7. CASE ~(scan.ranges # <<>> /\ scan.chunks > 1)
  <2>1. UNCHANGED <<selection, cursor>>
    BY <1>7 DEF ScanDone
  <2>2. TypeOK'
    BY <1>1, <1>2, <1>3, <1>4, <1>5, <2>1 DEF TypeOK
  <2>3. ~Selected'
    BY <1>1, <1>3, <2>1 DEF ScanInv, Selected, RowsOf
  <2>4. IsWanted(ran)'
    BY <1>2, <1>3, <2>1 DEF IsWanted, IsChunk, AtCursor, RowsOf, AllRows, TextRows
  <2>5. RanInv'
    BY <1>4, <2>3, <2>4 DEF RanInv
  <2> QED
    BY <1>3, <1>4, <2>2, <2>5 DEF EditorInv, ScanInv
<1> QED
  BY <1>6, <1>7

-----------------------------------------------------------------------------
THEOREM Invariance == Spec => []EditorInv
<1>1. Init => EditorInv
  BY InitHolds
<1>2. EditorInv /\ [Next]_vars => EditorInv'
  BY UserSteps, QuietSteps, RunStep, BlankRowStep, QueryRowStep, ScanDoneStep DEF Next
<1> QED
  BY <1>1, <1>2, PTL DEF Spec

\* Whatever is typed, moved, run or loaded, every variable keeps its type, and
\* the cursor and the selection stay inside the text.
THEOREM EditorTypes == Spec => []TypeOK
BY Invariance, PTL DEF EditorInv

\* getSubquery, for every text of any length and every cursor: it finds the
\* chunk at the cursor, else the last chunk when the text ends with it, else
\* everything.
THEOREM ScanIsRight == Spec => []ScanFindsChunk
<1>1. EditorInv => ScanFindsChunk
  BY ChosenIsWanted DEF ScanFindsChunk
<1> QED
  BY <1>1, Invariance, PTL

\* Without a timer running, what is in the editor is what a reload restores.
THEOREM DraftStays == Spec => []DraftIsKept
BY Invariance, PTL DEF EditorInv

\* getEditorSelection: the selection it makes, and the cursor it moves, do not
\* change what is run next.
THEOREM RunAgain == Spec => RunAgainIsSame
<1>1. ASSUME EditorInv, [Next]_vars, ran # NoRows, ran' # NoRows
      PROVE  ran' = ran
  <2>1. TypeOK /\ RanInv /\ ScanInv /\ Placed
    BY <1>1, Places DEF EditorInv
  <2>2. CASE \E op \in Ops : Run(op)
    BY <1>1, <2>1, <2>2 DEF Run, RanInv
  <2>3. CASE ScanDone
    <3>1. ran' = Chosen /\ ~Selected /\ ~Delimited /\ Scanned
      BY <2>1, <2>3 DEF ScanDone, Scanned, ScanInv
    <3>2. IsWanted(Chosen) /\ IsWanted(ran) /\ Chosen \in TextRows
      BY <1>1, <2>1, <3>1, ChosenIsWanted DEF RanInv
    <3>3. ran \in TextRows
      BY <1>1, <2>1 DEF TypeOK
    <3> QED
      BY <2>1, <3>1, <3>2, <3>3, WantedIsOne
  <2>4. CASE Reload \/ Edit \/ MoveCursor \/ Select \/ LocalQueryAnswered
    BY <1>1, <2>4 DEF Reload, Edit, Changed, MoveCursor, Select, LocalQueryAnswered
  <2>5. CASE WriteQuery \/ ClickLocalQuery \/ BlankRow \/ QueryRow \/ UNCHANGED vars
    BY <2>5 DEF WriteQuery, ClickLocalQuery, BlankRow, QueryRow, vars
  <2> QED
    BY <1>1, <2>2, <2>3, <2>4, <2>5 DEF Next
<1> QED
  BY <1>1, Invariance, PTL DEF Spec, RunAgainIsSame

\* Whatever is typed, selected or loaded, and whichever button is pressed: an
\* export reaches PostgreSQL as it was in the editor, and what Explain sends is
\* executed undecoded.
THEOREM QueryReaches == Spec => []QueryArrives
<1>1. ASSUME TypeOK PROVE QueryArrives
  <2>1. request.query \in Seq(Chars)
    BY <1>1 DEF TypeOK, Requests
  <2>2. CASE request.op = "export"
    <3>1. Value = encodeQuery(request.query)
      BY <2>2 DEF Value
    <3> QED
      BY <2>1, <2>2, <3>1, ExportArrives DEF QueryArrives
  <2>3. CASE request.op = "explain"
    <3>1. Value = Utf8Encode(request.query)
      BY <2>3 DEF Value
    <3>2. Value \in Strings
      BY <2>1, <3>1, Utf8Blocks DEF IsEncoding, LaidOut
    <3>3. LET query == cleanQuery(Value)
          IN Executed("explain", Value) = IF query = <<>> THEN <<>> ELSE Explain \o query
      BY <3>2, ExplainIsNotDecoded
    <3> QED
      BY <2>3, <3>3 DEF QueryArrives
  <2> QED
    BY <2>2, <2>3 DEF QueryArrives
<1> QED
  BY <1>1, EditorTypes, PTL
=============================================================================
