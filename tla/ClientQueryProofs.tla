-------------------------- MODULE ClientQueryProofs --------------------------
(***************************************************************************)
(* ModeInv, HistoryInv and UniqueInv are inductive, for any number of      *)
(* requests, connections and idle connections kept: read-only mode is the  *)
(* default of every query as long as requests come one at a time and the   *)
(* client keeps its connection, the history never has a query that was not *)
(* answered, and has none twice while requests come one at a time.         *)
(***************************************************************************)
EXTENDS ClientQuery, TLAPS, FiniteSetTheorems

-----------------------------------------------------------------------------
(***************************************************************************)
(* Types.                                                                  *)
(***************************************************************************)

LEMMA InitType == Init => TypeOK
<1> SUFFICES ASSUME Init PROVE TypeOK
  OBVIOUS
<1>1. Unused \in ConnRecord
  BY DEF Unused, ConnRecord, Blocks
<1>2. [pc |-> "done", query |-> "select", conn |-> NoConn, seen |-> <<>>] \in RequestRecord
  BY DEF RequestRecord, Steps, AllQueries
<1>3. History \in Seq(AllQueries) /\ answered \subseteq AllQueries /\ succeeded \subseteq AllQueries
  BY DEF Init
<1>4. written \subseteq Modes /\ {closed, alone} \subseteq BOOLEAN
  BY DEF Init
<1> QED
  BY <1>1, <1>2, <1>3, <1>4 DEF Init, TypeOK

\* Goto keeps the requests well formed, and changes two fields of one.
LEMMA GotoType ==
    ASSUME TypeOK, NEW r \in Requests, NEW pc \in Steps, Goto(r, pc)
    PROVE  /\ req' \in [Requests -> RequestRecord]
           /\ req'[r].pc = pc /\ req'[r].conn = NoConn
           /\ req'[r].query = req[r].query /\ req'[r].seen = req[r].seen
           /\ \A q \in Requests \ {r} : req'[q] = req[q]
<1> DEFINE new == [req[r] EXCEPT !.pc = pc, !.conn = NoConn]
<1>1. req[r] \in RequestRecord
  BY DEF TypeOK
<1>2. new \in RequestRecord
  BY <1>1 DEF RequestRecord
<1>3. req' = [req EXCEPT ![r] = new]
  BY DEF Goto
<1>4. /\ new.pc = pc /\ new.conn = NoConn
      /\ new.query = req[r].query /\ new.seen = req[r].seen
  BY <1>1 DEF RequestRecord
<1> HIDE DEF new
<1> QED
  BY <1>2, <1>3, <1>4 DEF TypeOK

\* The connection of r becomes conn, and no other changes.
Becomes(r, conn) == conns' = [conns EXCEPT ![req[r].conn] = conn]

\* Release makes it idle, or puts it away when the pool has enough.
LEMMA ReleaseType ==
    ASSUME NEW r \in Requests, NEW readonly \in BOOLEAN, NEW block \in Blocks,
           Release(r, readonly, block)
    PROVE  \E conn \in ConnRecord :
              /\ Becomes(r, conn)
              /\ conn = Unused \/ conn = [state |-> "idle", readonly |-> readonly, block |-> block]
              /\ closed \/ Cardinality(Idle) >= MaxIdle \/ conn # Unused
<1> DEFINE idle == [state |-> "idle", readonly |-> readonly, block |-> block]
<1>1. Unused \in ConnRecord /\ idle \in ConnRecord /\ idle # Unused
  BY DEF Unused, ConnRecord, Blocks
<1>2. CASE closed \/ Cardinality(Idle) >= MaxIdle
  <2>1. Becomes(r, Unused)
    BY <1>2 DEF Release, Becomes
  <2> QED
    BY <1>1, <1>2, <2>1
<1>3. CASE ~(closed \/ Cardinality(Idle) >= MaxIdle)
  <2>1. Becomes(r, idle)
    BY <1>3 DEF Release, Becomes
  <2> QED
    BY <1>1, <2>1
<1> QED
  BY <1>2, <1>3

\* What the server makes of a query is a mode, a block and a default.
LEMMA ServerTypes ==
    ASSUME NEW conn \in ConnRecord, NEW query \in AllQueries
    PROVE  /\ Mode(conn, query) \in Modes
           /\ BlockAfter(conn, query) \in Blocks
           /\ BlocksAfterFailure(conn, query) \subseteq {"none", "aborted"}
           /\ DefaultsAfter(conn, query) \subseteq BOOLEAN
           /\ DefaultsAfterFailure(conn, query) \subseteq BOOLEAN
<1>1. conn.readonly \in BOOLEAN /\ conn.block \in Blocks
  BY DEF ConnRecord
<1>2. Mode(conn, query) \in Modes
  <2>1. CASE query \in Overriding
    BY <2>1 DEF Mode, Modes
  <2>2. CASE query \notin Overriding /\ conn.block \in Modes
    BY <2>2 DEF Mode
  <2>3. CASE query \notin Overriding /\ conn.block \notin Modes
    BY <2>3 DEF Mode, Modes
  <2> QED
    BY <2>1, <2>2, <2>3
<1>3. BlockAfter(conn, query) \in Blocks
  <2>1. Modes \subseteq Blocks /\ "overridden" \in Blocks /\ "none" \in Blocks
    BY DEF Modes, Blocks
  <2> HIDE DEF Blocks
  <2>2. CASE query = "beginWrite"
    BY <2>1, <2>2 DEF BlockAfter
  <2>3. CASE query = "begin"
    BY <1>2, <2>1, <2>3 DEF BlockAfter
  <2>4. CASE query \in {"end", "writeBlock"}
    BY <2>1, <2>4 DEF BlockAfter
  <2>5. CASE query \notin {"beginWrite", "begin", "end", "writeBlock"}
    BY <1>1, <2>5 DEF BlockAfter
  <2> QED
    BY <2>2, <2>3, <2>4, <2>5
<1>4. BlocksAfterFailure(conn, query) \subseteq {"none", "aborted"}
  BY DEF BlocksAfterFailure
<1>5. DefaultsAfter(conn, query) \subseteq BOOLEAN
  <2> DEFINE undone == query = "writeBlock" \/ (query = "end" /\ conn.block # "none")
  <2>1. CASE query = "setOff"
    BY <2>1 DEF DefaultsAfter
  <2>2. CASE query # "setOff" /\ undone
    BY <2>2 DEF DefaultsAfter
  <2>3. CASE query # "setOff" /\ ~undone
    BY <1>1, <2>3 DEF DefaultsAfter
  <2> QED
    BY <2>1, <2>2, <2>3
<1>6. DefaultsAfterFailure(conn, query) \subseteq BOOLEAN
  BY <1>1 DEF DefaultsAfterFailure
<1> QED
  BY <1>2, <1>3, <1>4, <1>5, <1>6

\* A statement that ends leaves its request a next step, and its connection
\* idle or gone.
Ends(r) ==
    \/ ShowMode(r) \/ SetMode(r) \/ ModeFails(r)
    \/ RunQuery(r) \/ QueryFails(r) \/ QueryCutShort(r) \/ StatementLost(r)

LEMMA EndsType ==
    ASSUME TypeOK, NEW r \in Requests, Ends(r)
    PROVE  /\ req[r].conn \in Conns /\ req[r].conn # NoConn /\ req[r].pc \in Statements
           /\ \E pc \in {"done", "set", "run", "checkHistory"} : Goto(r, pc)
           /\ \E conn \in ConnRecord : Becomes(r, conn) /\ conn.state \in {"none", "idle"}
           /\ UNCHANGED <<closed, History, alone>>
<1>1. /\ req[r] \in RequestRecord /\ req[r].query \in AllQueries
      /\ req[r].conn # NoConn /\ req[r].pc \in Statements
  BY DEF Ends, ShowMode, SetMode, ModeFails, RunQuery, QueryFails, QueryCutShort,
         StatementLost, running, Statements, TypeOK, RequestRecord
<1>2. req[r].conn \in Conns
  BY <1>1 DEF RequestRecord
<1>3. \E pc \in {"done", "set", "run", "checkHistory"} : Goto(r, pc)
  BY DEF Ends, ShowMode, SetMode, ModeFails, RunQuery, QueryFails, QueryCutShort,
         StatementLost, AfterMode
<1>4. connOf(r) \in ConnRecord /\ connOf(r).readonly \in BOOLEAN /\ connOf(r).block \in Blocks
  BY <1>2 DEF connOf, TypeOK, ConnRecord
<1>5. \E conn \in ConnRecord : Becomes(r, conn) /\ conn.state \in {"none", "idle"}
  <2>1. CASE StatementLost(r)
    <3>1. Becomes(r, Unused) /\ Unused \in ConnRecord /\ Unused.state = "none"
      BY <2>1 DEF StatementLost, Becomes, Unused, ConnRecord, Blocks
    <3> QED
      BY <3>1
  <2>2. CASE ~StatementLost(r)
    <3>1. PICK readonly \in BOOLEAN, block \in Blocks : Release(r, readonly, block)
      <4>1. CASE ShowMode(r) \/ SetMode(r) \/ ModeFails(r)
        BY <4>1, <1>4 DEF ShowMode, SetMode, ModeFails, GiveBack
      <4>2. CASE RunQuery(r)
        BY <4>2, <1>1, <1>4, ServerTypes DEF RunQuery
      <4>3. CASE QueryFails(r) \/ QueryCutShort(r)
        <5>1. BlocksAfterFailure(connOf(r), req[r].query) \subseteq Blocks
          BY <1>1, <1>4, ServerTypes DEF Blocks
        <5> QED
          BY <4>3, <5>1, <1>1, <1>4, ServerTypes DEF QueryFails, QueryCutShort, ReleaseFailed
      <4> QED
        BY <2>2, <4>1, <4>2, <4>3 DEF Ends
    <3> QED
      BY <3>1, ReleaseType DEF Unused
  <2> QED
    BY <2>1, <2>2
<1>6. UNCHANGED <<closed, History, alone>>
  BY DEF Ends, ShowMode, SetMode, ModeFails, RunQuery, QueryFails, QueryCutShort,
         StatementLost, ghosts
<1> QED
  BY <1>1, <1>2, <1>3, <1>5, <1>6

\* Every step keeps the types.
LEMMA NextType == TypeOK /\ [Next]_vars => TypeOK'
<1> SUFFICES ASSUME TypeOK, [Next]_vars PROVE TypeOK'
  OBVIOUS
<1>a. \A r \in Requests : req[r] \in RequestRecord
  BY DEF TypeOK
<1>b. \A c \in Conns : conns[c] \in ConnRecord
  BY DEF TypeOK
<1>d. Unused \in ConnRecord
  BY DEF Unused, ConnRecord, Blocks
<1>1. ASSUME NEW r \in Requests, Query(r) PROVE TypeOK'
  <2>1. PICK query \in AllQueries, pc \in {"show", "run"} :
            req' = [req EXCEPT ![r].pc = pc, ![r].query = query]
    BY <1>1, QueryAssumption DEF Query
  <2>2. [req[r] EXCEPT !.pc = pc, !.query = query] \in RequestRecord
    BY <1>a DEF RequestRecord, Steps
  <2>3. req' \in [Requests -> RequestRecord]
    BY <2>1, <2>2 DEF TypeOK
  <2>4. alone' \in BOOLEAN
    BY <1>1 DEF Query
  <2> QED
    BY <1>1, <2>3, <2>4 DEF Query, TypeOK
<1>2. ASSUME NEW r \in Requests, Acquire(r) PROVE TypeOK'
  <2>1. PICK c \in Conns : /\ conns' = [conns EXCEPT ![c].state = "busy"]
                          /\ req' = [req EXCEPT ![r].conn = c]
    BY <1>2 DEF Acquire
  <2>2. [conns[c] EXCEPT !.state = "busy"] \in ConnRecord
    BY <1>b DEF ConnRecord
  <2>3. [req[r] EXCEPT !.conn = c] \in RequestRecord
    BY <1>a DEF RequestRecord
  <2> QED
    BY <1>2, <2>1, <2>2, <2>3 DEF Acquire, TypeOK, ghosts
<1>3. ASSUME NEW r \in Requests, AcquireFails(r) PROVE TypeOK'
  BY <1>3, GotoType DEF AcquireFails, Steps, TypeOK, ghosts
<1>4. ASSUME NEW r \in Requests, Ends(r) PROVE TypeOK'
  <2>1. PICK pc \in Steps : Goto(r, pc)
    BY <1>4, EndsType DEF Steps
  <2>2. PICK conn \in ConnRecord : Becomes(r, conn)
    BY <1>4, EndsType
  <2>3. conns' \in [Conns -> ConnRecord] /\ req' \in [Requests -> RequestRecord]
    BY <2>1, <2>2, GotoType DEF Becomes, TypeOK
  <2>4. req[r].query \in AllQueries /\ connOf(r) \in ConnRecord
    BY <1>a, <1>b, <1>4, EndsType DEF RequestRecord, connOf
  <2>5. Mode(connOf(r), req[r].query) \in Modes
    BY <2>4, ServerTypes
  <2>6. /\ answered' \subseteq AllQueries /\ succeeded' \subseteq AllQueries
        /\ written' \subseteq Modes
    BY <1>4, <2>4, <2>5
    DEF TypeOK, Ends, ShowMode, SetMode, ModeFails, RunQuery, QueryFails, QueryCutShort,
        StatementLost, ghosts
  <2>7. UNCHANGED <<closed, History, alone>>
    BY <1>4, EndsType
  <2> QED
    BY <2>3, <2>6, <2>7 DEF TypeOK
<1>7. ASSUME NEW r \in Requests, CheckHistory(r) PROVE TypeOK'
  <2>1. PICK pc \in Steps : Goto(r, pc)
    BY <1>7 DEF CheckHistory, Steps
  <2> QED
    BY <1>7, <2>1, GotoType DEF CheckHistory, TypeOK, ghosts
<1>8. ASSUME NEW r \in Requests, ReadHistory(r) PROVE TypeOK'
  <2>1. [req[r] EXCEPT !.pc = "save", !.seen = History] \in RequestRecord
    BY <1>a DEF TypeOK, RequestRecord, Steps
  <2> QED
    BY <1>8, <2>1 DEF ReadHistory, TypeOK, ghosts
<1>9. ASSUME NEW r \in Requests, OverwriteRecord(r) PROVE TypeOK'
  <2>1. Len(req[r].seen) \in Nat /\ req[r].query \in AllQueries
    BY <1>a DEF RequestRecord
  <2>2. Len(req[r].seen) + 1 \in 1..Len(History)
    BY <1>9, <2>1 DEF OverwriteRecord, TypeOK
  <2>3. History' \in Seq(AllQueries)
    BY <1>9, <2>1, <2>2 DEF OverwriteRecord, TypeOK
  <2> QED
    BY <1>9, <2>3 DEF OverwriteRecord, TypeOK, ghosts
<1>10. ASSUME NEW r \in Requests, SaveHistory(r) PROVE TypeOK'
  <2>0. <<>> \in Seq(AllQueries)
    OBVIOUS
  <2>1. [req[r] EXCEPT !.pc = "done", !.seen = <<>>] \in RequestRecord
    BY <1>a, <2>0 DEF RequestRecord, Steps
  <2>2. req' \in [Requests -> RequestRecord]
    BY <1>10, <2>1 DEF SaveHistory, TypeOK
  <2>3. req[r].seen \in Seq(AllQueries) /\ req[r].query \in AllQueries
    BY <1>a DEF RequestRecord
  <2>4. PICK array \in Seq(AllQueries) :
            /\ Len(array) >= Len(req[r].seen)
            /\ History' = Append(SubSeq(array, 1, Len(req[r].seen)), req[r].query)
    BY <1>10, <2>3 DEF SaveHistory, TypeOK
  <2>5. SubSeq(array, 1, Len(req[r].seen)) \in Seq(AllQueries)
    BY <2>3, <2>4
  <2>6. History' \in Seq(AllQueries)
    BY <2>3, <2>4, <2>5
  <2> QED
    BY <1>10, <2>2, <2>6 DEF SaveHistory, TypeOK, ghosts
<1>11. ASSUME NEW c \in Conns, IdleLost(c) PROVE TypeOK'
  BY <1>11, <1>d DEF IdleLost, TypeOK
<1>12. CASE CloseClient
  BY <1>12, <1>b, <1>d DEF CloseClient, TypeOK, ghosts
<1>13. CASE UNCHANGED vars
  BY <1>13 DEF vars, TypeOK
<1> QED
  BY <1>1, <1>2, <1>3, <1>4, <1>7, <1>8, <1>9, <1>10, <1>11, <1>12, <1>13
  DEF Next, Statement, Record, Ends

-----------------------------------------------------------------------------
(***************************************************************************)
(* The history.                                                            *)
(***************************************************************************)

Recording == {"checkHistory", "append", "save"}

\* A step that leaves the history and what requests read of it alone, and
\* starts to record a query only if it is answered.
LEMMA KeepHistory ==
    ASSUME HistoryInv, TypeOK', History' = History, answered \subseteq answered',
           \A r \in Requests :
              /\ req'[r].seen = req[r].seen
              /\ req'[r].pc \in Recording =>
                    req'[r].query \in answered' \/
                    (req[r].pc \in Recording /\ req'[r].query = req[r].query)
    PROVE  HistoryInv'
<1>1. \A r \in Requests : RecordedOf(req[r])'
  BY DEF HistoryInv, RecordedOf, Recording
<1> QED
  BY <1>1 DEF HistoryInv

LEMMA NextHistory == HistoryInv /\ [Next]_vars => HistoryInv'
<1> SUFFICES ASSUME HistoryInv, [Next]_vars PROVE HistoryInv'
  OBVIOUS
<1>t. TypeOK /\ TypeOK'
  BY NextType DEF HistoryInv
<1>a. \A r \in Requests : req[r] \in RequestRecord /\ RecordedOf(req[r])
  BY <1>t DEF TypeOK, HistoryInv
<1>1. ASSUME NEW r \in Requests, Query(r) PROVE HistoryInv'
  <2>1. PICK query \in AllQueries, pc \in {"show", "run"} :
            req' = [req EXCEPT ![r].pc = pc, ![r].query = query]
    BY <1>1, QueryAssumption DEF Query
  <2>2. \A q \in Requests : req'[q].seen = req[q].seen
    BY <2>1, <1>t DEF TypeOK, RequestRecord
  <2>3. \A q \in Requests : req'[q].pc \in Recording => req'[q] = req[q]
    BY <2>1, <1>t DEF TypeOK, RequestRecord, Recording
  <2> QED
    BY <1>1, <1>t, <2>2, <2>3, KeepHistory DEF Query
<1>2. ASSUME NEW r \in Requests, Acquire(r) PROVE HistoryInv'
  <2>1. \A q \in Requests : /\ req'[q].seen = req[q].seen
                            /\ req'[q].pc = req[q].pc
                            /\ req'[q].query = req[q].query
    BY <1>2, <1>t DEF Acquire, TypeOK, RequestRecord
  <2> QED
    BY <1>2, <1>t, <2>1, KeepHistory DEF Acquire, ghosts
<1>3. ASSUME NEW r \in Requests, NEW pc \in Steps, Goto(r, pc),
             History' = History, answered \subseteq answered',
             pc \in Recording => req[r].query \in answered'
      PROVE HistoryInv'
  <2>1. \A q \in Requests :
           /\ req'[q].seen = req[q].seen
           /\ req'[q].query = req[q].query
           /\ q # r => req'[q].pc = req[q].pc
    BY <1>3, <1>t, GotoType
  <2>2. req'[r].pc = pc
    BY <1>3, <1>t, GotoType
  <2> QED
    BY <1>3, <1>t, <2>1, <2>2, KeepHistory
<1>4. ASSUME NEW r \in Requests, AcquireFails(r) PROVE HistoryInv'
  BY <1>3, <1>4 DEF AcquireFails, Steps, Recording, ghosts
<1>5. ASSUME NEW r \in Requests, Ends(r) PROVE HistoryInv'
  <2>1. PICK pc \in Steps :
            /\ Goto(r, pc) /\ answered \subseteq answered'
            /\ pc \in Recording => req[r].query \in answered'
    <3>1. CASE ShowMode(r) \/ SetMode(r) \/ ModeFails(r) \/ QueryFails(r)
      BY <3>1
      DEF ShowMode, SetMode, ModeFails, QueryFails, AfterMode, Steps, Recording, ghosts
    <3>2. CASE RunQuery(r) \/ QueryCutShort(r) \/ StatementLost(r)
      BY <3>2 DEF RunQuery, QueryCutShort, StatementLost, Steps, Recording
    <3> QED
      BY <1>5, <3>1, <3>2 DEF Ends
  <2>2. History' = History
    BY <1>5, <1>t, EndsType
  <2> QED
    BY <1>3, <2>1, <2>2
<1>6. ASSUME NEW r \in Requests, CheckHistory(r) PROVE HistoryInv'
  <2>1. PICK pc \in Steps : Goto(r, pc)
    BY <1>6 DEF CheckHistory, Steps
  <2>2. req[r].query \in answered /\ UNCHANGED <<History, answered>>
    BY <1>6, <1>a DEF CheckHistory, RecordedOf, ghosts
  <2> QED
    BY <1>3, <2>1, <2>2
<1>7. ASSUME NEW r \in Requests, ReadHistory(r) PROVE HistoryInv'
  <2>1. UNCHANGED <<History, answered>> /\ req[r].query \in answered
    BY <1>7, <1>a DEF ReadHistory, RecordedOf, ghosts
  <2>2. req'[r].query = req[r].query /\ req'[r].seen = History
    BY <1>7, <1>a, <1>t DEF ReadHistory, TypeOK, RequestRecord
  <2>3. \A q \in Requests \ {r} : req'[q] = req[q]
    BY <1>7, <1>t DEF ReadHistory, TypeOK
  <2>4. RecordedOf(req[r])'
    BY <2>1, <2>2 DEF RecordedOf, HistoryInv
  <2>5. \A q \in Requests : RecordedOf(req[q])'
    BY <1>a, <2>1, <2>3, <2>4 DEF RecordedOf
  <2> QED
    BY <1>t, <2>1, <2>5 DEF HistoryInv
<1>8. ASSUME NEW r \in Requests, OverwriteRecord(r) PROVE HistoryInv'
  <2>1. req[r].query \in answered /\ UNCHANGED <<req, answered>>
    BY <1>8, <1>a DEF OverwriteRecord, RecordedOf, ghosts
  <2>2. /\ DOMAIN History' = DOMAIN History
        /\ \A i \in DOMAIN History : History'[i] \in {History[i], req[r].query}
    BY <1>8, <1>t DEF OverwriteRecord, TypeOK
  <2> QED
    BY <1>a, <1>t, <2>1, <2>2 DEF HistoryInv, RecordedOf
<1>9. ASSUME NEW r \in Requests, SaveHistory(r) PROVE HistoryInv'
  <2>1. req[r].query \in answered /\ UNCHANGED answered
    BY <1>9, <1>a DEF SaveHistory, RecordedOf, ghosts
  <2> DEFINE n == Len(req[r].seen)
  <2>2. /\ req[r].seen \in Seq(AllQueries) /\ History \in Seq(AllQueries)
        /\ req[r].query \in AllQueries
    BY <1>a, <1>t DEF RequestRecord, TypeOK
  <2>3. PICK array \in {req[r].seen, History} :
            /\ Len(array) >= n
            /\ History' = Append(SubSeq(array, 1, n), req[r].query)
    BY <1>9 DEF SaveHistory
  <2>4. array \in Seq(AllQueries) /\ \A i \in DOMAIN array : array[i] \in answered
    BY <1>a, <2>2 DEF HistoryInv, RecordedOf
  <2>5. n \in Nat /\ n <= Len(array) /\ Len(array) \in Nat
    BY <2>2, <2>3, <2>4
  <2> HIDE DEF n
  <2>6. /\ SubSeq(array, 1, n) \in Seq(AllQueries)
        /\ Len(SubSeq(array, 1, n)) = n
        /\ \A i \in 1..n : SubSeq(array, 1, n)[i] = array[i]
    BY <2>4, <2>5
  <2>7. /\ DOMAIN History' = 1..(n + 1)
        /\ \A i \in 1..n : History'[i] = array[i]
        /\ History'[n + 1] = req[r].query
    BY <2>2, <2>3, <2>5, <2>6
  <2>8. \A i \in DOMAIN History' : History'[i] \in answered'
    <3>1. \A i \in 1..n : i \in DOMAIN array
      BY <2>4, <2>5
    <3>2. \A i \in 1..(n + 1) : i \in 1..n \/ i = n + 1
      BY <2>5
    <3> QED
      BY <2>1, <2>4, <2>7, <3>1, <3>2
  <2>9. req'[r].seen = <<>> /\ req'[r].pc = "done"
    BY <1>9, <1>t DEF SaveHistory, TypeOK, RequestRecord
  <2>10. \A q \in Requests \ {r} : req'[q] = req[q]
    BY <1>9, <1>t DEF SaveHistory, TypeOK
  <2>11. \A q \in Requests : RecordedOf(req[q])'
    BY <1>a, <2>1, <2>9, <2>10 DEF RecordedOf
  <2> QED
    BY <1>t, <2>8, <2>11 DEF HistoryInv
<1>10. CASE (\E c \in Conns : IdleLost(c)) \/ CloseClient \/ UNCHANGED vars
  BY <1>10, <1>t, KeepHistory DEF IdleLost, CloseClient, vars, ghosts
<1> QED
  BY <1>1, <1>2, <1>4, <1>5, <1>6, <1>7, <1>8, <1>9, <1>10
  DEF Next, Statement, Record, Ends

\* However requests interleave, statements fail and connections go, the history
\* has only queries that were answered without an error.
THEOREM HistoryOnlyAnswered == Spec => []HistoryAnswered
<1>1. Init => HistoryInv
  <2> SUFFICES ASSUME Init PROVE HistoryInv
    OBVIOUS
  <2>1. \A r \in Requests : req[r].pc = "done" /\ req[r].seen = <<>>
    BY DEF Init
  <2>2. \A r \in Requests : RecordedOf(req[r])
    BY <2>1 DEF RecordedOf
  <2> QED
    BY <2>2, InitType DEF Init, HistoryInv
<1>2. HistoryInv => HistoryAnswered
  BY DEF HistoryInv, HistoryAnswered
<1> QED
  BY <1>1, <1>2, NextHistory, PTL DEF Spec

-----------------------------------------------------------------------------
(***************************************************************************)
(* Read-only mode.                                                         *)
(***************************************************************************)

\* While the client is used by one request at a time, the pool has nothing idle
\* while a statement runs, and keeps its connection.
LEMMA NoneIdle ==
    ASSUME ModeInv, alone, NEW r \in Requests, req[r].conn # NoConn
    PROVE  /\ Idle = {}
           /\ ~(Cardinality(Idle) >= MaxIdle)
           /\ \A c \in Conns : conns[c].state # "none" => c = req[r].conn
<1>1. req[r].conn \in Conns /\ conns[req[r].conn].state = "busy"
  BY DEF ModeInv, Busy, TypeOK, RequestRecord
<1>2. \A c \in Conns : conns[c].state # "none" => c = req[r].conn
  BY <1>1 DEF ModeInv, OneConn
<1>3. Idle = {}
  BY <1>1, <1>2 DEF Idle
<1>4. Cardinality(Idle) = 0
  BY <1>3, FS_EmptySet
<1> QED
  BY <1>2, <1>3, <1>4, QueryAssumption

\* In read-only mode alone, a statement that ends leaves the next one a connection
\* on which the default is on, and a write was in a transaction of its own mode.
LEMMA EndsForced ==
    ASSUME ModeInv, NEW r \in Requests, Ends(r)
    PROVE  \E pc \in Steps, conn \in ConnRecord :
              /\ Goto(r, pc) /\ Becomes(r, conn) /\ conn.state \in {"none", "idle"}
              /\ ReadOnly /\ alone =>
                    /\ written' \subseteq {"overridden"}
                    /\ conn.block # "readWrite"
                    /\ pc \in {"set", "run"} =>
                          closed \/ (conn.state = "idle" /\ Ready(conn, pc))
<1>t. TypeOK
  BY DEF ModeInv
<1>1. PICK pc \in {"done", "set", "run", "checkHistory"} : Goto(r, pc)
  BY <1>t, EndsType
<1>2. PICK conn \in ConnRecord : Becomes(r, conn) /\ conn.state \in {"none", "idle"}
  BY <1>t, EndsType
<1>3. pc \in Steps
  BY DEF Steps
<1>4. req[r].conn \in Conns /\ req[r].conn # NoConn /\ req[r].query \in AllQueries
  BY <1>t, EndsType DEF TypeOK, RequestRecord
<1>5. SUFFICES ASSUME ReadOnly, alone
      PROVE \E step \in Steps, new \in ConnRecord :
              /\ Goto(r, step) /\ Becomes(r, new) /\ new.state \in {"none", "idle"}
              /\ written' \subseteq {"overridden"}
              /\ new.block # "readWrite"
              /\ step \in {"set", "run"} =>
                    closed \/ (new.state = "idle" /\ Ready(new, step))
  BY <1>1, <1>2, <1>3
<1>6. /\ connOf(r) \in ConnRecord /\ connOf(r).readonly \in BOOLEAN
      /\ connOf(r).block \in Blocks \ {"readWrite"}
  BY <1>t, <1>4, <1>5 DEF connOf, TypeOK, ConnRecord, ModeInv, Forced
<1>7. written \subseteq {"overridden"} /\ ForcedOf(req[r])
  BY <1>5 DEF ModeInv, Forced
<1>8. ASSUME NEW readonly \in BOOLEAN, NEW block \in Blocks \ {"readWrite"},
             Release(r, readonly, block)
      PROVE  \E new \in ConnRecord :
                /\ Becomes(r, new) /\ new.state \in {"none", "idle"}
                /\ new.block # "readWrite"
                /\ closed \/ (new.state = "idle" /\ new.readonly = readonly /\ new.block = block)
  BY <1>4, <1>5, <1>8, ReleaseType, NoneIdle DEF Unused
<1>9. CASE ShowMode(r)
  <2>1. PICK new \in ConnRecord :
           /\ Becomes(r, new) /\ new.state \in {"none", "idle"} /\ new.block # "readWrite"
           /\ closed \/ (new.state = "idle" /\ new.readonly = connOf(r).readonly
                          /\ new.block = connOf(r).block)
    BY <1>6, <1>8, <1>9 DEF ShowMode, GiveBack
  <2>2. connOf(r).block # "aborted" /\ written' = written
    BY <1>9 DEF ShowMode, aborted, ghosts
  <2>3. \E step \in Steps : Goto(r, step) /\ (step = "run" => connOf(r).readonly)
    BY <1>9 DEF ShowMode, AfterMode, Steps
  <2> QED
    BY <1>7, <2>1, <2>2, <2>3 DEF Ready
<1>10. CASE SetMode(r)
  <2>1. PICK new \in ConnRecord :
           /\ Becomes(r, new) /\ new.state \in {"none", "idle"} /\ new.block # "readWrite"
           /\ closed \/ (new.state = "idle" /\ new.readonly /\ new.block = connOf(r).block)
    BY <1>6, <1>8, <1>10 DEF SetMode
  <2>2. connOf(r).block # "aborted" /\ written' = written
    BY <1>10 DEF SetMode, aborted, ghosts
  <2>3. \E step \in Steps : Goto(r, step)
    BY <1>1, <1>3
  <2> QED
    BY <1>7, <2>1, <2>2, <2>3 DEF Ready
<1>11. ASSUME NEW step \in Steps \ {"set", "run"}, Goto(r, step),
              NEW readonly \in BOOLEAN, NEW block \in Blocks \ {"readWrite"},
              Release(r, readonly, block), written' \subseteq {"overridden"}
       PROVE  \E s \in Steps, new \in ConnRecord :
                 /\ Goto(r, s) /\ Becomes(r, new) /\ new.state \in {"none", "idle"}
                 /\ written' \subseteq {"overridden"}
                 /\ new.block # "readWrite"
                 /\ s \in {"set", "run"} => closed \/ (new.state = "idle" /\ Ready(new, s))
  BY <1>8, <1>11
<1>12. CASE ModeFails(r)
  BY <1>6, <1>7, <1>11, <1>12 DEF ModeFails, GiveBack, Steps, ghosts
<1>13. CASE RunQuery(r)
  <2>1. connOf(r).readonly /\ req[r].query \in AllQueries
    BY <1>4, <1>7, <1>13 DEF RunQuery, running, ForcedOf, Ready, connOf
  <2>2. Mode(connOf(r), req[r].query) \in {"readOnly", "overridden"}
    <3>1. CASE req[r].query \in Overriding
      BY <3>1 DEF Mode
    <3>2. CASE req[r].query \notin Overriding /\ connOf(r).block \in Modes
      BY <1>6, <3>2 DEF Mode, Modes
    <3>3. CASE req[r].query \notin Overriding /\ connOf(r).block \notin Modes
      BY <2>1, <3>3 DEF Mode
    <3> QED
      BY <3>1, <3>2, <3>3
  <2>3. written' \subseteq {"overridden"}
    BY <1>7, <1>13, <2>2 DEF RunQuery, Permitted
  <2>4. BlockAfter(connOf(r), req[r].query) \in Blocks \ {"readWrite"}
    <3>1. BlockAfter(connOf(r), req[r].query) # "readWrite"
      <4>1. CASE req[r].query = "beginWrite"
        BY <4>1 DEF BlockAfter
      <4>2. CASE req[r].query = "begin"
        BY <4>2, <2>2 DEF BlockAfter
      <4>3. CASE req[r].query \in {"end", "writeBlock"}
        BY <4>3 DEF BlockAfter
      <4>4. CASE req[r].query \notin {"beginWrite", "begin", "end", "writeBlock"}
        BY <1>6, <4>4 DEF BlockAfter
      <4> QED
        BY <4>1, <4>2, <4>3, <4>4
    <3> QED
      BY <1>4, <1>6, <3>1, ServerTypes
  <2>5. PICK readonly \in BOOLEAN : Release(r, readonly, BlockAfter(connOf(r), req[r].query))
    BY <1>4, <1>6, <1>13, ServerTypes DEF RunQuery
  <2>6. Goto(r, "checkHistory") /\ "checkHistory" \in Steps \ {"set", "run"}
    BY <1>13 DEF RunQuery, Steps
  <2> QED
    BY <1>11, <2>3, <2>4, <2>5, <2>6
<1>14. CASE QueryFails(r) \/ QueryCutShort(r)
  <2>1. PICK readonly \in BOOLEAN, block \in {"none", "aborted"} : Release(r, readonly, block)
    BY <1>4, <1>6, <1>14, ServerTypes DEF QueryFails, QueryCutShort, ReleaseFailed
  <2>2. block \in Blocks \ {"readWrite"}
    BY DEF Blocks
  <2>3. \E step \in Steps \ {"set", "run"} : Goto(r, step)
    BY <1>14 DEF QueryFails, QueryCutShort, Steps
  <2>4. written' \subseteq {"overridden"}
    BY <1>7, <1>14 DEF QueryFails, QueryCutShort, ghosts
  <2> QED
    BY <1>11, <2>1, <2>2, <2>3, <2>4
<1>15. CASE StatementLost(r)
  <2>1. Becomes(r, Unused) /\ Unused \in ConnRecord
    BY <1>15 DEF StatementLost, Becomes, Unused, ConnRecord, Blocks
  <2>2. \E step \in Steps \ {"set", "run"} : Goto(r, step)
    BY <1>15 DEF StatementLost, Steps
  <2>3. written' = written
    BY <1>15 DEF StatementLost
  <2> QED
    BY <1>7, <2>1, <2>2, <2>3 DEF Unused
<1> QED
  BY <1>9, <1>10, <1>12, <1>13, <1>14, <1>15 DEF Ends

\* A statement that ends leaves its connection idle or gone.  What is left to show
\* is what becomes of the connection that SET or the query is about to take.
LEMMA ReleaseMode ==
    ASSUME ModeInv, TypeOK', NEW r \in Requests, req[r].conn # NoConn,
           NEW conn \in ConnRecord, Becomes(r, conn), conn.state \in {"none", "idle"},
           NEW pc \in Steps, Goto(r, pc),
           UNCHANGED <<closed, alone>>,
           ReadOnly /\ alone =>
              /\ written' \subseteq {"overridden"}
              /\ conn.block # "readWrite"
              /\ pc \in {"set", "run"} => closed \/ (conn.state = "idle" /\ Ready(conn, pc))
    PROVE  ModeInv'
<1> DEFINE c == req[r].conn
<1>t. TypeOK
  BY DEF ModeInv
<1>1. c \in Conns /\ c # NoConn
  BY <1>t DEF TypeOK, RequestRecord
<1>2. /\ req'[r].pc = pc /\ req'[r].conn = NoConn
      /\ \A q \in Requests \ {r} : req'[q] = req[q]
  BY <1>t, GotoType
<1>3. conns'[c] = conn /\ \A d \in Conns \ {c} : conns'[d] = conns[d]
  BY <1>t, <1>1 DEF Becomes, TypeOK
<1>4. conns'[c].state # "busy"
  BY <1>3
<1>5. \A q \in Requests \ {r} : req[q].conn # NoConn => req[q].conn # c
  BY <1>1 DEF ModeInv, Busy
<1>6. conns[c].state = "busy" /\ req[r].pc # "done"
  BY <1>1 DEF ModeInv, Busy, Statements
<1> HIDE DEF c
<1>7. Busy'
  <2>1. ASSUME NEW q \in Requests, req'[q].conn # NoConn
        PROVE  req'[q].pc \in Statements /\ conns'[req'[q].conn].state = "busy"
    <3>1. q # r /\ req'[q] = req[q] /\ req[q].conn \in Conns \ {c}
      BY <2>1, <1>2, <1>5, <1>t DEF TypeOK, RequestRecord
    <3> QED
      BY <2>1, <3>1, <1>3 DEF ModeInv, Busy
  <2>2. ASSUME NEW d \in Conns, conns'[d].state = "busy"
        PROVE  \E q \in Requests : req'[q].conn = d
    <3>1. d # c /\ conns[d].state = "busy"
      BY <2>2, <1>3, <1>4
    <3>2. PICK q \in Requests : req[q].conn = d
      BY <3>1 DEF ModeInv, Busy
    <3>3. q # r
      BY <3>1, <3>2 DEF c
    <3> QED
      BY <3>2, <3>3, <1>2
  <2>3. \A p, q \in Requests :
           req'[p].conn = req'[q].conn /\ req'[p].conn # NoConn => p = q
    BY <1>2 DEF ModeInv, Busy
  <2> QED
    BY <2>1, <2>2, <2>3 DEF Busy
<1>8. OneRequest'
  BY <1>2, <1>6 DEF ModeInv, OneRequest
<1>9. OneConn'
  BY <1>3, <1>6 DEF ModeInv, OneConn
<1>10. ASSUME ReadOnly, alone, NEW q \in Requests PROVE ForcedOf(req[q])'
  <2>1. CASE q = r
    <3>1. pc \in {"set", "run"} =>
             closed \/ \E d \in Conns : conns'[d].state = "idle" /\ Ready(conns'[d], pc)
      BY <1>1, <1>3, <1>10
    <3> QED
      BY <1>2, <2>1, <3>1 DEF ForcedOf, Ready
  <2>2. CASE q # r
    <3>1. req'[q].pc = "done"
      BY <1>2, <1>6, <1>10, <2>2 DEF ModeInv, OneRequest
    <3> QED
      BY <3>1 DEF ForcedOf
  <2> QED
    BY <2>1, <2>2
<1>11. ReadOnly /\ alone => \A d \in Conns : conns'[d].block # "readWrite"
  BY <1>3 DEF ModeInv, Forced
<1>12. Forced'
  BY <1>10, <1>11 DEF Forced
<1> QED
  BY <1>7, <1>8, <1>9, <1>12 DEF ModeInv

\* A step that ends a request, or goes on with one, and leaves the connections
\* alone; the request has no connection, and is not about to run a query.
LEMMA LocalMode ==
    ASSUME ModeInv, TypeOK', NEW r \in Requests, UNCHANGED <<conns, closed, written>>,
           alone' => alone,
           req'[r].conn = NoConn, req[r].conn = NoConn,
           \A q \in Requests \ {r} : req'[q] = req[q],
           alone' /\ req'[r].pc # "done" =>
              \A q \in Requests \ {r} : req[q].pc = "done",
           ReadOnly /\ alone' => req'[r].pc \notin {"set", "run"}
    PROVE  ModeInv'
<1>1. Busy'
  BY DEF ModeInv, Busy
<1>2. OneRequest'
  BY DEF ModeInv, OneRequest
<1>3. OneConn'
  BY DEF ModeInv, OneConn
<1>4. ASSUME ReadOnly, alone', NEW q \in Requests PROVE ForcedOf(req[q])'
  BY <1>4 DEF ModeInv, Forced, ForcedOf
<1>5. Forced'
  BY <1>4 DEF ModeInv, Forced
<1> QED
  BY <1>1, <1>2, <1>3, <1>5 DEF ModeInv

LEMMA NextMode == ModeInv /\ [Next]_vars => ModeInv'
<1> SUFFICES ASSUME ModeInv, [Next]_vars PROVE ModeInv'
  OBVIOUS
<1> USE QueryAssumption
<1>t. TypeOK /\ TypeOK'
  BY NextType DEF ModeInv
<1>a. \A r \in Requests : req[r] \in RequestRecord
  BY <1>t DEF TypeOK
<1>b. \A c \in Conns : conns[c] \in ConnRecord
  BY <1>t DEF TypeOK
<1>1. ASSUME NEW r \in Requests, Query(r) PROVE ModeInv'
  <2>1. PICK query \in AllQueries :
            req' = [req EXCEPT ![r].pc = IF ReadOnly THEN "show" ELSE "run",
                               ![r].query = query]
    BY <1>1, QueryAssumption DEF Query
  <2>2. /\ req'[r].pc = IF ReadOnly THEN "show" ELSE "run"
        /\ req'[r].conn = req[r].conn
        /\ \A q \in Requests \ {r} : req'[q] = req[q]
    BY <2>1, <1>t DEF TypeOK, RequestRecord
  <2>3. req[r].conn = NoConn
    BY <1>1 DEF Query, ModeInv, Busy, Statements
  <2>4. UNCHANGED <<conns, closed, written>> /\ (alone' => alone)
    BY <1>1 DEF Query
  <2>5. alone' => \A q \in Requests : req[q].pc = "done"
    BY <1>1 DEF Query
  <2>6. req'[r].conn = NoConn /\ (ReadOnly => req'[r].pc = "show")
    BY <2>2, <2>3
  <2> QED
    BY <1>t, <2>2, <2>3, <2>4, <2>5, <2>6, LocalMode
<1>2. ASSUME NEW r \in Requests, Acquire(r) PROVE ModeInv'
  <2>1. PICK c \in Conns : /\ IF Idle # {} THEN c \in Idle ELSE conns[c].state = "none"
                          /\ conns' = [conns EXCEPT ![c].state = "busy"]
                          /\ req' = [req EXCEPT ![r].conn = c]
    BY <1>2 DEF Acquire
  <2>2. /\ conns'[c].state = "busy" /\ conns'[c].readonly = conns[c].readonly
        /\ conns'[c].block = conns[c].block
        /\ \A d \in Conns \ {c} : conns'[d] = conns[d]
    BY <2>1, <1>t DEF TypeOK, ConnRecord
  <2>3. /\ req'[r].conn = c /\ req'[r].pc = req[r].pc
        /\ \A q \in Requests \ {r} : req'[q] = req[q]
    BY <2>1, <1>t DEF TypeOK, RequestRecord
  <2>4. /\ req[r].pc \in Statements /\ req[r].conn = NoConn /\ ~closed
        /\ UNCHANGED <<closed, written, alone>>
    BY <1>2 DEF Acquire, ghosts
  <2>5. conns[c].state # "busy"
    BY <2>1 DEF Idle
  <2>6. \A q \in Requests : req[q].conn # c
    BY <2>5 DEF ModeInv, Busy
  <2>7. Busy'
    <3>1. ASSUME NEW q \in Requests, req'[q].conn # NoConn
          PROVE  req'[q].pc \in Statements /\ conns'[req'[q].conn].state = "busy"
      <4>1. CASE q = r
        BY <4>1, <2>2, <2>3, <2>4
      <4>2. CASE q # r
        <5>1. req'[q] = req[q] /\ req[q].conn \in Conns \ {c}
          BY <3>1, <4>2, <2>3, <2>6, <1>a DEF RequestRecord
        <5> QED
          BY <3>1, <5>1, <2>2 DEF ModeInv, Busy
      <4> QED
        BY <4>1, <4>2
    <3>2. ASSUME NEW d \in Conns, conns'[d].state = "busy"
          PROVE  \E q \in Requests : req'[q].conn = d
      <4>1. CASE d = c
        BY <4>1, <2>3
      <4>2. CASE d # c
        <5>1. PICK q \in Requests : req[q].conn = d
          BY <3>2, <4>2, <2>2 DEF ModeInv, Busy
        <5>2. d # NoConn
          OBVIOUS
        <5> QED
          BY <5>1, <5>2, <2>3, <2>4
      <4> QED
        BY <4>1, <4>2
    <3>3. \A p, q \in Requests :
             req'[p].conn = req'[q].conn /\ req'[p].conn # NoConn => p = q
      BY <2>3, <2>6 DEF ModeInv, Busy
    <3> QED
      BY <3>1, <3>2, <3>3 DEF Busy
  <2>8. OneRequest'
    BY <2>3, <2>4 DEF ModeInv, OneRequest
  <2>9. ASSUME alone, NEW d \in Conns, conns[d].state # "none" PROVE c = d
    <3>1. CASE Idle # {}
      BY <2>1, <2>9, <3>1 DEF ModeInv, OneConn, Idle
    <3>2. CASE Idle = {}
      <4>1. conns[d].state = "busy"
        BY <2>9, <3>2, <1>b DEF Idle, ConnRecord
      <4>2. PICK q \in Requests : req[q].conn = d
        BY <4>1 DEF ModeInv, Busy
      <4>3. q # r /\ req[q].pc # "done" /\ req[r].pc # "done"
        BY <4>2, <2>4 DEF ModeInv, Busy, Statements
      <4> QED
        BY <2>9, <4>3 DEF ModeInv, OneRequest
    <3> QED
      BY <3>1, <3>2
  <2>10. OneConn'
    BY <2>2, <2>4, <2>9 DEF OneConn
  <2>11. ASSUME ReadOnly, alone, NEW q \in Requests PROVE ForcedOf(req[q])'
    <3>1. CASE q = r
      <4>1. req[r].pc \in {"set", "run"} =>
               \E d \in Conns : conns[d].state = "idle" /\ Ready(conns[d], req[r].pc)
        BY <2>4, <2>11 DEF ModeInv, Forced, ForcedOf
      <4>2. req[r].pc \in {"set", "run"} => Ready(conns[c], req[r].pc)
        BY <4>1, <2>9, <2>11
      <4> QED
        BY <3>1, <4>2, <2>2, <2>3 DEF ForcedOf, Ready
    <3>2. CASE q # r
      <4>1. req'[q].pc = "done"
        BY <2>3, <2>4, <2>11, <3>2 DEF ModeInv, OneRequest, Statements
      <4> QED
        BY <4>1 DEF ForcedOf
    <3> QED
      BY <3>1, <3>2
  <2>12. ReadOnly /\ alone => \A d \in Conns : conns'[d].block # "readWrite"
    BY <2>2 DEF ModeInv, Forced
  <2>13. Forced'
    BY <2>4, <2>11, <2>12 DEF ModeInv, Forced
  <2> QED
    BY <1>t, <2>7, <2>8, <2>10, <2>13 DEF ModeInv
<1>3. ASSUME NEW r \in Requests, NEW pc \in Steps \ {"set", "run"}, Goto(r, pc),
             req[r].conn = NoConn, UNCHANGED <<conns, closed, written, alone>>,
             req[r].pc # "done"
      PROVE  ModeInv'
  <2>1. /\ req'[r].pc = pc /\ req'[r].conn = NoConn
        /\ \A q \in Requests \ {r} : req'[q] = req[q]
    BY <1>3, <1>t, GotoType
  <2>2. alone => \A q \in Requests \ {r} : req[q].pc = "done"
    BY <1>3 DEF ModeInv, OneRequest
  <2> QED
    BY <1>3, <1>t, <2>1, <2>2, LocalMode
<1>4. ASSUME NEW r \in Requests, AcquireFails(r) PROVE ModeInv'
  BY <1>3, <1>4 DEF AcquireFails, Steps, Statements, ghosts
<1>5. ASSUME NEW r \in Requests, CheckHistory(r) PROVE ModeInv'
  <2>1. PICK pc \in Steps \ {"set", "run"} : Goto(r, pc)
    BY <1>5 DEF CheckHistory, Steps
  <2>2. req[r].conn = NoConn
    BY <1>5 DEF CheckHistory, ModeInv, Busy, Statements
  <2> QED
    BY <1>3, <1>5, <2>1, <2>2 DEF CheckHistory, ghosts
<1>6. ASSUME NEW r \in Requests, Ends(r) PROVE ModeInv'
  <2>1. PICK pc \in Steps, conn \in ConnRecord :
           /\ Goto(r, pc) /\ Becomes(r, conn) /\ conn.state \in {"none", "idle"}
           /\ ReadOnly /\ alone =>
                 /\ written' \subseteq {"overridden"}
                 /\ conn.block # "readWrite"
                 /\ pc \in {"set", "run"} =>
                       closed \/ (conn.state = "idle" /\ Ready(conn, pc))
    BY <1>6, EndsForced
  <2>2. req[r].conn # NoConn /\ UNCHANGED <<closed, alone>>
    BY <1>6, <1>t, EndsType
  <2> QED
    BY <1>t, <2>1, <2>2, ReleaseMode
<1>10. ASSUME NEW r \in Requests, ReadHistory(r) \/ SaveHistory(r) PROVE ModeInv'
  <2>1. req[r].conn = NoConn /\ req[r].pc # "done"
    BY <1>10 DEF ReadHistory, SaveHistory, ModeInv, Busy, Statements
  <2>2. /\ req'[r].conn = req[r].conn /\ req'[r].pc \in {"save", "done"}
        /\ \A q \in Requests \ {r} : req'[q] = req[q]
    BY <1>10, <1>t DEF ReadHistory, SaveHistory, TypeOK, RequestRecord
  <2>3. UNCHANGED <<conns, closed, written, alone>>
    BY <1>10 DEF ReadHistory, SaveHistory, ghosts
  <2>4. alone => \A q \in Requests \ {r} : req[q].pc = "done"
    BY <2>1 DEF ModeInv, OneRequest
  <2> QED
    BY <1>t, <2>1, <2>2, <2>3, <2>4, LocalMode
<1>11. ASSUME NEW r \in Requests, OverwriteRecord(r) PROVE ModeInv'
  BY <1>11, <1>t
  DEF OverwriteRecord, ModeInv, Busy, OneRequest, OneConn, Forced, ForcedOf, ghosts
<1>12. ASSUME NEW c \in Conns, IdleLost(c) PROVE ModeInv'
  <2>1. /\ conns[c].state = "idle" /\ ~alone'
        /\ req' = req
    BY <1>12 DEF IdleLost, Idle
  <2>2. conns'[c].state = "none" /\ \A d \in Conns \ {c} : conns'[d] = conns[d]
    BY <1>12, <1>t DEF IdleLost, TypeOK, Unused
  <2>3. \A q \in Requests : req[q].conn # NoConn => req[q].conn \in Conns \ {c}
    BY <2>1, <1>a DEF RequestRecord, ModeInv, Busy
  <2>4. Busy'
    BY <2>1, <2>2, <2>3 DEF ModeInv, Busy
  <2> QED
    BY <1>t, <2>1, <2>4 DEF ModeInv, OneRequest, OneConn, Forced
<1>13. CASE CloseClient
  <2>1. /\ \A c \in Conns : conns'[c] = IF c \in Idle THEN Unused ELSE conns[c]
        /\ closed' /\ UNCHANGED <<req, written, alone>>
    BY <1>13 DEF CloseClient, ghosts
  <2>2. \A c \in Conns : conns'[c].state # "none" => conns'[c] = conns[c]
    BY <2>1 DEF Unused
  <2>3. \A c \in Conns : conns[c].state = "busy" <=> conns'[c].state = "busy"
    BY <2>1 DEF Unused, Idle
  <2>4. \A c \in Conns : conns[c].state = "busy" => conns'[c] = conns[c]
    BY <2>1 DEF Idle
  <2>5. Busy'
    <3>1. \A q \in Requests : req[q].conn # NoConn => req[q].conn \in Conns
      BY <1>a DEF RequestRecord
    <3> QED
      BY <2>1, <2>3, <3>1 DEF ModeInv, Busy
  <2>6. OneRequest'
    BY <2>1 DEF ModeInv, OneRequest
  <2>7. OneConn'
    BY <2>1, <2>2 DEF ModeInv, OneConn
  <2>8. ASSUME ReadOnly, alone, NEW q \in Requests PROVE ForcedOf(req[q])'
    <3>1. CASE req[q].conn = NoConn
      BY <2>1, <3>1 DEF ForcedOf
    <3>2. CASE req[q].conn # NoConn
      <4>1. conns'[req[q].conn] = conns[req[q].conn]
        BY <2>4, <3>2, <1>a DEF ModeInv, Busy, RequestRecord
      <4> QED
        BY <2>1, <2>8, <3>2, <4>1 DEF ModeInv, Forced, ForcedOf
    <3> QED
      BY <3>1, <3>2
  <2>9. Forced'
    <3>1. ReadOnly /\ alone => \A d \in Conns : conns'[d].block # "readWrite"
      BY <2>1 DEF ModeInv, Forced, Unused
    <3> QED
      BY <2>1, <2>8, <3>1 DEF ModeInv, Forced
  <2> QED
    BY <1>t, <2>5, <2>6, <2>7, <2>9 DEF ModeInv
<1>14. CASE UNCHANGED vars
  BY <1>14, <1>t DEF vars, ModeInv, Busy, OneRequest, OneConn, Forced, ForcedOf
<1> QED
  BY <1>1, <1>2, <1>4, <1>5, <1>6, <1>10, <1>11, <1>12, <1>13, <1>14
  DEF Next, Statement, Record, Ends

LEMMA InitMode == Init => ModeInv
<1> SUFFICES ASSUME Init PROVE ModeInv
  OBVIOUS
<1>1. /\ \A r \in Requests : req[r].pc = "done" /\ req[r].conn = NoConn
      /\ \A c \in Conns : conns[c].state = "none"
      /\ \A c \in Conns : conns[c].block = "none"
      /\ written = {}
  BY DEF Init, Unused
<1> QED
  BY <1>1, InitType DEF ModeInv, Busy, OneRequest, OneConn, Forced, ForcedOf

\* In read-only mode, whatever the queries and their order, the database is
\* changed in transactions of a mode the user set only, as long as the client
\* works on one connection.
THEOREM DefaultStaysForced == Spec => []DefaultForced
<1>1. ModeInv => DefaultForced
  BY DEF ModeInv, Forced, DefaultForced
<1> QED
  BY <1>1, InitMode, NextMode, PTL DEF Spec

\* No step but the loss of its connection ends an aborted block: SHOW fails in it
\* before the statement that would.
THEOREM AbortedBlocksStay == Spec => AbortedStays
<1> DEFINE A == ReadOnly /\ alone' =>
                  \A c \in Conns : conns[c].block = "aborted" =>
                     conns'[c].block = "aborted" \/ conns'[c].state = "none"
<1>1. ModeInv /\ [Next]_vars => [A]_vars
  <2> SUFFICES ASSUME ModeInv, [Next]_vars, ReadOnly, alone', NEW c \in Conns,
                      conns[c].block = "aborted"
               PROVE  conns'[c].block = "aborted" \/ conns'[c].state = "none"
    OBVIOUS
  <2>t. TypeOK
    BY DEF ModeInv
  <2>1. ASSUME NEW r \in Requests, Acquire(r) PROVE conns'[c].block = "aborted"
    BY <2>1, <2>t DEF Acquire, TypeOK, ConnRecord
  <2>2. ASSUME NEW r \in Requests, Ends(r), req[r].conn # c
        PROVE  conns'[c].block = "aborted"
    <3>1. PICK conn \in ConnRecord : Becomes(r, conn)
      BY <2>t, <2>2, EndsType
    <3> QED
      BY <2>t, <2>2, <3>1 DEF Becomes, TypeOK
  <2>3. ASSUME NEW r \in Requests, Ends(r), req[r].conn = c
        PROVE  conns'[c].block = "aborted" \/ conns'[c].state = "none"
    <3>1. connOf(r) = conns[c] /\ aborted(r) /\ c # NoConn
      BY <2>3, QueryAssumption DEF connOf, aborted
    <3>2. alone
      BY <2>t, <2>3, EndsType
    <3>3. req[r].pc # "run"
      BY <2>3, <3>1, <3>2 DEF ModeInv, Forced, ForcedOf, Ready
    <3>4. ModeFails(r) \/ StatementLost(r)
      BY <2>3, <3>1, <3>3
      DEF Ends, ShowMode, SetMode, RunQuery, QueryFails, QueryCutShort, running
    <3>5. CASE ModeFails(r)
      <4>1. conns[c].readonly \in BOOLEAN /\ conns[c].block \in Blocks
        BY <2>t DEF TypeOK, ConnRecord
      <4>2. Release(r, conns[c].readonly, conns[c].block)
        BY <3>1, <3>5 DEF ModeFails, GiveBack
      <4>3. PICK conn \in ConnRecord :
               /\ Becomes(r, conn)
               /\ conn = Unused \/ conn = [state |-> "idle", readonly |-> conns[c].readonly,
                                           block |-> conns[c].block]
        BY <4>1, <4>2, ReleaseType
      <4> QED
        BY <2>t, <2>3, <4>3 DEF Becomes, Unused, TypeOK
    <3>6. CASE StatementLost(r)
      BY <2>t, <2>3, <3>6 DEF StatementLost, Unused, TypeOK
    <3> QED
      BY <3>4, <3>5, <3>6
  <2>4. CASE (\E d \in Conns : IdleLost(d)) \/ CloseClient
    BY <2>4, <2>t DEF IdleLost, CloseClient, Unused, TypeOK
  <2>5. CASE UNCHANGED conns
    BY <2>5
  <2>6. ASSUME NEW r \in Requests, Query(r) \/ AcquireFails(r) \/ Record(r)
        PROVE  UNCHANGED conns
    BY <2>6 DEF Query, AcquireFails, Record, CheckHistory, ReadHistory, OverwriteRecord,
                SaveHistory
  <2> QED
    BY <2>1, <2>2, <2>3, <2>4, <2>5, <2>6 DEF Next, Statement, Ends, vars
<1> QED
  BY <1>1, InitMode, NextMode, PTL DEF Spec, AbortedStays

-----------------------------------------------------------------------------
(***************************************************************************)
(* The history has no query twice.                                         *)
(***************************************************************************)

\* A record that is not there yet keeps the history free of repetition.
LEMMA AppendedInjective ==
    ASSUME NEW list \in Seq(AllQueries), IsInjective(list), NEW query \in AllQueries,
           \A i \in DOMAIN list : list[i] # query
    PROVE  IsInjective(Append(list, query))
<1> DEFINE longer == Append(list, query)
<1>1. /\ DOMAIN list = 1 .. Len(list) /\ DOMAIN longer = 1 .. Len(list) + 1
      /\ \A i \in DOMAIN list : longer[i] = list[i]
      /\ longer[Len(list) + 1] = query /\ Len(list) \in Nat
  OBVIOUS
<1> HIDE DEF longer
<1>2. ASSUME NEW i \in DOMAIN longer, NEW j \in DOMAIN longer, longer[i] = longer[j]
      PROVE  i = j
  <2>1. \A k \in DOMAIN longer : k \in DOMAIN list \/ k = Len(list) + 1
    BY <1>1
  <2> QED
    BY <1>1, <1>2, <2>1 DEF IsInjective
<1> QED
  BY <1>2 DEF IsInjective, longer

\* Nobody touches the history but the one request that records.
LEMMA UniqueRecord ==
    ASSUME UniqueInv, alone', alone, NEW r \in Requests, Record(r)
    PROVE  IsInjective(History') /\ \A q \in Requests : NewOf(req[q])'
<1>1. TypeOK /\ IsInjective(History) /\ NewOf(req[r]) /\ req[r] \in RequestRecord
  BY DEF UniqueInv, ModeInv, TypeOK
<1>2. \A q \in Requests \ {r} : req'[q].pc = "done"
  <2>1. \A q \in Requests \ {r} : req'[q] = req[q]
    BY <1>1 DEF Record, CheckHistory, ReadHistory, OverwriteRecord, SaveHistory, Goto, TypeOK
  <2>2. req[r].pc # "done"
    BY DEF Record, CheckHistory, ReadHistory, OverwriteRecord, SaveHistory
  <2> QED
    BY <2>1, <2>2 DEF UniqueInv, ModeInv, OneRequest
<1>3. SUFFICES IsInjective(History') /\ NewOf(req[r])'
  BY <1>2 DEF NewOf
<1>4. CASE CheckHistory(r)
  <2>1. /\ History' = History
        /\ Goto(r, IF hasHistoryRecord(req[r].query) THEN "done" ELSE "append")
    BY <1>4 DEF CheckHistory
  <2>2. /\ req'[r].query = req[r].query
        /\ req'[r].pc = IF hasHistoryRecord(req[r].query) THEN "done" ELSE "append"
    BY <1>1, <2>1, GotoType DEF Steps
  <2> QED
    BY <1>1, <2>1, <2>2 DEF NewOf, hasHistoryRecord
<1>5. CASE ReadHistory(r)
  <2>1. /\ History' = History /\ req[r].pc = "append"
        /\ req'[r].pc = "save" /\ req'[r].seen = History /\ req'[r].query = req[r].query
    BY <1>1, <1>5 DEF ReadHistory, TypeOK, RequestRecord
  <2> QED
    BY <1>1, <2>1 DEF NewOf, hasHistoryRecord
<1>6. CASE OverwriteRecord(r)
  <2>1. req[r].seen = History /\ Len(History) > Len(req[r].seen) /\ Len(History) \in Nat
    BY <1>1, <1>6 DEF OverwriteRecord, NewOf, TypeOK
  <2> QED
    BY <2>1
<1>7. CASE SaveHistory(r)
  <2>1. /\ req[r].seen = History /\ ~hasHistoryRecord(req[r].query)
        /\ req'[r].pc = "done"
    BY <1>1, <1>7 DEF SaveHistory, NewOf, TypeOK, RequestRecord
  <2>2. History' = Append(SubSeq(History, 1, Len(History)), req[r].query)
    BY <1>7, <2>1 DEF SaveHistory
  <2>3. History \in Seq(AllQueries) /\ req[r].query \in AllQueries
    BY <1>1 DEF TypeOK, RequestRecord
  <2>4. SubSeq(History, 1, Len(History)) = History
    BY <2>3
  <2>5. IsInjective(History')
    BY <1>1, <2>1, <2>2, <2>3, <2>4, AppendedInjective DEF hasHistoryRecord
  <2> QED
    BY <2>1, <2>5 DEF NewOf
<1> QED
  BY <1>4, <1>5, <1>6, <1>7 DEF Record

LEMMA NextUnique == UniqueInv /\ [Next]_vars => UniqueInv'
<1> SUFFICES ASSUME UniqueInv, [Next]_vars PROVE UniqueInv'
  OBVIOUS
<1>1. ModeInv' /\ ModeInv /\ TypeOK
  BY NextMode DEF UniqueInv, ModeInv
<1>2. alone' => alone
  <2>1. \A r \in Requests : Ends(r) => alone' = alone
    BY <1>1, EndsType
  <2> QED
    BY <2>1 DEF Next, Query, Statement, Acquire, AcquireFails, Ends, Record, CheckHistory,
                ReadHistory, OverwriteRecord, SaveHistory, IdleLost, CloseClient, vars, ghosts
<1>3. SUFFICES ASSUME alone' PROVE IsInjective(History') /\ \A q \in Requests : NewOf(req[q])'
  BY <1>1 DEF UniqueInv
<1>4. IsInjective(History) /\ \A q \in Requests : NewOf(req[q])
  BY <1>2, <1>3 DEF UniqueInv
<1>5. ASSUME NEW r \in Requests, History' = History,
             req'[r].pc \notin {"append", "save"},
             \A q \in Requests \ {r} : req'[q] = req[q]
      PROVE  IsInjective(History') /\ \A q \in Requests : NewOf(req[q])'
  BY <1>4, <1>5 DEF NewOf, hasHistoryRecord
<1>6. ASSUME NEW r \in Requests, Query(r)
      PROVE  IsInjective(History') /\ \A q \in Requests : NewOf(req[q])'
  <2>1. /\ req'[r].pc \in {"show", "run"} /\ History' = History
        /\ \A q \in Requests \ {r} : req'[q] = req[q]
    BY <1>1, <1>6 DEF Query, TypeOK, RequestRecord
  <2> QED
    BY <1>5, <2>1
<1>7. ASSUME NEW r \in Requests, Statement(r)
      PROVE  IsInjective(History') /\ \A q \in Requests : NewOf(req[q])'
  <2>1. History' = History
    BY <1>1, <1>7, EndsType DEF Statement, Acquire, AcquireFails, Ends
  <2>2. /\ req'[r].pc \in {"done", "set", "run", "checkHistory", req[r].pc}
        /\ \A q \in Requests \ {r} : req'[q] = req[q]
    <3>1. CASE Acquire(r)
      BY <1>1, <3>1 DEF Acquire, TypeOK, RequestRecord
    <3>2. CASE ~Acquire(r)
      <4>1. \E pc \in {"done", "set", "run", "checkHistory"} : Goto(r, pc)
        BY <1>1, <1>7, <3>2, EndsType DEF Statement, AcquireFails, Ends
      <4> QED
        BY <1>1, <4>1, GotoType DEF Steps
    <3> QED
      BY <3>1, <3>2
  <2>3. req[r].pc \in {"show", "set", "run"}
    BY <1>1, <1>7, EndsType DEF Statement, Acquire, AcquireFails, Ends, Statements
  <2> QED
    BY <1>5, <2>1, <2>2, <2>3
<1>8. ASSUME NEW r \in Requests, Record(r)
      PROVE  IsInjective(History') /\ \A q \in Requests : NewOf(req[q])'
  BY <1>2, <1>3, <1>8, UniqueRecord
<1>9. CASE \E c \in Conns : IdleLost(c)
  BY <1>3, <1>9 DEF IdleLost
<1>10. CASE CloseClient \/ UNCHANGED vars
  BY <1>4, <1>10 DEF CloseClient, vars, ghosts, NewOf, hasHistoryRecord
<1> QED
  BY <1>6, <1>7, <1>8, <1>9, <1>10 DEF Next

\* No query is in the history twice while requests come one at a time: what
\* CheckHistory found missing is still missing when the slice is replaced, and
\* the slice that was read is the one that is replaced.
THEOREM HistoryWithoutRepeats == Spec => []HistoryUnique
<1>1. Init => UniqueInv
  <2> SUFFICES ASSUME Init PROVE UniqueInv
    OBVIOUS
  <2>1. ModeInv
    BY InitMode
  <2>2. IsInjective(History) /\ \A r \in Requests : req[r].pc = "done"
    BY DEF Init, IsInjective
  <2> QED
    BY <2>1, <2>2 DEF UniqueInv, NewOf
<1>2. UniqueInv => HistoryUnique
  BY DEF UniqueInv, HistoryUnique
<1> QED
  BY <1>1, <1>2, NextUnique, PTL DEF Spec
=============================================================================
