--------------------------- MODULE HandlerProofs ---------------------------
(***************************************************************************)
(* Proofs about the handlers of Api as sequences of steps: what ids,       *)
(* connect backends and --lock-session promise, what overlapping requests  *)
(* can do to one that set up a client or reads its session twice, and that *)
(* requests that come one at a time implement SessionRegister.             *)
(***************************************************************************)
EXTENDS ApiProofs, HandlerReads

(***************************************************************************)
(* The flow of a handler from one step to the next.                        *)
(***************************************************************************)

\* Request r takes a step and is not answered: its next pc, and the locals
\* the step sets.
Goes(r) ==
    /\ req'[r].op = req[r].op
    /\ req'[r].sid = req[r].sid
    /\ req'[r].uuid = req[r].uuid
    /\ \/ /\ req[r].pc = "dbCheck" /\ req'[r].pc = "handle"
          /\ DB(r) # NoClient
       \/ /\ req[r].pc = "handle" /\ req'[r].pc = "runQuery"
          /\ req[r].op \in QueryOps
          /\ req'[r].conn = DB(r)
       \/ /\ req[r].pc = "handle" /\ req'[r].pc = "rereadDB"
          /\ req[r].op = "databases"
          /\ ~client[DB(r)].external
          /\ req'[r].conn = DB(r)
       \/ /\ req[r].pc = "handle" /\ req'[r].pc = "test"
          /\ req[r].op \in {"connect", "switchdb"}
          /\ ~LockSession
          /\ ~client'[req'[r].cl].external
       \/ /\ req[r].pc = "handle" /\ req'[r].pc = "close"
          /\ req[r].op = "disconnect"
          /\ ~LockSession
          /\ req'[r].conn = DB(r)
       \/ /\ req[r].pc = "runQuery" /\ req'[r].pc = "rereadDB"
          /\ req'[r].conn = req[r].conn
       \/ /\ req[r].pc = "rereadDB" /\ req'[r].pc = "runAgain"
          /\ DB(r) # NoClient
          /\ req'[r].conn = req[r].conn /\ req'[r].cur = DB(r)
       \/ /\ req[r].pc = "test" /\ req'[r].pc = "info"
          /\ req'[r].cl = req[r].cl
       \/ /\ req[r].pc = "info" /\ req'[r].pc = "readCurrent"
          /\ req'[r].cl = req[r].cl
       \/ /\ req[r].pc = "readCurrent" /\ req'[r].pc = "store"
          /\ DB(r) = NoClient
          /\ req'[r].cl = req[r].cl
       \/ /\ req[r].pc = "readCurrent" /\ req'[r].pc = "closeCurrent"
          /\ DB(r) # NoClient
          /\ req'[r].cl = req[r].cl /\ req'[r].cur = DB(r)
       \/ /\ req[r].pc = "closeCurrent" /\ req'[r].pc = "store"
          /\ Close(req[r].cur)
          /\ req'[r].cl = req[r].cl
       \/ /\ req[r].pc = "store" /\ req'[r].pc = "closeOld"
          /\ req[r].op = "switchdb"
       \/ /\ req[r].pc = "close" /\ req'[r].pc = "clear"
          /\ Close(req[r].conn)

Ends(r) == \E answer \in Answers : req'[r] = Answered(answer)

LEMMA ServeGoes ==
    ASSUME TypeOK, NEW r \in Requests, Serve(r)
    PROVE  Ends(r) \/ Goes(r) \/ ConnectWithBackend(r)
<1>0. req[r] \in RequestRecord
  BY DEF TypeOK
<1>1. \A next : Move(r, next) => req'[r] = next
  BY DEF Move, TypeOK
<1>2. \A answer \in Answers : Respond(r, answer) => Ends(r)
  BY <1>1 DEF Respond, Ends
<1>3. {"ok", "refused", "panic"} \subseteq Answers
  BY DEF Answers
<1>4. \A pc : Goto(r, pc) =>
        /\ req'[r].pc = pc /\ req'[r].op = req[r].op /\ req'[r].sid = req[r].sid
        /\ req'[r].uuid = req[r].uuid /\ req'[r].conn = req[r].conn /\ req'[r].cl = req[r].cl
  BY <1>0, <1>1 DEF Goto, RequestRecord
<1>5. CASE DbCheck(r)
  BY <1>2, <1>3, <1>4, <1>5 DEF DbCheck, Goes
<1>6. CASE StartQuery(r)
  <2>1. CASE Move(r, [req[r] EXCEPT !.pc = "runQuery", !.conn = DB(r)])
    BY <1>0, <1>1, <1>6, <2>1 DEF StartQuery, at, Goes, RequestRecord
  <2> QED
    BY <1>2, <1>3, <1>6, <2>1 DEF StartQuery
<1>7. CASE GetHistory(r)
  BY <1>2, <1>3, <1>7 DEF GetHistory
<1>8. CASE GetDatabases(r)
  <2>1. CASE Move(r, [req[r] EXCEPT !.pc = "rereadDB", !.conn = DB(r)])
             /\ ~client[DB(r)].external
    BY <1>0, <1>1, <1>8, <2>1 DEF GetDatabases, at, Goes, RequestRecord
  <2> QED
    BY <1>2, <1>3, <1>8, <2>1 DEF GetDatabases
<1>9. CASE QueryDone(r)
  BY <1>2, <1>3, <1>4, <1>9 DEF QueryDone, Goes
<1>10. CASE RereadDB(r)
  <2>1. CASE Move(r, [req[r] EXCEPT !.pc = "runAgain", !.cur = DB(r)]) /\ DB(r) # NoClient
    BY <1>0, <1>1, <1>10, <2>1 DEF RereadDB, Goes, RequestRecord
  <2> QED
    BY <1>2, <1>3, <1>10, <2>1 DEF RereadDB
<1>11. CASE QueryAgainDone(r)
  BY <1>2, <1>3, <1>11 DEF QueryAgainDone
<1>12. CASE Refused(r)
  BY <1>2, <1>3, <1>12 DEF Refused
<1>13. CASE Connect(r) \/ SwitchDb(r)
  <2>1. ASSUME NEW c \in Allocatable, NEW new, Allocate(c, new), ~new.external,
               req'[r].pc = "test", req'[r].cl = c,
               req'[r].op = req[r].op, req'[r].sid = req[r].sid, req'[r].uuid = req[r].uuid
        PROVE  Goes(r)
    <3>1. ~client'[req'[r].cl].external
      BY <2>1 DEF Allocatable, Allocate, TypeOK
    <3> QED
      BY <1>13, <2>1, <3>1 DEF Connect, SwitchDb, at, Goes
  <2>2. CASE Connect(r)
    <3>1. PICK c \in Allocatable, new \in ConnectWithURL \cup NewFromBookmark(PortsInUse) :
            Allocate(c, new) /\ Move(r, [req[r] EXCEPT !.pc = "test", !.cl = c])
      BY <2>2 DEF Connect
    <3>2. ~new.external
      BY DEF ConnectWithURL, NewFromBookmark, NewFromUrl, Opened
    <3> QED
      BY <1>0, <1>1, <2>1, <3>1, <3>2 DEF RequestRecord
  <2>3. CASE SwitchDb(r)
    <3>1. PICK c \in Allocatable, new \in NewFromUrl(PortsInUse, client[DB(r)].dial, FALSE) :
            Allocate(c, new) /\ Move(r, [req[r] EXCEPT !.pc = "test", !.conn = DB(r), !.cl = c])
      BY <2>3 DEF SwitchDb
    <3>2. ~new.external
      BY DEF NewFromUrl, Opened
    <3>3. /\ req'[r].pc = "test" /\ req'[r].cl = c /\ req'[r].op = req[r].op
          /\ req'[r].sid = req[r].sid /\ req'[r].uuid = req[r].uuid
      BY <1>0, <1>1, <3>1 DEF RequestRecord
    <3> QED
      BY <2>1, <3>1, <3>2, <3>3
  <2> QED
    BY <1>13, <2>2, <2>3
<1>14. CASE TestClient(r) \/ InfoClient(r)
  BY <1>2, <1>3, <1>4, <1>14 DEF TestClient, InfoClient, Goes
<1>15. CASE ReadCurrent(r)
  <2>1. /\ req'[r].cur = DB(r) /\ req'[r].cl = req[r].cl /\ req'[r].op = req[r].op
        /\ req'[r].sid = req[r].sid /\ req'[r].uuid = req[r].uuid
        /\ req'[r].pc = IF DB(r) = NoClient THEN "store" ELSE "closeCurrent"
    BY <1>0, <1>1, <1>15 DEF ReadCurrent, RequestRecord
  <2> QED
    BY <1>15, <2>1 DEF ReadCurrent, Goes
<1>16. CASE CloseCurrent(r)
  BY <1>4, <1>16 DEF CloseCurrent, Goes
<1>17. CASE StoreDbClient(r) \/ StoreSession(r)
  BY <1>2, <1>3, <1>4, <1>17 DEF StoreDbClient, StoreSession, AfterStore, Goes
<1>18. CASE StoreRefused(r) \/ CloseOld(r)
  BY <1>2, <1>3, <1>18 DEF StoreRefused, CloseOld
<1>19. CASE DisconnectSession(r) \/ DisconnectClear(r)
  BY <1>2, <1>3, <1>19 DEF DisconnectSession, DisconnectClear
<1>20. CASE DisconnectRead(r)
  <2>1. CASE Move(r, [req[r] EXCEPT !.pc = "close", !.conn = DB(r)])
    BY <1>0, <1>1, <1>20, <2>1 DEF DisconnectRead, at, Goes, RequestRecord
  <2> QED
    BY <1>2, <1>3, <1>20, <2>1 DEF DisconnectRead
<1>21. CASE DisconnectClose(r)
  BY <1>2, <1>3, <1>4, <1>21 DEF DisconnectClose, Goes
<1> QED
  BY <1>5, <1>6, <1>7, <1>8, <1>9, <1>10, <1>11, <1>12, <1>13, <1>14, <1>15, <1>16, <1>17,
     <1>18, <1>19, <1>20, <1>21, Zenon
  DEF Serve, QuerySteps, SetUpSteps, DisconnectSteps

\* What a request starts with.
Starts(r) ==
    /\ ~Active(r)
    /\ req'[r].pc \in {"dbCheck", "handle"}
    /\ req'[r].op \in Ops
    /\ req'[r].sid \in IF Sessions THEN KnownSids ELSE {NoSid}
    /\ MayArrive(r, req'[r].sid)
    /\ req'[r].pc = "handle" => req'[r].op \in allowedPaths \cup {"backend"}
    /\ req'[r].op = "backend" => req'[r].pc = "handle" /\ (~HeaderOnConnect => req'[r].sid = NoSid)

LEMMA ArriveStarts ==
    ASSUME TypeOK, NEW r \in Requests, Arrive(r)
    PROVE  Starts(r) /\ UNCHANGED <<client, sessions, stale, DbClient, uuids>>
<1>1. PICK op \in Ops, sid \in (IF Sessions THEN KnownSids ELSE {NoSid}) :
        /\ op = "backend" /\ ~HeaderOnConnect => sid = NoSid
        /\ MayArrive(r, sid)
        /\ Move(r, [Answered("ok") EXCEPT
                      !.op = op, !.sid = sid,
                      !.pc = IF op \in allowedPaths \cup {"backend"}
                             THEN "handle" ELSE "dbCheck"])
  BY DEF Arrive
<1>2. /\ req'[r].op = op /\ req'[r].sid = sid
      /\ req'[r].pc = IF op \in allowedPaths \cup {"backend"} THEN "handle" ELSE "dbCheck"
  BY <1>1 DEF Move, Answered, TypeOK
<1> QED
  BY <1>1, <1>2 DEF Arrive, Starts

\* A backend request draws an id nobody has used.
Draws(r) ==
    /\ req[r].pc = "handle" /\ req'[r].pc = "info"
    /\ req[r].op = "backend" /\ req'[r].op = "backend"
    /\ req'[r].uuid \in Uuids
    /\ uuids[req'[r].uuid] = "unused"
    /\ uuids' = [uuids EXCEPT ![req'[r].uuid] = "drawn"]
    /\ req'[r].sid = EffectiveSid(r, req'[r].uuid)

LEMMA BackendDraws ==
    ASSUME TypeOK, NEW r \in Requests, ConnectWithBackend(r)
    PROVE  Draws(r) /\ UNCHANGED <<sessions, stale, DbClient>>
<1>1. PICK c \in Allocatable, u \in Uuids :
        /\ uuids[u] = "unused"
        /\ uuids' = [uuids EXCEPT ![u] = "drawn"]
        /\ Move(r, [req[r] EXCEPT !.pc = "info", !.cl = c, !.uuid = u,
                                  !.sid = EffectiveSid(r, u)])
  BY DEF ConnectWithBackend
<1>2. /\ req'[r].pc = "info" /\ req'[r].op = req[r].op
      /\ req'[r].uuid = u /\ req'[r].sid = EffectiveSid(r, u)
  BY <1>1 DEF Move, TypeOK, RequestRecord
<1> QED
  BY <1>1, <1>2 DEF ConnectWithBackend, at, Draws

\* Every step of the system, seen from the requests: none moves, or one does
\* in one of four ways.
LEMMA StepOfOne ==
    ASSUME TypeOK, [Next]_vars
    PROVE  \/ UNCHANGED <<req, uuids, DbClient>>
           \/ \E r \in Requests :
                /\ \A q \in Requests \ {r} : req'[q] = req[q]
                /\ \/ Arrive(r) /\ Starts(r)
                   \/ Serve(r) /\ (Ends(r) \/ Goes(r))
                   \/ ConnectWithBackend(r) /\ Draws(r)
<1>1. ASSUME NEW r \in Requests, Arrive(r) \/ Serve(r)
      PROVE  \A q \in Requests \ {r} : req'[q] = req[q]
  BY <1>1, OneMoves DEF Move, TypeOK
<1>2. CASE UNCHANGED vars \/ Worker \/ TimePasses
  BY <1>2 DEF vars, Worker, TimePasses
<1>3. ASSUME NEW r \in Requests, Arrive(r)
      PROVE  Starts(r) /\ \A q \in Requests \ {r} : req'[q] = req[q]
  BY <1>1, <1>3, ArriveStarts
<1>4. ASSUME NEW r \in Requests, Serve(r)
      PROVE  /\ \A q \in Requests \ {r} : req'[q] = req[q]
             /\ Ends(r) \/ Goes(r) \/ (ConnectWithBackend(r) /\ Draws(r))
  BY <1>1, <1>4, ServeGoes, BackendDraws
<1> QED
  BY <1>2, <1>3, <1>4 DEF Next

LEMMA EndsAt ==
    ASSUME NEW r \in Requests, Ends(r)
    PROVE  /\ req'[r].pc \in Answers /\ req'[r].pc \notin Steps
           /\ req'[r].op = "query" /\ req'[r].sid = NoSid
BY DEF Ends, Answered, Answers, Steps

\* Ids change hands in two steps: one draws an id, one tells it.
LEMMA UuidsStep ==
    ASSUME TypeOK, NEW r \in Requests, Serve(r)
    PROVE  \/ UNCHANGED uuids
           \/ ConnectWithBackend(r)
           \/ /\ StoreSession(r) /\ req[r].op = "backend"
              /\ uuids' = [uuids EXCEPT ![req[r].uuid] = "told"]
BY Zenon DEF Serve, DbCheck, QuerySteps, StartQuery, GetHistory, GetDatabases, QueryDone, RereadDB,
   QueryAgainDone, SetUpSteps, Refused, Connect, SwitchDb, TestClient, InfoClient, ReadCurrent,
   CloseCurrent, StoreDbClient, StoreSession, TellUuid, StoreRefused, CloseOld, DisconnectSteps,
   DisconnectSession, DisconnectRead, DisconnectClose, DisconnectClear

(***************************************************************************)
(* Ids.                                                                    *)
(***************************************************************************)

LEMMA StepsApartStep ==
    ASSUME TypeOK, StepsApart, [Next]_vars
    PROVE  StepsApart'
<1>1. CASE UNCHANGED <<req, uuids, DbClient>>
  BY <1>1 DEF StepsApart, StepsOf
<1>2. ASSUME NEW r \in Requests, \A q \in Requests \ {r} : req'[q] = req[q], StepsOf(req[r])'
      PROVE  StepsApart'
  BY <1>2 DEF StepsApart, StepsOf
<1>3. ASSUME NEW r \in Requests, Starts(r) PROVE StepsOf(req[r])'
  BY <1>3, ApiAssumption DEF Starts, StepsOf, Building
<1>4. ASSUME NEW r \in Requests, Ends(r) PROVE StepsOf(req[r])'
  <2>1. req'[r].op = "query" /\ req'[r].pc \notin {"dbCheck", "runQuery", "rereadDB", "closeOld"} \cup Building
    BY <1>4, EndsAt DEF Steps, Building
  <2> QED
    BY <2>1 DEF StepsOf
<1>5. ASSUME NEW r \in Requests, Goes(r) PROVE StepsOf(req[r])'
  <2>1. StepsOf(req[r])
    BY DEF StepsApart
  <2> QED
    BY <1>5, <2>1 DEF Goes, StepsOf, Building
<1>6. ASSUME NEW r \in Requests, Draws(r) PROVE StepsOf(req[r])'
  BY <1>6 DEF Draws, StepsApart, StepsOf, Building
<1> QED
  BY <1>1, <1>2, <1>3, <1>4, <1>5, <1>6, StepOfOne

\* An id goes from unused to the one request that draws it, and from there to
\* the browser; no other request has it until then.
LEMMA DrawnApartStep ==
    ASSUME ApiInv, StepsApart, DrawnApart, [Next]_vars
    PROVE  DrawnApart'
<1>0. TypeOK /\ LocalsSet
  BY DEF ApiInv
<1>1. CASE UNCHANGED <<req, uuids, DbClient>>
  BY <1>1 DEF DrawnApart, DrawsId
<1>2. ASSUME NEW r \in Requests, \A q \in Requests \ {r} : req'[q] = req[q],
             Arrive(r) /\ Starts(r)
      PROVE  DrawnApart'
  <2>1. UNCHANGED uuids
    BY <1>0, <1>2, ArriveStarts
  <2>2. ~DrawsId(r)' /\ (req[r].pc \in Answers)
    BY <1>2 DEF Starts, DrawsId, Building, Active
  <2>3. req'[r].sid \in Uuids => uuids[req'[r].sid] = "told"
    BY <1>2, SessionAssumption DEF Starts, KnownSids, Sids
  <2>4. ~HeaderOnConnect /\ req'[r].op = "backend" => req'[r].sid = NoSid
    BY <1>2 DEF Starts
  <2> QED
    BY <1>2, <2>1, <2>2, <2>3, <2>4 DEF DrawnApart, DrawsId
<1>3. ASSUME NEW r \in Requests, \A q \in Requests \ {r} : req'[q] = req[q],
             Serve(r), Ends(r)
      PROVE  DrawnApart'
  <2>1. ~DrawsId(r)' /\ req'[r].sid = NoSid /\ NoSid \notin Uuids /\ req'[r].pc # "handle"
    BY <1>3, EndsAt, SessionAssumption DEF DrawsId, Building, Steps, Sids
  <2>2. \/ UNCHANGED uuids
        \/ DrawsId(r) /\ uuids' = [uuids EXCEPT ![req[r].uuid] = "told"]
    <3>1. ~ConnectWithBackend(r)
      BY <1>0, <1>3, EndsAt, BackendDraws DEF Draws, Steps
    <3> QED
      BY <1>0, <1>3, <3>1, UuidsStep DEF StoreSession, DrawsId, Building
  <2>3. CASE UNCHANGED uuids
    BY <1>3, <2>1, <2>3 DEF DrawnApart, DrawsId
  <2>4. CASE DrawsId(r) /\ uuids' = [uuids EXCEPT ![req[r].uuid] = "told"]
    <3>1. \A u \in Uuids : uuids'[u] = IF u = req[r].uuid THEN "told" ELSE uuids[u]
      BY <1>0, <2>4 DEF TypeOK
    <3> QED
      BY <1>3, <2>1, <2>4, <3>1 DEF DrawnApart, DrawsId
  <2> QED
    BY <2>2, <2>3, <2>4
<1>4. ASSUME NEW r \in Requests, \A q \in Requests \ {r} : req'[q] = req[q],
             Serve(r), Goes(r)
      PROVE  DrawnApart'
  <2>1. UNCHANGED uuids
    <3>1. ~ConnectWithBackend(r)
      BY <1>0, <1>4, BackendDraws DEF Draws, Goes
    <3>2. StoreSession(r) => req[r].op = "switchdb"
      BY <1>4 DEF StoreSession, Goes
    <3> QED
      BY <1>0, <1>4, <3>1, <3>2, UuidsStep
  <2>2. req[r].op = "backend" => (DrawsId(r)' <=> DrawsId(r)) /\ req'[r].pc # "handle"
    BY <1>4 DEF Goes, DrawsId, Building, StepsApart, StepsOf
  <2>3. DrawsId(r)' \/ DrawsId(r) => req[r].op = "backend"
    BY <1>4 DEF Goes, DrawsId
  <2>4. req'[r].op = req[r].op /\ req'[r].sid = req[r].sid /\ req'[r].uuid = req[r].uuid
    BY <1>4 DEF Goes
  <2>5. \A q \in Requests : (DrawsId(q)' <=> DrawsId(q)) /\ req'[q].sid = req[q].sid
                            /\ req'[q].uuid = req[q].uuid
    BY <1>4, <2>2, <2>3, <2>4 DEF DrawsId
  <2>6. \A q \in Requests : req'[q].op = "backend" /\ req'[q].pc = "handle"
                            => req[q].op = "backend" /\ req[q].pc = "handle"
    BY <1>4, <2>2, <2>4
  <2> QED
    BY <2>1, <2>5, <2>6 DEF DrawnApart
<1>5. ASSUME NEW r \in Requests, \A q \in Requests \ {r} : req'[q] = req[q], Draws(r)
      PROVE  DrawnApart'
  <2> DEFINE u == req'[r].uuid
  <2>1. u \in Uuids /\ uuids[u] = "unused"
        /\ \A v \in Uuids : uuids'[v] = IF v = u THEN "drawn" ELSE uuids[v]
    BY <1>0, <1>5 DEF Draws, TypeOK
  <2>2. DrawsId(r)' /\ req'[r].pc # "handle" /\ ~DrawsId(r)
    BY <1>5 DEF Draws, DrawsId, Building
  <2>3. \A q \in Requests \ {r} : DrawsId(q) => req[q].uuid # u
    BY <2>1 DEF DrawnApart
  <2>4. \A q \in Requests : req[q].sid # u
    BY <2>1 DEF DrawnApart
  <2>5. req'[r].sid = IF req[r].sid = NoSid THEN u ELSE req[r].sid
    BY <1>5 DEF Draws, EffectiveSid
  <2>6. HeaderOnConnect \/ req'[r].sid = u
    BY <1>5, <2>5 DEF Draws, DrawnApart
  <2>7. req'[r].sid \in Uuids => req'[r].sid = u \/ uuids'[req'[r].sid] = "told"
    BY <2>1, <2>2, <2>5 DEF DrawnApart
  <2>8. \A q \in Requests \ {r} : (DrawsId(q)' <=> DrawsId(q)) /\ req'[q] = req[q]
    BY <1>5 DEF DrawsId
  <2> HIDE DEF u
  <2>9. \A q \in Requests : DrawsId(q)' =>
         /\ req'[q].uuid \in Uuids
         /\ uuids'[req'[q].uuid] = "drawn"
         /\ HeaderOnConnect \/ req'[q].sid = req'[q].uuid
         /\ \A x \in Requests \ {q} : DrawsId(x)' => req'[x].uuid # req'[q].uuid
    <3>1. TAKE q \in Requests
    <3>2. HAVE DrawsId(q)'
    <3>3. CASE q = r
      BY <2>1, <2>3, <2>6, <2>8, <3>3 DEF u
    <3>4. CASE q # r
      BY <2>1, <2>3, <2>8, <3>2, <3>4 DEF u, DrawnApart
    <3> QED
      BY <3>3, <3>4
  <2>10. \A q \in Requests : req'[q].sid \in Uuids =>
         \/ uuids'[req'[q].sid] = "told"
         \/ DrawsId(q)' /\ req'[q].sid = req'[q].uuid
    <3>1. TAKE q \in Requests
    <3>2. HAVE req'[q].sid \in Uuids
    <3>3. CASE q = r
      BY <2>2, <2>7, <3>2, <3>3 DEF u
    <3>4. CASE q # r
      BY <2>1, <2>4, <2>8, <3>2, <3>4 DEF DrawnApart
    <3> QED
      BY <3>3, <3>4
  <2>11. ~HeaderOnConnect => \A q \in Requests :
           req'[q].op = "backend" /\ req'[q].pc = "handle" => req'[q].sid = NoSid
    BY <2>2, <2>8 DEF DrawnApart
  <2> QED
    BY <2>9, <2>10, <2>11 DEF DrawnApart
<1> QED
  BY <1>0, <1>1, <1>2, <1>3, <1>4, <1>5, StepOfOne

LEMMA UntoldEmptyStep ==
    ASSUME ApiInv, StepsApart, DrawnApart, UntoldEmpty, [Next]_vars
    PROVE  UntoldEmpty'
<1>0. TypeOK
  BY DEF ApiInv
<1> SUFFICES ASSUME NEW u \in Uuids, uuids'[u] # "told" PROVE sessions'[u] = NoClient
  BY DEF UntoldEmpty
<1>1. uuids[u] # "told"
  <2>1. ASSUME NEW r \in Requests, Serve(r) PROVE uuids[u] # "told"
    <3>1. CASE ConnectWithBackend(r)
      BY <1>0, <3>1, BackendDraws DEF Draws, TypeOK
    <3> QED
      BY <1>0, <2>1, <3>1, UuidsStep DEF TypeOK
  <2> QED
    BY <2>1 DEF Next, vars, Arrive, Worker, TimePasses
<1>2. sessions[u] = NoClient
  BY <1>1 DEF UntoldEmpty
<1>3. ASSUME NEW r \in Requests, StoreSession(r) PROVE req[r].sid # u
  <2>1. CASE DrawsId(r) /\ u = req[r].uuid
    BY <1>0, <1>3, <2>1 DEF StoreSession, TellUuid, DrawsId, TypeOK
  <2> QED
    BY <1>1, <2>1 DEF DrawnApart
<1>4. ASSUME NEW r \in Requests, StoreSession(r) PROVE sessions'[u] = sessions[u]
  BY <1>3, <1>4, <1>0 DEF StoreSession, Add, TypeOK, Sids
<1> QED
  BY <1>2, <1>4, SessionsStep DEF Sids

LEMMA InitIds == Init => IdInv
<1> SUFFICES ASSUME Init PROVE IdInv
  OBVIOUS
<1>1. \A r \in Requests : req[r].pc = "ok" /\ req[r].sid = NoSid /\ req[r].op = "query"
  BY DEF Init, Answered
<1>2. StepsApart
  BY <1>1 DEF StepsApart, StepsOf, Building
<1>3. DrawnApart
  BY <1>1, SessionAssumption DEF DrawnApart, DrawsId, Building, Sids
<1>4. UntoldEmpty
  BY DEF Init, UntoldEmpty, Sids
<1> QED
  BY <1>2, <1>3, <1>4, InitInv DEF IdInv

LEMMA NextIds == IdInv /\ [Next]_vars => IdInv'
<1> SUFFICES ASSUME IdInv, [Next]_vars PROVE IdInv'
  OBVIOUS
<1>1. ApiInv /\ TypeOK /\ StepsApart /\ DrawnApart /\ UntoldEmpty
  BY DEF IdInv, ApiInv
<1>2. ApiInv'
  BY <1>1, NextInv
<1>3. StepsApart' /\ DrawnApart' /\ UntoldEmpty'
  BY <1>1, StepsApartStep, DrawnApartStep, UntoldEmptyStep
<1> QED
  BY <1>2, <1>3 DEF IdInv
(***************************************************************************)
(* What a step does to a client and to DB(c).                              *)
(***************************************************************************)

\* Whether a client came from a backend is settled when it is allocated, and a
\* client that is closed stays so until then.
LEMMA ExternalStep ==
    ASSUME TypeOK, [Next]_vars, NEW d \in Clients, d \notin Allocatable
    PROVE  /\ client'[d].external = client[d].external
           /\ client'[d].open => client[d].open
<1> DEFINE P == /\ client'[d].external = client[d].external
                /\ client'[d].open => client[d].open
<1>0. client[d] \in ClientRecord /\ client \in [Clients -> ClientRecord]
  BY DEF TypeOK
<1>1. \A c : Close(c) => P
  BY <1>0 DEF Close, Closed, ClientRecord
<1>2. \A c : TouchUsage(c) \/ GoIdle(c) => P
  BY <1>0 DEF TouchUsage, GoIdle, ClientRecord
<1>3. \A c \in Allocatable : \A new : Allocate(c, new) => P
  BY <1>0 DEF Allocate
<1>4. UNCHANGED client => P
  OBVIOUS
<1> HIDE DEF P
<1>5. ASSUME NEW r \in Requests, Connect(r) \/ SwitchDb(r) \/ ConnectWithBackend(r) PROVE P
  BY <1>3, <1>5 DEF Connect, SwitchDb, ConnectWithBackend
<1>6. ASSUME NEW r \in Requests, QuerySteps(r) PROVE P
  BY <1>2, <1>4, <1>6 DEF QuerySteps, StartQuery, GetHistory, GetDatabases, QueryDone, RereadDB,
     QueryAgainDone
<1>7. ASSUME NEW r \in Requests, SetUpSteps(r) PROVE P
  BY <1>1, <1>2, <1>4, <1>5, <1>7 DEF SetUpSteps, Refused, TestClient, InfoClient, ReadCurrent,
     CloseCurrent, StoreDbClient, StoreSession, StoreRefused, CloseOld
<1>8. ASSUME NEW r \in Requests, DisconnectSteps(r) PROVE P
  BY <1>1, <1>4, <1>8 DEF DisconnectSteps, DisconnectSession, DisconnectRead, DisconnectClose,
     DisconnectClear, Remove
<1>9. Worker \/ TimePasses => P
  BY <1>1, <1>2, <1>4 DEF Worker, CleanupStart, CleanupRemove, Remove, TimePasses
<1>10. ASSUME NEW r \in Requests, Arrive(r) \/ Serve(r) PROVE P
  BY <1>4, <1>6, <1>7, <1>8, <1>10 DEF Arrive, Serve, DbCheck
<1>11. P
  BY <1>4, <1>9, <1>10 DEF Next, vars
<1> QED
  BY <1>11 DEF P

\* A client a request names, or a session has, is not allocated again.
LEMMA NamedStays ==
    ASSUME TypeOK, [Next]_vars, NEW d \in Clients, Referenced(d)
    PROVE  /\ client'[d].external = client[d].external
           /\ client'[d].open => client[d].open
BY ExternalStep DEF Allocatable

LEMMA DbClientStep ==
    ASSUME TypeOK, [Next]_vars
    PROVE  \/ DbClient' \in {DbClient, NoClient}
           \/ \E r \in Requests : StoreDbClient(r)
<1>1. ASSUME NEW r \in Requests, Serve(r), ~StoreDbClient(r)
      PROVE  DbClient' \in {DbClient, NoClient}
  BY <1>1 DEF Serve, DbCheck, QuerySteps, StartQuery, GetHistory, GetDatabases, QueryDone,
     RereadDB, QueryAgainDone, SetUpSteps, Refused, Connect, SwitchDb, ConnectWithBackend,
     TestClient, InfoClient, ReadCurrent, CloseCurrent, StoreSession, StoreRefused, CloseOld,
     DisconnectSteps, DisconnectSession, DisconnectRead, DisconnectClose, DisconnectClear
<1> QED
  BY <1>1 DEF Next, vars, Arrive, Worker, TimePasses

\* A store that request q would see, being of the same session.
StoresFor(r, q) ==
    \/ StoreSession(r) /\ req[r].sid = req[q].sid
    \/ StoreDbClient(r)

LEMMA DBStep ==
    ASSUME ApiInv, [Next]_vars, NEW q \in Requests, req'[q].sid = req[q].sid
    PROVE  \/ DB(q)' \in {DB(q), NoClient}
           \/ \E r \in Requests : StoresFor(r, q) /\ DB(q)' = req[r].cl
<1>1. CASE Sessions
  <2>1. CASE req[q].sid \notin Sids
    BY <1>1, <2>1 DEF DB, Get
  <2>2. CASE req[q].sid \in Sids
    <3>1. DB(q) = sessions[req[q].sid] /\ DB(q)' = sessions'[req[q].sid]
      BY <1>1, <2>2 DEF DB, Get
    <3>2. ASSUME NEW r \in Requests, StoreSession(r), req[r].sid = req[q].sid
          PROVE  sessions'[req[q].sid] = req[r].cl
      BY <2>2, <3>2 DEF StoreSession, Add, ApiInv, TypeOK
    <3>3. ASSUME NEW r \in Requests, StoreSession(r), req[r].sid # req[q].sid
          PROVE  sessions'[req[q].sid] = sessions[req[q].sid]
      BY <2>2, <3>3 DEF StoreSession, Add, ApiInv, TypeOK
    <3> QED
      BY <2>2, <3>1, <3>2, <3>3, SessionsStep DEF StoresFor
  <2> QED
    BY <2>1, <2>2
<1>2. CASE ~Sessions
  BY <1>2, DbClientStep DEF DB, StoresFor, StoreDbClient, ApiInv
<1> QED
  BY <1>1, <1>2

(***************************************************************************)
(* Clients of a connect backend.                                           *)
(***************************************************************************)

LEMMA BackendsApartStep ==
    ASSUME ~HeaderOnConnect, IdInv, BackendsApart, [Next]_vars
    PROVE  BackendsApart'
<1>0. ApiInv /\ TypeOK /\ LocalsSet /\ StepsApart /\ DrawnApart
  BY DEF IdInv, ApiInv
<1>1. \A d \in Clients : Referenced(d) => client'[d].external = client[d].external
  BY <1>0, NamedStays
<1>2. \A q \in Requests : req[q].pc \in Building =>
        req[q].cl \in Clients /\ client'[req[q].cl].external = client[req[q].cl].external
  BY <1>0, <1>1 DEF Referenced, LocalsSet, LocalsOf
<1>3. \A q \in Requests : DB(q) # NoClient =>
        DB(q) \in Clients /\ client'[DB(q)].external = client[DB(q)].external
  BY <1>0, <1>1, DBType, InstalledDB DEF Referenced, MaybeClient
<1>4. ASSUME NEW q \in Requests, req'[q].pc \in Building, client'[req'[q].cl].external
      PROVE  req'[q].op = "backend"
  <2>1. CASE req'[q] = req[q]
    BY <1>2, <1>4, <2>1 DEF BackendsApart
  <2>2. CASE Goes(q)
    <3>1. req[q].pc \in Building /\ req'[q].cl = req[q].cl /\ req'[q].op = req[q].op
      BY <1>4, <2>2 DEF Goes, Building
    <3> QED
      BY <1>2, <1>4, <3>1 DEF BackendsApart
  <2>3. ~Starts(q) /\ ~Ends(q)
    BY <1>4, EndsAt DEF Starts, Building, Steps
  <2> QED
    BY <1>0, <2>1, <2>2, <2>3, StepOfOne DEF Draws
<1>5. ASSUME NEW q \in Requests, at(q, "rereadDB", {"databases"})', (DB(q) # NoClient)'
      PROVE  ~client'[DB(q)'].external
  <2>1. req'[q].pc = "rereadDB" /\ req'[q].op = "databases"
    BY <1>5 DEF at
  <2>2. \/ req'[q] = req[q]
        \/ Goes(q) /\ req[q].pc = "handle" /\ ~client[DB(q)].external
    <3>1. ~Starts(q) /\ ~Ends(q) /\ ~Draws(q)
      BY <2>1, EndsAt DEF Starts, Draws, Steps
    <3>2. Goes(q) => req[q].pc = "handle" /\ ~client[DB(q)].external
      BY <1>0, <2>1 DEF Goes, StepsApart, StepsOf, QueryOps
    <3> QED
      BY <1>0, <3>1, <3>2, StepOfOne
  <2>3. req'[q].sid = req[q].sid /\ req[q].op = "databases" /\ req[q].pc # "store"
    BY <2>1, <2>2 DEF Goes
  <2>4. DB(q) # NoClient => ~client[DB(q)].external
    BY <2>1, <2>2 DEF BackendsApart, at
  <2>5. ASSUME NEW r \in Requests, StoresFor(r, q) PROVE ~client'[req[r].cl].external
    <3>1. req[r].pc = "store" /\ req[r].pc \in Building
      BY <2>5 DEF StoresFor, StoreSession, StoreDbClient, Building
    <3>2. SUFFICES ASSUME req[r].op = "backend" PROVE FALSE
      BY <1>2, <3>1 DEF BackendsApart
    <3>3. StoreSession(r) /\ req[r].sid = req[q].sid
      BY <1>0, <2>5, <3>2 DEF StoresFor, StoreDbClient, StepsApart, StepsOf
    <3>4. req[q].sid \in Uuids /\ uuids[req[q].sid] = "drawn"
      BY <1>0, <3>1, <3>2, <3>3 DEF DrawnApart, DrawsId
    <3> QED
      BY <1>0, <2>3, <3>4 DEF DrawnApart, DrawsId
  <2> QED
    BY <1>0, <1>3, <1>5, <2>3, <2>4, <2>5, DBStep
<1>6. ASSUME NEW q \in Requests, at(q, "runAgain", {"databases"})'
      PROVE  ~client'[req'[q].cur].external
  <2>1. req'[q].pc = "runAgain" /\ req'[q].op = "databases"
    BY <1>6 DEF at
  <2>2. CASE req'[q] = req[q]
    <3>1. req[q].cur \in Clients /\ Referenced(req[q].cur)
      BY <1>0, <2>1, <2>2 DEF LocalsSet, LocalsOf, Referenced
    <3> QED
      BY <1>1, <2>1, <2>2, <3>1 DEF BackendsApart, ListNeverExternal, at
  <2>3. CASE Goes(q)
    <3>1. at(q, "rereadDB", {"databases"}) /\ DB(q) # NoClient /\ req'[q].cur = DB(q)
      BY <2>1, <2>3 DEF Goes, at
    <3> QED
      BY <1>3, <3>1 DEF BackendsApart
  <2>4. ~Starts(q) /\ ~Ends(q) /\ ~Draws(q)
    BY <2>1, EndsAt DEF Starts, Draws, Steps
  <2> QED
    BY <1>0, <2>2, <2>3, <2>4, StepOfOne
<1> QED
  BY <1>4, <1>5, <1>6 DEF BackendsApart, ListNeverExternal

LEMMA BackendsApartInit == Init => BackendsApart
BY DEF Init, Answered, BackendsApart, ListNeverExternal, at, Building

\* The list of databases is never asked of a client whose credentials came from
\* a connect backend, although GetDatabases checks one DB(c) and asks another:
\* when the backend route is reached without a session id, the id it stores its
\* client under is unknown to every request until then.
THEOREM BackendsNotListed ==
    ASSUME ~HeaderOnConnect
    PROVE  Spec => []ListNeverExternal
<1>1. Init => IdInv /\ BackendsApart
  BY InitIds, BackendsApartInit
<1>2. IdInv /\ BackendsApart /\ [Next]_vars => (IdInv /\ BackendsApart)'
  BY NextIds, BackendsApartStep
<1>3. IdInv /\ BackendsApart => ListNeverExternal
  BY DEF BackendsApart
<1> QED
  BY <1>1, <1>2, <1>3, PTL DEF Spec

(***************************************************************************)
(* --lock-session.                                                         *)
(***************************************************************************)

\* A backend request works under an id that has no session yet, unless it brought
\* an id.
LEMMA DrawnIsNew ==
    ASSUME IdInv, NEW r \in Requests, DrawsId(r), ~KeepsOwnId(r)
    PROVE  Sessions /\ req[r].sid \in Sids /\ sessions[req[r].sid] = NoClient /\ DB(r) = NoClient
<1>1. req[r].sid \in Uuids /\ uuids[req[r].sid] = "drawn" /\ Sessions
  BY DEF IdInv, DrawnApart, DrawsId, KeepsOwnId, StepsApart, StepsOf
<1> QED
  BY <1>1 DEF IdInv, UntoldEmpty, DB, Get, Sids

LEMMA OnlyBackendStep ==
    ASSUME LockSession, IdInv, OnlyBackendBuilds, [Next]_vars
    PROVE  OnlyBackendBuilds'
<1>0. TypeOK
  BY DEF IdInv, ApiInv
<1> DEFINE B(q) == /\ req[q].pc \in Building => req[q].op = "backend"
                   /\ req[q].pc = "closeCurrent" => KeepsOwnId(q)
                   /\ req[q].pc \notin {"closeOld", "close", "clear"}
<1>1. SUFFICES ASSUME NEW q \in Requests PROVE B(q)'
  BY DEF OnlyBackendBuilds
<1>2. B(q)
  BY DEF OnlyBackendBuilds
<1>3. CASE req'[q] = req[q]
  BY <1>2, <1>3 DEF KeepsOwnId
<1>4. CASE Starts(q)
  BY <1>4 DEF Starts, Building
<1>5. CASE Ends(q)
  BY <1>5, EndsAt DEF Steps, Building
<1>6. CASE Goes(q)
  <2>1. req[q].pc = "readCurrent" /\ DB(q) # NoClient => KeepsOwnId(q)
    BY <1>2, DrawnIsNew DEF DrawsId, Building
  <2>2. KeepsOwnId(q)' <=> KeepsOwnId(q)
    BY <1>6 DEF Goes, KeepsOwnId
  <2> QED
    BY <1>2, <1>6, <2>1, <2>2 DEF Goes, Building
<1>7. CASE Draws(q)
  BY <1>7 DEF Draws, Building
<1> QED
  BY <1>0, <1>3, <1>4, <1>5, <1>6, <1>7, StepOfOne

\* What a request that brought its own id to the backend route may do.
Takes(r, c) == KeepsOwnId(r) /\ req'[r] # req[r] /\ Get(req[r].sid) = c

\* No other step of a request takes a client from a session, or closes it.
LEMMA LockedServe ==
    ASSUME LockSession, IdInv, OnlyBackendBuilds, [Next]_vars,
           NEW r \in Requests, Serve(r), NEW c \in Clients, Installed(c), client[c].open
    PROVE  (Installed(c)' /\ client'[c].open) \/ Takes(r, c)
<1>0. ApiInv /\ TypeOK /\ LocalsSet /\ BuildingFresh
  BY DEF IdInv, ApiInv
<1>1. client[c] \in ClientRecord /\ client \in [Clients -> ClientRecord]
  BY <1>0 DEF TypeOK
<1>2. req[r].pc \in Building => /\ req[r].cl \in Clients /\ req[r].cl # c
                                /\ DrawsId(r) /\ Sessions
  BY <1>0 DEF BuildingFresh, LocalsSet, LocalsOf, OnlyBackendBuilds, DrawsId,
     IdInv, StepsApart, StepsOf
<1>3. ~CloseOld(r) /\ ~DisconnectClose(r) /\ ~DisconnectClear(r)
  BY DEF OnlyBackendBuilds, CloseOld, DisconnectClose, DisconnectClear
<1>4. ~Connect(r) /\ ~SwitchDb(r) /\ ~DisconnectSession(r) /\ ~DisconnectRead(r)
  BY DEF Connect, SwitchDb, DisconnectSession, DisconnectRead
<1>5. ~StoreDbClient(r)
  BY <1>2 DEF StoreDbClient, Building
<1>6. CASE StoreRefused(r)
  <2>1. Close(req[r].cl) /\ req[r].pc \in Building /\ UNCHANGED <<sessions, DbClient>>
    BY <1>6 DEF StoreRefused, Building
  <2> QED
    BY <1>1, <1>2, <2>1, CloseType DEF Close, Installed
<1>7. CASE StoreSession(r)
  <2>1. req[r].pc \in Building /\ req[r].sid \in Sids
    BY <1>0, <1>7 DEF StoreSession, Building, TypeOK, RequestRecord
  <2>2. DbClient' = DbClient /\ client' = client
        /\ sessions' = [sessions EXCEPT ![req[r].sid] = req[r].cl]
    BY <1>7 DEF StoreSession, Add
  <2>3. \A s \in Sids : s # req[r].sid => sessions'[s] = sessions[s]
    BY <1>0, <2>1, <2>2 DEF TypeOK
  <2>4. CASE sessions[req[r].sid] = c
    <3>1. KeepsOwnId(r) /\ Get(req[r].sid) = c
      BY <1>2, <2>1, <2>4, DrawnIsNew, ClientAssumption DEF Get
    <3>2. req'[r] # req[r]
      BY <1>0, <1>7 DEF StoreSession, AfterStore, Goto, Respond, Move, Answered, TypeOK,
         RequestRecord
    <3> QED
      BY <3>1, <3>2 DEF Takes
  <2>5. CASE sessions[req[r].sid] # c
    BY <2>2, <2>3, <2>5 DEF Installed
  <2> QED
    BY <2>4, <2>5
<1>8. CASE InfoClient(r)
  <2>1. Close(req[r].cl) => client'[c].open
    BY <1>1, <1>2, <1>8, CloseType DEF InfoClient, Building, Close
  <2>2. TouchUsage(req[r].cl) => client'[c].open
    BY <1>1 DEF TouchUsage, ClientRecord
  <2> QED
    BY <1>8, <2>1, <2>2 DEF InfoClient, Installed
<1>9. CASE QueryDone(r) \/ QueryAgainDone(r)
  <2>1. \A d : TouchUsage(d) => client'[c].open
    BY <1>1 DEF TouchUsage, ClientRecord
  <2> QED
    BY <1>9, <2>1 DEF QueryDone, QueryAgainDone, Installed
<1>10. CASE ConnectWithBackend(r)
  <2>1. c \notin Allocatable
    BY DEF Allocatable
  <2>2. client'[c] = client[c]
    BY <1>1, <1>10, <2>1 DEF ConnectWithBackend, Allocate
  <2> QED
    BY <1>10, <2>2 DEF ConnectWithBackend, Installed
<1>11. CASE UNCHANGED <<client, sessions, DbClient>>
  BY <1>11 DEF Installed
<1>12. CASE CloseCurrent(r)
  <2>1. req[r].cur \in Clients /\ KeepsOwnId(r) /\ req[r].pc \in Building
    BY <1>0, <1>12 DEF CloseCurrent, LocalsSet, LocalsOf, OnlyBackendBuilds, Building
  <2>2. Close(req[r].cur) /\ UNCHANGED <<sessions, DbClient>>
    BY <1>12 DEF CloseCurrent
  <2>3. CASE c # req[r].cur
    BY <1>1, <2>1, <2>2, <2>3, CloseType DEF Close, Installed
  <2>4. CASE c = req[r].cur
    <3>1. PICK s \in Sids : sessions[s] = c
      BY <1>0, <1>2, <2>1, ClientAssumption DEF Installed, ApiInv, ModesApart
    <3>2. s = req[r].sid
      BY <1>0, <2>4, <3>1, ClientAssumption DEF ApiInv, StaysHome
    <3>3. req'[r] # req[r]
      BY <1>0, <1>12 DEF CloseCurrent, Goto, Move, TypeOK, RequestRecord
    <3> QED
      BY <2>1, <3>1, <3>2, <3>3 DEF Takes, Get
  <2> QED
    BY <2>3, <2>4
<1>13. CASE DbCheck(r) \/ QuerySteps(r)
  BY <1>9, <1>11, <1>13 DEF DbCheck, QuerySteps, StartQuery, GetHistory, GetDatabases, RereadDB
<1>14. CASE SetUpSteps(r)
  BY <1>3, <1>4, <1>5, <1>6, <1>7, <1>8, <1>10, <1>11, <1>12, <1>14 DEF SetUpSteps, Refused,
     TestClient, ReadCurrent
<1>15. CASE DisconnectSteps(r)
  BY <1>3, <1>4, <1>11, <1>15 DEF DisconnectSteps
<1> QED
  BY <1>13, <1>14, <1>15 DEF Serve

LEMMA LockedStep ==
    ASSUME LockSession, IdInv, OnlyBackendBuilds, [Next]_vars,
           NEW c \in Clients, Installed(c), client[c].open, ~(Installed(c)' /\ client'[c].open)
    PROVE  \/ \E s \in stale \ stale' : sessions[s] = c
           \/ \E r \in Requests : Takes(r, c)
<1>0. ApiInv /\ TypeOK /\ client \in [Clients -> ClientRecord]
  BY DEF IdInv, ApiInv, TypeOK
<1> SUFFICES ASSUME \A r \in Requests : ~Takes(r, c)
             PROVE  \E s \in stale \ stale' : sessions[s] = c
  OBVIOUS
<1>1. ~UNCHANGED vars /\ \A r \in Requests : ~Arrive(r) /\ ~Serve(r)
  BY LockedServe DEF vars, Arrive, Installed
<1>2. ~TimePasses
  BY <1>0 DEF TimePasses, GoIdle, Installed, ClientRecord
<1>3. PICK id \in Sids : CleanupRemove(id) /\ UNCHANGED DbClient
  BY <1>1, <1>2 DEF Next, Worker, CleanupStart, Installed
<1>4. id \in stale \ stale'
  BY <1>3 DEF CleanupRemove
<1>5. sessions[id] = c
  <2>1. SUFFICES ASSUME sessions[id] # c PROVE FALSE
    OBVIOUS
  <2>2. \A s \in Sids \ {id} : sessions'[s] = sessions[s]
    BY <1>0, <1>3 DEF CleanupRemove, Remove, TypeOK
  <2>3. Installed(c)'
    BY <1>3, <2>1, <2>2 DEF Installed
  <2>4. sessions[id] # NoClient => sessions[id] \in Clients \ {c}
    BY <1>0, <2>1 DEF TypeOK, MaybeClient
  <2>5. client'[c].open
    BY <1>0, <1>3, <2>4, CloseType DEF CleanupRemove, Remove, Close
  <2> QED
    BY <2>3, <2>5
<1> QED
  BY <1>4, <1>5

\* With --lock-session, in any order of the steps of any requests and the worker, a
\* session loses its connection to the worker, or to a request to the backend route
\* that came with the session's id, and to nothing else.
THEOREM LockHolds == Spec => LockedKeepsClient
<1> DEFINE LockInv == IdInv /\ (LockSession => OnlyBackendBuilds)
<1>1. Init => LockInv
  <2>1. Init => OnlyBackendBuilds
    BY DEF Init, Answered, OnlyBackendBuilds, Building
  <2> QED
    BY <2>1, InitIds
<1>2. LockInv /\ [Next]_vars => LockInv'
  BY NextIds, OnlyBackendStep
<1>3. LockInv /\ [Next]_vars =>
        [LockSession =>
           \A c \in Clients :
              /\ Installed(c) /\ client[c].open
              /\ ~(Installed(c)' /\ client'[c].open)
              => \/ \E s \in stale \ stale' : sessions[s] = c
                 \/ \E r \in Requests :
                      KeepsOwnId(r) /\ req'[r] # req[r] /\ Get(req[r].sid) = c]_vars
  BY LockedStep DEF Takes
<1> QED
  BY <1>1, <1>2, <1>3, PTL DEF Spec, LockedKeepsClient

(***************************************************************************)
(* Handlers that set up a client, whatever overlaps with them.             *)
(***************************************************************************)

LEMMA OldForgottenStep ==
    ASSUME ApiInv, OldForgotten, [Next]_vars
    PROVE  OldForgotten'
<1>0. TypeOK /\ LocalsSet /\ BuildingFresh /\ ModesApart
  BY DEF ApiInv
<1>1. SUFFICES ASSUME NEW q \in Requests, req'[q].pc = "closeOld"
               PROVE  DbClient' # req'[q].conn
  BY DEF OldForgotten
<1>2. LocalsSet' /\ ModesApart'
  BY NextInv DEF ApiInv
<1>3. req'[q].conn \in Clients
  BY <1>1, <1>2 DEF LocalsSet, LocalsOf
<1>4. CASE Sessions
  BY <1>2, <1>3, <1>4, ClientAssumption DEF ModesApart
<1>5. CASE ~Sessions /\ req'[q] = req[q]
  <2>1. DbClient # req[q].conn /\ req[q].pc = "closeOld"
    BY <1>1, <1>5 DEF OldForgotten
  <2>2. ASSUME NEW r \in Requests, StoreDbClient(r) PROVE DbClient' # req[q].conn
    <3>1. r # q /\ req[r].pc \in Building /\ DbClient' = req[r].cl
      BY <2>1, <2>2 DEF StoreDbClient, Building
    <3> QED
      BY <1>0, <3>1 DEF BuildingFresh
  <2> QED
    BY <1>0, <1>3, <1>5, <2>1, <2>2, DbClientStep, ClientAssumption
<1>6. CASE ~Sessions /\ req'[q] # req[q]
  <2>1. Serve(q) /\ Goes(q)
    <3>1. ~Starts(q) /\ ~Ends(q) /\ ~Draws(q)
      BY <1>1, EndsAt DEF Starts, Draws, Steps
    <3> QED
      BY <1>0, <1>6, <3>1, StepOfOne
  <2>2. req[q].pc = "store" /\ req[q].op = "switchdb"
    BY <1>1, <2>1 DEF Goes
  <2>3. StoreDbClient(q)
    BY <1>6, <2>1, <2>2, Zenon DEF Serve, DbCheck, QuerySteps, StartQuery, GetHistory, GetDatabases,
       QueryDone, RereadDB, QueryAgainDone, SetUpSteps, Refused, Connect, SwitchDb,
       ConnectWithBackend, TestClient, InfoClient, ReadCurrent, CloseCurrent, StoreSession,
       StoreRefused, CloseOld, DisconnectSteps, DisconnectSession, DisconnectRead, DisconnectClose,
       DisconnectClear, at
  <2>4. DbClient' = req[q].cl /\ req'[q].conn = req[q].conn
    BY <1>0, <2>2, <2>3 DEF StoreDbClient, AfterStore, Goto, Move, TypeOK, RequestRecord
  <2> QED
    BY <1>0, <2>2, <2>4 DEF BuildingFresh, Building
<1> QED
  BY <1>4, <1>5, <1>6

\* The steps out of store and closeOld.
LEMMA StoreOrCloseOld ==
    ASSUME TypeOK, [Next]_vars, NEW r \in Requests, req'[r] # req[r],
           req[r].pc \in {"store", "closeOld"}
    PROVE  \/ req[r].pc = "store" /\ (StoreSession(r) \/ StoreDbClient(r))
           \/ req[r].pc = "store" /\ req'[r].pc = "refused"
           \/ req[r].pc = "closeOld" /\ CloseOld(r)
<1>1. Serve(r)
  <2>1. ~Starts(r) /\ ~Draws(r)
    BY DEF Starts, Draws, Active, Answers
  <2> QED
    BY <2>1, StepOfOne
<1>2. StoreSession(r) \/ StoreDbClient(r) \/ StoreRefused(r) => req[r].pc = "store"
  BY DEF StoreSession, StoreDbClient, StoreRefused
<1>3. CloseOld(r) => req[r].pc = "closeOld"
  BY DEF CloseOld
<1>4. StoreSession(r) \/ StoreDbClient(r) \/ StoreRefused(r) \/ CloseOld(r)
  BY <1>1 DEF Serve, DbCheck, QuerySteps, StartQuery, GetHistory, GetDatabases,
     QueryDone, RereadDB, QueryAgainDone, SetUpSteps, Refused, Connect, SwitchDb,
     ConnectWithBackend, TestClient, InfoClient, ReadCurrent, CloseCurrent,
     DisconnectSteps, DisconnectSession, DisconnectRead, DisconnectClose,
     DisconnectClear, at
<1>5. StoreRefused(r) => req'[r].pc = "refused"
  BY DEF StoreRefused, Respond, Move, Answered, TypeOK
<1> QED
  BY <1>2, <1>3, <1>4, <1>5

LEMMA ConnectedStep ==
    ASSUME ApiInv, OldForgotten, [Next]_vars, NEW r \in Requests
    PROVE  /\ req[r].pc = "store" /\ req'[r].pc \in {"ok", "closeOld"} =>
                /\ client'[req[r].cl].open
                /\ req[r].cl = IF Sessions THEN sessions'[req[r].sid] ELSE DbClient'
           /\ req[r].pc = "closeOld" /\ req'[r].pc = "ok" =>
                \A c \in Clients : Installed(c)' /\ client[c].open => client'[c].open
<1>0. TypeOK /\ LocalsSet /\ BuildingFresh /\ ModesApart /\ OldGone
  BY DEF ApiInv
<1>1. CASE req[r].pc = "store" /\ req'[r].pc \in {"ok", "closeOld"}
  <2>1. StoreSession(r) \/ StoreDbClient(r)
    BY <1>0, <1>1, StoreOrCloseOld
  <2>2. client' = client /\ client[req[r].cl].open
    BY <1>0, <1>1, <2>1 DEF StoreSession, StoreDbClient, BuildingFresh, Building
  <2>3. CASE StoreSession(r)
    BY <1>0, <1>1, <2>2, <2>3 DEF StoreSession, Add, TypeOK, RequestRecord
  <2>4. CASE StoreDbClient(r)
    BY <1>1, <2>2, <2>4 DEF StoreDbClient
  <2> QED
    BY <2>1, <2>3, <2>4
<1>2. CASE req[r].pc = "closeOld" /\ req'[r].pc = "ok"
  <2>1. CloseOld(r) /\ req[r].conn \in Clients
    BY <1>0, <1>2, StoreOrCloseOld DEF LocalsSet, LocalsOf
  <2>2. Close(req[r].conn) /\ UNCHANGED <<sessions, DbClient>>
    BY <2>1 DEF CloseOld
  <2>3. \A c \in Clients : Installed(c)' => c # req[r].conn
    BY <1>0, <1>2, <2>2 DEF OldGone, OldForgotten, Installed
  <2> QED
    BY <1>0, <1>2, <2>1, <2>2, <2>3, CloseType DEF Close, TypeOK
<1> QED
  BY <1>1, <1>2

\* A client that was set up is open when the session gets it, and the last line of
\* SwitchDb never hits a client in use, in any order of the steps of any requests,
\* of one session too, and of the worker.
THEOREM ConnectedClientOpen == Spec => ConnectedIsOpen
<1>1. Init => ApiInv /\ OldForgotten
  BY InitInv DEF Init, Answered, OldForgotten
<1>2. ApiInv /\ OldForgotten /\ [Next]_vars => (ApiInv /\ OldForgotten)'
  BY NextInv, OldForgottenStep
<1>3. ApiInv /\ OldForgotten /\ [Next]_vars =>
        [\A r \in Requests :
          /\ req[r].pc = "store" /\ req'[r].pc \in {"ok", "closeOld"} =>
               /\ client'[req[r].cl].open
               /\ req[r].cl = IF Sessions THEN sessions'[req[r].sid] ELSE DbClient'
          /\ req[r].pc = "closeOld" /\ req'[r].pc = "ok" =>
               \A c \in Clients : Installed(c)' /\ client[c].open => client'[c].open]_vars
  BY ConnectedStep
<1> QED
  BY <1>1, <1>2, <1>3, PTL DEF Spec, ConnectedIsOpen

LEMMA ReadShutStep ==
    ASSUME ApiInv, ReadShut, [Next]_vars
    PROVE  ReadShut'
<1>0. TypeOK /\ LocalsSet /\ client \in [Clients -> ClientRecord]
  BY DEF ApiInv, TypeOK
<1> DEFINE Shut(q) ==
        /\ req[q].pc = "store" /\ req[q].cur # NoClient => ~client[req[q].cur].open
        /\ req[q].pc = "clear" => req[q].conn # NoClient /\ ~client[req[q].conn].open
<1>1. SUFFICES ASSUME NEW q \in Requests PROVE Shut(q)'
  BY DEF ReadShut
<1>2. Shut(q)
  BY DEF ReadShut
<1>3. \A c \in {req[q].conn, req[q].cur} : c # NoClient => (client'[c].open => client[c].open)
  <2>1. ASSUME NEW c \in {req[q].conn, req[q].cur}, c # NoClient
        PROVE  c \in Clients /\ Referenced(c)
    BY <1>0, <2>1 DEF TypeOK, RequestRecord, MaybeClient, Referenced
  <2> QED
    BY <1>0, <2>1, NamedStays
<1>4. CASE req'[q] = req[q]
  BY <1>2, <1>3, <1>4
<1>5. CASE Serve(q) /\ Goes(q)
  <2>1. CASE req[q].pc = "readCurrent" /\ req'[q].pc = "store"
    <3>1. ReadCurrent(q)
      BY <1>5, <2>1, Zenon DEF Serve, DbCheck, QuerySteps, StartQuery, GetHistory, GetDatabases,
         QueryDone, RereadDB, QueryAgainDone, SetUpSteps, Refused, Connect, SwitchDb,
         ConnectWithBackend, TestClient, InfoClient, CloseCurrent, StoreDbClient, StoreSession,
         StoreRefused, CloseOld, DisconnectSteps, DisconnectSession, DisconnectRead,
         DisconnectClose, DisconnectClear, at
    <3>2. DB(q) = NoClient
      BY <1>5, <2>1 DEF Goes
    <3>3. req'[q].cur = NoClient
      BY <1>0, <3>1, <3>2 DEF ReadCurrent, Move, TypeOK, RequestRecord
    <3> QED
      BY <2>1, <3>3
  <2>2. CASE req[q].pc = "closeCurrent" /\ req'[q].pc = "store"
    <3>1. CloseCurrent(q)
      BY <1>5, <2>2, Zenon DEF Serve, DbCheck, QuerySteps, StartQuery, GetHistory, GetDatabases,
         QueryDone, RereadDB, QueryAgainDone, SetUpSteps, Refused, Connect, SwitchDb,
         ConnectWithBackend, TestClient, InfoClient, ReadCurrent, StoreDbClient, StoreSession,
         StoreRefused, CloseOld, DisconnectSteps, DisconnectSession, DisconnectRead,
         DisconnectClose, DisconnectClear, at
    <3>2. req'[q].cur = req[q].cur /\ req[q].cur \in Clients /\ Close(req[q].cur)
      BY <1>0, <2>2, <3>1 DEF CloseCurrent, Goto, Move, TypeOK, RequestRecord, LocalsSet, LocalsOf
    <3>3. ~client'[req[q].cur].open
      BY <1>0, <3>2, CloseType DEF Close
    <3> QED
      BY <2>2, <3>2, <3>3
  <2>3. CASE req[q].pc = "close" /\ req'[q].pc = "clear"
    <3>1. DisconnectClose(q)
      BY <1>5, <2>3, Zenon DEF Serve, DbCheck, QuerySteps, StartQuery, GetHistory, GetDatabases,
         QueryDone, RereadDB, QueryAgainDone, SetUpSteps, Refused, Connect, SwitchDb,
         ConnectWithBackend, TestClient, InfoClient, ReadCurrent, CloseCurrent, StoreDbClient,
         StoreSession, StoreRefused, CloseOld, DisconnectSteps, DisconnectSession, DisconnectRead,
         DisconnectClear, at
    <3>2. req[q].conn \in Clients /\ Close(req[q].conn)
      BY <1>0, <2>3, <3>1 DEF DisconnectClose, LocalsSet, LocalsOf
    <3>3. Goto(q, "clear")
      BY <1>0, <2>3, <3>1 DEF DisconnectClose, Respond, Move, Answered, TypeOK
    <3>4. req'[q].conn = req[q].conn
      BY <1>0, <3>3 DEF Goto, Move, TypeOK, RequestRecord
    <3>5. ~client'[req[q].conn].open
      BY <1>0, <3>2, CloseType DEF Close
    <3> QED
      BY <2>3, <3>2, <3>4, <3>5, ClientAssumption
  <2>4. \/ req'[q].pc \notin {"store", "clear"}
        \/ req[q].pc = "readCurrent" /\ req'[q].pc = "store"
        \/ req[q].pc = "closeCurrent" /\ req'[q].pc = "store"
        \/ req[q].pc = "close" /\ req'[q].pc = "clear"
    BY <1>5 DEF Goes
  <2> QED
    BY <2>1, <2>2, <2>3, <2>4
<1>6. CASE Starts(q) \/ Draws(q) \/ Ends(q)
  <2>1. req'[q].pc \notin {"store", "clear"}
    BY <1>6, EndsAt DEF Starts, Draws, Steps
  <2> QED
    BY <2>1
<1> QED
  BY <1>0, <1>4, <1>5, <1>6, StepOfOne

LEMMA ForgetsStep ==
    ASSUME ApiInv, ReadShut, [Next]_vars,
           NEW c \in Clients, Installed(c), ~(Installed(c)'), client[c].open, client'[c].open
    PROVE  \E r \in Requests :
               \/ /\ req[r].pc = "store" /\ req'[r].pc \in {"ok", "closeOld"}
                  /\ req[r].cur # c
               \/ /\ req[r].pc = "clear" /\ req'[r].pc = "ok"
                  /\ req[r].conn # c
<1>0. TypeOK /\ LocalsSet /\ ModesApart /\ client \in [Clients -> ClientRecord]
  BY DEF ApiInv, TypeOK
<1>1. ASSUME NEW id, Remove(id), UNCHANGED DbClient PROVE FALSE
  <2>1. CASE sessions[id] = c
    <3>1. Close(c)
      BY <1>1, <2>1, ClientAssumption DEF Remove
    <3> QED
      BY <1>0, <3>1, CloseType DEF Close
  <2>2. CASE sessions[id] # c
    <3>1. \A s \in Sids : sessions[s] = c => sessions'[s] = c
      BY <1>0, <1>1, <2>2 DEF Remove, TypeOK
    <3> QED
      BY <1>1, <3>1 DEF Installed
  <2> QED
    BY <2>1, <2>2
<1>2. ~UNCHANGED <<sessions, DbClient>>
  BY DEF Installed
<1>3. PICK r \in Requests : StoreSession(r) \/ StoreDbClient(r) \/ DisconnectClear(r)
  <2>1. ~Worker /\ ~TimePasses /\ ~UNCHANGED vars
    BY <1>1, <1>2 DEF Worker, CleanupStart, CleanupRemove, TimePasses, vars
  <2>2. PICK r \in Requests : Serve(r)
    BY <1>2, <2>1 DEF Next, Arrive
  <2>3. ~DisconnectSession(r)
    BY <1>1 DEF DisconnectSession
  <2>4. StoreSession(r) \/ StoreDbClient(r) \/ DisconnectClear(r)
    BY <1>2, <2>2, <2>3, Zenon DEF Serve, DbCheck, QuerySteps, StartQuery, GetHistory,
       GetDatabases, QueryDone, RereadDB, QueryAgainDone, SetUpSteps, Refused, Connect, SwitchDb,
       ConnectWithBackend, TestClient, InfoClient, ReadCurrent, CloseCurrent, StoreRefused,
       CloseOld, DisconnectSteps, DisconnectRead, DisconnectClose
  <2> QED
    BY <2>4
<1>4. CASE DisconnectClear(r)
  <2>1. req[r].pc = "clear" /\ req'[r].pc = "ok"
    BY <1>0, <1>4 DEF DisconnectClear, Respond, Move, Answered, TypeOK
  <2>2. req[r].conn # c
    BY <2>1 DEF ReadShut
  <2> QED
    BY <2>1, <2>2
<1>5. CASE StoreSession(r) \/ StoreDbClient(r)
  <2>1. req[r].pc = "store" /\ req'[r].pc \in {"ok", "closeOld"}
    BY <1>0, <1>5 DEF StoreSession, StoreDbClient, AfterStore, Respond, Goto, Move, Answered,
       TypeOK, RequestRecord
  <2>2. req[r].cur # c
    BY <2>1, ClientAssumption DEF ReadShut
  <2> QED
    BY <2>1, <2>2
<1> QED
  BY <1>3, <1>4, <1>5

\* What setClient or Disconnect has read is closed by the time the session lets go of
\* it; an open client is left behind only by a request that has not seen it.  For any
\* overlap of the requests of one session, in both modes.
THEOREM ForgetsUnread == Spec => ForgetsOnlyUnread
<1>1. Init => ApiInv /\ ReadShut
  BY InitInv DEF Init, Answered, ReadShut
<1>2. ApiInv /\ ReadShut /\ [Next]_vars => (ApiInv /\ ReadShut)'
  BY NextInv, ReadShutStep
<1>3. ApiInv /\ ReadShut /\ [Next]_vars =>
        [\A c \in Clients :
          /\ Installed(c) /\ ~Installed(c)'
          /\ client[c].open /\ client'[c].open
          => \E r \in Requests :
               \/ /\ req[r].pc = "store" /\ req'[r].pc \in {"ok", "closeOld"}
                  /\ req[r].cur # c
               \/ /\ req[r].pc = "clear" /\ req'[r].pc = "ok"
                  /\ req[r].conn # c]_vars
  BY ForgetsStep
<1> QED
  BY <1>1, <1>2, <1>3, PTL DEF Spec, ForgetsOnlyUnread

(***************************************************************************)
(* Handlers that look at their session more than once.                     *)
(***************************************************************************)

LEMMA SessionsTaken ==
    ASSUME ApiInv, [Next]_vars, NEW s \in Sids, sessions[s] # NoClient, sessions'[s] = NoClient
    PROVE  \/ CleanupRemove(s) /\ UNCHANGED req
           \/ \E r \in Requests : DisconnectSession(r) /\ req[r].sid = s
<1>0. TypeOK /\ LocalsSet /\ sessions \in [Sids -> MaybeClient]
  BY DEF ApiInv, TypeOK
<1>1. \A id : Remove(id) => id = s
  BY <1>0 DEF Remove
<1>2. ASSUME NEW r \in Requests, StoreSession(r) PROVE FALSE
  <2>1. req[r].cl \in Clients
    BY <1>0, <1>2 DEF StoreSession, LocalsSet, LocalsOf, Building
  <2> QED
    BY <1>0, <1>2, <2>1, ClientAssumption DEF StoreSession, Add
<1>3. ASSUME NEW r \in Requests, Arrive(r) \/ Serve(r) PROVE DisconnectSession(r)
  <2>1. ~UNCHANGED sessions
    OBVIOUS
  <2> QED
    BY <1>2, <1>3, <2>1, Zenon DEF Arrive, Serve, DbCheck, QuerySteps, StartQuery, GetHistory,
       GetDatabases, QueryDone, RereadDB, QueryAgainDone, SetUpSteps, Refused, Connect, SwitchDb,
       ConnectWithBackend, TestClient, InfoClient, ReadCurrent, CloseCurrent, StoreDbClient,
       StoreRefused, CloseOld, DisconnectSteps, DisconnectRead, DisconnectClose, DisconnectClear
<1>4. CASE Worker
  BY <1>1, <1>4 DEF Worker, CleanupStart, CleanupRemove
<1> QED
  BY <1>1, <1>3, <1>4 DEF Next, vars, TimePasses, DisconnectSession

LEMMA DbClientTaken ==
    ASSUME ApiInv, [Next]_vars, DbClient # NoClient, DbClient' = NoClient
    PROVE  \E r \in Requests : DisconnectClear(r)
<1>0. LocalsSet
  BY DEF ApiInv
<1>1. ASSUME NEW r \in Requests, StoreDbClient(r) PROVE FALSE
  BY <1>0, <1>1, ClientAssumption DEF StoreDbClient, LocalsSet, LocalsOf, Building
<1>2. ASSUME NEW r \in Requests, Arrive(r) \/ Serve(r) PROVE DisconnectClear(r)
  <2>1. ~UNCHANGED DbClient
    OBVIOUS
  <2> QED
    BY <1>1, <1>2, <2>1, Zenon DEF Arrive, Serve, DbCheck, QuerySteps, StartQuery, GetHistory,
       GetDatabases, QueryDone, RereadDB, QueryAgainDone, SetUpSteps, Refused, Connect, SwitchDb,
       ConnectWithBackend, TestClient, InfoClient, ReadCurrent, CloseCurrent, StoreSession,
       StoreRefused, CloseOld, DisconnectSteps, DisconnectSession, DisconnectRead, DisconnectClose
<1> QED
  BY <1>2 DEF Next, vars, Worker, TimePasses

\* A request whose session loses its client, by a step that is not its own, or is a
\* step to the next look.
LEMMA ClientTaken ==
    ASSUME ApiInv, [Next]_vars, NEW q \in Requests, req'[q] = req[q] \/ Goes(q),
           DB(q) # NoClient, (DB(q) = NoClient)'
    PROVE  req'[q] = req[q] /\ TakenFromIt(q)
<1>0. TypeOK /\ LocalsSet /\ ModesApart
  BY DEF ApiInv
<1>1. req'[q].sid = req[q].sid
  BY DEF Goes
<1>2. ASSUME NEW r \in Requests, DisconnectSession(r) \/ DisconnectClear(r)
      PROVE  r # q /\ req'[q] = req[q]
  <2>1. Respond(r, "ok") /\ req[r].pc \in {"handle", "clear"}
    BY <1>2 DEF DisconnectSession, DisconnectClear, at
  <2>2. req'[r].pc = "ok" /\ \A x \in Requests \ {r} : req'[x] = req[x]
    BY <1>0, <2>1 DEF Respond, Move, Answered, TypeOK
  <2>3. ~Goes(r) /\ req'[r] # req[r]
    BY <2>1, <2>2 DEF Goes
  <2> QED
    BY <2>2, <2>3
<1>3. CASE Sessions
  <2>1. req[q].sid \in Sids /\ sessions[req[q].sid] # NoClient /\ sessions'[req[q].sid] = NoClient
    BY <1>1, <1>3 DEF DB, Get
  <2>2. CASE CleanupRemove(req[q].sid) /\ UNCHANGED req
    BY <2>2 DEF TakenFromIt
  <2>3. ASSUME NEW r \in Requests, DisconnectSession(r), req[r].sid = req[q].sid
        PROVE  req'[q] = req[q] /\ TakenFromIt(q)
    BY <1>2, <2>1, <2>3 DEF TakenFromIt, SameSession
  <2> QED
    BY <2>1, <2>2, <2>3, SessionsTaken
<1>4. CASE ~Sessions
  <2>1. DbClient # NoClient /\ DbClient' = NoClient
    BY <1>4 DEF DB
  <2>2. PICK r \in Requests : DisconnectClear(r)
    BY <2>1, DbClientTaken
  <2> QED
    BY <1>2, <1>4, <2>2 DEF TakenFromIt, SameSession
<1> QED
  BY <1>3, <1>4

\* A client stored in the session of a request at work is stored by another one.
LEMMA StoredByOther ==
    ASSUME TypeOK, NEW q \in Requests, req[q].pc # "store", NEW r \in Requests, StoresFor(r, q)
    PROVE  StoredForIt(q) /\ req'[q] = req[q]
<1>1. r # q /\ SameSession(req[q].sid, r)
  BY DEF StoresFor, StoreSession, StoreDbClient, SameSession, TypeOK, RequestRecord
<1>2. \A x \in Requests \ {r} : req'[x] = req[x]
  BY DEF StoresFor, StoreSession, StoreDbClient, AfterStore, Goto, Respond, Move, TypeOK
<1> QED
  BY <1>1, <1>2 DEF StoredForIt, StoresFor

LEMMA ReadsWatchedStep ==
    ASSUME ReadsInv, ReadsNext
    PROVE  ReadsWatched'
<1>0. ApiInv /\ TypeOK /\ StepsApart /\ [Next]_vars
  BY DEF ReadsInv, IdInv, ApiInv, ReadsNext
<1> DEFINE Answering(q) == AfterCheck(q) /\ req[q].op \notin allowedPaths \cup {"backend"}
<1>1. SUFFICES ASSUME NEW q \in Requests
               PROVE  /\ BetweenReads(q)' =>
                           (DB(q)' \in {req'[q].conn, NoClient} \/ q \in replaced')
                      /\ Answering(q)' => (DB(q)' # NoClient \/ q \in ended')
  BY DEF ReadsWatched
<1>2. /\ BetweenReads(q) => DB(q) \in {req[q].conn, NoClient} \/ q \in replaced
      /\ Answering(q) => DB(q) # NoClient \/ q \in ended
  BY DEF ReadsInv, ReadsWatched
<1>3. /\ BetweenReads(q) /\ (q \in replaced \/ StoredForIt(q)) => q \in replaced'
      /\ AfterCheck(q) /\ (q \in ended \/ TakenFromIt(q)) => q \in ended'
  BY DEF ReadsNext
<1>4. CASE req'[q] = req[q]
  <2>1. /\ BetweenReads(q)' <=> BetweenReads(q)
        /\ Answering(q)' <=> Answering(q)
        /\ AfterCheck(q)' <=> AfterCheck(q)
    BY <1>4 DEF BetweenReads, AfterCheck
  <2>2. AfterCheck(q) => req[q].pc # "store"
    BY DEF AfterCheck, BetweenReads
  <2>3. ASSUME BetweenReads(q) PROVE DB(q)' \in {req'[q].conn, NoClient} \/ q \in replaced'
    <3>1. AfterCheck(q)
      BY <2>3 DEF AfterCheck
    <3> QED
      BY <1>0, <1>2, <1>3, <1>4, <2>2, <2>3, <3>1, DBStep, StoredByOther
  <2>4. ASSUME Answering(q) PROVE DB(q)' # NoClient \/ q \in ended'
    BY <1>0, <1>2, <1>3, <1>4, <2>4, ClientTaken
  <2> QED
    BY <2>1, <2>3, <2>4
<1>5. CASE Goes(q)
  <2>1. ASSUME BetweenReads(q)'
        PROVE  DB(q)' \in {req'[q].conn, NoClient} \/ q \in replaced'
    <3>1. req[q].pc # "store" /\ req'[q].sid = req[q].sid /\ req'[q].pc # req[q].pc
      BY <1>5, <2>1 DEF Goes, BetweenReads
    <3>2. DB(q)' \in {DB(q), NoClient}
      BY <1>0, <3>1, DBStep, StoredByOther
    <3>3. CASE BetweenReads(q)
      <4>1. req'[q].conn = req[q].conn
        BY <1>5, <2>1, <3>3 DEF Goes, BetweenReads
      <4> QED
        BY <1>2, <1>3, <3>2, <3>3, <4>1
    <3>4. CASE ~BetweenReads(q)
      <4>1. req'[q].conn = DB(q)
        BY <1>5, <2>1, <3>4 DEF Goes, BetweenReads
      <4> QED
        BY <3>2, <4>1
    <3> QED
      BY <3>3, <3>4
  <2>2. ASSUME Answering(q)' PROVE DB(q)' # NoClient \/ q \in ended'
    <3>1. req'[q].op = req[q].op /\ req'[q].pc # req[q].pc
      BY <1>5, <2>2 DEF Goes, AfterCheck, BetweenReads
    <3>2. CASE req[q].pc = "dbCheck"
      <4>1. DB(q) # NoClient
        BY <1>5, <3>2 DEF Goes
      <4> QED
        BY <1>0, <1>5, <3>1, <4>1, ClientTaken
    <3>3. CASE req[q].pc # "dbCheck"
      <4>1. Answering(q)
        BY <1>5, <2>2, <3>1, <3>3 DEF Goes, AfterCheck, BetweenReads
      <4> QED
        BY <1>0, <1>2, <1>3, <1>5, <3>1, <4>1, ClientTaken
    <3> QED
      BY <3>2, <3>3
  <2> QED
    BY <2>1, <2>2
<1>6. CASE Starts(q) \/ Draws(q) \/ Ends(q)
  <2>1. req'[q].pc \notin {"runQuery", "rereadDB"}
    BY <1>6, EndsAt DEF Starts, Draws, Steps
  <2>2. req'[q].pc = "handle" => req'[q].op \in allowedPaths \cup {"backend"}
    BY <1>6, EndsAt DEF Starts, Draws, Steps
  <2> QED
    BY <2>1, <2>2 DEF BetweenReads, AfterCheck
<1> QED
  BY <1>0, <1>4, <1>5, <1>6, StepOfOne

LEMMA ReadsInvariance == ReadsSpec => []ReadsInv
<1>1. ReadsInit => ReadsInv
  <2>1. ReadsInit => ReadsWatched
    BY DEF ReadsInit, Init, Answered, ReadsWatched, AfterCheck, BetweenReads
  <2> QED
    BY <2>1, InitIds DEF ReadsInit, ReadsInv
<1>2. ReadsInv /\ [ReadsNext]_readsVars => ReadsInv'
  <2>1. ReadsInv /\ ReadsNext => ReadsInv'
    BY NextIds, ReadsWatchedStep DEF ReadsInv, ReadsNext
  <2>2. ReadsInv /\ UNCHANGED readsVars => ReadsInv'
    <3>1. UNCHANGED readsVars => UNCHANGED vars
      BY DEF readsVars, vars
    <3>2. ReadsWatched /\ UNCHANGED readsVars => ReadsWatched'
      BY DEF readsVars, ReadsWatched, BetweenReads, AfterCheck, DB, Get
    <3> QED
      BY <3>1, <3>2, NextIds DEF ReadsInv
  <2> QED
    BY <2>1, <2>2
<1> QED
  BY <1>1, <1>2, PTL DEF ReadsSpec

\* Two reads of DB(c) by one handler differ only when another request of the same
\* session stored a client in between: for any overlap of any requests with each
\* other and with the worker.
THEOREM ReadsDiffer == ReadsSpec => ReadsDifferOnlyIfReplaced
<1>1. ReadsInv /\ [ReadsNext]_readsVars =>
        [\A r \in Requests :
          req[r].pc = "rereadDB" /\ req'[r].pc = "runAgain" /\ req'[r].cur # req'[r].conn
          => r \in replaced]_readsVars
  <2> SUFFICES ASSUME ReadsInv, ReadsNext, NEW r \in Requests,
                      req[r].pc = "rereadDB", req'[r].pc = "runAgain", req'[r].cur # req'[r].conn
               PROVE  r \in replaced
    OBVIOUS
  <2>0. TypeOK /\ [Next]_vars
    BY DEF ReadsInv, IdInv, ApiInv, ReadsNext
  <2>1. Goes(r)
    <3>1. ~Starts(r) /\ ~Draws(r) /\ ~Ends(r)
      BY EndsAt DEF Starts, Draws, Steps
    <3> QED
      BY <2>0, <3>1, StepOfOne
  <2>2. DB(r) # NoClient /\ req'[r].conn = req[r].conn /\ req'[r].cur = DB(r)
    BY <2>1 DEF Goes
  <2> QED
    BY <2>2 DEF ReadsInv, ReadsWatched, BetweenReads
<1> QED
  BY <1>1, ReadsInvariance, PTL DEF ReadsSpec, ReadsDifferOnlyIfReplaced

\* Where a handler dereferences a nil client.
LEMMA PanicsWhere ==
    ASSUME TypeOK, StepsApart, [Next]_vars, NEW r \in Requests, Active(r),
           req'[r].pc = "panic", req[r].op \notin allowedPaths
    PROVE  AfterCheck(r) /\ DB(r) = NoClient /\ req[r].op # "backend"
<1>1. Serve(r)
  <2>1. ~Starts(r) /\ ~Draws(r) /\ req'[r] # req[r]
    BY DEF Starts, Draws, Active, Answers
  <2> QED
    BY <2>1, StepOfOne
<1>2. /\ \A next : Move(r, next) => req'[r] = next
      /\ \A answer : Respond(r, answer) => answer = "panic"
      /\ \A pc : Goto(r, pc) => pc = "panic"
  BY DEF Respond, Goto, Move, Answered, TypeOK, RequestRecord
<1>3. /\ \A c : ~Move(r, [req[r] EXCEPT !.pc = "runQuery", !.conn = c])
      /\ \A c : ~Move(r, [req[r] EXCEPT !.pc = "rereadDB", !.conn = c])
      /\ \A c : ~Move(r, [req[r] EXCEPT !.pc = "close", !.conn = c])
      /\ \A c : ~Move(r, [req[r] EXCEPT !.pc = "runAgain", !.cur = c])
      /\ \A c : ~Move(r, [req[r] EXCEPT !.pc = "test", !.cl = c])
      /\ \A c, d : ~Move(r, [req[r] EXCEPT !.pc = "test", !.conn = c, !.cl = d])
  <2>1. req[r] \in RequestRecord
    BY DEF TypeOK
  <2> QED
    BY <1>2, <2>1 DEF RequestRecord
<1>4. CASE StartQuery(r)
  <2>1. DB(r) = NoClient
    BY <1>3, <1>4 DEF StartQuery
  <2> QED
    BY <1>4, <2>1 DEF StartQuery, at, QueryOps, AfterCheck
<1>5. CASE GetDatabases(r)
  <2>1. DB(r) = NoClient
    BY <1>2, <1>3, <1>5 DEF GetDatabases
  <2> QED
    BY <1>5, <2>1 DEF GetDatabases, at, AfterCheck
<1>6. CASE RereadDB(r)
  <2>1. DB(r) = NoClient
    BY <1>3, <1>6 DEF RereadDB
  <2> QED
    BY <1>6, <2>1 DEF RereadDB, AfterCheck, BetweenReads, StepsApart, StepsOf, QueryOps
<1>7. ~DbCheck(r) /\ ~GetHistory(r) /\ ~QueryDone(r) /\ ~QueryAgainDone(r)
  BY <1>2 DEF DbCheck, GetHistory, QueryDone, QueryAgainDone, at, allowedPaths
<1>8. ~SetUpSteps(r)
  <2>1. ~Connect(r) /\ ~SwitchDb(r) /\ ~ConnectWithBackend(r) /\ ~ReadCurrent(r)
    <3>1. ~ConnectWithBackend(r)
      BY BackendDraws DEF Draws
    <3>2. ~ReadCurrent(r)
      <4>1. ReadCurrent(r) => req'[r].pc \in {"store", "closeCurrent"}
        BY <1>2 DEF ReadCurrent, TypeOK, RequestRecord
      <4> QED
        BY <4>1
    <3> QED
      BY <1>3, <3>1, <3>2 DEF Connect, SwitchDb
  <2>2. ~Refused(r)
    BY <1>2 DEF Refused, NoTunnelPort, at, allowedPaths
  <2>3. ~TestClient(r) /\ ~InfoClient(r) /\ ~CloseCurrent(r) /\ ~StoreRefused(r) /\ ~CloseOld(r)
    BY <1>2 DEF TestClient, InfoClient, CloseCurrent, StoreRefused, CloseOld
  <2>4. ~StoreDbClient(r) /\ ~StoreSession(r)
    BY <1>2 DEF StoreDbClient, StoreSession, AfterStore
  <2> QED
    BY <2>1, <2>2, <2>3, <2>4 DEF SetUpSteps
<1>9. ~DisconnectSteps(r)
  <2>1. ~DisconnectRead(r)
    BY <1>2, <1>3 DEF DisconnectRead
  <2> QED
    BY <1>2, <2>1 DEF DisconnectSteps, DisconnectSession, DisconnectClose, DisconnectClear
<1> QED
  BY <1>1, <1>4, <1>5, <1>6, <1>7, <1>8, <1>9 DEF Serve, QuerySteps

\* No handler behind the check meets a nil client unless the worker or a disconnect
\* ended its session since: for any overlap of connects, switches and queries.
THEOREM PanicsAfterEnd == ReadsSpec => PanicsOnlyIfEnded
<1>1. ReadsInv /\ [ReadsNext]_readsVars =>
        [\A r \in Requests :
          /\ Active(r) /\ req'[r].pc = "panic"
          /\ req[r].op \notin allowedPaths
          => r \in ended]_readsVars
  <2> SUFFICES ASSUME ReadsInv, ReadsNext, NEW r \in Requests, Active(r), req'[r].pc = "panic",
                      req[r].op \notin allowedPaths
               PROVE  r \in ended
    OBVIOUS
  <2>1. AfterCheck(r) /\ DB(r) = NoClient /\ req[r].op # "backend"
    BY PanicsWhere DEF ReadsInv, IdInv, ApiInv, ReadsNext
  <2> QED
    BY <2>1 DEF ReadsInv, ReadsWatched
<1> QED
  BY <1>1, ReadsInvariance, PTL DEF ReadsSpec, PanicsOnlyIfEnded

(***************************************************************************)
(* Requests of one session that come one at a time.                        *)
(***************************************************************************)

LEMMA OneAtATimeStep ==
    ASSUME SerialClients, IdInv, OneAtATime, [Next]_vars
    PROVE  OneAtATime'
<1>0. TypeOK /\ DrawnApart /\ StepsApart
  BY DEF IdInv, ApiInv
<1>1. CASE UNCHANGED <<req, uuids, DbClient>>
  BY <1>1 DEF OneAtATime, Active, SameSession
<1>2. ASSUME NEW r \in Requests, \A q \in Requests \ {r} : req'[q] = req[q],
             Active(r)' => \A q \in Requests \ {r} : Active(q) => ~SameSession(req'[r].sid, q)
      PROVE  OneAtATime'
  <2>1. ASSUME NEW q \in Requests, NEW x \in Requests, q # x, Active(q)', Active(x)'
        PROVE  ~SameSession(req[x].sid, q)'
    <3>1. CASE q # r /\ x # r
      BY <1>2, <2>1, <3>1 DEF OneAtATime, Active, SameSession
    <3>2. CASE x = r
      BY <1>2, <2>1, <3>2 DEF Active, SameSession
    <3>3. CASE q = r
      BY <1>2, <2>1, <3>3 DEF Active, SameSession
    <3> QED
      BY <3>1, <3>2, <3>3
  <2> QED
    BY <2>1 DEF OneAtATime
<1>3. ASSUME NEW r \in Requests, Starts(r), NEW q \in Requests \ {r}, Active(q)
      PROVE  ~SameSession(req'[r].sid, q)
  BY <1>3 DEF Starts, MayArrive
<1>4. ASSUME NEW r \in Requests, Ends(r) PROVE ~Active(r)'
  BY <1>4, EndsAt DEF Active
<1>5. ASSUME NEW r \in Requests, Goes(r), NEW q \in Requests \ {r}, Active(q)
      PROVE  ~SameSession(req'[r].sid, q)
  <2>1. Active(r) /\ req'[r].sid = req[r].sid
    BY <1>5 DEF Goes, Active, Answers
  <2> QED
    BY <1>5, <2>1 DEF OneAtATime
<1>6. ASSUME NEW r \in Requests, Draws(r), NEW q \in Requests \ {r}, Active(q)
      PROVE  ~SameSession(req'[r].sid, q)
  <2>1. Active(r) /\ Sessions
    BY <1>0, <1>6 DEF Draws, Active, Answers, StepsApart, StepsOf
  <2>2. CASE req'[r].sid = req[r].sid
    BY <1>6, <2>1, <2>2 DEF OneAtATime
  <2>3. CASE req'[r].sid = req'[r].uuid
    <3>1. req[q].sid # req'[r].uuid
      BY <1>0, <1>6 DEF Draws, DrawnApart, DrawsId
    <3> QED
      BY <2>1, <2>3, <3>1 DEF SameSession
  <2> QED
    BY <1>6, <2>2, <2>3 DEF Draws, EffectiveSid
<1> QED
  BY <1>0, <1>1, <1>2, <1>3, <1>4, <1>5, <1>6, StepOfOne

\* While a request is at work nobody else stores a client in its session.
LEMMA NobodyElseStores ==
    ASSUME IdInv, OneAtATime, NEW q \in Requests, Active(q), NEW r \in Requests, StoresFor(r, q)
    PROVE  r = q
<1>1. Active(r) /\ SameSession(req[r].sid, q)
  BY DEF StoresFor, StoreSession, StoreDbClient, Active, Answers, SameSession,
     IdInv, ApiInv, TypeOK, RequestRecord
<1> QED
  BY <1>1 DEF OneAtATime

\* So what it read is still there, or gone with its session.
LEMMA SerialDB ==
    ASSUME IdInv, OneAtATime, [Next]_vars, NEW q \in Requests, Active(q),
           req'[q].sid = req[q].sid,
           req[q].pc # "store" \/ req'[q] = req[q]
    PROVE  DB(q)' \in {DB(q), NoClient}
<1>1. ApiInv /\ TypeOK
  BY DEF IdInv, ApiInv
<1>2. ~StoresFor(q, q)
  <2>1. StoresFor(q, q) => req[q].pc = "store" /\ req'[q].pc # "store"
    BY <1>1 DEF StoresFor, StoreSession, StoreDbClient, AfterStore, Goto, Respond, Move, Answered,
       TypeOK, RequestRecord
  <2> QED
    BY <2>1
<1> QED
  BY <1>1, <1>2, DBStep, NobodyElseStores

LEMMA ReadsStayStep ==
    ASSUME IdInv, OneAtATime, ReadsStay, [Next]_vars
    PROVE  ReadsStay'
<1>0. ApiInv /\ TypeOK /\ LocalsSet
  BY DEF IdInv, ApiInv
<1> DEFINE Kept(q) ==
        /\ req[q].pc \in {"runQuery", "rereadDB", "close"} => DB(q) \in {req[q].conn, NoClient}
        /\ req[q].pc = "runAgain" => req[q].cur = req[q].conn
        /\ req[q].pc = "closeCurrent" => DB(q) \in {req[q].cur, NoClient}
        /\ req[q].pc \in {"store", "clear"} => DB(q) = NoClient \/ ~client[DB(q)].open
<1>1. SUFFICES ASSUME NEW q \in Requests PROVE Kept(q)'
  BY DEF ReadsStay
<1>2. Kept(q)
  BY DEF ReadsStay
<1>3. DB(q) = NoClient \/ (DB(q) \in Clients /\ (client'[DB(q)].open => client[DB(q)].open))
  BY <1>0, NamedStays, DBType, InstalledDB DEF Referenced, MaybeClient
<1>4. CASE req'[q] = req[q]
  <2>1. CASE Active(q)
    <3>1. DB(q)' \in {DB(q), NoClient}
      BY <1>4, <2>1, SerialDB
    <3> QED
      BY <1>2, <1>3, <1>4, <3>1
  <2>2. CASE ~Active(q)
    BY <1>4, <2>2 DEF Active, Answers
  <2> QED
    BY <2>1, <2>2
<1>5. CASE Goes(q)
  <2>1. Active(q)
    BY <1>5 DEF Goes, Active, Answers
  <2>2. req'[q].sid = req[q].sid
    BY <1>5 DEF Goes
  <2>3. CASE req[q].pc = "store"
    <3>1. req'[q].pc = "closeOld"
      BY <1>5, <2>3 DEF Goes
    <3> QED
      BY <3>1
  <2>4. CASE req[q].pc # "store"
    <3>1. DB(q)' \in {DB(q), NoClient}
      BY <2>1, <2>2, <2>4, SerialDB
    <3>2. CASE req[q].pc = "closeCurrent"
      <4>1. Close(req[q].cur) /\ req[q].cur \in Clients /\ req'[q].pc = "store"
        BY <1>0, <1>5, <3>2 DEF Goes, LocalsSet, LocalsOf
      <4>2. ~client'[req[q].cur].open
        BY <1>0, <4>1, CloseType DEF Close, TypeOK
      <4> QED
        BY <1>2, <3>1, <3>2, <4>1, <4>2
    <3>3. CASE req[q].pc = "close"
      <4>1. Close(req[q].conn) /\ req[q].conn \in Clients /\ req'[q].pc = "clear"
        BY <1>0, <1>5, <3>3 DEF Goes, LocalsSet, LocalsOf
      <4>2. ~client'[req[q].conn].open
        BY <1>0, <4>1, CloseType DEF Close, TypeOK
      <4> QED
        BY <1>2, <3>1, <3>3, <4>1, <4>2
    <3>4. CASE req[q].pc \notin {"closeCurrent", "close"}
      BY <1>2, <1>5, <3>1, <3>4 DEF Goes
    <3> QED
      BY <3>2, <3>3, <3>4
  <2> QED
    BY <2>3, <2>4
<1>6. CASE Starts(q) \/ Draws(q) \/ Ends(q)
  <2>1. req'[q].pc \notin {"runQuery", "rereadDB", "close", "runAgain", "closeCurrent", "store",
                           "clear"}
    BY <1>6, EndsAt DEF Starts, Draws, Steps
  <2> QED
    BY <2>1
<1> QED
  BY <1>0, <1>4, <1>5, <1>6, StepOfOne

LEMMA InitSerial == Init => SerialInv
<1> SUFFICES ASSUME Init PROVE SerialInv
  OBVIOUS
<1>1. \A r \in Requests : req[r].pc = "ok"
  BY DEF Init, Answered
<1> QED
  BY <1>1, InitIds DEF SerialInv, OneAtATime, ReadsStay, Active, Answers

LEMMA NextSerial ==
    ASSUME SerialClients
    PROVE  SerialInv /\ [Next]_vars => SerialInv'
<1>1. SerialInv /\ [Next]_vars => IdInv'
  BY NextIds DEF SerialInv
<1>2. SerialInv /\ [Next]_vars => OneAtATime' /\ ReadsStay'
  BY OneAtATimeStep, ReadsStayStep DEF SerialInv
<1> QED
  BY <1>1, <1>2 DEF SerialInv

THEOREM SerialInvariance ==
    ASSUME SerialClients
    PROVE  Spec => []SerialInv
BY InitSerial, NextSerial, PTL DEF Spec

(***************************************************************************)
(* The refinement of SessionRegister.                                      *)
(***************************************************************************)

\* A step the register allows: one of its own, or none.
RegisterStep == [Register!Next]_<<Bound, OpenClients>>

LEMMA BoundFacts ==
    ASSUME ApiInv
    PROVE  /\ Bound \in [Slots -> MaybeClient]
           /\ \A c \in Clients : Installed(c) <=> \E s \in Slots : Bound[s] = c
           /\ \A s, t \in Slots : s # t /\ Bound[s] # NoClient => Bound[s] # Bound[t]
           /\ OpenClients \subseteq Clients /\ NoClient \notin OpenClients
<1>1. CASE Sessions
  BY <1>1, ClientAssumption
  DEF ApiInv, TypeOK, ModesApart, NoSharing, Bound, Slots, Installed, OpenClients
<1>2. CASE ~Sessions
  BY <1>2, ClientAssumption
  DEF ApiInv, TypeOK, ModesApart, Bound, Slots, Installed, OpenClients
<1> QED
  BY <1>1, <1>2

LEMMA SameIsStutter ==
    ASSUME UNCHANGED <<client, sessions, DbClient>>
    PROVE  RegisterStep
BY DEF RegisterStep, Bound, OpenClients

\* Closing a client shuts the session that has it, or gives up its set-up.
LEMMA CloseIsShut ==
    ASSUME ApiInv, NEW c \in Clients, Close(c), UNCHANGED <<sessions, DbClient>>
    PROVE  RegisterStep
<1>1. Bound' = Bound
  BY DEF Bound
<1>2. OpenClients' = OpenClients \ {c}
  BY CloseType DEF Close, OpenClients, ApiInv, TypeOK
<1>3. CASE \E s \in Slots : Bound[s] = c
  <2>1. PICK s \in Slots : Bound[s] = c
    BY <1>3
  <2>2. Register!Shut(s)
    BY <1>1, <1>2, <2>1, ClientAssumption DEF Register!Shut
  <2> QED
    BY <2>2 DEF RegisterStep, Register!Next
<1>4. CASE ~\E s \in Slots : Bound[s] = c
  <2>1. Register!SetUp(c)
    BY <1>1, <1>2, <1>4 DEF Register!SetUp, Register!Unbound
  <2> QED
    BY <2>1 DEF RegisterStep, Register!Next
<1> QED
  BY <1>3, <1>4

LEMMA AllocateIsSetUp ==
    ASSUME ApiInv, NEW c \in Allocatable, NEW new, new.open = TRUE, Allocate(c, new),
           UNCHANGED <<sessions, DbClient>>
    PROVE  RegisterStep
<1>1. Bound' = Bound
  BY DEF Bound
<1>2. OpenClients' = OpenClients \cup {c}
  <2>1. \A d \in Clients : client'[d].open <=> (d = c \/ client[d].open)
    BY DEF Allocate, ApiInv, TypeOK
  <2> QED
    BY <2>1 DEF OpenClients, Allocatable
<1>3. c \in Clients /\ ~\E s \in Slots : Bound[s] = c
  BY BoundFacts DEF Allocatable, Referenced
<1>4. Register!SetUp(c)
  BY <1>1, <1>2, <1>3 DEF Register!SetUp, Register!Unbound
<1> QED
  BY <1>3, <1>4 DEF RegisterStep, Register!Next

\* Whether a client is idle says nothing to the register.
LEMMA UsageIsStutter ==
    ASSUME TypeOK, NEW c, TouchUsage(c) \/ GoIdle(c), UNCHANGED <<sessions, DbClient>>
    PROVE  RegisterStep
<1>1. \A d \in Clients : client'[d].open = client[d].open
  BY DEF TouchUsage, GoIdle, TypeOK, ClientRecord
<1> QED
  BY <1>1 DEF RegisterStep, Bound, OpenClients

\* A session gets its next client when the one it had is gone or closed, and
\* that is where one request at a time matters.
LEMMA StoreIsBind ==
    ASSUME ApiInv, ReadsStay, NEW r \in Requests, StoreSession(r) \/ StoreDbClient(r)
    PROVE  RegisterStep
<1> DEFINE c == req[r].cl
           s == IF Sessions THEN req[r].sid ELSE NoSid
<1>1. req[r].pc = "store" /\ req[r] \in RequestRecord /\ TypeOK
  BY DEF StoreSession, StoreDbClient, ApiInv, TypeOK
<1>2. c \in Clients /\ client[c].open /\ ~Installed(c)
  BY <1>1 DEF ApiInv, LocalsSet, LocalsOf, BuildingFresh, Building
<1>3. s \in Slots /\ Bound[s] = DB(r)
  BY <1>1 DEF StoreSession, StoreDbClient, Slots, Bound, DB, Get, RequestRecord
<1>4. Bound' = [Bound EXCEPT ![s] = c] /\ OpenClients' = OpenClients
  <2>1. CASE Sessions
    BY <2>1 DEF StoreSession, StoreDbClient, Add, Bound, OpenClients
  <2>2. CASE ~Sessions
    BY <2>2 DEF StoreSession, StoreDbClient, Bound, OpenClients
  <2> QED
    BY <2>1, <2>2
<1>5. Bound[s] \notin OpenClients
  <2>1. DB(r) = NoClient \/ ~client[DB(r)].open
    BY <1>1 DEF ReadsStay
  <2> QED
    BY <1>3, <2>1, ClientAssumption DEF OpenClients
<1>6. c \in OpenClients /\ ~\E t \in Slots : Bound[t] = c
  BY <1>2, BoundFacts DEF OpenClients
<1> HIDE DEF c, s
<1>7. Register!Bind(s, c)
  BY <1>4, <1>5, <1>6 DEF Register!Bind, Register!Unbound
<1> QED
  BY <1>2, <1>3, <1>7 DEF RegisterStep, Register!Next

LEMMA RemoveIsShut ==
    ASSUME ApiInv, Sessions, NEW id \in Sids, Remove(id), UNCHANGED DbClient
    PROVE  RegisterStep
<1>1. CASE sessions[id] = NoClient
  <2>1. UNCHANGED <<client, sessions, DbClient>>
    BY <1>1 DEF Remove, ApiInv, TypeOK
  <2> QED
    BY <2>1, SameIsStutter
<1>2. CASE sessions[id] # NoClient
  <2>1. sessions[id] \in Clients /\ Close(sessions[id])
    BY <1>2 DEF Remove, ApiInv, TypeOK, MaybeClient
  <2>2. OpenClients' = OpenClients \ {sessions[id]}
    BY <2>1, CloseType DEF Close, OpenClients, ApiInv, TypeOK
  <2>3. Bound = sessions /\ Bound' = [sessions EXCEPT ![id] = NoClient] /\ id \in Slots
    BY DEF Remove, Bound, Slots
  <2>4. Register!Shut(id)
    BY <1>2, <2>2, <2>3 DEF Register!Shut
  <2> QED
    BY <2>3, <2>4 DEF RegisterStep, Register!Next
<1> QED
  BY <1>1, <1>2

LEMMA ClearIsShut ==
    ASSUME ApiInv, ReadsStay, NEW r \in Requests, DisconnectClear(r)
    PROVE  RegisterStep
<1>1. ~Sessions /\ (DbClient = NoClient \/ ~client[DbClient].open)
  BY DEF DisconnectClear, ApiInv, LocalsSet, LocalsOf, ReadsStay, DB
<1>2. DbClient' = NoClient /\ client' = client /\ sessions' = sessions
  BY DEF DisconnectClear
<1>3. CASE DbClient = NoClient
  BY <1>2, <1>3, SameIsStutter
<1>4. CASE DbClient # NoClient
  <2>1. /\ Slots = {NoSid} /\ Bound[NoSid] = DbClient
        /\ Bound' = [Bound EXCEPT ![NoSid] = NoClient]
    BY <1>1, <1>2 DEF Slots, Bound
  <2>2. OpenClients' = OpenClients \ {Bound[NoSid]}
    BY <1>1, <1>2, <1>4, <2>1 DEF OpenClients
  <2>3. Register!Shut(NoSid)
    BY <1>4, <2>1, <2>2 DEF Register!Shut
  <2> QED
    BY <2>1, <2>3 DEF RegisterStep, Register!Next
<1> QED
  BY <1>3, <1>4

LEMMA OpeningRegisters ==
    ASSUME ApiInv, NEW r \in Requests, Connect(r) \/ SwitchDb(r) \/ ConnectWithBackend(r)
    PROVE  RegisterStep
<1>0. TypeOK
  BY DEF ApiInv
<1>1. CASE Connect(r)
  <2>1. PICK c \in Allocatable, new \in ConnectWithURL \cup NewFromBookmark(PortsInUse) :
          Allocate(c, new)
    BY <1>1 DEF Connect
  <2>2. new.open = TRUE
    BY <2>1, ConnectWithURLType, NewFromBookmarkType DEF ClientRecord
  <2> QED
    BY <1>1, <2>1, <2>2, AllocateIsSetUp DEF Connect
<1>2. CASE SwitchDb(r)
  <2>1. PICK c \in Allocatable, new \in NewFromUrl(PortsInUse, client[DB(r)].dial, FALSE) :
          Allocate(c, new)
    BY <1>2 DEF SwitchDb
  <2>2. new.open = TRUE
    BY DEF NewFromUrl, Opened
  <2> QED
    BY <1>2, <2>1, <2>2, AllocateIsSetUp DEF SwitchDb
<1>3. CASE ConnectWithBackend(r)
  <2>1. PICK c \in Allocatable, new \in NewFromUrl(PortsInUse, NoPort, FALSE) :
          Allocate(c, [new EXCEPT !.external = TRUE])
    BY <1>3 DEF ConnectWithBackend
  <2>2. [new EXCEPT !.external = TRUE].open = TRUE
    BY DEF NewFromUrl, Opened
  <2> QED
    BY <1>3, <2>1, <2>2, AllocateIsSetUp DEF ConnectWithBackend
<1> QED
  BY <1>1, <1>2, <1>3

LEMMA ServeRegisters ==
    ASSUME ApiInv, ReadsStay, NEW r \in Requests, Serve(r)
    PROVE  RegisterStep
<1>0. TypeOK /\ LocalsOf(req[r])
  BY DEF ApiInv, LocalsSet
<1>1. CASE DbCheck(r) \/ QuerySteps(r)
  <2>1. CASE QueryDone(r) \/ QueryAgainDone(r)
    BY <1>0, <2>1, UsageIsStutter DEF QueryDone, QueryAgainDone
  <2>2. CASE UNCHANGED <<client, sessions, DbClient>>
    BY <2>2, SameIsStutter
  <2> QED
    BY <1>1, <2>1, <2>2 DEF DbCheck, QuerySteps, StartQuery, GetHistory, GetDatabases, RereadDB
<1>2. CASE InfoClient(r)
  <2>1. req[r].cl \in Clients
    BY <1>0, <1>2 DEF InfoClient, LocalsOf, Building
  <2> QED
    BY <1>0, <1>2, <2>1, CloseIsShut, UsageIsStutter DEF InfoClient
<1>3. CASE CloseCurrent(r) \/ CloseOld(r) \/ StoreRefused(r) \/ DisconnectClose(r)
  <2>1. \E c \in Clients : Close(c) /\ UNCHANGED <<sessions, DbClient>>
    BY <1>0, <1>3
    DEF CloseCurrent, CloseOld, StoreRefused, DisconnectClose, LocalsOf, Building
  <2> QED
    BY <2>1, CloseIsShut
<1>4. CASE Refused(r) \/ TestClient(r) \/ ReadCurrent(r) \/ DisconnectRead(r)
  BY <1>4, SameIsStutter DEF Refused, TestClient, ReadCurrent, DisconnectRead
<1>5. CASE DisconnectSession(r)
  <2>1. Sessions /\ req[r].sid \in Sids
    BY <1>0, <1>5 DEF DisconnectSession, at, LocalsOf
  <2> QED
    BY <1>5, <2>1, RemoveIsShut DEF DisconnectSession
<1>6. CASE SetUpSteps(r)
  BY <1>2, <1>3, <1>4, <1>6, OpeningRegisters, StoreIsBind, Zenon DEF SetUpSteps
<1>7. CASE DisconnectSteps(r)
  BY <1>3, <1>4, <1>5, <1>7, ClearIsShut, Zenon DEF DisconnectSteps
<1> QED
  BY <1>1, <1>6, <1>7 DEF Serve

LEMMA StepRegisters ==
    ASSUME ApiInv, ReadsStay, [Next]_vars
    PROVE  RegisterStep
<1>1. CASE UNCHANGED vars \/ \E r \in Requests : Arrive(r)
  BY <1>1, SameIsStutter DEF vars, Arrive
<1>2. CASE Worker
  <2>1. ASSUME NEW id \in Sids, CleanupRemove(id) PROVE RegisterStep
    BY <1>2, <2>1, RemoveIsShut DEF Worker, CleanupRemove
  <2>2. CASE CleanupStart
    BY <1>2, <2>2, SameIsStutter DEF Worker, CleanupStart
  <2> QED
    BY <1>2, <2>1, <2>2 DEF Worker
<1>3. CASE TimePasses
  BY <1>3, UsageIsStutter DEF TimePasses, ApiInv
<1> QED
  BY <1>1, <1>2, <1>3, ServeRegisters DEF Next

LEMMA InitRegisters == Init => Register!Init
<1> SUFFICES ASSUME Init PROVE Register!Init
  OBVIOUS
<1>1. ApiInv
  BY InitInv
<1>2. OpenClients = {Bound[s] : s \in Slots} \ {NoClient}
  <2>1. CASE DbClient = NoClient /\ client = [c \in Clients |-> Unallocated]
    <3>1. OpenClients = {}
      BY <2>1 DEF OpenClients, Unallocated, Opened
    <3>2. \A s \in Slots : Bound[s] = NoClient
      BY <2>1 DEF Init, Bound, Slots
    <3> QED
      BY <3>1, <3>2
  <2>2. ASSUME NEW new \in InitialClients, DbClient \in Clients,
               client = [c \in Clients |-> IF c = DbClient THEN new ELSE Unallocated]
        PROVE  OpenClients = {Bound[s] : s \in Slots} \ {NoClient}
    <3>1. ~Sessions /\ new.open
      BY <2>2, OpenedType, NewFromBookmarkType DEF InitialClients
    <3>2. OpenClients = {DbClient}
      BY <2>2, <3>1 DEF OpenClients, Unallocated, Opened
    <3>3. Slots = {NoSid} /\ Bound[NoSid] = DbClient
      BY <3>1 DEF Slots, Bound
    <3> QED
      BY <2>2, <3>2, <3>3, ClientAssumption
  <2> QED
    BY <2>1, <2>2 DEF Init
<1> QED
  BY <1>1, <1>2, BoundFacts DEF Register!Init, MaybeClient

\* When the requests of one session come one at a time, requests and worker
\* together are an implementation of the register: no session gets a client
\* before the one it had is closed, and none lets go of an open one.
THEOREM RefinesRegister ==
    ASSUME SerialClients
    PROVE  Spec => ImplementsRegister
<1>1. SerialInv /\ [Next]_vars => RegisterStep
  BY StepRegisters DEF SerialInv, IdInv
<1>2. SerialInv /\ [Next]_vars => [Register!Next]_<<Bound, OpenClients>>
  BY <1>1 DEF RegisterStep
<1> QED
  BY <1>2, InitRegisters, SerialInvariance, PTL DEF Spec, ImplementsRegister, Register!Spec
=============================================================================
