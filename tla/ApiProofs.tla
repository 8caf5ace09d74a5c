----------------------------- MODULE ApiProofs -----------------------------
(***************************************************************************)
(* Proofs about Api: type correctness, the inductive invariant, and the    *)
(* safety of sessions it gives, for any number of requests, clients,       *)
(* sessions and ports.                                                     *)
(***************************************************************************)
EXTENDS ApiInvariant, TLAPS

(***************************************************************************)
(* Operators.                                                              *)
(***************************************************************************)

\* What the constructors return are open clients.
LEMMA OpenedType ==
    \A p, q \in Ports \cup {NoPort} : Opened(p, q) \in ClientRecord /\ Opened(p, q).open
BY DEF Opened, ClientRecord

LEMMA NewFromUrlType ==
    ASSUME NEW used, NEW dial \in Ports \cup {NoPort}, NEW ssh \in BOOLEAN
    PROVE  \A new \in NewFromUrl(used, dial, ssh) : new \in ClientRecord /\ new.open
<1>1. FindAvailablePort(used) \subseteq Ports
  BY DEF FindAvailablePort
<1>2. CASE ssh
  BY OpenedType, <1>1, <1>2 DEF NewFromUrl
<1>3. CASE ~ssh
  BY OpenedType, <1>3 DEF NewFromUrl
<1> QED
  BY <1>2, <1>3

LEMMA NewFromBookmarkType ==
    ASSUME NEW used
    PROVE  \A new \in NewFromBookmark(used) : new \in ClientRecord /\ new.open
BY NewFromUrlType DEF NewFromBookmark

LEMMA ConnectWithURLType ==
    \A new \in ConnectWithURL : new \in ClientRecord /\ new.open
BY NewFromUrlType DEF ConnectWithURL

\* Closing and touching a client keep the client table well formed.
LEMMA CloseType ==
    ASSUME client \in [Clients -> ClientRecord]
    PROVE  \A c \in Clients :
              /\ Closed(c) \in [Clients -> ClientRecord]
              /\ ~Closed(c)[c].open
              /\ \A d \in Clients \ {c} : Closed(c)[d] = client[d]
<1>1. \A c \in Clients : [client[c] EXCEPT !.open = FALSE, !.tunnel = NoPort] \in ClientRecord
  BY DEF ClientRecord
<1>2. \A c \in Clients :
        Closed(c) = [client EXCEPT ![c] = [client[c] EXCEPT !.open = FALSE, !.tunnel = NoPort]]
  BY DEF Closed
<1> QED
  BY <1>1, <1>2 DEF ClientRecord

LEMMA TouchUsageType ==
    ASSUME client \in [Clients -> ClientRecord]
    PROVE  \A c \in Clients : TouchUsage(c) => client' \in [Clients -> ClientRecord]
<1>1. \A c \in Clients : [client[c] EXCEPT !.idle = FALSE] \in ClientRecord
  BY DEF ClientRecord
<1> QED
  BY <1>1 DEF TouchUsage

LEMMA AnsweredType ==
    ASSUME NEW answer \in Answers
    PROVE  Answered(answer) \in RequestRecord
BY DEF Answered, RequestRecord, AllOps, MaybeClient

\* DB(c) returns a client or nil.
LEMMA DBType ==
    ASSUME TypeOK, NEW r \in Requests
    PROVE  DB(r) \in MaybeClient
BY DEF TypeOK, DB, Get, MaybeClient

(***************************************************************************)
(* Type correctness.                                                       *)
(***************************************************************************)

LEMMA InitType == Init => TypeOK
<1> SUFFICES ASSUME Init PROVE TypeOK
  OBVIOUS
<1>1. Unallocated \in ClientRecord
  BY DEF Unallocated, Opened, ClientRecord
<1>2. \A new \in InitialClients : new \in ClientRecord
  BY OpenedType, NewFromBookmarkType DEF InitialClients
<1>3. client \in [Clients -> ClientRecord] /\ DbClient \in MaybeClient
  BY <1>1, <1>2 DEF Init, MaybeClient
<1>4. req \in [Requests -> RequestRecord]
  BY AnsweredType DEF Init, Answers
<1> QED
  BY <1>3, <1>4 DEF Init, TypeOK, MaybeClient

\* A step of a request that changes its record alone keeps the types.
LEMMA MoveType ==
    ASSUME TypeOK, NEW r \in Requests, NEW next \in RequestRecord, Move(r, next)
    PROVE  req' \in [Requests -> RequestRecord]
BY DEF TypeOK, Move

LEMMA RespondType ==
    ASSUME TypeOK, NEW r \in Requests, NEW answer \in Answers, Respond(r, answer)
    PROVE  req' \in [Requests -> RequestRecord]
BY AnsweredType, MoveType DEF Respond

LEMMA GotoType ==
    ASSUME TypeOK, NEW r \in Requests, NEW pc \in Steps, Goto(r, pc)
    PROVE  req' \in [Requests -> RequestRecord]
<1>1. [req[r] EXCEPT !.pc = pc] \in RequestRecord
  BY DEF TypeOK, RequestRecord
<1> QED
  BY <1>1, MoveType DEF Goto

LEMMA ServeType ==
    ASSUME TypeOK, LocalsSet, NEW r \in Requests, Serve(r)
    PROVE  TypeOK'
<1> USE ClientAssumption, SessionAssumption
<1>a. req[r] \in RequestRecord /\ DB(r) \in MaybeClient
  BY DBType DEF TypeOK
<1>b. {"ok", "refused", "panic"} \subseteq Answers
  BY DEF Answers
<1>c. \A c \in Clients : Close(c) => client' \in [Clients -> ClientRecord]
  BY CloseType DEF TypeOK, Close
<1>d. \A c \in Clients : TouchUsage(c) => client' \in [Clients -> ClientRecord]
  BY TouchUsageType DEF TypeOK
<1>1. CASE DbCheck(r)
  BY <1>1, <1>b, RespondType, GotoType DEF DbCheck, TypeOK, Steps
<1>2. CASE StartQuery(r)
  BY <1>2, <1>a, <1>b, RespondType, MoveType DEF StartQuery, TypeOK, Steps, RequestRecord
<1>3. CASE GetHistory(r)
  BY <1>3, <1>b, RespondType DEF GetHistory, TypeOK
<1>4. CASE GetDatabases(r)
  BY <1>4, <1>a, <1>b, RespondType, MoveType DEF GetDatabases, TypeOK, Steps, RequestRecord
<1>5. CASE QueryDone(r)
  BY <1>5, <1>b, <1>d, RespondType, GotoType DEF QueryDone, LocalsSet, LocalsOf, TypeOK, Steps
<1>6. CASE RereadDB(r)
  BY <1>6, <1>a, <1>b, RespondType, MoveType DEF RereadDB, TypeOK, Steps, RequestRecord
<1>7. CASE QueryAgainDone(r)
  BY <1>7, <1>b, <1>d, RespondType DEF QueryAgainDone, LocalsSet, LocalsOf, TypeOK
<1>8. CASE Refused(r)
  BY <1>8, <1>b, RespondType DEF Refused, TypeOK
<1>10. CASE Connect(r)
  <2>1. PICK c \in Allocatable, new \in ConnectWithURL \cup NewFromBookmark(PortsInUse) :
          /\ Allocate(c, new)
          /\ Move(r, [req[r] EXCEPT !.pc = "test", !.cl = c])
    BY <1>10 DEF Connect
  <2>2. c \in Clients /\ new \in ClientRecord
    BY ConnectWithURLType, NewFromBookmarkType DEF Allocatable
  <2>3. [req[r] EXCEPT !.pc = "test", !.cl = c] \in RequestRecord
    BY <1>a, <2>2 DEF RequestRecord, Steps, MaybeClient
  <2> QED
    BY <1>10, <2>1, <2>2, <2>3, MoveType DEF Connect, Allocate, TypeOK
<1>11. CASE SwitchDb(r)
  <2>1. PICK c \in Allocatable, new \in NewFromUrl(PortsInUse, client[DB(r)].dial, FALSE) :
          /\ Allocate(c, new)
          /\ Move(r, [req[r] EXCEPT !.pc = "test", !.conn = DB(r), !.cl = c])
    BY <1>11 DEF SwitchDb
  <2>2. client[DB(r)].dial \in Ports \cup {NoPort}
    BY <1>11, <1>a DEF SwitchDb, TypeOK, ClientRecord, MaybeClient
  <2>3. c \in Clients /\ new \in ClientRecord
    BY <2>2, NewFromUrlType DEF Allocatable
  <2>4. [req[r] EXCEPT !.pc = "test", !.conn = DB(r), !.cl = c] \in RequestRecord
    BY <1>a, <2>3 DEF RequestRecord, Steps, MaybeClient
  <2> QED
    BY <1>11, <2>1, <2>3, <2>4, MoveType DEF SwitchDb, Allocate, TypeOK
<1>12. CASE ConnectWithBackend(r)
  <2>1. PICK c \in Allocatable, new \in NewFromUrl(PortsInUse, NoPort, FALSE), u \in Uuids :
          /\ uuids' = [uuids EXCEPT ![u] = "drawn"]
          /\ Allocate(c, [new EXCEPT !.external = TRUE])
          /\ Move(r, [req[r] EXCEPT !.pc = "info", !.cl = c, !.uuid = u,
                                    !.sid = EffectiveSid(r, u)])
    BY <1>12 DEF ConnectWithBackend
  <2>2. c \in Clients /\ new \in ClientRecord
    BY NewFromUrlType DEF Allocatable
  <2>3. [new EXCEPT !.external = TRUE] \in ClientRecord
    BY <2>2 DEF ClientRecord
  <2>4. [req[r] EXCEPT !.pc = "info", !.cl = c, !.uuid = u, !.sid = EffectiveSid(r, u)]
          \in RequestRecord
    <3>1. EffectiveSid(r, u) \in Sids \cup {NoSid}
      BY <1>a DEF RequestRecord, EffectiveSid, Sids
    <3> QED
      BY <1>a, <2>2, <3>1 DEF RequestRecord, Steps, MaybeClient
  <2>5. client' \in [Clients -> ClientRecord]
    BY <2>1, <2>2, <2>3 DEF Allocate, TypeOK
  <2>6. uuids' \in [Uuids -> {"unused", "drawn", "told"}]
    BY <2>1 DEF TypeOK
  <2>7. req' \in [Requests -> RequestRecord]
    BY <2>1, <2>4, MoveType
  <2> QED
    BY <1>12, <2>5, <2>6, <2>7 DEF ConnectWithBackend, TypeOK
<1>13. CASE TestClient(r)
  BY <1>13, <1>b, RespondType, GotoType DEF TestClient, TypeOK, Steps
<1>14. CASE InfoClient(r)
  BY <1>14, <1>b, <1>c, <1>d, RespondType, GotoType
  DEF InfoClient, LocalsSet, LocalsOf, Building, TypeOK, Steps
<1>15. CASE ReadCurrent(r)
  BY <1>15, <1>a, MoveType DEF ReadCurrent, TypeOK, Steps, RequestRecord
<1>16. CASE CloseCurrent(r)
  BY <1>16, <1>c, GotoType DEF CloseCurrent, LocalsSet, LocalsOf, TypeOK, Steps
<1>e. CASE StoreDbClient(r) \/ StoreSession(r) \/ StoreRefused(r)
  <2>1. req[r].cl \in Clients
    BY <1>e DEF StoreDbClient, StoreSession, StoreRefused, LocalsSet, LocalsOf, Building
  <2>2. AfterStore(r) => req' \in [Requests -> RequestRecord]
    BY <1>b, RespondType, GotoType DEF AfterStore, Steps
  <2>3. CASE StoreDbClient(r)
    BY <2>1, <2>2, <2>3 DEF StoreDbClient, TypeOK, MaybeClient
  <2>4. CASE StoreSession(r)
    <3>1. sessions' \in [Sids -> MaybeClient]
      BY <2>1, <2>4 DEF StoreSession, Add, TypeOK, MaybeClient
    <3>2. uuids' \in [Uuids -> {"unused", "drawn", "told"}]
      BY <2>4 DEF StoreSession, TellUuid, TypeOK
    <3> QED
      BY <2>2, <2>4, <3>1, <3>2 DEF StoreSession, TypeOK
  <2>5. CASE StoreRefused(r)
    BY <2>1, <2>5, <1>b, <1>c, RespondType DEF StoreRefused, TypeOK
  <2> QED
    BY <2>3, <2>4, <2>5, <1>e
<1>17. CASE CloseOld(r)
  BY <1>17, <1>b, <1>c, RespondType DEF CloseOld, LocalsSet, LocalsOf, TypeOK
<1>18. CASE DisconnectSession(r)
  <2>1. req[r].sid \in Sids
    BY <1>18 DEF DisconnectSession, LocalsSet, LocalsOf, at
  <2> QED
    BY <1>18, <2>1, <1>b, <1>c, RespondType DEF DisconnectSession, Remove, TypeOK, MaybeClient
<1>19. CASE DisconnectRead(r)
  BY <1>19, <1>a, <1>b, RespondType, MoveType DEF DisconnectRead, TypeOK, Steps, RequestRecord
<1>20. CASE DisconnectClose(r)
  BY <1>20, <1>b, <1>c, RespondType, GotoType DEF DisconnectClose, LocalsSet, LocalsOf, TypeOK, Steps
<1>21. CASE DisconnectClear(r)
  BY <1>21, <1>b, RespondType DEF DisconnectClear, TypeOK, MaybeClient
<1> QED
  BY <1>1, <1>2, <1>3, <1>4, <1>5, <1>6, <1>7, <1>8, <1>10, <1>11, <1>12,
     <1>13, <1>14, <1>15, <1>16, <1>e, <1>17, <1>18, <1>19, <1>20, <1>21
  DEF Serve, QuerySteps, SetUpSteps, DisconnectSteps

LEMMA ArriveType ==
    ASSUME TypeOK, NEW r \in Requests, Arrive(r)
    PROVE  TypeOK'
<1>1. PICK op \in Ops, sid \in (IF Sessions THEN KnownSids ELSE {NoSid}) :
        Move(r, [Answered("ok") EXCEPT
                   !.op = op, !.sid = sid,
                   !.pc = IF op \in allowedPaths \cup {"backend"}
                          THEN "handle" ELSE "dbCheck"])
  BY DEF Arrive
<1>2. op \in AllOps /\ sid \in Sids \cup {NoSid}
  BY ApiAssumption DEF KnownSids, Sids
<1>3. Answered("ok") \in RequestRecord
  BY AnsweredType DEF Answers
<1>4. [Answered("ok") EXCEPT
         !.op = op, !.sid = sid,
         !.pc = IF op \in allowedPaths \cup {"backend"} THEN "handle" ELSE "dbCheck"]
        \in RequestRecord
  BY <1>2, <1>3 DEF RequestRecord, Steps
<1> QED
  BY <1>1, <1>4, MoveType DEF Arrive, TypeOK

LEMMA WorkerType ==
    ASSUME TypeOK, Worker
    PROVE  TypeOK'
<1>1. CASE CleanupStart
  BY <1>1 DEF CleanupStart, staleSessions, Worker, TypeOK
<1>2. ASSUME NEW id \in Sids, CleanupRemove(id) PROVE TypeOK'
  BY <1>2, CloseType DEF CleanupRemove, Remove, Close, Worker, TypeOK, MaybeClient
<1> QED
  BY <1>1, <1>2 DEF Worker

LEMMA TimeType ==
    ASSUME TypeOK, TimePasses
    PROVE  TypeOK'
<1>1. PICK c \in Clients : GoIdle(c)
  BY DEF TimePasses
<1>2. [client[c] EXCEPT !.idle = TRUE] \in ClientRecord
  BY DEF TypeOK, ClientRecord
<1> QED
  BY <1>1, <1>2 DEF TimePasses, GoIdle, TypeOK

LEMMA TypeStep ==
    ASSUME TypeOK, LocalsSet, [Next]_vars
    PROVE  TypeOK'
<1>1. CASE UNCHANGED vars
  BY <1>1 DEF vars, TypeOK
<1> QED
  BY <1>1, ArriveType, ServeType, WorkerType, TimeType DEF Next

(***************************************************************************)
(* Locals.                                                                 *)
(***************************************************************************)

LEMMA AnsweredLocals ==
    ASSUME NEW answer \in Answers
    PROVE  LocalsOf(Answered(answer))
BY DEF Answered, Answers, LocalsOf, Building

LEMMA MoveLocals ==
    ASSUME TypeOK, LocalsSet, NEW r \in Requests, NEW next, Move(r, next), LocalsOf(next)
    PROVE  LocalsSet'
BY DEF TypeOK, LocalsSet, LocalsOf, Move

LEMMA RespondLocals ==
    ASSUME TypeOK, LocalsSet, NEW r \in Requests, NEW answer \in Answers, Respond(r, answer)
    PROVE  LocalsSet'
BY AnsweredLocals, MoveLocals DEF Respond

LEMMA LocalsStep ==
    ASSUME TypeOK, LocalsSet, ModesApart, [Next]_vars
    PROVE  LocalsSet'
<1>b. {"ok", "refused", "panic"} \subseteq Answers
  BY DEF Answers
<1>1. CASE UNCHANGED vars \/ Worker \/ TimePasses
  BY <1>1 DEF vars, Worker, TimePasses, LocalsSet, LocalsOf
<1>2. ASSUME NEW r \in Requests, Arrive(r)
      PROVE  LocalsSet'
  <2>1. PICK op \in Ops, sid \in (IF Sessions THEN KnownSids ELSE {NoSid}) :
          Move(r, [Answered("ok") EXCEPT
                     !.op = op, !.sid = sid,
                     !.pc = IF op \in allowedPaths \cup {"backend"}
                            THEN "handle" ELSE "dbCheck"])
    BY <1>2 DEF Arrive
  <2>2. LocalsOf([Answered("ok") EXCEPT
                    !.op = op, !.sid = sid,
                    !.pc = IF op \in allowedPaths \cup {"backend"}
                           THEN "handle" ELSE "dbCheck"])
    BY DEF LocalsOf, Answered, Building, allowedPaths
  <2> QED
    BY <2>1, <2>2, MoveLocals
<1>3. ASSUME NEW r \in Requests, Serve(r)
      PROVE  LocalsSet'
  <2> DEFINE R == req[r]
  <2>a. R \in RequestRecord /\ LocalsOf(R) /\ DB(r) \in MaybeClient
    BY DBType DEF TypeOK, LocalsSet
  <2>b. \A pc : LocalsOf([R EXCEPT !.pc = pc]) /\ Goto(r, pc) => LocalsSet'
    BY MoveLocals DEF Goto
  <2>1. CASE DbCheck(r)
    <3>1. DB(r) # NoClient /\ Sessions => R.sid \in Sids
      BY DEF DB, Get
    <3>2. DB(r) # NoClient => LocalsOf([R EXCEPT !.pc = "handle"])
      BY <2>1, <2>a, <3>1 DEF DbCheck, LocalsOf, Building, RequestRecord
    <3> QED
      BY <1>b, <2>1, <2>b, <3>2, RespondLocals DEF DbCheck
  <2>2. CASE QuerySteps(r)
    <3>1. DB(r) # NoClient => LocalsOf([R EXCEPT !.pc = "runQuery", !.conn = DB(r)])
      BY <2>a DEF LocalsOf, Building, RequestRecord, MaybeClient
    <3>2. DB(r) # NoClient => LocalsOf([R EXCEPT !.pc = "rereadDB", !.conn = DB(r)])
      BY <2>a DEF LocalsOf, Building, RequestRecord
    <3>3. DB(r) # NoClient => LocalsOf([R EXCEPT !.pc = "runAgain", !.cur = DB(r)])
      BY <2>a DEF LocalsOf, Building, RequestRecord, MaybeClient
    <3>4. LocalsOf([R EXCEPT !.pc = "rereadDB"])
      BY <2>a DEF LocalsOf, Building, RequestRecord
    <3> QED
      BY <1>b, <2>2, <2>b, <3>1, <3>2, <3>3, <3>4, RespondLocals, MoveLocals
      DEF QuerySteps, StartQuery, GetHistory, GetDatabases, QueryDone, RereadDB, QueryAgainDone
  <2>3. CASE SetUpSteps(r)
    <3>1. CASE Connect(r)
      <4>1. PICK c \in Clients : Move(r, [R EXCEPT !.pc = "test", !.cl = c])
        BY <3>1 DEF Connect, Allocatable
      <4>2. LocalsOf([R EXCEPT !.pc = "test", !.cl = c])
        BY <2>a, <3>1 DEF Connect, at, LocalsOf, Building, RequestRecord
      <4> QED
        BY <4>1, <4>2, MoveLocals
    <3>2. CASE SwitchDb(r)
      <4>1. PICK c \in Clients : Move(r, [R EXCEPT !.pc = "test", !.conn = DB(r), !.cl = c])
        BY <3>2 DEF SwitchDb, Allocatable
      <4>2. LocalsOf([R EXCEPT !.pc = "test", !.conn = DB(r), !.cl = c])
        BY <2>a, <3>2 DEF SwitchDb, LocalsOf, Building, RequestRecord, MaybeClient
      <4> QED
        BY <4>1, <4>2, MoveLocals
    <3>3. CASE ConnectWithBackend(r)
      <4>1. PICK c \in Clients, u \in Uuids :
              Move(r, [R EXCEPT !.pc = "info", !.cl = c, !.uuid = u, !.sid = EffectiveSid(r, u)])
        BY <3>3 DEF ConnectWithBackend, Allocatable
      <4>2. LocalsOf([R EXCEPT !.pc = "info", !.cl = c, !.uuid = u, !.sid = EffectiveSid(r, u)])
        BY <2>a, <3>3 DEF ConnectWithBackend, at, LocalsOf, Building, RequestRecord
      <4> QED
        BY <4>1, <4>2, MoveLocals
    <3>4. CASE ReadCurrent(r)
      <4> DEFINE next == [R EXCEPT !.cur = DB(r),
                            !.pc = IF DB(r) = NoClient THEN "store" ELSE "closeCurrent"]
      <4>1. LocalsOf(next)
        BY <2>a, <3>4 DEF ReadCurrent, LocalsOf, Building, RequestRecord, MaybeClient
      <4> QED
        BY <3>4, <4>1, MoveLocals DEF ReadCurrent
    <3>5. R.pc \in Building =>
            \A pc \in {"info", "readCurrent", "store"} : LocalsOf([R EXCEPT !.pc = pc])
      BY <2>a DEF LocalsOf, Building, RequestRecord
    <3>6. R.pc = "store" /\ R.op = "switchdb" => LocalsOf([R EXCEPT !.pc = "closeOld"])
      BY <2>a DEF LocalsOf, Building, RequestRecord
    <3> QED
      BY <1>b, <2>3, <2>b, <3>1, <3>2, <3>3, <3>4, <3>5, <3>6, RespondLocals
      DEF SetUpSteps, Refused, TestClient, InfoClient, CloseCurrent, StoreDbClient,
          StoreSession, StoreRefused, AfterStore, CloseOld, Building
  <2>4. CASE DisconnectSteps(r)
    <3>1. DB(r) # NoClient /\ ~Sessions => LocalsOf([R EXCEPT !.pc = "close", !.conn = DB(r)])
      BY <2>a DEF LocalsOf, Building, RequestRecord, MaybeClient
    <3>2. R.pc = "close" => LocalsOf([R EXCEPT !.pc = "clear"])
      BY <2>a DEF LocalsOf, Building, RequestRecord
    <3> QED
      BY <1>b, <2>4, <2>b, <3>1, <3>2, RespondLocals, MoveLocals
      DEF DisconnectSteps, DisconnectSession, DisconnectRead, DisconnectClose,
          DisconnectClear
  <2> QED
    BY <1>3, <2>1, <2>2, <2>3, <2>4 DEF Serve
<1> QED
  BY <1>1, <1>2, <1>3 DEF Next

(***************************************************************************)
(* The two modes.                                                          *)
(***************************************************************************)

LEMMA ModesStep ==
    ASSUME TypeOK, LocalsSet, ModesApart, [Next]_vars
    PROVE  ModesApart'
<1>1. CASE UNCHANGED vars \/ TimePasses
  BY <1>1 DEF vars, TimePasses, ModesApart
<1>2. CASE Worker
  BY <1>2 DEF Worker, CleanupStart, CleanupRemove, Remove, ModesApart, TypeOK
<1>3. ASSUME NEW r \in Requests, Arrive(r) \/ Serve(r)
      PROVE  ModesApart'
  <2>1. CASE StoreSession(r)
    BY <2>1 DEF StoreSession, ModesApart
  <2>2. CASE DisconnectSession(r)
    BY <2>2 DEF DisconnectSession, ModesApart
  <2>3. CASE StoreDbClient(r)
    BY <2>3 DEF StoreDbClient, ModesApart
  <2>4. CASE DisconnectClear(r)
    BY <2>4 DEF DisconnectClear, LocalsSet, LocalsOf, ModesApart
  <2> QED
    BY <1>3, <2>1, <2>2, <2>3, <2>4
    DEF Arrive, Serve, DbCheck, QuerySteps, StartQuery, GetHistory, GetDatabases, QueryDone,
        RereadDB, QueryAgainDone, SetUpSteps, Refused, Connect, SwitchDb, ConnectWithBackend,
        TestClient, InfoClient, ReadCurrent, CloseCurrent, StoreRefused, CloseOld,
        DisconnectSteps, DisconnectRead, DisconnectClose, ModesApart
<1> QED
  BY <1>1, <1>2, <1>3 DEF Next

(***************************************************************************)
(* Clients under construction are fresh, and clients a request has read    *)
(* stay in its session.  A step that installs nothing and allocates nothing*)
(* moves one request: what it holds then is what it held, or DB(c).        *)
(***************************************************************************)

\* next is a state of request r that names no client r could not see before.
Inherits(r, next) ==
    /\ {next.conn, next.cur} \subseteq {req[r].conn, req[r].cur, DB(r), NoClient}
    /\ next.cl \in {req[r].cl, NoClient}
    /\ next.pc \in Building => req[r].pc \in Building /\ next.cl = req[r].cl
    /\ next.sid = req[r].sid \/ {next.conn, next.cur} = {NoClient}

LEMMA InstalledDB ==
    ASSUME TypeOK, NEW r \in Requests, DB(r) # NoClient
    PROVE  Installed(DB(r))
BY DEF DB, Get, Installed

LEMMA InheritFresh ==
    ASSUME ApiInv, NEW r \in Requests, NEW next, Move(r, next), Inherits(r, next),
           UNCHANGED <<sessions, DbClient>>,
           \A q \in Requests : req[q].pc \in Building /\ req'[q].pc \in Building
                               => client'[req[q].cl].open
    PROVE  BuildingFresh'
<1> SUFFICES ASSUME NEW q \in Requests, req'[q].pc \in Building
             PROVE  /\ client'[req'[q].cl].open
                    /\ ~(Installed(req[q].cl)') /\ req'[q].cl = req[q].cl
                    /\ req'[q].cl \notin {req'[q].conn, req'[q].cur}
                    /\ \A x \in Requests \ {q} :
                          req'[q].cl \notin {req'[x].conn, req'[x].cur, req'[x].cl}
  BY DEF BuildingFresh
<1>1. req'[r] = next /\ \A x \in Requests \ {r} : req'[x] = req[x]
  BY DEF Move, ApiInv, TypeOK
<1>2. req[q].pc \in Building /\ req'[q].cl = req[q].cl
  BY <1>1 DEF Inherits
<1>3. /\ req[q].cl \in Clients
      /\ ~Installed(req[q].cl)
      /\ req[q].cl \notin {req[q].conn, req[q].cur}
      /\ \A x \in Requests \ {q} : req[q].cl \notin {req[x].conn, req[x].cur, req[x].cl}
  BY <1>2 DEF ApiInv, BuildingFresh, LocalsSet, LocalsOf
<1>4. req[q].cl # DB(r) /\ req[q].cl # NoClient
  BY <1>3, InstalledDB, ClientAssumption DEF ApiInv
<1>5. ~Installed(req[q].cl)'
  BY <1>2, <1>3 DEF Installed
<1> QED
  BY <1>1, <1>2, <1>3, <1>4, <1>5 DEF Inherits

LEMMA InheritHome ==
    ASSUME ApiInv, NEW r \in Requests, NEW next, Move(r, next), Inherits(r, next),
           UNCHANGED <<sessions, DbClient>>
    PROVE  StaysHome'
<1> SUFFICES ASSUME NEW q \in Requests, NEW s \in Sids, sessions[s] # NoClient,
                    sessions[s] \in {req'[q].conn, req'[q].cur}
             PROVE  s = req'[q].sid
  BY DEF StaysHome
<1>1. req'[r] = next /\ \A x \in Requests \ {r} : req'[x] = req[x]
  BY DEF Move, ApiInv, TypeOK
<1>2. CASE q # r
  BY <1>1, <1>2 DEF ApiInv, StaysHome
<1>3. CASE q = r
  <2>1. sessions[s] \in {req[r].conn, req[r].cur, DB(r)} /\ next.sid = req[r].sid
    BY <1>1, <1>3 DEF Inherits
  <2>2. CASE sessions[s] = DB(r)
    <3>1. Sessions /\ req[r].sid \in Sids /\ sessions[req[r].sid] = sessions[s]
      BY <2>2 DEF DB, Get, ApiInv, ModesApart
    <3> QED
      BY <1>1, <1>3, <2>1, <3>1 DEF ApiInv, NoSharing
  <2> QED
    BY <1>1, <1>3, <2>1, <2>2 DEF ApiInv, StaysHome
<1> QED
  BY <1>2, <1>3

LEMMA AnsweredInherits ==
    ASSUME NEW r \in Requests, NEW answer \in Answers
    PROVE  Inherits(r, Answered(answer))
BY DEF Inherits, Answered, Answers, Building

LEMMA PcInherits ==
    ASSUME TypeOK, NEW r \in Requests, NEW pc, pc \in Building => req[r].pc \in Building
    PROVE  Inherits(r, [req[r] EXCEPT !.pc = pc])
BY DEF Inherits, TypeOK, RequestRecord

\* Closing a client leaves every client under construction open but itself.
LEMMA CloseSparesBuilding ==
    ASSUME ApiInv, NEW c \in Clients, Close(c), NEW q \in Requests,
           req[q].pc \in Building, req[q].cl # c
    PROVE  client'[req[q].cl].open
<1>1. req[q].cl \in Clients /\ client[req[q].cl].open
  BY DEF ApiInv, LocalsSet, LocalsOf, BuildingFresh
<1> QED
  BY <1>1, CloseType DEF Close, ApiInv, TypeOK

\* A step that binds and allocates nothing.
Plain(r) ==
    /\ \E next : Move(r, next) /\ Inherits(r, next)
    /\ UNCHANGED <<sessions, DbClient>>
    /\ \A q \in Requests : req[q].pc \in Building /\ req'[q].pc \in Building
                           => client'[req[q].cl].open

LEMMA PlainStep ==
    ASSUME ApiInv, NEW r \in Requests, Plain(r)
    PROVE  BuildingFresh' /\ StaysHome'
BY InheritFresh, InheritHome DEF Plain

LEMMA QueryPlain ==
    ASSUME ApiInv, NEW r \in Requests, DbCheck(r) \/ QuerySteps(r)
    PROVE  Plain(r)
<1>b. {"ok", "refused", "panic"} \subseteq Answers
  BY DEF Answers
<1>0. req[r] \in RequestRecord
  BY DEF ApiInv, TypeOK
<1>1. \A answer \in Answers : Respond(r, answer) => \E next : Move(r, next) /\ Inherits(r, next)
  BY AnsweredInherits DEF Respond
<1>2. \A pc \in Steps \ Building : Goto(r, pc) => \E next : Move(r, next) /\ Inherits(r, next)
  BY PcInherits DEF Goto, ApiInv
<1>3. Inherits(r, [req[r] EXCEPT !.pc = "runQuery", !.conn = DB(r)])
  BY <1>0 DEF Inherits, RequestRecord, Building
<1>4. Inherits(r, [req[r] EXCEPT !.pc = "rereadDB", !.conn = DB(r)])
  BY <1>0 DEF Inherits, RequestRecord, Building
<1>5. Inherits(r, [req[r] EXCEPT !.pc = "runAgain", !.cur = DB(r)])
  BY <1>0 DEF Inherits, RequestRecord, Building
<1>6. {"handle", "rereadDB"} \subseteq Steps \ Building
  BY DEF Steps, Building
<1>7. \E next : Move(r, next) /\ Inherits(r, next)
  BY <1>b, <1>1, <1>2, <1>3, <1>4, <1>5, <1>6
  DEF DbCheck, QuerySteps, StartQuery, GetHistory, GetDatabases, QueryDone, RereadDB,
      QueryAgainDone
<1>8. \A q \in Requests : req[q].pc \in Building => client'[req[q].cl].open
  <2> TAKE q \in Requests
  <2> HAVE req[q].pc \in Building
  <2>1. req[q].cl \in Clients /\ client[req[q].cl].open
    BY DEF ApiInv, LocalsSet, LocalsOf, BuildingFresh
  <2>2. \A c : TouchUsage(c) => client'[req[q].cl].open
    BY <2>1 DEF TouchUsage, ApiInv, TypeOK, ClientRecord
  <2> QED
    BY <2>1, <2>2 DEF DbCheck, QuerySteps, StartQuery, GetHistory, GetDatabases, QueryDone,
       RereadDB, QueryAgainDone
<1> QED
  BY <1>7, <1>8
  DEF Plain, DbCheck, QuerySteps, StartQuery, GetHistory, GetDatabases, QueryDone, RereadDB,
      QueryAgainDone

LEMMA SetUpPlain ==
    ASSUME ApiInv, NEW r \in Requests,
           \/ Refused(r) \/ TestClient(r) \/ InfoClient(r) \/ ReadCurrent(r)
           \/ CloseCurrent(r) \/ StoreRefused(r) \/ CloseOld(r)
           \/ DisconnectRead(r) \/ DisconnectClose(r)
    PROVE  Plain(r)
<1>b. {"ok", "refused", "panic"} \subseteq Answers
  BY DEF Answers
<1>0. req[r] \in RequestRecord /\ LocalsOf(req[r])
  BY DEF ApiInv, TypeOK, LocalsSet
<1>1. \A answer \in Answers : Respond(r, answer) => \E next : Move(r, next) /\ Inherits(r, next)
  BY AnsweredInherits DEF Respond
<1>2. \A pc : (pc \in Building => req[r].pc \in Building) /\ Goto(r, pc)
                => \E next : Move(r, next) /\ Inherits(r, next)
  BY PcInherits DEF Goto, ApiInv
<1>3. req[r].pc = "readCurrent" =>
        Inherits(r, [req[r] EXCEPT !.cur = DB(r),
                       !.pc = IF DB(r) = NoClient THEN "store" ELSE "closeCurrent"])
  BY <1>0 DEF Inherits, RequestRecord, Building
<1>4. Inherits(r, [req[r] EXCEPT !.pc = "close", !.conn = DB(r)])
  BY <1>0 DEF Inherits, RequestRecord, Building
<1>5. "clear" \notin Building
  BY DEF Building
<1>7. \E next : Move(r, next) /\ Inherits(r, next)
  BY <1>b, <1>1, <1>2, <1>3, <1>4, <1>5
  DEF Refused, TestClient, InfoClient, ReadCurrent, CloseCurrent, StoreRefused, CloseOld,
      DisconnectRead, DisconnectClose, Building
<1>8. ASSUME NEW q \in Requests, req[q].pc \in Building, req'[q].pc \in Building
      PROVE  client'[req[q].cl].open
  <2>1. req[q].cl \in Clients /\ client[req[q].cl].open
    BY <1>8 DEF ApiInv, LocalsSet, LocalsOf, BuildingFresh
  <2>2. \A c : TouchUsage(c) => client'[req[q].cl].open
    BY <2>1 DEF TouchUsage, ApiInv, TypeOK, ClientRecord
  <2>3. req[q].cl \notin {req[r].conn, req[r].cur} /\ (q # r => req[q].cl # req[r].cl)
    BY <1>8 DEF ApiInv, BuildingFresh
  <2>4. \A answer \in Answers : Respond(r, answer) => q # r
    BY <1>8 DEF Respond, Move, Answered, Answers, Building, ApiInv, TypeOK
  <2>5. CASE UNCHANGED client
    BY <2>1, <2>5
  <2>6. CASE InfoClient(r) \/ StoreRefused(r)
    BY <1>0, <1>8, <1>b, <2>2, <2>3, <2>4, <2>6, CloseSparesBuilding
    DEF InfoClient, StoreRefused, LocalsOf, Building
  <2>7. CASE CloseCurrent(r) \/ CloseOld(r) \/ DisconnectClose(r)
    BY <1>0, <1>8, <2>3, <2>7, CloseSparesBuilding
    DEF CloseCurrent, CloseOld, DisconnectClose, LocalsOf
  <2> QED
    BY <2>5, <2>6, <2>7 DEF Refused, TestClient, ReadCurrent, DisconnectRead
<1> QED
  BY <1>7, <1>8
  DEF Plain, Refused, TestClient, InfoClient, ReadCurrent, CloseCurrent, StoreRefused,
      CloseOld, DisconnectRead, DisconnectClose

(***************************************************************************)
(* Steps that allocate a client: it is one nothing refers to.              *)
(***************************************************************************)

LEMMA AllocateStep ==
    ASSUME ApiInv, NEW r \in Requests, NEW c \in Allocatable, NEW new, new.open,
           Allocate(c, new), NEW next, Move(r, next),
           req[r].pc = "handle", next.pc \in Building, next.cl = c,
           {next.conn, next.cur} \subseteq {DB(r), NoClient},
           next.sid = req[r].sid \/ {next.conn, next.cur} = {NoClient},
           UNCHANGED <<sessions, DbClient>>
    PROVE  BuildingFresh' /\ StaysHome'
<1>1. c \in Clients /\ ~client[c].open /\ ~Referenced(c)
  BY DEF Allocatable
<1>2. ~Installed(c) /\ \A q \in Requests : c \notin {req[q].conn, req[q].cur, req[q].cl}
  BY <1>1 DEF Referenced
<1>3. req'[r] = next /\ \A x \in Requests \ {r} : req'[x] = req[x]
  BY DEF Move, ApiInv, TypeOK
<1>4. client'[c] = new /\ \A d \in Clients \ {c} : client'[d] = client[d]
  BY <1>1 DEF Allocate, ApiInv, TypeOK
<1>5. c # DB(r) /\ c # NoClient
  BY <1>1, <1>2, InstalledDB, ClientAssumption DEF ApiInv
<1>6. DB(r) # NoClient => Installed(DB(r))
  BY InstalledDB DEF ApiInv
<1>7. \A d : Installed(d)' <=> Installed(d)
  BY DEF Installed
<1>8. ASSUME NEW q \in Requests, req'[q].pc \in Building
      PROVE  /\ client'[req'[q].cl].open
             /\ ~(Installed(req'[q].cl))
             /\ req'[q].cl \notin {req'[q].conn, req'[q].cur}
             /\ \A x \in Requests \ {q} : req'[q].cl \notin {req'[x].conn, req'[x].cur, req'[x].cl}
  <2>1. CASE q = r
    BY <1>2, <1>3, <1>4, <1>5, <2>1
  <2>2. CASE q # r
    <3>1. req[q].pc \in Building /\ req'[q] = req[q]
      BY <1>3, <1>8, <2>2
    <3>2. /\ req[q].cl \in Clients /\ req[q].cl # NoClient
          /\ client[req[q].cl].open /\ ~Installed(req[q].cl)
          /\ req[q].cl \notin {req[q].conn, req[q].cur}
          /\ \A x \in Requests \ {q} : req[q].cl \notin {req[x].conn, req[x].cur, req[x].cl}
      BY <3>1, ClientAssumption DEF ApiInv, BuildingFresh, LocalsSet, LocalsOf
    <3>3. req[q].cl # c /\ req[q].cl # DB(r)
      BY <1>2, <1>6, <3>2
    <3> QED
      BY <1>3, <1>4, <2>2, <3>1, <3>2, <3>3
  <2> QED
    BY <2>1, <2>2
<1>9. BuildingFresh'
  BY <1>7, <1>8 DEF BuildingFresh, Installed
<1>10. ASSUME NEW q \in Requests, NEW s \in Sids, sessions[s] # NoClient,
              sessions[s] \in {req'[q].conn, req'[q].cur}
       PROVE  s = req'[q].sid
  <2>1. CASE q = r
    <3>1. sessions[s] = DB(r) /\ next.sid = req[r].sid
      BY <1>3, <1>10, <2>1
    <3>2. Sessions /\ req[r].sid \in Sids /\ sessions[req[r].sid] = sessions[s]
      BY <1>10, <3>1 DEF DB, Get, ApiInv, ModesApart
    <3> QED
      BY <1>3, <1>10, <2>1, <3>1, <3>2 DEF ApiInv, NoSharing
  <2>2. CASE q # r
    BY <1>3, <1>10, <2>2 DEF ApiInv, StaysHome
  <2> QED
    BY <2>1, <2>2
<1> QED
  BY <1>9, <1>10 DEF StaysHome

LEMMA OpeningStep ==
    ASSUME ApiInv, NEW r \in Requests, Connect(r) \/ SwitchDb(r) \/ ConnectWithBackend(r)
    PROVE  BuildingFresh' /\ StaysHome'
<1>0. req[r] \in RequestRecord
  BY DEF ApiInv, TypeOK
<1>1. req[r].pc = "handle" /\ req[r].conn = NoClient /\ req[r].cur = NoClient
  BY <1>0 DEF Connect, SwitchDb, ConnectWithBackend, at, ApiInv, LocalsSet, LocalsOf
<1>2. CASE Connect(r)
  <2>1. PICK c \in Allocatable, new \in ConnectWithURL \cup NewFromBookmark(PortsInUse) :
          Allocate(c, new) /\ Move(r, [req[r] EXCEPT !.pc = "test", !.cl = c])
    BY <1>2 DEF Connect
  <2>2. new.open
    BY ConnectWithURLType, NewFromBookmarkType
  <2> DEFINE next == [req[r] EXCEPT !.pc = "test", !.cl = c]
  <2>3. /\ next.pc = "test" /\ next.cl = c /\ next.sid = req[r].sid
        /\ next.conn = NoClient /\ next.cur = NoClient
    BY <1>0, <1>1 DEF RequestRecord
  <2> QED
    BY <1>1, <1>2, <2>1, <2>2, <2>3, AllocateStep DEF Connect, Building
<1>3. CASE SwitchDb(r)
  <2>1. PICK c \in Allocatable, new \in NewFromUrl(PortsInUse, client[DB(r)].dial, FALSE) :
          Allocate(c, new) /\ Move(r, [req[r] EXCEPT !.pc = "test", !.conn = DB(r), !.cl = c])
    BY <1>3 DEF SwitchDb
  <2>2. new.open
    BY DEF NewFromUrl, Opened
  <2> DEFINE next == [req[r] EXCEPT !.pc = "test", !.conn = DB(r), !.cl = c]
  <2>3. /\ next.pc = "test" /\ next.cl = c /\ next.sid = req[r].sid
        /\ next.conn = DB(r) /\ next.cur = NoClient
    BY <1>0, <1>1 DEF RequestRecord
  <2> QED
    BY <1>1, <1>3, <2>1, <2>2, <2>3, AllocateStep DEF SwitchDb, Building
<1>4. CASE ConnectWithBackend(r)
  <2>1. PICK c \in Allocatable, new \in NewFromUrl(PortsInUse, NoPort, FALSE), u \in Uuids :
          /\ Allocate(c, [new EXCEPT !.external = TRUE])
          /\ Move(r, [req[r] EXCEPT !.pc = "info", !.cl = c, !.uuid = u,
                                    !.sid = EffectiveSid(r, u)])
    BY <1>4 DEF ConnectWithBackend
  <2>2. [new EXCEPT !.external = TRUE].open
    BY DEF NewFromUrl, Opened
  <2> DEFINE next == [req[r] EXCEPT !.pc = "info", !.cl = c, !.uuid = u,
                                    !.sid = EffectiveSid(r, u)]
  <2>3. next.pc = "info" /\ next.cl = c /\ next.conn = NoClient /\ next.cur = NoClient
    BY <1>0, <1>1 DEF RequestRecord
  <2>4. UNCHANGED <<sessions, DbClient>>
    BY <1>4 DEF ConnectWithBackend
  <2>5. next.pc \in Building /\ {next.conn, next.cur} = {NoClient}
    BY <2>3 DEF Building
  <2> DEFINE opened == [new EXCEPT !.external = TRUE]
  <2>6. opened.open /\ Allocate(c, opened) /\ Move(r, next)
    BY <2>1, <2>2
  <2> HIDE DEF next, opened
  <2> QED
    BY <1>1, <2>3, <2>4, <2>5, <2>6, AllocateStep
<1> QED
  BY <1>2, <1>3, <1>4

(***************************************************************************)
(* Steps that store a client, or remove one.                               *)
(***************************************************************************)

\* The request that stores is done with its client; the others never knew it.
LEMMA StoreStep ==
    ASSUME ApiInv, NEW r \in Requests, StoreDbClient(r) \/ StoreSession(r)
    PROVE  BuildingFresh' /\ StaysHome'
<1>0. req[r] \in RequestRecord /\ req[r].pc \in Building /\ req[r].cl \in Clients
  BY DEF ApiInv, TypeOK, LocalsSet, LocalsOf, StoreDbClient, StoreSession, Building
<1>1. /\ req[r].cl \notin {req[r].conn, req[r].cur}
      /\ \A q \in Requests \ {r} : req[r].cl \notin {req[q].conn, req[q].cur, req[q].cl}
  BY <1>0 DEF ApiInv, BuildingFresh
<1>2. /\ \A x \in Requests \ {r} : req'[x] = req[x]
      /\ req'[r].pc \notin Building
      /\ req'[r].conn \in {req[r].conn, NoClient} /\ req'[r].cur \in {req[r].cur, NoClient}
      /\ req'[r].sid = req[r].sid \/ {req'[r].conn, req'[r].cur} = {NoClient}
  BY <1>0 DEF StoreDbClient, StoreSession, AfterStore, Goto, Respond, Move, Answered, Building,
     ApiInv, TypeOK, RequestRecord
<1>3. /\ \A s \in Sids : sessions'[s] # sessions[s] => s = req[r].sid /\ sessions'[s] = req[r].cl
      /\ DbClient' \in {DbClient, req[r].cl}
      /\ UNCHANGED client
  BY DEF StoreDbClient, StoreSession, Add, ApiInv, TypeOK
<1>4. \A d : Installed(d)' => Installed(d) \/ d = req[r].cl
  BY <1>3 DEF Installed
<1>5. ASSUME NEW q \in Requests, req'[q].pc \in Building
      PROVE  /\ client'[req'[q].cl].open
             /\ ~(Installed(req[q].cl)') /\ req'[q].cl = req[q].cl
             /\ req'[q].cl \notin {req'[q].conn, req'[q].cur}
             /\ \A x \in Requests \ {q} : req'[q].cl \notin {req'[x].conn, req'[x].cur, req'[x].cl}
  <2>1. q # r /\ req'[q] = req[q] /\ req[q].pc \in Building
    BY <1>2, <1>5
  <2>2. /\ req[q].cl \in Clients /\ req[q].cl # NoClient
        /\ client[req[q].cl].open /\ ~Installed(req[q].cl)
        /\ req[q].cl \notin {req[q].conn, req[q].cur}
        /\ \A x \in Requests \ {q} : req[q].cl \notin {req[x].conn, req[x].cur, req[x].cl}
    BY <2>1, ClientAssumption DEF ApiInv, BuildingFresh, LocalsSet, LocalsOf
  <2>3. req'[r].cl \in {req[r].cl, NoClient}
    BY <1>0 DEF StoreDbClient, StoreSession, AfterStore, Goto, Respond, Move, Answered,
       ApiInv, TypeOK, RequestRecord
  <2> QED
    BY <1>2, <1>3, <1>4, <2>1, <2>2, <2>3
<1>6. BuildingFresh'
  BY <1>5 DEF BuildingFresh
<1>7. ASSUME NEW q \in Requests, NEW s \in Sids, sessions'[s] # NoClient,
             sessions'[s] \in {req'[q].conn, req'[q].cur}
      PROVE  s = req'[q].sid
  <2>1. sessions'[s] # req[r].cl
    BY <1>0, <1>1, <1>2, <1>7, ClientAssumption
  <2>2. sessions'[s] = sessions[s]
    BY <1>3, <2>1
  <2> QED
    BY <1>2, <1>7, <2>2 DEF ApiInv, StaysHome
<1> QED
  BY <1>6, <1>7 DEF StaysHome

\* Removing a session installs nothing and closes no client under construction.
LEMMA RemoveStep ==
    ASSUME ApiInv, NEW id \in Sids, Remove(id), UNCHANGED DbClient,
           \A q \in Requests : req'[q] = req[q] \/ req'[q] = Answered("ok")
    PROVE  BuildingFresh' /\ StaysHome'
<1>1. \A s \in Sids : sessions'[s] = IF s = id THEN NoClient ELSE sessions[s]
  BY DEF Remove, ApiInv, TypeOK
<1>2. \A d \in Clients : Installed(d)' => Installed(d)
  BY <1>1, ClientAssumption DEF Installed
<1>3. /\ Answered("ok").pc \notin Building /\ Answered("ok").conn = NoClient
      /\ Answered("ok").cur = NoClient /\ Answered("ok").cl = NoClient
  BY DEF Answered, Building
<1>4. ASSUME NEW q \in Requests, req'[q].pc \in Building
      PROVE  /\ client'[req'[q].cl].open
             /\ ~(Installed(req[q].cl)') /\ req'[q].cl = req[q].cl
             /\ req'[q].cl \notin {req'[q].conn, req'[q].cur}
             /\ \A x \in Requests \ {q} : req'[q].cl \notin {req'[x].conn, req'[x].cur, req'[x].cl}
  <2>1. req'[q] = req[q] /\ req[q].pc \in Building
    BY <1>3, <1>4
  <2>2. /\ req[q].cl \in Clients /\ req[q].cl # NoClient
        /\ client[req[q].cl].open /\ ~Installed(req[q].cl)
        /\ req[q].cl \notin {req[q].conn, req[q].cur}
        /\ \A x \in Requests \ {q} : req[q].cl \notin {req[x].conn, req[x].cur, req[x].cl}
    BY <2>1, ClientAssumption DEF ApiInv, BuildingFresh, LocalsSet, LocalsOf
  <2>3. sessions[id] # NoClient => Installed(sessions[id]) /\ sessions[id] \in Clients
    BY DEF Installed, ApiInv, TypeOK, MaybeClient
  <2>4. client'[req[q].cl].open
    BY <2>1, <2>2, <2>3, CloseSparesBuilding DEF Remove
  <2> QED
    BY <1>2, <1>3, <2>1, <2>2, <2>4
<1>5. BuildingFresh'
  BY <1>4 DEF BuildingFresh
<1>6. StaysHome'
  BY <1>1, <1>3 DEF StaysHome, ApiInv
<1> QED
  BY <1>5, <1>6

LEMMA FreshStep ==
    ASSUME ApiInv, [Next]_vars
    PROVE  BuildingFresh' /\ StaysHome'
<1>0. TypeOK /\ BuildingFresh /\ StaysHome /\ LocalsSet /\ ModesApart
  BY DEF ApiInv
<1>1. CASE UNCHANGED vars
  BY <1>0, <1>1 DEF vars, BuildingFresh, StaysHome, Installed
<1>2. CASE TimePasses
  <2>1. PICK c \in Clients : client' = [client EXCEPT ![c].idle = TRUE]
    BY <1>2 DEF TimePasses, GoIdle
  <2>2. \A d \in Clients : client'[d].open = client[d].open
    BY <1>0, <2>1 DEF TypeOK, ClientRecord
  <2> QED
    BY <1>0, <1>2, <2>2 DEF TimePasses, BuildingFresh, StaysHome, Installed, LocalsSet, LocalsOf
<1>3. CASE Worker
  <2>1. CASE CleanupStart
    BY <1>0, <1>3, <2>1 DEF Worker, CleanupStart, BuildingFresh, StaysHome, Installed
  <2>2. ASSUME NEW id \in Sids, CleanupRemove(id) PROVE BuildingFresh' /\ StaysHome'
    BY <1>3, <2>2, RemoveStep DEF Worker, CleanupRemove
  <2> QED
    BY <1>3, <2>1, <2>2 DEF Worker
<1>4. ASSUME NEW r \in Requests, Arrive(r)
      PROVE  BuildingFresh' /\ StaysHome'
  <2>1. PICK op \in Ops, sid \in KnownSids \cup {NoSid}, pc \in {"handle", "dbCheck"} :
          Move(r, [Answered("ok") EXCEPT !.op = op, !.sid = sid, !.pc = pc])
    BY <1>4 DEF Arrive
  <2>2. Inherits(r, [Answered("ok") EXCEPT !.op = op, !.sid = sid, !.pc = pc])
    BY DEF Inherits, Answered, Building
  <2>3. \A q \in Requests : req[q].pc \in Building => client'[req[q].cl].open
    BY <1>0, <1>4 DEF Arrive, BuildingFresh
  <2> QED
    BY <1>4, <2>1, <2>2, <2>3, PlainStep DEF Arrive, Plain
<1>5. ASSUME NEW r \in Requests, Serve(r)
      PROVE  BuildingFresh' /\ StaysHome'
  <2>1. CASE DisconnectSession(r)
    <3>1. req[r].sid \in Sids
      BY <1>0, <2>1 DEF DisconnectSession, at, LocalsSet, LocalsOf
    <3>2. \A q \in Requests : req'[q] = req[q] \/ req'[q] = Answered("ok")
      BY <1>0, <2>1 DEF DisconnectSession, Respond, Move, TypeOK
    <3> QED
      BY <2>1, <3>1, <3>2, RemoveStep DEF DisconnectSession
  <2>2. CASE DisconnectClear(r)
    <3>1. \A q \in Requests : req'[q] = req[q] \/ req'[q] = Answered("ok")
      BY <1>0, <2>2 DEF DisconnectClear, Respond, Move, TypeOK
    <3>2. /\ Answered("ok").pc \notin Building /\ Answered("ok").conn = NoClient
          /\ Answered("ok").cur = NoClient /\ Answered("ok").cl = NoClient
      BY DEF Answered, Building
    <3>3. \A q \in Requests : req[q].pc \in Building => req[q].cl \in Clients
      BY <1>0 DEF LocalsSet, LocalsOf
    <3>4. BuildingFresh'
      BY <1>0, <2>2, <3>1, <3>2, <3>3, ClientAssumption
      DEF DisconnectClear, BuildingFresh, Installed
    <3>5. StaysHome'
      BY <1>0, <2>2, <3>1, <3>2 DEF DisconnectClear, StaysHome
    <3> QED
      BY <3>4, <3>5
  <2> QED
    BY <1>5, <2>1, <2>2, QueryPlain, SetUpPlain, PlainStep, OpeningStep, StoreStep
    DEF Serve, SetUpSteps, DisconnectSteps
<1> QED
  BY <1>1, <1>2, <1>3, <1>4, <1>5 DEF Next

(***************************************************************************)
(* The bindings of sessions.                                               *)
(***************************************************************************)

\* What a step may do to the session map: store the client of a request at
\* "store", which moves on, under its id; or drop one session.
Stores(r) ==
    /\ req[r].pc = "store" /\ Sessions /\ req[r].sid \in Sids
    /\ sessions' = [sessions EXCEPT ![req[r].sid] = req[r].cl]
    /\ \A q \in Requests \ {r} : req'[q] = req[q]
    /\ req'[r].pc = "closeOld" => req'[r] = [req[r] EXCEPT !.pc = "closeOld"]
    /\ UNCHANGED client

LEMMA StoreSessionStores ==
    ASSUME ApiInv, NEW r \in Requests, StoreSession(r)
    PROVE  Stores(r)
<1>1. req[r] \in RequestRecord
  BY DEF ApiInv, TypeOK
<1>2. \A q \in Requests \ {r} : req'[q] = req[q]
  BY DEF StoreSession, AfterStore, Goto, Respond, Move, ApiInv, TypeOK
<1>3. req'[r].pc = "closeOld" => req'[r] = [req[r] EXCEPT !.pc = "closeOld"]
  BY DEF StoreSession, AfterStore, Goto, Respond, Move, Answered, ApiInv, TypeOK
<1> QED
  BY <1>1, <1>2, <1>3 DEF StoreSession, Stores, Add, RequestRecord

\* Every other step leaves the map alone or drops sessions.
LEMMA SessionsStep ==
    ASSUME ApiInv, [Next]_vars
    PROVE  \/ \E r \in Requests : StoreSession(r)
           \/ \A s \in Sids : sessions'[s] \in {sessions[s], NoClient}
<1>1. CASE UNCHANGED vars \/ TimePasses \/ \E r \in Requests : Arrive(r)
  BY <1>1 DEF vars, TimePasses, Arrive
<1>2. \A id \in Sids : Remove(id) => \A s \in Sids : sessions'[s] \in {sessions[s], NoClient}
  BY DEF Remove, ApiInv, TypeOK
<1>3. CASE Worker
  BY <1>2, <1>3 DEF Worker, CleanupStart, CleanupRemove
<1>4. ASSUME NEW r \in Requests, Serve(r), ~StoreSession(r)
      PROVE  \A s \in Sids : sessions'[s] \in {sessions[s], NoClient}
  <2>1. CASE DisconnectSession(r)
    BY <1>2, <2>1 DEF DisconnectSession, at, ApiInv, LocalsSet, LocalsOf
  <2>2. CASE UNCHANGED sessions
    BY <2>2
  <2> QED
    BY <1>4, <2>1, <2>2
    DEF Serve, DbCheck, QuerySteps, StartQuery, GetHistory, GetDatabases, QueryDone, RereadDB,
        QueryAgainDone, SetUpSteps, Refused, Connect, SwitchDb, ConnectWithBackend, TestClient,
        InfoClient, ReadCurrent, CloseCurrent, StoreDbClient, StoreRefused, CloseOld,
        DisconnectSteps, DisconnectRead, DisconnectClose, DisconnectClear
<1> QED
  BY <1>1, <1>3, <1>4 DEF Next

\* The client stored is in no session, so no two sessions come to share one.
LEMMA NoSharingStep ==
    ASSUME ApiInv, [Next]_vars
    PROVE  NoSharing'
<1>1. ASSUME NEW r \in Requests, StoreSession(r) PROVE NoSharing'
  <2>1. Stores(r) /\ ~Installed(req[r].cl)
    BY <1>1, StoreSessionStores DEF StoreSession, ApiInv, BuildingFresh, Building
  <2>2. \A s \in Sids : sessions[s] # req[r].cl
    BY <2>1 DEF Installed
  <2> QED
    BY <2>1, <2>2 DEF Stores, ApiInv, TypeOK, NoSharing
<1>2. CASE \A s \in Sids : sessions'[s] \in {sessions[s], NoClient}
  BY <1>2 DEF ApiInv, NoSharing
<1> QED
  BY <1>1, <1>2, SessionsStep

\* One request moves at a time.
LEMMA OneMoves ==
    ASSUME NEW r \in Requests, Arrive(r) \/ Serve(r)
    PROVE  \E next : Move(r, next)
<1>1. \A answer : Respond(r, answer) => \E next : Move(r, next)
  BY DEF Respond
<1>2. \A pc : Goto(r, pc) => \E next : Move(r, next)
  BY DEF Goto
<1>3. CASE Arrive(r)
  BY <1>3 DEF Arrive
<1>4. CASE DbCheck(r) \/ QuerySteps(r)
  BY <1>1, <1>2, <1>4 DEF DbCheck, QuerySteps, StartQuery, GetHistory, GetDatabases, QueryDone,
     RereadDB, QueryAgainDone
<1>5. CASE SetUpSteps(r)
  BY <1>1, <1>2, <1>5 DEF SetUpSteps, Refused, Connect, SwitchDb, ConnectWithBackend,
     TestClient, InfoClient, ReadCurrent, CloseCurrent, StoreDbClient, StoreSession,
     StoreRefused, AfterStore, CloseOld
<1>6. CASE DisconnectSteps(r)
  BY <1>1, <1>2, <1>6 DEF DisconnectSteps, DisconnectSession, DisconnectRead, DisconnectClose,
     DisconnectClear
<1> QED
  BY <1>3, <1>4, <1>5, <1>6 DEF Serve

LEMMA OthersStay ==
    ASSUME TypeOK, [Next]_vars
    PROVE  \/ UNCHANGED req
           \/ \E r \in Requests : /\ Arrive(r) \/ Serve(r)
                                  /\ \A q \in Requests \ {r} : req'[q] = req[q]
<1>1. ASSUME NEW r \in Requests, Arrive(r) \/ Serve(r)
      PROVE  \A q \in Requests \ {r} : req'[q] = req[q]
  BY <1>1, OneMoves DEF Move, TypeOK
<1> QED
  BY <1>1 DEF Next, vars, Worker, TimePasses

\* Only SwitchDb's store leads to closeOld, and it has just replaced conn.
LEMMA OldGoneStep ==
    ASSUME ApiInv, [Next]_vars
    PROVE  OldGone'
<1>1. ASSUME NEW r \in Requests, StoreSession(r) PROVE OldGone'
  <2>1. Stores(r) /\ req[r] \in RequestRecord
    BY <1>1, StoreSessionStores DEF ApiInv, TypeOK
  <2>2. /\ req[r].cl \notin {req[r].conn, req[r].cur}
        /\ \A q \in Requests \ {r} : req[r].cl \notin {req[q].conn, req[q].cur, req[q].cl}
    BY <1>1 DEF StoreSession, ApiInv, BuildingFresh, Building
  <2>4. req'[r].pc = "closeOld" => req[r].op = "switchdb"
    BY <1>1 DEF StoreSession, AfterStore, Respond, Move, Answered, ApiInv, TypeOK
  <2>3. ASSUME NEW q \in Requests, NEW s \in Sids, req'[q].pc = "closeOld",
               sessions'[s] = req'[q].conn
        PROVE  FALSE
    <3>1. sessions'[s] = IF s = req[r].sid THEN req[r].cl ELSE sessions[s]
      BY <2>1 DEF Stores, ApiInv, TypeOK
    <3>2. req'[q].conn = req[q].conn
      BY <2>1, <2>3 DEF Stores, RequestRecord
    <3>3. sessions'[s] = sessions[s] /\ s # req[r].sid
      BY <2>2, <2>3, <3>1, <3>2
    <3>4. CASE q = r
      <4>1. req[r].conn # NoClient
        BY <2>1, <2>3, <2>4, <3>4, ClientAssumption
        DEF Stores, ApiInv, LocalsSet, LocalsOf, Building
      <4> QED
        BY <2>3, <3>2, <3>3, <3>4, <4>1 DEF ApiInv, StaysHome
    <3>5. CASE q # r
      BY <2>1, <2>3, <3>2, <3>3, <3>5 DEF Stores, ApiInv, OldGone
    <3> QED
      BY <3>4, <3>5
  <2> QED
    BY <2>3 DEF OldGone
<1>2. CASE /\ \A s \in Sids : sessions'[s] \in {sessions[s], NoClient}
           /\ \A r \in Requests : ~StoreSession(r)
  <2>1. ASSUME NEW q \in Requests, req'[q].pc = "closeOld", Sessions
        PROVE  req'[q] = req[q]
    <3>1. CASE Arrive(q) \/ Serve(q)
      <4>1. PICK next : Move(q, next)
        BY <3>1, OneMoves
      <4>2. req[q] \in RequestRecord /\ req'[q] = next /\ next.pc = "closeOld"
        BY <2>1, <4>1 DEF Move, ApiInv, TypeOK
      <4>3. \A answer \in Answers : ~Respond(q, answer)
        BY <2>1 DEF Respond, Move, Answered, Answers, ApiInv, TypeOK
      <4>4. \A pc \in Steps \ {"closeOld"} : ~Goto(q, pc)
        BY <2>1, <4>2 DEF Goto, Move, ApiInv, TypeOK, RequestRecord
      <4>5. {"ok", "refused", "panic"} \subseteq Answers /\ "closeOld" \notin Answers
        BY DEF Answers
      <4>6. {"handle", "runQuery", "rereadDB", "info", "readCurrent", "store", "close", "clear"}
              \subseteq Steps \ {"closeOld"}
        BY DEF Steps
      <4>7. ~Arrive(q)
        BY <4>1, <4>2 DEF Arrive, Move, ApiInv, TypeOK, Answered
      <4>a. \A x, y, z : \A pc \in Steps \ {"closeOld"} :
              /\ ~Move(q, [req[q] EXCEPT !.pc = pc, !.conn = x])
              /\ ~Move(q, [req[q] EXCEPT !.pc = pc, !.cur = x])
              /\ ~Move(q, [req[q] EXCEPT !.cur = x, !.pc = pc])
              /\ ~Move(q, [req[q] EXCEPT !.pc = pc, !.cl = x])
              /\ ~Move(q, [req[q] EXCEPT !.pc = pc, !.conn = x, !.cl = y])
              /\ ~Move(q, [req[q] EXCEPT !.pc = pc, !.cl = x, !.uuid = y, !.sid = z])
        <5>1. \A R : R.pc # "closeOld" => ~Move(q, R)
          BY <2>1 DEF Move, ApiInv, TypeOK
        <5>2. TAKE x, y, z
        <5>3. TAKE pc \in Steps \ {"closeOld"}
        <5>4. /\ [req[q] EXCEPT !.pc = pc, !.conn = x].pc = pc
              /\ [req[q] EXCEPT !.pc = pc, !.cur = x].pc = pc
              /\ [req[q] EXCEPT !.cur = x, !.pc = pc].pc = pc
              /\ [req[q] EXCEPT !.pc = pc, !.cl = x].pc = pc
              /\ [req[q] EXCEPT !.pc = pc, !.conn = x, !.cl = y].pc = pc
              /\ [req[q] EXCEPT !.pc = pc, !.cl = x, !.uuid = y, !.sid = z].pc = pc
          BY <4>2 DEF RequestRecord
        <5> QED
          BY <5>1, <5>4
      <4>b. {"test", "closeCurrent", "runAgain"} \subseteq Steps \ {"closeOld"}
        BY DEF Steps
      <4>8. ~DbCheck(q) /\ ~QuerySteps(q)
        BY <4>3, <4>4, <4>5, <4>6, <4>a, <4>b DEF DbCheck,
           QuerySteps, StartQuery, GetHistory, GetDatabases, QueryDone, RereadDB, QueryAgainDone
      <4>9. ~Connect(q) /\ ~SwitchDb(q) /\ ~ConnectWithBackend(q) /\ ~ReadCurrent(q)
        BY <4>6, <4>a, <4>b DEF Connect, SwitchDb, ConnectWithBackend, ReadCurrent
      <4>10. ~SetUpSteps(q)
        BY <1>2, <2>1, <4>3, <4>4, <4>5, <4>6, <4>9 DEF SetUpSteps, Refused, TestClient,
           InfoClient, CloseCurrent, StoreDbClient, StoreRefused, CloseOld
      <4>11. ~DisconnectSteps(q)
        BY <2>1, <4>3, <4>4, <4>5, <4>6 DEF DisconnectSteps, DisconnectSession, DisconnectRead,
           DisconnectClose, DisconnectClear
      <4> QED
        BY <3>1, <4>7, <4>8, <4>10, <4>11 DEF Serve
    <3> QED
      BY <3>1, OthersStay DEF ApiInv
  <2>2. ASSUME NEW q \in Requests, NEW s \in Sids, req'[q].pc = "closeOld"
        PROVE  sessions'[s] # req'[q].conn
    <3>1. req'[q].conn # NoClient
      BY <2>2, ClientAssumption, LocalsStep DEF ApiInv, LocalsSet, LocalsOf
    <3>2. CASE Sessions
      BY <1>2, <2>1, <2>2, <3>1, <3>2 DEF ApiInv, OldGone
    <3>3. CASE ~Sessions
      BY <1>2, <3>1, <3>3 DEF ApiInv, ModesApart
    <3> QED
      BY <3>2, <3>3
  <2> QED
    BY <2>2 DEF OldGone
<1> QED
  BY <1>1, <1>2, SessionsStep

(***************************************************************************)
(* Who closes the client of a session: a request of that session in        *)
(* setClient or Disconnect, or the worker removing the session.            *)
(***************************************************************************)

LEMMA InstalledType ==
    ASSUME ApiInv, NEW s \in Sids, sessions[s] # NoClient
    PROVE  sessions[s] \in Clients /\ Installed(sessions[s]) /\ Sessions
BY DEF ApiInv, TypeOK, MaybeClient, Installed, ModesApart

LEMMA RemoveCloses ==
    ASSUME ApiInv, NEW id \in Sids, Remove(id), NEW s \in Sids, sessions[s] # NoClient, s # id
    PROVE  client'[sessions[s]] = client[sessions[s]]
<1>1. sessions[s] \in Clients /\ (sessions[id] # NoClient => sessions[id] \in Clients)
  BY DEF ApiInv, TypeOK, MaybeClient
<1>2. sessions[id] # sessions[s]
  BY DEF ApiInv, NoSharing
<1> QED
  BY <1>1, <1>2, CloseType DEF Remove, Close, ApiInv, TypeOK

LEMMA AllocateSparesInstalled ==
    ASSUME ApiInv, NEW c \in Allocatable, NEW new, Allocate(c, new),
           NEW s \in Sids, sessions[s] # NoClient
    PROVE  client'[sessions[s]] = client[sessions[s]]
<1>1. c # sessions[s] /\ c \in Clients /\ sessions[s] \in Clients
  BY InstalledType DEF Allocatable, Referenced
<1> QED
  BY <1>1 DEF Allocate, ApiInv, TypeOK

LEMMA WhoCloses ==
    ASSUME ApiInv, [Next]_vars, NEW s \in Sids, sessions[s] # NoClient,
           client'[sessions[s]].open # client[sessions[s]].open
    PROVE  \/ \E r \in Requests : CloseCurrent(r) /\ req[r].sid = s
           \/ \E r \in Requests : DisconnectSession(r) /\ req[r].sid = s
           \/ CleanupRemove(s) /\ UNCHANGED req
<1> DEFINE c == sessions[s]
<1>0. c \in Clients /\ Installed(c) /\ Sessions /\ client[c] \in ClientRecord
  BY InstalledType DEF ApiInv, TypeOK
<1>1. \A d \in Clients : Close(d) => d = c
  BY <1>0, CloseType DEF Close, ApiInv, TypeOK
<1>2. \A d : ~TouchUsage(d)
  BY <1>0 DEF TouchUsage, ApiInv, TypeOK, ClientRecord
<1>3. \A d : ~GoIdle(d)
  BY <1>0 DEF GoIdle, ApiInv, TypeOK, ClientRecord
<1>4. \A d \in Allocatable : \A new : ~Allocate(d, new)
  BY AllocateSparesInstalled
<1>5. ~UNCHANGED client
  OBVIOUS
<1>6. CASE Worker
  <2>1. ~CleanupStart
    BY <1>5 DEF CleanupStart
  <2>2. PICK id \in Sids : CleanupRemove(id)
    BY <1>6, <2>1 DEF Worker
  <2>3. id = s
    BY <2>2, RemoveCloses DEF CleanupRemove
  <2> QED
    BY <1>6, <2>2, <2>3 DEF Worker
<1>7. ASSUME NEW r \in Requests, Serve(r)
      PROVE  \/ CloseCurrent(r) /\ req[r].sid = s
             \/ DisconnectSession(r) /\ req[r].sid = s
  <2>0. LocalsOf(req[r])
    BY DEF ApiInv, LocalsSet
  <2>1. ~DbCheck(r) /\ ~QuerySteps(r)
    BY <1>2, <1>5 DEF DbCheck, QuerySteps, StartQuery, GetHistory, GetDatabases, QueryDone,
       RereadDB, QueryAgainDone
  <2>2. ~Connect(r) /\ ~SwitchDb(r) /\ ~ConnectWithBackend(r)
    BY <1>4 DEF Connect, SwitchDb, ConnectWithBackend
  <2>3. req[r].pc \in Building => req[r].cl \in Clients /\ req[r].cl # c
    BY <1>0, <2>0 DEF ApiInv, BuildingFresh, LocalsOf
  <2>4. ~InfoClient(r) /\ ~StoreRefused(r)
    BY <1>1, <1>2, <2>3 DEF InfoClient, StoreRefused, Building
  <2>5. ~CloseOld(r)
    BY <1>1, <2>0 DEF CloseOld, LocalsOf, ApiInv, OldGone
  <2>6. ~DisconnectClose(r)
    BY <1>0, <2>0 DEF DisconnectClose, LocalsOf
  <2>7. CASE CloseCurrent(r)
    <3>1. req[r].cur = c
      BY <1>1, <2>0, <2>7 DEF CloseCurrent, LocalsOf
    <3> QED
      BY <2>7, <3>1 DEF ApiInv, StaysHome
  <2>8. CASE DisconnectSession(r)
    <3>1. req[r].sid \in Sids /\ Remove(req[r].sid)
      BY <2>0, <2>8 DEF DisconnectSession, at, LocalsOf
    <3> QED
      BY <2>8, <3>1, RemoveCloses
  <2> QED
    BY <1>5, <1>7, <2>1, <2>2, <2>4, <2>5, <2>6, <2>7, <2>8
    DEF Serve, SetUpSteps, Refused, TestClient, ReadCurrent, StoreDbClient, StoreSession,
        DisconnectSteps, DisconnectRead, DisconnectClear
<1> QED
  BY <1>3, <1>5, <1>6, <1>7 DEF Next, vars, TimePasses, Arrive

\* A request that closed the client of its session stays at "store" until it
\* has stored its own, which is open.
LEMMA ClosedOnlyStep ==
    ASSUME ApiInv, [Next]_vars
    PROVE  ClosedOnlyWhileReplaced'
<1> SUFFICES ASSUME NEW s \in Sids, sessions'[s] # NoClient, ~client'[sessions'[s]].open
             PROVE  \E r \in Requests : req'[r].pc = "store" /\ req'[r].sid = s
  BY DEF ClosedOnlyWhileReplaced
<1>1. \A r \in Requests : StoreSession(r) => sessions'[s] = sessions[s] /\ req[r].sid # s
  <2>1. TAKE r \in Requests
  <2>2. HAVE StoreSession(r)
  <2>3. Stores(r) /\ client[req[r].cl].open
    BY <2>2, StoreSessionStores DEF StoreSession, ApiInv, BuildingFresh, Building
  <2> QED
    BY <2>3 DEF Stores, ApiInv, TypeOK
<1>2. sessions'[s] = sessions[s]
  BY <1>1, SessionsStep
<1>3. CASE client'[sessions[s]].open # client[sessions[s]].open
  <2>1. CASE \E r \in Requests : CloseCurrent(r) /\ req[r].sid = s
    BY <2>1 DEF CloseCurrent, Goto, Move, ApiInv, TypeOK, RequestRecord
  <2>2. CASE \E r \in Requests : DisconnectSession(r) /\ req[r].sid = s
    BY <2>2 DEF DisconnectSession, Remove, ApiInv, TypeOK
  <2>3. CASE CleanupRemove(s)
    BY <2>3 DEF CleanupRemove, Remove, ApiInv, TypeOK
  <2> QED
    BY <1>2, <1>3, <2>1, <2>2, <2>3, WhoCloses
<1>4. CASE client'[sessions[s]].open = client[sessions[s]].open
  <2>1. PICK r \in Requests : req[r].pc = "store" /\ req[r].sid = s
    BY <1>2, <1>4 DEF ApiInv, ClosedOnlyWhileReplaced
  <2>2. Sessions /\ s # NoSid
    BY <1>2, InstalledType, SessionAssumption
  <2>3. ~Arrive(r)
    BY <2>1 DEF Arrive, Active, Answers
  <2>4. ~Serve(r)
    BY <1>1, <2>1, <2>2
    DEF Serve, DbCheck, QuerySteps, StartQuery, GetHistory, GetDatabases, QueryDone, RereadDB,
        QueryAgainDone, SetUpSteps, Refused, Connect, SwitchDb, ConnectWithBackend, TestClient,
        InfoClient, ReadCurrent, CloseCurrent, StoreDbClient, StoreRefused, CloseOld,
        DisconnectSteps, DisconnectSession, DisconnectRead, DisconnectClose, DisconnectClear, at
  <2>5. req'[r] = req[r]
    BY <2>3, <2>4, OthersStay DEF ApiInv
  <2> QED
    BY <2>1, <2>5
<1> QED
  BY <1>3, <1>4

(***************************************************************************)
(* The theorems.                                                           *)
(***************************************************************************)

LEMMA InitInv == Init => ApiInv
<1> SUFFICES ASSUME Init PROVE ApiInv
  OBVIOUS
<1>1. TypeOK
  BY InitType
<1>2. \A r \in Requests : req[r] = Answered("ok")
  BY DEF Init
<1>3. LocalsSet
  BY <1>2, AnsweredLocals DEF LocalsSet, Answers
<1>4. Answered("ok").pc = "ok" /\ Answered("ok").conn = NoClient /\ Answered("ok").cur = NoClient
  BY DEF Answered
<1>5. ModesApart
  BY DEF Init, ModesApart, InitialClients
<1> QED
  BY <1>1, <1>2, <1>3, <1>4, <1>5
  DEF ApiInv, Init, BuildingFresh, Building, StaysHome, OldGone, NoSharing,
      ClosedOnlyWhileReplaced

LEMMA NextInv == ApiInv /\ [Next]_vars => ApiInv'
<1> SUFFICES ASSUME ApiInv, [Next]_vars PROVE ApiInv'
  OBVIOUS
<1>1. TypeOK' /\ LocalsSet' /\ ModesApart'
  BY TypeStep, LocalsStep, ModesStep DEF ApiInv
<1> QED
  BY <1>1, FreshStep, OldGoneStep, NoSharingStep, ClosedOnlyStep DEF ApiInv

\* The invariant holds in every reachable state.
THEOREM Invariance == Spec => []ApiInv
BY InitInv, NextInv, PTL DEF Spec

\* Every variable has its type, in both modes.
THEOREM TypeCorrect == Spec => []TypeOK
<1>1. ApiInv => TypeOK
  BY DEF ApiInv
<1> QED
  BY <1>1, Invariance, PTL

\* No client is ever bound to two sessions.
THEOREM SessionsShareNothing == Spec => []NoSharing
<1>1. ApiInv => NoSharing
  BY DEF ApiInv
<1> QED
  BY <1>1, Invariance, PTL

\* A session has a closed client only while a request is about to replace it.
THEOREM NoSessionLeftClosed == Spec => []ClosedOnlyWhileReplaced
<1>1. ApiInv => ClosedOnlyWhileReplaced
  BY DEF ApiInv
<1> QED
  BY <1>1, Invariance, PTL

\* Requests of one session, and the worker on one session, close no client of
\* another session.
THEOREM SessionIsolation == Spec => ClosedOnlyByOwnSession
<1>1. ASSUME ApiInv, [Next]_vars, NEW s \in Sids, sessions[s] # NoClient,
             client[sessions[s]].open, ~client'[sessions[s]].open
      PROVE  \/ s \in stale /\ s \notin stale'
             \/ \E r \in Requests : req[r].sid = s /\ req'[r] # req[r]
  <2>1. CASE \E r \in Requests : CloseCurrent(r) /\ req[r].sid = s
    BY <1>1, <2>1 DEF CloseCurrent, Goto, Move, ApiInv, TypeOK, RequestRecord
  <2>2. CASE \E r \in Requests : DisconnectSession(r) /\ req[r].sid = s
    BY <1>1, <2>2 DEF DisconnectSession, at, Respond, Move, Answered, ApiInv, TypeOK
  <2>3. CASE CleanupRemove(s)
    BY <2>3 DEF CleanupRemove
  <2> QED
    BY <1>1, <2>1, <2>2, <2>3, WhoCloses
<1>2. ApiInv /\ [Next]_vars =>
        [\A s \in Sids :
            /\ sessions[s] # NoClient
            /\ client[sessions[s]].open
            /\ ~client'[sessions[s]].open
            => \/ s \in stale /\ s \notin stale'
               \/ \E r \in Requests : req[r].sid = s /\ req'[r] # req[r]]_vars
  BY <1>1
<1> QED
  BY <1>2, Invariance, PTL DEF Spec, ClosedOnlyByOwnSession
=============================================================================
