--------------------------- MODULE StartupProofs ---------------------------
(***************************************************************************)
(* Proofs about Startup: the invariant of the API holds of the process     *)
(* from its start to its end, the process implements the register of       *)
(* sessions when requests come one at a time, and the start-up is bounded. *)
(***************************************************************************)
EXTENDS Startup, HandlerProofs

(***************************************************************************)
(* The start-up and the shutdown.                                          *)
(***************************************************************************)

\* While no request is active, clients no session has may change at will.
LEMMA QuietStep ==
    ASSUME ApiInv, \A r \in Requests : ~Active(r),
           UNCHANGED <<sessions, stale, req, uuids>>,
           client' \in [Clients -> ClientRecord],
           DbClient' \in MaybeClient, Sessions => DbClient' = DbClient,
           \A s \in Sids : sessions[s] # NoClient =>
               client'[sessions[s]] = client[sessions[s]]
    PROVE  ApiInv'
<1>1. TypeOK' /\ LocalsSet' /\ ModesApart' /\ StaysHome' /\ OldGone' /\ NoSharing'
  BY DEF ApiInv, TypeOK, LocalsSet, LocalsOf, ModesApart, StaysHome, OldGone, NoSharing
<1>2. BuildingFresh'
  BY DEF Active, Answers, BuildingFresh, Building
<1>3. ClosedOnlyWhileReplaced'
  BY DEF ApiInv, ClosedOnlyWhileReplaced
<1> QED
  BY <1>1, <1>2, <1>3 DEF ApiInv

LEMMA FirstClientsType ==
    BootInv => \A new \in FirstClients : new \in ClientRecord /\ new.open /\ ~Sessions
<1>1. \A new \in NewFromUrl(PortsInUse, NoPort, FALSE) : new \in ClientRecord /\ new.open
  BY NewFromUrlType
<1>2. \A new \in NewFromBookmark(PortsInUse) : new \in ClientRecord /\ new.open
  BY NewFromBookmarkType
<1> QED
  BY <1>1, <1>2 DEF BootInv, BootRecord, FirstClients

LEMMA BootStep ==
    ASSUME StartInv, Boot
    PROVE  StartInv'
<1>1. /\ ApiInv /\ TypeOK /\ BootInv
      /\ \A r \in Requests : ~Active(r)
      /\ UNCHANGED <<sessions, stale, req, uuids>>
  BY DEF StartInv, ApiInv, BootInv, Boot, initClient, testClient, retryAfterDelay, checkObjects,
         startServer, vars
<1>2. HeldApart'
  BY <1>1 DEF HeldApart, Active, Answers, Building
<1>3. \A r \in Requests : ~Active(r)'
  BY <1>1 DEF Active
<1> DEFINE Opens ==
             /\ boot.pc = "start"
             /\ \E c \in Allocatable, new \in FirstClients :
                  /\ Allocate(c, new)
                  /\ boot' = [boot EXCEPT !.pc = "test", !.cl = c]
             /\ UNCHANGED <<sessions, stale, DbClient, req, uuids>>
<1>4. CASE UNCHANGED vars /\ ~Opens
  <2>1. ApiInv'
    BY <1>1, <1>4, NextInv
  <2>2. BootInv'
    <3>1. CASE initClient
      <4>1. boot.pc = "start" /\ \E pc \in {"listen", "exited"} : GoBoot(pc)
        BY <1>4, <3>1 DEF initClient
      <4> QED
        BY <1>1, <1>3, <4>1 DEF BootInv, BootRecord, GoBoot
    <3>2. CASE testClient
      <4>1. /\ boot.pc = "test"
            /\ \/ \E pc \in {"objects", "exited"} : GoBoot(pc)
               \/ boot' = [boot EXCEPT !.pc = "listen", !.cl = NoClient]
               \/ boot.retries > 0 /\ boot' = [boot EXCEPT !.pc = "delay", !.retries = @ - 1]
        BY <3>2 DEF testClient, testFailed
      <4>2. CASE \E pc \in {"objects", "exited"} : GoBoot(pc)
        BY <1>1, <1>3, <4>1, <4>2 DEF BootInv, BootRecord, GoBoot
      <4>3. CASE boot' = [boot EXCEPT !.pc = "listen", !.cl = NoClient]
        BY <1>1, <1>3, <4>1, <4>3 DEF BootInv, BootRecord, MaybeClient
      <4>4. CASE boot.retries > 0 /\ boot' = [boot EXCEPT !.pc = "delay", !.retries = @ - 1]
        <5>1. boot.retries - 1 \in 0..RetryCount
          BY <1>1, <4>4, StartupAssumption DEF BootInv, BootRecord, StartupAssumption
        <5> QED
          BY <1>1, <1>3, <4>1, <4>4, <5>1 DEF BootInv, BootRecord
      <4> QED
        BY <4>1, <4>2, <4>3, <4>4
    <3>3. CASE retryAfterDelay \/ checkObjects \/ startServer
      BY <1>1, <1>3, <3>3
      DEF BootInv, BootRecord, retryAfterDelay, checkObjects, startServer, GoBoot, MaybeClient
    <3> QED
      BY <3>1, <3>2, <3>3 DEF Boot
  <2> QED
    BY <1>2, <2>1, <2>2 DEF StartInv
<1>5. CASE Opens
  <2>1. PICK c \in Allocatable, new \in FirstClients :
           Allocate(c, new) /\ boot' = [boot EXCEPT !.pc = "test", !.cl = c]
    BY <1>5
  <2>2. c \in Clients /\ new \in ClientRecord /\ ~Sessions
    BY <1>1, <2>1, FirstClientsType DEF Allocatable
  <2>3. client' \in [Clients -> ClientRecord]
    BY <1>1, <2>1, <2>2 DEF Allocate, TypeOK
  <2>4. \A s \in Sids : sessions[s] # NoClient => client'[sessions[s]] = client[sessions[s]]
    BY <1>1, <2>1, AllocateSparesInstalled
  <2>5. ApiInv'
    BY <1>1, <1>5, <2>3, <2>4, QuietStep DEF TypeOK
  <2>6. BootInv'
    BY <1>1, <1>3, <2>1, <2>2 DEF BootInv, BootRecord, MaybeClient
  <2> QED
    BY <1>2, <2>5, <2>6 DEF StartInv
<1>6. CASE checkObjects /\ ~UNCHANGED DbClient
  <2>1. boot.pc = "objects" /\ boot.cl \in Clients /\ ~Sessions /\ DbClient' = boot.cl
    BY <1>1, <1>6, ClientAssumption DEF checkObjects, BootInv
  <2>2. ApiInv'
    BY <1>1, <1>6, <2>1, QuietStep DEF checkObjects, TypeOK, MaybeClient
  <2>3. BootInv'
    BY <1>1, <1>3, <1>6, <2>1 DEF BootInv, BootRecord, checkObjects, GoBoot
  <2> QED
    BY <1>2, <2>2, <2>3 DEF StartInv
<1> QED
  BY <1>4, <1>5, <1>6
  DEF Boot, initClient, testClient, retryAfterDelay, checkObjects, startServer, vars

LEMMA ShutdownStep ==
    ASSUME StartInv, Shutdown
    PROVE  StartInv'
<1>1. ApiInv /\ TypeOK /\ BootInv /\ HeldApart
  BY DEF StartInv, ApiInv
<1>2. BootInv' /\ HeldApart'
  BY <1>1 DEF Shutdown, GoBoot, BootInv, BootRecord, HeldApart
<1>3. CASE boot.cl = NoClient
  <2>1. UNCHANGED vars
    BY <1>3 DEF Shutdown, vars
  <2> QED
    BY <1>1, <1>2, <2>1, NextInv DEF StartInv
<1>4. CASE boot.cl # NoClient
  <2>1. boot.cl \in Clients /\ ~Sessions /\ client' = Closed(boot.cl)
    BY <1>1, <1>4 DEF BootInv, BootRecord, MaybeClient, Shutdown, Close
  <2>2. client' \in [Clients -> ClientRecord] /\ \A d \in Clients \ {boot.cl} : client'[d] = client[d]
    BY <1>1, <2>1, CloseType DEF TypeOK
  <2>3. UNCHANGED <<sessions, stale, DbClient, req, uuids>>
    BY DEF Shutdown
  <2>4. \A s \in Sids : sessions[s] = NoClient
    BY <1>1, <2>1 DEF ApiInv, ModesApart
  <2>5. TypeOK' /\ LocalsSet' /\ ModesApart' /\ StaysHome' /\ OldGone' /\ NoSharing'
    BY <1>1, <2>2, <2>3
    DEF ApiInv, TypeOK, LocalsSet, LocalsOf, ModesApart, StaysHome, OldGone, NoSharing
  <2>6. BuildingFresh'
    BY <1>1, <2>2, <2>3 DEF ApiInv, BuildingFresh, HeldApart, Installed, LocalsSet, LocalsOf
  <2>7. ClosedOnlyWhileReplaced'
    BY <2>3, <2>4 DEF ClosedOnlyWhileReplaced
  <2> QED
    BY <1>2, <2>5, <2>6, <2>7 DEF ApiInv, StartInv
<1> QED
  BY <1>3, <1>4

(***************************************************************************)
(* The server.                                                             *)
(***************************************************************************)

\* A request that sets up a client after a step did so before it, or has just
\* allocated a closed one.
LEMMA WhoBuilds ==
    ASSUME ApiInv, NEW r \in Requests, Arrive(r) \/ Serve(r), req'[r].pc \in Building
    PROVE  \/ req[r].pc \in Building /\ req'[r].cl = req[r].cl
           \/ ~client[req'[r].cl].open
<1>1. req[r] \in RequestRecord /\ TypeOK
  BY DEF ApiInv, TypeOK
<1>2. \A next : Move(r, next) => req'[r] = next
  BY <1>1 DEF Move, TypeOK
<1>3. \A answer \in Answers : ~Respond(r, answer)
  BY <1>2 DEF Respond, Answered, Answers, Building
<1>4. \A pc : Goto(r, pc) => req'[r].pc = pc /\ req'[r].cl = req[r].cl
  BY <1>1, <1>2 DEF Goto, RequestRecord
<1>5. CASE Arrive(r)
  <2>1. req'[r].pc \in {"handle", "dbCheck"}
    BY <1>1, <1>2, <1>5 DEF Arrive, Answered
  <2> QED
    BY <2>1 DEF Building
<1>6. CASE DbCheck(r) \/ QuerySteps(r)
  BY <1>1, <1>2, <1>3, <1>4, <1>6
  DEF DbCheck, QuerySteps, StartQuery, GetHistory, GetDatabases, QueryDone, RereadDB,
      QueryAgainDone, Building, RequestRecord, Answers
<1>7. CASE Connect(r) \/ SwitchDb(r) \/ ConnectWithBackend(r)
  BY <1>1, <1>2, <1>7 DEF Connect, SwitchDb, ConnectWithBackend, Allocatable, RequestRecord
<1>8. CASE SetUpSteps(r) /\ ~(Connect(r) \/ SwitchDb(r) \/ ConnectWithBackend(r))
  BY <1>1, <1>2, <1>3, <1>4, <1>8
  DEF SetUpSteps, Refused, TestClient, InfoClient, ReadCurrent, CloseCurrent, StoreDbClient,
      StoreSession, StoreRefused, AfterStore, CloseOld, Building, RequestRecord, Answers
<1>9. CASE DisconnectSteps(r)
  BY <1>1, <1>2, <1>3, <1>4, <1>9
  DEF DisconnectSteps, DisconnectSession, DisconnectRead, DisconnectClose, DisconnectClear, Building, RequestRecord, Answers
<1> QED
  BY <1>5, <1>6, <1>7, <1>8, <1>9 DEF Serve

LEMMA RunningStep ==
    ASSUME StartInv, Running
    PROVE  StartInv'
<1>1. ApiInv /\ TypeOK /\ BootInv /\ HeldApart /\ [Next]_vars /\ boot.pc = "serving" /\ boot' = boot
  BY DEF StartInv, ApiInv, Running
<1>2. ApiInv'
  BY <1>1, NextInv
<1>3. BootInv'
  BY <1>1 DEF BootInv
<1>4. ASSUME UNCHANGED req PROVE HeldApart'
  BY <1>1, <1>4 DEF HeldApart
<1>5. ASSUME NEW r \in Requests, Arrive(r) \/ Serve(r),
             \A q \in Requests \ {r} : req'[q] = req[q]
      PROVE  HeldApart'
  <2>1. SUFFICES ASSUME req'[r].pc \in Building PROVE req'[r].cl # boot.cl
    BY <1>1, <1>5 DEF HeldApart
  <2>2. client'[req'[r].cl].open /\ req'[r].cl \in Clients
    BY <1>2, <2>1 DEF ApiInv, BuildingFresh, LocalsSet, LocalsOf
  <2>3. CASE req[r].pc \in Building /\ req'[r].cl = req[r].cl
    BY <1>1, <2>3 DEF HeldApart
  <2>4. CASE ~client[req'[r].cl].open
    BY <1>1, <2>2, <2>4, ClientAssumption DEF Running
  <2> QED
    BY <1>1, <1>5, <2>1, <2>3, <2>4, WhoBuilds
<1>6. HeldApart'
  BY <1>1, <1>4, <1>5, OthersStay
<1> QED
  BY <1>2, <1>3, <1>6 DEF StartInv

LEMMA StartInitInv == StartInit => StartInv
<1> SUFFICES ASSUME StartInit PROVE StartInv
  OBVIOUS
<1>1. ApiInv
  BY InitInv DEF StartInit
<1>2. \A r \in Requests : req[r].pc = "ok"
  BY DEF StartInit, Init, Answered
<1>3. PICK opts \in ParseOptions :
         boot = [pc |-> "start", given |-> opts.given, named |-> opts.named,
                 cl |-> NoClient, retries |-> RetryCount]
  BY DEF StartInit
<1>4. RetryCount \in 0..RetryCount
  BY StartupAssumption
<1>5. boot \in BootRecord /\ (Sessions => boot.given = "nothing")
  BY <1>3, <1>4 DEF BootRecord, ParseOptions, MaybeClient
<1>6. BootInv /\ HeldApart
  BY <1>2, <1>3, <1>5 DEF BootInv, HeldApart, Active, Answers, Building
<1> QED
  BY <1>1, <1>6 DEF StartInv

LEMMA StartNextInv == StartInv /\ [StartNext]_startVars => StartInv'
<1>1. ASSUME StartInv, UNCHANGED startVars PROVE StartInv'
  <2>1. ApiInv'
    BY <1>1, NextInv DEF StartInv, startVars, vars
  <2> QED
    BY <1>1, <2>1 DEF StartInv, startVars, BootInv, HeldApart, Active
<1> QED
  BY <1>1, BootStep, RunningStep, ShutdownStep DEF StartNext

\* What Api proves of requests holds of the process, from its start to its
\* end: the invariant of Api is kept by the start-up, by the server with any
\* requests and worker, and by the deferred Close.
THEOREM StartupInvariance == StartSpec => []StartInv
BY StartInitInv, StartNextInv, PTL DEF StartSpec

(***************************************************************************)
(* The refinement of SessionRegister, from the start of the process to its *)
(* end.                                                                    *)
(***************************************************************************)

\* While no request is active the invariants of requests hold as they are.
LEMMA QuietSerial ==
    ASSUME SerialInv, \A r \in Requests : ~Active(r), UNCHANGED <<sessions, req, uuids>>, ApiInv'
    PROVE  SerialInv'
<1>1. StepsApart' /\ DrawnApart' /\ UntoldEmpty'
  BY DEF SerialInv, IdInv, StepsApart, StepsOf, DrawnApart, DrawsId, UntoldEmpty
<1>2. OneAtATime' /\ ReadsStay'
  BY DEF Active, Answers, OneAtATime, ReadsStay
<1> QED
  BY <1>1, <1>2 DEF SerialInv, IdInv

LEMMA BootSerial ==
    ASSUME StartSerialInv, Boot
    PROVE  StartSerialInv' /\ RegisterStep
<1>1. ApiInv /\ TypeOK /\ BootInv /\ SerialInv /\ BootAlone /\ StartInv
  BY DEF StartSerialInv, StartInv, ApiInv
<1>2. StartInv' /\ ApiInv'
  BY <1>1, BootStep DEF StartInv
<1>3. /\ \A r \in Requests : ~Active(r)
      /\ UNCHANGED <<sessions, stale, req, uuids>>
  BY <1>1 DEF BootInv, Boot, initClient, testClient, retryAfterDelay, checkObjects,
              startServer, vars
<1>4. SerialInv'
  BY <1>1, <1>2, <1>3, QuietSerial
<1>5. CASE initClient
  <2>1. CASE UNCHANGED client /\ \E pc \in {"listen", "exited"} : GoBoot(pc)
    <3>1. boot'.pc \in {"listen", "exited"}
      BY <1>1, <2>1 DEF GoBoot, BootInv, BootRecord
    <3>2. BootAlone'
      BY <3>1 DEF BootAlone
    <3>3. RegisterStep
      BY <1>5, <2>1, SameIsStutter DEF initClient
    <3> QED
      BY <1>2, <1>4, <3>2, <3>3 DEF StartSerialInv
  <2>2. ASSUME NEW c \in Allocatable, NEW new \in FirstClients, Allocate(c, new),
               boot' = [boot EXCEPT !.pc = "test", !.cl = c]
        PROVE  StartSerialInv' /\ RegisterStep
    <3>1. new.open = TRUE
      BY <1>1, FirstClientsType DEF ClientRecord
    <3>2. boot'.cl = c /\ client'[c].open /\ boot.pc = "start" /\ DbClient' = DbClient
      BY <1>1, <1>5, <2>2, <3>1
      DEF initClient, Allocate, Allocatable, BootInv, BootRecord, TypeOK
    <3>3. BootAlone'
      BY <1>1, <3>2 DEF BootAlone
    <3>4. RegisterStep
      BY <1>1, <1>3, <2>2, <3>1, <3>2, AllocateIsSetUp
    <3> QED
      BY <1>2, <1>4, <3>3, <3>4 DEF StartSerialInv
  <2> QED
    BY <1>5, <2>1, <2>2 DEF initClient
<1>6. CASE testClient \/ retryAfterDelay \/ startServer
  <2>1. UNCHANGED <<client, DbClient>>
    BY <1>6 DEF testClient, retryAfterDelay, startServer, vars
  <2>2. \/ boot'.pc \in {"listen", "exited", "serving"}
        \/ boot.pc \in {"test", "delay", "objects"} /\ boot'.cl = boot.cl
    BY <1>1, <1>6
    DEF testClient, testFailed, retryAfterDelay, startServer, GoBoot, BootInv, BootRecord
  <2>3. BootAlone'
    BY <1>1, <2>1, <2>2 DEF BootAlone
  <2>4. RegisterStep
    BY <1>3, <2>1, SameIsStutter
  <2> QED
    BY <1>2, <1>4, <2>3, <2>4 DEF StartSerialInv
<1>7. CASE checkObjects
  <2>1. boot'.pc \in {"listen", "exited"} /\ UNCHANGED client /\ boot.pc = "objects"
    BY <1>1, <1>7 DEF checkObjects, GoBoot, BootInv, BootRecord
  <2>2. BootAlone'
    BY <2>1 DEF BootAlone
  <2>3. ASSUME UNCHANGED DbClient PROVE RegisterStep
    BY <1>3, <2>1, <2>3, SameIsStutter
  <2>4. ASSUME DbClient' = boot.cl PROVE RegisterStep
    <3>1. /\ ~Sessions /\ boot.cl \in Clients /\ client[boot.cl].open /\ DbClient = NoClient
          /\ \A s \in Sids : sessions[s] = NoClient
      BY <1>1, <2>1, ClientAssumption DEF BootInv, BootAlone, ApiInv, ModesApart
    <3>2. /\ Slots = {NoSid} /\ Bound[NoSid] = NoClient
          /\ Bound' = [Bound EXCEPT ![NoSid] = boot.cl] /\ OpenClients' = OpenClients
      BY <2>1, <2>4, <3>1 DEF Slots, Bound, OpenClients
    <3>3. boot.cl \in OpenClients /\ NoClient \notin OpenClients /\ boot.cl # NoClient
      BY <3>1, ClientAssumption DEF OpenClients
    <3>4. Register!Bind(NoSid, boot.cl)
      BY <3>2, <3>3 DEF Register!Bind, Register!Unbound
    <3> QED
      BY <3>1, <3>2, <3>4 DEF RegisterStep, Register!Next
  <2> QED
    BY <1>2, <1>4, <1>7, <2>2, <2>3, <2>4 DEF StartSerialInv, checkObjects
<1> QED
  BY <1>5, <1>6, <1>7 DEF Boot

LEMMA ShutdownSerial ==
    ASSUME StartSerialInv, Shutdown
    PROVE  StartSerialInv' /\ RegisterStep
<1>1. ApiInv /\ TypeOK /\ BootInv /\ SerialInv /\ StartInv /\ IdInv
  BY DEF StartSerialInv, StartInv, ApiInv, SerialInv
<1>2. StartInv' /\ ApiInv'
  BY <1>1, ShutdownStep DEF StartInv
<1>3. UNCHANGED <<sessions, stale, DbClient, req, uuids>> /\ boot'.pc = "exited"
  BY <1>1 DEF Shutdown, GoBoot, BootInv, BootRecord
<1>4. /\ boot.cl = NoClient => client' = client
      /\ boot.cl # NoClient => boot.cl \in Clients /\ Close(boot.cl)
  BY <1>1 DEF Shutdown, BootInv, BootRecord, MaybeClient
<1>5. \A d \in Clients : client'[d].open => client[d].open
  BY <1>1, <1>4, CloseType DEF Close, TypeOK
<1>6. IdInv' /\ OneAtATime'
  BY <1>1, <1>2, <1>3
  DEF IdInv, StepsApart, StepsOf, DrawnApart, DrawsId, UntoldEmpty, SerialInv, OneAtATime,
      Active, SameSession
<1>7. ReadsStay'
  <2>1. \A r \in Requests : DB(r)' = DB(r) /\ DB(r) \in Clients \cup {NoClient}
    BY <1>1, <1>3, DBType DEF DB, Get, MaybeClient
  <2> QED
    BY <1>1, <1>3, <1>5, <2>1 DEF SerialInv, ReadsStay
<1>8. BootAlone'
  BY <1>3 DEF BootAlone
<1>9. RegisterStep
  BY <1>1, <1>3, <1>4, CloseIsShut, SameIsStutter
<1> QED
  BY <1>2, <1>6, <1>7, <1>8, <1>9 DEF StartSerialInv, SerialInv

LEMMA RunningSerial ==
    ASSUME SerialClients, StartSerialInv, Running
    PROVE  StartSerialInv' /\ RegisterStep
<1>1. StartInv /\ SerialInv /\ ApiInv /\ ReadsStay /\ [Next]_vars
  BY DEF StartSerialInv, SerialInv, StartInv, Running
<1>2. StartInv' /\ SerialInv' /\ RegisterStep
  BY <1>1, RunningStep, NextSerial, StepRegisters
<1>3. BootAlone'
  BY DEF Running, BootAlone
<1> QED
  BY <1>2, <1>3 DEF StartSerialInv

LEMMA StartSerialStep ==
    ASSUME SerialClients, StartSerialInv, [StartNext]_startVars
    PROVE  StartSerialInv' /\ RegisterStep
<1>1. CASE UNCHANGED startVars
  <2>1. UNCHANGED vars /\ UNCHANGED boot
    BY <1>1 DEF startVars, vars
  <2>2. StartInv'
    BY StartNextInv DEF StartSerialInv
  <2>3. SerialInv'
    BY <2>1, NextSerial DEF StartSerialInv
  <2>4. BootAlone'
    BY <2>1 DEF StartSerialInv, BootAlone, vars
  <2>5. RegisterStep
    BY <2>1, SameIsStutter DEF vars
  <2> QED
    BY <2>2, <2>3, <2>4, <2>5 DEF StartSerialInv
<1> QED
  BY <1>1, BootSerial, RunningSerial, ShutdownSerial DEF StartNext

LEMMA StartSerialInvariance ==
    ASSUME SerialClients
    PROVE  StartSpec => [](StartSerialInv)
<1>1. StartInit => StartSerialInv
  BY StartInitInv, InitSerial DEF StartInit, StartSerialInv, BootAlone
<1>2. StartSerialInv /\ [StartNext]_startVars => StartSerialInv'
  BY StartSerialStep
<1> QED
  BY <1>1, <1>2, PTL DEF StartSpec

\* The register is implemented by the whole process too, when requests come
\* one at a time: the client opened at start-up becomes DbClient while nothing
\* else is open in its place, and the deferred Close shuts or gives up one
\* client.
THEOREM ProcessRefinesRegister ==
    ASSUME SerialClients
    PROVE  StartSpec => ImplementsRegister
<1>1. StartSerialInv /\ [StartNext]_startVars => [Register!Next]_<<Bound, OpenClients>>
  BY StartSerialStep DEF RegisterStep
<1>2. StartInit => Register!Init
  BY InitRegisters DEF StartInit
<1> QED
  BY <1>1, <1>2, StartSerialInvariance, PTL DEF StartSpec, ImplementsRegister, Register!Spec

\* The start-up takes at most 2 * RetryCount + 4 steps, for any number of retries.
THEOREM StartupBounded == StartSpec => StartupShrinks
<1>1. ASSUME StartInv, StartNext, boot.pc \notin {"serving", "exited"}
      PROVE  StepsLeft' \in Nat /\ StepsLeft' < StepsLeft
  <2>1. PICK retries \in 0 .. RetryCount : boot.retries = retries
    BY <1>1 DEF StartInv, BootInv, BootRecord
  <2>2. RetryCount \in Nat /\ boot \in BootRecord
    BY <1>1, StartupAssumption DEF StartupAssumption, StartInv, BootInv
  <2>3. Boot
    BY <1>1 DEF StartNext, Running, Shutdown
  <2>4. CASE initClient
    <3>1. StepsLeft = 2 * RetryCount + 4
      BY <2>4 DEF initClient, StepsLeft
    <3>2. \/ boot'.pc \in {"listen", "exited"}
          \/ boot'.pc = "test" /\ boot'.retries = retries
      <4>1. \/ boot' = [boot EXCEPT !.pc = IF boot.given = "nothing" THEN "listen" ELSE "exited"]
            \/ \E c : boot' = [boot EXCEPT !.pc = "test", !.cl = c]
        BY <2>4, Zenon DEF initClient, GoBoot
      <4> QED
        BY <2>1, <2>2, <4>1 DEF BootRecord
    <3>3. StepsLeft' = 1 \/ StepsLeft' = 0 \/ StepsLeft' = 2 * retries + 3
      BY <3>2 DEF StepsLeft
    <3> QED
      BY <2>2, <3>1, <3>3
  <2>5. CASE testClient
    <3>1. StepsLeft = 2 * retries + 3
      BY <2>1, <2>5 DEF testClient, StepsLeft
    <3>2. \/ boot'.pc \in {"objects", "listen", "exited"}
          \/ boot'.pc = "delay" /\ retries > 0 /\ boot'.retries = retries - 1
      BY <2>1, <2>2, <2>5 DEF testClient, testFailed, GoBoot, BootRecord
    <3>3. \/ StepsLeft' = 2 \/ StepsLeft' = 1 \/ StepsLeft' = 0
          \/ retries > 0 /\ StepsLeft' = 2 * (retries - 1) + 4
      BY <3>2 DEF StepsLeft
    <3> QED
      BY <2>2, <3>1, <3>3
  <2>6. CASE retryAfterDelay
    <3>1. StepsLeft = 2 * retries + 4
      BY <2>1, <2>6 DEF retryAfterDelay, StepsLeft
    <3>2. boot'.pc = "test" /\ boot'.retries = retries
      BY <2>1, <2>2, <2>6 DEF retryAfterDelay, GoBoot, BootRecord
    <3>3. StepsLeft' = 2 * retries + 3
      BY <3>2 DEF StepsLeft
    <3> QED
      BY <2>2, <3>1, <3>3
  <2>7. CASE checkObjects
    <3>1. boot.pc = "objects" /\ boot'.pc \in {"exited", "listen"}
      BY <2>2, <2>7 DEF checkObjects, GoBoot, BootRecord
    <3>2. StepsLeft = 2 /\ StepsLeft' \in {0, 1}
      BY <3>1 DEF StepsLeft
    <3> QED
      BY <3>2
  <2>8. CASE startServer
    <3>1. boot.pc = "listen" /\ boot'.pc \in {"serving", "exited"}
      BY <2>2, <2>8 DEF startServer, GoBoot, BootRecord
    <3>2. StepsLeft = 1 /\ StepsLeft' = 0
      BY <3>1 DEF StepsLeft
    <3> QED
      BY <3>2
  <2> QED
    BY <2>3, <2>4, <2>5, <2>6, <2>7, <2>8 DEF Boot
<1> QED
  BY <1>1, StartupInvariance, PTL DEF StartSpec, StartupShrinks
=============================================================================
