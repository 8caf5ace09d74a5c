------------------------------ MODULE Startup ------------------------------
(***************************************************************************)
(* The life of the process around the API: the client that is opened and   *)
(* tested before the server listens, with its retries, and the signal that *)
(* ends it (pkg/cli/cli.go, pkg/command/options.go).                       *)
(***************************************************************************)
EXTENDS ApiInvariant

CONSTANT RetryCount     \* --open-retry

ASSUME StartupAssumption == RetryCount \in Nat

VARIABLE boot

startVars == <<client, sessions, stale, DbClient, req, uuids, boot>>

BootRecord ==
    [pc      : {"start", "test", "delay", "objects", "listen", "serving", "exited"},
     given   : {"nothing", "options", "bookmark"},  \* where to connect to
     named   : BOOLEAN,                \* --db or --url: not usingDefaultDB
     cl      : MaybeClient,            \* the client opened at start-up
     retries : 0..RetryCount]          \* testClient's retryCount

GoBoot(pc) == boot' = [boot EXCEPT !.pc = pc]

\* ParseOptions clears the connection details when sessions are on.
ParseOptions ==
    [given : IF Sessions THEN {"nothing"} ELSE {"nothing", "options", "bookmark"},
     named : BOOLEAN]

StartInit ==
    /\ Init
    /\ DbClient = NoClient
    /\ \E opts \in ParseOptions :
         boot = [pc |-> "start", given |-> opts.given, named |-> opts.named,
                 cl |-> NoClient, retries |-> RetryCount]

-----------------------------------------------------------------------------
\* initClient: nothing to connect to, or opening fails, or there is a client.
FirstClients ==
    CASE boot.given = "nothing"  -> {}
      [] boot.given = "options"  -> NewFromUrl(PortsInUse, NoPort, FALSE)
      [] boot.given = "bookmark" -> NewFromBookmark(PortsInUse)

initClient ==
    /\ boot.pc = "start"
    /\ \/ /\ GoBoot(IF boot.given = "nothing" THEN "listen" ELSE "exited")
          /\ UNCHANGED client
       \/ \E c \in Allocatable, new \in FirstClients :
            /\ Allocate(c, new)
            /\ boot' = [boot EXCEPT !.pc = "test", !.cl = c]
    /\ UNCHANGED <<sessions, stale, DbClient, req, uuids>>

TestErrors == {"refused", "authFailed", "noDatabase", "other"}

\* Mutant of testFailed: the retries are not counted down.
testFailedUncounted(err) ==
    CASE ~boot.named /\ err # "other" ->
             boot' = [boot EXCEPT !.pc = "listen", !.cl = NoClient]
      [] boot.named /\ err = "refused" /\ boot.retries > 0 -> GoBoot("delay")
      [] OTHER -> GoBoot("exited")

\* testClient on an error: without a database name any of the expected errors
\* lets the start go on, and the client is dropped as it is; a refusal is
\* retried; anything else ends the process.
testFailed(err) ==
    CASE ~boot.named /\ err # "other" ->
             boot' = [boot EXCEPT !.pc = "listen", !.cl = NoClient]
      [] boot.named /\ err = "refused" /\ boot.retries > 0 ->
             boot' = [boot EXCEPT !.pc = "delay", !.retries = @ - 1]
      [] OTHER -> GoBoot("exited")

testClient ==
    /\ boot.pc = "test"
    /\ \/ Reachable(boot.cl) /\ GoBoot("objects")
       \/ \E err \in TestErrors : testFailed(err)
    /\ UNCHANGED vars

\* <-time.After(retryDelay), and the loop goes round.
retryAfterDelay ==
    /\ boot.pc = "delay"
    /\ GoBoot("test")
    /\ UNCHANGED vars

\* cl.Objects() is asked before the client becomes DbClient.
checkObjects ==
    /\ boot.pc = "objects"
    /\ \/ GoBoot("exited") /\ UNCHANGED DbClient
       \/ GoBoot("listen") /\ DbClient' = boot.cl
    /\ UNCHANGED <<client, sessions, stale, req, uuids>>

\* router.Run listens, or finds the address in use.
startServer ==
    /\ boot.pc = "listen"
    /\ GoBoot("serving") \/ GoBoot("exited")
    /\ UNCHANGED vars

Boot == initClient \/ testClient \/ retryAfterDelay \/ checkObjects \/ startServer

\* While the server runs Run's deferred call holds on to the start-up client,
\* so its object is not allocated again.
Running ==
    /\ boot.pc = "serving"
    /\ Next
    /\ boot.cl # NoClient /\ ~client[boot.cl].open => ~client'[boot.cl].open
    /\ UNCHANGED boot

\* handleSignals returns and the deferred Close runs: on the client DbClient
\* held when Run started, whatever it holds now.
Shutdown ==
    /\ boot.pc = "serving"
    /\ GoBoot("exited")
    /\ IF boot.cl = NoClient THEN UNCHANGED client ELSE Close(boot.cl)
    /\ UNCHANGED <<sessions, stale, DbClient, req, uuids>>

StartNext == Boot \/ Running \/ Shutdown

\* Nothing else runs during the start-up, and its calls return: most have a timeout
\* (context(), client.go:441), but SetReadOnlyMode queries without one
\* (client.go:421-426) and --query-timeout 0 takes it from the others, so the
\* fairness stands for a server, or an operating system, that answers in the end.
StartSpec == StartInit /\ [][StartNext]_startVars /\ WF_startVars(Boot)

-----------------------------------------------------------------------------
\* However the server answers the tests of testClient (cli.go:258), the
\* start-up comes to an end: the process serves or exits, and does not retry
\* for ever.
StartupEnds == <>(boot.pc \in {"serving", "exited"})

\* The most steps the start-up may still take.
StepsLeft ==
    CASE boot.pc = "start"   -> 2 * RetryCount + 4
      [] boot.pc = "test"    -> 2 * boot.retries + 3
      [] boot.pc = "delay"   -> 2 * boot.retries + 4
      [] boot.pc = "objects" -> 2
      [] boot.pc = "listen"  -> 1
      [] OTHER -> 0

\* Whatever happens during start-up brings its end nearer: the loop of testClient
\* (cli.go:270), which is left in four places and entered again by one timer,
\* cannot go round without using up a retry.
StartupShrinks ==
    [][boot.pc \notin {"serving", "exited"} => StepsLeft' \in Nat /\ StepsLeft' < StepsLeft]_startVars

-----------------------------------------------------------------------------
(***************************************************************************)
(* The invariants behind the properties above.                             *)
(***************************************************************************)

\* No request comes before the server listens, and what start-up set where.
BootInv ==
    /\ boot \in BootRecord
    /\ boot.pc \notin {"serving", "exited"} => \A r \in Requests : ~Active(r)
    /\ boot.pc \in {"test", "delay", "objects"} => boot.cl \in Clients
    /\ boot.pc = "start" => boot.cl = NoClient
    /\ Sessions => boot.given = "nothing" /\ boot.cl = NoClient

\* No request sets up the client that the deferred Close will close.
HeldApart == \A r \in Requests : req[r].pc \in Building => req[r].cl # boot.cl

StartInv == ApiInv /\ BootInv /\ HeldApart

\* Nobody else has a client before the server listens, and the one start-up
\* works with is open.
BootAlone ==
    /\ boot.pc \in {"start", "test", "delay", "objects"} => DbClient = NoClient
    /\ boot.pc \in {"test", "delay", "objects"} => client[boot.cl].open

\* StartInv when requests come one at a time.
StartSerialInv == StartInv /\ SerialInv /\ BootAlone
=============================================================================
