# pgweb: a verification project

pgweb is a web page for PostgreSQL: a Go server with an HTTP API under `pkg/`
and a browser page under `static/`. This directory holds TLA+ modules of the
server's stateful parts and of the page, TLC configurations that model-check them on small
instances, and theorems with machine-checked proofs. Paths below are relative
to the repository root (`src/` here).

    tlc -workers 2 -config MCApi.cfg MCApi.tla           # one run
    tlapm ApiProofs.tla                                    # one proof module

`PROJECT.json` lists every run, the property it checks, a plausible bug
("mutant") that would break each property, the source lines each definition
stands for, the hazards of the code, and the findings.

## 1. The system

### Components

| component | code | state | operations |
|---|---|---|---|
| API | `pkg/api/api.go`, `middleware.go`, `helpers.go`, `routes.go` | `DbClient`, `DbSessions`, `QueryStore` (package variables) | one goroutine per request: `dbCheckMiddleware`, then a handler |
| sessions | `pkg/api/session_manager.go` | map id → client, a mutex, the idle timeout | `Get`, `Add`, `Remove`, `Cleanup`, and the goroutine of `RunPeriodicCleanup` |
| client | `pkg/client/client.go` | pool, tunnel, `closed`, `readonly`, `lastQueryTime`, `History` | `NewFromUrl`, `NewFromBookmark`, `Test`, `Info`, `Query`, `SetReadOnlyMode`, `Close`, `IsIdle` |
| tunnel | `pkg/client/tunnel.go`, `pkg/connection/port.go` | SSH client, listener, accept goroutine, a local port | `NewTunnel`, `Configure`, `Start`, `Close` |
| startup | `pkg/cli/cli.go`, `pkg/command/options.go` | options, the first client, retries left | `ParseOptions`, `initClient`, `testClient`, `startServer`, `handleSignals`, the deferred `Close` |
| connect backend | `pkg/connect/` | none | `FetchCredential` over HTTP |
| bookmarks | `pkg/bookmarks/` | files | `ReadBookmarks`, `GetBookmark`, `ConvertBookmarkToOptions` |
| local queries | `pkg/queries/` | files, a cache by path | `ReadAll`, `Read`, field matching |
| connection strings | `pkg/connection/connection_string.go` | none | `BuildStringFromOptions`, `FormatURL` |
| results, export, SQL text | `pkg/client/result.go`, `dump.go`, `util.go`, `pkg/statements/` | none | conversions, running `pg_dump` |
| browser page | `static/js/app.js` | current object and tab, pager, list of schemas, what is displayed | asynchronous API calls and their callbacks |
| editor, query encoding | `static/js/app.js`, `static/js/base64.js`, `pkg/api/helpers.go` | text, cursor, selection, the draft in `localStorage` | `getEditorSelection`, `getSubquery`, `exportTo`, `cleanQuery`, `desanitize64`, `HandleQuery` |
| metrics, logging | `pkg/metrics/`, `pkg/api/logger.go`, `pkg/util/` | counters | write-only |

### Interaction

Requests meet only in shared state. Every handler calls `DB(c)`, which finds the
client of the session named by `x-session-id` (or `DbClient`); three handlers
(`Connect`, `SwitchDb`, `ConnectWithBackend`) open a client and install it with
`setClient`; `Disconnect` and the worker of the session manager remove one. The
session map has a mutex; `DbClient`, a client's fields and its history have none.
A client talks to the server through a pool of connections and, when it was
opened with SSH settings, through a tunnel that listens on a local port until the
client is closed. The page sends requests without waiting for earlier ones. The
start-up opens and tests one client before the server listens, stores it in
`DbClient`, and closes that same client when the process ends.

### What is hard

* `setClient` reads the session's client, closes it and stores another in three
  steps, and the handlers around it work on clients they read earlier: two
  requests of one session, or a request and the worker, interleave anywhere.
* Clients own resources (pool, tunnel, port) and every early return has to give
  them back.
* The worker removes sessions from a snapshot while requests replace clients.
* Some handlers call `DB(c)` twice and assume one client; all assume non-nil.
* Read-only mode is the default of a connection's transactions, kept by three
  statements on connections of a pool, and what users leave open in a block stays.
* A statement may fail after its first rows were read.
* A free port is found by a probe and listened on later.
* The start-up retries, and leaves or keeps its client by how the test failed.
* Callbacks on the page draw over whatever is there by the time they run.
* Which statement of the editor is run is found by one pass with two indices, and
  an export's query goes through two hand-written conversions.

### What makes each component correct

* sessions and API: a client belongs to one session, and only that session's
  requests or the worker close it; a session is never left with a closed client;
  a client is closed before a session lets go of it; an answer of success means
  the session has the new, open client; a locked session keeps its connection;
  clients of a connect backend are not listed or switched; idle sessions go.
* client: in read-only mode the default is on for every query, so that what writes
  has set its own mode; the history holds what was answered, once; the session's
  clients are reachable after a switch.
* tunnel: a client dials its own tunnel; a failure part-way leaves nothing; the
  goroutine of a closed tunnel ends.
* startup: it ends, whatever the server answers; the client it keeps is open.
* page: what it displays belongs to the last thing the user asked for; its list
  holds everything once; the pages of a table show each row once.
* editor: the statement run is the one at the cursor, what reaches the server is
  what was in the editor, and the draft survives a reload.

## 2. The modules

| module | what it is |
|---|---|
| `ClientLifecycle` | a client as a record (open, idle, external, its tunnel's port, the port its connection string names); constructors, `Close`, `TouchUsage` |
| `SessionManager` | extends it with the session map, `stale` (the snapshot `Cleanup` works on) and the manager's methods |
| `Api` | extends that with requests, both modes, every handler that touches shared state, the worker, time, and the properties |
| `SessionRegister` | the abstract specification: a register of sessions, each with at most one live connection |
| `HandlerReads` | `Api` with two history variables that watch the moments between a handler's looks at its session, and the two properties about them |
| `ApiInvariant`, `ApiProofs`, `HandlerProofs` | the inductive invariants of `Api` and the proofs: of sessions and clients first, then of ids, backends, locks and overlapping requests, then of requests one at a time, and the refinement |
| `ClientQuery`, `ClientQueryProofs` | queries of concurrent requests inside one client: pool, read-only mode, transaction blocks, history |
| `Tunnel`, `TunnelProofs` | `NewFromUrl`'s tunnel step by step, its accept loop and close, several callers and other programs on the same ports |
| `Startup`, `StartupProofs` | the process around `Api`: the client opened and tested at start-up, retries, the signal that ends it |
| `Pagination` | the arithmetic of pages on both sides |
| `Page`, `PageProofs` | the browser page: what the user does, the calls pending, and the callbacks that draw their answers; uses `Pagination` |
| `QueryCodec`, `QueryCodecProofs` | a query on its way to the server, as operators on sequences of bytes, and what they do to a query of any length |
| `Editor`, `EditorProofs` | the query editor, its scan for a statement, its draft; uses `QueryCodec` |
| `MCApi`, `MCReads`, `MCStartup`, `MCClientQuery`, `MCTunnel`, `MCPage`, `MCEditor` | instances for TLC: model values, lines, symmetry |

### Api: state and steps

`sessions[id]` is `SessionManager.sessions`, with `NoClient` for an absent key;
`DbClient` is the package variable; `client[c]` is the object `c` on the heap.
`Clients` is a set of such objects: one that is closed and that nothing refers to
is garbage, and `Allocatable` lets it be taken again, which is what keeps the
state finite without limiting how many clients are opened in a behaviour.
`req[r]` is a request goroutine: `pc` names its next step, the other fields are
the handler's local variables, cleared when it answers. A goroutine then serves
another request, so the number of requests in a behaviour is unlimited and
`Requests` bounds only how many run at once.

A handler is cut where it touches shared state or waits for the network:

| handler | steps |
|---|---|
| any but connect, history and the backend route | `DbCheck`, then the handler |
| `RunQuery`, `GetObjects`, ... (`"query"`) | `StartQuery`, `QueryDone` |
| `GetTableRows`, `RunLocalQuery` | `StartQuery`, `QueryDone`, `RereadDB`, `QueryAgainDone` |
| `GetDatabases` | `GetDatabases` (the check of `External`), `RereadDB`, `QueryAgainDone` |
| `GetHistory` | `GetHistory` |
| `Connect`, `SwitchDb`, `ConnectWithBackend` | `Refused`, or open, `TestClient`, `InfoClient`, `ReadCurrent`, `CloseCurrent`, `StoreSession` or `StoreDbClient` or `StoreRefused`, and for a switch `CloseOld` |
| `Disconnect` | `Refused`, `DisconnectSession`, or `DisconnectRead`, `DisconnectClose`, `DisconnectClear` |

`ConnectWithBackend` has no test step and draws an id; `getSessionId` answers the
first header, so `EffectiveSid` keeps an id the request came with. A handler that
dereferences nil ends in `"panic"` (gin's recovery answers). Two abstractions are
made here and undone in a module of their own: a query is a success or a failure
(`ClientQuery`), and opening a tunnel is one step (`Tunnel`).

`HandlerReads` conjoins two variables to `Api!Next` that no step reads: `replaced`,
the requests between two calls of `DB(c)` whose session another request stored a
client for since the first, and `ended`, the requests behind `dbCheckMiddleware`
whose session the worker or another request's disconnect took away since the check.

Time is `TimePasses`: any open client may become idle, and stops being so when a
query of it returns, since `lastQueryTime` is written by a deferred function.

### Startup

`boot` is the goroutine of `Run`: its step, what the options give it (`nothing`
under `--sessions`, since `ParseOptions` clears URL, host and bookmark,
`options.go:135-143`; options; a bookmark), whether a database was named
(`usingDefaultDB`), the client it opened and the retries left. `initClient`,
`testClient`, `retryAfterDelay`, `checkObjects` and `startServer` are the steps
before the server listens; `Running` is a step of `Api`, and `Shutdown` runs the
deferred `Close`. `testFailed` has the three ends of a failed test: without a
database name the start goes on and the client stays open and unreferenced;
a refusal is retried; anything else ends the process. The deferred call holds on
to the start-up client, so `Running` never takes that object again.

### ClientQuery

`conns` is database/sql's pool (external, modelled from how `client.go` uses it
and how that library documents it): a statement takes an idle connection or opens
one, and at most `MaxIdle` idle ones are kept. A connection has the default mode of
its transactions (`readonly`) and the block a user left open on it (`block`), both
of which go back to the pool with it. `SHOW`, `SET` and the query are
separate statements (`ShowMode`, `SetMode`, `RunQuery`), each with an `Acquire` of
its own; in an aborted block `SHOW` fails (`ModeFails`).

A query is one of nine kinds, by what `containsRestrictedKeywords` and the server
make of it. Only `"update"` has a restricted keyword. `"alter"` writes without one
and is refused by a read-only transaction; `"writeBlock"` and `"beginWrite"` set
the mode of their own transaction and are refused by nothing, which is what
`cli.go:31-36` warns of: the mode that `client.go:426` sets is only a default.
`"setOff"` turns that default off, `"begin"` and `"end"` open and close a block,
`"selectAlter"` is two statements. Which mode a query runs in (`Mode`), what it
leaves (`BlockAfter`, `DefaultsAfter`) and what a failure leaves are PostgreSQL's
rules (external). A rollback takes a `SET` of its block with it, to a default the
model does not keep: both are possible then.

A statement fails before its first row (`QueryFails`: an error), after it
(`QueryCutShort`: no error, as nothing reads `rows.Err()`), or with its connection
(`StatementLost`: either). `answered` has the queries for which `Query` returned no
error, `succeeded` those the server carried out to their end, `written` the modes of
the transactions that changed the database: history variables, like `alone`, which
is true as long as no two requests overlapped and no idle connection was lost.

`History` is a slice: `append` writes
past the slice that was read, into a new array or into one that a longer slice
shares (`OverwriteRecord`, `SaveHistory`).

### Tunnel

`owner[p]` says who listens on a port, other programs (`Stranger`) included;
`tun[o]` is a call of `NewFromUrl` and the tunnel it makes. A tunnel object that
nothing runs any more is used again by `Begin`.

### Page

`object`, `tab`, `stored`, `layout` and `pager` are `currentObject`, the selected
tab, the tab in `sessionStorage`, the class of `#body` and the data of
`.current-page`; `shown` is what `#results` displays. `pending` holds the calls not
answered yet, oldest first; every click that ends in `apiCall` appends one, and
`Answer(i)` runs the callback of the one at position `i`, with an answer, an error or
the error a timeout is turned into. The panels differ in when they switch the tab:
`showTableStructure`, `showActivityPanel` and `runQuery` do it at once, the others in
their callback (`LateTabs`). The callback for a function's structure takes the
answer apart before it looks for an error: an error answer throws, and nothing is
drawn (`StructureAnswered`). `astray` is a history variable, set when an answer for
one object comes before one to an older call for another, or when an answer drew
nothing; selecting an object clears it.

`listed` counts how often `#objects` lists the schemas. `loadSchemas` clears the
list and asks for the schemas, their answer asks for the objects, and that one's
answer appends; the start-up, a connect, a query that creates or drops, a deleted
table and a button each start a load. `overlap` is a history variable: the last
load began while another was pending. The context menus of tables and of rows are
`performTableAction` and `performRowAction`; a stopped query shows the activity
panel from a timer (`ActivityTimer`) whatever the user does by then.
`SwitchDatabase`'s answer reloads the page. The page is not composed with `Api`:
what the server answers is a choice here, and what a page sends is a choice there.
`OneConnect` is the part of `SerialClients` that the page does ensure.

### Pagination

`Offset` is what the page asks for; `TableRows`, `NumPages` and `PageNumber` are
what the server makes of it, with Go's rounding division. `PagesCover` is the
reference: every row on exactly one page, no page empty, and the number that comes
back is that of the page asked for. `Page` ties it to the pager (`PagesCoverTable`):
whatever number of pages a pager was told, a table of that many pages is covered;
`MaxRows` bounds the tables that TLC tries.

### Editor and QueryCodec

`text` is the lines of the editor, each a sequence of UTF-16 code units, and
`cursor` and `selection` are rows. `Run(op)` is a click on Run, Explain or an
export: a selection or a text with a `;` is sent at once, otherwise `getSubquery`
looks at one row a step (`BlankRow`, `QueryRow`) with the indices and ranges of the
code in `scan`, and `ScanDone` highlights the statement and sends it. Nothing
happens during a scan, as JavaScript has one thread. `timer` is the wait of a
second before the draft is written to `localStorage` (`saved`), and `calls` the
local queries being loaded over the text. `QueryCodec` follows a query from there:
`encodeQuery` with the page's own `_utf8_encode` and base64 for an export, a plain
form field otherwise, then `cleanQuery` and `HandleQuery` on the server, to the
bytes PostgreSQL is given; `Utf8Text` is how it reads them. Surrogates are outside
`LinesAssumption`: see section 6.

## 3. The runs

| run | instance | checks |
|---|---|---|
| `sessions` | `Api` with sessions on, 2 concurrent requests, 1 browser id and 1 drawn id, 3 clients, requests of one session overlap | `NoSharing`, `ClosedOnlyWhileReplaced`, `ListNeverExternal`, `ClosedOnlyByOwnSession`, `ConnectedIsOpen`, `ForgetsOnlyUnread` |
| `single` | `Api` in `DbClient` mode, 2 concurrent requests that overlap as they like, 3 clients | `ConnectedIsOpen`, `ForgetsOnlyUnread` |
| `startup` | the process in `DbClient` mode, 3 clients, 2 ports, 1 retry, requests one at a time, fairness | `TypeOK`, `ImplementsRegister`, `StartupEnds`, `StartupShrinks` |
| `locked` | `HandlerReads` under `--lock-session`, with 1 browser id and 2 drawn ids, requests overlap, backend requests with a session's id, 2 clients, fairness | `LockedKeepsClient`, `IdleIsReclaimed`, `ReadsDifferOnlyIfReplaced`, `PanicsOnlyIfEnded` |
| `query` | read-only, 2 requests that may overlap, 2 connections that may be lost, queries `"selectAlter"`, `"writeBlock"` and `"end"` | `HistoryAnswered`, `HistoryUnique`, `DefaultForced`, `AbortedStays` |
| `tunnel` | 3 calls, 2 ports, other programs, fairness | `DialsOwnTunnel`, `FailedLeavesNothing`, `LoopEnds` |
| `page` | 1 table, 1 function, 2 calls pending and answered in any order, 2 pages; tables of up to 9 rows | `TypeOK`, `PagesCoverTable`, `ListedOnce`, `PaginationOnlyOnRows`, `SettledShowsObject`, `SettledPager`, `OneConnect`, `WaitsForCall` |
| `editor` | every text of up to 3 lines of 3 kinds, 1 local query loading | `TypeOK`, `ScanFindsChunk`, `DraftIsKept`, `QueryArrives`, `RunAgainIsSame` |
| `leak_on_failed_test`, `switch_tunnel`, `readonly_pool`, `history_cut_short` | | each finds one counterexample, see section 6 |

Why the bounds are enough. Two requests are enough for every race the properties
speak of (all of them are between two handlers, or a handler and the worker, which
is an actor besides), and each serves any number of requests in turn. Three
clients are one that each request sets up and the one the session has: only then
can a switch be overtaken by a connect and close what it read at its start when the
session has another client by then. In `sessions` `GetDatabases` stands for the handlers that read
`DB(c)` twice; what the others do between the two reads concerns the client alone. In `locked` it is `GetTableRows`, as every client there is
a backend's, which `GetDatabases` refuses; the request that stores between two reads
is another backend's, and the theorems say the same of connects and switches.
Every safety property of a run
that passes is proved for all constants besides (section 4). Ids are interchangeable, and two
distinguish "own session" from "another's". One port makes the range run out, two
make the search matter. One retry is enough to go round the loop and to run out.
Two connections are as many as two requests can have busy. The three kinds of query
of `query` are one whose rows may be cut short and that writes in the default mode,
one that sets its own mode, may turn the default off by a rollback and may leave an
aborted block, and the one that could end that block; more kinds make more histories
than can be searched, and the theorems hold for all nine. The page overtakes
itself as soon as two calls are pending, and with a table and a function it has an
object to leave and one to go to. The editor's three lines are a blank one and two
others whose characters are the ends of UTF-8's one-, two- and three-byte ranges, a
comment's dashes and a delimiter among them; three rows have a first, a last and
one between. Nine rows and limits up to nine have full and part-full last pages.
Symmetry is used for request, session and client identities in the runs without a
liveness property; `startup`, `locked`, `tunnel`, `page` and `editor` use none.

Restrictions of an instance that are not bounds.

* `SerialClients`, in `startup`: the requests of one session do not
  overlap. That is a condition on the environment, not something the code ensures,
  and it is asked for one property only, `ImplementsRegister`: of two connects of one
  session that overlap, the code forgets one client (`setClient` does not look again
  after it has closed the old one). How far that goes with overlap is what
  `ForgetsOnlyUnread` says. Everything else about requests and sessions is checked
  with overlap. TLC checks the register in `DbClient` mode, from the start-up on;
  that sessions and the worker implement it too is proved.
* `HeaderOnConnect = FALSE`, in `sessions`: the backend route is reached by a browser
  navigating to it, which cannot set a header. Nothing in the code ensures it
  (`api.go:94` takes whatever id comes), and one property needs it,
  `ListNeverExternal`: with an id, the route may install a backend's client between
  `GetDatabases`'s check of `External` and its list. `locked` has it
  `TRUE`, and `LockedKeepsClient` says what such a request may do.
* `alone`, the hypothesis of `DefaultForced`, `AbortedStays` and `HistoryUnique`: no two
  requests overlapped and no idle connection was lost so far. `readonly_pool` shows what
  the overlap does to the first; the repeated and lost records of the history under
  overlap are in the model and no property forbids them.
* `overlap` in `ListedOnce` and `astray` in `SettledShowsObject` and `SettledPager`: the
  excepted cases are those in which the page goes wrong (section 6). The order of
  the answers is free in all runs.

With `--sessions` no client exists at first. In `Startup` none exists either until
`initClient` opens it.

Deadlock is checked in every run but `startup`, where the process exits: elsewhere a
request, or the user, can always act.

Fairness. `HandlerReads!FairReadsSpec` asks weak fairness of `Worker` only: `RunPeriodicCleanup`
loops for as long as the process runs. Nothing is asked of requests, whose
handlers may wait for a server for ever. `Tunnel!FairSpec` asks it of a `Close`
that has begun, and of a blocked `Accept` whose listener was closed, which the
Go runtime ends. `Startup!StartSpec` asks it of the start-up's own steps. Nothing else runs yet, and
their calls return: `Test` within 10 seconds, the query of `Objects` within the query
timeout, the delay between retries by a timer. Two do not end by themselves, the
`SHOW` and `SET` of read-only mode, which have no context (`client.go:421-426`), and
every query under `--query-timeout 0`; there the fairness stands for a server that
answers, or a connection that breaks.

### Refinement

`ImplementsRegister` is `SessionRegister!Spec` under `bound <- sessions` (or
`DbClient`) and `opened <- the open clients`. The abstract steps are: a connection
no session has is opened or given up (`SetUp`), a session whose connection is shut
gets an open one (`Bind`), and a session's connection is shut, its end included
(`Shut`). There is no step by which a session lets go of an open connection, so the
property says that `setClient`, `Disconnect` and the worker never forget one, that
nothing is bound twice, and that nothing shut is installed. It is checked in
`startup`, from the start-up to the end of the process, and proved in both modes. (A client that
never reached a session may stay open in the abstract
specification: that is the leak of section 6.)

## 4. What is proved

All theorems hold for every value of the constants under the named assumptions
(`ClientAssumption`, `SessionAssumption`, `ApiAssumption`, `StartupAssumption`,
`QueryAssumption`, `TunnelAssumption`, `PageAssumption`, `LinesAssumption`,
`BoundsAssumption`), which only say that `NoClient` is no client, that ports are
numbers, which options go together, that lines hold no line ends, and the like. TLC
evaluates them in every run. Conditions beyond that are hypotheses of the theorem,
each explained in section 3; the third column names them.

| theorem | property | assuming |
|---|---|---|
| `ApiProofs!TypeCorrect` | `TypeOK` | |
| `ApiProofs!SessionsShareNothing` | `NoSharing` | |
| `ApiProofs!NoSessionLeftClosed` | `ClosedOnlyWhileReplaced` | |
| `ApiProofs!SessionIsolation` | `ClosedOnlyByOwnSession` | |
| `HandlerProofs!BackendsNotListed` | `ListNeverExternal` | `~HeaderOnConnect` |
| `HandlerProofs!LockHolds` | `LockedKeepsClient` | |
| `HandlerProofs!ConnectedClientOpen` | `ConnectedIsOpen` | |
| `HandlerProofs!ForgetsUnread` | `ForgetsOnlyUnread` | |
| `HandlerProofs!ReadsDiffer` | `ReadsDifferOnlyIfReplaced` | |
| `HandlerProofs!PanicsAfterEnd` | `PanicsOnlyIfEnded` | |
| `HandlerProofs!RefinesRegister` | `ImplementsRegister`, of the handlers and the worker | `SerialClients` |
| `StartupProofs!StartupInvariance` | `StartInv`, with `ApiInv`, of the whole process | |
| `StartupProofs!ProcessRefinesRegister` | `ImplementsRegister`, from the start-up to the end of the process | `SerialClients` |
| `StartupProofs!StartupBounded` | `StartupShrinks`: at most 2 * `RetryCount` + 4 steps | |
| `ClientQueryProofs!DefaultStaysForced` | `DefaultForced` | |
| `ClientQueryProofs!AbortedBlocksStay` | `AbortedStays` | |
| `ClientQueryProofs!HistoryOnlyAnswered` | `HistoryAnswered` | |
| `ClientQueryProofs!HistoryWithoutRepeats` | `HistoryUnique` | |
| `TunnelProofs!OwnTunnel` | `DialsOwnTunnel` | |
| `TunnelProofs!NothingLeft` | `FailedLeavesNothing` | |
| `PageProofs!PageTypes` | `Page!TypeOK` | |
| `PageProofs!PagerOnItsTab` | `PaginationOnlyOnRows` | |
| `PageProofs!CallsToWaitFor` | `WaitsForCall` | |
| `PageProofs!OneConnectAtATime` | `OneConnect` | |
| `PageProofs!SchemasOnce` | `ListedOnce` | |
| `PageProofs!EveryTablePaged` | `PagesCover` for every number of rows and every limit | |
| `PageProofs!PagerCoversTable` | `PagesCoverTable` | |
| `PageProofs!SettlesOnObject` | `SettledShowsObject` | |
| `PageProofs!SettlesPager` | `SettledPager` | |
| `EditorProofs!EditorTypes` | `Editor!TypeOK` | |
| `EditorProofs!ScanIsRight` | `ScanFindsChunk` | |
| `EditorProofs!RunAgain` | `RunAgainIsSame` | |
| `EditorProofs!DraftStays` | `DraftIsKept` | |
| `EditorProofs!QueryReaches` | `QueryArrives` | |
| `QueryCodecProofs!ExportArrives` | for every query: encoded for an export, cleaned, put back, decoded and read, it is unchanged | |
| `QueryCodecProofs!ExplainIsNotDecoded` | for every form value: Explain executes it as it is, less its comments | |
| `QueryCodecProofs!Base64Survives` | for every query: its encoding is base64 and decodes to its UTF-8 | |
| `QueryCodecProofs!Utf8IsRead` | for every query: the page's UTF-8 is read as the query | |
| `QueryCodecProofs!GroupSurvives` | three bytes survive base64 both ways | |
| `QueryCodecProofs!NoLeadingDash` | a group of base64 digits starts with a letter or a digit, so no export is taken for a comment | |
| `QueryCodecProofs!UnitIsUtf8` | each code unit but a surrogate is written as UTF-8 | |

**Api.** That no session shares a client is not inductive: a handler stores a
client it has had in a local variable through several steps of others. `ApiInv`
adds which locals are set at which step (`LocalsSet`); that a client under
construction is open, installed nowhere and in no other request's locals
(`BuildingFresh`); that a client some request read with `DB(c)` is in no session
but that request's own (`StaysHome`), which is why a stale local can never hit
another session; and that the client `SwitchDb` started from is in no session by
the time it is closed again (`OldGone`). `ApiProofs` has a lemma per action, and
one lemma per way of changing shared state (allocate, close, store, only locals)
that the actions cite. `SessionIsolation` is an action property and follows from
the invariant in the unprimed state.

**Ids, backends and locks.** That a listing never meets a backend's client is a
matter of ids: the check of `External` and the query are two reads of the session,
and what could come between them is the backend route storing its client under the
same id. `IdInv` adds to `ApiInv` which handlers have which steps (`StepsApart`),
that a drawn id is one request's own until the browser is told (`DrawnApart`), and
that no session has such an id before (`UntoldEmpty`). A request of the browser thus
never names an id that the route is about to store under, and `BackendsApart` (a
backend's client is set up by that route only; a session being listed has none) is
inductive on top of it. For `LockedKeepsClient`, `OnlyBackendBuilds` says that under
`--lock-session` nothing but the backend route sets up a client, that no request is
at a step of a switch or a disconnect, and that of the backend's requests only one
that brought an id of its own has a client to replace: a drawn id has none
(`UntoldEmpty`).

**Requests that overlap.** Three properties are about what a handler has read by the
time it acts. `OldForgotten` next to `ApiInv` says that `DbClient` is not the client
`SwitchDb` started from when its last line closes that one, and `BuildingFresh` that
the client to be stored is still open: `ConnectedClientOpen`. `ReadShut` says that the
client a request is about to replace, or to forget, is shut if the request has read
it; so an open one that is let go of was stored after the read: `ForgetsUnread`.
`ReadsInv` is `IdInv` with what the two variables of `HandlerReads` stand for
(`ReadsWatched`): between two reads the session has the client of the first, or none,
or another request stored one; behind the check it has a client, or was ended. Every
action has to be looked at for both, which is where it matters that `setClient`
never leaves a session without a client.

**Requests one at a time.** `SerialInv` is `IdInv` with two parts: no two requests of
one session are active (`OneAtATime`), and the client a handler read is still its
session's, or the session has ended, or the client is shut by the time the handler
stores its own (`ReadsStay`). The worker interferes all along: it may end the session
between any two steps, which is why each clause has that way out. `OneAtATime` needs
`DrawnApart`, since the backend route joins a session in the middle of its handler.

**The refinement.** `RefinesRegister` maps each step. The lemmas `CloseIsShut`,
`AllocateIsSetUp`, `StoreIsBind`, `RemoveIsShut`, `ClearIsShut` and `UsageIsStutter`
say which abstract step each way of changing `sessions`, `DbClient` and the clients
is, and under which facts; `ServeRegisters` goes through the steps of the handlers
and finds those facts in `SerialInv`. Two are the heart of it: a client about to be
stored is open and bound to nobody (`BuildingFresh`), and what it replaces, or what
`Disconnect` forgets, is shut (`ReadsStay`). `ProcessRefinesRegister` adds the steps
of the start-up and the deferred `Close`; `StartSerialInv` says for it that nobody has
a client before the server listens and that the one being tested is open
(`BootAlone`), so that `checkObjects` installs an open client where there was none.

**ClientQuery.** `ModeInv` says that a busy connection belongs to one request
(`Busy`), that while `alone` there is one request at work and one connection
(`OneRequest`, `OneConn`), and that no block was begun under a default that is off and
a query about to run gets a connection whose default is on (`Forced`). `OneConn`
carries the argument: `SHOW`, `SET` and query hit
the same connection because the pool has no other and keeps it in between
(`MaxIdle` is at least 1). A query may turn the default off, but the next begins with
`SHOW`, and no transaction is begun in between: so whatever writes, set the mode of
its transaction itself. `AbortedStays` is the other side of it: in an aborted block
`SHOW` fails (`Ready`), so the user's `ROLLBACK` is not run. `HistoryInv` needs no such
condition: what is in the history, in a slice read from it or on its way into it was
answered. `UniqueInv` is
`ModeInv` with: while `alone`, a query that `hasHistoryRecord` did not find is still
not in the history when it is appended, and the slice read for the append is still
the history (`NewOf`), so that nothing is written into a shared array.

**Tunnel.** `TunnelInv` ties the ports to the listeners (`PortsAccounted`) and says
what a tunnel consists of at each step (`Stages`).

**Startup.** `StartInv` is `ApiInv` with what each step of the start-up implies
(`BootInv`: no request before the server listens, nothing to open with sessions)
and that no request sets up the client the deferred `Close` will close
(`HeldApart`). The steps of `Api` are not proved again: its lemmas are cited.
`StartupBounded` counts the steps that are left: a test takes
the process on, or out, or to a delay with a retry less.

**Page.** `PageInv` adds to the properties that a pending call for rows asks for a
page of a table and that the Connect button is disabled while a connect call is
pending (`CallsOK`), and that without `overlap` one load is pending and the list is
empty until it ends (`OneLoad`). `Removed` says what taking a call out of the
middle of the pending ones leaves, so all proofs hold for answers in any order.
`SettledInv` adds that, unless answers went `astray`, whatever is
pending or shown for an object left since is followed by a call for the selected
one (`ObjectFollows`), and that a pager that was turned waits for its page, or for
the answer that takes the pagination away (`PagerFollows`). An answer out of order
keeps `ObjectFollows` when only calls for its own object came before it
(`Overtakes`). `WaitsForCall` is inductive next to `PageInv`: of the calls pending
all but the one answered stay (`Outlived`), and an answer to a query, or to a connect
call, ends the wait.

**Pagination.** `Division` and `Monotone` bound a quotient; `CountedPages` says how
many pages `NumPages` counts, and `EveryTablePaged` names the page each row is on.
`PagerCoversTable` is that theorem for the tables a pager can have been told of.

**Editor.** `ScanInv` says where the current statement starts, that no statement
passed so far was at the cursor, and what the first range kept is; `RanInv` that a
run started now would choose the rows last run. Both are for any number of lines.

**Query codec.** `QueryReaches` needs of the editor only its `TypeOK`: a query that
is sent has no surrogates and no `\r`. The rest is about the operators of
`QueryCodec`, for text of any length.

* *Induction.* What a fold does to every sequence takes an induction, and the
  library's rules have an operator for a parameter. `LeastElement` derives from the
  cardinality of intervals that a set of numbers has a least one; `Induction` states
  the rule with a set for its hypothesis, and `Recursion` that a function given by
  its first value and its step exists. `WithoutSteps` (one element at a time) and
  `Blocks` (a flattened sequence is laid out in blocks, one behind the other) follow.
* *UTF-8.* The bytes that are no continuation are the first of each block, and no
  other (`LeadsAreFirst`), so `Leads` counts the code units, and each block is read
  as the one that `UnitIsUtf8` says it was.
* *Base64.* Cutting what is flattened gives the groups back (`CutFlattened`): every
  group but the last is three bytes and four digits. `GroupDecoded` is
  `GroupSurvives` with the padding of one or two missing bytes.
* *The form field.* The URL's 65 characters hold no white space and no line end, and
  the first is no dash (`NoLeadingDash`): `cleanQuery` splits nothing, trims nothing
  and drops nothing, and `desanitize64` puts back what `encodeQuery` replaced.
* *Explain.* The space behind `EXPLAIN` is no digit, so `HandleQuery` does not take
  the query for base64; `CleanType` and the lemmas on `Split`, `Trim` and `Join`
  before it say that cleaning leaves a string.

The strengthened invariants were checked by TLC on the instances of section 3 before
they were proved, and so was every property. Model-checked only: `IdleIsReclaimed`,
`LoopEnds` and `StartupEnds`, as liveness under fairness is out of the
proof system's reach. The safety half of the last is proved: `StartupShrinks` says
that each step of the start-up uses up some of a number. That the page's progress
message goes in the end is not stated as liveness; `WaitsForCall` says that the call
whose answer ends the wait is pending.

## 5. What is not modelled

* The SQL the server runs, result conversion, export formats, page layout: data
  that no property here tells apart.
* Basic authentication, CORS, static files, metrics, logging: no shared state of
  interest.
* A data race on `DbClient` or on a client's fields as torn values: these are
  single words, and reads and writes of them are steps.
* `Client.Close` is one step. Two closes of one client at once (`closed` is
  checked without a lock) are listed as a hazard.
* How long the manager's mutex is held: its critical sections are single steps.
* `TestWithTimeout`: its one caller asks `Info` next and answers that failure, so
  it changes nothing. The start-up uses `Test`.
* The page's connection form, the filter of its list, themes and layout; the
  third-party menu and editor components; the disabled state of the pager's buttons
  (the handlers check the numbers too); columns of a selection in the editor.
* Row counts that are estimates (100000 rows and more): the server's number is then
  no count, and `PagesCover` does not apply.
* Connections forwarded through a tunnel (`handleConnection`).
* `ParseOptions` beyond what decides whether there is something to connect to.
* Connection strings, bookmark files, field matching and metadata of local queries,
  result conversion: pure functions of their inputs, without state or interleaving.
  `ClientLifecycle` has what of a connection string matters here (the tunnel port
  it names). `pg_dump` is a process and a pipe.

## 6. Where the code and its documentation disagree

Each has a run whose counterexample TLC finds.

* `leak_on_failed_test`: `Connect` and `SwitchDb` return on a failed `cl.Test()`
  without closing the client (`api.go:168`, `api.go:261`); a failed `cl.Info()`
  does close it. Pool, tunnel and port stay until the process ends.
* `switch_tunnel`: `SwitchDb` reuses the connection string of a tunnelled client,
  which names the tunnel's local port, opens no tunnel of its own, and closes the
  old client with its tunnel (`api.go:255-278`).
* `readonly_pool`: when requests overlap, the query may get a pooled connection
  the `SET` did not (`client.go:494`).
* `history_cut_short`: the loop over `rows.Next` ends on a failure as on the last row
  and nothing reads `rows.Err()` (`client.go:538`). A query that fails, times out or
  loses its connection after its first row answers the rows it has, without an
  error, and is saved in the history of queries that did not fail (`client.go:411`).

Met while reading, in the model, without a run of their own: in read-only mode a
block that a failed statement aborted cannot be left, since the `SHOW` that comes
before the user's `ROLLBACK` fails in it, until its connection goes (`AbortedStays`);
a user leaves read-only mode with `BEGIN READ WRITE` or `SET TRANSACTION READ
WRITE`, of which `cli.go:31-36` warns in general; `HandleQuery` decodes
every query that is valid base64, whether or not the page encoded it, so that a
plain `show` or `ROLLBACK` reaches PostgreSQL as other bytes (`api.go:559`); the client
`dbCheckMiddleware` found may be gone when the handler calls `DB(c)`
(`api.go:365`), and `/api/history` is not checked at all; two overlapping
connects of one session leave the first one's client open and unreferenced; the
worker removes a session that was used again since its snapshot; a query longer
than the idle timeout counts as idleness while it runs; the backend route given a
session id installs its client under that id and redirects to the fresh one; a
single-session `Disconnect` may forget a client installed meanwhile;
`RunLocalQuery` checks the permission on one client and runs on another; a URL
without a database name is refused after its tunnel is running, which nobody closes
(`client.go:128`); with no port free, `NewFromUrl` closes a nil tunnel (`client.go:99-103`). At start-up: a test
that fails without a database name leaves its client, and its tunnel, open; a start
from a bookmark counts as one without a database name and is not retried; the
deferred `Close` closes the start-up client, not the one in `DbClient` by then.

On the page: an answer for a table or tab left since is drawn over the one selected,
by its own name, when it comes late (`SettledShowsObject` says when); an error answer
for a function's structure throws (`app.js:707`), so the rows of the table before
stay, with their pager; a query's answer that comes after the answer of a table call is drawn
on the rows tab under that table's pager; a filter refused for its missing value has
already set the pager back to page 1; server settings are shown on the rows tab, where
a click on a column sorts the selected table instead; values listed by the header's
menu lose their `query` mode because `buildTable` resets it.

Two overlapping loads list every schema twice (`ListedOnce` says when). In the
editor: the error answer of a local query empties the text, and the draft follows; with
the cursor at no statement, the last one is run if the text ends with it, and
everything otherwise; `cleanQuery` trims lines and drops those that start with `--`,
inside a string literal too, when a query is run and not when it is exported.

Outside the model: `_utf8_encode` writes a surrogate as three bytes of its own, so
an export with a character above U+FFFF is not UTF-8; every successful connect
binds the handlers of local queries again and appends them to their menu; opening
the connection window again rebuilds the bookmark options while the inputs a
bookmark disabled stay so (`app.js:1107-1140`, `1846-1858`); a second click on the
current database closes the search that the first one opened; `ALTER ... RENAME`
does not reload the list; a filter's timer runs after the filter was cleared; two
browser tabs share one draft; `--lock-session` given as a flag leaves sessions on
while the environment variable turns them off (`options.go:130`); the read-only
flag of a bookmark is lost by a switch, and `GetConnContext` does not look at it.

## 7. Plan

Done: every module of section 2 and the theorems of section 4. Next, in this order:

1. A finer `Client.Close`, composed with `Tunnel`, for concurrent closes.
2. The rest of `ParseOptions` as a function from flags and environment to options:
   which of them can be in force together.
3. Field matching of local queries, the tunnel decision of bookmarks
   (`SSHInfoIsEmpty` against the default port) and connection strings, as operators
   checked against reference definitions.
