-------------------------------- MODULE Page --------------------------------
(***************************************************************************)
(* The browser page (static/js/app.js): what the user does, the calls it   *)
(* sends without waiting for earlier ones, and the callbacks that change   *)
(* what is displayed when an answer arrives, by then perhaps for an object *)
(* or a tab the user has left.                                             *)
(*                                                                         *)
(* "indexes" stands for the indexes and the constraints tab, "activity"    *)
(* for the activity and the connection tab, "panel" for the history, the   *)
(* server settings and the database statistics, "statement" for truncate,  *)
(* analyze and delete of the context menus.  The names in the schema list, *)
(* the filter over them, the list of databases and the filter's columns    *)
(* are left out.                                                           *)
(***************************************************************************)
EXTENDS Pagination, SequencesExt

CONSTANTS
    Tables,         \* objects with rows: tables and views
    Functions,
    NoObject,       \* no object is selected
    MaxPages,       \* bound: the most pages the server counts
    MaxRows,        \* bound: the most rows of the tables that are paged
    MaxPending      \* bound: calls pending at once

ASSUME PageAssumption ==
    /\ Tables \cap Functions = {}
    /\ NoObject \notin Tables \cup Functions
    /\ MaxPages \in Nat \ {0}
    /\ MaxRows \in Nat
    /\ MaxPending \in Nat \ {0}

VARIABLES
    object,     \* currentObject
    tab,        \* the selected tab
    stored,     \* the tab in sessionStorage
    layout,     \* the class of #body: none ("input"), with-pagination ("paged"), full
    input,      \* the query editor is visible
    shown,      \* what #results displays
    pager,      \* the page and pages of .current-page
    progress,   \* "Please wait, query is executing..."
    window,     \* the connection window covers the page
    cancel,     \* its Cancel button is visible
    connected,
    connecting, \* its Connect button is disabled
    listed,     \* how often #objects lists the schemas
    overlap,    \* the last load of that list began during another
    later,      \* the activity panel is shown a second after a stop
    pending     \* calls not answered yet, oldest first

\* History variable, which no step reads: since the object was selected, an answer
\* for one object came before one to an older call for another, or an answer drew
\* nothing.
VARIABLE astray

selection == <<object, astray>>
display == <<tab, stored, layout, input>>
connection == <<window, cancel, connected, connecting>>
list == <<listed, overlap>>
vars == <<selection, display, shown, pager, progress, connection, list, later, pending>>

Objects == Tables \cup Functions
Tabs == {"content", "structure", "indexes", "query", "history", "activity"}
Kinds == {"rows", "structure", "indexes", "panel", "activity", "query", "unique",
          "startup", "connect", "disconnect", "schemas", "objects",
          "statement", "definition", "stop", "switch"}

Call(kind) == [kind |-> kind, object |-> NoObject, page |-> 0]

\* apiCall
Send(call) == pending' = Append(pending, call)

\* MaxPending bounds the calls that are pending.
Room   == Len(pending) < MaxPending
Usable == ~window /\ Room

Nothing == Call("none")

-----------------------------------------------------------------------------
\* The ready handler, once /info is answered.
Init ==
    /\ object = NoObject /\ astray = FALSE
    /\ tab = "query" /\ stored \in Tabs
    /\ layout = "input" /\ input = TRUE
    /\ shown = Nothing
    /\ pager = [page |-> 1, pages |-> 1]
    /\ progress = FALSE
    /\ window = TRUE /\ cancel = FALSE
    /\ connected = FALSE /\ connecting = FALSE
    /\ listed = 0 /\ overlap = FALSE /\ later = FALSE
    /\ pending = <<Call("startup")>>

\* F5, or window.location.reload: only the session storage is left.
Reload ==
    /\ object' = NoObject /\ astray' = FALSE
    /\ tab' = "query" /\ UNCHANGED stored
    /\ layout' = "input" /\ input' = TRUE
    /\ shown' = Nothing
    /\ pager' = [page |-> 1, pages |-> 1]
    /\ progress' = FALSE
    /\ window' = TRUE /\ cancel' = FALSE
    /\ connected' = FALSE /\ connecting' = FALSE
    /\ listed' = 0 /\ overlap' = FALSE /\ later' = FALSE
    /\ pending' = <<Call("startup")>>

Loads == {"schemas", "objects"}

Loading(calls) == \E i \in DOMAIN calls : calls[i].kind \in Loads

\* Mutant of loadSchemas: the list is not cleared first.
loadSchemasOver(calls) ==
    /\ UNCHANGED listed
    /\ overlap' = Loading(calls)
    /\ pending' = Append(calls, Call("schemas"))

\* With the calls that are pending otherwise.
loadSchemas(calls) ==
    /\ listed' = 0
    /\ overlap' = Loading(calls)
    /\ pending' = Append(calls, Call("schemas"))

KeepList(calls) == UNCHANGED list /\ pending' = calls

\* Mutant of setCurrentTab: the pagination is not taken away.
setTabOnly(id) ==
    /\ UNCHANGED layout
    /\ tab' = id
    /\ stored' = id

\* Pagination goes with every tab but the rows tab.
setCurrentTab(id) ==
    /\ layout' = IF id # "content" /\ layout = "paged" THEN "input" ELSE layout
    /\ tab' = id
    /\ stored' = id

\* setCurrentTab, then a class for #body.
SetTabAndLayout(id, class) ==
    /\ tab' = id
    /\ stored' = id
    /\ layout' = class

\* showTableContent and showTableIndexes up to the answer.  With no object, or
\* a function, there is an alert and no call.
showTableContent(o, page) ==
    IF o \in Tables THEN Send([kind |-> "rows", object |-> o, page |-> page])
    ELSE UNCHANGED pending

showTableIndexes(o) == Send([kind |-> "indexes", object |-> o, page |-> 0])

\* The structure tab is switched to at once.
showTableStructure(o) ==
    /\ SetTabAndLayout("structure", "full")
    /\ input' = FALSE
    /\ Send([kind |-> "structure", object |-> o, page |-> 0])

\* Mutant of ClickObject: only a tab that shows an object loads one.
ClickObjectOnTab(o) ==
    /\ Usable /\ listed > 0
    /\ object' = o /\ astray' = FALSE
    /\ pager' = [pager EXCEPT !.page = 1]
    /\ IF o \in Functions \/ stored = "structure" THEN showTableStructure(o)
       ELSE /\ IF stored = "indexes" THEN showTableIndexes(o)
               ELSE IF stored = "content" THEN showTableContent(o, 1) ELSE UNCHANGED pending
            /\ UNCHANGED display
    /\ UNCHANGED <<shown, progress, connection, list, later>>

ClickObject(o) ==
    /\ Usable /\ listed > 0
    /\ object' = o /\ astray' = FALSE
    /\ pager' = [pager EXCEPT !.page = 1]
    /\ IF o \in Functions \/ stored = "structure" THEN showTableStructure(o)
       ELSE /\ IF stored = "indexes" THEN showTableIndexes(o) ELSE showTableContent(o, 1)
            /\ UNCHANGED display
    /\ UNCHANGED <<shown, progress, connection, list, later>>

ClickContent ==
    /\ Usable
    /\ showTableContent(object, pager.page)
    /\ UNCHANGED <<selection, display, shown, pager, progress, connection, list, later>>

ClickStructure ==
    /\ Usable
    /\ object \in Objects
    /\ showTableStructure(object)
    /\ UNCHANGED <<selection, shown, pager, progress, connection, list, later>>

ClickIndexes ==
    /\ Usable
    /\ object \in Objects
    /\ showTableIndexes(object)
    /\ UNCHANGED <<selection, display, shown, pager, progress, connection, list, later>>

\* showQueryHistory, showServerSettings and showDatabaseStats up to the answer.
ShowPanel ==
    /\ Usable
    /\ Send(Call("panel"))
    /\ UNCHANGED <<selection, display, shown, pager, progress, connection, list, later>>

ActivityPanel ==
    /\ SetTabAndLayout("activity", "full")
    /\ input' = FALSE
    /\ Send(Call("activity"))
    /\ UNCHANGED <<selection, shown, pager, progress, connection, list>>

showActivityPanel == Usable /\ ActivityPanel /\ UNCHANGED later

showQueryPanel ==
    /\ Usable
    /\ shown' = IF tab = "query" THEN shown ELSE Nothing
    /\ SetTabAndLayout("query", "input")
    /\ input' = TRUE
    /\ UNCHANGED <<selection, pager, progress, connection, pending, list, later>>

\* The pager.  (That its buttons are also disabled is left out: the handlers
\* check the numbers themselves.)
NextPage ==
    /\ Usable
    /\ layout = "paged"
    /\ pager.pages > pager.page
    /\ pager' = [pager EXCEPT !.page = @ + 1]
    /\ showTableContent(object, pager.page + 1)
    /\ UNCHANGED <<selection, display, shown, progress, connection, list, later>>

\* Mutant of PrevPage: the first page has one before it.
PrevPageAlways ==
    /\ Usable
    /\ layout = "paged"
    /\ pager' = [pager EXCEPT !.page = @ - 1]
    /\ showTableContent(object, pager.page - 1)
    /\ UNCHANGED <<selection, display, shown, progress, connection, list, later>>

PrevPage ==
    /\ Usable
    /\ layout = "paged"
    /\ pager.page > 1
    /\ pager' = [pager EXCEPT !.page = @ - 1]
    /\ showTableContent(object, pager.page - 1)
    /\ UNCHANGED <<selection, display, shown, progress, connection, list, later>>

\* The row filter, a new limit, or "filter by value" of the results' menu: page
\* 1 is asked for.  A filter without a value is refused after the page is set.
FilterRows ==
    /\ Usable
    /\ layout = "paged" \/ shown.kind \in {"rows", "query"}
    /\ pager' = [pager EXCEPT !.page = 1]
    /\ showTableContent(object, 1) \/ UNCHANGED pending
    /\ UNCHANGED <<selection, display, shown, progress, connection, list, later>>

\* The header's menu, for the rows of a table only.
showUniqueColumnsValues ==
    /\ Usable
    /\ shown.kind = "rows"
    /\ Send([shown EXCEPT !.kind = "unique", !.page = 0])
    /\ UNCHANGED <<selection, display, shown, pager, progress, connection, list, later>>

\* runQuery, runExplain, runAnalyze, by button or, while another query runs, by
\* shortcut.  With an empty editor there is no call.
runQuery ==
    /\ Usable
    /\ input
    /\ setCurrentTab("query")
    /\ \/ progress' = TRUE /\ Send(Call("query"))
       \/ progress' = FALSE /\ UNCHANGED pending
    /\ UNCHANGED <<selection, input, shown, pager, connection, list, later>>

\* The reload button over the list of objects.
refreshTables ==
    /\ Usable
    /\ loadSchemas(pending)
    /\ UNCHANGED <<selection, display, shown, pager, progress, connection, later>>

\* The menus of the listed tables and views, as far as they make a call:
\* truncate, analyze and delete, or view_def and copy_def.
performTableAction ==
    /\ Usable /\ listed > 0
    /\ \E kind \in {"statement", "definition"} : Send(Call(kind))
    /\ UNCHANGED <<selection, display, shown, pager, progress, connection, list, later>>

\* "stop" in a row of the activity panel.  Bound: one stop at a time, so that
\* one timer runs.
performRowAction ==
    /\ Usable
    /\ shown.kind = "activity"
    /\ ~later /\ \A i \in DOMAIN pending : pending[i].kind # "stop"
    /\ Send(Call("stop"))
    /\ UNCHANGED <<selection, display, shown, pager, progress, connection, list, later>>

\* The timer of a stop shows the panel whatever the user does by then.
ActivityTimer ==
    /\ later /\ Room
    /\ ActivityPanel
    /\ later' = FALSE

\* Another database is picked from the search box.
SwitchDatabase ==
    /\ Usable
    /\ Send(Call("switch"))
    /\ UNCHANGED <<selection, display, shown, pager, progress, connection, list, later>>

-----------------------------------------------------------------------------
\* The connection window.
EditConnection ==
    /\ Usable
    /\ window' = TRUE
    /\ cancel' = (cancel \/ connected)
    /\ UNCHANGED <<selection, display, shown, pager, progress, connected, connecting, pending,
                   list, later>>

CloseConnection ==
    /\ Usable
    /\ Send(Call("disconnect"))
    /\ UNCHANGED <<selection, display, shown, pager, progress, connection, list, later>>

CancelConnection ==
    /\ window /\ cancel
    /\ window' = FALSE
    /\ UNCHANGED <<selection, display, shown, pager, progress, cancel, connected, connecting,
                   pending, list, later>>

\* Mutant of SubmitConnection: the button stays enabled.
SubmitAgain ==
    /\ window /\ Room
    /\ pending # <<Call("startup")>>
    /\ connecting' = TRUE
    /\ Send(Call("connect"))
    /\ UNCHANGED <<selection, display, shown, pager, progress, window, cancel, connected, list,
                   later>>

\* The form is there once the start-up call has answered with an error.
SubmitConnection ==
    /\ window /\ Room
    /\ pending # <<Call("startup")>>
    /\ ~connecting
    /\ connecting' = TRUE
    /\ Send(Call("connect"))
    /\ UNCHANGED <<selection, display, shown, pager, progress, window, cancel, connected, list,
                   later>>

-----------------------------------------------------------------------------
(***************************************************************************)
(* The answer to the call at position i, or its timeout, which the         *)
(* callback gets as an error.                                              *)
(***************************************************************************)
Arrives(i) == i \in DOMAIN pending

\* Calls whose answers show something of an object.
OfObject == {"rows", "structure", "indexes"}

Overtakes(i) ==
    /\ pending[i].kind \in OfObject
    /\ \E j \in 1 .. i - 1 :
         pending[j].kind \in OfObject /\ pending[j].object # pending[i].object

Rest(i) == RemoveAt(pending, i)

buildTable(call) == shown' = call

\* Mutant of updatePaginator: an error leaves the pager as it was.
keepPaginator(page, pages) ==
    IF pages < 0 THEN UNCHANGED pager ELSE pager' = [page |-> page, pages |-> pages]

\* The server's numbers, or 1 of 1 when there are none, as with an error.  (No
\* pages count as one.)
updatePaginator(page, pages) ==
    pager' = IF pages < 0 THEN [page |-> 1, pages |-> 1] ELSE [page |-> page, pages |-> pages]

RowsAnswered(i) ==
    /\ pending[i].kind = "rows"
    /\ \E pages \in {-1} \cup 1 .. MaxPages :
         /\ updatePaginator(pending[i].page, pages)
         /\ buildTable([pending[i] EXCEPT !.page = IF pages < 0 THEN 1 ELSE @])
    /\ SetTabAndLayout("content", "paged")
    /\ input' = FALSE
    /\ astray' = (astray \/ Overtakes(i))
    /\ KeepList(Rest(i))
    /\ UNCHANGED <<object, progress, connection, later>>

\* Whether the answer is taken for a function's definition is decided by the
\* type of the object selected now.  Then an error or an empty answer, which has
\* no rows[0], ends the callback before anything is drawn.
StructureAnswered(i) ==
    /\ pending[i].kind = "structure"
    /\ \/ /\ buildTable(pending[i])
          /\ IF object \in Functions THEN SetTabAndLayout("structure", "full") /\ input' = FALSE
             ELSE UNCHANGED display
          /\ astray' = (astray \/ Overtakes(i))
       \/ /\ object \in Functions
          /\ astray' = TRUE
          /\ UNCHANGED <<shown, display>>
    /\ KeepList(Rest(i))
    /\ UNCHANGED <<object, pager, progress, connection, later>>

\* What switches to its tab when the answer arrives: the settings switch to the
\* rows tab, the sizes of the database's tables to the structure tab.
LateTabs == [indexes |-> {"indexes"}, panel |-> {"history", "content", "structure"}]

PanelAnswered(i) ==
    /\ pending[i].kind \in DOMAIN LateTabs
    /\ buildTable(pending[i])
    /\ \E id \in LateTabs[pending[i].kind] : SetTabAndLayout(id, "full")
    /\ input' = FALSE
    /\ astray' = (astray \/ Overtakes(i))
    /\ KeepList(Rest(i))
    /\ UNCHANGED <<object, pager, progress, connection, later>>

ActivityAnswered(i) ==
    /\ pending[i].kind = "activity"
    /\ buildTable(pending[i])
    /\ KeepList(Rest(i))
    /\ UNCHANGED <<selection, display, pager, progress, connection, later>>

UniqueAnswered(i) ==
    /\ pending[i].kind = "unique"
    /\ buildTable(pending[i])
    /\ layout' = "full"
    /\ input' = FALSE
    /\ KeepList(Rest(i))
    /\ UNCHANGED <<selection, tab, stored, pager, progress, connection, later>>

\* Mutant of QueryAnswered: after an error the message stays.
QueryAnsweredOk(i) ==
    /\ pending[i].kind = "query"
    /\ buildTable(pending[i])
    /\ progress' \in {FALSE, progress}
    /\ input' = TRUE
    /\ layout' = IF layout = "full" THEN "input" ELSE layout
    /\ KeepList(Rest(i)) \/ loadSchemas(Rest(i))
    /\ UNCHANGED <<selection, tab, stored, pager, connection, later>>

\* A statement that creates or drops reloads the list.
QueryAnswered(i) ==
    /\ pending[i].kind = "query"
    /\ buildTable(pending[i])
    /\ progress' = FALSE
    /\ input' = TRUE
    /\ layout' = IF layout = "full" THEN "input" ELSE layout
    /\ KeepList(Rest(i)) \/ loadSchemas(Rest(i))
    /\ UNCHANGED <<selection, tab, stored, pager, connection, later>>

StartupAnswered(i) ==
    /\ pending[i].kind = "startup"
    /\ connected' \in BOOLEAN
    /\ window' = ~connected'
    /\ IF connected' THEN loadSchemas(Rest(i)) ELSE KeepList(Rest(i))
    /\ UNCHANGED <<selection, display, shown, pager, progress, cancel, connecting, later>>

ConnectAnswered(i) ==
    /\ pending[i].kind = "connect"
    /\ connecting' = FALSE
    /\ connected' \in BOOLEAN
    /\ window' = (window /\ ~connected')
    /\ IF connected' THEN loadSchemas(Rest(i)) ELSE KeepList(Rest(i))
    /\ UNCHANGED <<selection, display, shown, pager, progress, cancel, later>>

\* Success or not, the window opens and cannot be cancelled.
DisconnectAnswered(i) ==
    /\ pending[i].kind = "disconnect"
    /\ window' = TRUE
    /\ cancel' = FALSE
    /\ shown' = Nothing
    /\ KeepList(Rest(i))
    /\ UNCHANGED <<selection, display, pager, progress, connected, connecting, later>>

\* The first half of a load: the schemas, then the objects in them.
SchemasAnswered(i) ==
    /\ pending[i].kind = "schemas"
    /\ KeepList(Rest(i)) \/ KeepList(Append(Rest(i), Call("objects")))
    /\ UNCHANGED <<selection, display, shown, pager, progress, connection, later>>

\* Without an error, the schemas are appended to the list.
ObjectsAnswered(i) ==
    /\ pending[i].kind = "objects"
    /\ listed' \in {listed, listed + 1}
    /\ pending' = Rest(i)
    /\ UNCHANGED <<selection, display, shown, pager, progress, connection, overlap, later>>

\* Success or not, the table is emptied, and delete reloads the list.
StatementAnswered(i) ==
    /\ pending[i].kind = "statement"
    /\ shown' = Nothing
    /\ KeepList(Rest(i)) \/ loadSchemas(Rest(i))
    /\ UNCHANGED <<selection, display, pager, progress, connection, later>>

\* An error is alerted, copy_def goes to the clipboard, view_def is displayed.
DefinitionAnswered(i) ==
    /\ pending[i].kind = "definition"
    /\ \/ UNCHANGED <<display, shown>>
       \/ buildTable(pending[i]) /\ SetTabAndLayout("structure", "full") /\ input' = FALSE
    /\ KeepList(Rest(i))
    /\ UNCHANGED <<selection, pager, progress, connection, later>>

StopAnswered(i) ==
    /\ pending[i].kind = "stop"
    /\ later' = TRUE
    /\ KeepList(Rest(i))
    /\ UNCHANGED <<selection, display, shown, pager, progress, connection>>

SwitchAnswered(i) ==
    /\ pending[i].kind = "switch"
    /\ \/ Reload
       \/ /\ KeepList(Rest(i))
          /\ UNCHANGED <<selection, display, shown, pager, progress, connection, later>>

Answer(i) ==
    /\ Arrives(i)
    /\ \/ RowsAnswered(i) \/ StructureAnswered(i) \/ PanelAnswered(i)
       \/ ActivityAnswered(i) \/ UniqueAnswered(i) \/ QueryAnswered(i)
       \/ SchemasAnswered(i) \/ ObjectsAnswered(i) \/ StatementAnswered(i)
       \/ DefinitionAnswered(i) \/ StopAnswered(i) \/ SwitchAnswered(i)
       \/ StartupAnswered(i) \/ ConnectAnswered(i) \/ DisconnectAnswered(i)

User ==
    \/ \E o \in Objects : ClickObject(o)
    \/ ClickContent \/ ClickStructure \/ ClickIndexes \/ ShowPanel
    \/ showActivityPanel \/ showQueryPanel
    \/ NextPage \/ PrevPage \/ FilterRows \/ showUniqueColumnsValues \/ runQuery
    \/ refreshTables \/ performTableAction \/ performRowAction \/ SwitchDatabase \/ Reload
    \/ EditConnection \/ CloseConnection \/ CancelConnection \/ SubmitConnection

Next == User \/ ActivityTimer \/ \E i \in 1 .. MaxPending : Answer(i)

Spec == Init /\ [][Next]_vars

-----------------------------------------------------------------------------
CallRecord ==
    [kind : Kinds \cup {"none"}, object : Objects \cup {NoObject}, page : Nat]

PagerRecord == [page : Nat \ {0}, pages : 1 .. MaxPages]

\* Every variable holds a value of its kind, and the pager never leaves page 1
\* downwards.
TypeOK ==
    /\ object \in Objects \cup {NoObject}
    /\ {tab, stored} \subseteq Tabs
    /\ layout \in {"input", "paged", "full"}
    /\ {input, progress, window, cancel, connected, connecting, overlap, later, astray}
         \subseteq BOOLEAN
    /\ listed \in Nat
    /\ pager \in PagerRecord
    /\ shown \in CallRecord
    /\ pending \in Seq(CallRecord)

\* The list holds every schema once, unless a load of it began before an
\* earlier one was answered: each load clears it when it starts and appends when
\* its second call is answered, and five callbacks and a button start one.
ListedOnce == ~overlap => listed <= 1

Quiet == pending = <<>>

\* app.js:490, "Pagination should only be visible on rows tab": in whatever
\* order answers arrive and callbacks change the tab and the layout.
PaginationOnlyOnRows == layout = "paged" => tab = "content"

\* However fast the user clicks through objects and tabs, and whatever overtakes
\* what: when the answers have all arrived, what a tab shows of an object is of
\* the selected object, unless, since it was selected, an answer for another
\* object was overtaken or an answer drew nothing.  (Callbacks use the name they
\* were called with and draw over whatever is there.)
SettledShowsObject ==
    Quiet /\ ~astray /\ shown.kind \in OfObject => shown.object = object

\* When the answers have all arrived, the pager counts from the page that is
\* shown, or from 1 after a filter was refused: rows of the selected table in any
\* order of answers.
SettledPager ==
    Quiet /\ layout = "paged" /\ shown.kind = "rows" =>
        pager.page \in {1, shown.page} \/ (object \in Functions /\ astray)

\* The tables of up to MaxRows rows, with every limit the server accepts, that
\* have each number of pages.
Covered ==
    [pages \in 1 .. MaxPages |->
        \A rows \in 0 .. MaxRows, limit \in {n \in 0 .. MaxRows + 1 : Accepted(n)} :
            NumPages(rows, limit) = pages => PagesCover(rows, limit)]

\* The number of pages in the pager decides how far its buttons go (app.js:1736):
\* whatever table the server counted that many pages of (api.go:435), going
\* through them shows each row once, no page is empty, and each answer carries
\* the number of the page asked for.
PagesCoverTable == Covered[pager.pages]

\* The page has one connect call at a time, although its Connect button is
\* enabled again by one callback and the window is opened by three others.
OneConnect ==
    \A i, j \in DOMAIN pending :
        pending[i].kind = "connect" /\ pending[j].kind = "connect" => i = j

\* What makes these inductive, of any calls: one of them connects, and the
\* button waits for it; a call for rows asks for a page of a table.
CallsOK(calls, waits) ==
    /\ \A i, j \in DOMAIN calls :
         calls[i].kind = "connect" /\ calls[j].kind = "connect" => i = j
    /\ \A i \in DOMAIN calls :
         /\ calls[i].kind = "connect" => waits
         /\ calls[i].kind = "rows" => calls[i].page # 0 /\ calls[i].object \in Tables

\* Without overlap, one load is pending, and the list is empty until its end.
OneLoad(calls, over, count) ==
    ~over => /\ count <= 1
             /\ \A i \in DOMAIN calls : calls[i].kind \in Loads => count = 0
             /\ \A i, j \in DOMAIN calls :
                  calls[i].kind \in Loads /\ calls[j].kind \in Loads => i = j

PageInv ==
    /\ TypeOK /\ PaginationOnlyOnRows
    /\ CallsOK(pending, connecting) /\ OneLoad(pending, overlap, listed)

\* What is pending or shown for an object left since is followed by a call for
\* the selected one, unless answers went astray.
Follows(calls, n, o) ==
    \E j \in DOMAIN calls : j > n /\ calls[j].kind \in OfObject /\ calls[j].object = o

ObjectFollows(calls, last, o) ==
    /\ last.kind \in OfObject /\ last.object # o => Follows(calls, 0, o)
    /\ \A i \in DOMAIN calls :
         calls[i].kind \in OfObject /\ calls[i].object # o => Follows(calls, i, o)

\* The pagination is visible while a function is selected only until an answer
\* takes it away; a pager that was turned waits for its page.
Awaits(kinds) == \E i \in DOMAIN pending : pending[i].kind \in kinds

PagerFollows ==
    /\ layout = "paged" \/ Awaits({"rows"}) => object # NoObject
    /\ layout = "paged" /\ object \in Functions => astray \/ Awaits({"structure", "indexes"})
    /\ layout = "paged" /\ shown.kind = "rows" =>
         pager.page \in {1, shown.page} \/ Awaits({"rows"}) \/ object \in Functions

SettledInv ==
    PageInv /\ (astray \/ ObjectFollows(pending, shown, object)) /\ PagerFollows

\* What the user is made to wait for is still to come, in whatever order answers
\* arrive and whatever is clicked meanwhile: while the message is shown a query is
\* pending (app.js:799), and while the Connect button is disabled a connect call
\* is (app.js:1889).
WaitsForCall ==
    /\ progress => Awaits({"query"})
    /\ connecting => Awaits({"connect"})
=============================================================================
