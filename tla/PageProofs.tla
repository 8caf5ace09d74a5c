----------------------------- MODULE PageProofs -----------------------------
(***************************************************************************)
(* Proofs that PageInv is an invariant of Page, with calls answered in any *)
(* order, and of the properties that follow from it, the arithmetic of     *)
(* pages among them; and of what the page settles on once all are answered.*)
(***************************************************************************)
EXTENDS Page, SequenceTheorems, TLAPS

CallsKept ==
    /\ pending' \in Seq(CallRecord)
    /\ CallsOK(pending', connecting')
    /\ OneLoad(pending', overlap', listed')
    /\ listed' \in Nat
    /\ {overlap', later'} \subseteq BOOLEAN

\* A call at the end: every other position holds what it held before.
LEMMA Appended ==
  ASSUME NEW calls \in Seq(CallRecord), NEW call \in CallRecord
  PROVE  LET longer == Append(calls, call)
         IN  /\ longer \in Seq(CallRecord)
             /\ DOMAIN longer = 1 .. Len(calls) + 1
             /\ DOMAIN calls = 1 .. Len(calls)
             /\ longer[Len(calls) + 1] = call
             /\ \A i \in DOMAIN calls : longer[i] = calls[i]
             /\ \A i \in DOMAIN longer : i \in DOMAIN calls \/ longer[i] = call
OBVIOUS

\* A call is taken out: what is left was at another place before.
LEMMA Removed ==
  ASSUME NEW calls \in Seq(CallRecord), NEW i \in DOMAIN calls
  PROVE  LET left == RemoveAt(calls, i)
         IN  /\ left \in Seq(CallRecord)
             /\ calls[i] \in CallRecord
             /\ DOMAIN left = 1 .. Len(calls) - 1
             /\ \A j \in DOMAIN left :
                  LET k == IF j < i THEN j ELSE j + 1
                  IN  k \in DOMAIN calls \ {i} /\ left[j] = calls[k]
<1> DEFINE less  == RemoveAt(calls, i)
           left  == SubSeq(calls, 1, i - 1)
           right == SubSeq(calls, i + 1, Len(calls))
<1>1. i \in 1 .. Len(calls) /\ Len(calls) \in Nat
  OBVIOUS
<1>2. less = left \o right
  BY DEF RemoveAt
<1>3. /\ left \in Seq(CallRecord) /\ Len(left) = i - 1
      /\ \A j \in 1 .. i - 1 : left[j] = calls[j]
  BY <1>1
<1>4. /\ right \in Seq(CallRecord) /\ Len(right) = Len(calls) - i
      /\ \A j \in 1 .. Len(calls) - i : right[j] = calls[i + j]
  BY <1>1
<1> HIDE DEF left, right, less
<1>5. /\ less \in Seq(CallRecord) /\ Len(less) = Len(calls) - 1
      /\ \A j \in 1 .. Len(calls) - 1 :
            less[j] = IF j <= i - 1 THEN left[j] ELSE right[j - (i - 1)]
  <2>1. less \in Seq(CallRecord) /\ Len(less) = Len(left) + Len(right)
    BY <1>2, <1>3, <1>4, ConcatProperties
  <2>2. Len(less) = Len(calls) - 1
    BY <1>1, <1>3, <1>4, <2>1
  <2>3. \A j \in 1 .. Len(left) + Len(right) :
           less[j] = IF j <= Len(left) THEN left[j] ELSE right[j - Len(left)]
    BY <1>2, <1>3, <1>4, ConcatProperties
  <2> QED
    BY <1>1, <1>3, <1>4, <2>1, <2>2, <2>3
<1>6. \A j \in 1 .. Len(calls) - 1 : less[j] = IF j < i THEN calls[j] ELSE calls[j + 1]
  <2> SUFFICES ASSUME NEW j \in 1 .. Len(calls) - 1
               PROVE  less[j] = IF j < i THEN calls[j] ELSE calls[j + 1]
    OBVIOUS
  <2>1. CASE j < i
    <3>1. j <= i - 1 /\ j \in 1 .. i - 1
      BY <1>1, <2>1
    <3> QED
      BY <1>3, <1>5, <2>1, <3>1
  <2>2. CASE ~(j < i)
    <3>1. j - (i - 1) \in 1 .. Len(calls) - i /\ i + (j - (i - 1)) = j + 1
      BY <1>1, <2>2
    <3> QED
      BY <1>1, <1>4, <1>5, <2>2, <3>1
  <2> QED
    BY <2>1, <2>2
<1>7. DOMAIN calls = 1 .. Len(calls) /\ DOMAIN less = 1 .. Len(calls) - 1
  BY <1>1, <1>5
<1>8. ASSUME NEW j \in DOMAIN less
      PROVE  LET k == IF j < i THEN j ELSE j + 1
             IN  k \in DOMAIN calls \ {i} /\ less[j] = calls[k]
  <2>1. j \in 1 .. Len(calls) - 1
    BY <1>7
  <2>2. CASE j < i
    BY <1>1, <1>6, <1>7, <2>1, <2>2
  <2>3. CASE ~(j < i)
    BY <1>1, <1>6, <1>7, <2>1, <2>3
  <2> QED
    BY <2>2, <2>3
<1> QED
  BY <1>1, <1>5, <1>7, <1>8 DEF less

\* Two calls left are two calls.
LEMMA RemovedApart ==
  ASSUME NEW calls \in Seq(CallRecord), NEW i \in DOMAIN calls, NEW P,
         \A j, k \in DOMAIN calls : calls[j].kind \in P /\ calls[k].kind \in P => j = k
  PROVE  LET left == RemoveAt(calls, i)
         IN  \A j, k \in DOMAIN left : left[j].kind \in P /\ left[k].kind \in P => j = k
<1> DEFINE left == RemoveAt(calls, i)
           at(j) == IF j < i THEN j ELSE j + 1
<1>1. /\ \A j \in DOMAIN left : at(j) \in DOMAIN calls \ {i} /\ left[j] = calls[at(j)]
      /\ DOMAIN left \subseteq Nat
  BY Removed
<1>2. \A j, k \in Nat : at(j) = at(k) => j = k
  OBVIOUS
<1> HIDE DEF left, at
<1>3. ASSUME NEW j \in DOMAIN left, NEW k \in DOMAIN left,
             left[j].kind \in P, left[k].kind \in P
      PROVE  j = k
  <2>1. at(j) = at(k)
    BY <1>1, <1>3
  <2> QED
    BY <1>1, <1>2, <2>1
<1> QED
  BY <1>3 DEF left

-----------------------------------------------------------------------------
\* What one more call, or one less, does to the calls' invariants.
LEMMA AppendOK ==
  ASSUME NEW calls \in Seq(CallRecord), NEW call \in CallRecord, NEW waits \in BOOLEAN,
         CallsOK(calls, waits), call.kind # "connect",
         call.kind = "rows" => call.page # 0 /\ call.object \in Tables
  PROVE  CallsOK(Append(calls, call), waits)
<1> DEFINE longer == Append(calls, call)
<1>1. /\ \A i \in DOMAIN calls : longer[i] = calls[i]
      /\ \A i \in DOMAIN longer : i \in DOMAIN calls \/ longer[i] = call
  BY Appended
<1> HIDE DEF longer
<1>2. CallsOK(longer, waits)
  BY <1>1 DEF CallsOK
<1> QED
  BY <1>2 DEF longer

LEMMA ConnectOK ==
  ASSUME NEW calls \in Seq(CallRecord), NEW call \in CallRecord,
         CallsOK(calls, FALSE), call.kind = "connect"
  PROVE  CallsOK(Append(calls, call), TRUE)
<1> DEFINE longer == Append(calls, call)
<1>1. /\ \A i \in DOMAIN calls : longer[i] = calls[i]
      /\ \A i \in DOMAIN longer : i \in DOMAIN calls \/ longer[i] = call
      /\ DOMAIN longer = 1 .. Len(calls) + 1 /\ DOMAIN calls = 1 .. Len(calls)
  BY Appended
<1>2. \A i \in DOMAIN longer : i \in DOMAIN calls \/ i = Len(calls) + 1
  BY <1>1
<1> HIDE DEF longer
<1>3. CallsOK(longer, TRUE)
  BY <1>1, <1>2 DEF CallsOK
<1> QED
  BY <1>3 DEF longer

LEMMA AppendOneLoad ==
  ASSUME NEW calls \in Seq(CallRecord), NEW call \in CallRecord, NEW over, NEW count,
         OneLoad(calls, over, count), call.kind \notin Loads
  PROVE  OneLoad(Append(calls, call), over, count)
<1> DEFINE longer == Append(calls, call)
<1>1. /\ \A i \in DOMAIN calls : longer[i] = calls[i]
      /\ \A i \in DOMAIN longer : i \in DOMAIN calls \/ longer[i] = call
  BY Appended
<1> HIDE DEF longer
<1>2. OneLoad(longer, over, count)
  BY <1>1 DEF OneLoad
<1> QED
  BY <1>2 DEF longer

\* A load that begins when none is pending is the only one.
LEMMA BeginLoad ==
  ASSUME NEW calls \in Seq(CallRecord), NEW call \in CallRecord, ~Loading(calls)
  PROVE  OneLoad(Append(calls, call), FALSE, 0)
<1> DEFINE longer == Append(calls, call)
<1>1. /\ \A i \in DOMAIN calls : longer[i] = calls[i]
      /\ \A i \in DOMAIN longer : i \in DOMAIN calls \/ i = Len(calls) + 1
  BY Appended
<1> HIDE DEF longer
<1>2. \A i \in DOMAIN longer : longer[i].kind \in Loads => i = Len(calls) + 1
  BY <1>1 DEF Loading
<1>3. OneLoad(longer, FALSE, 0)
  BY <1>2 DEF OneLoad
<1> QED
  BY <1>3 DEF longer

LEMMA RemoveOK ==
  ASSUME NEW calls \in Seq(CallRecord), NEW i \in DOMAIN calls,
         NEW waits \in BOOLEAN, NEW after \in BOOLEAN,
         CallsOK(calls, waits), after = waits \/ calls[i].kind = "connect"
  PROVE  CallsOK(RemoveAt(calls, i), after)
<1> DEFINE left == RemoveAt(calls, i)
           at(j) == IF j < i THEN j ELSE j + 1
<1>1. \A j \in DOMAIN left : at(j) \in DOMAIN calls \ {i} /\ left[j] = calls[at(j)]
  BY Removed
<1>2. \A j, k \in DOMAIN left : left[j].kind \in {"connect"} /\ left[k].kind \in {"connect"} => j = k
  BY RemovedApart DEF CallsOK
<1> HIDE DEF left, at
<1>3. ASSUME NEW j \in DOMAIN left, left[j].kind = "connect"
      PROVE  after
  BY <1>1, <1>3 DEF CallsOK
<1>4. CallsOK(left, after)
  BY <1>1, <1>2, <1>3 DEF CallsOK
<1> QED
  BY <1>4 DEF left

LEMMA RemoveOneLoad ==
  ASSUME NEW calls \in Seq(CallRecord), NEW i \in DOMAIN calls, NEW over \in BOOLEAN, NEW count,
         OneLoad(calls, over, count)
  PROVE  /\ OneLoad(RemoveAt(calls, i), over, count)
         /\ ~over /\ calls[i].kind \in Loads => ~Loading(RemoveAt(calls, i)) /\ count = 0
<1> DEFINE left == RemoveAt(calls, i)
           at(j) == IF j < i THEN j ELSE j + 1
<1>1. \A j \in DOMAIN left : at(j) \in DOMAIN calls \ {i} /\ left[j] = calls[at(j)]
  BY Removed
<1>2. ~over => \A j, k \in DOMAIN left : left[j].kind \in Loads /\ left[k].kind \in Loads => j = k
  BY RemovedApart DEF OneLoad
<1> HIDE DEF left, at
<1>3. OneLoad(left, over, count)
  BY <1>1, <1>2 DEF OneLoad
<1>4. ~over /\ calls[i].kind \in Loads => ~Loading(left) /\ count = 0
  BY <1>1 DEF OneLoad, Loading
<1> QED
  BY <1>3, <1>4 DEF left

-----------------------------------------------------------------------------
\* The same of the pending calls.
LEMMA CallTyped == \A kind \in Kinds \cup {"none"} : Call(kind) \in CallRecord /\ Call(kind).kind = kind
BY DEF Call, CallRecord

\* Nothing is sent, and the Connect button stays as it is.
LEMMA NothingSent ==
  ASSUME PageInv, UNCHANGED <<pending, connecting, list, later>>
  PROVE  CallsKept
BY DEF CallsKept, PageInv, TypeOK, list

\* A call other than connect is sent.
LEMMA OtherSent ==
  ASSUME PageInv, NEW call \in CallRecord, Send(call), UNCHANGED <<connecting, list>>,
         later' \in BOOLEAN, call.kind \notin Loads \cup {"connect"},
         call.kind = "rows" => call.page # 0 /\ call.object \in Tables
  PROVE  CallsKept
<1>1. pending \in Seq(CallRecord) /\ connecting \in BOOLEAN
  BY DEF PageInv, TypeOK
<1>2. pending' \in Seq(CallRecord)
  BY <1>1, Appended DEF Send
<1>3. CallsOK(pending', connecting')
  BY <1>1, AppendOK DEF Send, PageInv
<1>4. OneLoad(pending', overlap', listed')
  BY <1>1, AppendOneLoad DEF Send, PageInv, list
<1> QED
  BY <1>2, <1>3, <1>4 DEF CallsKept, PageInv, TypeOK, list

\* The form is submitted while no connect call is pending.
LEMMA ConnectSent ==
  ASSUME PageInv, Send(Call("connect")), connecting' = TRUE, ~connecting, UNCHANGED <<list, later>>
  PROVE  CallsKept
<1>1. pending \in Seq(CallRecord) /\ connecting = FALSE
  BY DEF PageInv, TypeOK
<1>2. Call("connect") \in CallRecord /\ Call("connect").kind = "connect"
  BY CallTyped DEF Kinds
<1>3. pending' \in Seq(CallRecord)
  BY <1>1, <1>2, Appended DEF Send
<1>4. CallsOK(pending', connecting')
  BY <1>1, <1>2, ConnectOK DEF Send, PageInv
<1>5. OneLoad(pending', overlap', listed')
  BY <1>1, <1>2, AppendOneLoad DEF Send, PageInv, list, Loads
<1> QED
  BY <1>3, <1>4, <1>5 DEF CallsKept, PageInv, TypeOK, list

\* The list is loaded, with these calls pending.
LEMMA LoadSent ==
  ASSUME PageInv, NEW calls \in Seq(CallRecord), connecting' \in BOOLEAN, later' \in BOOLEAN,
         CallsOK(calls, connecting'), loadSchemas(calls)
  PROVE  CallsKept
<1>1. Call("schemas") \in CallRecord /\ Call("schemas").kind = "schemas"
  BY CallTyped DEF Kinds
<1>2. pending' \in Seq(CallRecord) /\ CallsOK(pending', connecting')
  BY <1>1, Appended, AppendOK DEF loadSchemas
<1>3. /\ pending' = Append(calls, Call("schemas")) /\ listed' = 0
      /\ overlap' = Loading(calls) /\ overlap' \in BOOLEAN
  BY DEF loadSchemas, Loading
<1>4. OneLoad(pending', overlap', listed')
  <2>1. CASE Loading(calls)
    BY <1>3, <2>1 DEF OneLoad
  <2>2. CASE ~Loading(calls)
    BY <1>1, <1>3, <2>2, BeginLoad
  <2> QED
    BY <2>1, <2>2
<1> QED
  BY <1>2, <1>3, <1>4 DEF CallsKept

\* The call at position i leaves the queue.
LEMMA RestOK ==
  ASSUME PageInv, NEW i, Arrives(i), connecting' \in BOOLEAN,
         connecting' = connecting \/ pending[i].kind = "connect"
  PROVE  /\ Rest(i) \in Seq(CallRecord)
         /\ pending[i] \in CallRecord
         /\ CallsOK(Rest(i), connecting')
         /\ OneLoad(Rest(i), overlap, listed)
         /\ ~overlap /\ pending[i].kind \in Loads => ~Loading(Rest(i)) /\ listed = 0
<1>1. /\ pending \in Seq(CallRecord) /\ connecting \in BOOLEAN /\ overlap \in BOOLEAN
      /\ i \in DOMAIN pending
  BY DEF PageInv, TypeOK, Arrives
<1>2. Rest(i) \in Seq(CallRecord) /\ pending[i] \in CallRecord
  BY <1>1, Removed DEF Rest
<1>3. CallsOK(Rest(i), connecting')
  BY <1>1, RemoveOK DEF Rest, PageInv
<1>4. /\ OneLoad(Rest(i), overlap, listed)
      /\ ~overlap /\ pending[i].kind \in Loads => ~Loading(Rest(i)) /\ listed = 0
  BY <1>1, RemoveOneLoad DEF Rest, PageInv
<1> QED
  BY <1>2, <1>3, <1>4

\* An answer keeps the list, or loads it again.
LEMMA CallAnswered ==
  ASSUME PageInv, NEW i, Arrives(i), connecting' \in BOOLEAN, later' \in BOOLEAN,
         connecting' = connecting \/ pending[i].kind = "connect",
         KeepList(Rest(i)) \/ loadSchemas(Rest(i))
  PROVE  CallsKept
<1>1. CASE KeepList(Rest(i))
  BY <1>1, RestOK DEF KeepList, CallsKept, list, PageInv, TypeOK
<1>2. CASE loadSchemas(Rest(i))
  BY <1>2, RestOK, LoadSent
<1> QED
  BY <1>1, <1>2

-----------------------------------------------------------------------------
\* The display half of the invariant.
DisplayOK ==
    /\ object \in Objects \cup {NoObject}
    /\ {tab, stored} \subseteq Tabs
    /\ layout \in {"input", "paged", "full"}
    /\ {input, progress, window, cancel, connected, connecting, astray} \subseteq BOOLEAN
    /\ pager \in PagerRecord
    /\ shown \in CallRecord
    /\ PaginationOnlyOnRows

LEMMA Halves ==
  ASSUME CallsKept, DisplayOK'
  PROVE  PageInv'
BY DEF CallsKept, DisplayOK, PageInv, TypeOK

LEMMA NothingTyped == Nothing \in CallRecord /\ Nothing.kind = "none"
BY CallTyped DEF Nothing

LEMMA OnlyStartup ==
  LET calls == <<Call("startup")>>
  IN  /\ calls \in Seq(CallRecord)
      /\ CallsOK(calls, FALSE)
      /\ OneLoad(calls, FALSE, 0)
<1> DEFINE calls == <<Call("startup")>>
<1>1. Call("startup") \in CallRecord /\ Call("startup").kind = "startup"
  BY CallTyped DEF Kinds
<1>2. calls \in Seq(CallRecord) /\ \A i \in DOMAIN calls : i = 1 /\ calls[i].kind = "startup"
  BY <1>1
<1> HIDE DEF calls
<1>3. CallsOK(calls, FALSE) /\ OneLoad(calls, FALSE, 0)
  BY <1>2 DEF CallsOK, OneLoad, Loads
<1> QED
  BY <1>2, <1>3 DEF calls

LEMMA InitInv == Init => PageInv
<1> SUFFICES ASSUME Init
             PROVE  PageInv
  OBVIOUS
<1>1. /\ pending \in Seq(CallRecord) /\ CallsOK(pending, connecting)
      /\ OneLoad(pending, overlap, listed)
  BY OnlyStartup DEF Init
<1>2. /\ object \in Objects \cup {NoObject} /\ {tab, stored} \subseteq Tabs
      /\ layout \in {"input", "paged", "full"} /\ shown \in CallRecord
  BY NothingTyped DEF Init, Tabs
<1>3. {input, progress, window, cancel, connected, connecting, overlap, later,
       astray} \subseteq BOOLEAN
  BY DEF Init
<1>4. listed \in Nat /\ pager \in PagerRecord
  BY PageAssumption DEF Init, PagerRecord, PageAssumption
<1> QED
  BY <1>1, <1>2, <1>3, <1>4 DEF TypeOK, Init, PageInv, PaginationOnlyOnRows

LEMMA ReloadStep ==
  ASSUME PageInv, Reload
  PROVE  PageInv'
<1>1. CallsKept
  BY OnlyStartup DEF Reload, CallsKept
<1>2. /\ object' \in Objects \cup {NoObject} /\ {tab', stored'} \subseteq Tabs
      /\ layout' = "input" /\ shown' \in CallRecord
  BY NothingTyped DEF Reload, Tabs, PageInv, TypeOK
<1>3. {input', progress', window', cancel', connected', connecting', astray'} \subseteq BOOLEAN
  BY DEF Reload
<1>4. pager' \in PagerRecord
  BY PageAssumption DEF Reload, PagerRecord, PageAssumption
<1> QED
  BY <1>1, <1>2, <1>3, <1>4, Halves DEF DisplayOK, PaginationOnlyOnRows

-----------------------------------------------------------------------------
\* showTableContent, showTableIndexes and showTableStructure send a call for an
\* object, or none.
LEMMA ContentSent ==
  ASSUME PageInv, NEW o \in Objects \cup {NoObject}, NEW page \in Nat \ {0},
         showTableContent(o, page), UNCHANGED <<connecting, list, later>>
  PROVE  CallsKept
<1> DEFINE call == [kind |-> "rows", object |-> o, page |-> page]
<1>1. call \in CallRecord /\ call.kind = "rows" /\ call.page # 0 /\ call.object = o
  BY DEF CallRecord, Kinds
<1>2. CASE o \in Tables
  <2>1. Send(call)
    BY <1>2 DEF showTableContent
  <2> QED
    BY <1>1, <1>2, <2>1, OtherSent DEF Loads, PageInv, TypeOK
<1>3. CASE o \notin Tables
  BY <1>3, NothingSent DEF showTableContent
<1> QED
  BY <1>2, <1>3

LEMMA ObjectCallSent ==
  ASSUME PageInv, NEW o \in Objects \cup {NoObject}, NEW kind \in {"indexes", "structure"},
         Send([kind |-> kind, object |-> o, page |-> 0]), UNCHANGED <<connecting, list, later>>
  PROVE  CallsKept
<1> DEFINE call == [kind |-> kind, object |-> o, page |-> 0]
<1>1. call \in CallRecord /\ call.kind = kind
  BY DEF CallRecord, Kinds
<1> QED
  BY <1>1, OtherSent DEF Loads, PageInv, TypeOK

LEMMA PlainCallSent ==
  ASSUME PageInv,
         NEW kind \in {"panel", "activity", "query", "disconnect", "statement", "definition",
                       "stop", "switch"},
         Send(Call(kind)), UNCHANGED <<connecting, list>>, later' \in BOOLEAN
  PROVE  CallsKept
<1>1. Call(kind) \in CallRecord /\ Call(kind).kind = kind
  BY CallTyped DEF Kinds
<1> QED
  BY <1>1, OtherSent DEF Loads

-----------------------------------------------------------------------------
LEMMA ClickObjectStep ==
  ASSUME PageInv, NEW o \in Objects, ClickObject(o)
  PROVE  PageInv'
<1>1. UNCHANGED <<connecting, list, later>>
  BY DEF ClickObject, selection, connection
<1>2. CallsKept
  <2>1. CASE o \in Functions \/ stored = "structure"
    BY <1>1, <2>1, ObjectCallSent DEF ClickObject, showTableStructure
  <2>2. CASE ~(o \in Functions \/ stored = "structure") /\ stored = "indexes"
    BY <1>1, <2>2, ObjectCallSent DEF ClickObject, showTableIndexes
  <2>3. CASE ~(o \in Functions \/ stored = "structure") /\ stored # "indexes"
    BY <1>1, <2>3, ContentSent DEF ClickObject
  <2> QED
    BY <2>1, <2>2, <2>3
<1>3. /\ pager' \in PagerRecord
      /\ object' \in Objects \cup {NoObject}
  BY DEF ClickObject, PageInv, TypeOK, PagerRecord
<1>4. DisplayOK'
  BY <1>3 DEF ClickObject, showTableStructure, SetTabAndLayout, PageInv, TypeOK, DisplayOK,
     PaginationOnlyOnRows, selection, display, connection, Tabs
<1> QED
  BY <1>2, <1>4, Halves

LEMMA ContentSteps ==
  ASSUME PageInv, ClickContent \/ NextPage \/ PrevPage \/ FilterRows
  PROVE  PageInv'
<1>1. /\ object \in Objects \cup {NoObject} /\ UNCHANGED <<connecting, list, later>>
      /\ pager.page \in Nat \ {0} /\ pager.page + 1 \in Nat \ {0}
  BY DEF PageInv, TypeOK, PagerRecord, ClickContent, NextPage, PrevPage, FilterRows,
     selection, connection
<1>2. PrevPage => pager.page - 1 \in Nat \ {0}
  BY <1>1 DEF PrevPage
<1>3. CallsKept
  <2>1. CASE ClickContent
    BY <1>1, <2>1, ContentSent DEF ClickContent
  <2>2. CASE NextPage
    BY <1>1, <2>2, ContentSent DEF NextPage
  <2>3. CASE PrevPage
    BY <1>1, <1>2, <2>3, ContentSent DEF PrevPage
  <2>4. CASE FilterRows
    BY <1>1, <2>4, ContentSent, NothingSent DEF FilterRows
  <2> QED
    BY <2>1, <2>2, <2>3, <2>4
<1>4. pager' \in PagerRecord
  BY <1>1, <1>2 DEF PageInv, TypeOK, PagerRecord, ClickContent, NextPage, PrevPage, FilterRows
<1>5. DisplayOK'
  BY <1>4 DEF ClickContent, NextPage, PrevPage, FilterRows, PageInv, TypeOK, DisplayOK,
     PaginationOnlyOnRows, selection, display, connection
<1> QED
  BY <1>3, <1>5, Halves

LEMMA TabSteps ==
  ASSUME PageInv,
         \/ ClickStructure \/ ClickIndexes \/ ShowPanel \/ showActivityPanel \/ ActivityTimer
         \/ CloseConnection
  PROVE  PageInv'
<1>1. /\ object \in Objects \cup {NoObject} /\ UNCHANGED <<connecting, list>>
      /\ later' \in BOOLEAN /\ (~ActivityTimer => UNCHANGED later)
  BY DEF PageInv, TypeOK, ClickStructure, ClickIndexes, ShowPanel, showActivityPanel,
     ActivityTimer, ActivityPanel, CloseConnection, selection, connection
<1>2. CallsKept
  <2>1. CASE ClickStructure
    <3>1. UNCHANGED later
      BY <2>1 DEF ClickStructure
    <3> QED
      BY <1>1, <2>1, <3>1, ObjectCallSent DEF ClickStructure, showTableStructure
  <2>2. CASE ClickIndexes
    <3>1. UNCHANGED later
      BY <2>2 DEF ClickIndexes
    <3> QED
      BY <1>1, <2>2, <3>1, ObjectCallSent DEF ClickIndexes, showTableIndexes
  <2>3. CASE ShowPanel
    BY <1>1, <2>3, PlainCallSent DEF ShowPanel
  <2>4. CASE showActivityPanel \/ ActivityTimer
    BY <1>1, <2>4, PlainCallSent DEF showActivityPanel, ActivityTimer, ActivityPanel
  <2>5. CASE CloseConnection
    BY <1>1, <2>5, PlainCallSent DEF CloseConnection
  <2> QED
    BY <2>1, <2>2, <2>3, <2>4, <2>5
<1>3. DisplayOK'
  BY DEF ClickStructure, ClickIndexes, ShowPanel, showActivityPanel, ActivityTimer,
     ActivityPanel, CloseConnection, showTableStructure, SetTabAndLayout, PageInv, TypeOK,
     DisplayOK, PaginationOnlyOnRows, selection, display, connection, Tabs
<1> QED
  BY <1>2, <1>3, Halves

LEMMA ListSteps ==
  ASSUME PageInv,
         refreshTables \/ performTableAction \/ performRowAction \/ SwitchDatabase
  PROVE  PageInv'
<1>1. /\ pending \in Seq(CallRecord) /\ CallsOK(pending, connecting)
      /\ connecting \in BOOLEAN /\ later \in BOOLEAN
      /\ UNCHANGED <<connecting, later>>
  BY DEF PageInv, TypeOK, refreshTables, performTableAction, performRowAction, SwitchDatabase,
     selection, connection
<1>2. CallsKept
  <2>1. CASE refreshTables
    <3>1. connecting' \in BOOLEAN /\ later' \in BOOLEAN /\ CallsOK(pending, connecting')
      BY <1>1
    <3>2. loadSchemas(pending)
      BY <2>1 DEF refreshTables
    <3> QED
      BY <1>1, <3>1, <3>2, LoadSent
  <2>2. CASE performTableAction
    BY <1>1, <2>2, PlainCallSent DEF performTableAction
  <2>3. CASE performRowAction
    BY <1>1, <2>3, PlainCallSent DEF performRowAction
  <2>4. CASE SwitchDatabase
    BY <1>1, <2>4, PlainCallSent DEF SwitchDatabase
  <2> QED
    BY <2>1, <2>2, <2>3, <2>4
<1>3. DisplayOK'
  BY DEF refreshTables, performTableAction, performRowAction, SwitchDatabase, PageInv, TypeOK,
     DisplayOK, PaginationOnlyOnRows, selection, display, connection
<1> QED
  BY <1>2, <1>3, Halves

LEMMA UniqueStep ==
  ASSUME PageInv, showUniqueColumnsValues
  PROVE  PageInv'
<1> DEFINE call == [shown EXCEPT !.kind = "unique", !.page = 0]
<1>1. call \in CallRecord /\ call.kind = "unique"
  BY DEF PageInv, TypeOK, CallRecord, Kinds
<1>2. Send(call) /\ UNCHANGED <<connecting, list, later>> /\ later' \in BOOLEAN
  BY DEF showUniqueColumnsValues, selection, connection, PageInv, TypeOK
<1> HIDE DEF call
<1>3. CallsKept
  BY <1>1, <1>2, OtherSent DEF Loads
<1>4. DisplayOK'
  BY DEF showUniqueColumnsValues, PageInv, TypeOK, DisplayOK, PaginationOnlyOnRows,
     selection, display, connection
<1> QED
  BY <1>3, <1>4, Halves

LEMMA QuerySteps ==
  ASSUME PageInv, runQuery \/ showQueryPanel
  PROVE  PageInv'
<1>1. UNCHANGED <<connecting, list, later>> /\ later' \in BOOLEAN
  BY DEF runQuery, showQueryPanel, selection, connection, PageInv, TypeOK
<1>2. CASE runQuery
  <2>1. CallsKept
    BY <1>1, <1>2, PlainCallSent, NothingSent DEF runQuery
  <2>2. DisplayOK'
    BY <1>2 DEF runQuery, setCurrentTab, PageInv, TypeOK, DisplayOK, PaginationOnlyOnRows,
       selection, connection, Tabs
  <2> QED
    BY <2>1, <2>2, Halves
<1>3. CASE showQueryPanel
  <2>1. CallsKept
    BY <1>1, <1>3, NothingSent DEF showQueryPanel
  <2>2. DisplayOK'
    BY <1>3, NothingTyped DEF showQueryPanel, SetTabAndLayout, PageInv, TypeOK, DisplayOK,
       PaginationOnlyOnRows, selection, connection, Tabs
  <2> QED
    BY <2>1, <2>2, Halves
<1> QED
  BY <1>2, <1>3

LEMMA WindowSteps ==
  ASSUME PageInv, EditConnection \/ CancelConnection
  PROVE  PageInv'
<1>1. CallsKept
  BY NothingSent DEF EditConnection, CancelConnection
<1>2. DisplayOK'
  BY DEF EditConnection, CancelConnection, PageInv, TypeOK, DisplayOK, PaginationOnlyOnRows,
     selection, display
<1> QED
  BY <1>1, <1>2, Halves

LEMMA SubmitStep ==
  ASSUME PageInv, SubmitConnection
  PROVE  PageInv'
<1>1. CallsKept
  BY ConnectSent DEF SubmitConnection
<1>2. DisplayOK'
  BY DEF SubmitConnection, PageInv, TypeOK, DisplayOK, PaginationOnlyOnRows, selection,
     display
<1> QED
  BY <1>1, <1>2, Halves

-----------------------------------------------------------------------------
\* Answers that display something, or nothing, and keep the list or load it.
LEMMA ViewAnswers ==
  ASSUME PageInv, NEW i, Arrives(i),
         \/ RowsAnswered(i) \/ StructureAnswered(i) \/ PanelAnswered(i) \/ ActivityAnswered(i)
         \/ UniqueAnswered(i) \/ QueryAnswered(i)
  PROVE  PageInv'
<1>1. UNCHANGED <<connecting, later>> /\ connecting' \in BOOLEAN /\ later' \in BOOLEAN
  BY DEF RowsAnswered, StructureAnswered, PanelAnswered, ActivityAnswered, UniqueAnswered,
     QueryAnswered, selection, connection, PageInv, TypeOK
<1>2. KeepList(Rest(i)) \/ loadSchemas(Rest(i))
  BY DEF RowsAnswered, StructureAnswered, PanelAnswered, ActivityAnswered, UniqueAnswered,
     QueryAnswered
<1>3. CallsKept
  BY <1>1, <1>2, CallAnswered
<1>4. pending[i] \in CallRecord /\ i \in DOMAIN pending
  BY <1>1, RestOK DEF Arrives
<1>5. CASE RowsAnswered(i)
  <2>1. pending[i].page \in Nat \ {0}
    BY <1>4, <1>5 DEF RowsAnswered, PageInv, CallsOK, CallRecord
  <2>2. PICK pages \in {-1} \cup 1 .. MaxPages :
          /\ updatePaginator(pending[i].page, pages)
          /\ buildTable([pending[i] EXCEPT !.page = IF pages < 0 THEN 1 ELSE @])
    BY <1>5 DEF RowsAnswered
  <2>3. pager' \in PagerRecord
    BY <2>1, <2>2, PageAssumption DEF updatePaginator, PagerRecord, PageAssumption
  <2>4. shown' \in CallRecord
    BY <1>4, <2>1, <2>2 DEF buildTable, CallRecord
  <2> QED
    BY <1>3, <1>5, <2>3, <2>4, Halves DEF RowsAnswered, SetTabAndLayout, PageInv, TypeOK,
       DisplayOK, PaginationOnlyOnRows, selection, connection, Tabs
<1>6. CASE StructureAnswered(i) \/ ActivityAnswered(i) \/ UniqueAnswered(i) \/ QueryAnswered(i)
  <2>1. DisplayOK'
    BY <1>4, <1>6 DEF StructureAnswered, ActivityAnswered, UniqueAnswered, QueryAnswered,
       buildTable, SetTabAndLayout, PageInv, TypeOK, DisplayOK, PaginationOnlyOnRows,
       selection, display,
       connection, Tabs
  <2> QED
    BY <1>3, <2>1, Halves
<1>7. CASE PanelAnswered(i)
  <2>1. LateTabs[pending[i].kind] \subseteq Tabs
    BY <1>7 DEF PanelAnswered, LateTabs, Tabs
  <2>2. DisplayOK'
    BY <1>4, <1>7, <2>1 DEF PanelAnswered, buildTable, SetTabAndLayout, PageInv, TypeOK,
       DisplayOK, PaginationOnlyOnRows, selection, connection
  <2> QED
    BY <1>3, <2>2, Halves
<1> QED
  BY <1>5, <1>6, <1>7

LEMMA ConnectionAnswers ==
  ASSUME PageInv, NEW i, Arrives(i),
         StartupAnswered(i) \/ ConnectAnswered(i) \/ DisconnectAnswered(i)
  PROVE  PageInv'
<1>1. /\ connecting' = connecting \/ pending[i].kind = "connect"
      /\ connecting' \in BOOLEAN /\ later' \in BOOLEAN
  BY DEF StartupAnswered, ConnectAnswered, DisconnectAnswered, PageInv, TypeOK
<1>2. KeepList(Rest(i)) \/ loadSchemas(Rest(i))
  BY DEF StartupAnswered, ConnectAnswered, DisconnectAnswered
<1>3. CallsKept
  BY <1>1, <1>2, CallAnswered
<1>4. DisplayOK'
  BY NothingTyped DEF StartupAnswered, ConnectAnswered, DisconnectAnswered, PageInv, TypeOK,
     DisplayOK, PaginationOnlyOnRows, selection, display
<1> QED
  BY <1>3, <1>4, Halves

LEMMA ListAnswers ==
  ASSUME PageInv, NEW i, Arrives(i),
         \/ SchemasAnswered(i) \/ ObjectsAnswered(i) \/ StatementAnswered(i)
         \/ DefinitionAnswered(i) \/ StopAnswered(i)
  PROVE  PageInv'
<1>1. /\ UNCHANGED connecting /\ connecting' \in BOOLEAN /\ later' \in BOOLEAN
      /\ overlap \in BOOLEAN /\ listed \in Nat
  BY DEF SchemasAnswered, ObjectsAnswered, StatementAnswered, DefinitionAnswered,
     StopAnswered,
     selection, connection, PageInv, TypeOK
<1>2. /\ Rest(i) \in Seq(CallRecord)
      /\ pending[i] \in CallRecord
      /\ CallsOK(Rest(i), connecting')
      /\ OneLoad(Rest(i), overlap, listed)
      /\ ~overlap /\ pending[i].kind \in Loads => ~Loading(Rest(i)) /\ listed = 0
  BY <1>1, RestOK
<1>3. DisplayOK'
  BY <1>2, NothingTyped DEF SchemasAnswered, ObjectsAnswered, StatementAnswered,
     DefinitionAnswered, StopAnswered, buildTable, SetTabAndLayout, PageInv, TypeOK,
     DisplayOK,
     PaginationOnlyOnRows, selection, display, connection, Tabs
<1>4. CASE StatementAnswered(i) \/ DefinitionAnswered(i) \/ StopAnswered(i)
  <2>1. KeepList(Rest(i)) \/ loadSchemas(Rest(i))
    BY <1>4 DEF StatementAnswered, DefinitionAnswered, StopAnswered
  <2>2. CallsKept
    BY <1>1, <2>1, CallAnswered
  <2> QED
    BY <1>3, <2>2, Halves
<1>5. CASE SchemasAnswered(i)
  <2>1. CASE KeepList(Rest(i))
    <3>1. CallsKept
      BY <1>1, <2>1, CallAnswered
    <3> QED
      BY <1>3, <3>1, Halves
  <2>2. CASE KeepList(Append(Rest(i), Call("objects")))
    <3>1. Call("objects") \in CallRecord /\ Call("objects").kind = "objects"
      BY CallTyped DEF Kinds
    <3>2. /\ pending' = Append(Rest(i), Call("objects")) /\ overlap' = overlap /\ listed' = listed
          /\ pending[i].kind \in Loads
      BY <1>5, <2>2 DEF KeepList, list, SchemasAnswered, Loads
    <3>3. pending' \in Seq(CallRecord) /\ CallsOK(pending', connecting')
      BY <1>1, <1>2, <3>1, <3>2, Appended, AppendOK
    <3>4. OneLoad(pending', overlap', listed')
      <4>1. CASE overlap
        BY <3>2, <4>1 DEF OneLoad
      <4>2. CASE ~overlap
        BY <1>1, <1>2, <3>1, <3>2, <4>2, BeginLoad
      <4> QED
        BY <4>1, <4>2
    <3>5. CallsKept
      BY <1>1, <3>2, <3>3, <3>4 DEF CallsKept
    <3> QED
      BY <1>3, <3>5, Halves
  <2> QED
    BY <1>5, <2>1, <2>2 DEF SchemasAnswered
<1>6. CASE ObjectsAnswered(i)
  <2>1. /\ pending' = Rest(i) /\ overlap' = overlap /\ listed' \in {listed, listed + 1}
        /\ pending[i].kind \in Loads
    BY <1>6 DEF ObjectsAnswered, Loads
  <2>2. OneLoad(pending', overlap', listed')
    BY <1>1, <1>2, <2>1 DEF OneLoad, Loading
  <2>3. CallsKept
    BY <1>1, <1>2, <2>1, <2>2 DEF CallsKept
  <2> QED
    BY <1>3, <2>3, Halves
<1> QED
  BY <1>4, <1>5, <1>6

LEMMA SwitchAnswer ==
  ASSUME PageInv, NEW i, Arrives(i), SwitchAnswered(i)
  PROVE  PageInv'
<1>1. CASE Reload
  BY <1>1, ReloadStep
<1>2. CASE /\ KeepList(Rest(i))
           /\ UNCHANGED <<selection, display, shown, pager, progress, connection, later>>
  <2>1. UNCHANGED connecting /\ connecting' \in BOOLEAN /\ later' \in BOOLEAN
    BY <1>2 DEF selection, connection, PageInv, TypeOK
  <2>2. CallsKept
    BY <1>2, <2>1, CallAnswered
  <2>3. DisplayOK'
    BY <1>2 DEF PageInv, TypeOK, DisplayOK, PaginationOnlyOnRows, selection, display,
       connection
  <2> QED
    BY <2>2, <2>3, Halves
<1> QED
  BY <1>1, <1>2 DEF SwitchAnswered

LEMMA StutterStep ==
  ASSUME PageInv, UNCHANGED vars
  PROVE  PageInv'
<1>1. CallsKept
  BY NothingSent DEF vars, selection, connection
<1>2. DisplayOK'
  BY DEF vars, selection, display, connection, PageInv, TypeOK, DisplayOK,
     PaginationOnlyOnRows
<1> QED
  BY <1>1, <1>2, Halves

LEMMA NextInv == PageInv /\ [Next]_vars => PageInv'
<1> SUFFICES ASSUME PageInv, [Next]_vars
             PROVE  PageInv'
  OBVIOUS
<1>1. CASE User
  BY <1>1, ClickObjectStep, ContentSteps, TabSteps, ListSteps, ReloadStep, UniqueStep, QuerySteps,
     WindowSteps, SubmitStep DEF User
<1>2. ASSUME NEW i, Answer(i)
      PROVE  PageInv'
  BY <1>2, ViewAnswers, ConnectionAnswers, ListAnswers, SwitchAnswer DEF Answer
<1> QED
  BY <1>1, <1>2, TabSteps, StutterStep DEF Next

\* The invariant of the page, with answers in any order.
THEOREM PageInvariance == Spec => []PageInv
BY InitInv, NextInv, PTL DEF Spec

\* The pagination is visible on the rows tab only, in whatever order callbacks
\* run.
THEOREM PagerOnItsTab == Spec => []PaginationOnlyOnRows
<1>1. PageInv => PaginationOnlyOnRows
  BY DEF PageInv
<1> QED
  BY <1>1, PageInvariance, PTL

\* The schemas are listed once, unless a load began during another, in whatever
\* order the loads' calls are answered.
THEOREM SchemasOnce == Spec => []ListedOnce
<1>1. PageInv => ListedOnce
  BY DEF PageInv, OneLoad, ListedOnce
<1> QED
  BY <1>1, PageInvariance, PTL

\* One connect call at a time, however often the window is opened and closed
\* while one is pending.
THEOREM OneConnectAtATime == Spec => []OneConnect
<1>1. PageInv => OneConnect
  BY DEF PageInv, CallsOK, OneConnect
<1> QED
  BY <1>1, PageInvariance, PTL

\* Every variable keeps its type; the pager stays at page 1 or above.
THEOREM PageTypes == Spec => []TypeOK
<1>1. PageInv => TypeOK
  BY DEF PageInv
<1> QED
  BY <1>1, PageInvariance, PTL

(***************************************************************************)
(* The pages of a table cover it, for any number of rows and any limit the *)
(* server accepts.                                                         *)
(***************************************************************************)

\* Division of a number of rows by a limit.
LEMMA Division ==
    ASSUME NEW a \in Nat, NEW b \in Nat \ {0}
    PROVE  /\ a \div b \in Nat
           /\ (a \div b) * b <= a
           /\ a < (a \div b) * b + b
           /\ Quotient(a, b) = a \div b
BY SMTT(30) DEF Quotient

\* A product is no smaller for a larger factor.
LEMMA Monotone ==
    ASSUME NEW x \in Int, NEW y \in Int, NEW b \in Nat \ {0}, x < y
    PROVE  x * b + b <= y * b
<1> DEFINE d == y - x - 1
<1>1. d \in Nat /\ y = x + 1 + d
  OBVIOUS
<1>2. d * b >= 0
  BY <1>1, SMTT(30)
<1>3. y * b = x * b + b + d * b
  BY <1>1, SMTT(30)
<1>4. x * b \in Int /\ y * b \in Int /\ d * b \in Int
  BY <1>1
<1> HIDE DEF d
<1> QED
  BY <1>2, <1>3, <1>4, SMTT(30)

\* The rows of page p are those from the offset of p to that of p + 1.
LEMMA RowsOfPage ==
    ASSUME NEW rows \in Nat, NEW limit \in Nat \ {0}, NEW p \in Nat \ {0}
    PROVE  /\ Offset(p, limit) \in Nat
           /\ TableRows(rows, limit, Offset(p, limit)) =
                {k \in 1 .. rows : (p - 1) * limit < k /\ k <= (p - 1) * limit + limit}
<1> DEFINE first == (p - 1) * limit
<1>1. first \in Nat
  BY SMTT(30)
<1>2. Offset(p, limit) = first
  BY DEF Offset
<1> HIDE DEF first
<1>3. TableRows(rows, limit, first) = {k \in 1 .. rows : first < k /\ k <= first + limit}
  BY <1>1 DEF TableRows
<1>4. Offset(p, limit) \in Nat /\ TableRows(rows, limit, Offset(p, limit)) = 
        {k \in 1 .. rows : first < k /\ k <= first + limit}
  BY <1>1, <1>2, <1>3
<1> QED
  BY <1>4 DEF first

\* The pages counted are as many as start before the last row.
LEMMA CountedPages ==
    ASSUME NEW rows \in Nat, NEW limit \in Nat \ {0}
    PROVE  /\ NumPages(rows, limit) \in Nat
           /\ \A p \in Nat \ {0} : p <= NumPages(rows, limit) <=> (p - 1) * limit < rows
<1> DEFINE q == rows \div limit
           n == NumPages(rows, limit)
<1>1. q \in Nat /\ q * limit <= rows /\ rows < q * limit + limit /\ q * limit \in Nat
  BY Division
<1>2. n = q + IF q * limit < rows THEN 1 ELSE 0
  BY Division DEF NumPages
<1> HIDE DEF q, n
<1>3. n \in Nat /\ q <= n /\ n <= q + 1
  BY <1>1, <1>2
<1>4. ASSUME NEW p \in Nat \ {0}
      PROVE  p <= n <=> (p - 1) * limit < rows
  <2>1. p - 1 \in Nat /\ (p - 1) * limit \in Int
    OBVIOUS
  <2>2. CASE p - 1 < q
    <3>1. (p - 1) * limit + limit <= q * limit
      BY <1>1, <2>1, <2>2, Monotone
    <3> QED
      BY <1>1, <1>3, <2>1, <2>2, <3>1
  <2>3. CASE p - 1 = q
    BY <1>1, <1>2, <1>3, <2>3
  <2>4. CASE p - 1 > q
    <3>1. q * limit + limit <= (p - 1) * limit
      BY <1>1, <2>1, <2>4, Monotone
    <3> QED
      BY <1>1, <1>3, <2>1, <2>4, <3>1
  <2> QED
    BY <1>1, <2>1, <2>2, <2>3, <2>4
<1> QED
  BY <1>3, <1>4 DEF n

\* Whatever the number of rows and the limit, going through the pages the
\* server counts shows every row, none twice and no empty page, and each
\* answer carries the number of the page that was asked for.
THEOREM EveryTablePaged ==
    ASSUME NEW rows \in Nat, NEW limit \in Int, Accepted(limit)
    PROVE  PagesCover(rows, limit)
<1>0. limit \in Nat \ {0}
  BY DEF Accepted
<1> DEFINE n == NumPages(rows, limit)
           page(p) == TableRows(rows, limit, Offset(p, limit))
<1>1. n \in Nat /\ \A p \in Nat \ {0} : p <= n <=> (p - 1) * limit < rows
  BY <1>0, CountedPages
<1>2. \A p \in Nat \ {0} :
        page(p) = {k \in 1 .. rows : (p - 1) * limit < k /\ k <= (p - 1) * limit + limit}
  BY <1>0, RowsOfPage
<1> HIDE DEF n, page
<1>3. ASSUME NEW k \in 1 .. rows PROVE \E p \in 1 .. n : k \in page(p)
  <2> DEFINE p == (k - 1) \div limit + 1
  <2>1. /\ k - 1 \in Nat
        /\ (k - 1) \div limit \in Nat
        /\ ((k - 1) \div limit) * limit <= k - 1
        /\ k - 1 < ((k - 1) \div limit) * limit + limit
    BY <1>0, Division
  <2>2. p \in Nat \ {0} /\ p - 1 = (k - 1) \div limit
    BY <2>1
  <2> HIDE DEF p
  <2>3. (p - 1) * limit < k /\ k <= (p - 1) * limit + limit /\ (p - 1) * limit \in Nat
    BY <1>0, <2>1, <2>2
  <2>4. p \in 1 .. n
    BY <1>1, <2>2, <2>3
  <2>5. k \in page(p)
    BY <1>2, <2>2, <2>3
  <2> QED
    BY <2>4, <2>5
<1>4. ASSUME NEW p \in 1 .. n, NEW q \in 1 .. n, p < q
      PROVE  page(p) \cap page(q) = {}
  <2>1. (p - 1) * limit + limit <= (q - 1) * limit
    <3>1. p - 1 \in Int /\ q - 1 \in Int /\ p - 1 < q - 1
      BY <1>1, <1>4
    <3> QED
      BY <1>0, <3>1, Monotone
  <2>2. (p - 1) * limit \in Int /\ (q - 1) * limit \in Int
    BY <1>0, <1>1
  <2>3. p \in Nat \ {0} /\ q \in Nat \ {0}
    BY <1>1
  <2>4. ASSUME NEW k \in page(p), k \in page(q)
        PROVE  FALSE
    <3>1. k \in Int /\ k <= (p - 1) * limit + limit /\ (q - 1) * limit < k
      BY <1>2, <2>3, <2>4
    <3> QED
      BY <1>0, <2>1, <2>2, <3>1
  <2> QED
    BY <2>4
<1>5. ASSUME NEW p \in 1 .. n PROVE page(p) # {} /\ PageNumber(limit, Offset(p, limit)) = p
  <2>1. p \in Nat \ {0} /\ Offset(p, limit) = (p - 1) * limit /\ (p - 1) * limit \in Nat
    BY <1>0, <1>1, RowsOfPage DEF Offset
  <2>2. (p - 1) * limit < rows
    BY <1>1, <2>1
  <2>3. (p - 1) * limit + 1 \in page(p)
    BY <1>0, <1>2, <2>1, <2>2
  <2>4. ((p - 1) * limit) \div limit = p - 1
    <3> DEFINE x == (p - 1) * limit
               y == x \div limit
    <3>1. y \in Nat /\ y * limit <= x /\ x < y * limit + limit /\ x \in Nat
      BY <1>0, <2>1, Division
    <3>2. y * limit \in Nat
      BY <1>0, <3>1
    <3>3. y < p - 1 => y * limit + limit <= x
      BY <1>0, <1>1, <3>1, Monotone
    <3>4. p - 1 < y => x + limit <= y * limit
      BY <1>0, <1>1, <3>1, Monotone
    <3> HIDE DEF x, y
    <3>5. y = p - 1
      BY <1>0, <1>1, <2>1, <3>1, <3>2, <3>3, <3>4
    <3> QED
      BY <3>5 DEF x, y
  <2>5. PageNumber(limit, Offset(p, limit)) = p
    BY <1>1, <2>1, <2>4 DEF PageNumber, Quotient
  <2> QED
    BY <2>3, <2>5
<1>6. \A p, q \in 1 .. n : page(p) \cap page(q) # {} => p = q
  <2>1. SUFFICES ASSUME NEW p \in 1 .. n, NEW q \in 1 .. n, page(p) \cap page(q) # {}
                 PROVE  p = q
    OBVIOUS
  <2>2. ~(p < q) /\ ~(q < p)
    BY <1>4, <2>1
  <2> QED
    BY <1>1, <2>2
<1> QED
  BY <1>3, <1>5, <1>6 DEF PagesCover, n, page

\* However many pages the pager is told of, in whatever order answers arrive,
\* they are the pages of the table: its buttons reach every row, and none of
\* the pages they reach is empty.
THEOREM PagerCoversTable == Spec => []PagesCoverTable
<1>1. PageInv => PagesCoverTable
  <2>1. \A rows \in 0 .. MaxRows, limit \in {n \in 0 .. MaxRows + 1 : Accepted(n)} :
          PagesCover(rows, limit)
    BY EveryTablePaged, PageAssumption
  <2>2. PageInv => pager.pages \in 1 .. MaxPages
    BY DEF PageInv, TypeOK, PagerRecord
  <2> QED
    BY <2>1, <2>2 DEF PagesCoverTable, Covered
<1> QED
  BY <1>1, PageInvariance, PTL

-----------------------------------------------------------------------------
(***************************************************************************)
(* When all calls are answered the page has settled: on the selected       *)
(* object, and with a pager that counts from the page shown.               *)
(***************************************************************************)

\* Where the calls left are, and where they were, when the one at i is taken out.
Was(i, j) == IF j < i THEN j ELSE j + 1
Now(i, j) == IF j < i THEN j ELSE j - 1

LEMMA LeftInPlace ==
  ASSUME NEW calls \in Seq(CallRecord), NEW i \in DOMAIN calls
  PROVE  LET left == RemoveAt(calls, i)
         IN  /\ left \in Seq(CallRecord)
             /\ DOMAIN left \subseteq Nat \ {0}
             /\ \A j \in DOMAIN left : Was(i, j) \in DOMAIN calls \ {i} /\ left[j] = calls[Was(i, j)]
             /\ \A j \in DOMAIN calls \ {i} :
                  /\ Now(i, j) \in DOMAIN left /\ left[Now(i, j)] = calls[j]
                  /\ \A n \in DOMAIN left : j > Was(i, n) => Now(i, j) > n
<1> DEFINE left == RemoveAt(calls, i)
<1>1. /\ left \in Seq(CallRecord)
      /\ DOMAIN left = 1 .. Len(calls) - 1
      /\ \A j \in DOMAIN left :
           Was(i, j) \in DOMAIN calls \ {i} /\ left[j] = calls[Was(i, j)]
  BY Removed DEF Was
<1>2. DOMAIN calls = 1 .. Len(calls) /\ Len(calls) \in Nat
  OBVIOUS
<1> HIDE DEF left
<1>3. ASSUME NEW j \in DOMAIN calls \ {i}
      PROVE  /\ Now(i, j) \in DOMAIN left /\ Was(i, Now(i, j)) = j
             /\ \A n \in DOMAIN left : j > Was(i, n) => Now(i, j) > n
  BY <1>1, <1>2 DEF Was, Now
<1>4. \A j \in DOMAIN calls \ {i} : Now(i, j) \in DOMAIN left /\ left[Now(i, j)] = calls[j]
  BY <1>1, <1>3
<1> QED
  BY <1>1, <1>3, <1>4 DEF left

-----------------------------------------------------------------------------
\* ObjectFollows when a call is sent for the selected object, or for none.
LEMMA FollowsSent ==
  ASSUME NEW calls \in Seq(CallRecord), NEW call \in CallRecord, NEW o, NEW last, NEW next,
         ObjectFollows(calls, last, o),
         call.kind \in OfObject => call.object = o,
         next.kind \in OfObject => next = last
  PROVE  ObjectFollows(Append(calls, call), next, o)
<1> DEFINE longer == Append(calls, call)
<1>1. /\ \A i \in DOMAIN calls : longer[i] = calls[i]
      /\ \A i \in DOMAIN longer : i \in DOMAIN calls \/ longer[i] = call
      /\ DOMAIN calls \subseteq DOMAIN longer
  <2>1. DOMAIN longer = 1 .. Len(calls) + 1 /\ DOMAIN calls = 1 .. Len(calls)
    BY Appended
  <2> QED
    BY <2>1, Appended
<1> HIDE DEF longer
<1>2. \A n : Follows(calls, n, o) => Follows(longer, n, o)
  BY <1>1 DEF Follows
<1>3. ObjectFollows(longer, next, o)
  BY <1>1, <1>2 DEF ObjectFollows
<1> QED
  BY <1>3 DEF longer

\* When another object is selected, the call sent for it follows everything.
LEMMA FollowsSelected ==
  ASSUME NEW calls \in Seq(CallRecord), NEW call \in CallRecord, NEW last,
         call.kind \in OfObject
  PROVE  ObjectFollows(Append(calls, call), last, call.object)
<1> DEFINE longer == Append(calls, call)
<1>1. /\ DOMAIN longer = 1 .. Len(calls) + 1 /\ Len(calls) \in Nat
      /\ longer[Len(calls) + 1] = call
  BY Appended
<1> HIDE DEF longer
<1>2. \A n \in 0 .. Len(calls) : Follows(longer, n, call.object)
  BY <1>1 DEF Follows
<1>3. \A n \in DOMAIN longer : n \in 0 .. Len(calls) \/ longer[n] = call
  BY <1>1
<1>4. ObjectFollows(longer, last, call.object)
  BY <1>1, <1>2, <1>3 DEF ObjectFollows
<1> QED
  BY <1>4 DEF longer

\* When a call is answered that overtakes none for another object, what it
\* displays is followed by what followed it, and what followed the others is left.
LEMMA FollowsAnswered ==
  ASSUME NEW calls \in Seq(CallRecord), NEW i \in DOMAIN calls, NEW o, NEW last, NEW next,
         ObjectFollows(calls, last, o),
         calls[i].kind \in OfObject =>
            \A j \in 1 .. i - 1 : calls[j].kind \in OfObject => calls[j].object = calls[i].object,
         next.kind \in OfObject =>
            \/ next = last /\ calls[i].kind \notin OfObject
            \/ calls[i].kind \in OfObject /\ next.object = calls[i].object
  PROVE  ObjectFollows(RemoveAt(calls, i), next, o)
<1> DEFINE left == RemoveAt(calls, i)
<1>1. /\ DOMAIN left \subseteq Nat \ {0} /\ DOMAIN calls \subseteq Nat \ {0}
      /\ \A j \in DOMAIN left : Was(i, j) \in DOMAIN calls \ {i} /\ left[j] = calls[Was(i, j)]
      /\ \A j \in DOMAIN calls \ {i} :
           /\ Now(i, j) \in DOMAIN left /\ left[Now(i, j)] = calls[j]
           /\ \A n \in DOMAIN left : j > Was(i, n) => Now(i, j) > n
  BY LeftInPlace
<1> HIDE DEF left
<1>2. ASSUME NEW j \in DOMAIN calls \ {i}, calls[j].kind \in OfObject, calls[j].object = o
      PROVE  Follows(left, 0, o)
  <2>1. Now(i, j) \in DOMAIN left /\ left[Now(i, j)] = calls[j] /\ Now(i, j) > 0
    BY <1>1
  <2> QED
    BY <1>2, <2>1 DEF Follows
<1>3. ASSUME next.kind \in OfObject, next.object # o
      PROVE  Follows(left, 0, o)
  <2>1. CASE next = last /\ calls[i].kind \notin OfObject
    <3>1. PICK j \in DOMAIN calls : calls[j].kind \in OfObject /\ calls[j].object = o
      BY <1>3, <2>1 DEF ObjectFollows, Follows
    <3> QED
      BY <1>2, <2>1, <3>1
  <2>2. CASE calls[i].kind \in OfObject /\ next.object = calls[i].object
    <3>1. PICK k \in DOMAIN calls : k > i /\ calls[k].kind \in OfObject /\ calls[k].object = o
      BY <1>3, <2>2 DEF ObjectFollows, Follows
    <3> QED
      BY <1>1, <1>2, <3>1
  <2> QED
    BY <1>3, <2>1, <2>2
<1>4. ASSUME NEW n \in DOMAIN left, left[n].kind \in OfObject, left[n].object # o
      PROVE  Follows(left, n, o)
  <2>1. n \in Nat /\ Was(i, n) \in DOMAIN calls /\ left[n] = calls[Was(i, n)]
    BY <1>1
  <2>2. PICK j \in DOMAIN calls : j > Was(i, n) /\ calls[j].kind \in OfObject /\ calls[j].object = o
    BY <1>4, <2>1 DEF ObjectFollows, Follows
  <2>3. j # i
    <3>1. ASSUME j = i
          PROVE  FALSE
      <4>1. Was(i, n) \in 1 .. i - 1
        BY <1>1, <2>1, <2>2, <3>1
      <4> QED
        BY <1>4, <2>1, <2>2, <3>1, <4>1
    <3> QED
      BY <3>1
  <2>4. Now(i, j) > n /\ Now(i, j) \in DOMAIN left /\ left[Now(i, j)] = calls[j]
    BY <1>1, <2>2, <2>3
  <2> QED
    BY <2>2, <2>4 DEF Follows
<1>5. ObjectFollows(left, next, o)
  BY <1>3, <1>4 DEF ObjectFollows
<1> QED
  BY <1>5 DEF left

-----------------------------------------------------------------------------
\* What Awaits becomes when a call is sent, and when one is answered.
LEMMA AwaitsSent ==
  ASSUME PageInv, NEW kinds, NEW call \in CallRecord, Send(call)
  PROVE  /\ Awaits(kinds) \/ call.kind \in kinds => Awaits(kinds)'
         /\ Awaits(kinds)' => Awaits(kinds) \/ call.kind \in kinds
<1>1. pending \in Seq(CallRecord) /\ pending' = Append(pending, call)
  BY DEF PageInv, TypeOK, Send
<1>2. /\ DOMAIN pending' = 1 .. Len(pending) + 1 /\ DOMAIN pending = 1 .. Len(pending)
      /\ Len(pending) \in Nat
      /\ pending'[Len(pending) + 1] = call
      /\ \A i \in DOMAIN pending : pending'[i] = pending[i]
      /\ \A i \in DOMAIN pending' : i \in DOMAIN pending \/ pending'[i] = call
  BY <1>1, Appended
<1> QED
  BY <1>2 DEF Awaits

LEMMA AwaitsAnswered ==
  ASSUME PageInv, NEW i \in DOMAIN pending, NEW kinds,
         \/ pending' = Rest(i)
         \/ \E call \in CallRecord : pending' = Append(Rest(i), call) /\ call.kind \notin kinds
  PROVE  /\ Awaits(kinds) /\ pending[i].kind \notin kinds => Awaits(kinds)'
         /\ Awaits(kinds)' => Awaits(kinds)
<1>1. pending \in Seq(CallRecord)
  BY DEF PageInv, TypeOK
<1> DEFINE left == Rest(i)
<1>2. /\ left \in Seq(CallRecord)
      /\ \A j \in DOMAIN left : Was(i, j) \in DOMAIN pending /\ left[j] = pending[Was(i, j)]
      /\ \A j \in DOMAIN pending \ {i} : Now(i, j) \in DOMAIN left /\ left[Now(i, j)] = pending[j]
  BY <1>1, LeftInPlace DEF Rest
<1> HIDE DEF left
<1>3. CASE pending' = left
  BY <1>2, <1>3 DEF Awaits
<1>4. ASSUME NEW call \in CallRecord, pending' = Append(left, call), call.kind \notin kinds
      PROVE  /\ Awaits(kinds) /\ pending[i].kind \notin kinds => Awaits(kinds)'
             /\ Awaits(kinds)' => Awaits(kinds)
  <2>1. /\ DOMAIN pending' = 1 .. Len(left) + 1 /\ DOMAIN left = 1 .. Len(left) /\ Len(left) \in Nat
        /\ \A j \in DOMAIN left : pending'[j] = left[j]
        /\ \A j \in DOMAIN pending' : j \in DOMAIN left \/ pending'[j] = call
    BY <1>2, <1>4, Appended
  <2>2. DOMAIN left \subseteq DOMAIN pending'
    BY <2>1
  <2>3. ASSUME NEW j \in DOMAIN pending, pending[j].kind \in kinds, pending[i].kind \notin kinds
        PROVE  Awaits(kinds)'
    <3>1. Now(i, j) \in DOMAIN pending' /\ pending'[Now(i, j)] = pending[j]
      BY <1>2, <2>1, <2>2, <2>3
    <3> QED
      BY <2>3, <3>1 DEF Awaits
  <2>4. ASSUME NEW j \in DOMAIN pending', pending'[j].kind \in kinds
        PROVE  Awaits(kinds)
    <3>1. Was(i, j) \in DOMAIN pending /\ pending'[j] = pending[Was(i, j)]
      BY <1>2, <1>4, <2>1, <2>4
    <3> QED
      BY <2>4, <3>1 DEF Awaits
  <2> QED
    BY <2>3, <2>4 DEF Awaits
<1> QED
  BY <1>3, <1>4 DEF left

-----------------------------------------------------------------------------
\* A user's step that leaves the selection: a call, if there is one, is for the
\* selected object, and the pager is turned only with a call for rows.
Selected ==
    /\ UNCHANGED selection
    /\ shown'.kind \in OfObject => shown' = shown
    /\ layout' = "paged" => layout = "paged"
    /\ \/ UNCHANGED pending
       \/ \E call \in CallRecord :
            /\ Send(call)
            /\ call.kind \in OfObject => call.object = object /\ object # NoObject
    /\ \/ pager' = pager
       \/ pager'.page = 1
       \/ layout = "paged" /\ showTableContent(object, pager'.page)

LEMMA SelectedStep ==
  ASSUME SettledInv, PageInv', Selected
  PROVE  SettledInv'
<1>1. PageInv /\ pending \in Seq(CallRecord) /\ object' = object /\ astray' = astray
  BY DEF SettledInv, PageInv, TypeOK, Selected, selection
<1>2. ASSUME ~astray
      PROVE  ObjectFollows(pending', shown', object')
  <2>1. CASE UNCHANGED pending
    BY <1>1, <1>2, <2>1 DEF Selected, SettledInv, ObjectFollows
  <2>2. ASSUME NEW call \in CallRecord, Send(call), call.kind \in OfObject => call.object = object
        PROVE  ObjectFollows(pending', shown', object')
    <3>1. ObjectFollows(Append(pending, call), shown', object)
      BY <1>1, <1>2, <2>2, FollowsSent DEF Selected, SettledInv
    <3> QED
      BY <1>1, <2>2, <3>1 DEF Send
  <2> QED
    BY <2>1, <2>2 DEF Selected
<1>3. /\ \A kinds : Awaits(kinds) => Awaits(kinds)'
      /\ Awaits({"rows"})' => Awaits({"rows"}) \/ object # NoObject
  <2>1. CASE UNCHANGED pending
    BY <2>1 DEF Awaits
  <2>2. ASSUME NEW call \in CallRecord, Send(call), call.kind \in OfObject => object # NoObject
        PROVE  /\ \A kinds : Awaits(kinds) => Awaits(kinds)'
               /\ Awaits({"rows"})' => Awaits({"rows"}) \/ object # NoObject
    BY <1>1, <2>2, AwaitsSent DEF OfObject
  <2> QED
    BY <2>1, <2>2 DEF Selected
<1>4. PagerFollows'
  <2>1. layout' = "paged" \/ Awaits({"rows"})' => object' # NoObject
    BY <1>1, <1>3 DEF Selected, SettledInv, PagerFollows
  <2>2. layout' = "paged" /\ object' \in Functions =>
           astray' \/ Awaits({"structure", "indexes"})'
    BY <1>1, <1>3 DEF Selected, SettledInv, PagerFollows
  <2>3. ASSUME layout' = "paged", shown'.kind = "rows"
        PROVE  pager'.page \in {1, shown'.page} \/ Awaits({"rows"})' \/ object' \in Functions
    <3>1. layout = "paged" /\ shown' = shown /\ object # NoObject
      BY <2>3 DEF Selected, OfObject, SettledInv, PagerFollows
    <3>2. CASE pager' = pager \/ pager'.page = 1
      BY <1>1, <1>3, <2>3, <3>1, <3>2 DEF SettledInv, PagerFollows
    <3>3. CASE showTableContent(object, pager'.page)
      <4>1. CASE object \in Tables
        <5> DEFINE call == [kind |-> "rows", object |-> object, page |-> pager'.page]
        <5>1. call \in CallRecord /\ call.kind = "rows" /\ Send(call)
          BY <3>3, <4>1 DEF CallRecord, Kinds, Objects, PageInv, TypeOK, PagerRecord,
                             showTableContent
        <5> HIDE DEF call
        <5> QED
          BY <1>1, <5>1, AwaitsSent
      <4>2. CASE object \notin Tables
        BY <1>1, <3>1, <4>2 DEF PageInv, TypeOK, Objects
      <4> QED
        BY <4>1, <4>2
    <3> QED
      BY <3>2, <3>3 DEF Selected
  <2> QED
    BY <2>1, <2>2, <2>3 DEF PagerFollows
<1> QED
  BY <1>1, <1>2, <1>4 DEF SettledInv

\* The user's steps are of that kind, except for a click on an object.
LEMMA ContentSelected ==
  ASSUME PageInv, NEW page \in Nat \ {0}, showTableContent(object, page)
  PROVE  \/ UNCHANGED pending
         \/ \E call \in CallRecord :
              /\ Send(call)
              /\ call.kind \in OfObject => call.object = object /\ object # NoObject
<1> DEFINE call == [kind |-> "rows", object |-> object, page |-> page]
<1>1. CASE object \in Tables
  <2>1. call \in CallRecord /\ call.object = object /\ Send(call) /\ object # NoObject
    BY <1>1, PageAssumption DEF CallRecord, Kinds, Objects, showTableContent, PageAssumption
  <2> HIDE DEF call
  <2> QED
    BY <2>1
<1>2. CASE object \notin Tables
  BY <1>2 DEF showTableContent
<1> QED
  BY <1>1, <1>2

LEMMA ContentStepsSelected ==
  ASSUME PageInv, ClickContent \/ NextPage \/ PrevPage \/ FilterRows
  PROVE  Selected
<1>1. pager.page \in Nat \ {0} /\ pager.page + 1 \in Nat \ {0}
  BY DEF PageInv, TypeOK, PagerRecord
<1>2. PrevPage => pager.page - 1 \in Nat \ {0}
  BY <1>1 DEF PrevPage
<1>3. /\ UNCHANGED <<selection, shown, layout>>
      /\ pager \in PagerRecord
  BY DEF ClickContent, NextPage, PrevPage, FilterRows, selection, display, PageInv, TypeOK
<1>4. \/ UNCHANGED pending
      \/ \E call \in CallRecord :
           /\ Send(call)
           /\ call.kind \in OfObject => call.object = object /\ object # NoObject
  BY <1>1, <1>2, ContentSelected DEF ClickContent, NextPage, PrevPage, FilterRows
<1>5. \/ pager' = pager
      \/ pager'.page = 1
      \/ layout = "paged" /\ showTableContent(object, pager'.page)
  BY <1>3 DEF ClickContent, NextPage, PrevPage, FilterRows, PagerRecord
<1> QED
  BY <1>3, <1>4, <1>5 DEF Selected

\* An action sends a call that is not for an object.
LEMMA PlainSelected ==
  ASSUME NEW call \in CallRecord, Send(call), call.kind \notin OfObject,
         UNCHANGED <<selection, pager>>,
         shown'.kind \in OfObject => shown' = shown,
         layout' = "paged" => layout = "paged"
  PROVE  Selected
BY DEF Selected

LEMMA ObjectStepsSelected ==
  ASSUME PageInv, ClickStructure \/ ClickIndexes
  PROVE  Selected
<1> DEFINE call(kind) == [kind |-> kind, object |-> object, page |-> 0]
<1>1. /\ UNCHANGED <<selection, shown, pager>>
      /\ layout' = "paged" => layout = "paged"
      /\ object \in Objects /\ object # NoObject
  BY PageAssumption DEF ClickStructure, ClickIndexes, showTableStructure, SetTabAndLayout,
     selection, display, Objects, PageAssumption
<1>2. /\ call("structure") \in CallRecord /\ call("structure").object = object
      /\ call("indexes") \in CallRecord /\ call("indexes").object = object
  BY <1>1 DEF CallRecord, Kinds
<1>3. Send(call("structure")) \/ Send(call("indexes"))
  BY DEF ClickStructure, ClickIndexes, showTableStructure, showTableIndexes
<1> HIDE DEF call
<1> QED
  BY <1>1, <1>2, <1>3 DEF Selected

LEMMA PlainStepsSelected ==
  ASSUME PageInv,
         \/ ShowPanel \/ showActivityPanel \/ ActivityTimer \/ CloseConnection
         \/ performTableAction \/ performRowAction \/ SwitchDatabase \/ refreshTables
         \/ SubmitConnection
  PROVE  Selected
<1> DEFINE Plain == {"panel", "activity", "disconnect", "statement", "definition", "stop",
                     "switch", "schemas", "connect"}
<1>1. UNCHANGED <<selection, pager, shown>> /\ (layout' = "paged" => layout = "paged")
  BY DEF ShowPanel, showActivityPanel, ActivityTimer, ActivityPanel, CloseConnection,
     performTableAction, performRowAction, SwitchDatabase, refreshTables, SubmitConnection,
     SetTabAndLayout, selection, display
<1>2. \E kind \in Plain : Send(Call(kind))
  BY DEF ShowPanel, showActivityPanel, ActivityTimer, ActivityPanel, CloseConnection,
     performTableAction, performRowAction, SwitchDatabase, refreshTables, loadSchemas, Send,
     SubmitConnection
<1>3. \A kind \in Plain : Call(kind) \in CallRecord /\ Call(kind).kind \notin OfObject
  BY CallTyped DEF Kinds, OfObject
<1> QED
  BY <1>1, <1>2, <1>3, PlainSelected

LEMMA OtherStepsSelected ==
  ASSUME PageInv,
         \/ showQueryPanel \/ showUniqueColumnsValues \/ runQuery
         \/ EditConnection \/ CancelConnection \/ UNCHANGED vars
  PROVE  Selected
<1>1. CASE showQueryPanel \/ EditConnection \/ CancelConnection \/ UNCHANGED vars
  <2>1. UNCHANGED <<selection, pager, pending>> /\ (layout' = "paged" => layout = "paged")
    BY <1>1 DEF showQueryPanel, EditConnection, CancelConnection, vars, SetTabAndLayout,
       selection, display
  <2>2. shown'.kind \in OfObject => shown' = shown
    BY <1>1, NothingTyped DEF showQueryPanel, EditConnection, CancelConnection, vars, OfObject
  <2> QED
    BY <2>1, <2>2 DEF Selected
<1>2. CASE showUniqueColumnsValues
  <2> DEFINE call == [shown EXCEPT !.kind = "unique", !.page = 0]
  <2>1. call \in CallRecord /\ call.kind \notin OfObject /\ Send(call)
    BY <1>2 DEF PageInv, TypeOK, CallRecord, Kinds, showUniqueColumnsValues, OfObject
  <2> HIDE DEF call
  <2> QED
    BY <1>2, <2>1, PlainSelected DEF showUniqueColumnsValues, selection, display
<1>3. CASE runQuery
  <2>1. UNCHANGED <<selection, pager, shown>> /\ (layout' = "paged" => layout = "paged")
    BY <1>3 DEF runQuery, setCurrentTab
  <2>2. Call("query") \in CallRecord /\ Call("query").kind \notin OfObject
    BY CallTyped DEF Kinds, OfObject
  <2>3. UNCHANGED pending \/ Send(Call("query"))
    BY <1>3 DEF runQuery
  <2> QED
    BY <2>1, <2>2, <2>3 DEF Selected
<1> QED
  BY <1>1, <1>2, <1>3

-----------------------------------------------------------------------------
\* A click on an object: whatever tab it loads, a call for it is sent.
LEMMA ClickSettled ==
  ASSUME SettledInv, PageInv', NEW o \in Objects, ClickObject(o)
  PROVE  SettledInv'
<1>1. /\ PageInv /\ pending \in Seq(CallRecord) /\ o # NoObject /\ object' = o
      /\ pager'.page = 1
  BY PageAssumption DEF SettledInv, PageInv, TypeOK, ClickObject, Objects, PageAssumption
<1>2. \E call \in CallRecord : Send(call) /\ call.kind \in OfObject /\ call.object = o
  <2> DEFINE call(kind, page) == [kind |-> kind, object |-> o, page |-> page]
  <2>1. \A kind \in OfObject, page \in Nat :
          call(kind, page) \in CallRecord /\ call(kind, page).kind = kind /\ call(kind, page).object = o
    BY DEF CallRecord, Kinds, OfObject
  <2>2. Send(call("structure", 0)) \/ Send(call("indexes", 0)) \/ Send(call("rows", 1))
    BY DEF ClickObject, showTableStructure, showTableIndexes, showTableContent, Objects
  <2> HIDE DEF call
  <2> QED
    BY <2>1, <2>2 DEF OfObject
<1>3. ObjectFollows(pending', shown', object')
  BY <1>1, <1>2, FollowsSelected DEF Send
<1>4. layout' = "paged" => o \notin Functions
  BY DEF ClickObject, showTableStructure, SetTabAndLayout
<1>5. PagerFollows'
  BY <1>1, <1>4 DEF PagerFollows
<1> QED
  BY <1>3, <1>5 DEF SettledInv

\* A new page shows nothing, and waits for the start-up call.
LEMMA FreshPage ==
  LET calls == <<Call("startup")>>
  IN  /\ \A o : ObjectFollows(calls, Nothing, o)
      /\ \A i \in DOMAIN calls : calls[i].kind = "startup"
<1> DEFINE calls == <<Call("startup")>>
<1>1. \A i \in DOMAIN calls : calls[i].kind = "startup"
  BY CallTyped DEF Kinds
<1> HIDE DEF calls
<1>2. \A o : ObjectFollows(calls, Nothing, o)
  BY <1>1, NothingTyped DEF ObjectFollows, OfObject
<1> QED
  BY <1>1, <1>2 DEF calls

LEMMA ReloadSettled ==
  ASSUME Reload, PageInv'
  PROVE  SettledInv'
<1>1. ObjectFollows(pending', shown', object')
  BY FreshPage DEF Reload
<1>2. ~Awaits({"rows"})' /\ layout' # "paged"
  BY FreshPage DEF Reload, Awaits
<1> QED
  BY <1>1, <1>2 DEF SettledInv, PagerFollows

-----------------------------------------------------------------------------
\* An answer other than one that reloads the page: it displays what was called
\* for, or nothing of an object, or goes astray.
Drawn(i) ==
    /\ UNCHANGED object
    /\ ~astray' => ~astray /\ ~Overtakes(i)
    /\ \/ pending' = Rest(i)
       \/ \E call \in CallRecord : pending' = Append(Rest(i), call) /\ call.kind \in Loads
    /\ \/ shown' = shown /\ (astray' \/ pending[i].kind \notin OfObject)
       \/ shown'.kind = pending[i].kind /\ shown'.object = pending[i].object
       \/ shown'.kind \notin OfObject /\ pending[i].kind \notin OfObject
    /\ layout' = "paged" => layout = "paged" \/ pending[i].kind = "rows"
    /\ IF pending[i].kind = "rows" THEN pager'.page \in {1, shown'.page} ELSE UNCHANGED pager
    /\ pending[i].kind \in {"structure", "indexes"} /\ object \in Functions =>
         astray' \/ layout' # "paged"

LEMMA DrawnStep ==
  ASSUME SettledInv, PageInv', NEW i \in DOMAIN pending, Drawn(i)
  PROVE  SettledInv'
<1>1. /\ PageInv /\ pending \in Seq(CallRecord) /\ object' = object
      /\ PagerFollows
      /\ ~astray' => ~astray /\ ~Overtakes(i) /\ ObjectFollows(pending, shown, object)
  BY DEF SettledInv, PageInv, TypeOK, Drawn
<1>2. ASSUME ~astray'
      PROVE  ObjectFollows(pending', shown', object')
  <2>1. ObjectFollows(Rest(i), shown', object)
    <3>1. pending[i].kind \in OfObject =>
            \A j \in 1 .. i - 1 :
              pending[j].kind \in OfObject => pending[j].object = pending[i].object
      BY <1>1, <1>2 DEF Overtakes
    <3>2. shown'.kind \in OfObject =>
            \/ shown' = shown /\ pending[i].kind \notin OfObject
            \/ pending[i].kind \in OfObject /\ shown'.object = pending[i].object
      BY <1>2 DEF Drawn
    <3> QED
      BY <1>1, <1>2, <3>1, <3>2, FollowsAnswered DEF Rest
  <2>2. Rest(i) \in Seq(CallRecord)
    BY <1>1, LeftInPlace DEF Rest
  <2>3. ASSUME NEW call \in CallRecord, pending' = Append(Rest(i), call), call.kind \in Loads
        PROVE  ObjectFollows(pending', shown', object')
    BY <1>1, <2>1, <2>2, <2>3, FollowsSent DEF Loads, OfObject
  <2> QED
    BY <1>1, <2>1, <2>3 DEF Drawn
<1>3. \A kinds \in SUBSET OfObject :
        /\ Awaits(kinds) /\ pending[i].kind \notin kinds => Awaits(kinds)'
        /\ Awaits(kinds)' => Awaits(kinds)
  BY <1>1, AwaitsAnswered DEF Drawn, OfObject, Loads
<1>4. {"rows"} \in SUBSET OfObject /\ {"structure", "indexes"} \in SUBSET OfObject
  BY DEF OfObject
<1>5. layout' = "paged" \/ Awaits({"rows"})' => object' # NoObject
  <2>1. pending[i].kind = "rows" => Awaits({"rows"})
    BY DEF Awaits
  <2> QED
    BY <1>1, <1>3, <1>4, <2>1 DEF Drawn, PagerFollows
<1>6. ASSUME layout' = "paged", object \in Functions, ~astray'
      PROVE  Awaits({"structure", "indexes"})'
  <2>1. CASE pending[i].kind = "rows"
    <3>1. pending[i].object # object
      BY <1>1, <1>6, <2>1, PageAssumption DEF PageInv, CallsOK, PageAssumption
    <3>2. PICK j \in DOMAIN pending : pending[j].kind \in OfObject /\ pending[j].object = object
      BY <1>1, <1>6, <2>1, <3>1 DEF ObjectFollows, Follows, OfObject
    <3>3. pending[j].kind # "rows"
      BY <1>1, <1>6, <3>2, PageAssumption DEF PageInv, CallsOK, PageAssumption
    <3>4. Awaits({"structure", "indexes"})
      BY <3>2, <3>3 DEF Awaits, OfObject
    <3> QED
      BY <1>3, <1>4, <2>1, <3>4
  <2>2. CASE pending[i].kind # "rows"
    BY <1>1, <1>3, <1>4, <1>6, <2>2 DEF Drawn, PagerFollows
  <2> QED
    BY <2>1, <2>2
<1>7. ASSUME layout' = "paged", shown'.kind = "rows"
      PROVE  pager'.page \in {1, shown'.page} \/ Awaits({"rows"})' \/ object \in Functions
  <2>1. CASE pending[i].kind = "rows"
    BY <2>1 DEF Drawn
  <2>2. CASE pending[i].kind # "rows"
    BY <1>1, <1>3, <1>4, <1>7, <2>2 DEF Drawn, PagerFollows, OfObject
  <2> QED
    BY <2>1, <2>2
<1>8. PagerFollows'
  BY <1>1, <1>5, <1>6, <1>7 DEF PagerFollows
<1> QED
  BY <1>2, <1>8 DEF SettledInv

LEMMA ListDrawn ==
  ASSUME NEW i, KeepList(Rest(i)) \/ loadSchemas(Rest(i))
  PROVE  \/ pending' = Rest(i)
         \/ \E call \in CallRecord : pending' = Append(Rest(i), call) /\ call.kind \in Loads
<1>1. Call("schemas") \in CallRecord /\ Call("schemas").kind \in Loads
  BY CallTyped DEF Kinds, Loads
<1> QED
  BY <1>1 DEF KeepList, loadSchemas

LEMMA RowsDrawn ==
  ASSUME PageInv, NEW i \in DOMAIN pending, RowsAnswered(i)
  PROVE  Drawn(i)
<1>1. pending[i] \in CallRecord
  BY DEF PageInv, TypeOK
<1>2. PICK pages \in {-1} \cup 1 .. MaxPages :
        /\ updatePaginator(pending[i].page, pages)
        /\ buildTable([pending[i] EXCEPT !.page = IF pages < 0 THEN 1 ELSE @])
  BY DEF RowsAnswered
<1>3. /\ shown'.kind = pending[i].kind /\ shown'.object = pending[i].object
      /\ pager'.page \in {1, shown'.page}
  BY <1>1, <1>2 DEF updatePaginator, buildTable, CallRecord
<1> QED
  BY <1>3, ListDrawn DEF RowsAnswered, Drawn

\* What is displayed of an object is what was called for, unless the definition of
\* a function is not there.
LEMMA StructureDrawn ==
  ASSUME PageInv, NEW i \in DOMAIN pending, StructureAnswered(i)
  PROVE  Drawn(i)
<1>1. /\ UNCHANGED <<object, pager>> /\ pending[i].kind = "structure"
      /\ \/ shown' = pending[i] /\ (~astray' => ~astray /\ ~Overtakes(i))
         \/ shown' = shown /\ astray'
      /\ layout' = "paged" => layout = "paged"
      /\ object \in Functions => astray' \/ layout' # "paged"
  BY DEF StructureAnswered, buildTable, SetTabAndLayout, display
<1> QED
  BY <1>1, ListDrawn DEF StructureAnswered, Drawn

LEMMA ViewDrawn ==
  ASSUME PageInv, NEW i \in DOMAIN pending,
         PanelAnswered(i) \/ ActivityAnswered(i) \/ UniqueAnswered(i) \/ QueryAnswered(i)
  PROVE  Drawn(i)
<1>1. /\ shown' = pending[i] /\ UNCHANGED <<object, pager>> /\ pending[i].kind # "rows"
      /\ layout' = "paged" => layout = "paged"
      /\ pending[i].kind \in {"structure", "indexes"} => layout' # "paged"
  BY DEF PanelAnswered, LateTabs, ActivityAnswered, UniqueAnswered,
     QueryAnswered, buildTable, SetTabAndLayout, selection, display
<1>2. KeepList(Rest(i)) \/ loadSchemas(Rest(i))
  BY DEF PanelAnswered, ActivityAnswered, UniqueAnswered, QueryAnswered
<1>3. ~astray' => ~astray /\ ~Overtakes(i)
  BY DEF PanelAnswered, ActivityAnswered, UniqueAnswered, QueryAnswered, selection, Overtakes,
     OfObject
<1> QED
  BY <1>1, <1>2, <1>3, ListDrawn DEF Drawn

LEMMA OtherDrawn ==
  ASSUME PageInv, NEW i \in DOMAIN pending,
         \/ StartupAnswered(i) \/ ConnectAnswered(i) \/ DisconnectAnswered(i)
         \/ SchemasAnswered(i) \/ ObjectsAnswered(i) \/ StatementAnswered(i)
         \/ DefinitionAnswered(i) \/ StopAnswered(i)
  PROVE  Drawn(i)
<1>1. /\ pending[i].kind \notin OfObject /\ UNCHANGED <<selection, pager>>
      /\ layout' = "paged" => layout = "paged"
      /\ shown' = shown \/ shown'.kind \notin OfObject
  BY NothingTyped DEF StartupAnswered, ConnectAnswered, DisconnectAnswered, SchemasAnswered,
     ObjectsAnswered, StatementAnswered, DefinitionAnswered, StopAnswered, buildTable,
     SetTabAndLayout, display, OfObject
<1>2. \/ pending' = Rest(i)
      \/ \E call \in CallRecord : pending' = Append(Rest(i), call) /\ call.kind \in Loads
  <2>1. Call("objects") \in CallRecord /\ Call("objects").kind \in Loads
    BY CallTyped DEF Kinds, Loads
  <2> QED
    BY <2>1, ListDrawn DEF StartupAnswered, ConnectAnswered, DisconnectAnswered,
       SchemasAnswered, ObjectsAnswered, StatementAnswered, DefinitionAnswered, StopAnswered,
       KeepList
<1> QED
  BY <1>1, <1>2 DEF Drawn, OfObject, Overtakes, selection

LEMMA AnswerSettled ==
  ASSUME SettledInv, PageInv', NEW i, Answer(i)
  PROVE  SettledInv'
<1>1. PageInv /\ i \in DOMAIN pending
  BY DEF SettledInv, Answer, Arrives
<1>2. CASE SwitchAnswered(i)
  <2>1. CASE Reload
    BY <2>1, ReloadSettled
  <2>2. CASE ~Reload
    <3>1. Drawn(i)
      BY <1>2, <2>2 DEF SwitchAnswered, Drawn, KeepList, OfObject, Overtakes, selection,
         display
    <3> QED
      BY <1>1, <3>1, DrawnStep
  <2> QED
    BY <2>1, <2>2
<1>3. CASE ~SwitchAnswered(i)
  <2>1. Drawn(i)
    BY <1>1, <1>3, RowsDrawn, StructureDrawn, ViewDrawn, OtherDrawn DEF Answer
  <2> QED
    BY <1>1, <2>1, DrawnStep
<1> QED
  BY <1>2, <1>3

-----------------------------------------------------------------------------
LEMMA InitSettled == Init => SettledInv
<1> SUFFICES ASSUME Init
             PROVE  SettledInv
  OBVIOUS
<1>1. ObjectFollows(pending, shown, object)
  BY FreshPage DEF Init
<1>2. ~Awaits({"rows"}) /\ layout # "paged"
  BY FreshPage DEF Init, Awaits
<1> QED
  BY <1>1, <1>2, InitInv DEF SettledInv, PagerFollows

LEMMA NextSettled ==
  ASSUME SettledInv, [Next]_vars
  PROVE  SettledInv'
<1>1. PageInv /\ PageInv'
  BY NextInv DEF SettledInv
<1>2. CASE ActivityTimer \/ UNCHANGED vars
  BY <1>1, <1>2, PlainStepsSelected, OtherStepsSelected, SelectedStep
<1>3. CASE User
  <2>1. CASE Reload
    BY <1>1, <2>1, ReloadSettled
  <2>2. CASE \E o \in Objects : ClickObject(o)
    BY <1>1, <2>2, ClickSettled
  <2>3. CASE ~Reload /\ ~\E o \in Objects : ClickObject(o)
    <3>1. Selected
      BY <1>1, <1>3, <2>3, ContentStepsSelected, ObjectStepsSelected, PlainStepsSelected,
         OtherStepsSelected DEF User
    <3> QED
      BY <1>1, <3>1, SelectedStep
  <2> QED
    BY <2>1, <2>2, <2>3
<1>4. ASSUME NEW i, Answer(i)
      PROVE  SettledInv'
  BY <1>1, <1>4, AnswerSettled
<1> QED
  BY <1>2, <1>3, <1>4 DEF Next

LEMMA SettledInvariance == Spec => []SettledInv
<1>1. SettledInv /\ [Next]_vars => SettledInv'
  BY NextSettled
<1> QED
  BY <1>1, InitSettled, PTL DEF Spec

\* The page settles on the selected object whatever the order of answers, for
\* any objects and however many calls are pending at once, unless an answer went
\* astray since the object was selected.
THEOREM SettlesOnObject == Spec => []SettledShowsObject
<1>1. SettledInv => SettledShowsObject
  BY DEF SettledInv, SettledShowsObject, Quiet, ObjectFollows, Follows, OfObject
<1> QED
  BY <1>1, SettledInvariance, PTL

\* The pager settles on the page shown, or on 1, whatever the order of answers;
\* for the rows that stay when the definition of a function does not come, it
\* need not.
THEOREM SettlesPager == Spec => []SettledPager
<1>1. SettledInv => SettledPager
  BY DEF SettledInv, SettledPager, Quiet, PagerFollows, Awaits
<1> QED
  BY <1>1, SettledInvariance, PTL

-----------------------------------------------------------------------------
(***************************************************************************)
(* What the user waits for is pending, with calls answered in any order.   *)
(***************************************************************************)

\* The calls but the one at i are still pending; all of them for i = 0.
Outlived(i) ==
    \A j \in DOMAIN pending \ {i} : \E k \in DOMAIN pending' : pending'[k] = pending[j]

\* Append, of anything.
LEMMA AppendKeeps ==
  ASSUME NEW calls \in Seq(CallRecord), NEW call
  PROVE  LET longer == Append(calls, call)
         IN  /\ Len(calls) + 1 \in DOMAIN longer /\ longer[Len(calls) + 1] = call
             /\ \A i \in DOMAIN calls : i \in DOMAIN longer /\ longer[i] = calls[i]
<1> DEFINE S == CallRecord \cup {call}
<1>1. calls \in Seq(S) /\ call \in S
  OBVIOUS
<1> HIDE DEF S
<1> QED
  BY <1>1, AppendProperties

LEMMA SentOutlived ==
  ASSUME PageInv, UNCHANGED pending \/ \E call : pending' = Append(pending, call)
  PROVE  Outlived(0)
<1>1. pending \in Seq(CallRecord)
  BY DEF PageInv, TypeOK
<1>2. CASE \E call : pending' = Append(pending, call)
  BY <1>1, <1>2, AppendKeeps DEF Outlived
<1> QED
  BY <1>2 DEF Outlived

LEMMA AnsweredOutlived ==
  ASSUME PageInv, NEW i, Arrives(i),
         pending' = Rest(i) \/ \E call : pending' = Append(Rest(i), call)
  PROVE  Outlived(i)
<1>1. pending \in Seq(CallRecord) /\ i \in DOMAIN pending
  BY DEF PageInv, TypeOK, Arrives
<1> DEFINE left == Rest(i)
<1>2. /\ left \in Seq(CallRecord)
      /\ DOMAIN left = 1 .. Len(pending) - 1
      /\ \A j \in DOMAIN left : left[j] = pending[IF j < i THEN j ELSE j + 1]
  BY <1>1, Removed DEF Rest
<1>3. DOMAIN pending = 1 .. Len(pending) /\ Len(pending) \in Nat
  BY <1>1
<1> HIDE DEF left
<1>4. ASSUME NEW j \in DOMAIN pending \ {i}
      PROVE  \E k \in DOMAIN left : left[k] = pending[j]
  <2>1. CASE j < i
    <3>1. j \in DOMAIN left
      BY <1>1, <1>2, <1>3, <2>1
    <3> QED
      BY <1>2, <2>1, <3>1
  <2>2. CASE ~(j < i)
    <3>1. j - 1 \in DOMAIN left /\ ~(j - 1 < i) /\ (j - 1) + 1 = j
      BY <1>1, <1>2, <1>3, <2>2
    <3> QED
      BY <1>2, <3>1
  <2> QED
    BY <2>1, <2>2
<1>5. CASE pending' = left
  BY <1>4, <1>5 DEF Outlived
<1>6. CASE \E call : pending' = Append(left, call)
  <2>1. \A k \in DOMAIN left : k \in DOMAIN pending' /\ pending'[k] = left[k]
    BY <1>2, <1>6, AppendKeeps
  <2> QED
    BY <1>4, <2>1 DEF Outlived
<1> QED
  BY <1>5, <1>6 DEF left

\* A wait that goes on has its call, unless that is the one answered.
LEMMA WaitGoesOn ==
  ASSUME NEW i, Outlived(i), NEW kind, Awaits({kind}),
         i \in DOMAIN pending => pending[i].kind # kind
  PROVE  Awaits({kind})'
BY DEF Outlived, Awaits

\* No step makes the user wait for nothing.
LEMMA WaitStep ==
  ASSUME PageInv, WaitsForCall, [Next]_vars
  PROVE  WaitsForCall'
<1>1. pending \in Seq(CallRecord) /\ 0 \notin DOMAIN pending
  BY DEF PageInv, TypeOK
<1>2. ASSUME UNCHANGED <<progress, connecting>>,
             UNCHANGED pending \/ \E call : pending' = Append(pending, call)
      PROVE  WaitsForCall'
  <2>1. Outlived(0)
    BY <1>2, SentOutlived
  <2> QED
    BY <1>1, <1>2, <2>1, WaitGoesOn DEF WaitsForCall
<1>3. ASSUME NEW i, Arrives(i),
             pending' = Rest(i) \/ \E call : pending' = Append(Rest(i), call),
             progress' => progress /\ pending[i].kind # "query",
             connecting' => connecting /\ pending[i].kind # "connect"
      PROVE  WaitsForCall'
  <2>1. Outlived(i)
    BY <1>3, AnsweredOutlived
  <2> QED
    BY <1>3, <2>1, WaitGoesOn DEF WaitsForCall
<1>4. CASE Reload
  BY <1>4 DEF Reload, WaitsForCall
<1>5. CASE runQuery
  <2>1. UNCHANGED connecting /\ (UNCHANGED pending \/ \E call : pending' = Append(pending, call))
    BY <1>5 DEF runQuery, Send, selection, connection
  <2>2. connecting' => Awaits({"connect"})'
    BY <1>1, <2>1, SentOutlived, WaitGoesOn DEF WaitsForCall
  <2>3. progress' => Awaits({"query"})'
    <3>1. SUFFICES ASSUME pending' = Append(pending, Call("query"))
                   PROVE  Awaits({"query"})'
      BY <1>5 DEF runQuery, Send
    <3> QED
      BY <1>1, <3>1, AppendKeeps DEF Awaits, Call
  <2> QED
    BY <2>2, <2>3 DEF WaitsForCall
<1>6. CASE SubmitConnection
  <2>1. UNCHANGED progress /\ pending' = Append(pending, Call("connect"))
    BY <1>6 DEF SubmitConnection, Send
  <2>2. progress' => Awaits({"query"})'
    BY <1>1, <2>1, SentOutlived, WaitGoesOn DEF WaitsForCall
  <2>3. Awaits({"connect"})'
    BY <1>1, <2>1, AppendKeeps DEF Awaits, Call
  <2> QED
    BY <2>2, <2>3 DEF WaitsForCall
<1>7. CASE User /\ ~Reload /\ ~runQuery /\ ~SubmitConnection
  <2>1. CASE \E o \in Objects : ClickObject(o)
    BY <1>2, <2>1 DEF ClickObject, showTableStructure, showTableIndexes, showTableContent,
       Send,
       selection, connection
  <2>2. CASE ClickContent \/ ClickStructure \/ ClickIndexes \/ ShowPanel \/ showActivityPanel
             \/ showQueryPanel
    BY <1>2, <2>2 DEF ClickContent, ClickStructure, ClickIndexes, ShowPanel,
       showActivityPanel,
       ActivityPanel, showQueryPanel, showTableStructure, showTableIndexes, showTableContent,
       Send, selection, connection
  <2>3. CASE NextPage \/ PrevPage \/ FilterRows \/ showUniqueColumnsValues
    BY <1>2, <2>3 DEF NextPage, PrevPage, FilterRows, showUniqueColumnsValues,
       showTableContent,
       Send, selection, connection
  <2>4. CASE refreshTables \/ performTableAction \/ performRowAction \/ SwitchDatabase
    BY <1>2, <2>4 DEF refreshTables, performTableAction, performRowAction, SwitchDatabase,
       loadSchemas, Send, selection, connection
  <2>5. CASE EditConnection \/ CloseConnection \/ CancelConnection
    BY <1>2, <2>5 DEF EditConnection, CloseConnection, CancelConnection, Send, selection,
       connection
  <2> QED
    BY <1>7, <2>1, <2>2, <2>3, <2>4, <2>5 DEF User
<1>8. CASE ActivityTimer
  BY <1>2, <1>8 DEF ActivityTimer, ActivityPanel, Send, selection, connection
<1>9. ASSUME NEW i, Answer(i), ~Reload
      PROVE  WaitsForCall'
  <2>1. Arrives(i)
    BY <1>9 DEF Answer
  <2>2. pending' = Rest(i) \/ \E call : pending' = Append(Rest(i), call)
    BY <1>9 DEF Answer, KeepList, loadSchemas, RowsAnswered, StructureAnswered, PanelAnswered,
       ActivityAnswered, UniqueAnswered, QueryAnswered, SchemasAnswered, ObjectsAnswered,
       StatementAnswered, DefinitionAnswered, StopAnswered, SwitchAnswered, StartupAnswered,
       ConnectAnswered, DisconnectAnswered
  <2>3. progress' => progress /\ pending[i].kind # "query"
    BY <1>9 DEF Answer, RowsAnswered, StructureAnswered, PanelAnswered, LateTabs,
       ActivityAnswered, UniqueAnswered, QueryAnswered, SchemasAnswered, ObjectsAnswered,
       StatementAnswered, DefinitionAnswered, StopAnswered, SwitchAnswered, StartupAnswered,
       ConnectAnswered, DisconnectAnswered
  <2>4. connecting' => connecting /\ pending[i].kind # "connect"
    BY <1>9 DEF Answer, RowsAnswered, StructureAnswered, PanelAnswered, LateTabs,
       ActivityAnswered, UniqueAnswered, QueryAnswered, SchemasAnswered, ObjectsAnswered,
       StatementAnswered, DefinitionAnswered, StopAnswered, SwitchAnswered, StartupAnswered,
       ConnectAnswered, DisconnectAnswered, selection, connection
  <2> QED
    BY <1>3, <2>1, <2>2, <2>3, <2>4
<1>10. CASE UNCHANGED vars
  BY <1>2, <1>10 DEF vars, selection, connection
<1> QED
  BY <1>4, <1>5, <1>6, <1>7, <1>8, <1>9, <1>10 DEF Next

\* The message and the disabled button have a call to take them away, in
\* whatever order the calls are answered.
THEOREM CallsToWaitFor == Spec => []WaitsForCall
<1>1. Init => WaitsForCall
  BY DEF Init, WaitsForCall
<1>2. PageInv /\ WaitsForCall /\ [Next]_vars => WaitsForCall'
  BY WaitStep
<1> QED
  BY <1>1, <1>2, PageInvariance, PTL DEF Spec
=============================================================================
