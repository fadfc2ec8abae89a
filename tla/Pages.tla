--------------------------------- MODULE Pages ---------------------------------
(***************************************************************************)
(* The listings of administrators, page by page (AdminListRooms,           *)
(* AdminListGateways and AdminListDynamicConfigs in api/api_admin.go).     *)
(*                                                                         *)
(* A page is two queries outside of a transaction, one that counts and one *)
(* for the rows, and a list is as many requests as it has pages.  The      *)
(* table changes in between, and a page is said by its number: rows that   *)
(* come or go move those behind them to other pages.  The client asks for  *)
(* page after page, until one is empty.                                    *)
(*                                                                         *)
(* Rows are numbered as they are created.  Orders by a column that changes *)
(* or that rows share are left out.                                        *)
(***************************************************************************)
EXTENDS Naturals, FiniteSets, Sequences

CONSTANTS
    MaxRows,         \* bound: rows of the table
    APIMaxPageSize,  \* rows of the largest page
    MaxChanges       \* bound: changes of the table

ASSUME PagesConstantsOK == MaxRows \in Nat /\ MaxChanges \in Nat /\ APIMaxPageSize \in Nat \ {0}

\* suits: its gateway, name and numbers are what a filter for those would ask.
NewRow == [disabled |-> FALSE, removed |-> FALSE, suits |-> TRUE]

\* The conditions of a list.  Rooms have filters...
AdminListRooms ==
    [kind : {"rooms"}, disabled : {{FALSE}, BOOLEAN}, removed : {{FALSE}, BOOLEAN},
     suits : {{TRUE}, BOOLEAN}]

\* ... gateways have none...
AdminListGateways ==
    [kind : {"gateways"}, disabled : {BOOLEAN}, removed : {BOOLEAN}, suits : {BOOLEAN}]

\* ... and an entry of the dynamic configuration that is deleted is gone.
AdminListDynamicConfigs ==
    [kind : {"dynamic_config"}, disabled : {BOOLEAN}, removed : {{FALSE}}, suits : {BOOLEAN}]

Filters ==
    AdminListRooms \cup AdminListGateways \cup AdminListDynamicConfigs \cup [kind : {"malformed"}]

\* The first request.  0 stands for whatever is not a positive number, a filter
\* that is not understood for the values that are refused.
ListRequest ==
    [page_no : 0..1, page_size : 0..APIMaxPageSize + 1, descending : BOOLEAN,
     filter : Filters]

VARIABLES
    table,   \* the rows
    changes, \* how often it was changed
    paging,  \* the next query of the client's request
    asked,   \* the request
    before,  \* the rows that were in the list when the client began
    listed,  \* how often it was given each
    lost,    \* history: a row has left the list since
    came     \* history: a row has come into it since

pageVars == <<table, changes, paging, asked, before, listed, lost, came>>

PagesInit ==
    /\ table \in {[i \in 1..n |-> NewRow] : n \in 0..MaxRows}
    /\ changes = 0
    /\ paging = "idle" /\ asked = <<>> /\ before = {}
    /\ listed = [i \in 1..MaxRows |-> 0]
    /\ lost = FALSE /\ came = FALSE

-----------------------------------------------------------------------------
(* Requests *)

Accepts(filter, row) ==
    /\ row.disabled \in filter.disabled
    /\ row.removed \in filter.removed
    /\ row.suits \in filter.suits

Found(rows, request) == {i \in DOMAIN rows : Accepts(request.filter, rows[i])}

Limit(request) ==
    IF request.page_size < APIMaxPageSize THEN request.page_size ELSE APIMaxPageSize

\* mutant: pages start as if they had the size that was asked for
OffsetBySize(request) == (request.page_no - 1) * request.page_size

Offset(request) == (request.page_no - 1) * Limit(request)

\* The rows in front of one.
Rank(rows, request, i) ==
    Cardinality({j \in Found(rows, request) : IF request.descending THEN j > i ELSE j < i})

\* ORDER BY, LIMIT and OFFSET
Page(rows, request) ==
    {i \in Found(rows, request) :
        Rank(rows, request, i) \in Offset(request)..(Offset(request) + Limit(request) - 1)}

\* ParseListParams
ListParamsOK(request) == request.page_no > 0 /\ request.page_size > 0

\* ParseRoomsRequest
RoomsRequestOK(request) == request.filter.kind # "malformed"

FirstPage ==
    /\ paging = "idle"
    /\ \E request \in ListRequest :
          /\ asked' = request
          /\ IF ListParamsOK(request) /\ RoomsRequestOK(request)
             THEN paging' = "count" /\ before' = Found(table, request)
             ELSE paging' = "refused" /\ UNCHANGED before
    /\ UNCHANGED <<table, changes, listed, lost, came>>

\* There is nothing, or nothing on this page, or the rows are asked for.
CountRows ==
    /\ paging = "count"
    /\ paging' = IF Offset(asked) >= Cardinality(Found(table, asked)) THEN "ended" ELSE "data"
    /\ UNCHANGED <<table, changes, asked, before, listed, lost, came>>

\* The client goes on, unless the page has become empty.
LoadRows ==
    /\ paging = "data"
    /\ LET page == Page(table, asked)
       IN /\ listed' = [i \in 1..MaxRows |-> IF i \in page THEN listed[i] + 1 ELSE listed[i]]
          /\ paging' = IF page = {} THEN "ended" ELSE "count"
    /\ asked' = [asked EXCEPT !.page_no = @ + 1]
    /\ UNCHANGED <<table, changes, before, lost, came>>

ListFails ==
    /\ paging \in {"count", "data"} /\ paging' = "failed"
    /\ UNCHANGED <<table, changes, asked, before, listed, lost, came>>

-----------------------------------------------------------------------------
(* Changes of the table, by other requests or by hand *)

\* Bound: MaxChanges, and none when the client is through.
Change(rows) ==
    /\ changes < MaxChanges /\ changes' = changes + 1
    /\ paging \in {"idle", "count", "data"}
    /\ table' = rows
    /\ IF paging \in {"count", "data"}
       THEN /\ lost' = (lost \/ Found(table, asked) \ Found(rows, asked) # {})
            /\ came' = (came \/ Found(rows, asked) \ Found(table, asked) # {})
       ELSE UNCHANGED <<lost, came>>
    /\ UNCHANGED <<paging, asked, before, listed>>

CreateRow == Len(table) < MaxRows /\ Change(Append(table, NewRow))

ChangeRow ==
    \E i \in DOMAIN table :
        \/ Change([table EXCEPT ![i].disabled = ~@])
        \/ Change([table EXCEPT ![i].removed = ~@])
        \/ Change([table EXCEPT ![i].suits = ~@])

PagesNext == FirstPage \/ CountRows \/ LoadRows \/ ListFails \/ CreateRow \/ ChangeRow

PagesSpec == PagesInit /\ [][PagesNext]_pageVars

-----------------------------------------------------------------------------
(* Properties *)

\* A client that has gone through the pages was given every row that was in the
\* list when it began, even if others came in the meantime, as long as none has
\* left it; and each exactly once, if none has come or left (appendListMods, with
\* pages that are smaller than was asked).
PagedThrough ==
    paging = "ended" /\ ~lost =>
        /\ \A i \in before : listed[i] > 0
        /\ ~came => \A i \in 1..MaxRows : listed[i] = IF i \in before THEN 1 ELSE 0

==============================================================================
