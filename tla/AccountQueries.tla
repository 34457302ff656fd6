--------------------------- MODULE AccountQueries ---------------------------
(***************************************************************************)
(* Lists that are fetched page by page while they change: GetInventory of  *)
(* clob/dataapi.go asks for an offset, GetOrders of clob/prefetch.go for   *)
(* the cursor of the answer before.  The cursors it knows are base64: MA== *)
(* is 0 and LTE= is -1, so a cursor is taken to be an offset too.          *)
(*                                                                         *)
(* The service is external: between two pages rows are closed, filled or   *)
(* opened, anywhere in its order.                                          *)
(***************************************************************************)
EXTENDS Naturals, Sequences, FiniteSets, SequencesExt, Functions

CONSTANTS
    pageSize,       \* 500 in the code
    ServerPage,     \* what the exchange puts on a page of orders
    NRows,          \* rows there are at first
    MaxRemoved,     \* bound: rows that go during a query
    MaxAdded        \* bound: rows that come during a query

ASSUME PagesAssumption == pageSize \in Nat \ {0} /\ ServerPage \in Nat \ {0}
ASSUME RowsAssumption == {NRows, MaxRemoved, MaxAdded} \subseteq Nat

VARIABLES
    rows,           \* the service: its list
    query,          \* the query under way
    offset,
    all,            \* rows of the pages so far
    outcome,        \* how the query ended
    steady,         \* rows that were there all the time
    removed,        \* how many have gone since it began
    added           \* how many have come

pageVars == <<rows, query, offset, all, outcome, steady, removed, added>>

Unqueried ==
    /\ rows = [i \in 1..NRows |-> i]
    /\ query = "idle"
    /\ offset = 0
    /\ all = <<>>
    /\ outcome = "none"
    /\ steady = {}
    /\ removed = 0
    /\ added = 0

BeginQuery(what) ==
    /\ query = "idle"
    /\ query' = what
    /\ steady' = Range(rows)
    /\ UNCHANGED <<rows, offset, all, outcome, removed, added>>

-----------------------------------------------------------------------------
(* The service *)

RowGoes(i) ==
    /\ query # "idle"
    /\ removed < MaxRemoved
    /\ i \in DOMAIN rows
    /\ removed' = removed + 1
    /\ steady' = steady \ {rows[i]}
    /\ rows' = RemoveAt(rows, i)
    /\ UNCHANGED <<query, offset, all, outcome, added>>

RowComes(i) ==
    /\ query # "idle"
    /\ added < MaxAdded
    /\ i \in 1..(Len(rows) + 1)
    /\ added' = added + 1
    /\ rows' = InsertAt(rows, i, NRows + added + 1)
    /\ UNCHANGED <<query, offset, all, outcome, steady, removed>>

Page(size) ==
    SubSeq(rows, offset + 1, IF offset + size > Len(rows) THEN Len(rows) ELSE offset + size)

-----------------------------------------------------------------------------
(* The loops *)

QueryEnds(result, list) ==
    /\ outcome' = result
    /\ all' = list

Asking(what) == query = what /\ outcome = "none"

\* Mutant: the offset moves one row too far.
OffsetTooFar ==
    /\ Asking("inventory")
    /\ IF Len(Page(pageSize)) < pageSize
         THEN QueryEnds("ok", all \o Page(pageSize)) /\ UNCHANGED offset
         ELSE /\ all' = all \o Page(pageSize)
              /\ offset' = offset + pageSize + 1
              /\ UNCHANGED outcome
    /\ UNCHANGED <<rows, query, steady, removed, added>>

\* A page that is not full ends the loop.
InventoryPage ==
    /\ Asking("inventory")
    /\ IF Len(Page(pageSize)) < pageSize
         THEN QueryEnds("ok", all \o Page(pageSize)) /\ UNCHANGED offset
         ELSE /\ all' = all \o Page(pageSize)
              /\ offset' = offset + pageSize
              /\ UNCHANGED outcome
    /\ UNCHANGED <<rows, query, steady, removed, added>>

\* The older form of the answer: a bare array of all orders.
OrdersArray ==
    /\ Asking("orders")
    /\ QueryEnds("ok", all \o Page(Len(rows)))
    /\ UNCHANGED <<rows, query, offset, steady, removed, added>>

\* The exchange sends the last cursor when nothing follows.
OrdersPage ==
    /\ Asking("orders")
    /\ IF offset + ServerPage >= Len(rows)
         THEN QueryEnds("ok", all \o Page(ServerPage)) /\ UNCHANGED offset
         ELSE /\ all' = all \o Page(ServerPage)
              /\ offset' = offset + ServerPage
              /\ UNCHANGED outcome
    /\ UNCHANGED <<rows, query, steady, removed, added>>

\* No answer, another status than 200, or a body that cannot be decoded.
PageFails ==
    /\ query # "idle" /\ outcome = "none"
    /\ QueryEnds("error", <<>>)
    /\ UNCHANGED <<rows, query, offset, steady, removed, added>>

\* The caller goes on; the next query is against any list, as this one was.
EndQuery ==
    /\ outcome # "none"
    /\ rows' = [i \in 1..NRows |-> i]
    /\ query' = "idle"
    /\ offset' = 0
    /\ all' = <<>>
    /\ outcome' = "none"
    /\ steady' = {}
    /\ removed' = 0
    /\ added' = 0

Paging == InventoryPage \/ OrdersArray \/ OrdersPage \/ PageFails

PagesNext ==
    \/ \E what \in {"inventory", "orders"} : BeginQuery(what)
    \/ \E i \in 1..(NRows + MaxAdded) : RowGoes(i) \/ RowComes(i)
    \/ Paging \/ EndQuery

-----------------------------------------------------------------------------
(* Properties *)

\* A list that changes under its query is not a snapshot, but what it can be
\* wrong by is bounded: of the rows there all the time, no more are missing than
\* rows have gone, and no more are doubled than rows have come.  A list that
\* does not change is fetched as it is.
RowsBounded ==
    outcome = "ok" =>
        /\ Cardinality(steady \ Range(all)) <= removed
        /\ Len(all) - Cardinality(Range(all)) <= added
        /\ removed + added = 0 => all = rows
=============================================================================
