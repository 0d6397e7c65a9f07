---------------------------- MODULE ConnectionTable ----------------------------
(***************************************************************************)
(* The page of the connections (src/src/pages/connections.tsx), its list   *)
(* and its table (src/src/components/connection): which rows are shown,    *)
(* the texts both layouts keep per connection from one rendering to the    *)
(* next, the stored columns of the table and the detail of one connection. *)
(*                                                                         *)
(* A connection is its id, a version of what does not change by traffic    *)
(* (address, rule, process) and one of its counters.  Rows are a set: the  *)
(* order and the widths of the columns' cells are left out.                *)
(***************************************************************************)
EXTENDS Naturals, FiniteSets, Sequences, SequencesExt

CONSTANTS Ids, Versions,
          Fields,       \* baseColumns, in their order
          MaxCache,     \* MAX_ROW_SNAPSHOT_CACHE_SIZE
          Slack,        \* OVERSCAN_ROWS * 4
          MaxChanges    \* bound on what the user does and the core reports

VARIABLES active, closed,  \* the lists: id -> versions
          type, layout,    \* connectionsType, setting.layout
          found,           \* the search: matches everything, or these ids
          view,            \* ids of the rows in the window of the table
          cache,           \* rowSnapshotCacheRef, or the previous rows of the list
          shown,           \* the texts on the screen
          order, hidden,   \* connection-table-order, connection-table-visibility
          sorting, manager, detail, closing, changes

vars == <<active, closed, type, layout, found, view, cache, shown,
          order, hidden, sorting, manager, detail, closing, changes>>
columnVars == <<order, hidden, sorting>>

Row == [s : Versions, t : Versions]
NoRows == [i \in {} |-> 0]
Without(f, S) == [i \in DOMAIN f \ S |-> f[i]]
FieldSet == ToSet(Fields)
NoDetail == [id |-> "none", closed |-> FALSE]

Selected(ty, a, c) == IF ty = "active" THEN a ELSE c
filterConn(ty, a, c, q) ==
  LET rows == Selected(ty, a, c) IN [i \in DOMAIN rows \cap q |-> rows[i]]
Rows == filterConn(type, active, closed, found)

-------------------------------------------------------------------------------
(* A snapshot keeps the row it was made of and its texts; a text is made   *)
(* anew only when its part of the row has changed.                         *)
Made(row) == [row |-> row, s |-> row.s, t |-> row.t]

BugSnapshot(row, previous) ==
  IF previous.row.t = row.t THEN previous ELSE Made(row)

createTableRowSnapshot(row, previous) ==
  LET sameStatic == previous.row.s = row.s
      sameTraffic == previous.row.t = row.t
  IN  IF sameStatic /\ sameTraffic THEN previous
      ELSE [row |-> row, s |-> IF sameStatic THEN previous.s ELSE row.s,
                         t |-> IF sameTraffic THEN previous.t ELSE row.t]

Snapshot(rows, i) ==
  IF i \in DOMAIN cache THEN createTableRowSnapshot(rows[i], cache[i]) ELSE Made(rows[i])

(* The cells of a row show the texts of its snapshot; a row component is   *)
(* rendered again only for another row, which has another snapshot.        *)
RowTexts(rows, v) == [i \in v |-> [s |-> Snapshot(rows, i).s, t |-> Snapshot(rows, i).t]]

(* Rendering the table takes the snapshots of the rows in the window, of   *)
(* all rows while they are sorted; the cache loses its oldest entries when *)
(* it is full, and those of other rows when it outgrows the list.          *)
TableRendered(rows, v, sorted) ==
  LET taken == IF sorted THEN DOMAIN rows ELSE v
      all == [i \in DOMAIN cache \cup taken |->
                IF i \in taken THEN Snapshot(rows, i) ELSE cache[i]]
  IN  \E lost \in SUBSET DOMAIN all :
        LET left == Without(all, lost)
        IN  /\ lost = {} <=> Cardinality(DOMAIN all) <= MaxCache
            /\ lost # {} => Cardinality(DOMAIN left) = MaxCache
            /\ cache' = IF Cardinality(DOMAIN left) <= Cardinality(DOMAIN rows) + Slack
                        THEN left ELSE Without(left, DOMAIN left \ DOMAIN rows)
            /\ shown' = RowTexts(rows, v)

(* useConnectionRowViews: a row that says the same is kept, and the rows   *)
(* of the rendering before are all that is remembered.                     *)
ListRendered(rows) ==
  LET made == [i \in DOMAIN rows |->
                IF i \in DOMAIN cache /\ cache[i].row = rows[i] THEN cache[i] ELSE Made(rows[i])]
  IN  cache' = made /\ shown' = [i \in DOMAIN rows |-> [s |-> made[i].s, t |-> made[i].t]]

(* Without rows neither is there, and a component that is not there keeps  *)
(* neither its texts nor its sorting.                                      *)
Rendered(rows, lay, v, so) ==
  IF rows = NoRows THEN cache' = NoRows /\ shown' = NoRows /\ sorting' = "none" /\ view' = {}
  ELSE IF lay = "table"
       THEN /\ view' = v /\ sorting' = so
            /\ IF layout = "table" \/ cache = NoRows THEN TableRendered(rows, v, so # "none")
               ELSE cache' = [i \in v |-> Made(rows[i])] /\ shown' = [i \in v |-> rows[i]]
       ELSE /\ view' = DOMAIN rows /\ sorting' = "none"
            /\ IF layout = "list" THEN ListRendered(rows)
               ELSE cache' = [i \in DOMAIN rows |-> Made(rows[i])] /\ shown' = rows

Begin == changes < MaxChanges /\ changes' = changes + 1

-------------------------------------------------------------------------------
(* The stored columns: an order and a visibility that an earlier release,  *)
(* which lacked some columns, may have stored.                             *)
BugReconcile(stored) == SelectSeq(stored, LAMBDA f : f \in FieldSet)

reconcileColumnOrder(stored) ==
  SelectSeq(stored, LAMBDA f : f \in FieldSet)
    \o SelectSeq(Fields, LAMBDA f : f \notin ToSet(stored))

Stored == {Fields, SubSeq(Fields, 1, Len(Fields) - 1), Reverse(Tail(Fields)), <<>>}

(* The lists outlive the page: it may find some that closed before.        *)
Init ==
  /\ active = NoRows /\ type = "active"
  /\ \E old \in {{}, {CHOOSE i \in Ids : TRUE}} : closed = [i \in old |-> CHOOSE r \in Row : TRUE]
  /\ layout = "table"
  /\ found = Ids /\ view = {} /\ cache = NoRows /\ shown = NoRows
  /\ \E stored \in Stored :
       /\ order = reconcileColumnOrder(stored)
       /\ hidden \in {h \in SUBSET ToSet(stored) : h = {} \/ h # ToSet(stored)}
  /\ sorting = "none" /\ manager = FALSE /\ detail = NoDetail /\ closing = FALSE
  /\ changes = 0

orderedColumns == order
visibleColumns == SelectSeq(orderedColumns, LAMBDA f : f \notin hidden)

(* A message of the core: connections begin, change and end; one that      *)
(* ended is last in the list of the closed.                                *)
Received ==
  /\ Begin
  /\ \E S \in SUBSET (Ids \ DOMAIN closed) : \E new \in [S -> Row] :
       LET gone == Without(active, S)
           nowClosed == [i \in DOMAIN closed \cup DOMAIN gone |->
                           IF i \in DOMAIN gone THEN gone[i] ELSE closed[i]]
           rows == filterConn(type, new, nowClosed, found)
       IN  /\ active' = new /\ closed' = nowClosed
           /\ \E v \in SUBSET DOMAIN rows : Rendered(rows, layout, v, sorting)
  /\ UNCHANGED <<type, layout, found, order, hidden, manager, detail, closing>>

BugSelect(ty) ==
  /\ ty # type /\ Begin
  /\ type' = ty /\ manager' = FALSE
  /\ LET rows == filterConn(ty, active, closed, found)
     IN  \E v \in SUBSET DOMAIN rows : Rendered(rows, layout, v, sorting)
  /\ UNCHANGED <<active, closed, layout, found, order, hidden, detail, closing>>

selectConnectionsType(ty) ==
  /\ ty # type /\ Begin
  /\ detail' = NoDetail /\ manager' = FALSE /\ type' = ty
  /\ LET rows == filterConn(ty, active, closed, found)
     IN  \E v \in SUBSET DOMAIN rows : Rendered(rows, layout, v, sorting)
  /\ UNCHANGED <<active, closed, layout, found, order, hidden, closing>>

(* The dialog of the columns is modal: while it is on the screen nothing   *)
(* else of the page is used.                                               *)
ManagerShown == manager /\ layout = "table" /\ Rows # NoRows

setSetting ==
  /\ ~ManagerShown /\ Begin
  /\ layout' = IF layout = "table" THEN "list" ELSE "table"
  /\ \E v \in SUBSET DOMAIN Rows : Rendered(Rows, layout', v, "none")
  /\ UNCHANGED <<active, closed, type, found, order, hidden, manager, detail, closing>>

handleSearch(q) ==
  /\ ~ManagerShown /\ q # found /\ Begin
  /\ found' = q
  /\ LET rows == filterConn(type, active, closed, q)
     IN  \E v \in SUBSET DOMAIN rows : Rendered(rows, layout, v, sorting)
  /\ UNCHANGED <<active, closed, type, layout, order, hidden, manager, detail, closing>>

handleScroll(v) ==
  /\ layout = "table" /\ Rows # NoRows /\ v # view /\ Begin
  /\ Rendered(Rows, layout, v, sorting)
  /\ UNCHANGED <<active, closed, type, layout, found, order, hidden, manager, detail, closing>>

(* Ascending, descending, as it comes.                                     *)
toggleSorting ==
  /\ layout = "table" /\ Rows # NoRows /\ visibleColumns # <<>> /\ Begin
  /\ Rendered(Rows, layout, view, CASE sorting = "none" -> "asc" [] sorting = "asc" -> "desc"
                                    [] OTHER -> "none")
  /\ UNCHANGED <<active, closed, type, layout, found, order, hidden, manager, detail, closing>>

(* A click on a row while a detail is open is a click away from it.        *)
showDetailById(i) ==
  /\ i \in DOMAIN shown /\ Begin
  /\ detail' = IF detail = NoDetail THEN [id |-> i, closed |-> type = "closed"] ELSE NoDetail
  /\ UNCHANGED <<active, closed, type, layout, found, view, cache, shown, manager, closing>>
  /\ UNCHANGED columnVars

(* The button closes the connection, which a later message shows, and the  *)
(* detail; closing all is locked while it runs.                            *)
onDelete ==
  /\ detail # NoDetail /\ ~detail.closed
  /\ detail' = NoDetail
  /\ UNCHANGED <<active, closed, type, layout, found, view, cache, shown, manager, closing,
                 changes>>
  /\ UNCHANGED columnVars

onCloseAll ==
  /\ closing' = ~closing /\ (~closing => Begin) /\ (closing => UNCHANGED changes)
  /\ UNCHANGED <<active, closed, type, layout, found, view, cache, shown, manager, detail>>
  /\ UNCHANGED columnVars

clearClosedConnections ==
  /\ type = "closed" /\ Rows # NoRows /\ Begin
  /\ closed' = NoRows
  /\ Rendered(NoRows, layout, {}, "none")
  /\ UNCHANGED <<active, type, layout, found, order, hidden, manager, detail, closing>>

OpenManager ==
  /\ layout = "table" /\ Rows # NoRows /\ ~manager /\ Begin
  /\ manager' = TRUE
  /\ UNCHANGED <<active, closed, type, layout, found, view, cache, shown, detail, closing>>
  /\ UNCHANGED columnVars

CloseManager ==
  /\ ManagerShown /\ manager' = FALSE
  /\ UNCHANGED <<active, closed, type, layout, found, view, cache, shown, detail, closing,
                 changes>>
  /\ UNCHANGED columnVars

(* The box of the only column left cannot be unticked, and the update      *)
(* itself refuses to hide the last one.                                    *)
setColumnVisibility(f) ==
  /\ ManagerShown /\ Begin
  /\ f \in hidden \/ Len(visibleColumns) > 1
  /\ LET next == (IF f \in hidden THEN hidden \ {f} ELSE hidden \cup {f}) \cap FieldSet
     IN  hidden' = IF FieldSet \subseteq next THEN hidden ELSE next
  /\ UNCHANGED <<active, closed, type, layout, found, view, cache, shown, order, sorting,
                 manager, detail, closing>>

handleDragEnd(i, j) ==
  /\ ManagerShown /\ i # j /\ Begin
  /\ LET f == orderedColumns[i]
     IN  order' = reconcileColumnOrder(InsertAt(RemoveAt(orderedColumns, i), j, f))
  /\ UNCHANGED <<active, closed, type, layout, found, view, cache, shown, hidden, sorting,
                 manager, detail, closing>>

handleResetColumns ==
  /\ ManagerShown /\ Begin
  /\ order' = Fields /\ hidden' = {} /\ sorting' = "none"
  /\ UNCHANGED <<active, closed, type, layout, found, view, cache, shown, manager, detail,
                 closing>>

Next ==
  \/ Received \/ setSetting \/ toggleSorting \/ onDelete \/ onCloseAll
  \/ clearClosedConnections \/ OpenManager \/ CloseManager \/ handleResetColumns
  \/ \E ty \in {"active", "closed"} : selectConnectionsType(ty)
  \/ \E q \in SUBSET Ids : handleSearch(q)
  \/ \E v \in SUBSET DOMAIN Rows : handleScroll(v)
  \/ \E i \in Ids : showDetailById(i)
  \/ \E f \in FieldSet : setColumnVisibility(f)
  \/ \E i, j \in 1..Len(orderedColumns) : handleDragEnd(i, j)

Spec == Init /\ [][Next]_vars

-------------------------------------------------------------------------------
(* Whatever the layouts keep from one rendering to the next, every row on  *)
(* the screen is one of the list that was asked for and says what the last *)
(* message of the core said of it.                                         *)
RowsAreCurrent ==
  /\ DOMAIN shown \subseteq DOMAIN Rows
  /\ \A i \in DOMAIN shown : shown[i] = Rows[i]

(* A detail with the button that closes its connection is one of the list  *)
(* of the open ones, and a detail does not outlive the change of the list. *)
DetailOfList == detail # NoDetail => detail.closed = (type = "closed")

(* Whatever an earlier release has stored, each column has one place and   *)
(* the table shows at least one of them.                                   *)
ColumnsComplete ==
  /\ Len(orderedColumns) = Len(Fields) /\ ToSet(orderedColumns) = FieldSet
  /\ visibleColumns # <<>>
===============================================================================
