------------------------------ MODULE UnlockPage ------------------------------
(***************************************************************************)
(* What of the media services is unlocked (src/src/pages/unlock.tsx).  The *)
(* page shows the rows of the local storage, reads the services there are, *)
(* and checks all of them or one; every check asks the backend for all of  *)
(* them, and gives up after 15 s.  Rows shown are rows stored.  Leaving    *)
(* the page does not stop a call: its answer is stored without being seen. *)
(*                                                                         *)
(* A row is a spelling of a service and the call its status is of, 0 for   *)
(* Pending; sortItemsByName is the order of the spellings.                 *)
(***************************************************************************)
EXTENDS Naturals, Sequences, FiniteSets, SequencesExt, Folds

CONSTANTS Names,       \* spellings of services
          Service,     \* normalizeUnlockName: the service of a spelling
          Defaults,    \* spellings of get_unlock_items, one for a service
          Lists,       \* spellings a check answers, or an old storage has
          MaxCalls     \* bound on checks and openings

VARIABLES stored,      \* the local storage: rows
          items,       \* unlockItems
          page,        \* the opening shown, 0 for none
          loading,     \* loadingItems, with the opening they are of
          calls,       \* running calls: kind, opening, service, rows known when made
          overtaken,   \* an answer for an earlier opening has been stored in this one
          count        \* calls made

vars == <<stored, items, page, loading, calls, overtaken, count>>

Row(name, check) == [name |-> name, check |-> check]
Priority(row) == IF row.check = 0 THEN 0 ELSE 1

\* Of rows of one service the last with a result stays, in the place of the first.
Place(kept, row) == {i \in DOMAIN kept : Service[kept[i].name] = Service[row.name]}
BugDedupe(rows) == rows
dedupeUnlockItems(rows) ==
  FoldLeft(LAMBDA kept, row :
             LET at == Place(kept, row) IN
             IF at = {} THEN Append(kept, row)
             ELSE LET i == CHOOSE i \in at : TRUE IN
                  IF Priority(row) < Priority(kept[i]) THEN kept ELSE [kept EXCEPT ![i] = row],
           <<>>, rows)

\* The services there are, with what is known of them; then what is only known.
mergeUnlockItems(names, existing) ==
  LET known == dedupeUnlockItems(existing)
      row(n) == LET at == Place(known, Row(n, 0)) IN
                IF at = {} THEN Row(n, 0) ELSE Row(n, known[CHOOSE i \in at : TRUE].check)
      merged == [i \in DOMAIN names |-> row(names[i])]
  IN merged \o SelectSeq(known, LAMBDA k : Place(merged, k) = {})

sortItemsByName(rows) == SortSeq(rows, LAMBDA a, b : a.name < b.name)

Call(kind, service) ==
  calls' = calls \cup {[id |-> count + 1, kind |-> kind, page |-> page', service |-> service, known |-> items']}
Made == count < MaxCalls /\ count' = count + 1

Checks(kind) == {c \in calls : c.kind = kind /\ c.page = page}
isCheckingAll == Checks("all") # {}

Init ==
  /\ stored \in {[i \in DOMAIN l |-> Row(l[i], 0)] : l \in Lists} \cup {<<>>}
  /\ items = <<>> /\ page = 0 /\ loading = {}
  /\ calls = {} /\ overtaken = FALSE /\ count = 0

-------------------------------------------------------------------------------
\* loadResultsFromStorage, then getUnlockItems.
Open ==
  /\ page = 0 /\ Made
  /\ page' = count + 1
  /\ items' = sortItemsByName(dedupeUnlockItems(stored))
  /\ Call("load", "none")
  /\ overtaken' = FALSE
  /\ UNCHANGED <<stored, loading>>

Leave ==
  /\ page # 0 /\ page' = 0 /\ items' = <<>> /\ loading' = {}
  /\ UNCHANGED <<stored, calls, overtaken, count>>

\* Shown where the page of the call is, stored in any case.
Rows(c, rows) ==
  /\ items' = IF c.page = page THEN rows ELSE items
  /\ stored' = rows
  /\ overtaken' = (overtaken \/ c.page # page)

Done(c) == calls' = calls \ {c}

getUnlockItems(c) ==
  /\ c.kind = "load" /\ Done(c)
  /\ Rows(c, sortItemsByName(mergeUnlockItems(Defaults, c.known)))
  /\ UNCHANGED <<page, loading, count>>

checkAllMedia ==
  /\ page # 0 /\ ~isCheckingAll /\ Made
  /\ UNCHANGED <<stored, items, page, loading, overtaken>>
  /\ Call("all", "none")

AllChecked(c, names) ==
  /\ c.kind = "all" /\ Done(c)
  /\ Rows(c, sortItemsByName(dedupeUnlockItems([i \in DOMAIN names |-> Row(names[i], c.id)])))
  /\ UNCHANGED <<page, loading, count>>

\* One at a time: useLockFn is of the page, not of the row.
checkSingleMedia(name) ==
  /\ page # 0 /\ ~isCheckingAll /\ name \notin loading /\ Checks("single") = {} /\ Made
  /\ \E i \in DOMAIN items : items[i].name = name
  /\ loading' = loading \cup {name}
  /\ UNCHANGED <<stored, items, page, overtaken>>
  /\ Call("single", name)

Unmark(c) == loading' = IF c.page = page THEN loading \ {c.service} ELSE loading

\* Put into the rows of the click, whatever has been shown since.
BugSaved(c, rows) ==
  /\ items' = IF c.page = page THEN rows ELSE items
  /\ stored' = c.known
  /\ overtaken' = (overtaken \/ c.page # page)
Saved(c, rows) == Rows(c, rows)
SingleChecked(c, names) ==
  /\ c.kind = "single" /\ Done(c) /\ Unmark(c)
  /\ LET target == dedupeUnlockItems([i \in DOMAIN names |-> Row(names[i], c.id)])
         at == Place(target, Row(c.service, 0))
     IN IF at = {} THEN UNCHANGED <<items, stored, overtaken>>
        ELSE Saved(c, sortItemsByName(dedupeUnlockItems(
               [i \in DOMAIN c.known |-> IF Service[c.known[i].name] = Service[c.service]
                                         THEN target[CHOOSE j \in at : TRUE] ELSE c.known[i]])))
  /\ UNCHANGED <<page, count>>

\* A call is refused, or a check gives up.
BugFails(c) == Done(c) /\ UNCHANGED loading
Fails(c) == Done(c) /\ (IF c.kind = "single" THEN Unmark(c) ELSE UNCHANGED loading)
CallFails(c) == Fails(c) /\ UNCHANGED <<stored, items, page, overtaken, count>>

Ends == \E c \in calls :
  \/ getUnlockItems(c)
  \/ \E names \in Lists : AllChecked(c, names) \/ SingleChecked(c, names)
  \/ CallFails(c)

Next ==
  \/ Open \/ Leave \/ checkAllMedia
  \/ \E name \in Names : checkSingleMedia(name)
  \/ \E c \in calls : getUnlockItems(c) \/ CallFails(c)
  \/ \E c \in calls, names \in Lists : AllChecked(c, names) \/ SingleChecked(c, names)

Spec == Init /\ [][Next]_vars /\ WF_vars(Ends)

-------------------------------------------------------------------------------
\* A service has one row however it is spelt, and the rows shown are those the
\* page would show if it were opened now: leaving and coming back changes
\* nothing, unless an answer for an earlier opening came meanwhile.
RowsAreStored ==
  /\ \A i, j \in DOMAIN items : Service[items[i].name] = Service[items[j].name] => i = j
  /\ page # 0 /\ ~overtaken => items = sortItemsByName(dedupeUnlockItems(stored))

\* A row spins while its check runs, and no longer.
SpinsWhileChecked == loading = {c.service : c \in Checks("single")}
Spinning == loading # {}
ChecksEnd == Spinning ~> ~Spinning
===============================================================================
