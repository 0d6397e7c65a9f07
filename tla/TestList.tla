------------------------------- MODULE TestList -------------------------------
(***************************************************************************)
(* The sites to test (src/src/pages/test.tsx, components/home/test-card    *)
(* .tsx, components/test/test-viewer.tsx): a list of the verge that the    *)
(* test page and the card of the home page show, reorder and delete from,  *)
(* and that the dialog both open adds to and edits.  Every change patches  *)
(* the whole list, as the component saw it when it was clicked, and most   *)
(* also put it into the query cache at once (useVerge).                    *)
(*                                                                         *)
(* A site is its uid and an edition of it; its icon is left out, and that  *)
(* a save without name or url is refused before anything happens.          *)
(***************************************************************************)
EXTENDS Naturals, Sequences, SequencesExt

CONSTANTS MaxSteps    \* bound on what the user does

VARIABLES store,      \* test_list of the stored verge
          cache,      \* test_list of the query getVergeConfig
          fetch,      \* the running refetch: <<>>, or asked, or what it has read
          patches,    \* running patches, in the order the backend takes them
          idle,       \* patches that wait for the idle callback of the card
          view,       \* the page or the card
          default,    \* the list the view shows in place of none
          form,       \* the dialog: what is open, and the save that runs
          fresh,      \* uids given
          wanted,     \* what the user has made of the list
          clean,      \* every change so far was made alone, and accepted
          steps

vars == <<store, cache, fetch, patches, idle, view, default, form, fresh, wanted, clean, steps>>

NoList == <<[uid |-> 0, v |-> 0]>>
Site(u) == [uid |-> u, v |-> 1]
Closed == [type |-> "closed", site |-> Site(0), saving |-> FALSE]

\* DEFAULT_TEST_LIST of the card has its uids for good; the page gives new ones.
DEFAULT_TEST_LIST == <<Site(1)>>
NewDefault(v) == IF v = "card" THEN DEFAULT_TEST_LIST ELSE <<Site(fresh + 1)>>

\* testList of the view, and of the dialog.
testList == IF cache = NoList THEN default ELSE cache
ViewerList == IF cache = NoList THEN <<>> ELSE cache

Quiet == patches = <<>> /\ idle = <<>> /\ fetch = <<>>
Patch(list, then) == [list |-> list, then |-> then, done |-> FALSE]
Then(kind, list) == [kind |-> kind, list |-> list]
Nothing == Then("none", <<>>)

Step == steps < MaxSteps /\ steps' = steps + 1
Changes(list) == wanted' = list /\ clean' = (clean /\ Quiet)

-------------------------------------------------------------------------------
(* The effect that stores the list of a verge without one, run when the    *)
(* view is mounted and when the verge changes.                             *)
storeDefault(v, list) ==
  /\ default' = NewDefault(v)
  /\ IF list = NoList
     THEN /\ patches' = Append(patches, Patch(NewDefault(v), Nothing))
          /\ fresh' = fresh + 1
          /\ wanted' = NewDefault(v)
          /\ clean' = (clean /\ Quiet)
     ELSE UNCHANGED <<patches, fresh, wanted, clean>>

Init ==
  /\ store \in {NoList, <<>>, <<Site(2)>>, <<Site(2), Site(3)>>}
  /\ cache = store /\ wanted = store
  /\ fetch = <<>> /\ patches = <<>> /\ idle = <<>>
  /\ view = "none" /\ default = <<>> /\ form = Closed
  /\ fresh = 3 /\ clean = TRUE /\ steps = 0

Open(v) ==
  /\ v # view /\ form.type = "closed" /\ Step
  /\ view' = v
  /\ storeDefault(v, cache)
  /\ UNCHANGED <<store, cache, fetch, idle, form>>

\* mutateVerge({ ...verge, test_list }, false)
mutateVerge(list) == cache' = list

onDeleteTestListItem(i) ==
  /\ view # "none" /\ form.type = "closed" /\ i \in DOMAIN testList /\ Step
  /\ patches' = Append(patches, Patch(RemoveAt(testList, i), Nothing))
  /\ mutateVerge(RemoveAt(testList, i)) /\ Changes(RemoveAt(testList, i))
  /\ UNCHANGED <<store, fetch, idle, view, default, form, fresh>>

BugReorder(list, i, j) == [list EXCEPT ![j] = list[i]]
reorder(list, i, j) == InsertAt(RemoveAt(list, i), j, list[i])

\* The page patches at once, the card when the browser is idle.
onDragEnd(i, j) ==
  /\ view # "none" /\ form.type = "closed" /\ {i, j} \subseteq DOMAIN testList /\ i # j /\ Step
  /\ mutateVerge(reorder(testList, i, j)) /\ Changes(reorder(testList, i, j))
  /\ IF view = "page"
     THEN patches' = Append(patches, Patch(reorder(testList, i, j), Nothing)) /\ UNCHANGED idle
     ELSE idle' = Append(idle, reorder(testList, i, j)) /\ UNCHANGED patches
  /\ UNCHANGED <<store, fetch, view, default, form, fresh>>

patchFn ==
  /\ idle # <<>>
  /\ patches' = Append(patches, Patch(Head(idle), Nothing)) /\ idle' = Tail(idle)
  /\ UNCHANGED <<store, cache, fetch, view, default, form, fresh, wanted, clean, steps>>

-------------------------------------------------------------------------------
(* The dialog.                                                             *)
create ==
  /\ view # "none" /\ form.type = "closed" /\ Step
  /\ form' = [type |-> "new", site |-> Site(0), saving |-> form.saving]
  /\ UNCHANGED <<store, cache, fetch, patches, idle, view, default, fresh, wanted, clean>>

edit(i) ==
  /\ view # "none" /\ form.type = "closed" /\ i \in DOMAIN testList /\ Step
  /\ form' = [type |-> "edit", site |-> [testList[i] EXCEPT !.v = @ + 1], saving |-> form.saving]
  /\ UNCHANGED <<store, cache, fetch, patches, idle, view, default, fresh, wanted, clean>>

With(list, site) == [i \in DOMAIN list |-> IF list[i].uid = site.uid THEN site ELSE list[i]]
BugPatchTestList(list, site) == <<site>>
patchTestList(list, site) == With(list, site)

\* Once the patch is through the page is told: of a new site it only hears the
\* uid and reads the verge again, an edited one it puts into its own list.
handleOk ==
  /\ form.type # "closed" /\ ~form.saving /\ Step
  /\ form' = [form EXCEPT !.saving = TRUE]
  /\ IF form.type = "new"
     THEN LET site == Site(fresh + 1) IN
          /\ patches' = Append(patches, Patch(Append(ViewerList, site), Then("refetch", <<>>)))
          /\ fresh' = fresh + 1
          /\ Changes(Append(testList, site))
     ELSE /\ patches' = Append(patches, Patch(patchTestList(ViewerList, form.site),
                                              Then("put", With(testList, form.site))))
          /\ Changes(With(testList, form.site))
          /\ UNCHANGED fresh
  /\ UNCHANGED <<store, cache, fetch, idle, view, default>>

handleClose ==
  /\ form.type # "closed" /\ form' = [form EXCEPT !.type = "closed"]
  /\ UNCHANGED <<store, cache, fetch, patches, idle, view, default, fresh, wanted, clean, steps>>

-------------------------------------------------------------------------------
(* patchVerge: the patch, then a refetch, then what its caller goes on     *)
(* with.  A refetch asked for while one runs replaces it, and whoever      *)
(* waits for the old one waits for the new one.                            *)
Takes(n) ==
  /\ n \in DOMAIN patches /\ ~patches[n].done /\ \A k \in 1..(n-1) : patches[k].done
  /\ store' = patches[n].list
  /\ patches' = [patches EXCEPT ![n].done = TRUE]
  /\ UNCHANGED <<cache, fetch, idle, view, default, form, fresh, wanted, clean, steps>>

\* The handler that waited shows the refusal; the dialog stays open.
BugSaveFails(then) == UNCHANGED form
SaveFails(then) == form' = IF then = Nothing THEN form ELSE [form EXCEPT !.saving = FALSE]
Refuses(n) ==
  /\ n \in DOMAIN patches /\ ~patches[n].done
  /\ patches' = RemoveAt(patches, n)
  /\ SaveFails(patches[n].then)
  /\ clean' = FALSE
  /\ UNCHANGED <<store, cache, fetch, idle, view, default, fresh, wanted, steps>>

Asked(thens) == <<[read |-> FALSE, list |-> NoList, thens |-> thens]>>
Waiting == IF fetch = <<>> THEN <<>> ELSE fetch[1].thens

Answered(n) ==
  /\ n \in DOMAIN patches /\ patches[n].done
  /\ patches' = RemoveAt(patches, n)
  /\ fetch' = Asked(IF patches[n].then = Nothing THEN Waiting ELSE Append(Waiting, patches[n].then))
  /\ UNCHANGED <<store, cache, idle, view, default, form, fresh, wanted, clean, steps>>

Reads ==
  /\ fetch # <<>> /\ ~fetch[1].read
  /\ fetch' = <<[fetch[1] EXCEPT !.read = TRUE, !.list = store]>>
  /\ UNCHANGED <<store, cache, patches, idle, view, default, form, fresh, wanted, clean, steps>>

Fetched ==
  /\ fetch # <<>> /\ fetch[1].read
  /\ LET thens == fetch[1].thens
         Those(kinds) == {i \in DOMAIN thens : thens[i].kind \in kinds}
     IN /\ cache' = IF Those({"put"}) = {} THEN fetch[1].list ELSE thens[Max(Those({"put"}))].list
        /\ fetch' = IF Those({"refetch"}) # {} THEN Asked(<<>>) ELSE <<>>
        /\ form' = IF Those({"put", "refetch"}) # {} THEN Closed ELSE form
  /\ UNCHANGED <<store, patches, idle, view, default, fresh, wanted, clean, steps>>

User ==
  \/ \E v \in {"page", "card"} : Open(v)
  \/ \E i \in 1..Len(testList) : onDeleteTestListItem(i) \/ edit(i)
  \/ \E i, j \in 1..Len(testList) : onDragEnd(i, j)
  \/ create \/ handleOk \/ handleClose

Next ==
  \/ User
  \/ patchFn \/ Reads \/ Fetched
  \/ \E n \in 1..Len(patches) : Takes(n) \/ Refuses(n) \/ Answered(n)

Progress == patchFn \/ Reads \/ Fetched \/ \E n \in 1..Len(patches) : Takes(n) \/ Answered(n)

Spec == Init /\ [][Next]_vars /\ WF_vars(Progress)

-------------------------------------------------------------------------------
\* When nothing runs any more, the list shown and the list stored are what the
\* user made of it, each site once: no drag, deletion, addition or edit is
\* lost between page, card, dialog, cache and verge.  Of changes made one after
\* the other and accepted only: each patches the list its component saw.
ListIsWanted ==
  Quiet /\ clean /\ view # "none" =>
    /\ testList = wanted /\ store = wanted
    /\ \A i, j \in DOMAIN wanted : wanted[i].uid = wanted[j].uid => i = j

\* A saved dialog closes or says why it did not; a list is read again in the end.
Saving == form.saving
SavesEnd == Saving ~> ~Saving
===============================================================================
