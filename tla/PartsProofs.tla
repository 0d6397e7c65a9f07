------------------------------ MODULE PartsProofs ------------------------------
(***************************************************************************)
(* Parts of the frontend that list, choose and edit, each an instance with *)
(* constants of its own.  They share no variable, and a theorem is about   *)
(* one of them; MCParts runs them on small instances and carries the       *)
(* theorems over to its own specification.                                 *)
(*                                                                         *)
(* The page of profiles and their updates, the tests of delays, the        *)
(* selection of proxies, the card of the current proxy, the chain of       *)
(* proxies, the editors of a text, of the DNS settings and of lists, the   *)
(* sites to test.  Each holds for any number of calls at once and any      *)
(* data.                                                                   *)
(***************************************************************************)
EXTENDS Naturals, Sequences, FiniteSetTheorems, SequenceTheorems, TLAPS

CONSTANTS PageProfiles, MaxRequests,
          UpdProfiles, Workers, MaxUpdates,
          DelayNodes, Results, Slots, DelayWorkers, MaxTests,
          Groups, ChoiceProxies, MaxChoices,
          GroupsOf, CardNodes, CardMaxChoices,
          ChainNodes, ChainGroups, MaxChain, ChainMaxCalls,
          DocTexts, DocValid, DocMaxSteps,
          DnsConfigs, DnsDefault, DnsMaxSteps,
          EditItems, EditOriginal, EditDocs, MaxEdits,
          TestsMaxSteps

VARIABLES pageCur, listed, busy, seen, fetches, switchingRef, seq, flows,
          activatings, enhancing, del, selected, requests,
          marks, all, updating, updDone, sched, patched, updEvents, display,
          updates,
          cache, delayPending, row, test, next, heeded, delayGroup, tests,
          choiceNow, choiceStored, choiceSeen, slot, loops, choicePatches,
          choiceAct, choiceLast, restored, choices,
          cardMode, running, cardNow, profile, cardData, sel, cardSaved, deb,
          asked, odd, effect, cardBusy, cardChoices,
          chainMode, chainGroup, chain, chainExit, runtime, chainNow, call,
          chainFetch, edited, chainCalls,
          docFile, docOpen, docValue, docSaved, loading, dialog, loads,
          docSaves, docClean, docSteps,
          dnsFile, dnsOpen, visualization, values, yaml, behind, parsed, reads,
          dnsSave, dnsWant, dnsSteps,
          editKind, editFile, editOpen, editLoad, vis, editCur, editSeq,
          editIdle, trans, editSave, editWant, hasty, edits,
          testsStore, testsCache, testsFetch, testsPatches, testsIdle,
          testsView, testsDefault, testsForm, fresh, wanted, testsClean,
          testsSteps

Page == INSTANCE ProfilesPage WITH cur <- pageCur, Profiles <- PageProfiles
Upd == INSTANCE ProfileUpdates WITH
  done <- updDone, events <- updEvents, Profiles <- UpdProfiles
Delay == INSTANCE DelayManager WITH
  pending <- delayPending, group <- delayGroup, Nodes <- DelayNodes,
  Workers <- DelayWorkers
Choice == INSTANCE ProxySelection WITH
  Proxies <- ChoiceProxies,
  now <- choiceNow, stored <- choiceStored, seen <- choiceSeen,
  patches <- choicePatches, act <- choiceAct, last <- choiceLast
Card == INSTANCE CurrentProxyCard WITH
  mode <- cardMode, now <- cardNow, data <- cardData, saved <- cardSaved,
  busy <- cardBusy, choices <- cardChoices, Nodes <- CardNodes,
  MaxChoices <- CardMaxChoices
Chain == INSTANCE ProxyChain WITH
  group <- chainGroup, exit <- chainExit, now <- chainNow, fetch <- chainFetch,
  calls <- chainCalls, Nodes <- ChainNodes, Groups <- ChainGroups,
  MaxCalls <- ChainMaxCalls
Doc == INSTANCE EditorDocument WITH
  file <- docFile, open <- docOpen, value <- docValue, saved <- docSaved,
  saves <- docSaves, clean <- docClean, steps <- docSteps, Texts <- DocTexts,
  Valid <- DocValid, MaxSteps <- DocMaxSteps
Dns == INSTANCE DnsViewer WITH
  file <- dnsFile, open <- dnsOpen, save <- dnsSave, want <- dnsWant,
  steps <- dnsSteps, Configs <- DnsConfigs, Default <- DnsDefault,
  MaxSteps <- DnsMaxSteps
Edits == INSTANCE SeqEditor WITH
  kind <- editKind, file <- editFile, open <- editOpen, load <- editLoad,
  cur <- editCur, seq <- editSeq, idle <- editIdle, save <- editSave,
  want <- editWant, Items <- EditItems, Original <- EditOriginal,
  Docs <- EditDocs
Tests == INSTANCE TestList WITH
  store <- testsStore, cache <- testsCache, fetch <- testsFetch,
  patches <- testsPatches, idle <- testsIdle, view <- testsView,
  default <- testsDefault, form <- testsForm, clean <- testsClean,
  steps <- testsSteps, MaxSteps <- TestsMaxSteps

-------------------------------------------------------------------------------
(* The page of profiles.  Each switch under way has a number, owns what it *)
(* marks, and takes its marks back when it ends or is overtaken, so        *)
(* nothing is marked but by one that runs (SpinnersOwned).                 *)
(* No profile is called none.                                              *)
PageParameters == Page!Nil \notin PageProfiles

PageFlow == [id : Nat, p : PageProfiles, n : Nat, stage : {"patch", "backend", "answered", "select"}, ok : BOOLEAN,
         aborted : BOOLEAN, owner : BOOLEAN, here : BOOLEAN]

PageTypes ==
  /\ listed \subseteq PageProfiles /\ pageCur \in PageProfiles
  /\ seen.current \in PageProfiles /\ seen.items \subseteq PageProfiles
  /\ switchingRef \in PageProfiles \cup {Page!Nil} /\ seq \in Nat /\ requests \in Nat
  /\ flows \subseteq PageFlow /\ activatings \subseteq PageProfiles /\ selected \subseteq PageProfiles

(* On the page a spinner that neither a reactivation nor a deletion will   *)
(* end is that of the switch.                                              *)
SpinnersOwned == ~enhancing /\ ~del.on => activatings \subseteq {switchingRef}

PageInv == PageTypes /\ enhancing \in BOOLEAN /\ Page!SwitchingIsRunning /\ SpinnersOwned

(* A call that goes on is the same call.                                   *)
LEMMA FlowGoesOn ==
  ASSUME NEW f \in PageFlow
  PROVE  /\ \A s \in {"patch", "backend", "answered", "select"} :
              /\ [f EXCEPT !.stage = s] \in PageFlow /\ [f EXCEPT !.stage = s].here = f.here
              /\ [f EXCEPT !.stage = s].p = f.p /\ [f EXCEPT !.stage = s].n = f.n
              /\ \A b \in BOOLEAN :
                   /\ [f EXCEPT !.stage = s, !.ok = b] \in PageFlow
                      /\ [f EXCEPT !.stage = s, !.ok = b].here = f.here
                   /\ [f EXCEPT !.stage = s, !.ok = b].p = f.p /\ [f EXCEPT !.stage = s, !.ok = b].n = f.n
         /\ \A b \in BOOLEAN : [f EXCEPT !.aborted = b] \in PageFlow /\ [f EXCEPT !.owner = b] \in PageFlow
         /\ \A b, h \in BOOLEAN : [f EXCEPT !.aborted = b, !.here = h] \in PageFlow
  BY DEF PageFlow

LEMMA Advances ==
  ASSUME Page!SwitchingIsRunning, flows \subseteq PageFlow, NEW f \in flows, NEW g \in PageFlow,
         flows' = (flows \ {f}) \cup {g}, g.here = f.here, g.p = f.p, g.n = f.n,
         UNCHANGED <<switchingRef, seq>>
  PROVE  Page!SwitchingIsRunning' /\ flows' \subseteq PageFlow
  BY DEF Page!SwitchingIsRunning

(* A call that ends cleans up after itself, when it is the last one.       *)
LEMMA CleansUp ==
  ASSUME PageParameters, PageInv, NEW f \in flows, flows' = flows \ {f}, Page!cleanupSwitchState(f), UNCHANGED seq
  PROVE  /\ Page!SwitchingIsRunning' /\ flows' \subseteq PageFlow /\ activatings' \subseteq PageProfiles
         /\ switchingRef' \in PageProfiles \cup {Page!Nil}
         /\ activatings \subseteq {switchingRef} => activatings' \subseteq {switchingRef'}
<1>0. flows \subseteq PageFlow /\ activatings \subseteq PageProfiles
      /\ switchingRef \in PageProfiles \cup {Page!Nil} /\ Page!SwitchingIsRunning
  BY DEF PageInv, PageTypes
<1>1. CASE f.here /\ switchingRef = f.p /\ f.n = seq
  <2>1. activatings' = activatings \ {f.p} /\ switchingRef' = Page!Nil
    BY <1>1 DEF Page!cleanupSwitchState
  <2>. QED BY <1>0, <1>1, <2>1 DEF Page!SwitchingIsRunning
<1>2. CASE ~(f.here /\ switchingRef = f.p /\ f.n = seq)
  <2>1. UNCHANGED <<activatings, switchingRef>>
    BY <1>2 DEF Page!cleanupSwitchState
  <2>. QED BY <1>0, <1>2, <2>1 DEF Page!SwitchingIsRunning
<1>. QED BY <1>1, <1>2

LEMMA PageInit == PageParameters /\ Page!Init => PageInv
<1>. SUFFICES ASSUME PageParameters, Page!Init PROVE PageInv
  OBVIOUS
<1>. QED BY DEF Page!Init, PageInv, PageTypes, SpinnersOwned, Page!SwitchingIsRunning

(* The instance counts as the library does.                                *)
LEMMA PageCounts == \A S : Page!Cardinality(S) = Cardinality(S)
  BY DEF Cardinality, Page!Cardinality

LEMMA PageStep == PageParameters /\ PageInv /\ [Page!Next]_Page!vars => PageInv'
<1>. SUFFICES ASSUME PageParameters, PageInv, [Page!Next]_Page!vars PROVE PageInv'
  OBVIOUS
<1>0. PageTypes /\ enhancing \in BOOLEAN /\ Page!SwitchingIsRunning /\ SpinnersOwned
  BY DEF PageInv
<1>1. CASE UNCHANGED Page!vars
  BY <1>0, <1>1 DEF PageInv, PageTypes, SpinnersOwned, Page!SwitchingIsRunning, Page!vars
<1>2. ASSUME NEW f \in flows, Page!patchProfilesConfig(f) PROVE PageInv'
  <2>1. UNCHANGED <<pageCur, listed, seen, switchingRef, seq, activatings, enhancing, del, selected, requests>>
        /\ \E s \in {"backend", "answered"} : flows' = (flows \ {f}) \cup {[f EXCEPT !.stage = s]}
    BY <1>2 DEF Page!patchProfilesConfig
  <2>2. f \in PageFlow
    BY <1>0 DEF PageTypes
  <2>b. PICK s \in {"backend", "answered"} : flows' = (flows \ {f}) \cup {[f EXCEPT !.stage = s]}
    BY <2>1
  <2>c. s \in {"patch", "backend", "answered", "select"}
    OBVIOUS
  <2>a. PICK g \in PageFlow : flows' = (flows \ {f}) \cup {g} /\ g.here = f.here /\ g.p = f.p /\ g.n = f.n
    BY <2>2, <2>b, <2>c, FlowGoesOn
  <2>3. Page!SwitchingIsRunning' /\ flows' \subseteq PageFlow
    BY <1>0, <2>1, <2>a, Advances DEF PageTypes
  <2>. QED BY <1>0, <2>1, <2>3 DEF PageInv, PageTypes, SpinnersOwned
<1>3. ASSUME NEW f \in flows, NEW ok \in BOOLEAN, Page!BackendAnswers(f, ok) PROVE PageInv'
  <2>1. UNCHANGED <<listed, seen, switchingRef, seq, activatings, enhancing, del, selected, requests>>
        /\ flows' = (flows \ {f}) \cup {[f EXCEPT !.stage = "answered", !.ok = ok]}
        /\ (ok => f.p \in listed) /\ pageCur' = IF ok THEN f.p ELSE pageCur
    BY <1>3 DEF Page!BackendAnswers
  <2>2. f \in PageFlow
    BY <1>0 DEF PageTypes
  <2>a. PICK g \in PageFlow : flows' = (flows \ {f}) \cup {g} /\ g.here = f.here /\ g.p = f.p /\ g.n = f.n
    BY <2>1, <2>2, FlowGoesOn
  <2>3. Page!SwitchingIsRunning' /\ flows' \subseteq PageFlow
    BY <1>0, <2>1, <2>a, Advances DEF PageTypes
  <2>4. pageCur' \in PageProfiles
    BY <1>0, <2>1 DEF PageTypes
  <2>. QED BY <1>0, <2>1, <2>3, <2>4 DEF PageInv, PageTypes, SpinnersOwned
<1>4. ASSUME NEW f \in flows, Page!patchProfiles(f) PROVE PageInv'
  <2>1. UNCHANGED <<pageCur, listed, seq, enhancing, del, selected, requests>>
        /\ (seen' = seen \/ seen' = [current |-> pageCur, items |-> listed])
        /\ \/ flows' = flows \ {f} /\ Page!cleanupSwitchState(f)
           \/ flows' = (flows \ {f}) \cup {[f EXCEPT !.stage = "select"]} /\ UNCHANGED <<activatings, switchingRef>>
    BY <1>4 DEF Page!patchProfiles
  <2>2. f \in PageFlow
    BY <1>0 DEF PageTypes
  <2>3. seen'.current \in PageProfiles /\ seen'.items \subseteq PageProfiles
    BY <1>0, <2>1 DEF PageTypes
  <2>4. CASE flows' = flows \ {f} /\ Page!cleanupSwitchState(f)
    BY <1>0, <2>1, <2>3, <2>4, CleansUp DEF PageInv, PageTypes, SpinnersOwned
  <2>5. CASE flows' = (flows \ {f}) \cup {[f EXCEPT !.stage = "select"]} /\ UNCHANGED <<activatings, switchingRef>>
    <3>a. PICK g \in PageFlow : flows' = (flows \ {f}) \cup {g} /\ g.here = f.here /\ g.p = f.p /\ g.n = f.n
      BY <2>2, <2>5, FlowGoesOn
    <3>1. Page!SwitchingIsRunning' /\ flows' \subseteq PageFlow
      BY <1>0, <2>1, <2>5, <3>a, Advances DEF PageTypes
    <3>. QED BY <1>0, <2>1, <2>3, <2>5, <3>1 DEF PageInv, PageTypes, SpinnersOwned
  <2>. QED BY <2>1, <2>4, <2>5
<1>5. ASSUME NEW f \in flows, Page!SwitchEnds(f) PROVE PageInv'
  <2>1. UNCHANGED <<pageCur, listed, seen, seq, enhancing, del, selected, requests>>
        /\ flows' = flows \ {f} /\ Page!cleanupSwitchState(f)
    BY <1>5 DEF Page!SwitchEnds
  <2>. QED BY <1>0, <2>1, CleansUp DEF PageInv, PageTypes, SpinnersOwned
<1>6. CASE Page!EnhanceEnds
  <2>1. UNCHANGED <<pageCur, listed, seen, switchingRef, seq, flows, del, selected, requests>>
        /\ enhancing' = FALSE /\ activatings' = activatings \cap {switchingRef}
    BY <1>6 DEF Page!EnhanceEnds
  <2>. QED BY <1>0, <2>1 DEF PageInv, PageTypes, SpinnersOwned, Page!SwitchingIsRunning
<1>7. CASE Page!DeleteEnhances
  <2>1. UNCHANGED <<pageCur, listed, seen, switchingRef, seq, flows, selected, requests>>
        /\ del.on /\ del' = [del EXCEPT !.enhance = FALSE]
        /\ \/ UNCHANGED <<enhancing, activatings>>
           \/ enhancing' = TRUE /\ activatings' = activatings \cup {seen.current}
    BY <1>7 DEF Page!DeleteEnhances
  <2>2. del'.on
    BY <2>1
  <2>. QED BY <1>0, <2>1, <2>2 DEF PageInv, PageTypes, SpinnersOwned, Page!SwitchingIsRunning
<1>8. CASE Page!DeleteEnds \/ Page!DeleteFails
  <2>1. UNCHANGED <<pageCur, listed, seen, switchingRef, seq, flows, enhancing, requests>>
        /\ activatings' = {} /\ selected' \in {{}, selected}
    BY <1>8 DEF Page!DeleteEnds, Page!DeleteFails
  <2>. QED BY <1>0, <2>1 DEF PageInv, PageTypes, SpinnersOwned, Page!SwitchingIsRunning
<1>9. ASSUME NEW p \in PageProfiles, Page!deleteProfile(p) PROVE PageInv'
  <2>1. UNCHANGED <<seen, switchingRef, seq, flows, activatings, enhancing, selected, requests>>
        /\ listed' = listed \ {p} /\ Cardinality(listed) > 1
        /\ pageCur' = (IF pageCur = p THEN CHOOSE q \in listed \ {p} : TRUE ELSE pageCur)
        /\ del' = [del EXCEPT !.left = @ \ {p}]
    BY <1>9, PageCounts DEF Page!deleteProfile
  <2>2. listed \ {p} # {}
    <3>1. SUFFICES ASSUME listed \subseteq {p} PROVE FALSE
      OBVIOUS
    <3>2. listed = {} \/ listed = {p}
      BY <3>1
    <3>3. Cardinality(listed) \in {0, 1}
      <4>1. CASE listed = {}
        BY <4>1, FS_EmptySet
      <4>2. CASE listed = {p}
        BY <4>2, FS_Singleton
      <4>. QED BY <3>2, <4>1, <4>2
    <3>. QED BY <2>1, <3>3
  <2>3. pageCur' \in PageProfiles
    BY <1>0, <2>1, <2>2 DEF PageTypes
  <2>4. ~del'.on => ~del.on
    BY <2>1
  <2>. QED BY <1>0, <2>1, <2>3, <2>4 DEF PageInv, PageTypes, SpinnersOwned, Page!SwitchingIsRunning
<1>10. CASE Page!mutateProfiles
  <2>1. UNCHANGED <<pageCur, listed, switchingRef, seq, flows, activatings, enhancing, del, selected, requests>>
        /\ seen' = [current |-> pageCur, items |-> listed]
    BY <1>10 DEF Page!mutateProfiles
  <2>. QED BY <1>0, <2>1 DEF PageInv, PageTypes, SpinnersOwned, Page!SwitchingIsRunning
<1>11. CASE Page!onEnhance
  <2>1. UNCHANGED <<pageCur, listed, seen, switchingRef, seq, flows, del, selected>>
        /\ requests' = requests + 1 /\ enhancing' = TRUE /\ activatings' = activatings \cup {seen.current}
    BY <1>11 DEF Page!onEnhance, Page!Request
  <2>. QED BY <1>0, <2>1 DEF PageInv, PageTypes, SpinnersOwned, Page!SwitchingIsRunning
<1>12. CASE Page!deleteSelectedProfiles
  <2>1. UNCHANGED <<pageCur, listed, seen, switchingRef, seq, flows, enhancing, selected>>
        /\ requests' = requests + 1 /\ activatings' = activatings \cup (selected \cap {seen.current})
        /\ del' = [on |-> TRUE, batch |-> TRUE, left |-> selected, enhance |-> seen.current \in selected]
    BY <1>12 DEF Page!deleteSelectedProfiles, Page!Request
  <2>2. del'.on
    BY <2>1
  <2>. QED BY <1>0, <2>1, <2>2 DEF PageInv, PageTypes, SpinnersOwned, Page!SwitchingIsRunning
<1>13. CASE Page!Leave
  <2>1. UNCHANGED <<pageCur, listed, seen, enhancing, del>> /\ requests' = requests + 1
        /\ flows' = {[f EXCEPT !.aborted = @ \/ (f.here /\ f.owner), !.here = FALSE] : f \in flows}
        /\ switchingRef' = Page!Nil /\ seq' = 0 /\ activatings' = {} /\ selected' = {}
    BY <1>13 DEF Page!Leave, Page!Request
  <2>2. flows' \subseteq PageFlow
    <3>1. ASSUME NEW f \in flows
          PROVE [f EXCEPT !.aborted = f.aborted \/ (f.here /\ f.owner), !.here = FALSE] \in PageFlow
      <4>1. f \in PageFlow /\ (f.aborted \/ (f.here /\ f.owner)) \in BOOLEAN
        BY <1>0, Zenon DEF PageTypes
      <4>. QED BY <4>1, FlowGoesOn
    <3>. QED BY <2>1, <3>1
  <2>3. UNCHANGED <<pageCur, listed, seen, enhancing, del>> /\ requests' = requests + 1
        /\ switchingRef' = Page!Nil /\ seq' = 0 /\ activatings' = {} /\ selected' = {}
    BY <2>1
  <2>. QED BY <1>0, <2>2, <2>3 DEF PageInv, PageTypes, SpinnersOwned, Page!SwitchingIsRunning
<1>14. ASSUME NEW p \in PageProfiles, Page!onImport(p) PROVE PageInv'
  <2>1. UNCHANGED <<pageCur, seen, switchingRef, seq, flows, activatings, enhancing, del, selected>>
        /\ requests' = requests + 1 /\ listed' = listed \cup {p}
    BY <1>14 DEF Page!onImport, Page!Request
  <2>. QED BY <1>0, <2>1 DEF PageInv, PageTypes, SpinnersOwned, Page!SwitchingIsRunning
<1>15. ASSUME NEW p \in PageProfiles, Page!onDelete(p) PROVE PageInv'
  <2>1. UNCHANGED <<pageCur, listed, seen, switchingRef, seq, flows, enhancing, selected>>
        /\ requests' = requests + 1 /\ activatings' = {p}
        /\ del' = [on |-> TRUE, batch |-> FALSE, left |-> {p}, enhance |-> seen.current = p]
    BY <1>15 DEF Page!onDelete, Page!Request
  <2>2. del'.on
    BY <2>1
  <2>. QED BY <1>0, <2>1, <2>2 DEF PageInv, PageTypes, SpinnersOwned, Page!SwitchingIsRunning
<1>16. ASSUME NEW p \in PageProfiles, NEW force \in BOOLEAN, Page!onSelect(p, force) PROVE PageInv'
  <2>1. UNCHANGED <<pageCur, listed, seen, enhancing, del, selected>> /\ requests' = requests + 1
        /\ switchingRef # p /\ seq' = seq + 1 /\ switchingRef' = p
        /\ flows' = {[f EXCEPT !.owner = @ /\ ~f.here] : f \in Page!handleProfileInterrupt(p)} \cup {Page!NewFlow(p)}
        /\ activatings' = (activatings \ {switchingRef}) \cup {p}
    BY <1>16 DEF Page!onSelect, Page!activateProfile, Page!Request
  <2>2. Page!handleProfileInterrupt(p) \subseteq PageFlow
    <3>1. ASSUME NEW f \in flows
          PROVE  [f EXCEPT !.aborted = f.aborted \/ (f.here /\ f.p = switchingRef /\ f.owner)] \in PageFlow
      <4>1. f \in PageFlow /\ (f.aborted \/ (f.here /\ f.p = switchingRef /\ f.owner)) \in BOOLEAN
        BY <1>0, Zenon DEF PageTypes
      <4>. QED BY <4>1, FlowGoesOn
    <3>. QED BY <1>0, <3>1 DEF Page!handleProfileInterrupt, PageTypes
  <2>3. ASSUME NEW f \in Page!handleProfileInterrupt(p) PROVE [f EXCEPT !.owner = f.owner /\ ~f.here] \in PageFlow
    <3>1. f \in PageFlow /\ (f.owner /\ ~f.here) \in BOOLEAN
      BY <2>2, Zenon
    <3>. QED BY <3>1, FlowGoesOn
  <2>4. Page!NewFlow(p) \in PageFlow /\ Page!NewFlow(p).here /\ Page!NewFlow(p).p = p /\ Page!NewFlow(p).n = seq + 1
    BY <1>0 DEF Page!NewFlow, PageFlow, PageTypes
  <2>5. flows' \subseteq PageFlow /\ Page!NewFlow(p) \in flows'
    BY <2>1, <2>3, <2>4
  <2>6. Page!SwitchingIsRunning'
    BY <2>1, <2>4, <2>5 DEF Page!SwitchingIsRunning
  <2>7. SpinnersOwned'
    BY <1>0, <2>1 DEF SpinnersOwned
  <2>. QED BY <1>0, <2>1, <2>5, <2>6, <2>7 DEF PageInv, PageTypes
<1>17. ASSUME NEW S \in SUBSET PageProfiles, Page!toggleProfileSelection(S) PROVE PageInv'
  <2>1. UNCHANGED <<pageCur, listed, seen, switchingRef, seq, flows, activatings, enhancing, del, requests>>
        /\ selected' = S
    BY <1>17 DEF Page!toggleProfileSelection
  <2>. QED BY <1>0, <2>1 DEF PageInv, PageTypes, SpinnersOwned, Page!SwitchingIsRunning
<1>. QED
  BY <1>1, <1>2, <1>3, <1>4, <1>5, <1>6, <1>7, <1>8, <1>9, <1>10, <1>11, <1>12, <1>13, <1>14, <1>15, <1>16,
     <1>17
     DEF Page!Next, Page!Progress

LEMMA PageHolds ==
  PageParameters => (Page!Init /\ [][Page!Next]_Page!vars => [](Page!SwitchingIsRunning /\ Page!SpinnersEnd))
<1>. SUFFICES ASSUME PageParameters PROVE Page!Init
                     /\ [][Page!Next]_Page!vars => [](Page!SwitchingIsRunning /\ Page!SpinnersEnd)
  OBVIOUS
<1>1. PageInv => Page!SwitchingIsRunning
  BY DEF PageInv
<1>2. PageInv => Page!SpinnersEnd
  BY DEF PageInv, PageTypes, SpinnersOwned, Page!SpinnersEnd, PageParameters
<1>. QED BY <1>1, <1>2, PageInit, PageStep, PTL

(* What the page waits for is a switch that runs.                          *)
THEOREM PageSwitchingIsRunning == PageParameters => (Page!Spec => []Page!SwitchingIsRunning)
  BY PageHolds, PTL DEF Page!Spec

(* With none running no profile spins.                                     *)
THEOREM PageSpinnersEnd == PageParameters => (Page!Spec => []Page!SpinnersEnd)
  BY PageHolds, PTL DEF Page!Spec

-------------------------------------------------------------------------------
(* Updates and the page.  A mark of an update has a reason: a worker, an   *)
(* update under way, or an event still to come (Reason); what a card shows *)
(* of the next update is the schedule's time, unless news of it is on the  *)
(* way (NewsComes, CardKnows).                                             *)
(* There is a profile.                                                     *)
UpdParameters == UpdProfiles # {}

UpdCall == [p : UpdProfiles, by : {"all", "card", "timer"}, read : {FALSE}]
UpdEvent == [kind : {"started", "completed", "list", "timer"}, p : UpdProfiles]

UpdTypes ==
  /\ updating \subseteq UpdCall /\ updEvents \subseteq UpdEvent
  /\ sched \in [UpdProfiles -> Nat \ {0}]
  /\ display \in [on : BOOLEAN, shown : Nat, timer : BOOLEAN, fetch : Nat]

(* What keeps a mark, and will end it.                                     *)
Reason(p) ==
  \/ all.on /\ p \in all.target
  \/ \E u \in updating : u.p = p /\ u.by \in {"card", "timer"}
  \/ \E e \in updEvents : e.p = p /\ e.kind = "completed"

MarksHaveReasons ==
  /\ \A p \in marks : Reason(p)
  /\ \A e \in updEvents : e.kind = "started" => \E u \in updating : u.p = e.p /\ u.by = "timer"

(* Something the watched card has not heard of yet.                        *)
NewsComes == \E e \in updEvents : e.p = Upd!Watched /\ e.kind \in {"timer", "list"}

CardKnows ==
  /\ display.fetch # Upd!NoFetch => display.fetch = sched[Upd!Watched] \/ NewsComes
  /\ display.fetch = Upd!NoFetch /\ display.on /\ ~display.timer => display.shown = sched[Upd!Watched] \/ NewsComes

UpdInv == UpdTypes /\ MarksHaveReasons /\ CardKnows

LEMMA WatchedOne == UpdParameters => Upd!Watched \in UpdProfiles
  BY DEF UpdParameters, Upd!Watched

LEMMA UpdBegins ==
  ASSUME NEW p \in UpdProfiles, NEW who \in {"all", "card", "timer"}
  PROVE  LET u == [p |-> p, by |-> who, read |-> FALSE] IN u \in UpdCall /\ u.p = p /\ u.by = who
  BY DEF UpdCall

LEMMA UpdEvents ==
  ASSUME NEW p \in UpdProfiles, NEW kind \in {"started", "completed", "list", "timer"}
  PROVE  LET e == [kind |-> kind, p |-> p] IN e \in UpdEvent /\ e.p = p /\ e.kind = kind
  BY DEF UpdEvent

LEMMA UpdInit == Upd!Init => UpdInv
  BY DEF Upd!Init, UpdInv, UpdTypes, MarksHaveReasons, CardKnows, Upd!NoFetch

(* A question that is asked now is answered with the schedule of now.      *)
LEMMA Asking ==
  ASSUME UpdParameters, UpdTypes, NEW d \in [on : BOOLEAN, shown : Nat, timer : BOOLEAN, fetch : Nat]
  PROVE  /\ Upd!Fetch(d) \in [on : BOOLEAN, shown : Nat, timer : BOOLEAN, fetch : Nat]
         /\ Upd!Fetch(d).fetch # Upd!NoFetch
         /\ d.fetch = Upd!NoFetch => Upd!Fetch(d).fetch = sched[Upd!Watched]
         /\ d.fetch # Upd!NoFetch => Upd!Fetch(d).fetch = d.fetch
<1>1. sched[Upd!Watched] \in Nat /\ sched[Upd!Watched] # 0
  BY WatchedOne DEF UpdTypes
<1>. QED BY <1>1 DEF Upd!Fetch, Upd!NoFetch

LEMMA MarksHearing ==
  ASSUME UpdTypes, MarksHaveReasons, NEW e \in updEvents, Upd!Hear(e)
  PROVE  MarksHaveReasons'
<1>1. UNCHANGED <<all, updating>> /\ updEvents' = updEvents \ {e} /\ marks' = Upd!Marked(e)
  BY DEF Upd!Hear
<1>2. e \in UpdEvent
  BY DEF UpdTypes
<1>3. ASSUME NEW p \in marks' PROVE Reason(p)'
  <2>1. CASE p \in marks /\ ~(e.kind = "completed" /\ e.p = p)
    BY <1>1, <2>1 DEF MarksHaveReasons, Reason
  <2>2. CASE e.kind = "completed" /\ e.p = p
    BY <1>1, <1>3, <2>2 DEF Upd!Marked
  <2>3. CASE p \notin marks
    <3>1. e.kind = "started" /\ p = e.p
      BY <1>1, <1>2, <1>3, <2>3 DEF Upd!Marked, UpdEvent
    <3>. QED BY <1>1, <3>1 DEF MarksHaveReasons, Reason
  <2>. QED BY <2>1, <2>2, <2>3
<1>4. \A x \in updEvents' : x.kind = "started" => \E u \in updating' : u.p = x.p /\ u.by = "timer"
  BY <1>1 DEF MarksHaveReasons
<1>. QED BY <1>3, <1>4 DEF MarksHaveReasons

LEMMA CardHearing ==
  ASSUME UpdParameters, UpdTypes, CardKnows, NEW e \in updEvents, Upd!Hear(e)
  PROVE  CardKnows' /\ UpdTypes'
<1>1. UNCHANGED <<updating, sched>> /\ updEvents' = updEvents \ {e} /\ display.fetch = Upd!NoFetch
      /\ display' = Upd!HeardBy(e, display)
  BY DEF Upd!Hear
<1>2. e \in UpdEvent /\ display \in [on : BOOLEAN, shown : Nat, timer : BOOLEAN, fetch : Nat]
  BY DEF UpdTypes
<1>3. Upd!Watched' = Upd!Watched
  BY DEF Upd!Watched
<1>4. CASE e.p = Upd!Watched /\ display.on /\ e.kind = "timer"
  <2>1. display' = [display EXCEPT !.timer = TRUE]
    BY <1>1, <1>4 DEF Upd!HeardBy
  <2>. QED BY <1>1, <1>2, <2>1 DEF CardKnows, UpdTypes
<1>5. CASE e.p = Upd!Watched /\ display.on /\ e.kind \in {"completed", "list"}
  <2>1. display' = Upd!Fetch(display)
    BY <1>1, <1>5 DEF Upd!HeardBy
  <2>. QED BY <1>1, <1>2, <1>3, <2>1, Asking DEF CardKnows, UpdTypes
<1>6. CASE ~display.on \/ e.p # Upd!Watched \/ e.kind = "started"
  <2>1. display' = display
    BY <1>1, <1>6 DEF Upd!HeardBy
  <2>2. NewsComes /\ (e.p # Upd!Watched \/ e.kind = "started") => NewsComes'
    BY <1>1, <1>3 DEF NewsComes
  <2>3. UpdTypes'
    BY <1>1, <2>1 DEF UpdTypes
  <2>4. CASE ~display.on
    BY <1>1, <1>3, <2>1, <2>3, <2>4 DEF CardKnows
  <2>5. CASE e.p # Upd!Watched \/ e.kind = "started"
    BY <1>1, <1>3, <2>1, <2>2, <2>3, <2>5 DEF CardKnows
  <2>. QED BY <1>6, <2>3, <2>4, <2>5
<1>. QED BY <1>2, <1>4, <1>5, <1>6 DEF UpdEvent

LEMMA UpdStep == UpdParameters /\ UpdInv /\ [Upd!Next]_Upd!vars => UpdInv'
<1>. SUFFICES ASSUME UpdParameters, UpdInv, [Upd!Next]_Upd!vars PROVE UpdInv'
  OBVIOUS
<1>0. UpdTypes /\ MarksHaveReasons /\ CardKnows /\ Upd!Watched' = Upd!Watched /\ Upd!Watched \in UpdProfiles
  BY WatchedOne DEF UpdInv, Upd!Watched
<1>1. CASE UNCHANGED Upd!vars
  BY <1>0, <1>1 DEF UpdInv, UpdTypes, MarksHaveReasons, Reason, CardKnows, NewsComes, Upd!vars
<1>2. ASSUME NEW p \in UpdProfiles, Upd!worker(p) PROVE UpdInv'
  <2>1. UNCHANGED <<marks, sched, updEvents, display>>
        /\ all' = [all EXCEPT !.waiting = @ \ {p}]
        /\ updating' = updating \cup {[p |-> p, by |-> "all", read |-> FALSE]}
    BY <1>2 DEF Upd!worker
  <2>a. PICK u \in UpdCall : updating' = updating \cup {u} /\ u.p = p /\ u.by = "all"
    BY <2>1, UpdBegins
  <2>2. UpdTypes'
    BY <1>0, <2>1, <2>a DEF UpdTypes
  <2>3. MarksHaveReasons'
    BY <1>0, <2>1 DEF MarksHaveReasons, Reason
  <2>4. CardKnows'
    BY <1>0, <2>1 DEF CardKnows, NewsComes
  <2>. QED BY <2>2, <2>3, <2>4 DEF UpdInv
<1>3. ASSUME NEW p \in UpdProfiles, Upd!TimerRefresh(p) PROVE UpdInv'
  <2>1. UNCHANGED <<marks, all, updating, display>>
        /\ sched' = [sched EXCEPT ![p] = @ + 1] /\ updEvents' = updEvents \cup {[kind |-> "timer", p |-> p]}
    BY <1>3 DEF Upd!TimerRefresh
  <2>2. UpdTypes'
    BY <1>0, <2>1 DEF UpdTypes, UpdEvent
  <2>3. MarksHaveReasons'
    BY <1>0, <2>1 DEF MarksHaveReasons, Reason
  <2>4. NewsComes \/ p = Upd!Watched => NewsComes'
    <3>1. [kind |-> "timer", p |-> p].p = p /\ [kind |-> "timer", p |-> p].kind = "timer"
      OBVIOUS
    <3>2. [kind |-> "timer", p |-> p] \in updEvents'
      BY <2>1
    <3>3. p = Upd!Watched => NewsComes'
      BY <1>0, <3>1, <3>2, Zenon DEF NewsComes
    <3>4. NewsComes => NewsComes'
      BY <1>0, <2>1 DEF NewsComes
    <3>. QED BY <3>3, <3>4
  <2>5. p # Upd!Watched => sched'[Upd!Watched] = sched[Upd!Watched]
    BY <1>0, <2>1 DEF UpdTypes
  <2>6. CardKnows'
    BY <1>0, <2>1, <2>4, <2>5 DEF CardKnows
  <2>. QED BY <2>2, <2>3, <2>6 DEF UpdInv
<1>4. ASSUME NEW u \in updating, NEW ok \in BOOLEAN, Upd!UpdateEnds(u, ok) PROVE UpdInv'
  <2>1. /\ UNCHANGED <<all, display>> /\ updating' = updating \ {u}
        /\ u.by = "timer" => [kind |-> "started", p |-> u.p] \notin updEvents
        /\ sched' = (IF ok THEN [sched EXCEPT ![u.p] = @ + 1] ELSE sched)
        /\ updEvents' = updEvents \cup (IF u.by = "timer" THEN {[kind |-> "completed", p |-> u.p]} ELSE {})
                            \cup (IF ok THEN {[kind |-> "list", p |-> u.p]} ELSE {})
        /\ marks' = IF u.by = "card" THEN marks \ {u.p} ELSE marks
    BY <1>4 DEF Upd!UpdateEnds
  <2>2. u \in UpdCall /\ u.p \in UpdProfiles
    BY <1>0 DEF UpdTypes, UpdCall
  <2>3. UpdTypes'
    BY <1>0, <2>1, <2>2 DEF UpdTypes, UpdEvent
  <2>4. ASSUME NEW p \in marks' PROVE Reason(p)'
    <3>1. p \in marks /\ Reason(p) /\ ~(u.by = "card" /\ u.p = p)
      BY <1>0, <2>1, <2>4 DEF MarksHaveReasons
    <3>2. CASE u.by = "timer" /\ u.p = p
      <4>1. [kind |-> "completed", p |-> u.p] \in updEvents'
        BY <2>1, <3>2
      <4>. QED BY <4>1, <3>2 DEF Reason
    <3>3. CASE ~(u.by = "timer" /\ u.p = p)
      BY <2>1, <3>1, <3>3 DEF Reason
    <3>. QED BY <3>2, <3>3
  <2>5. ASSUME NEW e \in updEvents', e.kind = "started" PROVE \E x \in updating' : x.p = e.p /\ x.by = "timer"
    <3>1. e \in updEvents
      BY <2>1, <2>5
    <3>2. PICK x \in updating : x.p = e.p /\ x.by = "timer"
      BY <1>0, <2>5, <3>1 DEF MarksHaveReasons
    <3>3. x # u
      <4>1. e = [kind |-> "started", p |-> e.p]
        BY <1>0, <2>5, <3>1 DEF UpdTypes, UpdEvent
      <4>. QED BY <2>1, <3>1, <3>2, <4>1
    <3>. QED BY <2>1, <3>2, <3>3
  <2>6. MarksHaveReasons'
    BY <2>4, <2>5 DEF MarksHaveReasons
  <2>7. NewsComes => NewsComes'
    BY <1>0, <2>1 DEF NewsComes
  <2>8. ok /\ u.p = Upd!Watched => NewsComes'
    <3>1. ok => [kind |-> "list", p |-> u.p] \in updEvents'
      BY <2>1
    <3>. QED BY <1>0, <3>1 DEF NewsComes
  <2>9. ~(ok /\ u.p = Upd!Watched) => sched'[Upd!Watched] = sched[Upd!Watched]
    BY <1>0, <2>1 DEF UpdTypes
  <2>10. CardKnows'
    BY <1>0, <2>1, <2>7, <2>8, <2>9 DEF CardKnows
  <2>. QED BY <2>3, <2>6, <2>10 DEF UpdInv
<1>5. ASSUME NEW e \in updEvents, Upd!Hear(e) PROVE UpdInv'
  BY <1>0, <1>5, MarksHearing, CardHearing DEF UpdInv
<1>6. CASE Upd!RunEnds
  <2>1. UNCHANGED <<updating, sched, updEvents, display>> /\ marks' = marks \ all.target
    BY <1>6 DEF Upd!RunEnds
  <2>2. MarksHaveReasons'
    BY <1>0, <2>1 DEF MarksHaveReasons, Reason
  <2>. QED BY <1>0, <2>1, <2>2 DEF UpdInv, UpdTypes, CardKnows, NewsComes
<1>7. CASE Upd!RefreshTimer
  <2>1. UNCHANGED <<marks, all, updating, sched, updEvents>>
        /\ display.fetch = Upd!NoFetch /\ display' = Upd!Fetch([display EXCEPT !.timer = FALSE])
    BY <1>7 DEF Upd!RefreshTimer
  <2>2. [display EXCEPT !.timer = FALSE] \in [on : BOOLEAN, shown : Nat, timer : BOOLEAN, fetch : Nat]
        /\ [display EXCEPT !.timer = FALSE].fetch = Upd!NoFetch
    BY <1>0, <2>1 DEF UpdTypes
  <2>3. display' \in [on : BOOLEAN, shown : Nat, timer : BOOLEAN, fetch : Nat]
        /\ display'.fetch # Upd!NoFetch /\ display'.fetch = sched[Upd!Watched]
    BY <1>0, <2>1, <2>2, Asking
  <2>. QED BY <1>0, <2>1, <2>3 DEF UpdInv, UpdTypes, MarksHaveReasons, Reason, CardKnows
<1>8. CASE Upd!fetchNextUpdateTime
  <2>1. UNCHANGED <<marks, all, updating, sched, updEvents>> /\ display.fetch # Upd!NoFetch
        /\ display' = [display EXCEPT !.shown = display.fetch, !.fetch = Upd!NoFetch]
    BY <1>8 DEF Upd!fetchNextUpdateTime
  <2>2. display' \in [on : BOOLEAN, shown : Nat, timer : BOOLEAN, fetch : Nat]
        /\ display'.fetch = Upd!NoFetch /\ display'.shown = display.fetch
    BY <1>0, <2>1 DEF UpdTypes, Upd!NoFetch
  <2>. QED BY <1>0, <2>1, <2>2 DEF UpdInv, UpdTypes, MarksHaveReasons, Reason, CardKnows, NewsComes
<1>9. CASE Upd!onUpdateAll
  <2>1. UNCHANGED <<updating, sched, updEvents, display>> /\ ~all.on
        /\ all' = [on |-> TRUE, waiting |-> UpdProfiles \ marks, target |-> UpdProfiles \ marks]
        /\ marks' = marks \cup (UpdProfiles \ marks)
    BY <1>9 DEF Upd!onUpdateAll
  <2>2. all'.on /\ all'.target = UpdProfiles \ marks
    BY <2>1
  <2>3. MarksHaveReasons'
    BY <1>0, <2>1, <2>2 DEF MarksHaveReasons, Reason
  <2>. QED BY <1>0, <2>1, <2>3 DEF UpdInv, UpdTypes, CardKnows, NewsComes
<1>10. CASE Upd!toggleUpdateTimeDisplay
  <2>1. UNCHANGED <<marks, all, updating, sched, updEvents>>
    BY <1>10 DEF Upd!toggleUpdateTimeDisplay
  <2>2. CASE display.on /\ display' = [display EXCEPT !.on = FALSE]
    BY <1>0, <2>1, <2>2 DEF UpdInv, UpdTypes, MarksHaveReasons, Reason, CardKnows, NewsComes
  <2>3. CASE display' = Upd!Fetch([display EXCEPT !.on = TRUE])
    <3>1. [display EXCEPT !.on = TRUE] \in [on : BOOLEAN, shown : Nat, timer : BOOLEAN, fetch : Nat]
          /\ [display EXCEPT !.on = TRUE].fetch = display.fetch
      BY <1>0 DEF UpdTypes
    <3>2. display' \in [on : BOOLEAN, shown : Nat, timer : BOOLEAN, fetch : Nat]
          /\ display'.fetch # Upd!NoFetch
          /\ (display.fetch = Upd!NoFetch => display'.fetch = sched[Upd!Watched])
          /\ (display.fetch # Upd!NoFetch => display'.fetch = display.fetch)
      BY <1>0, <2>3, <3>1, Asking
    <3>. QED BY <1>0, <2>1, <3>2 DEF UpdInv, UpdTypes, MarksHaveReasons, Reason, CardKnows, NewsComes
  <2>. QED BY <1>10, <2>2, <2>3 DEF Upd!toggleUpdateTimeDisplay
<1>11. ASSUME NEW p \in UpdProfiles, Upd!TimerUpdate(p) PROVE UpdInv'
  <2>1. UNCHANGED <<marks, all, sched, display>>
        /\ updating' = updating \cup {[p |-> p, by |-> "timer", read |-> FALSE]}
        /\ updEvents' = updEvents \cup {[kind |-> "started", p |-> p]}
    BY <1>11 DEF Upd!TimerUpdate
  <2>a. PICK u \in UpdCall : updating' = updating \cup {u} /\ u.p = p /\ u.by = "timer"
    BY <2>1, UpdBegins
  <2>b. PICK e \in UpdEvent : updEvents' = updEvents \cup {e} /\ e.p = p /\ e.kind = "started"
    BY <2>1, UpdEvents
  <2>2. UpdTypes'
    BY <1>0, <2>1, <2>a, <2>b DEF UpdTypes
  <2>3. MarksHaveReasons'
    BY <1>0, <2>1, <2>a, <2>b DEF MarksHaveReasons, Reason
  <2>4. CardKnows'
    BY <1>0, <2>1 DEF CardKnows, NewsComes
  <2>. QED BY <2>2, <2>3, <2>4 DEF UpdInv
<1>12. ASSUME NEW p \in UpdProfiles, Upd!patchProfile(p) PROVE UpdInv'
  <2>1. UNCHANGED <<marks, all, updating, sched, display>>
        /\ updEvents' = updEvents \cup {[kind |-> "list", p |-> p]}
    BY <1>12 DEF Upd!patchProfile
  <2>2. UpdTypes'
    BY <1>0, <2>1 DEF UpdTypes, UpdEvent
  <2>3. MarksHaveReasons'
    BY <1>0, <2>1 DEF MarksHaveReasons, Reason
  <2>4. CardKnows'
    BY <1>0, <2>1 DEF CardKnows, NewsComes
  <2>. QED BY <2>2, <2>3, <2>4 DEF UpdInv
<1>13. ASSUME NEW p \in UpdProfiles, NEW menu \in BOOLEAN, Upd!onUpdate(p, menu) PROVE UpdInv'
  <2>1. UNCHANGED <<all, sched, updEvents, display>> /\ marks' = marks \cup {p}
        /\ updating' = updating \cup {[p |-> p, by |-> "card", read |-> FALSE]}
    BY <1>13 DEF Upd!onUpdate
  <2>a. PICK u \in UpdCall : updating' = updating \cup {u} /\ u.p = p /\ u.by = "card"
    BY <2>1, UpdBegins
  <2>2. UpdTypes'
    BY <1>0, <2>1, <2>a DEF UpdTypes
  <2>3. MarksHaveReasons'
    BY <1>0, <2>1, <2>a DEF MarksHaveReasons, Reason
  <2>. QED BY <1>0, <2>1, <2>2, <2>3 DEF UpdInv, CardKnows, NewsComes
<1>. QED
  BY <1>1, <1>2, <1>3, <1>4, <1>5, <1>6, <1>7, <1>8, <1>9, <1>10, <1>11, <1>12, <1>13
     DEF Upd!Next, Upd!Progress

LEMMA UpdHolds == UpdParameters => (Upd!Init /\ [][Upd!Next]_Upd!vars => [](Upd!MarksEnd /\ Upd!NextIsShown))
<1>. SUFFICES ASSUME UpdParameters PROVE Upd!Init /\ [][Upd!Next]_Upd!vars => [](Upd!MarksEnd /\ Upd!NextIsShown)
  OBVIOUS
<1>1. UpdInv => Upd!MarksEnd
  BY DEF UpdInv, MarksHaveReasons, Reason, Upd!MarksEnd, Upd!Quiet
<1>2. UpdInv => Upd!NextIsShown
  BY DEF UpdInv, CardKnows, NewsComes, Upd!NextIsShown, Upd!Quiet
<1>. QED BY <1>1, <1>2, UpdInit, UpdStep, PTL

(* With no update or event under way no profile is marked as being         *)
(* updated.                                                                *)
THEOREM UpdMarksEnd == UpdParameters => (Upd!Spec => []Upd!MarksEnd)
  BY UpdHolds, PTL DEF Upd!Spec

(* A card that has nothing more to ask shows the time of the next update   *)
(* that the schedule has.                                                  *)
THEOREM UpdNextIsShown == UpdParameters => (Upd!Spec => []Upd!NextIsShown)
  BY UpdHolds, PTL DEF Upd!Spec

-------------------------------------------------------------------------------
(* Tests of nodes.  What is queued for a row is what was stored last       *)
(* (QueueIsLast), so the frame delivers what is stored, and a row shows    *)
(* something else only while an update of it is queued.                    *)
DelayValues == Results \cup {"none", "testing", "history"}

DelayTypes ==
  /\ cache \in [Delay!Node -> DelayValues] /\ delayPending \in [Delay!Node -> DelayValues]
  /\ row \in [Delay!Node -> [on : BOOLEAN, lock : BOOLEAN, shows : DelayValues]]
  /\ DOMAIN test = Slots
  /\ \A s \in Slots : DOMAIN test[s] = {"st", "node", "by", "got"} /\ test[s].got \in DelayValues

QueueIsLast == \A n \in Delay!Node : delayPending[n] # Delay!Nil => delayPending[n] = cache[n]

DelayInv == DelayTypes /\ QueueIsLast /\ Delay!ShownIsStored

LEMMA DelayInit == Delay!Init => DelayInv
<1>. SUFFICES ASSUME Delay!Init PROVE DelayInv
  OBVIOUS
<1>1. \A n \in Delay!Node : /\ cache[n] = "none" /\ delayPending[n] = "none"
                            /\ row[n] = [on |-> FALSE, lock |-> FALSE, shows |-> "none"]
  BY DEF Delay!Init, Delay!Nil, Delay!NoRow
<1>2. DelayTypes
  BY DEF Delay!Init, DelayTypes, DelayValues, Delay!Nil, Delay!NoRow, Delay!NoTest
<1>. QED BY <1>1, <1>2 DEF DelayInv, QueueIsLast, Delay!ShownIsStored, Delay!Nil

(* A delay is stored and queued.                                           *)
LEMMA DelayStore ==
  ASSUME DelayInv, NEW m, NEW d \in DelayValues, Delay!Store(m, d)
  PROVE  /\ cache' \in [Delay!Node -> DelayValues] /\ delayPending' \in [Delay!Node -> DelayValues]
         /\ QueueIsLast'
         /\ \A n \in Delay!Node : IF n = m THEN cache'[n] = d /\ delayPending'[n] = d
                                  ELSE cache'[n] = cache[n] /\ delayPending'[n] = delayPending[n]
<1>1. cache' = [cache EXCEPT ![m] = d] /\ delayPending' = [delayPending EXCEPT ![m] = d]
  BY DEF Delay!Store, Delay!setDelay
<1>2. DelayTypes /\ QueueIsLast
  BY DEF DelayInv
<1>. QED BY <1>1, <1>2 DEF DelayTypes, QueueIsLast

LEMMA DelayRows ==
  ASSUME DelayInv, NEW n \in Delay!Node, Delay!updateDelay(n), UNCHANGED delayPending
  PROVE  cache' \in [Delay!Node -> DelayValues] /\ QueueIsLast' /\ Delay!ShownIsStored'
         /\ row' \in [Delay!Node -> [on : BOOLEAN, lock : BOOLEAN, shows : DelayValues]]
<1>0. DelayTypes /\ QueueIsLast /\ Delay!ShownIsStored
  BY DEF DelayInv
<1>1. CASE cache[n] # Delay!Nil /\ UNCHANGED cache
           /\ row' = [row EXCEPT ![n].on = TRUE, ![n].shows = cache[n]]
  BY <1>0, <1>1 DEF DelayTypes, QueueIsLast, Delay!ShownIsStored
<1>2. CASE /\ delayPending[n] = Delay!Nil
           /\ cache' = [cache EXCEPT ![n] = Delay!Nil]
           /\ row' = [row EXCEPT ![n].on = TRUE, ![n].shows = "history"]
  <2>1. "history" \in DelayValues /\ "none" \in DelayValues
    BY DEF DelayValues
  <2>2. /\ cache' \in [Delay!Node -> DelayValues]
        /\ row' \in [Delay!Node -> [on : BOOLEAN, lock : BOOLEAN, shows : DelayValues]]
    BY <1>0, <1>2, <2>1 DEF DelayTypes, Delay!Nil
  <2>3. cache'[n] = "none" /\ row'[n].shows = "history" /\ row'[n].on
    BY <1>0, <1>2 DEF DelayTypes, Delay!Nil
  <2>4. \A m \in Delay!Node : m # n => cache'[m] = cache[m] /\ row'[m] = row[m]
    BY <1>0, <1>2 DEF DelayTypes
  <2>5. QueueIsLast'
    BY <1>0, <1>2, <2>3, <2>4 DEF QueueIsLast
  <2>. QED BY <1>0, <2>2, <2>3, <2>4, <2>5 DEF Delay!ShownIsStored, Delay!Nil
<1>. QED BY <1>1, <1>2 DEF Delay!updateDelay

LEMMA DelayStep == DelayInv /\ [Delay!Next]_Delay!vars => DelayInv'
<1>. SUFFICES ASSUME DelayInv, [Delay!Next]_Delay!vars PROVE DelayInv'
  OBVIOUS
<1>0. DelayTypes /\ QueueIsLast /\ Delay!ShownIsStored
  BY DEF DelayInv
<1>1. CASE Delay!scheduleItemFlush
  <2>1. delayPending' = [n \in Delay!Node |-> Delay!Nil] /\ UNCHANGED <<cache, test>>
        /\ row' = [n \in Delay!Node |-> IF row[n].on /\ delayPending[n] # Delay!Nil
                                        THEN [row[n] EXCEPT !.shows = delayPending[n]] ELSE row[n]]
    BY <1>1 DEF Delay!scheduleItemFlush
  <2>2. DelayTypes'
    BY <1>0, <2>1 DEF DelayTypes, DelayValues, Delay!Nil
  <2>3. \A n \in Delay!Node : row'[n].on = row[n].on
          /\ row'[n].shows = IF row[n].on /\ delayPending[n] # Delay!Nil THEN delayPending[n] ELSE row[n].shows
    BY <1>0, <2>1 DEF DelayTypes
  <2>. QED BY <1>0, <2>1, <2>2, <2>3 DEF DelayInv, QueueIsLast, Delay!ShownIsStored
<1>2. CASE Delay!scheduleGroupFlush \/ UNCHANGED Delay!vars
  <2>1. UNCHANGED <<cache, delayPending, row, test>>
    BY <1>2 DEF Delay!scheduleGroupFlush, Delay!vars
  <2>. QED BY <1>0, <2>1 DEF DelayInv, DelayTypes, QueueIsLast, Delay!ShownIsStored
<1>3. ASSUME NEW n \in Delay!Node, Delay!Mount(n) \/ Delay!NewProxy(n) PROVE DelayInv'
  <2>1. Delay!updateDelay(n) /\ UNCHANGED <<delayPending, test>>
    BY <1>3 DEF Delay!Mount, Delay!NewProxy
  <2>. QED BY <1>0, <2>1, DelayRows DEF DelayInv, DelayTypes
<1>4. ASSUME NEW n \in Delay!Node, Delay!Unmount(n) PROVE DelayInv'
  <2>1. row' = [row EXCEPT ![n] = Delay!NoRow] /\ UNCHANGED <<cache, delayPending>>
        /\ test' = [s \in Slots |-> IF test[s].node = n /\ test[s].by = "row"
                                    THEN [test[s] EXCEPT !.by = "gone"] ELSE test[s]]
    BY <1>4 DEF Delay!Unmount
  <2>2. DelayTypes'
    <3>1. \A s \in Slots : DOMAIN test'[s] = {"st", "node", "by", "got"} /\ test'[s].got \in DelayValues
      BY <1>0, <2>1 DEF DelayTypes
    <3>. QED BY <1>0, <2>1, <3>1 DEF DelayTypes, DelayValues, Delay!NoRow, Delay!Nil
  <2>. QED BY <1>0, <2>1, <2>2 DEF DelayInv, DelayTypes, QueueIsLast, Delay!ShownIsStored, Delay!NoRow
<1>5. ASSUME NEW n \in Delay!Node, Delay!onDelay(n) PROVE DelayInv'
  <2>1. /\ \E s \in Slots : test' = [test EXCEPT ![s] = [st |-> "ask", node |-> n, by |-> "row", got |-> Delay!Nil]]
        /\ row' = [row EXCEPT ![n].lock = TRUE, ![n].shows = "testing"] /\ Delay!Store(n, "testing")
    BY <1>5 DEF Delay!onDelay
  <2>2. "testing" \in DelayValues /\ "testing" # Delay!Nil /\ Delay!Nil \in DelayValues
    BY DEF DelayValues, Delay!Nil
  <2>3. /\ cache' \in [Delay!Node -> DelayValues] /\ delayPending' \in [Delay!Node -> DelayValues]
        /\ QueueIsLast'
        /\ \A m \in Delay!Node : IF m = n THEN cache'[m] = "testing" /\ delayPending'[m] = "testing"
                                  ELSE cache'[m] = cache[m] /\ delayPending'[m] = delayPending[m]
    BY <2>1, <2>2, DelayStore
  <2>4. /\ DOMAIN test' = Slots
        /\ \A s \in Slots : DOMAIN test'[s] = {"st", "node", "by", "got"} /\ test'[s].got \in DelayValues
    BY <1>0, <2>1, <2>2 DEF DelayTypes
  <2>5. row' \in [Delay!Node -> [on : BOOLEAN, lock : BOOLEAN, shows : DelayValues]]
    BY <1>0, <2>1, <2>2 DEF DelayTypes
  <2>6. \A m \in Delay!Node : row'[m].on = row[m].on /\ (m # n => row'[m].shows = row[m].shows)
    BY <1>0, <2>1 DEF DelayTypes
  <2>. QED BY <1>0, <2>2, <2>3, <2>4, <2>5, <2>6 DEF DelayInv, DelayTypes, Delay!ShownIsStored
<1>6. ASSUME NEW s \in Slots, NEW d \in Results, Delay!Answered(s, d) PROVE DelayInv'
  <2>1. test' = [test EXCEPT ![s].st = "pad", ![s].got = d] /\ UNCHANGED <<cache, delayPending, row>>
    BY <1>6 DEF Delay!Answered
  <2>2. DelayTypes'
    BY <1>0, <2>1 DEF DelayTypes, DelayValues
  <2>. QED BY <1>0, <2>1, <2>2 DEF DelayInv, QueueIsLast, Delay!ShownIsStored
<1>7. ASSUME NEW s \in Slots, Delay!Finish(s) PROVE DelayInv'
  <2> DEFINE m == test[s].node
             d == test[s].got
             more == test[s].by = "list" /\ next <= Len(DelayNodes)
  <2>1. d \in DelayValues
        /\ row' = IF test[s].by = "row"
                  THEN [row EXCEPT ![test[s].node].lock = FALSE, ![test[s].node].shows = test[s].got]
                  ELSE row
    BY <1>0, <1>7 DEF Delay!Finish, DelayTypes
  <2>2. test' = Delay!Taken(s, next) \/ test' = [test EXCEPT ![s] = Delay!NoTest]
    BY <1>7 DEF Delay!Finish
  <2>6. /\ cache' \in [Delay!Node -> DelayValues] /\ delayPending' \in [Delay!Node -> DelayValues]
        /\ QueueIsLast'
        /\ \A n \in Delay!Node : delayPending'[n] = Delay!Nil =>
             IF n = m THEN cache'[n] = Delay!Nil
             ELSE delayPending[n] = Delay!Nil /\ cache'[n] = cache[n]
    <3>1. CASE more
      <4> DEFINE k == DelayNodes[next]
      <4>1. /\ cache' = [[cache EXCEPT ![m] = d] EXCEPT ![k] = "testing"]
            /\ delayPending' = [[delayPending EXCEPT ![m] = d] EXCEPT ![k] = "testing"]
        BY <1>7, <3>1 DEF Delay!Finish, Delay!setDelay
      <4>2. "testing" \in DelayValues /\ "testing" # Delay!Nil
        BY DEF DelayValues, Delay!Nil
      <4> HIDE DEF m, d, k, more
      <4>. QED BY <1>0, <2>1, <4>1, <4>2 DEF DelayTypes, QueueIsLast
    <3>2. CASE ~more
      <4>1. /\ cache' = [cache EXCEPT ![m] = d] /\ delayPending' = [delayPending EXCEPT ![m] = d]
        BY <1>7, <3>2 DEF Delay!Finish, Delay!setDelay
      <4> HIDE DEF m, d, more
      <4>. QED BY <1>0, <2>1, <4>1 DEF DelayTypes, QueueIsLast
    <3>. QED BY <3>1, <3>2
  <2>3. DelayTypes'
    <3>1. DOMAIN test' = Slots
          /\ \A t \in Slots : DOMAIN test'[t] = {"st", "node", "by", "got"} /\ test'[t].got \in DelayValues
      BY <1>0, <2>2 DEF DelayTypes, DelayValues, Delay!Taken, Delay!NoTest, Delay!Nil
    <3>2. row' \in [Delay!Node -> [on : BOOLEAN, lock : BOOLEAN, shows : DelayValues]]
      BY <1>0, <2>1 DEF DelayTypes
    <3>. QED BY <2>6, <3>1, <3>2 DEF DelayTypes
  <2>4. \A n \in Delay!Node : row'[n].on = row[n].on /\ (n # test[s].node => row'[n].shows = row[n].shows)
    BY <1>0, <2>1 DEF DelayTypes
  <2>. QED BY <1>0, <2>1, <2>3, <2>4, <2>6 DEF DelayInv, Delay!ShownIsStored
<1>8. ASSUME NEW s \in Slots, Delay!help(s) PROVE DelayInv'
  <2>1. test' = [test EXCEPT ![s].st = "ask"] /\ Delay!Store(test[s].node, "testing") /\ row' = row
    BY <1>8 DEF Delay!help
  <2>2. "testing" \in DelayValues /\ "testing" # Delay!Nil
    BY DEF DelayValues, Delay!Nil
  <2>3. DelayTypes'
    BY <1>0, <2>1, <2>2, DelayStore DEF DelayTypes
  <2>. QED BY <1>0, <2>1, <2>2, <2>3, DelayStore DEF DelayInv, Delay!ShownIsStored
<1>9. ASSUME NEW listening \in BOOLEAN, Delay!checkListDelay(listening) PROVE DelayInv'
  <2>1. /\ cache' = [m \in Delay!Node |-> "testing"] /\ delayPending' = [m \in Delay!Node |-> "testing"]
        /\ row' = row
    BY <1>9 DEF Delay!checkListDelay
  <2>2. DOMAIN test' = Slots
        /\ \A s \in Slots : DOMAIN test'[s] = {"st", "node", "by", "got"} /\ test'[s].got \in DelayValues
    BY <1>0, <1>9 DEF Delay!checkListDelay, DelayTypes, DelayValues, Delay!Nil
  <2>3. DelayTypes'
    BY <1>0, <2>1, <2>2 DEF DelayTypes, DelayValues
  <2>. QED BY <2>1, <2>3 DEF DelayInv, QueueIsLast, Delay!ShownIsStored, Delay!Nil
<1>. QED BY <1>1, <1>2, <1>3, <1>4, <1>5, <1>6, <1>7, <1>8, <1>9 DEF Delay!Next

LEMMA DelayHolds == Delay!Init /\ [][Delay!Next]_Delay!vars => []Delay!ShownIsStored
<1>1. DelayInv => Delay!ShownIsStored
  BY DEF DelayInv
<1>. QED BY <1>1, DelayInit, DelayStep, PTL

(* A row shows what is stored for its node once the frame has delivered    *)
(* what was queued, however the tests overlap.                             *)
THEOREM DelayShown == Delay!Spec => []Delay!ShownIsStored
  BY DelayHolds, PTL DEF Delay!Spec

-------------------------------------------------------------------------------
(* Choices.  One loop sends what was chosen, and what waits or is being    *)
(* sent is the last choice (LastIsOnTheWay).  activateSelected chooses for *)
(* the groups it has left only, and nothing else chose while it is alone,  *)
(* so the groups it is done with run their saved node (RestoredSoFar).     *)
ChoiceReq == [g : Groups, p : ChoiceProxies]

ChoiceTypes ==
  /\ choiceNow \in [Groups -> ChoiceProxies] /\ choiceStored \in Choice!Lists /\ choiceSeen \in Choice!Lists
  /\ slot \in ChoiceReq \cup {Choice!None} /\ choiceLast \in ChoiceReq \cup {Choice!None}
  /\ loops \subseteq [r : ChoiceReq, cur : Choice!Lists]
  /\ choiceAct \in [on : BOOLEAN, left : SUBSET Groups, saved : Choice!Lists, new : Choice!Lists,
              change : BOOLEAN, alone : BOOLEAN]
  /\ restored \in Choice!Lists /\ choicePatches \subseteq Choice!Lists

LastIsOnTheWay ==
  /\ \A l, k \in loops : l = k
  /\ slot # Choice!None => loops # {}
  /\ choiceLast # Choice!None => /\ slot # Choice!None => choiceLast = slot
                                 /\ slot = Choice!None => \A l \in loops : l.r = choiceLast

RestoredSoFar ==
  /\ loops # {} => restored = Choice!NoList /\ ~choiceAct.alone
  /\ choiceAct.left # {} => restored = Choice!NoList
  /\ choiceAct.alone => \A g \in Groups \ choiceAct.left :
                    choiceAct.saved[g] \in Choice!Available[g] => choiceNow[g] = choiceAct.saved[g]

ChoiceInv == ChoiceTypes /\ LastIsOnTheWay /\ RestoredSoFar
             /\ Choice!LastChoiceWins /\ Choice!SelectionRestored

ChoiceParameters == "none" \notin ChoiceProxies

LEMMA ChoiceFacts ==
  ASSUME ChoiceParameters
  PROVE  /\ \A g \in Groups : Choice!Available[g] \subseteq ChoiceProxies /\ "none" \notin Choice!Available[g]
         /\ Choice!NoList \in Choice!Lists
         /\ \A g \in Groups : Choice!NoList[g] = "none"
         /\ \A r \in ChoiceReq : r # Choice!None
<1>. USE DEF ChoiceParameters
<1>1. \A g \in Groups : Choice!Available[g] \subseteq ChoiceProxies
  BY DEF Choice!Available
<1>2. Choice!NoList \in Choice!Lists /\ \A g \in Groups : Choice!NoList[g] = "none"
  BY DEF Choice!NoList, Choice!Lists, Choice!Nil
<1>3. \A r \in ChoiceReq : r # Choice!None
  BY DEF ChoiceReq, Choice!None, Choice!Nil
<1>. QED BY <1>1, <1>2, <1>3

LEMMA ChoiceInit == ChoiceParameters /\ Choice!Init => ChoiceInv
<1>. SUFFICES ASSUME ChoiceParameters, Choice!Init PROVE ChoiceInv
  OBVIOUS
<1>1. ChoiceTypes
  BY ChoiceFacts DEF Choice!Init, ChoiceTypes, Choice!NoAct
<1>2. loops = {} /\ restored = Choice!NoList /\ choiceLast = Choice!None /\ slot = Choice!None /\ choiceAct.alone = FALSE
  BY DEF Choice!Init, Choice!NoAct
<1>3. LastIsOnTheWay
  BY <1>2 DEF LastIsOnTheWay
<1>4. RestoredSoFar
  BY <1>2 DEF RestoredSoFar
<1>. QED BY <1>1, <1>2, <1>3, <1>4, ChoiceFacts DEF ChoiceInv, Choice!LastChoiceWins, Choice!SelectionRestored

(* The loop goes on.                                                       *)
LEMMA ChoiceContinue ==
  ASSUME ChoiceParameters, ChoiceInv, NEW l \in loops, Choice!Continue(l)
  PROVE  /\ slot' = Choice!None /\ l \in [r : ChoiceReq, cur : Choice!Lists]
         /\ slot = Choice!None => loops' = {}
         /\ slot # Choice!None => loops' = {[l EXCEPT !.r = slot]} /\ slot \in ChoiceReq
         /\ loops' \subseteq [r : ChoiceReq, cur : Choice!Lists]
         /\ \A k, m \in loops' : k = m
         /\ \A k \in loops' : k.r = slot
<1>0. ChoiceTypes /\ LastIsOnTheWay
  BY DEF ChoiceInv
<1>1. loops = {l} /\ l \in [r : ChoiceReq, cur : Choice!Lists]
  BY <1>0 DEF LastIsOnTheWay, ChoiceTypes
<1>2. loops' = (loops \ {l}) \cup (IF slot = Choice!None THEN {} ELSE {[l EXCEPT !.r = slot]}) /\ slot' = Choice!None
  BY DEF Choice!Continue
<1>3. CASE slot = Choice!None
  BY <1>1, <1>2, <1>3
<1>4. CASE slot # Choice!None
  <2>1. slot \in ChoiceReq
    BY <1>0, <1>4 DEF ChoiceTypes
  <2>2. loops' = {[l EXCEPT !.r = slot]}
    BY <1>1, <1>2, <1>4
  <2>3. [l EXCEPT !.r = slot] \in [r : ChoiceReq, cur : Choice!Lists] /\ [l EXCEPT !.r = slot].r = slot
    BY <1>1, <2>1
  <2>. QED BY <1>1, <1>2, <1>4, <2>1, <2>2, <2>3
<1>. QED BY <1>3, <1>4

LEMMA ChoiceStep == ChoiceParameters /\ ChoiceInv /\ [Choice!Next]_Choice!vars => ChoiceInv'
<1>. SUFFICES ASSUME ChoiceParameters, ChoiceInv, [Choice!Next]_Choice!vars PROVE ChoiceInv'
  OBVIOUS
<1>0. /\ ChoiceTypes /\ LastIsOnTheWay /\ RestoredSoFar
      /\ Choice!LastChoiceWins /\ Choice!SelectionRestored
  BY DEF ChoiceInv
<1>a. /\ \A g \in Groups : Choice!Available[g] \subseteq ChoiceProxies /\ "none" \notin Choice!Available[g]
      /\ Choice!NoList \in Choice!Lists
      /\ \A g \in Groups : Choice!NoList[g] = "none"
      /\ \A r \in ChoiceReq : r # Choice!None
  BY ChoiceFacts
<1>b. ASSUME restored' = Choice!NoList, UNCHANGED Choice!Available PROVE Choice!SelectionRestored'
  BY <1>a, <1>b DEF Choice!SelectionRestored
<1>c. UNCHANGED Choice!Available
  BY DEF Choice!Available, Choice!First
<1>1. ASSUME NEW g \in Groups, NEW p \in ChoiceProxies, Choice!changeProxy(g, p) PROVE ChoiceInv'
  <2>1. /\ choiceLast' = [g |-> g, p |-> p] /\ restored' = Choice!NoList /\ choiceAct' = [choiceAct EXCEPT !.alone = FALSE]
        /\ UNCHANGED <<choiceNow, choiceStored, choiceSeen, choicePatches>>
        /\ IF loops # {} THEN slot' = choiceLast' /\ UNCHANGED loops
           ELSE loops' = {[r |-> choiceLast', cur |-> choiceSeen]} /\ slot' = Choice!None
    BY <1>1 DEF Choice!changeProxy, Choice!flushChangeQueue
  <2>2. choiceLast' \in ChoiceReq
    BY <2>1 DEF ChoiceReq
  <2>3. loops' # {} /\ choiceAct'.alone = FALSE /\ (slot' = choiceLast' \/ slot' = Choice!None)
        /\ (slot' = Choice!None => \A l \in loops' : l.r = choiceLast')
    <3>1. CASE loops # {}
      BY <1>0, <1>a, <2>1, <2>2, <3>1 DEF ChoiceTypes
    <3>2. CASE loops = {}
      <4>1. loops' = {[r |-> choiceLast', cur |-> choiceSeen]} /\ slot' = Choice!None
        BY <2>1, <3>2
      <4>2. \A l \in loops' : l.r = choiceLast'
        BY <4>1
      <4>. QED BY <1>0, <2>1, <4>1, <4>2 DEF ChoiceTypes
    <3>. QED BY <3>1, <3>2
  <2>4. ChoiceTypes'
    <3>1. loops' \subseteq [r : ChoiceReq, cur : Choice!Lists]
      BY <1>0, <2>1, <2>2 DEF ChoiceTypes
    <3>. QED BY <1>0, <1>a, <2>1, <2>2, <2>3, <3>1 DEF ChoiceTypes
  <2>5. LastIsOnTheWay'
    BY <1>0, <1>a, <2>1, <2>2, <2>3 DEF LastIsOnTheWay
  <2>6. RestoredSoFar'
    BY <2>1, <2>3 DEF RestoredSoFar
  <2>. QED BY <1>b, <1>c, <2>1, <2>3, <2>4, <2>5, <2>6 DEF ChoiceInv, Choice!LastChoiceWins
<1>2. ASSUME NEW l \in loops, Choice!executeChange(l) PROVE ChoiceInv'
  <2>1. choiceNow' = [choiceNow EXCEPT ![l.r.g] = l.r.p] /\ Choice!Continue(l)
        /\ choicePatches' = choicePatches \cup {[l.cur EXCEPT ![l.r.g] = l.r.p]}
        /\ UNCHANGED <<choiceStored, choiceSeen, choiceAct, choiceLast, restored>>
    BY <1>2 DEF Choice!executeChange, Choice!persistSelection
  <2>2. /\ slot' = Choice!None /\ l \in [r : ChoiceReq, cur : Choice!Lists]
        /\ slot = Choice!None => loops' = {}
        /\ slot # Choice!None => loops' = {[l EXCEPT !.r = slot]} /\ slot \in ChoiceReq
        /\ loops' \subseteq [r : ChoiceReq, cur : Choice!Lists]
        /\ \A k, m \in loops' : k = m
        /\ \A k \in loops' : k.r = slot
    BY <2>1, ChoiceContinue
  <2>3. l.r \in ChoiceReq /\ l.r.g \in Groups /\ l.r.p \in ChoiceProxies
    BY <2>2 DEF ChoiceReq
  <2>4. ChoiceTypes'
    <3>1. choicePatches' \subseteq Choice!Lists
      BY <1>0, <2>1, <2>2, <2>3 DEF ChoiceTypes, Choice!Lists
    <3>. QED BY <1>0, <2>1, <2>2, <2>3, <3>1 DEF ChoiceTypes
  <2>5. LastIsOnTheWay'
    BY <1>0, <2>1, <2>2 DEF LastIsOnTheWay
  <2>6. restored = Choice!NoList /\ choiceAct.alone = FALSE
    BY <1>0 DEF RestoredSoFar, ChoiceTypes
  <2>7. RestoredSoFar'
    BY <2>1, <2>6 DEF RestoredSoFar
  <2>8. Choice!LastChoiceWins'
    <3>1. slot # Choice!None => loops' # {}
      BY <2>2
    <3>2. ASSUME slot = Choice!None, choiceLast # Choice!None PROVE choiceNow'[choiceLast.g] = choiceLast.p
      <4>1. l.r = choiceLast
        BY <1>0, <3>2 DEF LastIsOnTheWay
      <4>. QED BY <1>0, <2>1, <2>3, <4>1 DEF ChoiceTypes
    <3>. QED BY <2>1, <3>1, <3>2 DEF Choice!LastChoiceWins
  <2>. QED BY <1>b, <1>c, <2>1, <2>4, <2>5, <2>6, <2>7, <2>8 DEF ChoiceInv
<1>3. ASSUME NEW l \in loops, Choice!ChangeFails(l) PROVE ChoiceInv'
  <2>1. /\ Choice!Continue(l)
        /\ choiceLast' = (IF choiceLast = l.r /\ slot = Choice!None THEN Choice!None ELSE choiceLast)
        /\ UNCHANGED <<choiceNow, choiceStored, choiceSeen, choicePatches, choiceAct, restored>>
    BY <1>3 DEF Choice!ChangeFails
  <2>2. /\ slot' = Choice!None /\ l \in [r : ChoiceReq, cur : Choice!Lists]
        /\ slot = Choice!None => loops' = {}
        /\ slot # Choice!None => loops' = {[l EXCEPT !.r = slot]} /\ slot \in ChoiceReq
        /\ loops' \subseteq [r : ChoiceReq, cur : Choice!Lists]
        /\ \A k, m \in loops' : k = m
        /\ \A k \in loops' : k.r = slot
    BY <2>1, ChoiceContinue
  <2>4. ChoiceTypes'
    BY <1>0, <2>1, <2>2 DEF ChoiceTypes
  <2>5. choiceLast' # Choice!None => slot # Choice!None /\ choiceLast' = slot
    BY <1>0, <2>1 DEF LastIsOnTheWay
  <2>6. LastIsOnTheWay'
    BY <2>2, <2>5 DEF LastIsOnTheWay
  <2>7. restored = Choice!NoList /\ choiceAct.alone = FALSE
    BY <1>0 DEF RestoredSoFar, ChoiceTypes
  <2>8. RestoredSoFar'
    BY <2>1, <2>7 DEF RestoredSoFar
  <2>9. Choice!LastChoiceWins'
    BY <2>2, <2>5 DEF Choice!LastChoiceWins
  <2>. QED BY <1>b, <1>c, <2>1, <2>4, <2>6, <2>7, <2>8, <2>9 DEF ChoiceInv
<1>4. CASE Choice!mutateProfiles \/ UNCHANGED Choice!vars
           \/ \E k \in choicePatches, accepted \in BOOLEAN : Choice!patchCurrent(k, accepted)
  <2>1. UNCHANGED <<choiceNow, slot, loops, choiceAct, choiceLast, restored>>
    BY <1>4 DEF Choice!mutateProfiles, Choice!vars, Choice!patchCurrent
  <2>2. choicePatches' \subseteq choicePatches /\ choiceStored' \in choicePatches \cup {choiceStored}
        /\ choiceSeen' \in {choiceSeen, choiceStored}
    BY <1>4 DEF Choice!mutateProfiles, Choice!vars, Choice!patchCurrent
  <2>3. ChoiceTypes'
    BY <1>0, <2>1, <2>2 DEF ChoiceTypes
  <2>4. LastIsOnTheWay' /\ RestoredSoFar'
    BY <1>0, <1>c, <2>1 DEF LastIsOnTheWay, RestoredSoFar
  <2>5. Choice!LastChoiceWins' /\ Choice!SelectionRestored'
    BY <1>0, <1>c, <2>1 DEF Choice!LastChoiceWins, Choice!SelectionRestored
  <2>. QED BY <2>3, <2>4, <2>5 DEF ChoiceInv
<1>5. CASE Choice!CoreLoads
  <2>1. /\ loops = {} /\ choiceNow' \in [Groups -> ChoiceProxies]
        /\ choiceLast' = Choice!None /\ restored' = Choice!NoList
        /\ choiceAct' = IF choiceSeen = Choice!NoList THEN Choice!NoAct
                  ELSE [on |-> TRUE, left |-> Groups, saved |-> choiceSeen, new |-> Choice!NoList,
                        change |-> FALSE, alone |-> TRUE]
        /\ UNCHANGED <<choiceStored, choiceSeen, slot, loops, choicePatches>>
    BY <1>5 DEF Choice!CoreLoads
  <2>2. ChoiceTypes'
    <3>1. choiceAct' \in [on : BOOLEAN, left : SUBSET Groups, saved : Choice!Lists, new : Choice!Lists,
                    change : BOOLEAN, alone : BOOLEAN]
      BY <1>0, <1>a, <2>1 DEF ChoiceTypes, Choice!NoAct
    <3>. QED BY <1>0, <1>a, <2>1, <3>1 DEF ChoiceTypes
  <2>3. LastIsOnTheWay'
    BY <1>0, <2>1 DEF LastIsOnTheWay
  <2>4. RestoredSoFar'
    BY <1>0, <2>1 DEF RestoredSoFar, Choice!NoAct
  <2>. QED BY <1>b, <1>c, <2>1, <2>2, <2>3, <2>4 DEF ChoiceInv, Choice!LastChoiceWins
<1>6. CASE Choice!activateSelected
  <2>1. /\ choiceAct.left = {} /\ choiceAct' = Choice!NoAct
        /\ choicePatches' \subseteq choicePatches \cup {choiceAct.new}
        /\ restored' = IF choiceAct.alone THEN choiceAct.saved ELSE Choice!NoList
        /\ UNCHANGED <<choiceNow, choiceStored, choiceSeen, slot, loops, choiceLast>>
    BY <1>6 DEF Choice!activateSelected
  <2>2. ChoiceTypes'
    <3>1. choiceAct' \in [on : BOOLEAN, left : SUBSET Groups, saved : Choice!Lists, new : Choice!Lists,
                    change : BOOLEAN, alone : BOOLEAN]
      BY <1>a, <2>1 DEF Choice!NoAct
    <3>. QED BY <1>0, <1>a, <2>1, <3>1 DEF ChoiceTypes
  <2>3. LastIsOnTheWay' /\ Choice!LastChoiceWins'
    BY <1>0, <2>1 DEF LastIsOnTheWay, Choice!LastChoiceWins
  <2>4. RestoredSoFar'
    <3>1. choiceAct'.alone = FALSE /\ choiceAct'.left = {}
      BY <2>1 DEF Choice!NoAct
    <3>. QED BY <1>0, <2>1, <3>1 DEF RestoredSoFar
  <2>5. Choice!SelectionRestored'
    <3>1. CASE choiceAct.alone
      BY <1>0, <1>c, <2>1, <3>1 DEF RestoredSoFar, Choice!SelectionRestored
    <3>2. CASE ~choiceAct.alone
      BY <1>b, <1>c, <2>1, <3>2
    <3>. QED BY <3>1, <3>2
  <2>. QED BY <2>2, <2>3, <2>4, <2>5 DEF ChoiceInv
<1>7. ASSUME NEW g \in Groups, Choice!Skip(g) PROVE ChoiceInv'
  <2>1. /\ g \in choiceAct.left
        /\ \E n \in ChoiceProxies \cup {"none"}, c \in BOOLEAN :
             choiceAct' = [choiceAct EXCEPT !.left = @ \ {g}, !.new[g] = n, !.change = @ \/ c]
        /\ choiceAct.saved[g] = "none" \/ choiceAct.saved[g] \notin Choice!Available[g] \/ choiceAct.saved[g] = choiceNow[g]
        /\ UNCHANGED <<choiceNow, choiceStored, choiceSeen, slot, loops, choicePatches, choiceLast, restored>>
    BY <1>0, <1>7 DEF Choice!Skip, Choice!Turn, ChoiceTypes, Choice!Nil
  <2>2. ChoiceTypes'
    <3>1. PICK n \in ChoiceProxies \cup {"none"}, c \in BOOLEAN :
            choiceAct' = [choiceAct EXCEPT !.left = @ \ {g}, !.new[g] = n, !.change = @ \/ c]
      BY <2>1
    <3>2. [choiceAct.new EXCEPT ![g] = n] \in Choice!Lists
      BY <1>0 DEF ChoiceTypes, Choice!Lists, Choice!Nil
    <3>3. choiceAct'.on \in BOOLEAN /\ choiceAct'.left = choiceAct.left \ {g} /\ choiceAct'.saved = choiceAct.saved /\ choiceAct'.alone = choiceAct.alone
          /\ choiceAct'.new = [choiceAct.new EXCEPT ![g] = n] /\ choiceAct'.change \in BOOLEAN
      BY <1>0, <3>1 DEF ChoiceTypes
    <3>4. choiceAct' \in [on : BOOLEAN, left : SUBSET Groups, saved : Choice!Lists, new : Choice!Lists,
                    change : BOOLEAN, alone : BOOLEAN]
      BY <1>0, <3>1, <3>2, <3>3 DEF ChoiceTypes
    <3>. QED BY <1>0, <2>1, <3>4 DEF ChoiceTypes
  <2>3. choiceAct'.left = choiceAct.left \ {g} /\ choiceAct'.saved = choiceAct.saved /\ choiceAct'.alone = choiceAct.alone
    BY <1>0, <2>1 DEF ChoiceTypes
  <2>4. LastIsOnTheWay' /\ Choice!LastChoiceWins'
    BY <1>0, <2>1 DEF LastIsOnTheWay, Choice!LastChoiceWins
  <2>5. RestoredSoFar'
    BY <1>0, <1>a, <1>c, <2>1, <2>3 DEF RestoredSoFar
  <2>6. Choice!SelectionRestored'
    BY <1>0, <1>c, <2>1 DEF Choice!SelectionRestored
  <2>. QED BY <2>2, <2>4, <2>5, <2>6 DEF ChoiceInv
<1>8. ASSUME NEW g \in Groups, Choice!Select(g) PROVE ChoiceInv'
  <2>1. /\ g \in choiceAct.left /\ choiceAct.saved[g] \in Choice!Available[g]
        /\ UNCHANGED <<choiceStored, choiceSeen, slot, loops, choicePatches, restored>>
    BY <1>8 DEF Choice!Select
  <2>2. restored = Choice!NoList /\ choiceAct.saved[g] \in ChoiceProxies /\ choiceAct.left \subseteq Groups
    BY <1>0, <1>a, <2>1 DEF RestoredSoFar, ChoiceTypes
  <2>3. \/ /\ choiceAct' = [choiceAct EXCEPT !.left = @ \ {g}, !.new[g] = choiceAct.saved[g], !.change = @ \/ TRUE]
           /\ choiceNow' = [choiceNow EXCEPT ![g] = choiceAct.saved[g]]
           /\ choiceLast' = IF choiceLast.g = g THEN Choice!None ELSE choiceLast
        \/ /\ choiceAct' = [choiceAct EXCEPT !.left = @ \ {g}, !.new[g] = choiceAct.saved[g], !.change = TRUE, !.alone = FALSE]
           /\ UNCHANGED <<choiceNow, choiceLast>>
    BY <1>8 DEF Choice!Select, Choice!Turn
  <2>4. ChoiceTypes'
    <3>1. choiceAct' \in [on : BOOLEAN, left : SUBSET Groups, saved : Choice!Lists, new : Choice!Lists,
                    change : BOOLEAN, alone : BOOLEAN]
      <4>1. [choiceAct.new EXCEPT ![g] = choiceAct.saved[g]] \in Choice!Lists
        BY <1>0, <2>2 DEF ChoiceTypes, Choice!Lists
      <4>2. choiceAct'.on \in BOOLEAN /\ choiceAct'.left = choiceAct.left \ {g} /\ choiceAct'.saved = choiceAct.saved /\ choiceAct'.alone \in BOOLEAN
            /\ choiceAct'.new = [choiceAct.new EXCEPT ![g] = choiceAct.saved[g]] /\ choiceAct'.change = TRUE
        BY <1>0, <2>3 DEF ChoiceTypes
      <4>3. choiceAct' = [on |-> choiceAct'.on, left |-> choiceAct'.left, saved |-> choiceAct'.saved, new |-> choiceAct'.new,
                    change |-> choiceAct'.change, alone |-> choiceAct'.alone]
        BY <1>0, <2>3 DEF ChoiceTypes
      <4>. QED BY <1>0, <4>1, <4>2, <4>3 DEF ChoiceTypes
    <3>2. choiceNow' \in [Groups -> ChoiceProxies] /\ choiceLast' \in ChoiceReq \cup {Choice!None}
      BY <1>0, <2>2, <2>3 DEF ChoiceTypes
    <3>. QED BY <1>0, <2>1, <3>1, <3>2 DEF ChoiceTypes
  <2>5. LastIsOnTheWay'
    BY <1>0, <2>1, <2>3 DEF LastIsOnTheWay
  <2>6. choiceAct'.left = choiceAct.left \ {g} /\ choiceAct'.saved = choiceAct.saved /\ (choiceAct'.alone => choiceAct.alone)
        /\ (choiceAct'.alone => choiceNow' = [choiceNow EXCEPT ![g] = choiceAct.saved[g]])
    BY <1>0, <2>3 DEF ChoiceTypes
  <2>7. RestoredSoFar'
    <3>1. loops' # {} => restored' = Choice!NoList /\ ~choiceAct'.alone
      BY <1>0, <2>1, <2>6 DEF RestoredSoFar
    <3>2. ASSUME choiceAct'.alone, NEW h \in Groups \ choiceAct'.left, choiceAct'.saved[h] \in Choice!Available[h]
          PROVE choiceNow'[h] = choiceAct'.saved[h]
      BY <1>0, <2>1, <2>6, <3>2 DEF RestoredSoFar, ChoiceTypes
    <3>. QED BY <1>c, <2>1, <2>2, <3>1, <3>2 DEF RestoredSoFar
  <2>8. Choice!LastChoiceWins'
    <3>1. ASSUME choiceLast' # Choice!None PROVE choiceLast' = choiceLast /\ choiceNow'[choiceLast.g] = choiceNow[choiceLast.g]
      <4>1. choiceLast' = choiceLast /\ choiceLast.g \in Groups
        BY <1>0, <2>3, <3>1 DEF ChoiceTypes, ChoiceReq
      <4>. QED BY <1>0, <2>3, <3>1, <4>1 DEF ChoiceTypes
    <3>. QED BY <1>0, <2>1, <3>1 DEF Choice!LastChoiceWins
  <2>. QED BY <1>b, <1>c, <2>1, <2>2, <2>4, <2>5, <2>7, <2>8 DEF ChoiceInv
<1>. QED BY <1>1, <1>2, <1>3, <1>4, <1>5, <1>6, <1>7, <1>8 DEF Choice!Next

LEMMA ChoiceHolds ==
  ChoiceParameters => (Choice!Init /\ [][Choice!Next]_Choice!vars
                       => [](Choice!LastChoiceWins /\ Choice!SelectionRestored))
<1>. SUFFICES ASSUME ChoiceParameters
     PROVE  Choice!Init /\ [][Choice!Next]_Choice!vars
            => [](Choice!LastChoiceWins /\ Choice!SelectionRestored)
  OBVIOUS
<1>1. ChoiceInv => Choice!LastChoiceWins /\ Choice!SelectionRestored
  BY DEF ChoiceInv
<1>. QED BY <1>1, ChoiceInit, ChoiceStep, PTL

(* Once the queue is empty the last choice is in force, and after a        *)
(* restoration that nothing disturbed every group runs its saved node.     *)
THEOREM ChoiceWins ==
  ASSUME ChoiceParameters PROVE Choice!Spec => [](Choice!LastChoiceWins /\ Choice!SelectionRestored)
  BY ChoiceHolds, PTL DEF Choice!Spec

-------------------------------------------------------------------------------
(* The card of the home page.  The second effect is one that was disposed  *)
(* of: it never waits for a timer, so only the first can begin a test.     *)
CardInv ==
  /\ running \in Card!Profiles
  /\ DOMAIN cardData = {"groups", "now"} /\ cardData.groups[1] # "DIRECT"
  /\ DOMAIN sel = {"g", "p"} /\ sel = [g |-> sel.g, p |-> sel.p]
  /\ odd \in BOOLEAN
  /\ effect = <<effect[1], effect[2]>>
  /\ Card!CardFollows /\ Card!NoOldTimer

(* Every profile has a group, and none is called as the node DIRECT is.    *)
CardParameters ==
  \A p \in DOMAIN GroupsOf : /\ 1 \in DOMAIN GroupsOf[p]
                             /\ \A i \in DOMAIN GroupsOf[p] : GroupsOf[p][i] # "DIRECT"

LEMMA CardNames ==
  ASSUME CardParameters
  PROVE  /\ \A g \in Card!Groups : g # "DIRECT"
         /\ \A p \in Card!Profiles : GroupsOf[p][1] # "DIRECT"
<1>1. ASSUME NEW g \in Card!Groups, g # "GLOBAL" PROVE g # "DIRECT"
  <2>0. PICK names \in {Card!ToSet(GroupsOf[p]) : p \in Card!Profiles} : g \in names
    BY <1>1 DEF Card!Groups
  <2>1. PICK p \in Card!Profiles : g \in Card!ToSet(GroupsOf[p])
    BY <2>0
  <2>2. PICK i \in DOMAIN GroupsOf[p] : g = GroupsOf[p][i]
    BY <2>1 DEF Card!ToSet
  <2>. QED BY <2>1, <2>2 DEF CardParameters, Card!Profiles
<1>2. \A p \in Card!Profiles : GroupsOf[p][1] # "DIRECT"
  BY DEF CardParameters, Card!Profiles
<1>3. \A g \in Card!Groups : g # "DIRECT"
  <2>. TAKE g \in Card!Groups
  <2>1. CASE g = "GLOBAL"
    BY <2>1
  <2>2. CASE g # "GLOBAL"
    BY <1>1, <2>2
  <2>. QED BY <2>1, <2>2
<1>. QED BY <1>2, <1>3

LEMMA CardInit == CardParameters /\ Card!Init => CardInv
<1>. SUFFICES ASSUME CardParameters, Card!Init PROVE CardInv
  OBVIOUS
<1>1. running \in Card!Profiles /\ cardData = [groups |-> GroupsOf[running], now |-> cardNow]
  BY DEF Card!Init, Card!Fetched
<1>2. GroupsOf[running][1] # "DIRECT"
  BY <1>1, CardNames
<1>3. sel.p = Card!NowOf(cardData, sel.g) /\ sel = [g |-> sel.g, p |-> sel.p] /\ DOMAIN sel = {"g", "p"}
  <2>1. sel = [g |-> IF cardMode = "rule" THEN GroupsOf[running][1]
                     ELSE IF cardMode = "global" THEN "GLOBAL" ELSE "DIRECT",
               p |-> IF cardMode = "direct" THEN "DIRECT"
                     ELSE cardNow[IF cardMode = "global" THEN "GLOBAL" ELSE GroupsOf[running][1]]]
        /\ cardMode \in {"rule", "global", "direct"}
    BY DEF Card!Init, Card!Modes
  <2>2. CASE cardMode = "rule"
    BY <1>1, <1>2, <2>1, <2>2 DEF Card!NowOf
  <2>3. CASE cardMode = "global"
    BY <1>1, <1>2, <2>1, <2>3 DEF Card!NowOf
  <2>4. CASE cardMode = "direct"
    BY <1>1, <1>2, <2>1, <2>4 DEF Card!NowOf
  <2>. QED BY <2>1, <2>2, <2>3, <2>4
<1>4. odd = FALSE /\ effect = <<IF cardMode = "direct" THEN "off" ELSE "initial", "off">>
  BY DEF Card!Init
<1>. QED BY <1>1, <1>2, <1>3, <1>4 DEF CardInv, Card!CardFollows, Card!NoOldTimer

(* Both effects show the node of the group they show.                      *)
LEMMA CardEffects ==
  ASSUME CardInv, NEW m, NEW p, NEW d, Card!Effects(m, p, d),
         DOMAIN d = {"groups", "now"}, d.groups[1] # "DIRECT"
  PROVE  /\ cardData' = d /\ odd' = FALSE /\ Card!CardFollows'
         /\ DOMAIN sel' = {"g", "p"} /\ sel' = [g |-> sel'.g, p |-> sel'.p]
<1>1. \E g : \/ sel' = [g |-> g, p |-> Card!NowOf(d, g)]
             \/ sel' = [g |-> d.groups[1], p |-> d.now[d.groups[1]]]
  BY DEF Card!Effects, Card!Shown
<1>2. cardData' = d /\ odd' = FALSE
  BY DEF Card!Effects
<1>3. d.now[d.groups[1]] = Card!NowOf(d, d.groups[1])
  BY DEF Card!NowOf
<1>4. PICK g : sel' = [g |-> g, p |-> Card!NowOf(d, g)]
  BY <1>1, <1>3
<1>5. sel'.p = Card!NowOf(d, sel'.g)
  BY <1>4
<1>. QED BY <1>2, <1>4, <1>5 DEF Card!CardFollows, Card!NowOf

(* A new effect replaces the first one, and the old one keeps its test.    *)
LEMMA CardReeffect ==
  ASSUME CardInv, Card!Reeffect
  PROVE  effect' = <<effect'[1], effect'[2]>> /\ Card!NoOldTimer'
<1>1. CASE sel' = sel
  BY <1>1 DEF Card!Reeffect, CardInv, Card!NoOldTimer
<1>2. CASE sel' # sel
  BY <1>2 DEF Card!Reeffect, Card!NewEffect, CardInv, Card!NoOldTimer
<1>. QED BY <1>1, <1>2

LEMMA CardStep == CardParameters /\ CardInv /\ [Card!Next]_Card!vars => CardInv'
<1>. SUFFICES ASSUME CardParameters, CardInv, [Card!Next]_Card!vars PROVE CardInv'
  OBVIOUS
<1>0. /\ running \in Card!Profiles /\ DOMAIN cardData = {"groups", "now"} /\ cardData.groups[1] # "DIRECT"
      /\ DOMAIN sel = {"g", "p"} /\ sel = [g |-> sel.g, p |-> sel.p]
      /\ odd \in BOOLEAN
      /\ effect = <<effect[1], effect[2]>>
      /\ Card!CardFollows /\ Card!NoOldTimer
  BY DEF CardInv
<1>1. ASSUME NEW m, NEW p, NEW d, Card!Effects(m, p, d), Card!Reeffect, UNCHANGED running,
             DOMAIN d = {"groups", "now"}, d.groups[1] # "DIRECT"
      PROVE  CardInv'
  <2>1. /\ cardData' = d /\ odd' = FALSE /\ Card!CardFollows'
        /\ DOMAIN sel' = {"g", "p"} /\ sel' = [g |-> sel'.g, p |-> sel'.p]
    BY <1>1, CardEffects
  <2>2. effect' = <<effect'[1], effect'[2]>> /\ Card!NoOldTimer'
    BY <1>1, CardReeffect
  <2>. QED BY <1>1, <2>1, <2>2 DEF CardInv
<1>2. CASE Card!ProfileChanges \/ \E m \in Card!Modes : Card!ModeChanges(m)
  <2>1. \E m, p : Card!Effects(m, p, cardData) /\ Card!Reeffect /\ UNCHANGED running
    BY <1>2 DEF Card!ProfileChanges, Card!ModeChanges
  <2>. QED BY <1>0, <1>1, <2>1
<1>3. CASE Card!ProxiesChange
  <2>1. Card!Effects(cardMode, profile, Card!Fetched) /\ Card!Reeffect /\ UNCHANGED running
    BY <1>3 DEF Card!ProxiesChange
  <2>2. DOMAIN Card!Fetched = {"groups", "now"} /\ Card!Fetched.groups[1] # "DIRECT"
    BY <1>0, CardNames DEF Card!Fetched
  <2>. QED BY <1>1, <2>1, <2>2
<1>4. CASE Card!Elsewhere \/ UNCHANGED Card!vars \/ (\E n \in CardNodes : Card!handleProxyChange(n))
           \/ \E ok \in BOOLEAN : Card!Answered(ok)
  <2>1. UNCHANGED <<cardData, sel, odd, effect>> /\ running' \in Card!Profiles
    BY <1>0, <1>4 DEF Card!Elsewhere, Card!vars, Card!handleProxyChange, Card!Answered, Card!card
  <2>. QED BY <1>0, <2>1 DEF CardInv, Card!CardFollows, Card!NowOf, Card!NoOldTimer
<1>5. ASSUME NEW g \in Card!Groups, Card!handleGroupChange(g) PROVE CardInv'
  <2>1. sel' = [g |-> g, p |-> cardData.now[g]] /\ odd' = FALSE /\ cardData' = cardData /\ Card!Reeffect
        /\ UNCHANGED running
    BY <1>5 DEF Card!handleGroupChange
  <2>2. g # "DIRECT"
    BY CardNames
  <2>3. effect' = <<effect'[1], effect'[2]>> /\ Card!NoOldTimer'
    BY <2>1, CardReeffect
  <2>4. DOMAIN sel' = {"g", "p"} /\ sel' = [g |-> sel'.g, p |-> sel'.p] /\ Card!CardFollows'
    BY <2>1, <2>2 DEF Card!CardFollows, Card!NowOf
  <2>. QED BY <1>0, <2>1, <2>3, <2>4 DEF CardInv
<1>6. CASE Card!debouncedSetState
  <2>1. sel' = [sel EXCEPT !.p = deb] /\ cardData' = cardData /\ Card!Reeffect
        /\ odd' = (odd \/ deb # Card!NowOf(cardData, sel.g)) /\ UNCHANGED running
    BY <1>6 DEF Card!debouncedSetState
  <2>2. sel'.g = sel.g /\ sel'.p = deb /\ DOMAIN sel' = {"g", "p"} /\ sel' = [g |-> sel'.g, p |-> sel'.p]
    BY <1>0, <2>1
  <2>3. effect' = <<effect'[1], effect'[2]>> /\ Card!NoOldTimer'
    BY <2>1, CardReeffect
  <2>4. odd' \in BOOLEAN
    BY <2>1
  <2>5. Card!NowOf(cardData, sel.g)' = Card!NowOf(cardData, sel.g)
    BY <2>1, <2>2 DEF Card!NowOf
  <2>6. Card!CardFollows'
    BY <2>1, <2>2, <2>5 DEF Card!CardFollows
  <2>. QED BY <1>0, <2>1, <2>2, <2>3, <2>4, <2>6 DEF CardInv
<1>7. ASSUME NEW e \in {1, 2}, Card!checkCurrentProxyDelay(e) \/ Card!runAndSchedule(e) PROVE CardInv'
  <2>1. UNCHANGED <<running, cardData, sel, odd>>
    BY <1>7 DEF Card!checkCurrentProxyDelay, Card!runAndSchedule, Card!card
  <2>2. \/ /\ e = 1 /\ \E v : effect' = [effect EXCEPT ![1] = v]
        \/ /\ e = 2 /\ effect' = [effect EXCEPT ![2] = "off"]
    BY <1>0, <1>7 DEF Card!checkCurrentProxyDelay, Card!runAndSchedule, Card!NoOldTimer
  <2>3. effect' = <<effect'[1], effect'[2]>> /\ Card!NoOldTimer'
    BY <1>0, <2>2 DEF Card!NoOldTimer
  <2>. QED BY <1>0, <2>1, <2>3 DEF CardInv, Card!CardFollows, Card!NowOf
<1>. QED BY <1>2, <1>3, <1>4, <1>5, <1>6, <1>7 DEF Card!Next

LEMMA CardHolds ==
  CardParameters => (Card!Init /\ [][Card!Next]_Card!vars => [](Card!CardFollows /\ Card!NoOldTimer))
<1>. SUFFICES ASSUME CardParameters
     PROVE  Card!Init /\ [][Card!Next]_Card!vars => [](Card!CardFollows /\ Card!NoOldTimer)
  OBVIOUS
<1>1. CardInv => Card!CardFollows /\ Card!NoOldTimer
  BY DEF CardInv
<1>. QED BY <1>1, CardInit, CardStep, PTL

(* The card shows the node its group has in the proxies it was given, and  *)
(* an effect that was disposed of waits for no timer.                      *)
THEOREM CardShows ==
  ASSUME CardParameters PROVE Card!Spec => [](Card!CardFollows /\ Card!NoOldTimer)
  BY CardHolds, PTL DEF Card!Spec

-------------------------------------------------------------------------------
(* Chains.  While a connect is under way and nothing was edited, what it   *)
(* took along is the chain that is shown, and it is in the runtime         *)
(* configuration before its last node is chosen (ConnectKeeps).            *)
Injective(s) == \A a, b \in DOMAIN s : s[a] = s[b] => a = b

ChainTypes ==
  /\ chain \in Seq(ChainNodes) /\ runtime \in Seq(ChainNodes)
  /\ DOMAIN call = {"pc", "chain", "group"} /\ call.chain \in Seq(ChainNodes)
  /\ call.pc \in {"idle", "save", "select", "clear", "unselect", "close"}
  /\ call.pc # "idle" => Len(call.chain) >= 2 /\ call.group \in ChainGroups
  /\ chainGroup \in ChainGroups /\ chainNow \in [ChainGroups -> ChainNodes]
  /\ edited \in BOOLEAN

ConnectKeeps ==
  ~edited =>
    /\ call.pc \in {"idle", "clear"} /\ Chain!isConnected /\ chainExit # Chain!Nil => runtime = chain
    /\ call.pc = "save" => ~Chain!isConnected /\ call.chain = chain
    /\ call.pc = "select" => runtime = chain /\ call.chain = chain
    /\ call.pc = "close" => chainExit = Chain!Nil
    /\ call.pc # "idle" => call.group = chainGroup

ChainInv == ChainTypes /\ Injective(chain) /\ Injective(runtime) /\ Injective(call.chain) /\ ConnectKeeps

LEMMA ChainRemoved ==
  ASSUME NEW X, NEW s \in Seq(X), NEW i \in DOMAIN s, Injective(s)
  PROVE  /\ Chain!RemoveAt(s, i) \in Seq(X) /\ Len(Chain!RemoveAt(s, i)) = Len(s) - 1
         /\ Injective(Chain!RemoveAt(s, i))
         /\ \A k \in DOMAIN Chain!RemoveAt(s, i) : Chain!RemoveAt(s, i)[k] # s[i]
<1>. DEFINE f == SubSeq(s, 1, i - 1)
            r == SubSeq(s, i + 1, Len(s))
            t == Chain!RemoveAt(s, i)
<1>1. i \in 1..Len(s) /\ Len(s) \in Nat /\ DOMAIN s = 1..Len(s)
      /\ \A k \in 1..Len(s) : s[k] \in X
  OBVIOUS
<1>2. f \in Seq(X) /\ Len(f) = i - 1 /\ \A k \in 1..(i - 1) : f[k] = s[k]
  <2>1. \A k \in 1..(i - 1) : s[k] \in X
    BY <1>1
  <2>2. /\ f \in Seq(X) /\ Len(f) = IF 1 <= i - 1 THEN (i - 1) - 1 + 1 ELSE 0
        /\ \A k \in 1..((i - 1) - 1 + 1) : f[k] = s[1 + k - 1]
    BY <1>1, <2>1, SubSeqProperties
  <2>. HIDE DEF f
  <2>. QED BY <1>1, <2>2
<1>3. r \in Seq(X) /\ Len(r) = Len(s) - i /\ \A k \in 1..(Len(s) - i) : r[k] = s[k + i]
  <2>1. \A k \in (i + 1)..Len(s) : s[k] \in X
    BY <1>1
  <2>2. /\ r \in Seq(X) /\ Len(r) = IF i + 1 <= Len(s) THEN Len(s) - (i + 1) + 1 ELSE 0
        /\ \A k \in 1..(Len(s) - (i + 1) + 1) : r[k] = s[(i + 1) + k - 1]
    BY <1>1, <2>1, SubSeqProperties
  <2>. HIDE DEF r
  <2>3. Len(r) = Len(s) - i
    BY <1>1, <2>2
  <2>4. ASSUME NEW k \in 1..(Len(s) - i) PROVE r[k] = s[k + i]
    <3>1. k \in 1..(Len(s) - (i + 1) + 1) /\ (i + 1) + k - 1 = k + i
      BY <1>1
    <3>. QED BY <2>2, <3>1
  <2>. QED BY <2>2, <2>3, <2>4
<1>4. t = f \o r
  BY DEF Chain!RemoveAt
<1>. HIDE DEF f, r, t
<1>5. /\ t \in Seq(X) /\ Len(t) = Len(f) + Len(r)
      /\ \A k \in 1..(Len(f) + Len(r)) : t[k] = IF k <= Len(f) THEN f[k] ELSE r[k - Len(f)]
  BY <1>2, <1>3, <1>4, ConcatProperties
<1>6. Len(t) = Len(s) - 1 /\ DOMAIN t = 1..(Len(s) - 1)
  BY <1>1, <1>2, <1>3, <1>5
<1>7. ASSUME NEW k \in 1..(Len(s) - 1) PROVE t[k] = IF k < i THEN s[k] ELSE s[k + 1]
  <2>1. k \in 1..(Len(f) + Len(r)) /\ Len(f) = i - 1
    BY <1>1, <1>2, <1>3
  <2>2. CASE k < i
    BY <1>1, <1>2, <1>5, <2>1, <2>2
  <2>3. CASE ~(k < i)
    <3>1. t[k] = r[k - Len(f)]
      BY <1>1, <1>5, <2>1, <2>3
    <3>2. k - Len(f) \in 1..(Len(s) - i) /\ (k - Len(f)) + i = k + 1
      BY <1>1, <2>1, <2>3
    <3>3. r[k - Len(f)] = s[(k - Len(f)) + i]
      BY <1>3, <3>2
    <3>. QED BY <2>3, <3>1, <3>2, <3>3
  <2>. QED BY <2>2, <2>3
<1>8. Injective(t)
  BY <1>1, <1>6, <1>7 DEF Injective
<1>9. \A k \in DOMAIN t : t[k] # s[i]
  BY <1>1, <1>6, <1>7 DEF Injective
<1>. QED BY <1>5, <1>6, <1>8, <1>9 DEF t

LEMMA ChainInserted ==
  ASSUME NEW X, NEW s \in Seq(X), NEW j \in 1..(Len(s) + 1), NEW e \in X,
         Injective(s), \A k \in DOMAIN s : s[k] # e
  PROVE  Chain!InsertAt(s, j, e) \in Seq(X) /\ Injective(Chain!InsertAt(s, j, e))
<1>. DEFINE f == SubSeq(s, 1, j - 1)
            r == SubSeq(s, j, Len(s))
            m == f \o <<e>>
            t == Chain!InsertAt(s, j, e)
<1>1. Len(s) \in Nat /\ DOMAIN s = 1..Len(s) /\ \A k \in 1..Len(s) : s[k] \in X
  OBVIOUS
<1>2. f \in Seq(X) /\ Len(f) = j - 1 /\ \A k \in 1..(j - 1) : f[k] = s[k]
  <2>1. \A k \in 1..(j - 1) : s[k] \in X
    BY <1>1
  <2>2. /\ f \in Seq(X) /\ Len(f) = IF 1 <= j - 1 THEN (j - 1) - 1 + 1 ELSE 0
        /\ \A k \in 1..((j - 1) - 1 + 1) : f[k] = s[1 + k - 1]
    BY <1>1, <2>1, SubSeqProperties
  <2>. HIDE DEF f
  <2>. QED BY <1>1, <2>2
<1>3. r \in Seq(X) /\ Len(r) = Len(s) - j + 1 /\ \A k \in 1..(Len(s) - j + 1) : r[k] = s[k + j - 1]
  <2>1. \A k \in j..Len(s) : s[k] \in X
    BY <1>1
  <2>2. /\ r \in Seq(X) /\ Len(r) = IF j <= Len(s) THEN Len(s) - j + 1 ELSE 0
        /\ \A k \in 1..(Len(s) - j + 1) : r[k] = s[j + k - 1]
    BY <1>1, <2>1, SubSeqProperties
  <2>. HIDE DEF r
  <2>. QED BY <1>1, <2>2
<1>4. t = m \o r
  BY DEF Chain!InsertAt
<1>. HIDE DEF f, r
<1>5. <<e>> \in Seq(X) /\ Len(<<e>>) = 1 /\ <<e>>[1] = e
  OBVIOUS
<1>6. /\ m \in Seq(X) /\ Len(m) = Len(f) + 1
      /\ \A k \in 1..(Len(f) + 1) : m[k] = IF k <= Len(f) THEN f[k] ELSE <<e>>[k - Len(f)]
  BY <1>2, <1>5, ConcatProperties
<1>. HIDE DEF m, t
<1>7. /\ t \in Seq(X) /\ Len(t) = Len(m) + Len(r)
      /\ \A k \in 1..(Len(m) + Len(r)) : t[k] = IF k <= Len(m) THEN m[k] ELSE r[k - Len(m)]
  <2>1. m \in Seq(X)
    BY <1>6
  <2>. QED BY <1>3, <1>4, <2>1, ConcatProperties
<1>8. Len(m) = j /\ m[j] = e /\ \A k \in 1..(j - 1) : m[k] = s[k]
  <2>1. Len(f) = j - 1 /\ j \in Nat /\ j \in 1..(Len(f) + 1) /\ j - Len(f) = 1 /\ ~(j <= Len(f))
    BY <1>1, <1>2
  <2>2. Len(m) = j /\ m[j] = e
    BY <1>5, <1>6, <2>1
  <2>3. ASSUME NEW k \in 1..(j - 1) PROVE m[k] = s[k]
    <3>1. k \in 1..(Len(f) + 1) /\ k <= Len(f)
      BY <2>1
    <3>. QED BY <1>2, <1>6, <3>1
  <2>. QED BY <2>2, <2>3
<1>9. DOMAIN t = 1..(Len(s) + 1)
  BY <1>1, <1>3, <1>7, <1>8
<1>10. ASSUME NEW k \in 1..(Len(s) + 1)
       PROVE  t[k] = IF k < j THEN s[k] ELSE IF k = j THEN e ELSE s[k - 1]
  <2>1. CASE k <= j
    BY <1>1, <1>3, <1>7, <1>8, <2>1
  <2>2. CASE k > j
    <3>1. t[k] = r[k - j] /\ k - j \in 1..(Len(s) - j + 1)
      BY <1>1, <1>3, <1>7, <1>8, <2>2
    <3>2. r[k - j] = s[(k - j) + j - 1]
      BY <1>3, <3>1
    <3>3. (k - j) + j - 1 = k - 1
      OBVIOUS
    <3>. QED BY <2>2, <3>1, <3>2, <3>3
  <2>. QED BY <2>1, <2>2
<1>11. Injective(t)
  BY <1>1, <1>9, <1>10 DEF Injective
<1>. QED BY <1>7, <1>11 DEF t

LEMMA ChainInit == Chain!Init => ChainInv
<1>. SUFFICES ASSUME Chain!Init PROVE ChainInv
  OBVIOUS
<1>1. chain = <<>> /\ runtime = <<>> /\ edited = TRUE /\ call = [pc |-> "idle", chain |-> <<>>, group |-> "none"]
      /\ chainGroup \in ChainGroups /\ chainNow \in [ChainGroups -> ChainNodes]
  BY DEF Chain!Init, Chain!NoCall, Chain!Nil
<1>2. <<>> \in Seq(ChainNodes) /\ Injective(<<>>)
  BY DEF Injective
<1>. QED BY <1>1, <1>2 DEF ChainInv, ChainTypes, ConnectKeeps

LEMMA ChainStep == ChainInv /\ [Chain!Next]_Chain!vars => ChainInv'
<1>. SUFFICES ASSUME ChainInv, [Chain!Next]_Chain!vars PROVE ChainInv'
  OBVIOUS
<1>0. ChainTypes /\ Injective(chain) /\ Injective(runtime) /\ Injective(call.chain) /\ ConnectKeeps
  BY DEF ChainInv
<1>a. <<>> \in Seq(ChainNodes) /\ Injective(<<>>)
  BY DEF Injective
<1>b. UNCHANGED <<chain, runtime, call>>
      => (Injective(chain) /\ Injective(runtime) /\ Injective(call.chain))'
  BY <1>0 DEF Injective
(* What edits the chain: only its type and that no node is twice matter.   *)
<1>c. ASSUME edited', UNCHANGED call, chain' \in Seq(ChainNodes), Injective(chain'),
             runtime' \in {runtime, <<>>}, chainGroup' \in ChainGroups,
             chainNow' \in [ChainGroups -> ChainNodes], edited' = TRUE
      PROVE  ChainInv'
  <2>1. runtime' \in Seq(ChainNodes) /\ Injective(runtime')
    BY <1>0, <1>a, <1>c DEF ChainTypes
  <2>2. Injective(call.chain)'
    BY <1>0, <1>c DEF Injective
  <2>. QED BY <1>0, <1>c, <2>1, <2>2 DEF ChainInv, ChainTypes, ConnectKeeps, Injective
<1>1. ASSUME NEW n \in ChainNodes, Chain!handleChangeProxy(n) PROVE ChainInv'
  <2>1. chain' = Append(chain, n) /\ ~Chain!Contains(chain, n) /\ edited' = TRUE
        /\ UNCHANGED <<call, runtime, chainGroup, chainNow>>
    BY <1>1 DEF Chain!handleChangeProxy
  <2>2. chain' \in Seq(ChainNodes)
    BY <1>0, <2>1 DEF ChainTypes
  <2>3. /\ Len(Append(chain, n)) = Len(chain) + 1 /\ Append(chain, n)[Len(chain) + 1] = n
        /\ \A k \in 1..Len(chain) : Append(chain, n)[k] = chain[k]
    BY <1>0, AppendProperties DEF ChainTypes
  <2>4. \A k \in 1..Len(chain) : chain[k] # n
    BY <2>1 DEF Chain!Contains
  <2>5. DOMAIN chain = 1..Len(chain) /\ DOMAIN Append(chain, n) = 1..(Len(chain) + 1) /\ Len(chain) \in Nat
    BY <1>0, <2>1, <2>2, <2>3 DEF ChainTypes
  <2>6. Injective(Append(chain, n))
    <3>1. ASSUME NEW a \in 1..(Len(chain) + 1), NEW b \in 1..(Len(chain) + 1),
                 Append(chain, n)[a] = Append(chain, n)[b]
          PROVE  a = b
      <4>1. CASE a \in 1..Len(chain) /\ b \in 1..Len(chain)
        BY <1>0, <2>3, <2>5, <3>1, <4>1 DEF Injective
      <4>2. CASE a = Len(chain) + 1 \/ b = Len(chain) + 1
        BY <2>3, <2>4, <2>5, <3>1, <4>2
      <4>. QED BY <2>5, <4>1, <4>2
    <3>. QED BY <2>5, <3>1 DEF Injective
  <2>7. Injective(chain')
    BY <2>1, <2>6
  <2>. QED BY <1>0, <1>c, <2>1, <2>2, <2>7 DEF ChainTypes
<1>2. ASSUME NEW n \in ChainNodes, Chain!handleProxyGroupChange(n) PROVE ChainInv'
  <2>1. chainNow' = [chainNow EXCEPT ![chainGroup] = n] /\ edited' = TRUE
        /\ UNCHANGED <<call, chain, runtime, chainGroup>>
    BY <1>2 DEF Chain!handleProxyGroupChange
  <2>2. chainNow' \in [ChainGroups -> ChainNodes]
    BY <1>0, <2>1 DEF ChainTypes
  <2>. QED BY <1>0, <1>c, <2>1, <2>2 DEF ChainTypes
<1>3. ASSUME NEW i \in DOMAIN chain, NEW j \in DOMAIN chain, Chain!handleDragEnd(i, j) PROVE ChainInv'
  <2>1. chain' = Chain!InsertAt(Chain!RemoveAt(chain, i), j, chain[i]) /\ edited' = TRUE
        /\ UNCHANGED <<call, runtime, chainGroup, chainNow>>
    BY <1>3 DEF Chain!handleDragEnd
  <2>2. /\ Chain!RemoveAt(chain, i) \in Seq(ChainNodes) /\ Len(Chain!RemoveAt(chain, i)) = Len(chain) - 1
        /\ Injective(Chain!RemoveAt(chain, i))
        /\ \A k \in DOMAIN Chain!RemoveAt(chain, i) : Chain!RemoveAt(chain, i)[k] # chain[i]
    BY <1>0, ChainRemoved DEF ChainTypes
  <2>3. j \in 1..(Len(Chain!RemoveAt(chain, i)) + 1) /\ chain[i] \in ChainNodes
    BY <1>0, <2>2 DEF ChainTypes
  <2>4. chain' \in Seq(ChainNodes) /\ Injective(chain')
    BY <2>1, <2>2, <2>3, ChainInserted
  <2>. QED BY <1>0, <1>c, <2>1, <2>4 DEF ChainTypes
<1>4. ASSUME NEW i \in DOMAIN chain, Chain!handleRemoveProxy(i) PROVE ChainInv'
  <2>1. chain' = Chain!RemoveAt(chain, i) /\ edited' = TRUE
        /\ UNCHANGED <<call, runtime, chainGroup, chainNow>>
    BY <1>4 DEF Chain!handleRemoveProxy
  <2>2. chain' \in Seq(ChainNodes) /\ Injective(chain')
    BY <1>0, <2>1, ChainRemoved DEF ChainTypes
  <2>. QED BY <1>0, <1>c, <2>1, <2>2 DEF ChainTypes
<1>5. CASE Chain!ClearChain \/ \E g \in ChainGroups : Chain!handleGroupSelect(g)
  <2>1. runtime' = <<>> /\ chain' = <<>> /\ edited' = TRUE /\ chainGroup' \in ChainGroups
        /\ UNCHANGED <<call, chainNow>>
    BY <1>0, <1>5 DEF Chain!ClearChain, Chain!handleGroupSelect, ChainTypes
  <2>. QED BY <1>0, <1>a, <1>c, <2>1 DEF ChainTypes
<1>6. CASE Chain!onToggleChainMode
  <2>1. runtime' \in {runtime, <<>>} /\ edited' = TRUE /\ UNCHANGED <<call, chain, chainGroup, chainNow>>
    BY <1>6 DEF Chain!onToggleChainMode
  <2>. QED BY <1>0, <1>c, <2>1 DEF ChainTypes
<1>7. CASE Chain!handleConnect
  <2>1. /\ call.pc = "idle" /\ Len(chain) >= 2
        /\ call' = [pc |-> IF Chain!isConnected THEN "clear" ELSE "save", chain |-> chain, group |-> chainGroup]
        /\ edited' = (edited /\ Chain!isConnected)
        /\ UNCHANGED <<chain, chainExit, runtime, chainGroup, chainNow>>
    BY <1>7 DEF Chain!handleConnect
  <2>2. Chain!isConnected' = Chain!isConnected
    BY <2>1 DEF Chain!isConnected, Chain!Last
  <2>3. ChainTypes'
    BY <1>0, <2>1 DEF ChainTypes
  <2>4. ConnectKeeps'
    BY <1>0, <2>1, <2>2 DEF ConnectKeeps
  <2>5. (Injective(chain) /\ Injective(runtime) /\ Injective(call.chain))'
    BY <1>0, <2>1 DEF Injective
  <2>. QED BY <2>3, <2>4, <2>5 DEF ChainInv
<1>8. CASE Chain!Save
  <2>1. /\ call.pc = "save" /\ UNCHANGED <<chain, chainExit, chainGroup, chainNow, edited>>
        /\ \/ runtime' = call.chain /\ call' = [call EXCEPT !.pc = "select"]
           \/ runtime' = runtime /\ call' = [pc |-> "idle", chain |-> <<>>, group |-> "none"]
    BY <1>8 DEF Chain!Save, Chain!NoCall, Chain!Nil
  <2>2. Chain!isConnected' = Chain!isConnected
    BY <2>1 DEF Chain!isConnected, Chain!Last
  <2>3. ChainTypes'
    <3>1. /\ DOMAIN call' = {"pc", "chain", "group"} /\ call.chain' \in Seq(ChainNodes)
          /\ call.pc' \in {"idle", "select"}
          /\ call.pc' # "idle" => call.chain' = call.chain /\ call.group' = call.group
      <4>1. CASE call' = [call EXCEPT !.pc = "select"]
        BY <1>0, <4>1 DEF ChainTypes
      <4>2. CASE call' = [pc |-> "idle", chain |-> <<>>, group |-> "none"]
        BY <1>a, <4>2
      <4>. QED BY <2>1, <4>1, <4>2
    <3>2. runtime' \in Seq(ChainNodes)
      BY <1>0, <1>a, <2>1 DEF ChainTypes
    <3>. QED BY <1>0, <2>1, <3>1, <3>2 DEF ChainTypes
  <2>4. ConnectKeeps'
    BY <1>0, <2>1, <2>2 DEF ConnectKeeps, ChainTypes
  <2>5. (Injective(chain) /\ Injective(runtime) /\ Injective(call.chain))'
    <3>1. chain' = chain /\ runtime' \in {runtime, call.chain} /\ call.chain' \in {call.chain, <<>>}
      BY <1>0, <2>1 DEF ChainTypes
    <3>. QED BY <1>0, <1>a, <3>1 DEF Injective
  <2>. QED BY <2>3, <2>4, <2>5 DEF ChainInv
<1>9. CASE Chain!SelectExit
  <2>1. /\ call.pc = "select" /\ call' = [pc |-> "idle", chain |-> <<>>, group |-> "none"]
        /\ UNCHANGED <<chain, chainGroup, runtime, edited>>
        /\ \/ chainNow' = [chainNow EXCEPT ![call.group] = Chain!Last(call.chain)]
           \/ chainNow' = chainNow
    BY <1>9 DEF Chain!SelectExit, Chain!NoCall, Chain!Nil
  <2>2. Chain!Last(call.chain) \in ChainNodes
    BY <1>0, <2>1 DEF ChainTypes, Chain!Last
  <2>3. ChainTypes'
    BY <1>0, <1>a, <2>1, <2>2 DEF ChainTypes
  <2>4. ConnectKeeps'
    BY <1>0, <2>1 DEF ConnectKeeps
  <2>5. (Injective(chain) /\ Injective(runtime) /\ Injective(call.chain))'
    BY <1>0, <1>a, <2>1 DEF Injective
  <2>. QED BY <2>3, <2>4, <2>5 DEF ChainInv
<1>10. CASE Chain!ClearRuntime
  <2>1. /\ call.pc = "clear" /\ UNCHANGED <<chain, chainExit, chainGroup, chainNow, edited>>
        /\ \/ runtime' = <<>> /\ call' = [call EXCEPT !.pc = "unselect"]
           \/ runtime' = runtime /\ call' = [pc |-> "idle", chain |-> <<>>, group |-> "none"]
    BY <1>10 DEF Chain!ClearRuntime, Chain!NoCall, Chain!Nil
  <2>2. Chain!isConnected' = Chain!isConnected
    BY <2>1 DEF Chain!isConnected, Chain!Last
  <2>3. ChainTypes'
    <3>1. /\ DOMAIN call' = {"pc", "chain", "group"} /\ call.chain' \in Seq(ChainNodes)
          /\ call.pc' \in {"idle", "unselect"}
          /\ call.pc' # "idle" => call.chain' = call.chain /\ call.group' = call.group
      <4>1. CASE call' = [call EXCEPT !.pc = "unselect"]
        BY <1>0, <4>1 DEF ChainTypes
      <4>2. CASE call' = [pc |-> "idle", chain |-> <<>>, group |-> "none"]
        BY <1>a, <4>2
      <4>. QED BY <2>1, <4>1, <4>2
    <3>2. runtime' \in Seq(ChainNodes)
      BY <1>0, <1>a, <2>1 DEF ChainTypes
    <3>. QED BY <1>0, <2>1, <3>1, <3>2 DEF ChainTypes
  <2>4. ConnectKeeps'
    BY <1>0, <2>1, <2>2 DEF ConnectKeeps, ChainTypes
  <2>5. (Injective(chain) /\ Injective(runtime) /\ Injective(call.chain))'
    <3>1. chain' = chain /\ runtime' \in {runtime, <<>>} /\ call.chain' \in {call.chain, <<>>}
      BY <1>0, <2>1 DEF ChainTypes
    <3>. QED BY <1>0, <1>a, <3>1 DEF Injective
  <2>. QED BY <2>3, <2>4, <2>5 DEF ChainInv
<1>11. CASE Chain!Unselect
  <2>1. /\ call.pc = "unselect" /\ call' = [call EXCEPT !.pc = "close"] /\ chainExit' = Chain!Nil
        /\ chainNow' = [chainNow EXCEPT ![call.group] = Head(call.chain)]
        /\ UNCHANGED <<chain, chainGroup, runtime, edited>>
    BY <1>11 DEF Chain!Unselect
  <2>2. Head(call.chain) \in ChainNodes
    BY <1>0, <2>1 DEF ChainTypes
  <2>3. ChainTypes'
    BY <1>0, <2>1, <2>2 DEF ChainTypes
  <2>4. ConnectKeeps'
    BY <1>0, <2>1 DEF ConnectKeeps, ChainTypes
  <2>5. (Injective(chain) /\ Injective(runtime) /\ Injective(call.chain))'
    <3>1. call.chain' = call.chain
      BY <1>0, <2>1 DEF ChainTypes
    <3>. QED BY <1>0, <2>1, <3>1 DEF Injective
  <2>. QED BY <2>3, <2>4, <2>5 DEF ChainInv
<1>12. CASE Chain!Forget
  <2>1. /\ call.pc = "close" /\ call' = [pc |-> "idle", chain |-> <<>>, group |-> "none"]
        /\ chain' \in {chain, <<>>} /\ UNCHANGED <<chainExit, chainGroup, chainNow, runtime, edited>>
    BY <1>12 DEF Chain!Forget, Chain!NoCall, Chain!Nil
  <2>3. ChainTypes'
    BY <1>0, <1>a, <2>1 DEF ChainTypes
  <2>4. ConnectKeeps'
    BY <1>0, <2>1 DEF ConnectKeeps
  <2>5. (Injective(chain) /\ Injective(runtime) /\ Injective(call.chain))'
    BY <1>0, <1>a, <2>1 DEF Injective
  <2>. QED BY <2>3, <2>4, <2>5 DEF ChainInv
<1>13. CASE Chain!fetchChainConfig
  <2>1. /\ chain' \in {chain, runtime} /\ edited' = (edited \/ chain' # chain)
        /\ UNCHANGED <<call, chainExit, chainGroup, chainNow, runtime>>
    BY <1>13 DEF Chain!fetchChainConfig
  <2>3. ChainTypes'
    BY <1>0, <2>1 DEF ChainTypes
  <2>4. ConnectKeeps'
    <3>1. CASE chain' = chain
      <4>1. edited' = edited /\ Chain!isConnected' = Chain!isConnected
        BY <1>0, <2>1, <3>1 DEF ChainTypes, Chain!isConnected, Chain!Last
      <4>. QED BY <1>0, <2>1, <3>1, <4>1 DEF ConnectKeeps
    <3>2. CASE chain' # chain
      BY <2>1, <3>2 DEF ConnectKeeps
    <3>. QED BY <3>1, <3>2
  <2>5. (Injective(chain) /\ Injective(runtime) /\ Injective(call.chain))'
    BY <1>0, <2>1 DEF Injective
  <2>. QED BY <2>3, <2>4, <2>5 DEF ChainInv
<1>14. CASE UNCHANGED Chain!vars
  <2>1. UNCHANGED <<chain, chainGroup, chainExit, runtime, chainNow, call, edited>>
    BY <1>14 DEF Chain!vars
  <2>. QED BY <1>0, <1>b, <2>1 DEF ChainInv, ChainTypes, ConnectKeeps, Chain!isConnected, Chain!Last
<1>. QED BY <1>1, <1>2, <1>3, <1>4, <1>5, <1>6, <1>7, <1>8, <1>9, <1>10, <1>11, <1>12, <1>13, <1>14 DEF Chain!Next

LEMMA ChainHolds ==
  Chain!Init /\ [][Chain!Next]_Chain!vars => [](Chain!NoDuplicates /\ Chain!ConnectedIsChained)
<1>1. ChainInv => Chain!NoDuplicates
  BY DEF ChainInv, Injective, Chain!NoDuplicates, Chain!IsInjective
<1>2. ChainInv => Chain!ConnectedIsChained
  BY DEF ChainInv, ConnectKeeps, Chain!ConnectedIsChained
<1>. QED BY <1>1, <1>2, ChainInit, ChainStep, PTL

(* No node is twice in a chain, and a button that says "disconnect" after  *)
(* a connect shows the chain that is in the runtime configuration.         *)
THEOREM ChainConnects == Chain!Spec => [](Chain!NoDuplicates /\ Chain!ConnectedIsChained)
  BY ChainHolds, PTL DEF Chain!Spec

-------------------------------------------------------------------------------
(* The text editor.  One save runs at a time; while it has written and not *)
(* yet validated, the old text is one that was accepted (SavesPutBack).    *)
(* The read of a dialog that is clean is one of the text on disk, and      *)
(* nothing is saved before it ends (ReadIsFile).                           *)
DocTypes ==
  /\ docOpen \in BOOLEAN /\ loading \in BOOLEAN /\ docClean \in BOOLEAN /\ dialog \in Nat
  /\ \A s \in docSaves : DOMAIN s = {"stage", "text", "old"}
                         /\ s.stage \in {"call", "write", "validate", "reload"}
  /\ \A s, t \in docSaves : s = t
  /\ \A l \in loads : l.n \in Nat /\ l.n <= dialog
  /\ \A k, l \in loads : k.n = l.n => k = l

SavesPutBack ==
  \A s \in docSaves : /\ s.stage # "validate" => docFile \in DocValid
                      /\ s.stage = "validate" => docFile = s.text
                      /\ s.stage \in {"write", "validate"} => s.old \in DocValid

ReadIsFile ==
  docOpen /\ docClean =>
    \A l \in loads : l.n = dialog => docSaves = {} /\ loading /\ l.text = docFile

DocInv == DocTypes /\ SavesPutBack /\ ReadIsFile /\ Doc!FileAccepted /\ Doc!SavedIsFile

LEMMA DocInit == Doc!Init => DocInv
<1>. SUFFICES ASSUME Doc!Init PROVE DocInv
  OBVIOUS
<1>1. docSaves = {} /\ loads = {} /\ dialog = 0 /\ docOpen = FALSE /\ docClean = FALSE /\ loading = TRUE
      /\ docFile \in DocValid
  BY DEF Doc!Init
<1>. QED BY <1>1 DEF DocInv, DocTypes, SavesPutBack, ReadIsFile, Doc!FileAccepted, Doc!SavedIsFile

LEMMA DocStep == DocInv /\ [Doc!Next]_Doc!vars => DocInv'
<1>. SUFFICES ASSUME DocInv, [Doc!Next]_Doc!vars PROVE DocInv'
  OBVIOUS
<1>. USE DEF DocInv
<1>1. CASE Doc!Open
  <2>1. dialog' = dialog + 1 /\ docOpen' = TRUE /\ docClean' = (docSaves = {}) /\ loading' = TRUE
        /\ loads' = loads \cup {[n |-> dialog + 1, text |-> docFile]} /\ UNCHANGED <<docFile, docSaves>>
    BY <1>1 DEF Doc!Open, Doc!Reset
  <2>2. DocTypes'
    BY <2>1 DEF DocTypes
  <2>3. ReadIsFile'
    <3>1. ASSUME NEW l \in loads', docClean', l.n = dialog + 1
          PROVE docSaves = {} /\ l.text = docFile
      <4>1. l \notin loads
        BY <3>1 DEF DocTypes
      <4>2. l = [n |-> dialog + 1, text |-> docFile]
        BY <2>1, <3>1, <4>1
      <4>3. docSaves = {}
        BY <2>1, <3>1, Zenon
      <4>. QED BY <4>2, <4>3
    <3>. QED BY <2>1, <3>1 DEF ReadIsFile
  <2>. QED BY <2>1, <2>2, <2>3 DEF SavesPutBack, Doc!FileAccepted, Doc!SavedIsFile
<1>2. CASE Doc!Close
  BY <1>2 DEF Doc!Close, Doc!Reset, DocTypes, SavesPutBack, ReadIsFile, Doc!FileAccepted, Doc!SavedIsFile
<1>3. CASE Doc!handleSave
  <2>1. docOpen /\ ~loading /\ UNCHANGED <<docFile, dialog, loads>>
    BY <1>3 DEF Doc!handleSave
  <2>2. CASE docSaves = {}
    <3>1. docSaves' = {Doc!NewSave} /\ UNCHANGED <<docOpen, docValue, docSaved, loading, docClean>>
      BY <1>3, <2>2 DEF Doc!handleSave
    <3>. QED BY <2>1, <2>2, <3>1 DEF Doc!NewSave, DocTypes, SavesPutBack, ReadIsFile, Doc!FileAccepted, Doc!SavedIsFile
  <2>3. CASE docSaves # {}
    <3>1. docOpen' = FALSE /\ docClean' = FALSE /\ loading' = TRUE /\ UNCHANGED docSaves
      BY <1>3, <2>3 DEF Doc!handleSave, Doc!Reset
    <3>. QED BY <2>1, <2>3, <3>1 DEF DocTypes, SavesPutBack, ReadIsFile, Doc!FileAccepted, Doc!SavedIsFile
  <2>. QED BY <2>2, <2>3
<1>4. ASSUME NEW l \in loads, Doc!Loaded(l) PROVE DocInv'
  <2>1. loads' = loads \ {l} /\ UNCHANGED <<docFile, docOpen, dialog, docSaves, docClean>>
        /\ IF docOpen /\ l.n = dialog THEN docSaved' = l.text /\ loading' = FALSE ELSE UNCHANGED <<docSaved, loading>>
    BY <1>4 DEF Doc!Loaded
  <2>2. DocTypes'
    BY <2>1 DEF DocTypes
  <2>3. ReadIsFile'
    BY <2>1 DEF DocTypes, ReadIsFile
  <2>4. Doc!SavedIsFile'
    BY <2>1 DEF ReadIsFile, Doc!SavedIsFile
  <2>. QED BY <2>1, <2>2, <2>3, <2>4 DEF SavesPutBack, Doc!FileAccepted
<1>5. ASSUME NEW l \in loads, Doc!LoadFails(l) PROVE DocInv'
  BY <1>5 DEF Doc!LoadFails, DocTypes, SavesPutBack, ReadIsFile, Doc!FileAccepted, Doc!SavedIsFile
<1>6. ASSUME NEW t \in DocTexts, Doc!Edit(t) PROVE DocInv'
  BY <1>6 DEF Doc!Edit, DocTypes, SavesPutBack, ReadIsFile, Doc!FileAccepted, Doc!SavedIsFile
<1>7. ASSUME NEW s \in docSaves, Doc!SaveReads(s) PROVE DocInv'
  <2>1. /\ docSaves = {s} /\ s.stage = "call" /\ docSaves' = {[s EXCEPT !.stage = "write", !.old = docFile]}
        /\ UNCHANGED <<docFile, docOpen, docValue, docSaved, loading, dialog, loads, docClean>>
    BY <1>7 DEF Doc!SaveReads, DocTypes
  <2>. QED BY <2>1 DEF DocTypes, SavesPutBack, ReadIsFile, Doc!FileAccepted, Doc!SavedIsFile
<1>8. ASSUME NEW s \in docSaves, Doc!SaveWrites(s) PROVE DocInv'
  <2>1. /\ docSaves = {s} /\ s.stage = "write" /\ docFile' = s.text
        /\ docSaves' = {[s EXCEPT !.stage = "validate"]}
        /\ UNCHANGED <<docOpen, docValue, docSaved, loading, dialog, loads, docClean>>
    BY <1>8 DEF Doc!SaveWrites, DocTypes
  <2>. QED BY <2>1 DEF DocTypes, SavesPutBack, ReadIsFile, Doc!FileAccepted, Doc!SavedIsFile
<1>9. ASSUME NEW s \in docSaves, Doc!SaveAccepted(s) PROVE DocInv'
  <2>1. /\ docSaves = {s} /\ s.stage = "validate" /\ s.text \in DocValid /\ docSaves' = {}
        /\ UNCHANGED <<docFile, dialog, loads>> /\ docOpen' = FALSE
        /\ loading' \in BOOLEAN /\ docClean' \in BOOLEAN
    BY <1>9 DEF Doc!SaveAccepted, Doc!Reset, DocTypes
  <2>. QED BY <2>1 DEF DocTypes, SavesPutBack, ReadIsFile, Doc!FileAccepted, Doc!SavedIsFile
<1>10. ASSUME NEW s \in docSaves, Doc!SaveRefused(s) PROVE DocInv'
  <2>1. /\ docSaves = {s} /\ s.stage = "validate" /\ docFile' = s.old
        /\ docSaves' = {[s EXCEPT !.stage = "reload"]} /\ loading' = TRUE
        /\ UNCHANGED <<docOpen, docSaved, dialog, loads, docClean>>
    BY <1>10 DEF Doc!SaveRefused, DocTypes
  <2>. QED BY <2>1 DEF DocTypes, SavesPutBack, ReadIsFile, Doc!FileAccepted, Doc!SavedIsFile
<1>11. ASSUME NEW s \in docSaves, Doc!reload(s) PROVE DocInv'
  <2>1. /\ docSaves = {s} /\ s.stage = "reload" /\ docSaves' = {} /\ docOpen' = FALSE /\ docClean' = FALSE
        /\ loading' = TRUE /\ UNCHANGED <<docFile, dialog, loads>>
    BY <1>11 DEF Doc!reload, Doc!Reset, DocTypes
  <2>. QED BY <2>1 DEF DocTypes, SavesPutBack, ReadIsFile, Doc!FileAccepted, Doc!SavedIsFile
<1>12. CASE UNCHANGED Doc!vars
  BY <1>12 DEF Doc!vars, DocTypes, SavesPutBack, ReadIsFile, Doc!FileAccepted, Doc!SavedIsFile
<1>. QED BY <1>1, <1>2, <1>3, <1>4, <1>5, <1>6, <1>7, <1>8, <1>9, <1>10, <1>11, <1>12 DEF Doc!Next

LEMMA DocHolds ==
  Doc!Init /\ [][Doc!Next]_Doc!vars => [](Doc!FileAccepted /\ Doc!SavedIsFile)
<1>1. DocInv => Doc!FileAccepted /\ Doc!SavedIsFile
  BY DEF DocInv
<1>. QED BY <1>1, DocInit, DocStep, PTL

(* Whenever no save is under way the file holds a text that was accepted,  *)
(* and what a dialog counts as saved is what is on disk, for one that was  *)
(* opened while nothing was being saved.                                   *)
THEOREM DocumentKept == Doc!Spec => [](Doc!FileAccepted /\ Doc!SavedIsFile)
  BY DocHolds, PTL DEF Doc!Spec

-------------------------------------------------------------------------------
(* The dialog of DNS settings.  The text waits for the form only while the *)
(* form is shown, and the last text that waits to be parsed is the last    *)
(* thing entered (WaitingIsLast).                                          *)
WaitingIsLast ==
  /\ visualization \in BOOLEAN /\ parsed \in Seq(DnsConfigs)
  /\ ~visualization => behind = Dns!Nil
  /\ parsed # <<>> /\ dnsWant # Dns!Nil => dnsWant = parsed[Len(parsed)]

DnsInv == WaitingIsLast /\ Dns!LastEntryKept

LEMMA DnsInit == Dns!Init => DnsInv
  BY DEF Dns!Init, DnsInv, WaitingIsLast, Dns!LastEntryKept

(* The oldest text that waits goes, the others wait in their order.        *)
LEMMA DnsNext ==
  ASSUME NEW s \in Seq(DnsConfigs), s # <<>>
  PROVE  /\ Tail(s) \in Seq(DnsConfigs)
         /\ Tail(s) = <<>> => Head(s) = s[Len(s)]
         /\ Tail(s) # <<>> => Tail(s)[Len(Tail(s))] = s[Len(s)]
<1>1. Len(s) \in Nat /\ Len(s) >= 1 /\ Head(s) = s[1] /\ Tail(s) \in Seq(DnsConfigs)
      /\ Len(Tail(s)) = Len(s) - 1 /\ \A i \in 1..(Len(s) - 1) : Tail(s)[i] = s[i + 1]
  <2>1. Tail(s) \in Seq(DnsConfigs) /\ Len(Tail(s)) = Len(s) - 1
        /\ \A i \in 1..Len(Tail(s)) : Tail(s)[i] = s[i + 1]
    BY HeadTailProperties
  <2>2. Len(s) \in Nat /\ Len(s) # 0
    BY EmptySeq, LenProperties
  <2>. QED BY <2>1, <2>2
<1>2. CASE Tail(s) = <<>>
  <2>1. Len(Tail(s)) = 0
    BY <1>2, EmptySeq
  <2>. QED BY <1>1, <1>2, <2>1
<1>3. CASE Tail(s) # <<>>
  <2>1. Len(Tail(s)) # 0
    BY <1>1, <1>3, EmptySeq
  <2>. QED BY <1>1, <1>3, <2>1
<1>. QED BY <1>2, <1>3

(* Something else is entered while no text waits, or nothing is known.     *)
LEMMA DnsEntered ==
  ASSUME DnsInv, NEW c, values' = c, yaml' = c, UNCHANGED <<visualization, parsed>>,
         ~visualization => behind' = Dns!Nil,
         (dnsWant' = c /\ parsed = <<>>) \/ dnsWant' = Dns!Nil
  PROVE  DnsInv'
  BY DEF DnsInv, WaitingIsLast, Dns!LastEntryKept

LEMMA DnsStep == DnsInv /\ [Dns!Next]_Dns!vars => DnsInv'
<1>. SUFFICES ASSUME DnsInv, [Dns!Next]_Dns!vars PROVE DnsInv'
  OBVIOUS
<1>1. CASE Dns!Open \/ Dns!Close
  BY <1>1 DEF Dns!Open, Dns!Close, DnsInv, WaitingIsLast, Dns!LastEntryKept
<1>2. ASSUME NEW c \in DnsConfigs \cup {Dns!Nil}, Dns!initDnsConfig(c) PROVE DnsInv'
  <2>1. PICK r \in {IF c = Dns!Nil THEN DnsDefault ELSE c, DnsDefault} :
          Dns!updateValuesFromConfig(r) /\ dnsWant' = IF dnsOpen /\ parsed = <<>> THEN r ELSE Dns!Nil
    BY <1>2 DEF Dns!initDnsConfig
  <2>2. behind' = Dns!Nil /\ UNCHANGED <<visualization, parsed>>
    BY <1>2 DEF Dns!initDnsConfig
  <2>. QED BY <2>1, <2>2, DnsEntered DEF Dns!updateValuesFromConfig
<1>3. CASE Dns!resetToDefaults
  <2>1. values' = DnsDefault /\ yaml' = DnsDefault /\ UNCHANGED <<visualization, behind, parsed>>
        /\ ((dnsWant' = DnsDefault /\ parsed = <<>>) \/ dnsWant' = Dns!Nil)
    BY <1>3 DEF Dns!resetToDefaults, Dns!updateValuesFromConfig
  <2>. QED BY <2>1, DnsEntered DEF DnsInv, WaitingIsLast
<1>4. ASSUME NEW c \in DnsConfigs, Dns!handleChange(c) PROVE DnsInv'
  <2>1. visualization /\ values' = c /\ yaml' = c /\ UNCHANGED <<visualization, parsed>>
        /\ ((dnsWant' = c /\ parsed = <<>>) \/ dnsWant' = Dns!Nil)
    BY <1>4 DEF Dns!handleChange, Dns!updateValuesFromConfig
  <2>. QED BY <2>1, DnsEntered
<1>5. CASE Dns!updateYamlFromValues
  BY <1>5 DEF Dns!updateYamlFromValues, DnsInv, WaitingIsLast, Dns!LastEntryKept
<1>6. ASSUME NEW t \in DnsConfigs \cup {Dns!Bad}, Dns!handleYamlChange(t) PROVE DnsInv'
  <2>1. /\ ~visualization /\ behind = Dns!Nil /\ yaml' = t /\ UNCHANGED <<visualization, behind>>
        /\ parsed' = IF t = Dns!Bad THEN parsed ELSE Append(parsed, t)
        /\ dnsWant' = IF reads # {} THEN Dns!Nil
                      ELSE IF t = Dns!Bad THEN (IF parsed = <<>> THEN Dns!Nil ELSE dnsWant) ELSE t
    BY <1>6 DEF Dns!handleYamlChange
  <2>2. CASE t = Dns!Bad
    BY <2>1, <2>2 DEF DnsInv, WaitingIsLast, Dns!LastEntryKept
  <2>3. CASE t # Dns!Bad
    <3>1. parsed \in Seq(DnsConfigs) /\ t \in DnsConfigs /\ parsed' = Append(parsed, t)
      BY <2>1, <2>3 DEF DnsInv, WaitingIsLast
    <3>2. parsed' \in Seq(DnsConfigs) /\ parsed' # <<>> /\ parsed'[Len(parsed')] = t
      BY <3>1, AppendProperties
    <3>. QED BY <2>1, <2>3, <3>2 DEF DnsInv, WaitingIsLast, Dns!LastEntryKept
  <2>. QED BY <2>2, <2>3
<1>7. CASE Dns!YamlTimer
  <2>1. /\ parsed # <<>> /\ values' = Head(parsed) /\ yaml' = Head(parsed) /\ parsed' = Tail(parsed)
        /\ UNCHANGED <<visualization, behind, dnsWant>>
    BY <1>7 DEF Dns!YamlTimer, Dns!updateValuesFromConfig
  <2>2. /\ parsed' \in Seq(DnsConfigs)
        /\ parsed' = <<>> => Head(parsed) = parsed[Len(parsed)]
        /\ parsed' # <<>> => parsed'[Len(parsed')] = parsed[Len(parsed)]
    BY <2>1, DnsNext DEF DnsInv, WaitingIsLast
  <2>. QED BY <2>1, <2>2 DEF DnsInv, WaitingIsLast, Dns!LastEntryKept
<1>8. CASE Dns!Toggle
  BY <1>8 DEF Dns!Toggle, DnsInv, WaitingIsLast, Dns!LastEntryKept
<1>9. CASE Dns!onSave \/ Dns!SaveDnsConfig \/ Dns!SaveFails
  BY <1>9 DEF Dns!onSave, Dns!SaveDnsConfig, Dns!SaveFails, DnsInv, WaitingIsLast, Dns!LastEntryKept
<1>10. ASSUME NEW ok \in BOOLEAN, Dns!SaveEnds(ok) PROVE DnsInv'
  BY <1>10 DEF Dns!SaveEnds, DnsInv, WaitingIsLast, Dns!LastEntryKept
<1>11. CASE UNCHANGED Dns!vars
  BY <1>11 DEF Dns!vars, DnsInv, WaitingIsLast, Dns!LastEntryKept
<1>. QED BY <1>1, <1>2, <1>3, <1>4, <1>5, <1>6, <1>7, <1>8, <1>9, <1>10, <1>11 DEF Dns!Next

(* A save that begins writes what the view that is open holds.             *)
LEMMA DnsSaves == DnsInv /\ [Dns!Next]_Dns!vars => Dns!SavesLast
<1>. SUFFICES ASSUME DnsInv, [Dns!Next]_Dns!vars, Dns!SaveBegins, dnsWant # Dns!Nil, parsed = <<>>
     PROVE  dnsSave'.config = dnsWant
  BY DEF Dns!SavesLast
<1>1. Dns!onSave
  <2>1. dnsSave = Dns!NoSave /\ dnsSave' # Dns!NoSave /\ dnsSave.stage = "none"
    BY DEF Dns!SaveBegins, Dns!NoSave, Dns!Nil
  <2>2. ~Dns!SaveDnsConfig /\ ~Dns!SaveFails /\ \A ok \in BOOLEAN : ~Dns!SaveEnds(ok)
    BY <2>1 DEF Dns!SaveDnsConfig, Dns!SaveFails, Dns!SaveEnds
  <2>3. ~(UNCHANGED Dns!vars) /\ ~Dns!Open /\ ~Dns!Close /\ ~Dns!resetToDefaults /\ ~Dns!updateYamlFromValues
        /\ ~Dns!YamlTimer /\ ~Dns!Toggle
    BY <2>1 DEF Dns!vars, Dns!Open, Dns!Close, Dns!resetToDefaults, Dns!updateYamlFromValues, Dns!YamlTimer, Dns!Toggle
  <2>4. /\ \A c \in DnsConfigs \cup {Dns!Nil} : ~Dns!initDnsConfig(c)
        /\ \A c \in DnsConfigs : ~Dns!handleChange(c)
        /\ \A t \in DnsConfigs \cup {Dns!Bad} : ~Dns!handleYamlChange(t)
    BY <2>1 DEF Dns!initDnsConfig, Dns!handleChange, Dns!handleYamlChange
  <2>. QED BY <2>2, <2>3, <2>4 DEF Dns!Next
<1>2. dnsSave'.config = IF visualization THEN values ELSE yaml
  BY <1>1 DEF Dns!onSave
<1>. QED BY <1>2 DEF DnsInv, WaitingIsLast, Dns!LastEntryKept

LEMMA DnsHolds ==
  Dns!Init /\ [][Dns!Next]_Dns!vars => []Dns!LastEntryKept /\ [][Dns!SavesLast]_Dns!vars
<1>1. DnsInv => Dns!LastEntryKept
  BY DEF DnsInv
<1>. QED BY <1>1, DnsInit, DnsStep, DnsSaves, PTL

(* Once the timers have fired the view that is open holds what was entered *)
(* last, in either view, and a save that begins then writes it.            *)
THEOREM DnsKeepsTheLast == Dns!Spec => []Dns!LastEntryKept /\ Dns!SavesLastEntry
  BY DnsHolds, PTL DEF Dns!Spec, Dns!SavesLastEntry

-------------------------------------------------------------------------------
(* The editors of lists.  Lists that wait in the idle callback are those   *)
(* shown.  With nothing done out of step, what waits is what the user has  *)
(* made of the file (WaitingIsWanted): a transition what the text says,    *)
(* the idle callback the lists, and with nothing waiting it is the text.   *)
EditParts == {"prepend", "append", "delete"}
IsDoc(d) == DOMAIN d = EditParts
IsText(t) == t.k \in {"yaml", "empty", "bad"} /\ IsDoc(t.doc)

(* A document has the three lists.                                         *)
EditParameters == \A d \in EditDocs : IsDoc(d)

EditTypes ==
  /\ IsText(editFile) /\ IsText(editCur) /\ IsText(editSave.text) /\ IsDoc(editSeq)
  /\ trans # Edits!NoDoc => IsDoc(trans)
  /\ editIdle # Edits!NoDoc => editIdle = editSeq
  /\ vis \in BOOLEAN /\ hasty \in BOOLEAN
  /\ vis => editCur.k # "bad"

WaitingIsWanted ==
  ~hasty /\ editOpen /\ editLoad = "done" =>
    /\ trans # Edits!NoDoc => /\ editWant.doc = trans /\ editCur.doc = trans /\ editIdle \in {Edits!NoDoc, trans}
                              /\ editWant.k # "bad" /\ editCur.k # "bad"
    /\ trans = Edits!NoDoc /\ editIdle # Edits!NoDoc =>
         editWant.doc = editSeq /\ editWant.k # "bad" /\ editCur.k # "bad"
    /\ trans = Edits!NoDoc /\ editIdle = Edits!NoDoc =>
         Edits!Same(editCur, editWant) /\ (vis => editCur.k = "yaml")

EditInv == EditTypes /\ WaitingIsWanted /\ Edits!SavedIsWanted /\ Edits!InSync

LEMMA DocsAreDocs ==
  /\ \A d : IsDoc(d) => d # Edits!NoDoc
  /\ IsDoc(Edits!Empty) /\ IsText(Edits!NoText) /\ IsText(Edits!Bad)
  /\ \A d : IsDoc(d) => /\ IsText(Edits!dump(d)) /\ Edits!dump(d).doc = d /\ Edits!dump(d).k = "yaml"
  /\ EditParameters => \A t \in Edits!Typed : IsText(t)
<1>1. DOMAIN Edits!NoDoc = {"none"} /\ "none" \notin EditParts /\ "append" \in EditParts
  BY DEF Edits!NoDoc, EditParts
<1>2. \A d : IsDoc(d) => d # Edits!NoDoc
  BY <1>1 DEF IsDoc
<1>3. IsDoc(Edits!Empty)
  BY DEF IsDoc, Edits!Empty, EditParts
<1>4. ASSUME NEW k \in {"yaml", "empty", "bad"}, NEW d, NEW b, IsDoc(d)
      PROVE  IsText(Edits!Text(k, d, b)) /\ Edits!Text(k, d, b).doc = d /\ Edits!Text(k, d, b).k = k
  BY <1>4 DEF IsText, Edits!Text
<1>5. IsText(Edits!NoText) /\ IsText(Edits!Bad)
  BY <1>3, <1>4 DEF Edits!NoText, Edits!Bad
<1>6. \A d : IsDoc(d) => /\ IsText(Edits!dump(d)) /\ Edits!dump(d).doc = d /\ Edits!dump(d).k = "yaml"
  BY DEF Edits!dump, Edits!Text, IsText
<1>7. EditParameters => \A t \in Edits!Typed : IsText(t)
  <2>1. \A d \in EditDocs : EditParameters => IsText(Edits!Text("yaml", d, FALSE))
    BY DEF EditParameters, Edits!Text, IsText
  <2>. QED BY <1>5, <2>1, Zenon DEF Edits!Typed
<1>. QED BY <1>2, <1>3, <1>5, <1>6, <1>7

LEMMA EditInit ==
  ASSUME EditParameters
  PROVE  Edits!Init => EditInv
<1>. SUFFICES ASSUME Edits!Init PROVE EditInv
  OBVIOUS
<1>1. /\ editFile \in Edits!Typed /\ editOpen = FALSE /\ vis = TRUE /\ editCur = Edits!NoText
      /\ editSeq = Edits!Empty /\ editIdle = Edits!NoDoc /\ trans = Edits!NoDoc /\ editSave = Edits!NoSave
      /\ hasty = FALSE
  BY DEF Edits!Init
<1>2. editSave.text = Edits!NoText /\ editSave.on = FALSE /\ Edits!NoText.k = "empty"
  BY <1>1 DEF Edits!NoSave, Edits!NoText, Edits!Text
<1>3. EditTypes
  BY <1>1, <1>2, DocsAreDocs DEF EditTypes
<1>. QED BY <1>1, <1>2, <1>3 DEF EditInv, WaitingIsWanted, Edits!SavedIsWanted, Edits!InSync

(* An edit of a list.                                                      *)
LEMMA EditEdited ==
  ASSUME EditInv, editOpen, vis, IsDoc(editSeq'), editIdle' = editSeq',
         trans = Edits!NoDoc => trans' = Edits!NoDoc,
         trans # Edits!NoDoc => IsDoc(trans'),
         editWant' = Edits!dump(editSeq'), hasty' = (hasty \/ Edits!Behind),
         UNCHANGED <<editKind, editFile, editOpen, editLoad, vis, editCur, editSave>>
  PROVE  EditInv'
<1>1. hasty' \in BOOLEAN /\ (~hasty' => ~hasty /\ trans = Edits!NoDoc /\ editLoad = "done")
  BY DEF EditInv, EditTypes, Edits!Behind
<1>2. EditTypes'
  BY <1>1 DEF EditInv, EditTypes
<1>3. editIdle' # Edits!NoDoc /\ editWant'.doc = editSeq' /\ editWant'.k = "yaml" /\ editCur'.k # "bad"
  BY DocsAreDocs DEF EditInv, EditTypes
<1>4. WaitingIsWanted'
  BY <1>1, <1>3 DEF WaitingIsWanted
<1>. QED BY <1>1, <1>2, <1>3, <1>4 DEF EditInv, Edits!SavedIsWanted, Edits!InSync

LEMMA EditFetches ==
  ASSUME EditInv, Edits!fetchContent
  PROVE  EditInv'
<1>1. editOpen /\ UNCHANGED <<editKind, editFile, editOpen, vis, editSave, hasty, edits>>
  BY DEF Edits!fetchContent
<1>2. CASE editFile.k = "bad"
  <2>1. editLoad' = "failed" /\ UNCHANGED <<editCur, editSeq, editIdle, trans, editWant>>
    BY <1>2 DEF Edits!fetchContent
  <2>. QED BY <1>1, <2>1 DEF EditInv, EditTypes, WaitingIsWanted, Edits!SavedIsWanted, Edits!InSync
<1>3. CASE editFile.k # "bad"
  <2>1. /\ editLoad' = "done" /\ editSeq' = editFile.doc /\ editCur' = editFile /\ editIdle' = editFile.doc
        /\ editWant' = editFile /\ trans' \in {Edits!NoDoc, editFile.doc}
    BY <1>3 DEF Edits!fetchContent, Edits!Parse
  <2>2. IsDoc(editFile.doc) /\ editFile.doc # Edits!NoDoc /\ IsText(editFile)
    BY DocsAreDocs DEF EditInv, EditTypes, IsText
  <2>3. EditTypes'
    BY <1>1, <1>3, <2>1, <2>2 DEF EditInv, EditTypes
  <2>4. WaitingIsWanted'
    BY <1>1, <1>3, <2>1, <2>2 DEF WaitingIsWanted
  <2>. QED BY <1>1, <2>1, <2>2, <2>3, <2>4 DEF EditInv, Edits!SavedIsWanted, Edits!InSync
<1>. QED BY <1>2, <1>3

LEMMA EditSerializes ==
  ASSUME EditInv, Edits!serialize
  PROVE  EditInv'
<1>1. /\ editIdle # Edits!NoDoc /\ editCur' = Edits!dump(editIdle) /\ editIdle' = Edits!NoDoc
      /\ trans' = IF editCur' = editCur THEN trans ELSE Edits!Parse(editCur', vis, trans)
      /\ UNCHANGED <<editKind, editFile, editOpen, editLoad, vis, editSeq, editSave, editWant, hasty>>
  BY DEF Edits!serialize
<1>2. editIdle = editSeq /\ IsDoc(editSeq) /\ editSeq # Edits!NoDoc
      /\ IsText(editCur') /\ editCur'.doc = editSeq /\ editCur'.k = "yaml"
  BY <1>1, DocsAreDocs DEF EditInv, EditTypes
<1>3. trans' = IF editCur' # editCur /\ vis THEN editSeq ELSE trans
  BY <1>1, <1>2 DEF Edits!Parse, EditInv, EditTypes
<1>4. EditTypes'
  BY <1>1, <1>2, <1>3 DEF EditInv, EditTypes
<1>5. WaitingIsWanted'
  <2>1. SUFFICES ASSUME ~hasty, editOpen, editLoad = "done"
        PROVE  /\ trans' # Edits!NoDoc => editWant.doc = trans' /\ editSeq = trans'
               /\ editWant.doc = editSeq /\ editWant.k # "bad"
    BY <1>1, <1>2 DEF WaitingIsWanted, Edits!Same
  <2>2. editWant.doc = editSeq /\ editWant.k # "bad" /\ (trans # Edits!NoDoc => trans = editSeq)
    BY <1>1, <1>2, <2>1 DEF EditInv, WaitingIsWanted
  <2>. QED BY <1>3, <2>2
<1>6. Edits!InSync'
  BY <1>1, <1>2 DEF Edits!InSync
<1>. QED BY <1>1, <1>4, <1>5, <1>6 DEF EditInv, Edits!SavedIsWanted

LEMMA EditTransition ==
  ASSUME EditInv, Edits!Transition
  PROVE  EditInv'
<1>1. /\ trans # Edits!NoDoc /\ editSeq' = trans /\ editIdle' = trans /\ trans' = Edits!NoDoc
      /\ UNCHANGED <<editKind, editFile, editOpen, editLoad, vis, editCur, editSave, editWant, hasty>>
  BY DEF Edits!Transition
<1>2. EditTypes'
  BY <1>1 DEF EditInv, EditTypes
<1>3. WaitingIsWanted'
  BY <1>1 DEF EditInv, WaitingIsWanted
<1>. QED BY <1>1, <1>2, <1>3 DEF EditInv, Edits!SavedIsWanted, Edits!InSync

LEMMA EditChanges ==
  ASSUME EditParameters, EditInv, NEW t \in Edits!Typed, Edits!onChange(t)
  PROVE  EditInv'
<1>1. /\ ~vis /\ editCur' = t /\ editWant' = t
      /\ hasty' = (hasty \/ Edits!Behind \/ editIdle # Edits!NoDoc)
      /\ UNCHANGED <<editKind, editFile, editOpen, editLoad, vis, editSeq, editIdle, trans, editSave>>
  BY DEF Edits!onChange
<1>2. hasty' \in BOOLEAN /\ (~hasty' => ~hasty /\ trans = Edits!NoDoc /\ editIdle = Edits!NoDoc)
  BY <1>1 DEF EditInv, EditTypes, Edits!Behind
<1>3. EditTypes'
  BY <1>1, <1>2, DocsAreDocs DEF EditInv, EditTypes
<1>4. WaitingIsWanted'
  BY <1>1, <1>2 DEF WaitingIsWanted, Edits!Same
<1>. QED BY <1>1, <1>2, <1>3, <1>4 DEF EditInv, Edits!SavedIsWanted, Edits!InSync

LEMMA EditToggles ==
  ASSUME EditInv, Edits!setVisualization
  PROVE  EditInv'
<1>1. UNCHANGED <<editKind, editFile, editLoad, editCur, editSeq, editWant>>
  BY DEF Edits!setVisualization
<1>2. CASE ~vis /\ editCur.k = "bad"
  <2>1. editOpen' = FALSE /\ editIdle' = Edits!NoDoc /\ trans' = Edits!NoDoc /\ editSave' = Edits!NoSave
        /\ UNCHANGED <<vis, hasty>>
    BY <1>2 DEF Edits!setVisualization
  <2>2. editSave'.on = FALSE /\ IsText(editSave'.text)
    BY <2>1, DocsAreDocs DEF Edits!NoSave
  <2>. QED BY <1>1, <2>1, <2>2 DEF EditInv, EditTypes, WaitingIsWanted, Edits!SavedIsWanted, Edits!InSync
<1>3. CASE ~(~vis /\ editCur.k = "bad")
  <2>1. /\ vis' = ~vis /\ trans' = Edits!Parse(editCur, vis', trans)
        /\ hasty' = (hasty \/ (vis' /\ (editCur.k = "empty" \/ editIdle \notin {Edits!NoDoc, editCur.doc})))
        /\ UNCHANGED <<editOpen, editIdle, editSave>>
    BY <1>3 DEF Edits!setVisualization
  <2>2. /\ hasty' \in BOOLEAN /\ vis' \in BOOLEAN /\ IsDoc(editCur.doc) /\ editCur.doc # Edits!NoDoc
        /\ trans' = IF vis' /\ editCur.k = "yaml" THEN editCur.doc ELSE trans
    BY <2>1, DocsAreDocs DEF EditInv, EditTypes, IsText, Edits!Parse
  <2>3. editCur.k # "bad" \/ ~vis'
    BY <1>3, <2>1 DEF EditInv, EditTypes
  <2>4. EditTypes'
    BY <1>1, <2>1, <2>2, <2>3 DEF EditInv, EditTypes
  <2>5. CASE vis'
    <3>1. ~vis /\ editCur.k # "bad" /\ editCur.k \in {"yaml", "empty", "bad"}
      BY <1>3, <2>1, <2>5 DEF EditInv, EditTypes, IsText
    <3>2. WaitingIsWanted'
      <4>1. SUFFICES ASSUME ~hasty', editOpen', editLoad' = "done"
            PROVE  editWant.doc = editCur.doc /\ editWant.k # "bad" /\ editIdle \in {Edits!NoDoc, editCur.doc}
                   /\ editCur.k = "yaml"
        BY <1>1, <2>1, <2>2, <2>5 DEF WaitingIsWanted
      <4>2. ~hasty /\ editIdle \in {Edits!NoDoc, editCur.doc} /\ editCur.k = "yaml" /\ editOpen /\ editLoad = "done"
        BY <1>1, <2>1, <2>5, <3>1, <4>1
      <4>. QED BY <4>2 DEF EditInv, EditTypes, WaitingIsWanted, Edits!Same
    <3>3. Edits!InSync'
      BY <1>1, <2>2, <2>5, <3>1 DEF Edits!InSync
    <3>. QED BY <1>1, <2>1, <2>4, <3>2, <3>3 DEF EditInv, Edits!SavedIsWanted
  <2>6. CASE ~vis'
    <3>1. WaitingIsWanted'
      BY <1>1, <2>1, <2>2, <2>6 DEF EditInv, WaitingIsWanted
    <3>. QED BY <1>1, <2>1, <2>4, <2>6, <3>1 DEF EditInv, Edits!SavedIsWanted, Edits!InSync
  <2>. QED BY <2>5, <2>6
<1>. QED BY <1>2, <1>3

LEMMA EditSaves ==
  ASSUME EditInv, Edits!handleSave
  PROVE  EditInv'
<1>. DEFINE lists == editKind = "groups" /\ vis
            text == IF lists THEN Edits!dump(editSeq) ELSE editCur
<1>1. /\ editOpen /\ editSave' = [text |-> text, want |-> editWant, on |-> TRUE] /\ editCur' = text
      /\ trans' = IF text = editCur THEN trans ELSE Edits!Parse(text, vis, trans)
      /\ hasty' = (hasty \/ Edits!Behind \/ (~lists /\ editIdle # Edits!NoDoc /\ editIdle # editCur.doc))
      /\ UNCHANGED <<editKind, editFile, editOpen, editLoad, vis, editSeq, editIdle, editWant>>
  BY DEF Edits!handleSave
<1>2. hasty' \in BOOLEAN /\ IsText(text) /\ IsDoc(editSeq) /\ editSeq # Edits!NoDoc
      /\ (lists => text.doc = editSeq /\ text.k = "yaml" /\ vis) /\ (~lists => text = editCur)
  BY <1>1, DocsAreDocs DEF EditInv, EditTypes, Edits!Behind
<1>3. trans' = IF text # editCur THEN editSeq ELSE trans
  BY <1>1, <1>2 DEF Edits!Parse
<1>4. editSave'.text = text /\ editSave'.want = editWant
  BY <1>1
<1>5. ASSUME ~hasty'
      PROVE  /\ ~hasty /\ trans = Edits!NoDoc /\ editLoad = "done" /\ Edits!Same(text, editWant)
             /\ vis => text.k = "yaml" \/ editIdle # Edits!NoDoc
             /\ lists \/ editIdle # Edits!NoDoc => editWant.doc = editSeq /\ editWant.k # "bad" /\ text.k # "bad"
  <2>1. ~hasty /\ trans = Edits!NoDoc /\ editLoad = "done" /\ editOpen
        /\ (lists \/ editIdle = Edits!NoDoc \/ editIdle = editCur.doc)
    BY <1>1, <1>5 DEF Edits!Behind
  <2>2. CASE editIdle # Edits!NoDoc
    <3>1. editIdle = editSeq /\ editWant.doc = editSeq /\ editWant.k # "bad" /\ editCur.k # "bad"
      BY <2>1, <2>2 DEF EditInv, EditTypes, WaitingIsWanted
    <3>2. text.doc = editSeq /\ text.k # "bad"
      BY <1>2, <2>1, <2>2, <3>1
    <3>. QED BY <2>1, <2>2, <3>1, <3>2 DEF Edits!Same
  <2>3. CASE editIdle = Edits!NoDoc
    <3>1. Edits!Same(editCur, editWant) /\ (vis => editCur.k = "yaml")
      BY <2>1, <2>3 DEF EditInv, WaitingIsWanted
    <3>2. vis => editCur.doc = editSeq
      BY <2>1, <2>3, <3>1 DEF EditInv, Edits!InSync
    <3>3. CASE lists
      <4>1. editWant.doc = editSeq /\ editWant.k # "bad"
        BY <1>2, <3>1, <3>2, <3>3 DEF Edits!Same
      <4>. QED BY <1>2, <2>1, <3>3, <4>1 DEF Edits!Same
    <3>4. CASE ~lists
      <4>1. text = editCur
        BY <1>2, <3>4
      <4>. HIDE DEF text, lists
      <4>. QED BY <2>1, <2>3, <3>1, <3>4, <4>1
    <3>. QED BY <3>3, <3>4
  <2>. QED BY <2>2, <2>3
<1>6. vis => text.k # "bad"
  BY <1>2 DEF EditInv, EditTypes
<1>. HIDE DEF text, lists
<1>7. EditTypes'
  BY <1>1, <1>2, <1>3, <1>4, <1>6 DEF EditInv, EditTypes
<1>8. WaitingIsWanted'
  <2>1. SUFFICES ASSUME ~hasty'
        PROVE  /\ trans' # Edits!NoDoc => /\ editWant.doc = trans' /\ text.doc = trans' /\ editIdle \in {Edits!NoDoc, trans'}
                                          /\ editWant.k # "bad" /\ text.k # "bad"
               /\ trans' = Edits!NoDoc /\ editIdle # Edits!NoDoc =>
                    editWant.doc = editSeq /\ editWant.k # "bad" /\ text.k # "bad"
               /\ trans' = Edits!NoDoc /\ editIdle = Edits!NoDoc =>
                    Edits!Same(text, editWant) /\ (vis => text.k = "yaml")
    BY <1>1 DEF WaitingIsWanted
  <2>2. CASE text # editCur
    <3>1. lists /\ trans' = editSeq /\ text.doc = editSeq
      BY <1>2, <1>3, <2>2
    <3>2. editIdle \in {Edits!NoDoc, editSeq}
      BY DEF EditInv, EditTypes
    <3>. QED BY <1>2, <1>5, <2>1, <3>1, <3>2
  <2>3. CASE text = editCur
    <3>1. trans' = Edits!NoDoc
      BY <1>3, <1>5, <2>1, <2>3
    <3>. QED BY <1>5, <1>6, <2>1, <3>1
  <2>. QED BY <2>2, <2>3
<1>9. Edits!SavedIsWanted'
  BY <1>4, <1>5 DEF Edits!SavedIsWanted
<1>10. Edits!InSync'
  BY <1>1, <1>2, <1>3 DEF EditInv, Edits!InSync
<1>. QED BY <1>7, <1>8, <1>9, <1>10 DEF EditInv

LEMMA EditStep ==
  ASSUME EditParameters
  PROVE  EditInv /\ [Edits!Next]_Edits!vars => EditInv'
<1>. SUFFICES ASSUME EditInv, [Edits!Next]_Edits!vars PROVE EditInv'
  OBVIOUS
<1>1. CASE Edits!Open
  <2>1. /\ editLoad' = "reading" /\ vis' = TRUE /\ editCur' = Edits!NoText /\ editSeq' = Edits!Empty
        /\ editIdle' = Edits!Empty /\ trans' = Edits!NoDoc /\ editSave' = Edits!NoSave /\ hasty' = FALSE
        /\ editFile' = editFile
    BY <1>1 DEF Edits!Open, Edits!Mounted
  <2>2. editSave'.on = FALSE /\ editSave'.text = Edits!NoText /\ editCur'.k = "empty"
    BY <2>1 DEF Edits!NoSave, Edits!NoText, Edits!Text
  <2>. QED BY <2>1, <2>2, DocsAreDocs DEF EditInv, EditTypes, WaitingIsWanted, Edits!SavedIsWanted, Edits!InSync
<1>2. CASE Edits!Close
  <2>1. /\ editOpen' = FALSE /\ editIdle' = Edits!NoDoc /\ trans' = Edits!NoDoc /\ editSave' = Edits!NoSave
        /\ UNCHANGED <<editFile, editLoad, vis, editCur, editSeq, editWant, hasty>>
    BY <1>2 DEF Edits!Close
  <2>2. editSave'.on = FALSE /\ IsText(editSave'.text)
    BY <2>1, DocsAreDocs DEF Edits!NoSave
  <2>. QED BY <2>1, <2>2 DEF EditInv, EditTypes, WaitingIsWanted, Edits!SavedIsWanted, Edits!InSync
<1>3. ASSUME NEW i \in EditItems, Edits!PrependOne(i) PROVE EditInv'
  BY <1>3, EditEdited DEF Edits!PrependOne, Edits!Edit, EditInv, EditTypes, IsDoc
<1>4. ASSUME NEW i \in EditItems, Edits!AppendOne(i) PROVE EditInv'
  BY <1>4, EditEdited DEF Edits!AppendOne, Edits!Edit, EditInv, EditTypes, IsDoc
<1>5. ASSUME NEW i \in EditItems, Edits!ToggleDelete(i) PROVE EditInv'
  BY <1>5, EditEdited DEF Edits!ToggleDelete, Edits!Edit, EditInv, EditTypes, IsDoc
<1>6. ASSUME NEW s, NEW f \in {"prepend", "append"}, Edits!AddProxies(s, f) PROVE EditInv'
  BY <1>6, EditEdited DEF Edits!AddProxies, Edits!Edit, EditInv, EditTypes, IsDoc
<1>7. ASSUME NEW i \in EditItems, NEW f \in {"prepend", "append"}, Edits!onDelete(i, f) PROVE EditInv'
  BY <1>7, EditEdited DEF Edits!onDelete, Edits!Edit, EditInv, EditTypes, IsDoc
<1>8. ASSUME NEW a \in EditItems, NEW b \in EditItems, NEW f \in {"prepend", "append"}, Edits!onDragEnd(f, a, b)
      PROVE  EditInv'
  BY <1>8, EditEdited DEF Edits!onDragEnd, Edits!Edit, EditInv, EditTypes, IsDoc
<1>9. ASSUME NEW r \in {"saved", "refused", "error"}, Edits!SaveAnswers(r) PROVE EditInv'
  <2>1. /\ editSave' = Edits!NoSave /\ editFile' = IF r = "saved" THEN editSave.text ELSE editFile
        /\ \/ UNCHANGED <<editOpen, editIdle, trans>>
           \/ editOpen' = FALSE /\ editIdle' = Edits!NoDoc /\ trans' = Edits!NoDoc
        /\ UNCHANGED <<editLoad, vis, editCur, editSeq, editWant, hasty>>
    BY <1>9 DEF Edits!SaveAnswers
  <2>2. editSave'.on = FALSE /\ IsText(editSave'.text)
    BY <2>1, DocsAreDocs DEF Edits!NoSave
  <2>. QED BY <2>1, <2>2 DEF EditInv, EditTypes, WaitingIsWanted, Edits!SavedIsWanted, Edits!InSync
<1>10. CASE UNCHANGED Edits!vars
  BY <1>10 DEF Edits!vars, EditInv, EditTypes, WaitingIsWanted, Edits!SavedIsWanted, Edits!InSync
<1>. QED BY <1>1, <1>2, <1>3, <1>4, <1>5, <1>6, <1>7, <1>8, <1>9, <1>10, EditFetches, EditSerializes, EditTransition,
            EditChanges, EditToggles, EditSaves DEF Edits!Next

LEMMA EditsHold ==
  EditParameters => (Edits!Init /\ [][Edits!Next]_Edits!vars => [](Edits!SavedIsWanted /\ Edits!InSync))
<1>. SUFFICES ASSUME EditParameters
     PROVE  Edits!Init /\ [][Edits!Next]_Edits!vars => [](Edits!SavedIsWanted /\ Edits!InSync)
  OBVIOUS
<1>1. EditInv => Edits!SavedIsWanted /\ Edits!InSync
  BY DEF EditInv
<1>. QED BY <1>1, EditInit, EditStep, PTL

(* What an editor saves is what the user made of the file, if nothing was  *)
(* done while its two views were out of step, and with nothing waiting the *)
(* two views say the same.                                                 *)
THEOREM EditsAreSaved ==
  ASSUME EditParameters PROVE Edits!Spec => [](Edits!SavedIsWanted /\ Edits!InSync)
  BY EditsHold, PTL DEF Edits!Spec

-------------------------------------------------------------------------------
(* The sites to test.  With every change made alone and accepted, the list *)
(* is at rest, or the one change made to it is on its way: it waits for    *)
(* the idle callback, its patch runs, or the list is read again after it;  *)
(* and it is what the user wants that travels, each site of it once.       *)
EachOnce(l, n) ==
  \E X : /\ l \in Seq(X) /\ Injective(l)
         /\ \A x \in X : x.uid \in 1..n
         /\ \A x, y \in X : x.uid = y.uid => x = y

BringsWanted(then) == then.kind = "put" => then.list = wanted

AtRest == Tests!Quiet /\ testsCache = wanted /\ testsStore = wanted
WaitsIdle == testsPatches = <<>> /\ testsFetch = <<>> /\ testsIdle = <<wanted>>
PatchRuns ==
  /\ testsIdle = <<>> /\ testsFetch = <<>>
  /\ \E then, kept : /\ testsPatches = <<[list |-> wanted, then |-> then, done |-> kept]>>
                     /\ BringsWanted(then) /\ (kept => testsStore = wanted)
ReadsAgain ==
  /\ testsIdle = <<>> /\ testsPatches = <<>> /\ testsStore = wanted
  /\ \E read, list, thens : /\ testsFetch = <<[read |-> read, list |-> list, thens |-> thens]>>
                            /\ (read => list = wanted)
                            /\ thens = <<>> \/ \E then : thens = <<then>> /\ BringsWanted(then)

TestsAgree ==
  testsClean =>
    IF testsView = "none" THEN AtRest /\ (wanted = Tests!NoList \/ EachOnce(wanted, fresh))
                          ELSE EachOnce(wanted, fresh) /\ (AtRest \/ WaitsIdle \/ PatchRuns \/ ReadsAgain)

TestsForm == \E t, s, b : /\ testsForm = [type |-> t, site |-> s, saving |-> b]
                          /\ t # "closed" => testsView # "none"

TestsInv == fresh \in Nat \ {0} /\ testsClean \in BOOLEAN /\ TestsForm /\ TestsAgree

LEMMA EachOnceIsAList ==
  ASSUME NEW l, NEW n \in Nat, EachOnce(l, n)
  PROVE  /\ l # Tests!NoList /\ Len(l) \in Nat /\ DOMAIN l = 1..Len(l)
         /\ \A i, j \in DOMAIN l : l[i].uid = l[j].uid => i = j
<1>1. PICK X : /\ l \in Seq(X) /\ Injective(l)
               /\ \A x \in X : x.uid \in 1..n
               /\ \A x, y \in X : x.uid = y.uid => x = y
  BY DEF EachOnce
<1>2. Len(l) \in Nat /\ DOMAIN l = 1..Len(l) /\ \A i \in DOMAIN l : l[i] \in X
  BY <1>1
<1>3. l # Tests!NoList
  <2>1. DOMAIN Tests!NoList = {1} /\ Tests!NoList[1].uid = 0
    BY DEF Tests!NoList
  <2>. QED BY <1>1, <1>2, <2>1
<1>. QED BY <1>1, <1>2, <1>3 DEF Injective

LEMMA EachOnceLess ==
  ASSUME NEW l, NEW n \in Nat, EachOnce(l, n), NEW i \in DOMAIN l
  PROVE  EachOnce(Tests!RemoveAt(l, i), n)
<1>1. PICK X : /\ l \in Seq(X) /\ Injective(l)
               /\ \A x \in X : x.uid \in 1..n
               /\ \A x, y \in X : x.uid = y.uid => x = y
  BY DEF EachOnce
<1>2. Tests!RemoveAt(l, i) \in Seq(X) /\ Injective(Tests!RemoveAt(l, i))
  BY <1>1, ChainRemoved DEF Tests!RemoveAt, Chain!RemoveAt
<1>. QED BY <1>1, <1>2 DEF EachOnce

LEMMA EachOnceMoved ==
  ASSUME NEW l, NEW n \in Nat, EachOnce(l, n), NEW i \in DOMAIN l, NEW j \in DOMAIN l
  PROVE  EachOnce(Tests!reorder(l, i, j), n)
<1>1. PICK X : /\ l \in Seq(X) /\ Injective(l)
               /\ \A x \in X : x.uid \in 1..n
               /\ \A x, y \in X : x.uid = y.uid => x = y
  BY DEF EachOnce
<1>. DEFINE r == Chain!RemoveAt(l, i)
<1>2. /\ r \in Seq(X) /\ Len(r) = Len(l) - 1 /\ Injective(r)
      /\ \A k \in DOMAIN r : r[k] # l[i]
  BY <1>1, ChainRemoved
<1>3. l[i] \in X /\ j \in 1..(Len(r) + 1)
  <2>1. DOMAIN l = 1..Len(l) /\ Len(l) \in Nat
    BY <1>1
  <2>2. l[i] \in X
    BY <1>1
  <2>. HIDE DEF r
  <2>. QED BY <1>2, <2>1, <2>2
<1>4. Chain!InsertAt(r, j, l[i]) \in Seq(X) /\ Injective(Chain!InsertAt(r, j, l[i]))
  <2>. HIDE DEF r
  <2>. QED BY <1>2, <1>3, ChainInserted
<1>5. Tests!reorder(l, i, j) = Chain!InsertAt(r, j, l[i])
  BY DEF Tests!reorder, Tests!InsertAt, Tests!RemoveAt, Chain!InsertAt, Chain!RemoveAt
<1>. QED BY <1>1, <1>4, <1>5 DEF EachOnce

LEMMA EachOnceMore ==
  ASSUME NEW l, NEW n \in Nat, EachOnce(l, n)
  PROVE  EachOnce(Append(l, Tests!Site(n + 1)), n + 1)
<1>1. PICK X : /\ l \in Seq(X) /\ Injective(l)
               /\ \A x \in X : x.uid \in 1..n
               /\ \A x, y \in X : x.uid = y.uid => x = y
  BY DEF EachOnce
<1>. DEFINE e == Tests!Site(n + 1)
            Y == X \cup {e}
            m == Append(l, e)
<1>2. e.uid = n + 1
  BY DEF Tests!Site
<1>3. /\ m \in Seq(Y) /\ Len(m) = Len(l) + 1 /\ Len(l) \in Nat
      /\ \A i \in 1..Len(l) : m[i] = l[i] /\ l[i] \in X
      /\ m[Len(l) + 1] = e
  BY <1>1
<1>4. e \notin X
  BY <1>1, <1>2
<1>5. \A x \in Y : x.uid \in 1..(n + 1)
  BY <1>1, <1>2
<1>6. \A x, y \in Y : x.uid = y.uid => x = y
  BY <1>1, <1>2
<1>7. DOMAIN m = 1..(Len(l) + 1) /\ DOMAIN l = 1..Len(l)
  BY <1>1, <1>3
<1>. HIDE DEF e, m
<1>8. Injective(m)
  BY <1>1, <1>3, <1>4, <1>7 DEF Injective
<1>9. EachOnce(m, n + 1)
  BY <1>3, <1>5, <1>6, <1>8 DEF EachOnce
<1>. QED BY <1>9 DEF m, e

LEMMA EachOnceEdited ==
  ASSUME NEW l, NEW n \in Nat, EachOnce(l, n), NEW site
  PROVE  EachOnce(Tests!With(l, site), n)
<1>1. PICK X : /\ l \in Seq(X) /\ Injective(l)
               /\ \A x \in X : x.uid \in 1..n
               /\ \A x, y \in X : x.uid = y.uid => x = y
  BY DEF EachOnce
<1>. DEFINE new(x) == IF x.uid = site.uid THEN site ELSE x
            Y == {new(x) : x \in X}
            m == Tests!With(l, site)
<1>2. Len(l) \in Nat /\ DOMAIN l = 1..Len(l) /\ \A i \in 1..Len(l) : l[i] \in X
  BY <1>1
<1>3. \A x : new(x).uid = x.uid
  OBVIOUS
<1>4. m = [i \in 1..Len(l) |-> new(l[i])]
  BY <1>2 DEF Tests!With
<1>. HIDE DEF new, m
<1>5. m \in Seq(Y) /\ DOMAIN m = 1..Len(l) /\ \A i \in 1..Len(l) : m[i] = new(l[i])
  BY <1>2, <1>4
<1>6. Injective(m)
  BY <1>1, <1>2, <1>3, <1>5 DEF Injective
<1>7. (\A y \in Y : y.uid \in 1..n) /\ \A y, z \in Y : y.uid = z.uid => y = z
  BY <1>1, <1>3
<1>8. EachOnce(m, n)
  BY <1>5, <1>6, <1>7 DEF EachOnce
<1>. QED BY <1>8 DEF m

LEMMA EachOnceOne ==
  ASSUME NEW n \in Nat, NEW u \in 1..n
  PROVE  EachOnce(<<Tests!Site(u)>>, n)
<1>. DEFINE e == Tests!Site(u)
<1>1. e.uid = u
  BY DEF Tests!Site
<1>. HIDE DEF e
<1>2. <<e>> \in Seq({e}) /\ Injective(<<e>>)
  BY DEF Injective
<1>. DEFINE Y == {e}
            l == <<e>>
<1>3. l \in Seq(Y) /\ Injective(l) /\ (\A x \in Y : x.uid \in 1..n) /\ \A x, y \in Y : x.uid = y.uid => x = y
  BY <1>1, <1>2
<1>. HIDE DEF Y, l
<1>4. EachOnce(l, n)
  BY <1>3 DEF EachOnce
<1>. QED BY <1>4 DEF l, e

LEMMA EachOnceStays ==
  ASSUME NEW l, NEW n \in Nat, EachOnce(l, n)
  PROVE  EachOnce(l, n + 1)
<1>1. PICK X : /\ l \in Seq(X) /\ Injective(l)
               /\ \A x \in X : x.uid \in 1..n
               /\ \A x, y \in X : x.uid = y.uid => x = y
  BY DEF EachOnce
<1>2. \A x \in X : x.uid \in 1..(n + 1)
  BY <1>1
<1>. QED BY <1>1, <1>2 DEF EachOnce

LEMMA TestsInit == Tests!Init => TestsInv
<1>. SUFFICES ASSUME Tests!Init PROVE TestsInv
  OBVIOUS
<1>1. /\ testsStore \in {Tests!NoList, <<>>, <<Tests!Site(2)>>, <<Tests!Site(2), Tests!Site(3)>>}
      /\ testsCache = testsStore /\ wanted = testsStore /\ Tests!Quiet
      /\ testsView = "none" /\ fresh = 3 /\ testsClean = TRUE /\ testsForm = Tests!Closed
  BY DEF Tests!Init, Tests!Quiet
<1>2. EachOnce(<<>>, 3)
  <2>1. <<>> \in Seq({}) /\ Injective(<<>>)
    BY DEF Injective
  <2>. QED BY <2>1 DEF EachOnce
<1>3. EachOnce(<<Tests!Site(2)>>, 3)
  BY EachOnceOne
<1>4. EachOnce(<<Tests!Site(2), Tests!Site(3)>>, 3)
  <2>. DEFINE a == Tests!Site(2)
              b == Tests!Site(3)
              X == {a, b}
              l == <<a, b>>
  <2>1. a.uid = 2 /\ b.uid = 3
    BY DEF Tests!Site
  <2>. HIDE DEF a, b
  <2>2. /\ l \in Seq(X) /\ Injective(l)
        /\ \A x \in X : x.uid \in 1..3
        /\ \A x, y \in X : x.uid = y.uid => x = y
    BY <2>1 DEF Injective
  <2>. HIDE DEF X, l
  <2>3. EachOnce(l, 3)
    BY <2>2 DEF EachOnce
  <2>. QED BY <2>3 DEF l, a, b
<1>5. TestsForm
  BY <1>1 DEF TestsForm, Tests!Closed
<1>. QED BY <1>1, <1>2, <1>3, <1>4, <1>5 DEF TestsInv, TestsAgree, AtRest

(* The list the user changes: with every change made alone, that wanted.   *)
LEMMA TestsShown ==
  ASSUME TestsInv, testsClean, Tests!Quiet, testsView # "none"
  PROVE  /\ AtRest /\ EachOnce(wanted, fresh)
         /\ Tests!testList = wanted /\ Tests!ViewerList = wanted
<1>1. EachOnce(wanted, fresh) /\ fresh \in Nat
  BY DEF TestsInv, TestsAgree
<1>2. AtRest
  BY DEF TestsInv, TestsAgree, AtRest, WaitsIdle, PatchRuns, ReadsAgain, Tests!Quiet
<1>3. wanted # Tests!NoList
  BY <1>1, EachOnceIsAList
<1>. QED BY <1>1, <1>2, <1>3 DEF AtRest, Tests!testList, Tests!ViewerList

(* A change of the list goes on its way.                                   *)
LEMMA TestsChanged ==
  ASSUME TestsInv, fresh' \in Nat \ {0}, TestsForm', Tests!Changes(wanted'),
         testsView' # "none", UNCHANGED testsFetch,
         testsClean /\ Tests!Quiet => EachOnce(wanted', fresh'),
         \/ testsPatches' = testsPatches /\ testsIdle' = Append(testsIdle, wanted')
         \/ \E then : /\ testsPatches' = Append(testsPatches, Tests!Patch(wanted', then))
                      /\ then.kind = "put" => then.list = wanted'
                      /\ testsIdle' = testsIdle
  PROVE  TestsInv'
<1>1. testsClean' \in BOOLEAN /\ (testsClean' => testsClean /\ Tests!Quiet)
  BY DEF TestsInv, Tests!Changes
<1>2. SUFFICES ASSUME testsClean' PROVE TestsAgree'
  BY <1>1 DEF TestsInv, TestsAgree
<1>3. testsPatches = <<>> /\ testsIdle = <<>> /\ testsFetch' = <<>> /\ EachOnce(wanted', fresh')
  BY <1>1, <1>2 DEF Tests!Quiet
<1>4. CASE testsPatches' = testsPatches /\ testsIdle' = Append(testsIdle, wanted')
  BY <1>3, <1>4 DEF TestsAgree, WaitsIdle
<1>5. CASE \E then : /\ testsPatches' = Append(testsPatches, Tests!Patch(wanted', then))
                     /\ then.kind = "put" => then.list = wanted'
                     /\ testsIdle' = testsIdle
  <2>1. PICK then : /\ testsPatches' = Append(testsPatches, Tests!Patch(wanted', then))
                    /\ then.kind = "put" => then.list = wanted'
                    /\ testsIdle' = testsIdle
    BY <1>5
  <2>2. \E kept : /\ testsPatches' = <<[list |-> wanted', then |-> then, done |-> kept]>>
                  /\ kept => testsStore' = wanted'
    <3>1. \A a : Append(<<>>, a) = <<a>>
      OBVIOUS
    <3>2. testsPatches' = <<[list |-> wanted', then |-> then, done |-> FALSE]>>
      BY <1>3, <2>1, <3>1 DEF Tests!Patch
    <3>. QED BY <3>2
  <2>3. PatchRuns'
    BY <1>3, <2>1, <2>2, Zenon DEF PatchRuns, BringsWanted
  <2>. QED BY <1>2, <1>3, <2>1, <2>3 DEF TestsAgree
<1>. QED BY <1>4, <1>5

LEMMA TestsStay ==
  ASSUME TestsInv, TestsForm',
         UNCHANGED <<testsStore, testsCache, testsFetch, testsPatches, testsIdle, testsView, fresh, wanted,
                     testsClean>>
  PROVE  TestsInv'
<1>1. TestsAgree'
  BY DEF TestsInv, TestsAgree, AtRest, WaitsIdle, PatchRuns, ReadsAgain, BringsWanted, Tests!Quiet
<1>. QED BY <1>1 DEF TestsInv

LEMMA TestsOpen ==
  ASSUME TestsInv, NEW v \in {"page", "card"}, Tests!Open(v)
  PROVE  TestsInv'
<1>1. /\ testsView' = v /\ v # "none" /\ Tests!storeDefault(v, testsCache)
      /\ UNCHANGED <<testsStore, testsCache, testsFetch, testsIdle, testsForm>>
  BY DEF Tests!Open
<1>2. TestsForm'
  BY <1>1 DEF TestsInv, TestsForm
<1>3. CASE testsCache = Tests!NoList
  <2>1. /\ testsPatches' = Append(testsPatches, Tests!Patch(wanted', Tests!Nothing))
        /\ fresh' = fresh + 1 /\ wanted' = Tests!NewDefault(v) /\ Tests!Changes(wanted')
    BY <1>1, <1>3 DEF Tests!storeDefault, Tests!Changes
  <2>2. EachOnce(wanted', fresh')
    BY <2>1, EachOnceOne DEF Tests!NewDefault, Tests!DEFAULT_TEST_LIST, TestsInv
  <2>3. Tests!Nothing.kind # "put" /\ fresh' \in Nat \ {0}
    BY <2>1 DEF Tests!Nothing, Tests!Then, TestsInv
  <2>. QED BY <1>1, <1>2, <2>1, <2>2, <2>3, TestsChanged
<1>4. CASE testsCache # Tests!NoList
  <2>1. UNCHANGED <<testsPatches, fresh, wanted, testsClean>>
    BY <1>1, <1>4 DEF Tests!storeDefault
  <2>2. CASE testsView = "none"
    BY <1>1, <1>2, <1>4, <2>1, <2>2 DEF TestsInv, TestsAgree, AtRest, Tests!Quiet
  <2>3. CASE testsView # "none"
    <3>1. TestsAgree'
      BY <1>1, <2>1, <2>3
         DEF TestsInv, TestsAgree, AtRest, WaitsIdle, PatchRuns, ReadsAgain, BringsWanted, Tests!Quiet
    <3>. QED BY <1>2, <2>1, <3>1 DEF TestsInv
  <2>. QED BY <2>2, <2>3
<1>. QED BY <1>3, <1>4

LEMMA TestsDelete ==
  ASSUME TestsInv, NEW i, Tests!onDeleteTestListItem(i)
  PROVE  TestsInv'
<1>1. /\ testsView' = testsView /\ testsView # "none" /\ i \in DOMAIN Tests!testList
      /\ wanted' = Tests!RemoveAt(Tests!testList, i) /\ Tests!Changes(wanted')
      /\ testsPatches' = Append(testsPatches, Tests!Patch(wanted', Tests!Nothing))
      /\ UNCHANGED <<testsFetch, testsIdle, testsForm, fresh>>
  BY DEF Tests!onDeleteTestListItem, Tests!Changes
<1>2. testsClean /\ Tests!Quiet => EachOnce(wanted', fresh')
  BY <1>1, TestsShown, EachOnceLess DEF TestsInv
<1>3. TestsForm' /\ Tests!Nothing.kind # "put"
  BY <1>1 DEF TestsInv, TestsForm, Tests!Nothing, Tests!Then
<1>4. fresh' \in Nat \ {0} /\ testsView' # "none"
  BY <1>1 DEF TestsInv
<1>. QED BY <1>1, <1>2, <1>3, <1>4, TestsChanged

LEMMA TestsDrag ==
  ASSUME TestsInv, NEW i, NEW j, Tests!onDragEnd(i, j)
  PROVE  TestsInv'
<1>1. /\ testsView' = testsView /\ testsView # "none" /\ {i, j} \subseteq DOMAIN Tests!testList
      /\ wanted' = Tests!reorder(Tests!testList, i, j) /\ Tests!Changes(wanted')
      /\ \/ testsPatches' = Append(testsPatches, Tests!Patch(wanted', Tests!Nothing)) /\ UNCHANGED testsIdle
         \/ testsIdle' = Append(testsIdle, wanted') /\ UNCHANGED testsPatches
      /\ UNCHANGED <<testsFetch, testsForm, fresh>>
  BY DEF Tests!onDragEnd, Tests!Changes
<1>2. testsClean /\ Tests!Quiet => EachOnce(wanted', fresh')
  BY <1>1, TestsShown, EachOnceMoved DEF TestsInv
<1>3. TestsForm' /\ Tests!Nothing.kind # "put"
  BY <1>1 DEF TestsInv, TestsForm, Tests!Nothing, Tests!Then
<1>4. fresh' \in Nat \ {0} /\ testsView' # "none"
  BY <1>1 DEF TestsInv
<1>. QED BY <1>1, <1>2, <1>3, <1>4, TestsChanged

LEMMA TestsOk ==
  ASSUME TestsInv, Tests!handleOk
  PROVE  TestsInv'
<1>1. /\ testsForm.type # "closed" /\ testsForm' = [testsForm EXCEPT !.saving = TRUE]
      /\ UNCHANGED <<testsStore, testsCache, testsFetch, testsIdle, testsView, testsDefault>>
  BY DEF Tests!handleOk
<1>2. TestsForm' /\ testsView' # "none"
  <2>1. PICK t, s, b : /\ testsForm = [type |-> t, site |-> s, saving |-> b]
                       /\ t # "closed" => testsView # "none"
    BY DEF TestsInv, TestsForm
  <2>2. testsForm' = [type |-> t, site |-> s, saving |-> TRUE] /\ t # "closed"
    BY <1>1, <2>1
  <2>. QED BY <1>1, <2>1, <2>2 DEF TestsForm
<1>3. CASE testsForm.type = "new"
  <2>1. /\ testsPatches' = Append(testsPatches, Tests!Patch(Append(Tests!ViewerList, Tests!Site(fresh + 1)),
                                                            Tests!Then("refetch", <<>>)))
        /\ fresh' = fresh + 1 /\ wanted' = Append(Tests!testList, Tests!Site(fresh + 1))
        /\ Tests!Changes(wanted')
    BY <1>3 DEF Tests!handleOk, Tests!Changes
  <2>2. fresh' \in Nat \ {0} /\ Tests!Then("refetch", <<>>).kind # "put"
    BY <2>1 DEF TestsInv, Tests!Then
  <2>3. CASE testsClean /\ Tests!Quiet
    <3>1. Append(Tests!ViewerList, Tests!Site(fresh + 1)) = wanted' /\ EachOnce(wanted', fresh')
      BY <1>1, <1>2, <2>1, <2>3, TestsShown, EachOnceMore DEF TestsInv
    <3>. QED BY <1>1, <1>2, <2>1, <2>2, <3>1, TestsChanged
  <2>4. CASE ~(testsClean /\ Tests!Quiet)
    BY <1>2, <2>1, <2>2, <2>4 DEF TestsInv, TestsAgree, Tests!Changes
  <2>. QED BY <2>3, <2>4
<1>4. CASE testsForm.type # "new"
  <2>. DEFINE l == Tests!With(Tests!ViewerList, testsForm.site)
              w == Tests!With(Tests!testList, testsForm.site)
  <2>1. /\ testsPatches' = Append(testsPatches, Tests!Patch(l, Tests!Then("put", w)))
        /\ fresh' = fresh /\ wanted' = w /\ Tests!Changes(wanted')
    BY <1>4 DEF Tests!handleOk, Tests!Changes, Tests!patchTestList
  <2>2. fresh' \in Nat \ {0} /\ Tests!Then("put", w).list = wanted'
    BY <2>1 DEF TestsInv, Tests!Then
  <2>3. CASE testsClean /\ Tests!Quiet
    <3>1. l = wanted' /\ EachOnce(wanted', fresh')
      BY <1>1, <1>2, <2>1, <2>3, TestsShown, EachOnceEdited DEF TestsInv
    <3>. HIDE DEF l, w
    <3>. QED BY <1>1, <1>2, <2>1, <2>2, <3>1, TestsChanged
  <2>4. CASE ~(testsClean /\ Tests!Quiet)
    BY <1>2, <2>1, <2>2, <2>4 DEF TestsInv, TestsAgree, Tests!Changes
  <2>. QED BY <2>3, <2>4
<1>. QED BY <1>3, <1>4

LEMMA TestsIdleRuns ==
  ASSUME TestsInv, Tests!patchFn
  PROVE  TestsInv'
<1>1. /\ testsIdle # <<>> /\ testsIdle' = Tail(testsIdle)
      /\ testsPatches' = Append(testsPatches, Tests!Patch(Head(testsIdle), Tests!Nothing))
      /\ UNCHANGED <<testsStore, testsCache, testsFetch, testsView, testsForm, fresh, wanted, testsClean>>
  BY DEF Tests!patchFn
<1>2. TestsForm'
  BY <1>1 DEF TestsInv, TestsForm
<1>3. SUFFICES ASSUME testsClean PROVE TestsAgree'
  BY <1>1, <1>2 DEF TestsInv, TestsAgree
<1>4. testsView # "none" /\ EachOnce(wanted, fresh) /\ WaitsIdle
  BY <1>1, <1>3 DEF TestsInv, TestsAgree, AtRest, Tests!Quiet, PatchRuns, ReadsAgain
<1>5. testsIdle' = <<>> /\ testsPatches' = <<Tests!Patch(wanted, Tests!Nothing)>>
  <2>1. \A a : Append(<<>>, a) = <<a>> /\ Head(<<a>>) = a /\ Tail(<<a>>) = <<>>
    OBVIOUS
  <2>. QED BY <1>1, <1>4, <2>1 DEF WaitsIdle
<1>6. BringsWanted(Tests!Nothing)'
  BY DEF BringsWanted, Tests!Nothing, Tests!Then
<1>7. PatchRuns'
  BY <1>1, <1>4, <1>5, <1>6 DEF PatchRuns, WaitsIdle, Tests!Patch
<1>. QED BY <1>1, <1>4, <1>7 DEF TestsAgree

(* A patch that runs.                                                      *)
LEMMA TestsPatchOf ==
  ASSUME TestsInv, testsClean, NEW n \in DOMAIN testsPatches
  PROVE  /\ testsView # "none" /\ EachOnce(wanted, fresh) /\ n = 1
         /\ testsIdle = <<>> /\ testsFetch = <<>>
         /\ \E then, kept : /\ testsPatches = <<[list |-> wanted, then |-> then, done |-> kept]>>
                            /\ BringsWanted(then) /\ (kept => testsStore = wanted)
<1>1. testsPatches # <<>>
  OBVIOUS
<1>2. testsView # "none" /\ EachOnce(wanted, fresh) /\ PatchRuns
  BY <1>1 DEF TestsInv, TestsAgree, AtRest, Tests!Quiet, WaitsIdle, ReadsAgain
<1>3. \A a : DOMAIN <<a>> = {1}
  OBVIOUS
<1>. QED BY <1>2, <1>3 DEF PatchRuns

LEMMA TestsTakes ==
  ASSUME TestsInv, NEW n, Tests!Takes(n)
  PROVE  TestsInv'
<1>1. /\ n \in DOMAIN testsPatches /\ testsStore' = testsPatches[n].list
      /\ testsPatches' = [testsPatches EXCEPT ![n].done = TRUE]
      /\ UNCHANGED <<testsCache, testsFetch, testsIdle, testsView, testsForm, fresh, wanted, testsClean>>
  BY DEF Tests!Takes
<1>2. TestsForm'
  BY <1>1 DEF TestsInv, TestsForm
<1>3. SUFFICES ASSUME testsClean PROVE TestsAgree'
  BY <1>1, <1>2 DEF TestsInv, TestsAgree
<1>4. /\ testsView # "none" /\ EachOnce(wanted, fresh) /\ n = 1 /\ testsIdle = <<>> /\ testsFetch = <<>>
  BY <1>1, <1>3, TestsPatchOf
<1>5. PICK then, kept : testsPatches = <<[list |-> wanted, then |-> then, done |-> kept]>> /\ BringsWanted(then)
  BY <1>1, <1>3, TestsPatchOf
<1>6. testsStore' = wanted /\ testsPatches' = <<[list |-> wanted, then |-> then, done |-> TRUE]>>
  <2>. DEFINE p == [list |-> wanted, then |-> then, done |-> kept]
              q == [list |-> wanted, then |-> then, done |-> TRUE]
  <2>1. testsPatches[1] = p /\ [p EXCEPT !.done = TRUE] = q
    <3>1. \A a, b, c, d : [[list |-> a, then |-> b, done |-> c] EXCEPT !.done = d] = [list |-> a, then |-> b, done |-> d]
      OBVIOUS
    <3>. QED BY <1>5, <3>1
  <2>2. testsPatches' = [testsPatches EXCEPT ![1] = [testsPatches[1] EXCEPT !.done = TRUE]]
    BY <1>1, <1>4
  <2>3. testsPatches = <<p>> /\ testsStore' = wanted
    BY <1>1, <1>4, <1>5
  <2>4. testsPatches' = [<<p>> EXCEPT ![1] = q]
    BY <2>1, <2>2, <2>3
  <2>. HIDE DEF p, q
  <2>5. [<<p>> EXCEPT ![1] = q] = <<q>>
    OBVIOUS
  <2>6. testsPatches' = <<q>>
    BY <2>4, <2>5
  <2>. QED BY <2>3, <2>6 DEF q
<1>7. BringsWanted(then)'
  BY <1>1, <1>5 DEF BringsWanted
<1>8. PatchRuns'
  BY <1>1, <1>4, <1>6, <1>7 DEF PatchRuns
<1>. QED BY <1>1, <1>4, <1>8 DEF TestsAgree

LEMMA TestsRefuses ==
  ASSUME TestsInv, NEW n, Tests!Refuses(n)
  PROVE  TestsInv'
<1>1. /\ Tests!SaveFails(testsPatches[n].then) /\ testsClean' = FALSE
      /\ UNCHANGED <<testsView, fresh>>
  BY DEF Tests!Refuses
<1>2. TestsForm'
  <2>1. PICK t, s, b : /\ testsForm = [type |-> t, site |-> s, saving |-> b]
                       /\ t # "closed" => testsView # "none"
    BY DEF TestsInv, TestsForm
  <2>2. testsForm' = testsForm \/ testsForm' = [testsForm EXCEPT !.saving = FALSE]
    BY <1>1 DEF Tests!SaveFails
  <2>3. testsForm' = [type |-> t, site |-> s, saving |-> b] \/ testsForm' = [type |-> t, site |-> s, saving |-> FALSE]
    BY <2>1, <2>2
  <2>. QED BY <1>1, <2>1, <2>3 DEF TestsForm
<1>. QED BY <1>1, <1>2 DEF TestsInv, TestsAgree

LEMMA TestsAnswered ==
  ASSUME TestsInv, NEW n, Tests!Answered(n)
  PROVE  TestsInv'
<1>1. /\ n \in DOMAIN testsPatches /\ testsPatches[n].done /\ testsPatches' = Tests!RemoveAt(testsPatches, n)
      /\ testsFetch' = Tests!Asked(IF testsPatches[n].then = Tests!Nothing THEN Tests!Waiting
                                   ELSE Append(Tests!Waiting, testsPatches[n].then))
      /\ UNCHANGED <<testsStore, testsCache, testsIdle, testsView, testsForm, fresh, wanted, testsClean>>
  BY DEF Tests!Answered
<1>2. TestsForm'
  BY <1>1 DEF TestsInv, TestsForm
<1>3. SUFFICES ASSUME testsClean PROVE TestsAgree'
  BY <1>1, <1>2 DEF TestsInv, TestsAgree
<1>4. /\ testsView # "none" /\ EachOnce(wanted, fresh) /\ n = 1 /\ testsIdle = <<>> /\ testsFetch = <<>>
  BY <1>1, <1>3, TestsPatchOf
<1>5. PICK then, kept : /\ testsPatches = <<[list |-> wanted, then |-> then, done |-> kept]>>
                        /\ BringsWanted(then) /\ (kept => testsStore = wanted)
  BY <1>1, <1>3, TestsPatchOf
<1>6. testsStore' = wanted' /\ testsPatches[n].then = then
  BY <1>1, <1>4, <1>5
<1>7. testsPatches' = <<>>
  <2>1. \A a : Tests!RemoveAt(<<a>>, 1) = <<>>
    BY DEF Tests!RemoveAt
  <2>. QED BY <1>1, <1>4, <1>5, <2>1
<1>8. \E thens : /\ testsFetch' = Tests!Asked(thens)
                 /\ thens = <<>> \/ \E x : thens = <<x>> /\ BringsWanted(x)'
  <2>1. Tests!Waiting = <<>> /\ Append(<<>>, then) = <<then>> /\ BringsWanted(then)'
    BY <1>1, <1>4, <1>5 DEF Tests!Waiting, BringsWanted
  <2>. QED BY <1>1, <1>6, <2>1
<1>9. ReadsAgain'
  <2>1. PICK thens : /\ testsFetch' = <<[read |-> FALSE, list |-> Tests!NoList, thens |-> thens]>>
                     /\ thens = <<>> \/ \E x : thens = <<x>> /\ BringsWanted(x)'
    BY <1>8 DEF Tests!Asked
  <2>. QED BY <1>1, <1>4, <1>6, <1>7, <2>1 DEF ReadsAgain
<1>. QED BY <1>1, <1>4, <1>9 DEF TestsAgree

(* A refetch that runs.                                                    *)
LEMMA TestsFetchOf ==
  ASSUME TestsInv, testsClean, testsFetch # <<>>
  PROVE  testsView # "none" /\ EachOnce(wanted, fresh) /\ ReadsAgain
BY DEF TestsInv, TestsAgree, AtRest, Tests!Quiet, WaitsIdle, PatchRuns

LEMMA TestsReads ==
  ASSUME TestsInv, Tests!Reads
  PROVE  TestsInv'
<1>1. /\ testsFetch # <<>> /\ testsFetch' = <<[testsFetch[1] EXCEPT !.read = TRUE, !.list = testsStore]>>
      /\ UNCHANGED <<testsStore, testsCache, testsPatches, testsIdle, testsView, testsForm, fresh, wanted,
                     testsClean>>
  BY DEF Tests!Reads
<1>2. TestsForm'
  BY <1>1 DEF TestsInv, TestsForm
<1>3. SUFFICES ASSUME testsClean PROVE TestsAgree'
  BY <1>1, <1>2 DEF TestsInv, TestsAgree
<1>4. testsView # "none" /\ EachOnce(wanted, fresh) /\ ReadsAgain
  BY <1>1, <1>3, TestsFetchOf
<1>5. PICK read, list, thens : /\ testsFetch = <<[read |-> read, list |-> list, thens |-> thens]>>
                               /\ thens = <<>> \/ \E then : thens = <<then>> /\ BringsWanted(then)
  BY <1>4 DEF ReadsAgain
<1>6. testsFetch' = <<[read |-> TRUE, list |-> wanted', thens |-> thens]>>
  <2>. DEFINE f == testsFetch[1]
  <2>1. f = [read |-> read, list |-> list, thens |-> thens] /\ testsStore = wanted'
    BY <1>1, <1>4, <1>5 DEF ReadsAgain
  <2>2. testsFetch' = <<[f EXCEPT !.read = TRUE, !.list = testsStore]>>
    BY <1>1
  <2>. HIDE DEF f
  <2>3. PICK r : r = TRUE
    OBVIOUS
  <2>4. [f EXCEPT !.read = r, !.list = testsStore] = [read |-> r, list |-> testsStore, thens |-> thens]
    <3>1. [f EXCEPT !.read = r] = [read |-> r, list |-> list, thens |-> thens]
      BY <2>1
    <3>2. [[read |-> r, list |-> list, thens |-> thens] EXCEPT !.list = testsStore]
            = [read |-> r, list |-> testsStore, thens |-> thens]
      OBVIOUS
    <3>. QED BY <3>1, <3>2
  <2>. QED BY <2>1, <2>2, <2>3, <2>4, Zenon
<1>7. thens = <<>> \/ \E then : thens = <<then>> /\ BringsWanted(then)'
  BY <1>1, <1>5 DEF BringsWanted
<1>8. ReadsAgain'
  BY <1>1, <1>4, <1>6, <1>7 DEF ReadsAgain
<1>. QED BY <1>1, <1>4, <1>8 DEF TestsAgree

LEMMA TestsFetched ==
  ASSUME TestsInv, Tests!Fetched
  PROVE  TestsInv'
<1>. DEFINE thens == testsFetch[1].thens
            Those(kinds) == {i \in DOMAIN thens : thens[i].kind \in kinds}
<1>1. /\ testsFetch # <<>> /\ testsFetch[1].read
      /\ testsCache' = IF Those({"put"}) = {} THEN testsFetch[1].list ELSE thens[Tests!Max(Those({"put"}))].list
      /\ testsFetch' = IF Those({"refetch"}) # {} THEN Tests!Asked(<<>>) ELSE <<>>
      /\ testsForm' \in {Tests!Closed, testsForm}
      /\ UNCHANGED <<testsStore, testsPatches, testsIdle, testsView, fresh, wanted, testsClean>>
  BY DEF Tests!Fetched
<1>2. TestsForm'
  BY <1>1 DEF TestsInv, TestsForm, Tests!Closed
<1>3. SUFFICES ASSUME testsClean PROVE TestsAgree'
  BY <1>1, <1>2 DEF TestsInv, TestsAgree
<1>4. testsView # "none" /\ EachOnce(wanted, fresh) /\ ReadsAgain
  BY <1>1, <1>3, TestsFetchOf
<1>5. /\ testsFetch[1].list = wanted
      /\ thens = <<>> \/ \E then : thens = <<then>> /\ BringsWanted(then)
  BY <1>1, <1>4 DEF ReadsAgain
<1>6. testsCache' = wanted
  <2>1. CASE thens = <<>>
    BY <1>1, <1>5, <2>1
  <2>2. CASE thens # <<>>
    <3>1. PICK then : thens = <<then>> /\ BringsWanted(then)
      BY <1>5, <2>2
    <3>2. DOMAIN thens = {1} /\ thens[1] = then
      BY <3>1
    <3>3. Those({"put"}) = {} \/ (then.kind = "put" /\ Those({"put"}) = {1})
      <4>1. \A i : i \in Those({"put"}) <=> i = 1 /\ then.kind = "put"
        BY <3>2
      <4>. HIDE DEF Those
      <4>. QED BY <4>1
    <3>4. Tests!Max({1}) = 1
      BY DEF Tests!Max
    <3>. QED BY <1>1, <1>5, <3>1, <3>2, <3>3, <3>4 DEF BringsWanted
  <2>. QED BY <2>1, <2>2
<1>7. CASE testsFetch' = <<>>
  BY <1>1, <1>4, <1>6, <1>7 DEF TestsAgree, AtRest, Tests!Quiet, ReadsAgain
<1>8. CASE testsFetch' = Tests!Asked(<<>>)
  <2>1. testsFetch' = <<[read |-> FALSE, list |-> Tests!NoList, thens |-> <<>>]>>
    BY <1>8 DEF Tests!Asked
  <2>2. ReadsAgain'
    BY <1>1, <1>4, <2>1 DEF ReadsAgain
  <2>. QED BY <1>1, <1>4, <2>2 DEF TestsAgree
<1>. QED BY <1>1, <1>7, <1>8

LEMMA TestsStep == TestsInv /\ [Tests!Next]_Tests!vars => TestsInv'
<1>. SUFFICES ASSUME TestsInv, [Tests!Next]_Tests!vars PROVE TestsInv'
  OBVIOUS
<1>1. CASE \E v \in {"page", "card"} : Tests!Open(v)
  BY <1>1, TestsOpen
<1>2. CASE \E i \in 1..Len(Tests!testList) : Tests!onDeleteTestListItem(i)
  BY <1>2, TestsDelete
<1>3. CASE \E i, j \in 1..Len(Tests!testList) : Tests!onDragEnd(i, j)
  BY <1>3, TestsDrag
<1>4. CASE Tests!create
  BY <1>4, TestsStay DEF Tests!create, TestsForm
<1>5. CASE \E i \in 1..Len(Tests!testList) : Tests!edit(i)
  <2>1. PICK i \in 1..Len(Tests!testList) : Tests!edit(i)
    BY <1>5
  <2>2. testsView # "none" /\ testsView' = testsView
        /\ testsForm' = [type |-> "edit", site |-> [Tests!testList[i] EXCEPT !.v = @ + 1], saving |-> testsForm.saving]
    BY <2>1 DEF Tests!edit
  <2>3. TestsForm'
    BY <2>2 DEF TestsForm
  <2>. QED BY <2>1, <2>3, TestsStay DEF Tests!edit
<1>6. CASE Tests!handleClose
  <2>1. PICK t, s, b : testsForm = [type |-> t, site |-> s, saving |-> b]
    BY DEF TestsInv, TestsForm
  <2>2. testsForm' = [type |-> "closed", site |-> s, saving |-> b]
    BY <1>6, <2>1 DEF Tests!handleClose
  <2>3. TestsForm'
    BY <2>2 DEF TestsForm
  <2>. QED BY <1>6, <2>3, TestsStay DEF Tests!handleClose
<1>7. CASE UNCHANGED Tests!vars
  <2>1. TestsForm'
    BY <1>7 DEF Tests!vars, TestsInv, TestsForm
  <2>. QED BY <1>7, <2>1, TestsStay DEF Tests!vars
<1>8. CASE \E n \in 1..Len(testsPatches) : Tests!Takes(n) \/ Tests!Refuses(n) \/ Tests!Answered(n)
  BY <1>8, TestsTakes, TestsRefuses, TestsAnswered
<1>. QED BY <1>1, <1>2, <1>3, <1>4, <1>5, <1>6, <1>7, <1>8, TestsOk, TestsIdleRuns, TestsReads, TestsFetched
         DEF Tests!Next, Tests!User

LEMMA TestsHold == Tests!Init /\ [][Tests!Next]_Tests!vars => []Tests!ListIsWanted
<1>1. TestsInv => Tests!ListIsWanted
  <2>. SUFFICES ASSUME TestsInv, Tests!Quiet, testsClean, testsView # "none"
                PROVE  /\ Tests!testList = wanted /\ testsStore = wanted
                       /\ \A i, j \in DOMAIN wanted : wanted[i].uid = wanted[j].uid => i = j
    BY DEF Tests!ListIsWanted
  <2>. QED BY TestsShown, EachOnceIsAList DEF AtRest, TestsInv
<1>. QED BY <1>1, TestsInit, TestsStep, PTL

(* With nothing on its way, the sites shown and stored are those the user  *)
(* wants, each once, if each change was made alone and accepted.           *)
THEOREM SitesAreStored == Tests!Spec => []Tests!ListIsWanted
  BY TestsHold, PTL DEF Tests!Spec
===============================================================================
