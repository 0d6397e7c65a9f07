----------------------------- MODULE ProfilesPage -----------------------------
(***************************************************************************)
(* The page of profiles (src/src/pages/profiles.tsx with patchProfiles of  *)
(* src/src/hooks/use-profiles.ts): a switch can be interrupted by another  *)
(* one, runs on while the profile is being reactivated or deleted, and     *)
(* outlives the page.  The backend refuses a switch while another one is   *)
(* running.  A sequence number and the profile in switchingProfileRef say  *)
(* which of the switches may clear the page's marks.                       *)
(***************************************************************************)
EXTENDS Naturals, FiniteSets

CONSTANTS Profiles,
          MaxRequests   \* bound on switches, reactivations, imports and deletions

VARIABLES cur,          \* the backend: profile in force
          listed,       \* the backend: profiles
          busy,         \* the backend: id of the switch that holds its flag, 0: none
          seen,         \* the list as the page knows it: current, items
          fetches,      \* refetches of the list under way
          switchingRef, \* switchingProfileRef
          seq,          \* requestSequenceRef
          flows,        \* running calls of activateProfile
          activatings, enhancing, del, selected, requests

vars == <<cur, listed, busy, seen, fetches, switchingRef, seq, flows, activatings,
          enhancing, del, selected, requests>>

Nil == "none"
NoDel == [on |-> FALSE, batch |-> FALSE, left |-> {}, enhance |-> FALSE]

Init ==
  /\ listed \in SUBSET Profiles /\ Cardinality(listed) >= Cardinality(Profiles) - 1
  /\ cur \in listed /\ busy = 0
  /\ seen = [current |-> cur, items |-> listed] /\ fetches = 0
  /\ switchingRef = Nil /\ seq = 0 /\ flows = {} /\ activatings = {}
  /\ enhancing = FALSE /\ del = NoDel /\ selected = {} /\ requests = 0

Request == requests < MaxRequests /\ requests' = requests + 1

-------------------------------------------------------------------------------
(* activateProfile up to its await of patchProfiles: an other switch is    *)
(* interrupted, its spinner removed.  The call reaches the backend.        *)
handleProfileInterrupt(p) ==
  IF switchingRef \in {Nil, p} THEN flows
  ELSE {[f EXCEPT !.aborted = @ \/ (f.here /\ f.p = switchingRef /\ f.owner)] : f \in flows}

NewFlow(p) ==
  [id |-> requests + 1, p |-> p, n |-> seq + 1, stage |-> "patch", ok |-> FALSE,
   aborted |-> FALSE, owner |-> TRUE, here |-> TRUE]

activateProfile(p) ==
  /\ seq' = seq + 1
  /\ IF switchingRef = p THEN UNCHANGED <<switchingRef, flows, activatings>>
     ELSE /\ flows' = {[f EXCEPT !.owner = @ /\ ~f.here] : f \in handleProfileInterrupt(p)} \cup {NewFlow(p)}
          /\ activatings' = (activatings \ {switchingRef}) \cup {p}
          /\ switchingRef' = p

(* A click on a card; the menu's "use" forces a switch to the profile in   *)
(* force.                                                                  *)
BugOnSelect(p, force) ==
  /\ p \in seen.items /\ (force \/ p # seen.current) /\ Request
  /\ activateProfile(p)
  /\ UNCHANGED <<cur, listed, busy, seen, fetches, enhancing, del, selected>>

onSelect(p, force) ==
  /\ p \in seen.items /\ switchingRef # p
  /\ force \/ p # seen.current
  /\ Request
  /\ activateProfile(p)
  /\ UNCHANGED <<cur, listed, busy, seen, fetches, enhancing, del, selected>>

(* The backend begins the switch, or turns it away.                        *)
patchProfilesConfig(f) ==
  /\ f \in flows /\ f.stage = "patch"
  /\ IF busy = 0 THEN busy' = f.id /\ flows' = (flows \ {f}) \cup {[f EXCEPT !.stage = "backend"]}
     ELSE UNCHANGED busy /\ flows' = (flows \ {f}) \cup {[f EXCEPT !.stage = "answered"]}
  /\ UNCHANGED <<cur, listed, seen, fetches, switchingRef, seq, activatings, enhancing, del, selected, requests>>

(* It answers; a switch that was done is announced and the list fetched.   *)
BackendAnswers(f, ok) ==
  /\ f \in flows /\ f.stage = "backend" /\ (ok => f.p \in listed)
  /\ busy' = 0
  /\ cur' = IF ok THEN f.p ELSE cur
  /\ fetches' = IF ok THEN 1 ELSE fetches
  /\ flows' = (flows \ {f}) \cup {[f EXCEPT !.stage = "answered", !.ok = ok]}
  /\ UNCHANGED <<listed, seen, switchingRef, seq, activatings, enhancing, del, selected, requests>>

(* activateProfile's finally.                                              *)
Outdated(f) == f.here /\ f.n # seq

cleanupSwitchState(f) ==
  IF f.here /\ switchingRef = f.p /\ f.n = seq
  THEN activatings' = activatings \ {f.p} /\ switchingRef' = Nil
  ELSE UNCHANGED <<activatings, switchingRef>>

(* patchProfiles: an aborted call is rejected at once, a refused one       *)
(* fetches the list before it returns.  An outdated call ends here.        *)
patchProfiles(f) ==
  /\ f \in flows /\ f.stage = "answered"
  /\ IF f.aborted THEN flows' = flows \ {f} /\ cleanupSwitchState(f) /\ UNCHANGED <<seen, fetches>>
     ELSE /\ IF f.ok THEN UNCHANGED <<seen, fetches>>
             ELSE seen' = [current |-> cur, items |-> listed] /\ fetches' = 0
          /\ IF Outdated(f) THEN flows' = flows \ {f} /\ cleanupSwitchState(f)
             ELSE flows' = (flows \ {f}) \cup {[f EXCEPT !.stage = "select"]}
                  /\ UNCHANGED <<activatings, switchingRef>>
  /\ UNCHANGED <<cur, listed, busy, seq, enhancing, del, selected, requests>>

(* The saved nodes are selected, proxies and logs fetched; it may also be  *)
(* rejected on the way: the finally is the same.                           *)
SwitchEnds(f) ==
  /\ f \in flows /\ f.stage = "select"
  /\ flows' = flows \ {f}
  /\ cleanupSwitchState(f)
  /\ UNCHANGED <<cur, listed, busy, seen, fetches, seq, enhancing, del, selected, requests>>

mutateProfiles ==
  /\ fetches > 0 /\ fetches' = 0
  /\ seen' = [current |-> cur, items |-> listed]
  /\ UNCHANGED <<cur, listed, busy, switchingRef, seq, flows, activatings, enhancing, del, selected, requests>>

-------------------------------------------------------------------------------
(* Reactivation, one at a time and not during a switch.                    *)
onEnhance ==
  /\ switchingRef = Nil /\ ~enhancing /\ Request
  /\ enhancing' = TRUE /\ activatings' = activatings \cup {seen.current}
  /\ UNCHANGED <<cur, listed, busy, seen, fetches, switchingRef, seq, flows, del, selected>>

BugEnhanceEnds ==
  /\ enhancing /\ enhancing' = FALSE
  /\ UNCHANGED <<cur, listed, busy, seen, fetches, switchingRef, seq, flows, activatings, del, selected, requests>>

EnhanceEnds ==
  /\ enhancing
  /\ enhancing' = FALSE
  /\ activatings' = activatings \cap {switchingRef}
  /\ UNCHANGED <<cur, listed, busy, seen, fetches, switchingRef, seq, flows, del, selected, requests>>

(* An import: the new profile is listed, and the list is fetched until it  *)
(* is there.  One that fails is retried once and changes nothing.          *)
onImport(p) ==
  /\ p \notin listed \cup seen.items \cup del.left \cup activatings /\ Request
  /\ p # switchingRef /\ \A f \in flows : f.p # p
  /\ listed' = listed \cup {p} /\ fetches' = 1
  /\ UNCHANGED <<cur, busy, seen, switchingRef, seq, flows, activatings, enhancing, del, selected>>

(* Deletion of one profile, or of all that are selected.                   *)
onDelete(p) ==
  /\ ~del.on /\ p \in seen.items /\ Request
  /\ activatings' = {p}
  /\ del' = [on |-> TRUE, batch |-> FALSE, left |-> {p}, enhance |-> seen.current = p]
  /\ UNCHANGED <<cur, listed, busy, seen, fetches, switchingRef, seq, flows, enhancing, selected>>

toggleProfileSelection(S) ==
  /\ selected = {} /\ S \subseteq seen.items /\ S # {} /\ ~del.on /\ selected' = S
  /\ UNCHANGED <<cur, listed, busy, seen, fetches, switchingRef, seq, flows, activatings, enhancing, del, requests>>

deleteSelectedProfiles ==
  /\ ~del.on /\ selected # {} /\ Request
  /\ activatings' = activatings \cup (selected \cap {seen.current})
  /\ del' = [on |-> TRUE, batch |-> TRUE, left |-> selected, enhance |-> seen.current \in selected]
  /\ UNCHANGED <<cur, listed, busy, seen, fetches, switchingRef, seq, flows, enhancing, selected>>

(* The backend deletes one; the first of those left takes over.  It may    *)
(* refuse, and refuses what is not there: the rest is left, and the        *)
(* selection.                                                              *)
deleteProfile(p) ==
  /\ p \in del.left /\ p \in listed /\ Cardinality(listed) > 1
  /\ listed' = listed \ {p}
  /\ cur' = IF cur = p THEN CHOOSE q \in listed \ {p} : TRUE ELSE cur
  /\ del' = [del EXCEPT !.left = @ \ {p}]
  /\ fetches' = 1
  /\ UNCHANGED <<busy, seen, switchingRef, seq, flows, activatings, enhancing, selected, requests>>

DeleteFails ==
  /\ del.left # {}
  /\ del' = NoDel /\ activatings' = {}
  /\ UNCHANGED <<cur, listed, busy, seen, fetches, switchingRef, seq, flows, enhancing, selected, requests>>

(* The profile in force was among them: it is reactivated before the end,  *)
(* unless a switch or a reactivation is running.                           *)
DeleteEnhances ==
  /\ del.on /\ del.left = {} /\ del.enhance /\ del' = [del EXCEPT !.enhance = FALSE]
  /\ IF switchingRef # Nil \/ enhancing THEN UNCHANGED <<enhancing, activatings>>
     ELSE enhancing' = TRUE /\ activatings' = activatings \cup {seen.current}
  /\ UNCHANGED <<cur, listed, busy, seen, fetches, switchingRef, seq, flows, selected, requests>>

DeleteEnds ==
  /\ del.on /\ del.left = {} /\ ~del.enhance
  /\ selected' = IF del.batch THEN {} ELSE selected
  /\ del' = NoDel /\ activatings' = {}
  /\ UNCHANGED <<cur, listed, busy, seen, fetches, switchingRef, seq, flows, enhancing, requests>>

(* The page is left: the last switch is aborted; a page opened later has   *)
(* refs and marks of its own.                                              *)
Leave ==
  /\ flows # {} /\ ~enhancing /\ ~del.on /\ Request
  /\ flows' = {[f EXCEPT !.aborted = @ \/ (f.here /\ f.owner), !.here = FALSE] : f \in flows}
  /\ switchingRef' = Nil /\ seq' = 0 /\ activatings' = {} /\ selected' = {}
  /\ UNCHANGED <<cur, listed, busy, seen, fetches, enhancing, del>>

Progress ==
  \/ \E f \in flows : patchProfilesConfig(f) \/ (\E ok \in BOOLEAN : BackendAnswers(f, ok)) \/ patchProfiles(f) \/ SwitchEnds(f)
  \/ EnhanceEnds \/ DeleteEnhances \/ DeleteEnds \/ DeleteFails
  \/ \E p \in Profiles : deleteProfile(p)

Next ==
  \/ Progress \/ mutateProfiles \/ onEnhance \/ deleteSelectedProfiles \/ Leave
  \/ \E p \in Profiles : onImport(p) \/ onDelete(p) \/ (\E force \in BOOLEAN : onSelect(p, force))
  \/ \E S \in SUBSET Profiles : toggleProfileSelection(S)

Spec == Init /\ [][Next]_vars /\ WF_vars(Progress)

-------------------------------------------------------------------------------
(* A profile that counts as being switched to has a running switch that    *)
(* will clear it: clicks on it are ignored and reactivation is skipped     *)
(* until then.                                                             *)
SwitchingIsRunning ==
  switchingRef # Nil => \E f \in flows : f.here /\ f.p = switchingRef /\ f.n = seq

(* No card keeps its spinner once nothing is running on the page.          *)
SpinnersEnd ==
  switchingRef = Nil /\ ~enhancing /\ ~del.on => activatings = {}

(* And every switch, reactivation and deletion is over some time.          *)
NothingRuns == switchingRef = Nil /\ ~enhancing /\ ~del.on
AllEnds == []<>NothingRuns
===============================================================================
