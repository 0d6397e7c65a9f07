---------------------------- MODULE ProxySelection ----------------------------
(***************************************************************************)
(* Choosing nodes (src/src/hooks/use-proxy-selection.ts) and restoring the *)
(* choices of a profile after the core has loaded it (activateSelected of  *)
(* src/src/hooks/use-profiles.ts).                                         *)
(*                                                                         *)
(* A choice waits in a queue of one slot; one loop sends it to the core    *)
(* and stores it.  What is stored is the whole list of choices of the      *)
(* profile as the rendering knew it in which the loop began: storing a     *)
(* choice does not fetch the profiles again.  The patches are not awaited  *)
(* and may reach the profile in any order.                                 *)
(***************************************************************************)
EXTENDS Naturals, FiniteSets

CONSTANTS Groups, Proxies,
          MaxChoices    \* bound on choices and restorations

VARIABLES now,       \* the core: group -> node
          stored,    \* the profile's `selected`: group -> node or Nil
          seen,      \* the same as the last fetch saw it
          slot,      \* pendingRequestRef
          loops,     \* running loops of flushChangeQueue: request, list of the rendering
          patches,   \* patchProfile calls that are not through yet
          act,       \* activateSelected: the groups left, its list, its result
          last,      \* the last choice, while nothing else chose for its group
          restored,  \* the list activateSelected has just restored
          choices

vars == <<now, stored, seen, slot, loops, patches, act, last, restored, choices>>

Nil == "none"
None == [g |-> Nil, p |-> Nil]
Lists == [Groups -> Proxies \cup {Nil}]
NoList == [g \in Groups |-> Nil]
NoAct == [on |-> FALSE, left |-> {}, saved |-> NoList, new |-> NoList, change |-> FALSE, alone |-> FALSE]

(* group.all of the selectable groups: all nodes, or all but one.          *)
First == CHOOSE p \in Proxies : TRUE
Available == [g \in Groups |-> IF g = CHOOSE h \in Groups : TRUE THEN Proxies ELSE Proxies \ {First}]

Init ==
  /\ now \in [Groups -> Proxies] /\ \A g \in Groups : now[g] \in Available[g]
  /\ stored \in Lists /\ seen = stored
  /\ slot = None /\ loops = {} /\ patches = {} /\ act = NoAct
  /\ last = None /\ restored = NoList /\ choices = 0

-------------------------------------------------------------------------------
(* flushChangeQueue takes the slot; the list it will store from is that of *)
(* the rendering that started the loop.                                    *)
BugFlushChangeQueue(r) ==
  loops' = loops \cup {[r |-> r, cur |-> seen]} /\ slot' = None

flushChangeQueue(r) ==
  IF loops # {} THEN slot' = r /\ UNCHANGED loops
  ELSE loops' = {[r |-> r, cur |-> seen]} /\ slot' = None

changeProxy(g, p) ==
  /\ p \in Available[g] /\ choices < MaxChoices
  /\ flushChangeQueue([g |-> g, p |-> p])
  /\ last' = [g |-> g, p |-> p]
  /\ restored' = NoList
  /\ choices' = choices + 1
  /\ act' = [act EXCEPT !.alone = FALSE]
  /\ UNCHANGED <<now, stored, seen, patches>>

(* The loop goes on with what waits in the slot.                           *)
Continue(l) ==
  /\ loops' = (loops \ {l}) \cup (IF slot = None THEN {} ELSE {[l EXCEPT !.r = slot]})
  /\ slot' = None

(* selectNodeForGroup succeeds, persistSelection stores.                   *)
persistSelection(l) == patches' = patches \cup {[l.cur EXCEPT ![l.r.g] = l.r.p]}

executeChange(l) ==
  /\ l \in loops
  /\ now' = [now EXCEPT ![l.r.g] = l.r.p]
  /\ persistSelection(l)
  /\ Continue(l)
  /\ UNCHANGED <<stored, seen, act, last, restored, choices>>

ChangeFails(l) ==
  /\ l \in loops
  /\ Continue(l)
  /\ last' = IF last = l.r /\ slot = None THEN None ELSE last
  /\ UNCHANGED <<now, stored, seen, patches, act, restored, choices>>

(* patchCurrent({ selected }) is through, or was refused.                  *)
patchCurrent(list, accepted) ==
  /\ list \in patches
  /\ patches' = patches \ {list}
  /\ stored' = IF accepted THEN list ELSE stored
  /\ UNCHANGED <<now, seen, slot, loops, act, last, restored, choices>>

mutateProfiles ==
  /\ seen # stored
  /\ seen' = stored
  /\ UNCHANGED <<now, stored, slot, loops, patches, act, last, restored, choices>>

-------------------------------------------------------------------------------
(* The core has loaded the profile again: its groups start anywhere.       *)
CoreLoads ==
  /\ ~act.on /\ loops = {} /\ choices < MaxChoices
  /\ now' \in [Groups -> Proxies] /\ \A g \in Groups : now'[g] \in Available[g]
  /\ last' = None /\ restored' = NoList
  /\ act' = IF seen = NoList THEN NoAct
            ELSE [on |-> TRUE, left |-> Groups, saved |-> seen, new |-> NoList, change |-> FALSE, alone |-> TRUE]
  /\ choices' = choices + 1
  /\ UNCHANGED <<stored, seen, slot, loops, patches>>

(* One turn of activateSelected's loop, on a group whose `now` it read     *)
(* when it began: a saved node that is gone is given up, one that is not   *)
(* chosen is chosen (a failure is logged and stored as if it were).        *)
Turn(g, new, change) ==
  act' = [act EXCEPT !.left = @ \ {g}, !.new[g] = new, !.change = @ \/ change]

BugSkip(g) ==
  /\ g \in act.left /\ Turn(g, now[g], FALSE)
  /\ UNCHANGED <<now, stored, seen, slot, loops, patches, last, restored, choices>>

Skip(g) ==
  /\ g \in act.left
  /\ LET saved == act.saved[g]
     IN  \/ saved = Nil /\ Turn(g, now[g], FALSE)
         \/ saved # Nil /\ saved \notin Available[g] /\ Turn(g, now[g], TRUE)
         \/ saved = now[g] /\ Turn(g, saved, FALSE)
  /\ UNCHANGED <<now, stored, seen, slot, loops, patches, last, restored, choices>>

Select(g) ==
  /\ g \in act.left /\ act.saved[g] \in Available[g] /\ act.saved[g] # now[g]
  /\ \/ /\ Turn(g, act.saved[g], TRUE)
        /\ now' = [now EXCEPT ![g] = act.saved[g]]
        /\ last' = IF last.g = g THEN None ELSE last
     \/ /\ act' = [act EXCEPT !.left = @ \ {g}, !.new[g] = act.saved[g], !.change = TRUE, !.alone = FALSE]
        /\ UNCHANGED <<now, last>>
  /\ UNCHANGED <<stored, seen, slot, loops, patches, restored, choices>>

activateSelected ==
  /\ act.on /\ act.left = {}
  /\ patches' = IF act.change THEN patches \cup {act.new} ELSE patches
  /\ restored' = IF act.alone THEN act.saved ELSE NoList
  /\ act' = NoAct
  /\ UNCHANGED <<now, stored, seen, slot, loops, last, choices>>

Next ==
  \/ \E g \in Groups, p \in Proxies : changeProxy(g, p)
  \/ \E l \in loops : executeChange(l) \/ ChangeFails(l)
  \/ mutateProfiles
  \/ \E l \in patches, accepted \in BOOLEAN : patchCurrent(l, accepted)
  \/ CoreLoads \/ activateSelected
  \/ \E g \in Groups : Skip(g) \/ Select(g)

Spec == Init /\ [][Next]_vars

-------------------------------------------------------------------------------
(* Once the queue is empty the last choice is in force, whatever came      *)
(* before it, unless the core refused it or activateSelected chose for     *)
(* that group afterwards.                                                  *)
LastChoiceWins ==
  slot = None /\ loops = {} /\ last # None => now[last.g] = last.p

(* After activateSelected, undisturbed, every group whose saved node still *)
(* exists runs it.                                                         *)
SelectionRestored ==
  \A g \in Groups : restored[g] \in Available[g] => now[g] = restored[g]
===============================================================================
