--------------------------- MODULE CurrentProxyCard ---------------------------
(***************************************************************************)
(* The card of the home page that shows the group and node in use          *)
(* (src/src/components/home/current-proxy-card.tsx): which group it shows  *)
(* per profile, the node it shows at once after a choice (300 ms later)    *)
(* and after each fetch of the proxies, and the chain of timers that tests *)
(* the shown node now and then.                                            *)
(*                                                                         *)
(* The profile the card knows and the proxies it has are fetched apart, so *)
(* that one may be that of the old profile and the other of the new.       *)
(***************************************************************************)
EXTENDS Naturals, Sequences, SequencesExt, FiniteSets

CONSTANTS GroupsOf,   \* profile -> sequence of its groups, the policy of MATCH first
          Nodes,      \* every group has all nodes
          MaxChoices  \* bound on choices

VARIABLES mode,       \* clashConfig.mode: "rule", "global" or "direct"
          running,    \* the profile the core runs
          now,        \* the core: group (GLOBAL too) -> node
          profile,    \* currentProfileId of the card
          data,       \* the proxies as fetched: their groups and nodes
          sel,        \* state.selection
          saved,      \* localStorage: profile -> group
          deb,        \* timeoutRef: the node that will be shown
          asked,      \* the choice the core has not answered yet
          odd,        \* the node was set by the timer after its choice failed or
                      \* after the group was changed
          effect,     \* the effects of the automatic test: 1 is in force, 2 is an old one
          busy,       \* autoCheckInProgressRef: the effect that tests, 0: none
          choices

vars == <<mode, running, now, profile, data, sel, saved, deb, asked, odd, effect, busy, choices>>
card == <<profile, data, sel, saved>>

Nil == "none"
Profiles == DOMAIN GroupsOf
Modes == {"rule", "global", "direct"}
Groups == (UNION {ToSet(GroupsOf[p]) : p \in Profiles}) \cup {"GLOBAL"}
NoChoice == [g |-> Nil, p |-> Nil]

NowOf(d, g) == IF g = "DIRECT" THEN "DIRECT" ELSE d.now[g]

-------------------------------------------------------------------------------
(* readProfileScopedItem, else getPrimaryGroupName.                        *)
InitialGroup(m, p, d) ==
  CASE m = "global" -> "GLOBAL"
    [] m = "direct" -> "DIRECT"
    [] OTHER -> IF saved[p] # Nil THEN saved[p] ELSE d.groups[1]

BugShown(m, p, d, g) ==
  <<IF m = "rule" /\ g \in ToSet(d.groups) /\ sel.g = g THEN sel
    ELSE [g |-> g, p |-> IF g \in ToSet(d.groups) \cup {"GLOBAL"} THEN d.now[g] ELSE "DIRECT"], saved>>

(* The effect on the proxies: the node of the group, or, when the proxies  *)
(* have no such group, the first group, which becomes the saved one.       *)
Shown(m, p, d, g) ==
  IF m # "rule" \/ g \in ToSet(d.groups)
  THEN <<[g |-> g, p |-> NowOf(d, g)], saved>>
  ELSE <<[g |-> d.groups[1], p |-> d.now[d.groups[1]]], [saved EXCEPT ![p] = d.groups[1]]>>

(* Both effects after a change of the mode, the profile or the proxies.    *)
Effects(m, p, d) ==
  LET r == Shown(m, p, d, InitialGroup(m, p, d))
  IN  /\ sel' = r[1] /\ saved' = r[2]
      /\ mode' = m /\ profile' = p /\ data' = d
      /\ odd' = FALSE

(* The effect of the automatic test depends on the selection: a new one    *)
(* disposes of the old.  One whose test runs goes on as an old one.        *)
NewEffect ==
  effect' = <<IF sel'.p # "DIRECT" THEN "initial" ELSE "off",
              IF effect[1] = "runs" THEN "runs" ELSE effect[2]>>

Reeffect ==
  IF sel' = sel THEN UNCHANGED <<effect, busy>>
  ELSE /\ NewEffect
       /\ busy' = IF busy = 1 THEN 2 ELSE busy
       /\ ~(effect[1] = "runs" /\ effect[2] = "runs")

Fetched == [groups |-> GroupsOf[running], now |-> now]

Init ==
  /\ mode \in Modes
  /\ running \in Profiles /\ now \in [Groups -> Nodes]
  /\ profile = running /\ data = Fetched
  /\ sel = [g |-> IF mode = "rule" THEN GroupsOf[running][1] ELSE IF mode = "global" THEN "GLOBAL" ELSE "DIRECT",
            p |-> IF mode = "direct" THEN "DIRECT"
                  ELSE now[IF mode = "global" THEN "GLOBAL" ELSE GroupsOf[running][1]]]
  /\ saved = [p \in Profiles |-> Nil]
  /\ deb = Nil /\ asked = NoChoice /\ odd = FALSE
  /\ effect = <<IF mode = "direct" THEN "off" ELSE "initial", "off">> /\ busy = 0 /\ choices = 0

(* refreshProxy and the polling of the proxies.                            *)
ProxiesChange ==
  /\ data # Fetched
  /\ Effects(mode, profile, Fetched) /\ Reeffect
  /\ UNCHANGED <<running, now, deb, asked, choices>>

ProfileChanges ==
  /\ profile # running
  /\ Effects(mode, running, data) /\ Reeffect
  /\ UNCHANGED <<running, now, deb, asked, choices>>

ModeChanges(m) ==
  /\ m # mode /\ choices < MaxChoices /\ choices' = choices + 1
  /\ Effects(m, profile, data) /\ Reeffect
  /\ UNCHANGED <<running, now, deb, asked>>

(* Elsewhere: another profile is loaded, another page chooses a node.      *)
Elsewhere ==
  /\ choices < MaxChoices /\ choices' = choices + 1
  /\ \/ running' \in Profiles \ {running} /\ UNCHANGED now
     \/ \E g \in Groups, n \in Nodes : n # now[g] /\ now' = [now EXCEPT ![g] = n] /\ UNCHANGED running
  /\ UNCHANGED <<mode, profile, data, sel, saved, deb, asked, odd, effect, busy>>

-------------------------------------------------------------------------------
handleGroupChange(g) ==
  /\ mode = "rule" /\ g \in ToSet(data.groups) /\ g # sel.g
  /\ saved' = [saved EXCEPT ![profile] = g]
  /\ sel' = [g |-> g, p |-> data.now[g]]
  /\ odd' = FALSE
  /\ Reeffect
  /\ UNCHANGED <<mode, running, now, profile, data, deb, asked, choices>>

(* The choice goes to the core (handleSelectChange); the timer of an       *)
(* earlier one is cleared.                                                 *)
handleProxyChange(n) ==
  /\ mode # "direct" /\ asked = NoChoice /\ choices < MaxChoices
  /\ deb' = n
  /\ asked' = [g |-> sel.g, p |-> n]
  /\ choices' = choices + 1
  /\ UNCHANGED <<mode, running, now, odd, effect, busy>> /\ UNCHANGED card

debouncedSetState ==
  /\ deb # Nil
  /\ deb' = Nil
  /\ sel' = [sel EXCEPT !.p = deb]
  /\ odd' = (odd \/ deb # NowOf(data, sel.g))
  /\ Reeffect
  /\ UNCHANGED <<mode, running, now, profile, data, saved, asked, choices>>

(* The core has the choice, or refuses it; onSuccess and onError fetch.    *)
Answered(ok) ==
  /\ asked # NoChoice
  /\ asked' = NoChoice
  /\ now' = IF ok /\ asked.g \in Groups THEN [now EXCEPT ![asked.g] = asked.p] ELSE now
  /\ UNCHANGED <<mode, running, deb, odd, effect, busy, choices>> /\ UNCHANGED card

-------------------------------------------------------------------------------
(* checkCurrentProxyDelay of effect e: by its first timer or a later one;  *)
(* while another test runs it is skipped and the next timer set.           *)
checkCurrentProxyDelay(e) ==
  /\ effect[e] \in {"initial", "interval"}
  /\ IF busy # 0 THEN effect' = [effect EXCEPT ![e] = "interval"] /\ UNCHANGED busy
     ELSE effect' = [effect EXCEPT ![e] = "runs"] /\ busy' = e
  /\ UNCHANGED <<mode, running, now, deb, asked, odd, choices>> /\ UNCHANGED card

BugRunAndSchedule(e) ==
  /\ effect[e] = "runs" /\ busy = e
  /\ busy' = 0
  /\ effect' = [effect EXCEPT ![e] = "interval"]
  /\ UNCHANGED <<mode, running, now, deb, asked, odd, choices>> /\ UNCHANGED card

(* The test ends; an effect that was disposed of meanwhile sets no timer.  *)
runAndSchedule(e) ==
  /\ effect[e] = "runs" /\ busy = e
  /\ busy' = 0
  /\ effect' = [effect EXCEPT ![e] = IF e = 1 THEN "interval" ELSE "off"]
  /\ UNCHANGED <<mode, running, now, deb, asked, odd, choices>> /\ UNCHANGED card

Next ==
  \/ ProxiesChange \/ ProfileChanges \/ Elsewhere \/ debouncedSetState
  \/ \E m \in Modes : ModeChanges(m)
  \/ \E g \in Groups : handleGroupChange(g)
  \/ \E n \in Nodes : handleProxyChange(n)
  \/ \E ok \in BOOLEAN : Answered(ok)
  \/ \E e \in {1, 2} : checkCurrentProxyDelay(e) \/ runAndSchedule(e)

(* Timers fire and tests end.                                              *)
Fairness == \A e \in {1, 2} : WF_vars(checkCurrentProxyDelay(e)) /\ WF_vars(runAndSchedule(e))

Spec == Init /\ [][Next]_vars /\ Fairness

-------------------------------------------------------------------------------
(* Unless the last thing to touch it was the timer of a choice, the card   *)
(* shows the node its group has in the proxies it was given.               *)
CardFollows == sel.p = NowOf(data, sel.g) \/ odd

(* One chain of timers: an effect that was disposed of never sets another. *)
NoOldTimer == effect[2] \in {"off", "runs"}

(* Unless the mode is direct the shown node is tested again and again.     *)
Tested == busy # 0 \/ sel.p = "DIRECT"
TestedAgain == []<>Tested
===============================================================================
