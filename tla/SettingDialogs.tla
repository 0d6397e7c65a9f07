---------------------------- MODULE SettingDialogs ----------------------------
(***************************************************************************)
(* Dialogs that edit settings of the core                                  *)
(* (src/src/components/setting/mods/): ports (clash-port-viewer.tsx),      *)
(* external controller (controller-viewer.tsx), allowed origins            *)
(* (external-controller-cors.tsx), tunnels (tunnels-viewer.tsx), TUN       *)
(* (tun-viewer.tsx), miscellaneous (misc-viewer.tsx), with the calls of    *)
(* src/src/hooks/use-clash.ts.                                             *)
(*                                                                         *)
(* Each keeps its form, checks it, and saves it to two places: the         *)
(* settings of the app and those of the core (ports at once, controller in *)
(* turn), the core's and the running core (origins), a store and its cache *)
(* (tunnels, TUN, miscellaneous).  A call to the core is dropped while the *)
(* same dialog's last one runs (useLockFn).                                *)
(***************************************************************************)
EXTENDS Naturals, FiniteSets

CONSTANTS Dialogs,    \* of those below
          Vals,
          Invalid,    \* what no dialog lets through: ports in conflict, addresses
          Refused,    \* what only the core's half refuses: ports < 1000, no address
          MaxSteps    \* bound on edits and saves

VARIABLES first, second,   \* the two places
          open, form,
          saves,           \* running saves: what is left of them, whether they met another, and are not heard
          saved,           \* value of the last save that said it succeeded
          apart,           \* dialogs whose last save failed or met another
          steps

vars == <<first, second, open, form, saves, saved, apart, steps>>

Nil == "none"

(* The dialogs: whether both places are written at once, which of the two  *)
(* is a call to the core, whether a save may meet another of the dialog,   *)
(* and whether the older one is then still heard (useRequest: it is not).  *)
PortsDialog      == [atOnce |-> TRUE,  core |-> {2}, locked |-> FALSE, heard |-> FALSE]
ControllerDialog == [atOnce |-> FALSE, core |-> {2}, locked |-> TRUE,  heard |-> TRUE]
CorsDialog       == [atOnce |-> FALSE, core |-> {1}, locked |-> FALSE, heard |-> FALSE]
TunnelsDialog    == [atOnce |-> FALSE, core |-> {1}, locked |-> FALSE, heard |-> TRUE]
TunDialog        == [atOnce |-> FALSE, core |-> {1}, locked |-> TRUE,  heard |-> TRUE]
MiscDialog       == [atOnce |-> FALSE, core |-> {},  locked |-> TRUE,  heard |-> TRUE]

Shape == [ports |-> PortsDialog, controller |-> ControllerDialog, cors |-> CorsDialog,
          tunnels |-> TunnelsDialog, tun |-> TunDialog, misc |-> MiscDialog]

Of(d) == {s \in saves : s.dialog = d}
Meets(d) == {[s EXCEPT !.met = TRUE, !.silent = s.silent \/ ~Shape[d].heard] : s \in Of(d)}

Init ==
  /\ first \in [Dialogs -> {v \in Vals : v \notin Invalid \cup Refused}]
  /\ second = first /\ saved = first
  /\ open = Nil /\ form = Nil /\ saves = {} /\ apart = {} /\ steps = 0

Step == steps < MaxSteps /\ steps' = steps + 1

-------------------------------------------------------------------------------
Open(d) ==
  /\ open = Nil /\ open' = d /\ form' = first[d]
  /\ UNCHANGED <<first, second, saves, saved, apart, steps>>

Close ==
  /\ open # Nil /\ open' = Nil /\ form' = Nil
  /\ UNCHANGED <<first, second, saves, saved, apart, steps>>

Edit(v) ==
  /\ open # Nil /\ form # v /\ Step /\ form' = v
  /\ UNCHANGED <<first, second, open, saves, saved, apart>>

(* A port in use: the ports of the opening are shown again.                *)
isPortInUse ==
  /\ open = "ports" /\ form # first["ports"] /\ form' = first["ports"]
  /\ UNCHANGED <<first, second, open, saves, saved, apart, steps>>

(* Save, with what is checked before anything is sent.                     *)
onSave ==
  /\ open # Nil /\ form \notin Invalid /\ Step
  /\ Shape[open].locked => Of(open) = {}
  /\ LET busy == {h \in Shape[open].core : \E s \in Of(open) : h \in s.todo}
     IN saves' = (saves \ Of(open)) \cup Meets(open) \cup
          {[id |-> steps, dialog |-> open, value |-> form, todo |-> {1, 2} \ busy,
            met |-> Of(open) # {}, silent |-> FALSE]}
  /\ apart' = IF Of(open) = {} THEN apart ELSE apart \cup {open}
  /\ UNCHANGED <<first, second, open, form, saved>>

-------------------------------------------------------------------------------
Left(s, h) ==
  saves' = (saves \ {s}) \cup (IF s.todo = {h} THEN {} ELSE {[s EXCEPT !.todo = @ \ {h}]})

(* The last half is through: saved, and the dialog closes.                 *)
onSuccess(s, h) ==
  IF s.todo # {h} \/ s.silent THEN UNCHANGED <<open, form, saved, apart>>
  ELSE /\ IF open = s.dialog THEN open' = Nil /\ form' = Nil ELSE UNCHANGED <<open, form>>
       /\ saved' = [saved EXCEPT ![s.dialog] = s.value]
       /\ apart' = IF s.met THEN apart \cup {s.dialog} ELSE apart \ {s.dialog}

CanDo(s, h) == s \in saves /\ h \in s.todo /\ (Shape[s.dialog].atOnce \/ h = 1 \/ 1 \notin s.todo)

BugPatch(s, h) ==
  /\ CanDo(s, h) /\ Left(s, h) /\ onSuccess(s, h)
  /\ IF h \in Shape[s.dialog].core /\ s.value \in Refused THEN UNCHANGED <<first, second>>
     ELSE IF h = 1 THEN first' = [first EXCEPT ![s.dialog] = s.value] /\ UNCHANGED second
     ELSE UNCHANGED first /\ second' = [second EXCEPT ![s.dialog] = s.value]
  /\ UNCHANGED steps

Patch(s, h) ==
  /\ CanDo(s, h) /\ ~(h \in Shape[s.dialog].core /\ s.value \in Refused)
  /\ Left(s, h) /\ onSuccess(s, h)
  /\ IF h = 1 THEN first' = [first EXCEPT ![s.dialog] = s.value] /\ UNCHANGED second
     ELSE UNCHANGED first /\ second' = [second EXCEPT ![s.dialog] = s.value]
  /\ UNCHANGED steps

(* A half fails: the save is over with an error, the dialog stays; where   *)
(* both were sent the other half still arrives.                            *)
PatchFails(s, h) ==
  /\ CanDo(s, h)
  /\ saves' = (saves \ {s}) \cup
       (IF Shape[s.dialog].atOnce /\ s.todo # {h} THEN {[s EXCEPT !.todo = @ \ {h}, !.silent = TRUE]} ELSE {})
  /\ apart' = apart \cup {s.dialog}
  /\ UNCHANGED <<first, second, open, form, saved, steps>>

Next ==
  \/ \E d \in Dialogs : Open(d)
  \/ Close \/ isPortInUse \/ onSave
  \/ \E v \in Vals : Edit(v)
  \/ \E s \in saves, h \in {1, 2} : Patch(s, h) \/ PatchFails(s, h)

Spec == Init /\ [][Next]_vars

-------------------------------------------------------------------------------
(* After a save that says it succeeded, and met no other of its dialog,    *)
(* both places hold what was saved, whatever half-done saves went before.  *)
SavedInBoth ==
  \A d \in Dialogs : Of(d) = {} /\ d \notin apart => first[d] = saved[d] /\ second[d] = saved[d]
===============================================================================
