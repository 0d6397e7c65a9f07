-------------------------- MODULE SystemProxySettings --------------------------
(***************************************************************************)
(* The switch of the system proxy                                          *)
(* (src/src/hooks/use-system-proxy-state.ts), its dialog                   *)
(* (src/src/components/setting/mods/sysproxy-viewer.tsx) and the cache of  *)
(* the settings behind both (src/src/hooks/use-verge.ts).                  *)
(*                                                                         *)
(* Clicks on the switch are sent one at a time, the last one last.  A save *)
(* of the dialog and a change of the mixed port reset a proxy that is on:  *)
(* they look, turn it off, wait, and turn it on again, on their own.       *)
(***************************************************************************)
EXTENDS Naturals, FiniteSets

CONSTANTS Hosts,      \* values of the other settings of the dialog
          MaxSteps    \* bound on clicks, saves and changes of the port

VARIABLES stored,    \* the backend: enable, host
          cached,    \* what the frontend shows of it
          fetching,  \* a refetch is due (patchVerge's, or the backend's event)
          pending,   \* pendingRef
          sending,   \* busyRef: the value being sent, or Nil
          open, value,
          save,      \* running save: stage, patch
          resets,    \* running resets: id, stage
          last,      \* last click, while no reset crosses it and none was refused
          refused,   \* a patch was refused and nothing was fetched since
          steps

vars == <<stored, cached, fetching, pending, sending, open, value, save, resets, last, refused, steps>>

Nil == "none"
On == {"on", "off"}
NoSave == [stage |-> Nil, host |-> Nil, reset |-> FALSE]

Init ==
  /\ stored \in [enable : On, host : Hosts] /\ cached = stored /\ fetching = FALSE
  /\ pending = Nil /\ sending = Nil /\ open = FALSE /\ value = Nil /\ save = NoSave
  /\ resets = {} /\ last = Nil /\ refused = FALSE /\ steps = 0

Step == steps < MaxSteps /\ steps' = steps + 1

-------------------------------------------------------------------------------
(* A click: shown at once; sent now, or after what is being sent.          *)
BugToggleSystemProxy(v) ==
  /\ Step /\ cached' = [cached EXCEPT !.enable = v]
  /\ IF sending # Nil THEN UNCHANGED <<pending, sending>> ELSE sending' = v /\ UNCHANGED pending
  /\ last' = IF resets = {} THEN v ELSE Nil
  /\ UNCHANGED <<stored, fetching, open, value, save, resets, refused>>

toggleSystemProxy(v) ==
  /\ Step
  /\ cached' = [cached EXCEPT !.enable = v]
  /\ IF sending = Nil THEN sending' = v /\ pending' = Nil
     ELSE pending' = v /\ UNCHANGED sending
  /\ last' = IF resets = {} THEN v ELSE Nil
  /\ UNCHANGED <<stored, fetching, open, value, save, resets, refused>>

(* patchVerge is through: the settings are fetched, the next is sent.      *)
Sent ==
  /\ sending # Nil
  /\ stored' = [stored EXCEPT !.enable = sending]
  /\ sending' = pending /\ pending' = Nil
  /\ fetching' = TRUE
  /\ UNCHANGED <<cached, open, value, save, resets, last, refused, steps>>

(* It is refused: the loop ends, what is pending stays until a next click. *)
SendFails ==
  /\ sending # Nil
  /\ sending' = Nil /\ last' = Nil /\ refused' = TRUE
  /\ UNCHANGED <<stored, cached, fetching, pending, open, value, save, resets, steps>>

BugRefetch ==
  /\ fetching /\ fetching' = FALSE
  /\ refused' = FALSE
  /\ UNCHANGED <<stored, cached, pending, sending, open, value, save, resets, last, steps>>

refetch ==
  /\ fetching /\ fetching' = FALSE
  /\ cached' = stored /\ refused' = FALSE
  /\ UNCHANGED <<stored, pending, sending, open, value, save, resets, last, steps>>

-------------------------------------------------------------------------------
(* The dialog: its value is that of the opening.                           *)
Open ==
  /\ ~open /\ save = NoSave /\ open' = TRUE /\ value' = cached.host
  /\ UNCHANGED <<stored, cached, fetching, pending, sending, save, resets, last, refused, steps>>

Edit(h) ==
  /\ open /\ value # h /\ value' = h
  /\ UNCHANGED <<stored, cached, fetching, pending, sending, open, save, resets, last, refused, steps>>

(* Save closes the dialog, shows the patch and sends it.                   *)
onSave ==
  /\ open /\ Step /\ open' = FALSE
  /\ save' = [stage |-> "patch", host |-> value,
              reset |-> value # cached.host /\ cached.enable = "on"]
  /\ cached' = [cached EXCEPT !.host = value]
  /\ UNCHANGED <<stored, fetching, pending, sending, value, resets, last, refused>>

SavePatched ==
  /\ save.stage = "patch"
  /\ stored' = [stored EXCEPT !.host = save.host] /\ fetching' = TRUE
  /\ save' = [save EXCEPT !.stage = "timer"]
  /\ UNCHANGED <<cached, pending, sending, open, value, resets, last, refused, steps>>

SaveFails ==
  /\ save.stage = "patch" /\ save' = NoSave /\ fetching' = TRUE
  /\ UNCHANGED <<stored, cached, pending, sending, open, value, resets, last, refused, steps>>

(* A reset looks whether the proxy is on.                                  *)
BeginReset(id) ==
  /\ stored.enable = "on" /\ id \notin {r.id : r \in resets}
  /\ resets' = resets \cup {[id |-> id, stage |-> "off"]}
  /\ last' = IF sending = Nil THEN last ELSE Nil

SaveTimer ==
  /\ save.stage = "timer" /\ save' = NoSave
  /\ \/ save.reset /\ BeginReset("save")
     \/ ~(save.reset /\ stored.enable = "on") /\ UNCHANGED <<resets, last>>
  /\ UNCHANGED <<stored, cached, fetching, pending, sending, open, value, refused, steps>>

MixedPortChanges ==
  /\ Step /\ cached.enable = "on" /\ BeginReset("port")
  /\ UNCHANGED <<stored, cached, fetching, pending, sending, open, value, save, refused>>

BugResetStep(r) ==
  /\ r \in resets
  /\ stored' = [stored EXCEPT !.enable = "off"]
  /\ resets' = resets \ {r}
  /\ fetching' = TRUE
  /\ UNCHANGED <<cached, pending, sending, open, value, save, last, refused, steps>>

ResetStep(r) ==
  /\ r \in resets
  /\ IF r.stage = "off"
     THEN stored' = [stored EXCEPT !.enable = "off"] /\ resets' = (resets \ {r}) \cup {[r EXCEPT !.stage = "on"]}
     ELSE stored' = [stored EXCEPT !.enable = "on"] /\ resets' = resets \ {r}
  /\ fetching' = TRUE
  /\ UNCHANGED <<cached, pending, sending, open, value, save, last, refused, steps>>

(* Either half may be refused: the proxy stays as it is then.              *)
ResetFails(r) ==
  /\ r \in resets /\ resets' = resets \ {r} /\ last' = Nil
  /\ UNCHANGED <<stored, cached, fetching, pending, sending, open, value, save, refused, steps>>

Next ==
  \/ \E v \in On : toggleSystemProxy(v)
  \/ Sent \/ SendFails \/ refetch \/ Open \/ onSave \/ SavePatched \/ SaveFails \/ SaveTimer \/ MixedPortChanges
  \/ \E h \in Hosts : Edit(h)
  \/ \E r \in resets : ResetStep(r) \/ ResetFails(r)

Spec == Init /\ [][Next]_vars

-------------------------------------------------------------------------------
(* After any number of quick clicks the proxy is as the last one wants it, *)
(* also when it was reset before or after them.                            *)
LastClickWins == sending = Nil /\ resets = {} /\ last # Nil => stored.enable = last

(* The switch shows what is stored once nothing is under way, unless a     *)
(* change was refused.                                                     *)
ShownIsStored ==
  sending = Nil /\ ~fetching /\ save.stage # "patch" /\ ~refused => cached = stored
===============================================================================
