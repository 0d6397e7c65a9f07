------------------------------- MODULE VergePatch -------------------------------
(***************************************************************************)
(* Changes of the application's settings: patch_verge                      *)
(* (src/src-tauri/src/feat/config.rs) over the settings' Draft, with the   *)
(* effect that has a state of its own, the system proxy and its guard      *)
(* (src/src-tauri/src/core/sysopt.rs), the save of the file, and what      *)
(* quitting makes of both (src/src-tauri/src/feat/window.rs).  Several     *)
(* patches run at once; nothing orders them but the lock of update_sysproxy.*)
(*                                                                         *)
(* The other effects (core, hotkeys, tray, logger) succeed or fail.  Host, *)
(* port and bypass are left out; nobody else changes the system's proxy.   *)
(***************************************************************************)
EXTENDS Naturals, Sequences

CONSTANTS Calls, Patches,  \* calls that run at once, changes they make: functions on some Settings
          Stored,          \* what verge.yaml may say at the start, as such a change of the default
          SaveFlags,       \* what ~not_save_file may be
          MaxPatches       \* bound on calls

Settings == {"tun", "proxy", "pac", "guard", "hotkey", "cards"}

VARIABLES committed, draft,   \* DraftData of Config::verge(); <<>> is no draft
          file,               \* verge.yaml
          pc, patch, saves,   \* of each call: where it is, its patch, ~not_save_file
          data,               \* of each call: what data_arc() gave it to save
          lock,               \* the call that holds update_lock, or "free"
          steps,              \* of each call: what update_sysproxy has left to do, <<step, enable>>
          guard,              \* GuardMonitor: its GuardType, and whether it runs
          wants,              \* of each call: what refresh_guard has read, whether the guard is to run
          os,                 \* the system: global proxy, automatic proxy
          quitting,           \* how far quit() is
          by, done,           \* history: of each setting, the call that edited it last, and what
                              \* that call made of it once it has succeeded
          dirty, crossed,     \* history: a change was refused since the last update; an update
                              \* was under way when the user quit
          lag,                \* history: a save failed, was left out or crossed another one
          raced,              \* history: two refreshes of the guard met that had read different settings
          count

draftVars == <<committed, draft>>
callVars == <<pc, patch, saves>>
proxyVars == <<lock, steps, guard, os>>
refreshVars == <<wants, raced>>
history == <<by, done, dirty, crossed, lag>>
vars == <<draftVars, file, callVars, data, proxyVars, refreshVars, quitting, history, count>>

Latest == IF draft = <<>> THEN committed ELSE draft[1]
Patched(cfg, p) == [s \in Settings |-> IF s \in DOMAIN p THEN p[s] ELSE cfg[s]]
SysProxy(cfg) == cfg["proxy"] /\ ~cfg["pac"]
AutoProxy(cfg) == cfg["proxy"] /\ cfg["pac"]
Default == [s \in Settings |-> FALSE]

(* What update_sysproxy makes of the settings.                             *)
GuardType(cfg) ==
  IF ~cfg["guard"] \/ ~cfg["proxy"] THEN "none" ELSE IF cfg["pac"] THEN "auto" ELSE "sys"
Guarded(cfg) == cfg["proxy"] /\ cfg["guard"]
Wanted(cfg) == [sys |-> SysProxy(cfg), auto |-> AutoProxy(cfg)]

(* init_system_proxy and init_system_proxy_guard are over.                *)
Init ==
  /\ committed \in {Patched(Default, p) : p \in Stored} /\ draft = <<>> /\ file = committed
  /\ pc = [c \in Calls |-> "idle"] /\ patch = [c \in Calls |-> <<>>]
  /\ saves = [c \in Calls |-> TRUE] /\ data = [c \in Calls |-> Default]
  /\ lock = "free" /\ steps = [c \in Calls |-> <<>>]
  /\ guard = [type |-> GuardType(committed), running |-> Guarded(committed)] /\ os = Wanted(committed)
  /\ quitting = "no"
  /\ by = [s \in Settings |-> "none"] /\ done = [s \in Settings |-> {}]
  /\ dirty = FALSE /\ crossed = FALSE /\ lag = FALSE /\ count = 0
  /\ wants = [c \in Calls |-> FALSE] /\ raced = FALSE

-------------------------------------------------------------------------------
(* determine_update_flags, the flags that matter here.                     *)
Has(c, S) == S \cap DOMAIN patch[c] # {}
SYS_PROXY(c) == Has(c, {"proxy", "pac", "guard"})

(* A call goes on; one that is over forgets what it was about.             *)
Goes(c, where) ==
  /\ quitting # "done"
  /\ pc' = [pc EXCEPT ![c] = where]
  /\ IF where = "idle" THEN patch' = [patch EXCEPT ![c] = <<>>] /\ saves' = [saves EXCEPT ![c] = TRUE]
     ELSE UNCHANGED <<patch, saves>>

(* The `?` of the plain block returns from patch_verge: the discard after  *)
(* the block is not reached.                                               *)
BugRefused(c) == Goes(c, "idle") /\ dirty' = TRUE /\ draft' = <<>> /\ UNCHANGED committed
Refused(c) == Goes(c, "idle") /\ dirty' = TRUE /\ UNCHANGED draftVars

Edited(c, S) ==
  /\ by' = [s \in Settings |-> IF s \in S THEN c ELSE by[s]]
  /\ done' = [s \in Settings |-> IF s \in S THEN {} ELSE done[s]]

patch_verge(c, p, save) ==
  /\ pc[c] = "idle" /\ count < MaxPatches /\ quitting = "no"
  /\ count' = count + 1
  /\ draft' = <<Patched(Latest, p)>>
  /\ pc' = [pc EXCEPT ![c] = "core"] /\ patch' = [patch EXCEPT ![c] = p]
  /\ saves' = [saves EXCEPT ![c] = save]
  /\ Edited(c, DOMAIN p)
  /\ UNCHANGED <<committed, file, data, proxyVars, refreshVars, quitting, dirty, crossed, lag>>

(* save_webdav_config edits and applies at once, whatever else is in the   *)
(* draft, and saves.                                                       *)
save_webdav_config(c) ==
  /\ pc[c] = "idle" /\ count < MaxPatches /\ quitting = "no"
  /\ count' = count + 1
  /\ committed' = Latest /\ draft' = <<>>
  /\ Goes(c, "save")
  /\ UNCHANGED <<file, data, proxyVars, refreshVars, quitting, history>>

(* process_terminated_flags, in its order.  The core: RESTART_CORE and     *)
(* CLASH_CONFIG.                                                           *)
CoreDone(c) ==
  /\ pc[c] = "core" /\ Goes(c, "verge")
  /\ UNCHANGED <<draftVars, file, data, proxyVars, refreshVars, quitting, history, count>>

CoreFails(c) ==
  /\ pc[c] = "core" /\ Has(c, {"tun"})
  /\ Refused(c)
  /\ UNCHANGED <<file, data, proxyVars, refreshVars, quitting, by, done, crossed, lag, count>>

(* VERGE_CONFIG stores the patch's enable_global_hotkey, also when it has  *)
(* none, as the patch of the home page's cards: None is the default.       *)
EnableGlobalHotkey(c) ==
  /\ pc[c] = "verge"
  /\ IF Has(c, {"hotkey", "cards"})
     THEN /\ draft' = <<[Latest EXCEPT !["hotkey"] =
                           IF Has(c, {"hotkey"}) THEN patch[c]["hotkey"] ELSE FALSE]>>
          /\ Edited(IF Has(c, {"hotkey"}) THEN c ELSE "none", {"hotkey"})
     ELSE UNCHANGED <<draft, by, done>>
  /\ Goes(c, IF SYS_PROXY(c) THEN "lock" ELSE "rest")
  /\ UNCHANGED <<committed, file, data, proxyVars, refreshVars, quitting, dirty, crossed, lag, count>>

-------------------------------------------------------------------------------
(* The system proxy.                                                       *)
(* proxy_apply_steps: what is switched off goes first.                     *)
ApplySteps(cfg) ==
  IF SysProxy(cfg) THEN <<<<"auto", FALSE>>, <<"sys", TRUE>>>>
  ELSE <<<<"sys", FALSE>>, <<"auto", AutoProxy(cfg)>>>>

BugUpdate(c) ==
  /\ pc[c] = "lock"
  /\ lock' = c /\ Goes(c, "apply")
  /\ guard' = [guard EXCEPT !.type = GuardType(Latest)]
  /\ steps' = [steps EXCEPT ![c] = ApplySteps(Latest)]
  /\ dirty' = FALSE
  /\ UNCHANGED <<draftVars, file, data, os, refreshVars, quitting, by, done, crossed, lag, count>>

BugUpdateCommitted(c) ==
  /\ pc[c] = "lock" /\ lock = "free"
  /\ lock' = c /\ Goes(c, "apply")
  /\ guard' = [guard EXCEPT !.type = GuardType(committed)]
  /\ steps' = [steps EXCEPT ![c] = ApplySteps(committed)]
  /\ dirty' = FALSE
  /\ UNCHANGED <<draftVars, file, data, os, refreshVars, quitting, by, done, crossed, lag, count>>

update_sysproxy(c) ==
  /\ pc[c] = "lock" /\ lock = "free"
  /\ lock' = c /\ Goes(c, "apply")
  /\ guard' = [guard EXCEPT !.type = GuardType(Latest)]
  /\ steps' = [steps EXCEPT ![c] = ApplySteps(Latest)]
  /\ dirty' = FALSE
  /\ UNCHANGED <<draftVars, file, data, os, refreshVars, quitting, by, done, crossed, lag, count>>

SetProxy(c) ==
  /\ pc[c] = "apply" /\ quitting # "done"
  /\ os' = [os EXCEPT ![steps[c][1][1]] = steps[c][1][2]]
  /\ steps' = [steps EXCEPT ![c] = Tail(@)]
  /\ IF Len(steps[c]) = 1 THEN lock' = "free" /\ Goes(c, "refresh")
     ELSE UNCHANGED <<lock, callVars>>
  /\ UNCHANGED <<draftVars, file, data, guard, refreshVars, quitting, history, count>>

SetProxyFails(c) ==
  /\ pc[c] = "apply" /\ lock' = "free" /\ steps' = [steps EXCEPT ![c] = <<>>]
  /\ Refused(c)
  /\ UNCHANGED <<file, data, guard, os, refreshVars, quitting, by, done, crossed, lag, count>>

(* refresh_guard reads the settings, and starts or stops the guard by what *)
(* it has read: outside the lock of update_sysproxy, beside other calls.   *)
BugRefresh(c) ==
  /\ pc[c] = "refresh" /\ Goes(c, "guard")
  /\ wants' = [wants EXCEPT ![c] = Guarded(committed)]
  /\ raced' = (\E d \in Calls : pc[d] = "guard" /\ wants[d] # Guarded(committed))
  /\ UNCHANGED <<draftVars, file, data, proxyVars, quitting, history, count>>

refresh_guard(c) ==
  /\ pc[c] = "refresh" /\ Goes(c, "guard")
  /\ wants' = [wants EXCEPT ![c] = Guarded(Latest)]
  /\ raced' = (\E d \in Calls : pc[d] = "guard" /\ wants[d] # Guarded(Latest))
  /\ UNCHANGED <<draftVars, file, data, proxyVars, quitting, history, count>>

StartOrStop(c) ==
  /\ pc[c] = "guard" /\ Goes(c, "rest")
  /\ guard' = [guard EXCEPT !.running = wants[c]]
  /\ wants' = [wants EXCEPT ![c] = FALSE]
  /\ UNCHANGED <<draftVars, file, data, lock, steps, os, raced, quitting, history, count>>

(* The guard's thread puts back what it was given.                         *)
GuardActs ==
  /\ guard.running /\ guard.type # "none" /\ quitting # "done"
  /\ os' = [os EXCEPT ![guard.type] = TRUE]
  /\ UNCHANGED <<draftVars, file, callVars, data, lock, steps, guard, refreshVars, quitting, history, count>>

-------------------------------------------------------------------------------
(* Hotkeys, tray, logger; then the draft is applied and saved.             *)
RestFails(c) ==
  /\ pc[c] = "rest" /\ Has(c, {"proxy", "tun"})
  /\ Refused(c)
  /\ UNCHANGED <<file, data, proxyVars, refreshVars, quitting, by, done, crossed, lag, count>>

(* The change has succeeded with apply().                                  *)
Succeeded(c) ==
  /\ done' = [s \in Settings |-> IF s \in DOMAIN patch[c] /\ by[s] = c THEN {patch[c][s]} ELSE done[s]]
  /\ UNCHANGED by

BugApply(c) ==
  /\ pc[c] = "rest"
  /\ Goes(c, IF saves[c] THEN "write" ELSE "idle")
  /\ data' = [data EXCEPT ![c] = committed]
  /\ committed' = Latest /\ draft' = <<>>
  /\ Succeeded(c)
  /\ lag' = (~saves[c] \/ \E d \in Calls : pc[d] = "write")
  /\ UNCHANGED <<file, proxyVars, refreshVars, quitting, dirty, crossed, count>>

Apply(c) ==
  /\ pc[c] = "rest"
  /\ Goes(c, IF saves[c] THEN "save" ELSE "idle")
  /\ committed' = Latest /\ draft' = <<>>
  /\ Succeeded(c)
  /\ lag' = (lag \/ ~saves[c])
  /\ UNCHANGED <<file, data, proxyVars, refreshVars, quitting, dirty, crossed, count>>

DataArc(c) ==
  /\ pc[c] = "save" /\ Goes(c, "write")
  /\ data' = [data EXCEPT ![c] = committed]
  /\ lag' = (\E d \in Calls \ {c} : pc[d] = "write")
  /\ UNCHANGED <<draftVars, file, proxyVars, refreshVars, quitting, by, done, dirty, crossed, count>>

SaveFile(c) ==
  /\ pc[c] = "write" /\ Goes(c, "idle")
  /\ file' = data[c]
  /\ UNCHANGED <<draftVars, data, proxyVars, refreshVars, quitting, history, count>>

SaveFails(c) ==
  /\ pc[c] = "write" /\ Goes(c, "idle")
  /\ lag' = TRUE
  /\ UNCHANGED <<draftVars, file, data, proxyVars, refreshVars, quitting, by, done, dirty, crossed, count>>

-------------------------------------------------------------------------------
(* quit: everything is applied and saved, then the proxy is reset unless   *)
(* the settings say it is off.  No call begins any more; those under way   *)
(* go on until the process is gone.                                        *)
quit ==
  /\ quitting = "no" /\ quitting' = "save"
  /\ committed' = Latest /\ draft' = <<>>
  /\ crossed' = (\E c \in Calls : SYS_PROXY(c))
  /\ UNCHANGED <<file, callVars, data, proxyVars, refreshVars, by, done, dirty, lag, count>>

QuitSaves ==
  /\ quitting = "save" /\ quitting' = "clean"
  /\ file' = committed /\ lag' = (\E c \in Calls : pc[c] = "write")
  /\ UNCHANGED <<draftVars, callVars, data, proxyVars, refreshVars, by, done, dirty, crossed, count>>

BugReset ==
  /\ quitting = "clean"
  /\ IF committed["proxy"] THEN quitting' = "sys" ELSE quitting' = "done"
  /\ UNCHANGED <<draftVars, file, callVars, data, proxyVars, refreshVars, history, count>>

reset_sysproxy ==
  /\ quitting = "clean"
  /\ IF committed["proxy"] THEN quitting' = "sys" /\ guard' = [guard EXCEPT !.type = "none"]
     ELSE quitting' = "done" /\ UNCHANGED guard
  /\ UNCHANGED <<draftVars, file, callVars, data, lock, steps, os, refreshVars, history, count>>

ResetStep ==
  /\ quitting \in {"sys", "auto"}
  /\ os' = [os EXCEPT ![quitting] = FALSE]
  /\ quitting' = IF quitting = "sys" THEN "auto" ELSE "done"
  /\ UNCHANGED <<draftVars, file, callVars, data, lock, steps, guard, refreshVars, history, count>>

(* A step fails, or the timeout passes first.                              *)
ResetFails ==
  /\ quitting \in {"sys", "auto"} /\ quitting' = "done" /\ dirty' = TRUE
  /\ UNCHANGED <<draftVars, file, callVars, data, proxyVars, refreshVars, by, done, crossed, lag, count>>

Next ==
  \/ \E c \in Calls :
       \/ \E p \in Patches, save \in SaveFlags : patch_verge(c, p, save)
       \/ save_webdav_config(c)
       \/ CoreDone(c) \/ CoreFails(c) \/ EnableGlobalHotkey(c)
       \/ update_sysproxy(c) \/ SetProxy(c) \/ SetProxyFails(c) \/ refresh_guard(c) \/ StartOrStop(c)
       \/ RestFails(c) \/ Apply(c) \/ DataArc(c) \/ SaveFile(c) \/ SaveFails(c)
  \/ GuardActs \/ quit \/ QuitSaves \/ reset_sysproxy \/ ResetStep \/ ResetFails

Spec == Init /\ [][Next]_vars

-------------------------------------------------------------------------------
(* What a call has changed and nobody since stays, though others are       *)
(* refused meanwhile: no call takes another's change back with its own.    *)
AcceptedIsCommitted == \A s \in Settings : done[s] \subseteq {committed[s]}

Quiet == \A c \in Calls : pc[c] = "idle"

(* Once no call is under way and none was refused since, the system's      *)
(* proxy and the guard are as the settings say; the guard runs or not by   *)
(* the settings unless two refreshes met that had read different ones.     *)
SystemFollows ==
  Quiet /\ quitting = "no" /\ ~dirty =>
    /\ os = Wanted(Latest) /\ guard.type = GuardType(Latest)
    /\ ~raced => guard.running = Guarded(Latest)

(* And the file holds the settings, unless a save was left out, failed or  *)
(* crossed another one.                                                    *)
FileFollows == Quiet /\ quitting \notin {"save", "done"} /\ ~lag => file = committed

(* The application leaves no proxy behind, unless a change of it was under *)
(* way or had been refused.                                                *)
OffAfterQuit == quitting = "done" /\ ~dirty /\ ~crossed => os = [sys |-> FALSE, auto |-> FALSE]
===============================================================================
