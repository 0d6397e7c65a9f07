------------------------------ MODULE Activation ------------------------------
(***************************************************************************)
(* How this device is activated, kept in step with its seat on the server, *)
(* and protected: the credentials' file nexthubx-client.json, which the    *)
(* frontend's activation form, its periodic sync and its verification of   *)
(* the exit write independently of one another, and the guard of TUN in    *)
(* the backend, which reads it.                                            *)
(*                                                                         *)
(* A token is a number, a configuration the version the server gives it    *)
(* (its fingerprint), 0 none of them.  The managed profile is abstracted to*)
(* the version of its content; how a switch of profiles works is           *)
(* ConfigUpdate's and Profiles' matter.                                    *)
(*                                                                         *)
(* An operator named BugX is X with a plausible mistake in it: no action   *)
(* uses it, it is there to see which property notices the mistake.         *)
(***************************************************************************)
EXTENDS Naturals

CONSTANTS
  Outcomes,    \* how an import of a configuration may end
  MaxEvents    \* bound: what the administrator, user and system do

ASSUME ActivationAssumption ==
  /\ Outcomes \subseteq {"applied", "refused", "failed"}
  /\ MaxEvents \in Nat

VARIABLES
  seat, code, issued, config, \* the server: valid token, an unused code, ...
  store,                      \* nexthubx-client.json
  content, refused,           \* the managed profile; history: config was refused
  available, tun,             \* tun_available, enable_tun_mode
  sync, form, verify, guard,  \* where the four flows are
  events

server == <<seat, code, issued, config>>
profile == <<content, refused>>
vars == <<server, store, profile, available, tun, sync, form, verify, guard, events>>

Tokens == 0..(MaxEvents + 1)
Configs == 0..(MaxEvents + 1)
State == [token : Tokens, fp : Configs, setup : BOOLEAN]
Erased == [token |-> 0, fp |-> 0, setup |-> FALSE]

Syncs == [pc : {"idle", "ask", "erase", "import", "save"}, state : State, data : Configs]
Forms == [pc : {"idle", "ask", "import", "save", "verify"}, token : Tokens, data : Configs, fp : Configs]
Verifies == [pc : {"idle", "service", "connect", "probe"}, started : BOOLEAN, cur : State]
Guards == [pc : {"idle", "apply"}, should : BOOLEAN, streak : 0..1, before : BOOLEAN]

NoSync == [pc |-> "idle", state |-> Erased, data |-> 0]
NoForm == [pc |-> "idle", token |-> 0, data |-> 0, fp |-> 0]
NoVerify == [pc |-> "idle", started |-> FALSE, cur |-> Erased]
NoGuard == [pc |-> "idle", should |-> FALSE, streak |-> 0, before |-> TRUE]

Activated == store.token # 0
Should == Activated /\ available

Init ==
  /\ seat = 0 /\ code = TRUE /\ issued = 0 /\ config = 1
  /\ store = Erased /\ content = 0 /\ refused = FALSE
  /\ available \in BOOLEAN /\ tun = FALSE
  /\ sync = NoSync /\ form = NoForm /\ verify = NoVerify /\ guard = NoGuard
  /\ events = 0

-----------------------------------------------------------------------------
(* useNexthubxAutoSync.                                                    *)

SyncStart ==
  /\ sync.pc = "idle" /\ Activated
  /\ sync' = [sync EXCEPT !.pc = "ask", !.state = store]
  /\ UNCHANGED <<server, store, profile, available, tun, form, verify, guard, events>>

(* The catch of runSync and of clearClientState.                           *)
SyncFails ==
  /\ sync.pc \in {"ask", "erase", "save"}
  /\ sync' = NoSync
  /\ UNCHANGED <<server, store, profile, available, tun, form, verify, guard, events>>

(* 401 forgotten among the errors of the network.                          *)
BugSyncAnswered ==
  /\ sync.pc = "ask"
  /\ sync' = IF sync.state.token # seat \/ sync.state.fp = config THEN NoSync
             ELSE [sync EXCEPT !.pc = "import", !.data = config]
  /\ UNCHANGED <<server, store, profile, available, tun, form, verify, guard, events>>

(* 401 or revoked; 304; or what an active seat has, whose configuration is *)
(* imported if its fingerprint is another.                                 *)
SyncAnswered ==
  /\ sync.pc = "ask"
  /\ \/ /\ sync.state.token # seat
        /\ sync' = [NoSync EXCEPT !.pc = "erase"]
     \/ /\ sync.state.token = seat /\ sync.state.fp = config
        /\ sync' \in {NoSync, [sync EXCEPT !.pc = "save", !.data = config]}
     \/ /\ sync.state.token = seat /\ sync.state.fp # config
        /\ sync' = [sync EXCEPT !.pc = "import", !.data = config]
  /\ UNCHANGED <<server, store, profile, available, tun, form, verify, guard, events>>

SyncErase ==
  /\ sync.pc = "erase"
  /\ store' = Erased
  /\ sync' = NoSync
  /\ UNCHANGED <<server, profile, available, tun, form, verify, guard, events>>

(* importAndActivateProfile: the switch's ValidationOutcome is not looked  *)
(* at, so a refused configuration passes for an imported one.              *)
Import(outcome, version) ==
  /\ content' = IF outcome = "applied" THEN version ELSE content
  /\ refused' = (refused \/ (outcome = "refused" /\ version = config))

BugSyncImport ==
  /\ sync.pc = "import"
  /\ \E outcome \in Outcomes :
       /\ Import(outcome, sync.data)
       /\ sync' = [sync EXCEPT !.pc = "save"]
  /\ UNCHANGED <<server, store, available, tun, form, verify, guard, events>>

SyncImport ==
  /\ sync.pc = "import"
  /\ \E outcome \in Outcomes :
       /\ Import(outcome, sync.data)
       /\ sync' = IF outcome = "failed" THEN NoSync ELSE [sync EXCEPT !.pc = "save"]
  /\ UNCHANGED <<server, store, available, tun, form, verify, guard, events>>

(* What the sync has read before its awaits is written back.               *)
SyncSave ==
  /\ sync.pc = "save"
  /\ store' = [sync.state EXCEPT !.fp = sync.data]
  /\ sync' = NoSync
  /\ UNCHANGED <<server, profile, available, tun, form, verify, guard, events>>

-----------------------------------------------------------------------------
(* onActivate of the account card.                                         *)

FormStart ==
  /\ form.pc = "idle" /\ verify.pc = "idle" /\ code
  /\ form' = [form EXCEPT !.pc = "ask"]
  /\ UNCHANGED <<server, store, profile, available, tun, sync, verify, guard, events>>

FormFails ==
  /\ form.pc \in {"ask", "save"}
  /\ form' = NoForm
  /\ UNCHANGED <<server, store, profile, available, tun, sync, verify, guard, events>>

(* The server burns the code and issues a token; the answer may get lost.  *)
FormAnswered ==
  /\ form.pc = "ask" /\ code
  /\ code' = FALSE /\ issued' = issued + 1 /\ seat' = issued + 1
  /\ \/ form' = [form EXCEPT !.pc = "import", !.token = issued + 1, !.data = config]
     \/ form' = NoForm
  /\ UNCHANGED <<config, store, profile, available, tun, sync, verify, guard, events>>

FormImport ==
  /\ form.pc = "import"
  /\ \E outcome \in Outcomes :
       /\ Import(outcome, form.data)
       /\ form' = IF outcome = "failed" THEN NoForm
                  ELSE [form EXCEPT !.pc = "save", !.data = 0, !.fp = store.fp]
  /\ UNCHANGED <<server, store, available, tun, sync, verify, guard, events>>

(* The answer has no fingerprint: the one of the file is kept.             *)
FormSave ==
  /\ form.pc = "save"
  /\ store' = [token |-> form.token, fp |-> form.fp, setup |-> FALSE]
  /\ form' = [NoForm EXCEPT !.pc = "verify"]
  /\ UNCHANGED <<server, profile, available, tun, sync, verify, guard, events>>

(* Whether the service is there is asked after the file is written.        *)
FormVerify ==
  /\ form.pc = "verify"
  /\ form' = NoForm
  /\ verify' = [verify EXCEPT !.pc = IF available THEN "connect" ELSE "service"]
  /\ UNCHANGED <<server, store, profile, available, tun, sync, guard, events>>

-----------------------------------------------------------------------------
(* The verification: service, connect, probe.                              *)

(* A verification that was not finished goes on, after a restart too.      *)
VerifyResume ==
  /\ verify.pc = "idle" /\ Activated /\ ~store.setup
  /\ verify' = [verify EXCEPT !.pc = "service"]
  /\ UNCHANGED <<server, store, profile, available, tun, sync, form, guard, events>>

VerifyService ==
  /\ verify.pc = "service" /\ available
  /\ verify' = [verify EXCEPT !.pc = "connect"]
  /\ UNCHANGED <<server, store, profile, available, tun, sync, form, guard, events>>

(* connectStartedRef is lowered only when no verification is under way.    *)
VerifyConnect ==
  /\ verify.pc = "connect" /\ ~verify.started
  /\ tun' = TRUE
  /\ verify' = [verify EXCEPT !.pc = "probe", !.started = TRUE]
  /\ UNCHANGED <<server, store, profile, available, sync, form, guard, events>>

(* The exit matches: the file is read, and written with setupComplete in a *)
(* step of its own, which the verification does not wait for.              *)
VerifyMatch ==
  /\ verify.pc = "probe" /\ content # 0 /\ verify.cur = Erased
  /\ verify' = [NoVerify EXCEPT !.cur = IF store.setup THEN Erased ELSE store]
  /\ UNCHANGED <<server, store, profile, available, tun, sync, form, guard, events>>

VerifySave ==
  /\ verify.cur # Erased
  /\ store' = [verify.cur EXCEPT !.setup = TRUE]
  /\ verify' = [verify EXCEPT !.cur = Erased]
  /\ UNCHANGED <<server, profile, available, tun, sync, form, guard, events>>

-----------------------------------------------------------------------------
(* core/tun_guard.rs: reconcile, every 15 s.  before is history: what the  *)
(* check before this one has found, and while it is applied, the one that  *)
(* is applied.                                                             *)

BugStreak ==
  /\ guard.pc = "idle"
  /\ LET checked == [guard EXCEPT !.before = Should]
     IN guard' = IF Should = tun \/ ~Should THEN [checked EXCEPT !.streak = 0]
                 ELSE [checked EXCEPT !.pc = "apply", !.should = TRUE, !.streak = 0]
  /\ UNCHANGED <<server, store, profile, available, tun, sync, form, verify, events>>

BugThreshold ==
  /\ guard.pc = "idle"
  /\ LET checked == [guard EXCEPT !.before = Should]
     IN guard' = IF Should = tun THEN [checked EXCEPT !.streak = 0]
                 ELSE IF ~Should /\ guard.streak < 2
                   THEN [checked EXCEPT !.streak = guard.streak + 1]
                 ELSE [checked EXCEPT !.pc = "apply", !.should = Should, !.streak = 0]
  /\ UNCHANGED <<server, store, profile, available, tun, sync, form, verify, events>>

BugGuardCheck ==
  /\ guard.pc = "idle"
  /\ LET checked == [guard EXCEPT !.before = Should]
     IN guard' = IF Should = tun THEN checked
                 ELSE IF ~Should /\ guard.streak = 0 THEN [checked EXCEPT !.streak = 1]
                 ELSE [checked EXCEPT !.pc = "apply", !.should = Should, !.streak = 0,
                                      !.before = guard.before]
  /\ UNCHANGED <<server, store, profile, available, tun, sync, form, verify, events>>

(* TUN is turned on at once and off the second time in a row.              *)
GuardCheck ==
  /\ guard.pc = "idle"
  /\ LET checked == [guard EXCEPT !.before = Should]
     IN guard' = IF Should = tun THEN [checked EXCEPT !.streak = 0]
                 ELSE IF ~Should /\ guard.streak = 0 THEN [checked EXCEPT !.streak = 1]
                 ELSE [checked EXCEPT !.pc = "apply", !.should = Should, !.streak = 0,
                                      !.before = guard.before]
  /\ UNCHANGED <<server, store, profile, available, tun, sync, form, verify, events>>

(* patch_verge edits the draft first and leaves it when it fails: either   *)
(* way the latest enable_tun_mode is the one wanted.                       *)
GuardApply ==
  /\ guard.pc = "apply"
  /\ tun' = guard.should
  /\ guard' = [guard EXCEPT !.pc = "idle", !.should = FALSE, !.before = guard.should]
  /\ UNCHANGED <<server, store, profile, available, sync, form, verify, events>>

-----------------------------------------------------------------------------
(* What happens from outside.                                              *)

Event == events < MaxEvents /\ events' = events + 1

(* The administrator resets the seat and hands out a code, or changes the  *)
(* configuration.                                                          *)
Reset ==
  /\ Event
  /\ seat' = 0 /\ code' = TRUE
  /\ UNCHANGED <<issued, config, store, profile, available, tun, sync, form, verify, guard>>

Publish ==
  /\ Event
  /\ config' = config + 1 /\ refused' = FALSE
  /\ UNCHANGED <<seat, code, issued, store, content>>
  /\ UNCHANGED <<available, tun, sync, form, verify, guard>>

ServiceChanges ==
  /\ Event
  /\ available' = ~available
  /\ UNCHANGED <<server, store, profile, tun, sync, form, verify, guard>>

(* toggle_tun_mode and the switches of the frontend.                       *)
Toggle ==
  /\ Event
  /\ tun' = ~tun
  /\ UNCHANGED <<server, store, profile, available, sync, form, verify, guard>>

(* The application is restarted: init_config sets enable_tun_mode.         *)
Restart ==
  /\ Event
  /\ tun' = Should
  /\ sync' = NoSync /\ form' = NoForm /\ verify' = NoVerify /\ guard' = NoGuard
  /\ UNCHANGED <<server, store, profile, available>>

-----------------------------------------------------------------------------
Sync == SyncStart \/ SyncAnswered \/ SyncErase \/ SyncImport \/ SyncSave
Guard == GuardCheck \/ GuardApply

Next ==
  \/ Sync \/ SyncFails
  \/ FormStart \/ FormFails \/ FormAnswered \/ FormImport \/ FormSave \/ FormVerify
  \/ VerifyResume \/ VerifyService \/ VerifyConnect \/ VerifyMatch \/ VerifySave
  \/ Guard
  \/ Reset \/ Publish \/ ServiceChanges \/ Toggle \/ Restart

Spec == Init /\ [][Next]_vars

(* The timers of the sync and the guard go on; the network and the import  *)
(* do not fail for ever.                                                   *)
FairSpec ==
  /\ Spec
  /\ WF_vars(SyncStart) /\ SF_vars(SyncAnswered)
  /\ SF_vars(SyncImport /\ sync'.pc = "save") /\ SF_vars(SyncErase \/ SyncSave)
  /\ WF_vars(Guard)

-----------------------------------------------------------------------------
(* The state has its type.                                                 *)
TypeOK ==
  /\ seat \in Tokens /\ issued \in Tokens /\ config \in Configs /\ content \in Configs
  /\ code \in BOOLEAN /\ refused \in BOOLEAN /\ available \in BOOLEAN /\ tun \in BOOLEAN
  /\ store \in State
  /\ sync \in Syncs /\ form \in Forms /\ verify \in Verifies /\ guard \in Guards
  /\ events \in 0..MaxEvents

(* When the server answers 304 to the stored fingerprint, nothing is left  *)
(* to import: the managed profile has the configuration of the seat.       *)
NotModifiedIsCurrent ==
  Activated /\ store.token = seat /\ store.fp = config => content = config \/ refused

(* The guard does not turn TUN off for a flicker: two checks in a row have *)
(* found that it should not run.                                           *)
TunDebounced ==
  [][GuardApply /\ ~tun' => ~guard.should /\ ~guard.before]_vars

(* Credentials that the server no longer accepts are given up.             *)
RevokedIsNoticed == Activated /\ store.token # seat ~> ~Activated \/ store.token = seat

(* Once seat, configuration and credentials rest, so does the profile, at  *)
(* the configuration of the seat.                                          *)
UpToDate == <>[](Activated /\ store.token = seat) => <>[](content = config \/ refused)

(* enable_tun_mode ends up as should_tun_run says, whoever toggles it and  *)
(* whatever the form, the sync and the verification do to the credentials. *)
TunFollows == (<>[]Should => <>[]tun) /\ (<>[]~Should => <>[]~tun)
===============================================================================
