----------------------------- MODULE ControlProofs -----------------------------
(***************************************************************************)
(* What the application runs by: its activation, account and exit, its     *)
(* settings, the core and the backups, in the backend and in the cards and *)
(* dialogs that show and change them.  The parts share no variable, and a  *)
(* theorem is about one of them.                                           *)
(*                                                                         *)
(* The activation: for any number of events and whatever the imports come  *)
(* to, a stored fingerprint that the server would answer with 304 is that  *)
(* of the managed profile's content or of a configuration that was         *)
(* refused, and the guard turns TUN off only after two checks in a row.    *)
(*                                                                         *)
(* That a late import cannot put an older content under a newer            *)
(* fingerprint has two reasons.  Fingerprints come from the sync alone, so *)
(* what it is about to import is not older than any of them; and while the *)
(* form has an answer to import, no stored token is the seat's, so no sync *)
(* gets a newer one.                                                       *)
(*                                                                         *)
(* Then, each an instance with constants of its own: the patches of the    *)
(* settings with the system's proxy, the core's lifecycle, the automatic   *)
(* backups, the watch of the exit, the account's card, the switch of the   *)
(* system proxy, settings behind a guard, dialogs that save to two places, *)
(* the dialogs of backups, the updates and what a build fetches.  Each     *)
(* holds for any number of calls at once and any data.  MCParts runs them  *)
(* on small instances and carries the theorems over to its own             *)
(* specification.                                                          *)
(***************************************************************************)
EXTENDS Activation, Sequences, FiniteSetTheorems, SequenceTheorems, TLAPS

CONSTANTS Calls, Patches, Stored, SaveFlags, MaxPatches,
          Tasks, Commands, Services, MaxCalls,
          Refreshes, Savers, MIN_BACKUP_INTERVAL_SECS, AUTO_BACKUP_KEEP,
          MaxChanges, MaxTime,
          V4, V6, STABLE_DURATION, MISMATCH_PROLONGED, IP_REFRESH,
          ExitServices, ExitMaxChanges,
          MAX_SERVICE_RETRIES, MaxCodes, AccountMaxEvents,
          Hosts, SysMaxSteps,
          Settings, GuardVals, Waits, Icon, GuardMaxChanges,
          Dialogs, DialogVals, Invalid, Refused, DialogMaxSteps,
          Files, Accounts, BackupsMaxSteps,
          Versions, Viewers, UpdateMaxReleases, MaxRuns,
          Platforms, Sidecars, Resources, Binaries, Scripts, retry,
          BuildMaxReleases

VARIABLES committed, draft, file, vergePc, patch, saves, data, lock, steps,
          sysGuard, wants, os, quitting, by, done, dirty, vergeCrossed, lag, raced,
          vergeCount,
          mode, child, sidecars, served, service, status, operation_running,
          corePc, cmd, view, told, pid, ended, coreCrossed, lost, coreCount,
          spawned,
          verge, settings, channel, step, loaded, runner_started, runner,
          current, unseen, backupPc, exec_lock, last_backup, files, now, made,
          backupCrossed, backupCount,
          exit, exitFetch, error, age, actual, expected, connected, setup,
          promote, stable, alarm, prolonged, lastNotified, countdown, asking,
          mutating, recheck, held, settled, lasted, pairs, exitChanges,
          accountSeat, accountFile, clientState, accountService, isServiceOk, other,
          cvBlock, card, accountForm, accountSync, accountConfirm, accountCur,
          matched, accountEvents,
          sysStored, sysCached, fetching, pending, sending, sysOpen, value,
          sysSave, resets, sysLast, sysRefused, sysSteps,
          guardStored, guardCached, guardFetch, guardLock, guardChanges,
          guardFiles, guardLast, guardRefused, clicks,
          first, second, dialogOpen, dialogForm, dialogSaves, saved, apart,
          dialogSteps,
          backupsFiles, account, backupsStatus, answer, backupsOpen, source,
          rows, ran, calls, backupsConfirm, restarting, met, auto,
          backupsSteps,
          releases, update, updateRun, updateRuns, updateEnded, running,
          installed, updateInfo, updateState, locks, downloads,
          platform, released, pinned, lookup, disk, temp, versions, hashes,
          buildRun, buildEnded, cut

Verge == INSTANCE VergePatch WITH
  pc <- vergePc, guard <- sysGuard, crossed <- vergeCrossed, count <- vergeCount
Core == INSTANCE CoreLifecycle WITH pc <- corePc, crossed <- coreCrossed, count <- coreCount
Backup == INSTANCE AutoBackup WITH
  pc <- backupPc, crossed <- backupCrossed, count <- backupCount
Exit == INSTANCE ExitWatch WITH
  fetch <- exitFetch, changes <- exitChanges, Services <- ExitServices,
  MaxChanges <- ExitMaxChanges
Account == INSTANCE AccountCard WITH
  file <- accountFile, service <- accountService, form <- accountForm,
  confirm <- accountConfirm, cur <- accountCur, events <- accountEvents,
  seat <- accountSeat, sync <- accountSync, MaxEvents <- AccountMaxEvents
Sys == INSTANCE SystemProxySettings WITH
  stored <- sysStored, cached <- sysCached, open <- sysOpen, save <- sysSave,
  last <- sysLast, refused <- sysRefused, steps <- sysSteps,
  MaxSteps <- SysMaxSteps
Setting == INSTANCE SettingGuards WITH
  stored <- guardStored, cached <- guardCached, fetch <- guardFetch,
  lock <- guardLock, changes <- guardChanges, files <- guardFiles,
  last <- guardLast, refused <- guardRefused, Vals <- GuardVals,
  MaxChanges <- GuardMaxChanges
Dialog == INSTANCE SettingDialogs WITH
  open <- dialogOpen, form <- dialogForm, saves <- dialogSaves,
  steps <- dialogSteps, Vals <- DialogVals, MaxSteps <- DialogMaxSteps
Backups == INSTANCE BackupDialogs WITH
  files <- backupsFiles, status <- backupsStatus, open <- backupsOpen,
  confirm <- backupsConfirm, steps <- backupsSteps,
  MaxSteps <- BackupsMaxSteps
Update == INSTANCE Updates WITH
  run <- updateRun, runs <- updateRuns, ended <- updateEnded,
  MaxReleases <- UpdateMaxReleases
Build == INSTANCE Prebuild WITH
  run <- buildRun, ended <- buildEnded, MaxReleases <- BuildMaxReleases

(* The bounds on tokens and configurations hold: a code is good for one    *)
(* token, and each new code and each configuration is an event.            *)
Counted ==
  /\ config <= events + 1
  /\ issued <= events + 1 /\ (code => issued <= events)

(* Who holds a token that the server has issued.                           *)
TokensIssued ==
  /\ seat <= issued /\ store.token <= issued /\ sync.state.token <= issued
  /\ form.token <= issued /\ verify.cur.token <= issued
  /\ sync.pc = "ask" => sync.state.token # 0

(* While the form imports what came with its token, no other place has it. *)
FormIsFirst ==
  form.pc = "import" =>
    /\ form.token = issued /\ seat \in {0, issued}
    /\ store.token < issued /\ sync.state.token < issued /\ verify.cur.token < issued

(* The fingerprints that are stored or may still be written.               *)
FpHeld(fp) ==
  \/ fp = store.fp
  \/ fp = verify.cur.fp
  \/ form.pc = "save" /\ fp = form.fp
  \/ sync.pc = "ask" /\ fp = sync.state.fp
  \/ sync.pc = "save" /\ fp = sync.data

FpsOrdered ==
  \A fp \in Configs : FpHeld(fp) =>
    /\ fp <= config
    /\ sync.pc = "import" => fp <= sync.data
    /\ form.pc = "import" => fp <= form.data

DataOrdered ==
  /\ sync.pc = "import" => sync.data <= config
  /\ form.pc = "import" => form.data <= config
  /\ sync.pc = "import" /\ form.pc = "import" => sync.data <= form.data

(* Wherever the fingerprint of the present configuration is held, that     *)
(* configuration was imported or refused.                                  *)
FpsTrue == \A fp \in Configs : FpHeld(fp) /\ fp = config => content = config \/ refused

(* What the guard remembers.                                               *)
GuardRemembers ==
  /\ guard.streak = 1 => ~guard.before
  /\ guard.pc = "apply" => guard.streak = 0 /\ (~guard.should => ~guard.before)

IInv == TypeOK /\ Counted /\ TokensIssued /\ FormIsFirst /\ FpsOrdered /\ DataOrdered /\ FpsTrue

-------------------------------------------------------------------------------
(* What the flows are when they are idle.                                  *)
LEMMA Nothing ==
  /\ Erased \in State /\ 0 \in Tokens /\ 0 \in Configs
  /\ NoSync \in Syncs /\ NoForm \in Forms /\ NoVerify \in Verifies /\ NoGuard \in Guards
<1>1. Erased \in State /\ 0 \in Tokens /\ 0 \in Configs
  BY ActivationAssumption DEF Erased, State, Tokens, Configs
<1>2. NoSync \in Syncs
  BY <1>1 DEF NoSync, Syncs
<1>3. NoForm \in Forms
  BY <1>1 DEF NoForm, Forms
<1>4. NoVerify \in Verifies
  BY <1>1 DEF NoVerify, Verifies
<1>5. NoGuard \in Guards
  BY DEF NoGuard, Guards
<1>. QED BY <1>1, <1>2, <1>3, <1>4, <1>5

(* Changing a field keeps a record's type.                                 *)
LEMMA SyncUpdates ==
  ASSUME NEW r \in Syncs
  PROVE  /\ \A x \in {"idle", "ask", "erase", "import", "save"} : [r EXCEPT !.pc = x] \in Syncs
         /\ \A x \in State : [r EXCEPT !.state = x] \in Syncs
         /\ \A x \in Configs : [r EXCEPT !.data = x] \in Syncs
BY DEF Syncs

LEMMA FormUpdates ==
  ASSUME NEW r \in Forms
  PROVE  /\ \A x \in {"idle", "ask", "import", "save", "verify"} : [r EXCEPT !.pc = x] \in Forms
         /\ \A x \in Tokens : [r EXCEPT !.token = x] \in Forms
         /\ \A x \in Configs : [r EXCEPT !.data = x] \in Forms /\ [r EXCEPT !.fp = x] \in Forms
BY DEF Forms

LEMMA VerifyUpdates ==
  ASSUME NEW r \in Verifies
  PROVE  /\ \A x \in {"idle", "service", "connect", "probe"} : [r EXCEPT !.pc = x] \in Verifies
         /\ [r EXCEPT !.started = TRUE] \in Verifies
         /\ \A x \in State : [r EXCEPT !.cur = x] \in Verifies
BY DEF Verifies

LEMMA GuardUpdates ==
  ASSUME NEW r \in Guards
  PROVE  /\ \A x \in BOOLEAN : [r EXCEPT !.before = x] \in Guards
         /\ [r EXCEPT !.streak = 0] \in Guards /\ [r EXCEPT !.streak = 1] \in Guards
         /\ [r EXCEPT !.pc = "apply"] \in Guards
         /\ \A x \in BOOLEAN : [r EXCEPT !.should = x] \in Guards
BY DEF Guards

LEMMA TypeInit == Init => TypeOK /\ Counted
<1>1. 1 \in Configs /\ 0 \in 0..MaxEvents
  BY ActivationAssumption DEF Configs
<1>2. Init => TypeOK
  BY <1>1, Nothing, Zenon DEF Init, TypeOK
<1>. QED BY <1>2 DEF Init, Counted

(* The bounds make room for the next token and the next configuration.     *)
LEMMA NextNumbers ==
  ASSUME TypeOK, Counted
  PROVE  /\ code => issued + 1 \in Tokens
         /\ events < MaxEvents => config + 1 \in Configs /\ events + 1 \in 0..MaxEvents
BY ActivationAssumption DEF TypeOK, Counted, Tokens, Configs

LEMMA CountedStep ==
  ASSUME TypeOK, Counted, [Next]_vars
  PROVE  Counted'
<1>. USE DEF TypeOK, Counted, Tokens, Configs
<1>1. CASE FormAnswered
  BY <1>1 DEF FormAnswered
<1>2. CASE Reset \/ Publish \/ ServiceChanges \/ Toggle \/ Restart
  BY <1>2 DEF Reset, Publish, ServiceChanges, Toggle, Restart, Event, server
<1>3. CASE UNCHANGED <<config, issued, code, events>>
  BY <1>3
<1>. QED
  BY <1>1, <1>2, <1>3
     DEF Next, Sync, SyncStart, SyncFails, SyncAnswered, SyncErase, SyncImport, SyncSave,
         FormStart, FormFails, FormImport, FormSave, FormVerify, VerifyResume, VerifyService,
         VerifyConnect, VerifyMatch, VerifySave, Guard, GuardCheck, GuardApply, server, vars

LEMMA TypeStep ==
  ASSUME TypeOK, Counted, [Next]_vars
  PROVE  TypeOK'
<1>. USE DEF TypeOK, server, profile
<1>1. CASE SyncStart
  <2>1. sync' \in Syncs
    BY <1>1, SyncUpdates DEF SyncStart
  <2>. QED BY <1>1, <2>1 DEF SyncStart
<1>2. CASE SyncFails
  BY <1>2, Nothing DEF SyncFails
<1>3. CASE SyncAnswered
  <2>1. sync' \in {NoSync, [NoSync EXCEPT !.pc = "erase"],
               [sync EXCEPT !.pc = "save", !.data = config], [sync EXCEPT !.pc = "import", !.data = config]}
    BY <1>3 DEF SyncAnswered
  <2>2. [sync EXCEPT !.pc = "save", !.data = config] \in Syncs
    BY SyncUpdates
  <2>3. [sync EXCEPT !.pc = "import", !.data = config] \in Syncs
    BY SyncUpdates
  <2>4. sync' \in Syncs
    BY <2>1, <2>2, <2>3, Nothing, SyncUpdates, Zenon
  <2>. QED BY <1>3, <2>4 DEF SyncAnswered
<1>4. CASE SyncErase
  BY <1>4, Nothing DEF SyncErase
<1>5. CASE SyncImport
  <2>1. sync' = NoSync \/ sync' = [sync EXCEPT !.pc = "save"]
    BY <1>5 DEF SyncImport
  <2>2. sync' \in Syncs
    BY <2>1, Nothing, SyncUpdates, Zenon
  <2>3. content' \in Configs /\ refused' \in BOOLEAN
    BY <1>5 DEF SyncImport, Import, Syncs
  <2>. QED BY <1>5, <2>2, <2>3 DEF SyncImport
<1>6. CASE SyncSave
  <2>1. store' \in State
    BY <1>6 DEF SyncSave, Syncs, State
  <2>. QED BY <1>6, <2>1, Nothing DEF SyncSave
<1>7. CASE FormStart
  <2>1. form' \in Forms
    BY <1>7, FormUpdates DEF FormStart
  <2>. QED BY <1>7, <2>1 DEF FormStart
<1>8. CASE FormFails
  BY <1>8, Nothing DEF FormFails
<1>9. CASE FormAnswered
  <2>1. form' = NoForm \/ form' = [form EXCEPT !.pc = "import", !.token = issued + 1, !.data = config]
    BY <1>9 DEF FormAnswered
  <2>2. issued + 1 \in Tokens
    BY <1>9, NextNumbers DEF FormAnswered
  <2>3. [form EXCEPT !.pc = "import", !.token = issued + 1, !.data = config] \in Forms
    BY <2>2, Nothing, FormUpdates
  <2>4. form' \in Forms
    BY <2>1, <2>3, Nothing, Zenon
  <2>. QED BY <1>9, <2>2, <2>4 DEF FormAnswered
<1>10. CASE FormImport
  <2>1. form' = NoForm \/ form' = [form EXCEPT !.pc = "save", !.data = 0, !.fp = store.fp]
    BY <1>10 DEF FormImport
  <2>2. store.fp \in Configs
    BY DEF State
  <2>3. [form EXCEPT !.pc = "save", !.data = 0, !.fp = store.fp] \in Forms
    BY <2>2, Nothing, FormUpdates
  <2>4. form' \in Forms
    BY <2>1, <2>3, Nothing, Zenon
  <2>5. content' \in Configs /\ refused' \in BOOLEAN
    BY <1>10 DEF FormImport, Import, Forms
  <2>. QED BY <1>10, <2>2, <2>4, <2>5 DEF FormImport
<1>11. CASE FormSave
  <2>1. store' \in State
    BY <1>11 DEF FormSave, Forms, State
  <2>2. form' \in Forms
    BY <1>11, Nothing, FormUpdates DEF FormSave
  <2>. QED BY <1>11, <2>1, <2>2 DEF FormSave
<1>12. CASE FormVerify
  <2>1. verify' \in Verifies
    BY <1>12, VerifyUpdates DEF FormVerify
  <2>. QED BY <1>12, <2>1, Nothing DEF FormVerify
<1>13. CASE VerifyResume
  <2>1. verify' \in Verifies
    BY <1>13, VerifyUpdates DEF VerifyResume
  <2>. QED BY <1>13, <2>1 DEF VerifyResume
<1>14. CASE VerifyService
  <2>1. verify' \in Verifies
    BY <1>14, VerifyUpdates DEF VerifyService
  <2>. QED BY <1>14, <2>1 DEF VerifyService
<1>15. CASE VerifyConnect
  <2>1. verify' = [verify EXCEPT !.pc = "probe", !.started = TRUE]
    BY <1>15 DEF VerifyConnect
  <2>2. verify' \in Verifies
    BY <2>1, VerifyUpdates
  <2>. QED BY <1>15, <2>1, <2>2 DEF VerifyConnect
<1>16. CASE VerifyMatch
  <2>1. PICK v \in State : verify' = [NoVerify EXCEPT !.cur = v]
    BY <1>16, Nothing DEF VerifyMatch
  <2>2. verify' \in Verifies
    BY <2>1, Nothing, VerifyUpdates
  <2>. QED BY <1>16, <2>2 DEF VerifyMatch
<1>17. CASE VerifySave
  <2>1. store' \in State
    BY <1>17 DEF VerifySave, Verifies, State
  <2>2. verify' \in Verifies
    BY <1>17, Nothing, VerifyUpdates DEF VerifySave
  <2>. QED BY <1>17, <2>1, <2>2 DEF VerifySave
<1>18. CASE GuardCheck
  <2>1. PICK b \in BOOLEAN : b = Should
    BY Zenon DEF Should, Activated
  <2>2. PICK c \in Guards : c = [guard EXCEPT !.before = b]
    BY <2>1, GuardUpdates
  <2>3. \/ guard' = [c EXCEPT !.streak = 0] \/ guard' = [c EXCEPT !.streak = 1]
      \/ guard' = [c EXCEPT !.pc = "apply", !.should = b, !.streak = 0, !.before = guard.before]
    BY <1>18, <2>1, <2>2, Zenon DEF GuardCheck
  <2>4. guard.before \in BOOLEAN
    BY DEF Guards
  <2>5. [c EXCEPT !.pc = "apply", !.should = b, !.streak = 0, !.before = guard.before] \in Guards
    BY <2>4, GuardUpdates
  <2>6. guard' \in Guards
    BY <2>3, <2>5, GuardUpdates, Zenon
  <2>. QED BY <1>18, <2>6 DEF GuardCheck
<1>19. CASE GuardApply
  <2>1. guard' \in Guards
    BY <1>19 DEF GuardApply, Guards
  <2>2. tun' \in BOOLEAN
    BY <1>19 DEF GuardApply, Guards
  <2>. QED BY <1>19, <2>1, <2>2 DEF GuardApply
<1>20. CASE Reset
  BY <1>20, Nothing, NextNumbers DEF Reset, Event
<1>21. CASE Publish
  BY <1>21, Nothing, NextNumbers DEF Publish, Event
<1>22. CASE ServiceChanges
  BY <1>22, Nothing, NextNumbers DEF ServiceChanges, Event
<1>23. CASE Toggle
  BY <1>23, Nothing, NextNumbers DEF Toggle, Event
<1>24. CASE Restart
  <2>1. tun' \in BOOLEAN
    BY <1>24 DEF Restart, Should, Activated
  <2>. QED BY <1>24, <2>1, Nothing, NextNumbers DEF Restart, Event
<1>25. CASE UNCHANGED vars
  BY <1>25 DEF vars
<1>. QED
  BY <1>1, <1>2, <1>3, <1>4, <1>5, <1>6, <1>7, <1>8, <1>9, <1>10, <1>11, <1>12, <1>13, <1>14, <1>15, <1>16, <1>17, <1>18, <1>19, <1>20, <1>21, <1>22, <1>23, <1>24, <1>25
     DEF Next, Sync, Guard

(* Every reachable state has its type: the server never issues more tokens *)
(* or configurations than there are events.                                *)
THEOREM ActivationType == Spec => []TypeOK
<1>1. TypeOK /\ Counted /\ [Next]_vars => TypeOK' /\ Counted'
  BY TypeStep, CountedStep
<1>. QED BY TypeInit, <1>1, PTL DEF Spec

-------------------------------------------------------------------------------
(* Tokens and configurations are numbers, wherever they are.               *)
Numbers ==
  /\ seat \in Nat /\ issued \in Nat /\ config \in Nat /\ content \in Nat
  /\ store.token \in Nat /\ store.fp \in Nat
  /\ sync.state.token \in Nat /\ sync.state.fp \in Nat /\ sync.data \in Nat
  /\ form.token \in Nat /\ form.data \in Nat /\ form.fp \in Nat
  /\ verify.cur.token \in Nat /\ verify.cur.fp \in Nat

LEMMA Numeric == TypeOK => Numbers
BY ActivationAssumption
   DEF TypeOK, Numbers, State, Syncs, Forms, Verifies, Tokens, Configs

(* What the server's answers leave in the flows that have asked.           *)
LEMMA SyncAnsweredFields ==
  ASSUME TypeOK, SyncAnswered
  PROVE  \/ sync'.pc \in {"idle", "erase"} /\ sync'.state = Erased
         \/ sync'.pc = "save" /\ sync'.state = sync.state /\ sync'.data = config
              /\ sync.state.token = seat /\ sync.state.fp = config
         \/ sync'.pc = "import" /\ sync'.state = sync.state /\ sync'.data = config
              /\ sync.state.token = seat
<1>1. CASE sync.state.token # seat
  BY <1>1 DEF SyncAnswered, NoSync
<1>2. CASE sync.state.token = seat /\ sync.state.fp = config
  <2>1. sync' = NoSync \/ sync' = [sync EXCEPT !.pc = "save", !.data = config]
    BY <1>2 DEF SyncAnswered
  <2>2. CASE sync' = NoSync
    BY <2>2 DEF NoSync
  <2>3. CASE sync' = [sync EXCEPT !.pc = "save", !.data = config]
    BY <1>2, <2>3 DEF TypeOK, Syncs
  <2>. QED BY <2>1, <2>2, <2>3
<1>3. CASE sync.state.token = seat /\ sync.state.fp # config
  <2>1. sync' = [sync EXCEPT !.pc = "import", !.data = config]
    BY <1>3 DEF SyncAnswered
  <2>. QED BY <1>3, <2>1 DEF TypeOK, Syncs
<1>. QED BY <1>1, <1>2, <1>3

LEMMA FormAnsweredFields ==
  ASSUME TypeOK, FormAnswered
  PROVE  \/ form'.pc = "idle" /\ form'.token = 0
         \/ form'.pc = "import" /\ form'.token = issued + 1 /\ form'.data = config
<1>1. CASE form' = NoForm
  BY <1>1 DEF NoForm
<1>2. CASE form' = [form EXCEPT !.pc = "import", !.token = issued + 1, !.data = config]
  BY <1>2 DEF TypeOK, Forms
<1>. QED BY <1>1, <1>2 DEF FormAnswered

(* A token that the form brings is new: nobody else has it until the form  *)
(* has imported what came with it.                                         *)
LEMMA TokensStep ==
  ASSUME TypeOK, TokensIssued, FormIsFirst, [Next]_vars
  PROVE  TokensIssued' /\ FormIsFirst'
<1>. USE Numeric
     DEF Numbers, TypeOK, State, Syncs, Forms, Verifies, TokensIssued, FormIsFirst, Erased, server, profile
<1>1. CASE SyncStart
  BY <1>1 DEF SyncStart, Activated
<1>2. CASE SyncFails
  BY <1>2 DEF SyncFails, NoSync
<1>3. CASE SyncAnswered
  BY <1>3, SyncAnsweredFields DEF SyncAnswered
<1>4. CASE SyncErase
  BY <1>4 DEF SyncErase, NoSync
<1>5. CASE SyncImport
  BY <1>5 DEF SyncImport, Import, NoSync
<1>6. CASE SyncSave
  BY <1>6 DEF SyncSave, NoSync
<1>7. CASE FormStart
  BY <1>7 DEF FormStart
<1>8. CASE FormFails
  BY <1>8 DEF FormFails, NoForm
<1>9. CASE FormAnswered
  <2>1. issued' = issued + 1 /\ seat' = issued + 1 /\ UNCHANGED <<store, sync, verify>>
    BY <1>9 DEF FormAnswered
  <2>. HIDE DEF TypeOK
  <2>. QED BY <1>9, <2>1, FormAnsweredFields
<1>10. CASE FormImport
  BY <1>10 DEF FormImport, Import, NoForm
<1>11. CASE FormSave
  <2>1. form'.pc = "verify" /\ form'.token = 0 /\ store'.token = form.token
    BY <1>11 DEF FormSave, NoForm
  <2>. QED BY <1>11, <2>1 DEF FormSave
<1>12. CASE FormVerify
  BY <1>12 DEF FormVerify, NoForm
<1>13. CASE VerifyResume
  BY <1>13 DEF VerifyResume, Activated
<1>14. CASE VerifyService
  BY <1>14 DEF VerifyService
<1>15. CASE VerifyConnect
  BY <1>15 DEF VerifyConnect
<1>16. CASE VerifyMatch
  BY <1>16 DEF VerifyMatch, NoVerify
<1>17. CASE VerifySave
  BY <1>17 DEF VerifySave
<1>18. CASE GuardCheck
  BY <1>18 DEF GuardCheck
<1>19. CASE GuardApply
  BY <1>19 DEF GuardApply
<1>20. CASE Reset
  BY <1>20 DEF Reset, Event
<1>21. CASE Publish
  BY <1>21 DEF Publish, Event
<1>22. CASE ServiceChanges
  BY <1>22 DEF ServiceChanges, Event
<1>23. CASE Toggle
  BY <1>23 DEF Toggle, Event
<1>24. CASE Restart
  BY <1>24 DEF Restart, Event, NoSync, NoForm, NoVerify
<1>25. CASE UNCHANGED vars
  BY <1>25 DEF vars
<1>. HIDE DEF Numbers, TypeOK, TokensIssued, FormIsFirst
<1>. QED
  BY <1>1, <1>2, <1>3, <1>4, <1>5, <1>6, <1>7, <1>8, <1>9, <1>10, <1>11, <1>12, <1>13, <1>14, <1>15, <1>16, <1>17, <1>18, <1>19, <1>20, <1>21, <1>22, <1>23, <1>24, <1>25
     DEF Next, Sync, Guard

(* What is imported, the form's or the sync's, is not older than any       *)
(* fingerprint held, so nothing hides the present configuration untried.   *)
LEMMA FpsStep ==
  ASSUME TypeOK, TokensIssued, FormIsFirst, FpsOrdered, DataOrdered, FpsTrue, [Next]_vars
  PROVE  FpsOrdered' /\ DataOrdered' /\ FpsTrue'
<1>. USE Numeric
     DEF Numbers, TypeOK, State, Syncs, Forms, Verifies, TokensIssued, FormIsFirst, Erased, server, profile,
         FpsOrdered, DataOrdered, FpsTrue, FpHeld, Configs
<1>1. CASE SyncStart
  BY <1>1 DEF SyncStart, Activated
<1>2. CASE SyncFails
  BY <1>2 DEF SyncFails, NoSync
<1>3. CASE SyncAnswered
  BY <1>3, SyncAnsweredFields DEF SyncAnswered
<1>4. CASE SyncErase
  BY <1>4 DEF SyncErase, NoSync
<1>5. CASE SyncImport
  <2>. HIDE DEF Numbers, TypeOK, FpsOrdered, DataOrdered, FpsTrue, FpHeld
  <2>1. /\ sync.pc = "import" /\ UNCHANGED <<config, store, form, verify>>
        /\ sync'.pc = "idle" \/ (sync'.pc = "save" /\ sync'.data = sync.data)
    BY <1>5 DEF SyncImport, TypeOK, NoSync
  <2>2. \A fp \in Configs : FpHeld(fp)' => FpHeld(fp) \/ (fp = sync.data /\ sync'.pc = "save")
    BY <2>1 DEF FpHeld
  <2>3. \A fp \in Configs : fp = config /\ FpHeld(fp)' => sync.data = config
    BY <2>1, <2>2 DEF FpsOrdered, Numbers, DataOrdered
  <2>4. PICK outcome \in Outcomes :
          /\ Import(outcome, sync.data)
          /\ outcome = "failed" => sync' = NoSync
    BY <1>5 DEF SyncImport
  <2>5. sync.data = config /\ outcome # "failed" => content' = config \/ refused'
    BY <2>4, ActivationAssumption DEF Import
  <2>6. outcome = "failed" => sync'.pc = "idle" /\ content' = content /\ refused' = refused
    BY <2>4 DEF Import, NoSync, TypeOK
  <2>7. FpsTrue'
    BY <2>1, <2>2, <2>3, <2>5, <2>6 DEF FpsTrue
  <2>8. FpsOrdered' /\ DataOrdered'
    BY <2>1, <2>2 DEF Numbers, DataOrdered, FpsOrdered
  <2>. QED BY <2>7, <2>8
<1>6. CASE SyncSave
  BY <1>6 DEF SyncSave, NoSync
<1>7. CASE FormStart
  BY <1>7 DEF FormStart
<1>8. CASE FormFails
  BY <1>8 DEF FormFails, NoForm
<1>9. CASE FormAnswered
  <2>. HIDE DEF TypeOK, FpsOrdered, DataOrdered, FpsTrue, FpHeld
  <2>1. /\ form.pc = "ask" /\ UNCHANGED <<config, store, profile, sync, verify>>
    BY <1>9 DEF FormAnswered
  <2>2. \A fp \in Configs : FpHeld(fp)' => FpHeld(fp)
    BY <1>9, <2>1, FormAnsweredFields DEF FpHeld
  <2>3. FpsTrue'
    BY <2>1, <2>2 DEF FpsTrue
  <2>4. FpsOrdered'
    BY <1>9, <2>1, <2>2, FormAnsweredFields DEF FpsOrdered
  <2>5. DataOrdered'
    BY <1>9, <2>1, FormAnsweredFields DEF DataOrdered
  <2>. QED BY <2>3, <2>4, <2>5
<1>10. CASE FormImport
  BY <1>10 DEF FormImport, Import, NoForm
<1>11. CASE FormSave
  BY <1>11 DEF FormSave, NoForm
<1>12. CASE FormVerify
  BY <1>12 DEF FormVerify, NoForm
<1>13. CASE VerifyResume
  BY <1>13 DEF VerifyResume, Activated
<1>14. CASE VerifyService
  BY <1>14 DEF VerifyService
<1>15. CASE VerifyConnect
  BY <1>15 DEF VerifyConnect
<1>16. CASE VerifyMatch
  BY <1>16 DEF VerifyMatch, NoVerify
<1>17. CASE VerifySave
  BY <1>17 DEF VerifySave
<1>18. CASE GuardCheck
  BY <1>18 DEF GuardCheck
<1>19. CASE GuardApply
  BY <1>19 DEF GuardApply
<1>20. CASE Reset
  BY <1>20 DEF Reset, Event
<1>21. CASE Publish
  BY <1>21 DEF Publish, Event
<1>22. CASE ServiceChanges
  BY <1>22 DEF ServiceChanges, Event
<1>23. CASE Toggle
  BY <1>23 DEF Toggle, Event
<1>24. CASE Restart
  BY <1>24 DEF Restart, Event, NoSync, NoForm, NoVerify
<1>25. CASE UNCHANGED vars
  BY <1>25 DEF vars
<1>. HIDE DEF Numbers, TypeOK, TokensIssued, FormIsFirst, FpsOrdered, DataOrdered, FpsTrue
<1>. QED
  BY <1>1, <1>2, <1>3, <1>4, <1>5, <1>6, <1>7, <1>8, <1>9, <1>10, <1>11, <1>12, <1>13, <1>14, <1>15, <1>16, <1>17, <1>18, <1>19, <1>20, <1>21, <1>22, <1>23, <1>24, <1>25
     DEF Next, Sync, Guard

(* Whatever imports come to and in whatever order the form, the sync and   *)
(* the verification write the file: when the server answers 304 to the     *)
(* stored fingerprint, the managed profile has the present configuration   *)
(* or that was refused.                                                    *)
THEOREM ActivationNotModified == Spec => []NotModifiedIsCurrent
<1>1. Init => IInv
  <2>. SUFFICES ASSUME Init PROVE IInv
    OBVIOUS
  <2>1. TokensIssued /\ FormIsFirst
    BY DEF Init, TokensIssued, FormIsFirst, Erased, NoSync, NoForm, NoVerify
  <2>2. \A fp \in Configs : FpHeld(fp) => fp = 0
    BY DEF Init, FpHeld, Erased, NoSync, NoForm, NoVerify
  <2>3. FpsOrdered /\ DataOrdered /\ FpsTrue
    BY <2>2 DEF Init, FpsOrdered, DataOrdered, FpsTrue, NoSync, NoForm
  <2>. QED BY <2>1, <2>3, TypeInit DEF IInv
<1>2. IInv /\ [Next]_vars => IInv'
  BY TypeStep, CountedStep, TokensStep, FpsStep DEF IInv
<1>3. IInv => NotModifiedIsCurrent
  <2>. SUFFICES ASSUME IInv, store.fp = config PROVE content = config \/ refused
    BY DEF NotModifiedIsCurrent
  <2>1. config \in Configs /\ FpHeld(config)
    BY DEF IInv, TypeOK, FpHeld
  <2>. QED BY <2>1 DEF IInv, FpsTrue
<1>. QED BY <1>1, <1>2, <1>3, PTL DEF Spec

-------------------------------------------------------------------------------
LEMMA GuardStep ==
  ASSUME TypeOK, GuardRemembers, [Next]_vars
  PROVE  GuardRemembers'
<1>. USE DEF TypeOK, GuardRemembers, Guards
<1>1. CASE GuardCheck
  <2>1. CASE Should = tun
    <3>1. guard'.streak = 0 /\ guard'.pc = "idle"
      BY <1>1, <2>1 DEF GuardCheck
    <3>. QED BY <3>1
  <2>2. CASE Should # tun /\ ~Should /\ guard.streak = 0
    <3>1. guard'.before = FALSE /\ guard'.pc = "idle"
      BY <1>1, <2>2 DEF GuardCheck
    <3>. QED BY <3>1
  <2>3. CASE Should # tun /\ ~(~Should /\ guard.streak = 0)
    <3>1. guard'.streak = 0 /\ guard'.should = Should /\ guard'.before = guard.before
      BY <1>1, <2>3 DEF GuardCheck
    <3>. QED BY <2>3, <3>1
  <2>. QED BY <2>1, <2>2, <2>3
<1>2. CASE GuardApply
  <2>1. guard'.streak = guard.streak /\ guard'.before = guard.should /\ guard'.pc = "idle"
    BY <1>2 DEF GuardApply
  <2>. QED BY <1>2, <2>1 DEF GuardApply
<1>3. CASE Restart
  BY <1>3 DEF Restart, NoGuard
<1>4. CASE UNCHANGED guard
  BY <1>4
<1>. HIDE DEF TypeOK, GuardRemembers
<1>. QED
  BY <1>1, <1>2, <1>3, <1>4
     DEF Next, Sync, SyncStart, SyncFails, SyncAnswered, SyncErase, SyncImport, SyncSave,
         FormStart, FormFails, FormAnswered, FormImport, FormSave, FormVerify, VerifyResume,
         VerifyService, VerifyConnect, VerifyMatch, VerifySave, Guard, Reset, Publish,
         ServiceChanges, Toggle, vars

(* A guard that turns TUN off has found twice in a row that it should be,  *)
(* whatever happens to the service and the credentials in between.         *)
THEOREM ActivationDebounced == Spec => TunDebounced
<1>1. Init => GuardRemembers
  BY DEF Init, GuardRemembers, NoGuard
<1>2. GuardRemembers /\ GuardApply /\ ~tun' => ~guard.should /\ ~guard.before
  BY DEF GuardRemembers, GuardApply
<1>3. TypeOK /\ GuardRemembers /\ [Next]_vars => GuardRemembers'
  BY GuardStep
<1>. QED BY <1>1, <1>2, <1>3, ActivationType, PTL DEF Spec, TunDebounced

-------------------------------------------------------------------------------
(* Patches of the settings: what a call has changed stays, the system's    *)
(* proxy and the file follow the settings, and nothing of the proxy is     *)
(* left after quit().  What orders the calls is the lock of                *)
(* update_sysproxy alone, and each update takes up the latest settings,    *)
(* its own or those of others.  So a change of the proxy that is not in    *)
(* force is either still on its way to an update or was refused            *)
(* (SystemInv), and from the update on the only differences are in the     *)
(* steps that are left (InForce).                                          *)
Bool == [Verge!Settings -> BOOLEAN]

(* The settings that update_sysproxy reads.                                *)
Px == {"proxy", "pac", "guard"}

(* Patches change settings; "free" and "none" are no calls.                *)
VergeParameters ==
  /\ "free" \notin Calls /\ "none" \notin Calls
  /\ \A p \in Patches \cup Stored \cup {<<>>} : DOMAIN p \subseteq Verge!Settings
     /\ \A s \in DOMAIN p : p[s] \in BOOLEAN
  /\ SaveFlags \subseteq BOOLEAN

VergeSteps == {"idle", "core", "verge", "lock", "apply", "refresh", "guard", "rest", "save", "write"}
OneStep == {"sys", "auto"} \X BOOLEAN
Left == {<<>>} \cup {<<a>> : a \in OneStep} \cup {<<a, b>> : a, b \in OneStep}

VergeTypes ==
  /\ committed \in Bool /\ draft \in {<<>>} \cup {<<cfg>> : cfg \in Bool} /\ file \in Bool
  /\ vergePc \in [Calls -> VergeSteps] /\ patch \in [Calls -> Patches \cup {<<>>}] /\ saves \in [Calls -> BOOLEAN]
  /\ data \in [Calls -> Bool]
  /\ lock \in Calls \cup {"free"} /\ steps \in [Calls -> Left]
  /\ sysGuard \in [type : {"none", "sys", "auto"}, running : BOOLEAN]
  /\ os \in [sys : BOOLEAN, auto : BOOLEAN]
  /\ quitting \in {"no", "save", "clean", "sys", "auto", "done"}
  /\ by \in [Verge!Settings -> Calls \cup {"none"}] /\ done \in [Verge!Settings -> SUBSET BOOLEAN]
  /\ dirty \in BOOLEAN /\ vergeCrossed \in BOOLEAN /\ lag \in BOOLEAN
  /\ wants \in [Calls -> BOOLEAN] /\ raced \in BOOLEAN

(* Who is in the lock applies.                                             *)
Locked ==
  \A c \in Calls : /\ vergePc[c] = "apply" <=> lock = c
                   /\ vergePc[c] = "apply" => steps[c] # <<>>
                   /\ vergePc[c] \in {"lock", "apply", "refresh", "guard"} => Verge!SYS_PROXY(c)
                   /\ vergePc[c] = "idle" => patch[c] = <<>>

LEMMA VergeLatestType ==
  ASSUME VergeTypes
  PROVE  Verge!Latest \in Bool
BY DEF VergeTypes, Verge!Latest

LEMMA PatchedType ==
  ASSUME VergeParameters, NEW cfg \in Bool, NEW p \in Patches \cup Stored \cup {<<>>}
  PROVE  Verge!Patched(cfg, p) \in Bool
BY DEF VergeParameters, Verge!Patched, Bool

LEMMA VergeGoesTypes ==
  ASSUME VergeTypes, NEW c \in Calls, NEW w \in VergeSteps, Verge!Goes(c, w)
  PROVE  /\ vergePc' \in [Calls -> VergeSteps] /\ patch' \in [Calls -> Patches \cup {<<>>}]
            /\ saves' \in [Calls -> BOOLEAN]
         /\ vergePc'[c] = w /\ \A d \in Calls \ {c} : vergePc'[d] = vergePc[d] /\ patch'[d] = patch[d]
         /\ w # "idle" => patch' = patch
         /\ w = "idle" => patch'[c] = <<>>
<1>1. /\ vergePc \in [Calls -> VergeSteps] /\ patch \in [Calls -> Patches \cup {<<>>}]
         /\ saves \in [Calls -> BOOLEAN]
  BY DEF VergeTypes
<1>2. CASE w = "idle"
  <2>1. /\ vergePc' = [vergePc EXCEPT ![c] = w] /\ patch' = [patch EXCEPT ![c] = <<>>] 
        /\ saves' = [saves EXCEPT ![c] = TRUE]
    BY <1>2 DEF Verge!Goes
  <2>. QED BY <1>1, <1>2, <2>1
<1>3. CASE w # "idle"
  <2>1. /\ vergePc' = [vergePc EXCEPT ![c] = w] /\ patch' = patch /\ saves' = saves
    BY <1>3 DEF Verge!Goes
  <2>. QED BY <1>1, <1>3, <2>1
<1>. QED BY <1>2, <1>3

LEMMA StepsTypes ==
  /\ \A cfg \in Bool : Verge!ApplySteps(cfg) \in Left /\ Verge!ApplySteps(cfg) # <<>>
  /\ \A q \in Left : q # <<>> => /\ q[1] \in OneStep /\ q[1][1] \in {"sys", "auto"} /\ q[1][2] \in BOOLEAN
                                 /\ Tail(q) \in Left /\ Len(q) \in Nat /\ (Len(q) = 1 <=> Tail(q) = <<>>)
<1>1. ASSUME NEW cfg \in Bool PROVE Verge!ApplySteps(cfg) \in Left /\ Verge!ApplySteps(cfg) # <<>>
  <2> DEFINE on == Verge!AutoProxy(cfg)
  <2>1. on \in BOOLEAN
    BY DEF Verge!AutoProxy
  <2>2. <<"auto", FALSE>> \in OneStep /\ <<"sys", TRUE>> \in OneStep
        /\ <<"sys", FALSE>> \in OneStep /\ <<"auto", on>> \in OneStep
    BY <2>1 DEF OneStep
  <2> HIDE DEF on
  <2>3. \A a, b \in OneStep : <<a, b>> \in Left /\ <<a, b>> # <<>>
    BY DEF Left
  <2>4. \/ Verge!ApplySteps(cfg) = <<<<"auto", FALSE>>, <<"sys", TRUE>>>>
        \/ Verge!ApplySteps(cfg) = <<<<"sys", FALSE>>, <<"auto", on>>>>
    BY Zenon DEF Verge!ApplySteps, on
  <2>. QED BY <2>2, <2>3, <2>4, Zenon
<1>2. ASSUME NEW q \in Left, q # <<>>
      PROVE /\ q[1] \in OneStep /\ q[1][1] \in {"sys", "auto"} /\ q[1][2] \in BOOLEAN
            /\ Tail(q) \in Left /\ Len(q) \in Nat /\ (Len(q) = 1 <=> Tail(q) = <<>>)
  <2>1. CASE \E a \in OneStep : q = <<a>>
    BY <2>1 DEF Left, OneStep
  <2>2. CASE \E a, b \in OneStep : q = <<a, b>>
    BY <2>2 DEF Left, OneStep
  <2>. QED BY <1>2, <2>1, <2>2 DEF Left
<1>. QED BY <1>1, <1>2

(* A call that goes on outside the lock leaves it as it is.                *)
LEMMA GoesLocked ==
  ASSUME VergeTypes, Locked, NEW c \in Calls, NEW w \in VergeSteps, Verge!Goes(c, w), UNCHANGED <<lock, steps>>,
         vergePc[c] # "apply", w # "apply", w \in {"lock", "refresh", "guard"} => Verge!SYS_PROXY(c)
  PROVE  Locked'
<1>1. ASSUME NEW d \in Calls
      PROVE  /\ vergePc'[d] = "apply" <=> lock = d
             /\ vergePc'[d] = "apply" => steps[d] # <<>>
             /\ vergePc'[d] \in {"lock", "apply", "refresh", "guard"} => Px \cap DOMAIN patch'[d] # {}
             /\ vergePc'[d] = "idle" => patch'[d] = <<>>
  <2>1. CASE d = c
    <3>1. vergePc'[c] = w /\ (w # "idle" => patch' = patch) /\ (w = "idle" => patch'[c] = <<>>)
      BY VergeGoesTypes
    <3>. QED BY <2>1, <3>1 DEF Locked, Verge!SYS_PROXY, Verge!Has, Px
  <2>2. CASE d # c
    <3>1. vergePc'[d] = vergePc[d] /\ patch'[d] = patch[d]
      BY <2>2, VergeGoesTypes
    <3>. QED BY <2>2, <3>1 DEF Locked, Verge!SYS_PROXY, Verge!Has, Px
  <2>. QED BY <2>1, <2>2
<1>. QED BY <1>1 DEF Locked, Verge!SYS_PROXY, Verge!Has, Px

VergeBase == VergeTypes /\ Locked

LEMMA VergeBaseInit == VergeParameters /\ Verge!Init => VergeBase
<1> SUFFICES ASSUME VergeParameters, Verge!Init PROVE VergeBase
  OBVIOUS
<1>1. Verge!Default \in Bool
  BY DEF Verge!Default, Bool
<1>2. committed \in Bool
  BY <1>1, PatchedType DEF Verge!Init
<1>3. /\ Verge!GuardType(committed) \in {"none", "sys", "auto"}
  BY DEF Verge!GuardType
<1>4. Verge!Guarded(committed) \in BOOLEAN /\ Verge!SysProxy(committed) \in BOOLEAN
      /\ Verge!AutoProxy(committed) \in BOOLEAN
  BY DEF Verge!Guarded, Verge!SysProxy, Verge!AutoProxy
<1>5. sysGuard \in [type : {"none", "sys", "auto"}, running : BOOLEAN]
  BY <1>3, <1>4 DEF Verge!Init
<1>6. os \in [sys : BOOLEAN, auto : BOOLEAN]
  BY <1>4 DEF Verge!Init, Verge!Wanted
<1>7. VergeTypes
  <2>1. vergePc \in [Calls -> VergeSteps] /\ patch \in [Calls -> Patches \cup {<<>>}] /\ steps \in [Calls -> Left]
    BY DEF Verge!Init, VergeSteps, Left
  <2>2. saves \in [Calls -> BOOLEAN] /\ data \in [Calls -> Bool]
    BY <1>1 DEF Verge!Init
  <2>3. by \in [Verge!Settings -> Calls \cup {"none"}] /\ done \in [Verge!Settings -> SUBSET BOOLEAN]
    BY DEF Verge!Init
  <2>4. draft = <<>> /\ file = committed /\ lock = "free" /\ quitting = "no"
        /\ dirty = FALSE /\ vergeCrossed = FALSE /\ lag = FALSE /\ raced = FALSE
    BY DEF Verge!Init
  <2>5. wants \in [Calls -> BOOLEAN]
    BY DEF Verge!Init
  <2>. QED BY <1>2, <1>5, <1>6, <2>1, <2>2, <2>3, <2>4, <2>5 DEF VergeTypes
<1>8. Locked
  BY DEF Verge!Init, Locked, VergeParameters
<1>. QED BY <1>7, <1>8 DEF VergeBase

LEMMA EditedTypes ==
  ASSUME VergeTypes, NEW c \in Calls \cup {"none"}, NEW S \in SUBSET Verge!Settings, Verge!Edited(c, S)
  PROVE  by' \in [Verge!Settings -> Calls \cup {"none"}] /\ done' \in [Verge!Settings -> SUBSET BOOLEAN]
BY DEF Verge!Edited, VergeTypes

LEMMA VergeBaseStep == VergeParameters /\ VergeBase /\ [Verge!Next]_Verge!vars => VergeBase'
<1> SUFFICES ASSUME VergeParameters, VergeTypes, Locked, [Verge!Next]_Verge!vars PROVE VergeBase'
  BY DEF VergeBase
<1> USE DEF VergeBase, Verge!refreshVars
<1>1. ASSUME NEW c \in Calls, NEW p \in Patches, NEW save \in SaveFlags, Verge!patch_verge(c, p, save)
      PROVE  VergeBase'
  <2>1. Verge!Patched(Verge!Latest, p) \in Bool /\ DOMAIN p \in SUBSET Verge!Settings
    BY VergeLatestType, PatchedType DEF VergeParameters
  <2>2. /\ vergePc[c] = "idle" /\ draft' = <<Verge!Patched(Verge!Latest, p)>>
        /\ vergePc' = [vergePc EXCEPT ![c] = "core"] /\ patch' = [patch EXCEPT ![c] = p]
        /\ saves' = [saves EXCEPT ![c] = save] /\ Verge!Edited(c, DOMAIN p)
        /\ UNCHANGED <<committed, file, data, Verge!proxyVars, Verge!refreshVars, quitting, dirty, vergeCrossed, lag>>
    BY <1>1 DEF Verge!patch_verge
  <2>3. /\ vergePc' \in [Calls -> VergeSteps] /\ patch' \in [Calls -> Patches \cup {<<>>}]
           /\ saves' \in [Calls -> BOOLEAN]
        /\ draft' \in {<<>>} \cup {<<cfg>> : cfg \in Bool}
    BY <2>1, <2>2 DEF VergeTypes, VergeParameters, VergeSteps
  <2>4. by' \in [Verge!Settings -> Calls \cup {"none"}] /\ done' \in [Verge!Settings -> SUBSET BOOLEAN]
    BY <2>1, <2>2, EditedTypes
  <2>5. VergeTypes'
    BY <2>2, <2>3, <2>4 DEF VergeTypes, Verge!proxyVars
  <2>6. Locked'
    BY <2>2 DEF Locked, VergeTypes, Verge!proxyVars, Verge!SYS_PROXY, Verge!Has
  <2>. QED BY <2>5, <2>6
<1>2. ASSUME NEW c \in Calls, Verge!save_webdav_config(c) PROVE VergeBase'
  <2>1. Verge!Goes(c, "save") /\ vergePc[c] = "idle" /\ committed' = Verge!Latest /\ draft' = <<>>
        /\ UNCHANGED <<file, data, Verge!proxyVars, Verge!refreshVars, quitting, Verge!history>>
    BY <1>2 DEF Verge!save_webdav_config
  <2>2. VergeTypes'
    BY <2>1, VergeLatestType, VergeGoesTypes DEF VergeTypes, VergeSteps, Verge!proxyVars, Verge!history
  <2>3. Locked'
    BY <2>1, GoesLocked DEF VergeSteps, Verge!proxyVars
  <2>. QED BY <2>2, <2>3
<1>3. ASSUME NEW c \in Calls, Verge!CoreDone(c) PROVE VergeBase'
  <2>1. Verge!Goes(c, "verge") /\ vergePc[c] = "core"
        /\ UNCHANGED <<Verge!draftVars, file, data, Verge!proxyVars, Verge!refreshVars, quitting, Verge!history>>
    BY <1>3 DEF Verge!CoreDone
  <2>2. VergeTypes'
    BY <2>1, VergeGoesTypes DEF VergeTypes, VergeSteps, Verge!proxyVars, Verge!history, Verge!draftVars
  <2>3. Locked'
    BY <2>1, GoesLocked DEF VergeSteps, Verge!proxyVars
  <2>. QED BY <2>2, <2>3
<1>4. ASSUME NEW c \in Calls, Verge!CoreFails(c) PROVE VergeBase'
  <2>1. Verge!Goes(c, "idle") /\ vergePc[c] = "core" /\ dirty' = TRUE
        /\ UNCHANGED <<Verge!draftVars, file, data, Verge!proxyVars, Verge!refreshVars, quitting, by, done, vergeCrossed, lag>>
    BY <1>4 DEF Verge!CoreFails, Verge!Refused
  <2>2. VergeTypes'
    BY <2>1, VergeGoesTypes DEF VergeTypes, VergeSteps, Verge!proxyVars, Verge!draftVars
  <2>3. Locked'
    BY <2>1, GoesLocked DEF VergeSteps, Verge!proxyVars
  <2>. QED BY <2>2, <2>3
<1>5. ASSUME NEW c \in Calls, Verge!EnableGlobalHotkey(c) PROVE VergeBase'
  <2> DEFINE w == IF Verge!SYS_PROXY(c) THEN "lock" ELSE "rest"
             h == IF Verge!Has(c, {"hotkey"}) THEN patch[c]["hotkey"] ELSE FALSE
  <2>1. Verge!Goes(c, w) /\ vergePc[c] = "verge" /\ w \in VergeSteps /\ (w = "lock" <=> Verge!SYS_PROXY(c))
        /\ w \in {"lock", "rest"}
        /\ UNCHANGED <<committed, file, data, Verge!proxyVars, Verge!refreshVars, quitting, dirty, vergeCrossed, lag>>
    BY <1>5 DEF Verge!EnableGlobalHotkey, VergeSteps
  <2>2. h \in BOOLEAN
    <3>1. patch[c] \in Patches \cup {<<>>}
      BY DEF VergeTypes
    <3>2. \A s \in DOMAIN patch[c] : patch[c][s] \in BOOLEAN
      BY <3>1 DEF VergeParameters
    <3>3. Verge!Has(c, {"hotkey"}) => "hotkey" \in DOMAIN patch[c]
      BY DEF Verge!Has
    <3>. QED BY <3>2, <3>3
  <2>3. \/ UNCHANGED <<draft, by, done>>
        \/ /\ draft' = <<[Verge!Latest EXCEPT !["hotkey"] = h]>>
           /\ Verge!Edited(IF Verge!Has(c, {"hotkey"}) THEN c ELSE "none", {"hotkey"})
    BY <1>5, Zenon DEF Verge!EnableGlobalHotkey
  <2> HIDE DEF w, h
  <2>4. [Verge!Latest EXCEPT !["hotkey"] = h] \in Bool
    BY <2>2, VergeLatestType DEF Bool, Verge!Settings
  <2>5. draft' \in {<<>>} \cup {<<cfg>> : cfg \in Bool}
    BY <2>3, <2>4 DEF VergeTypes
  <2>6. by' \in [Verge!Settings -> Calls \cup {"none"}] /\ done' \in [Verge!Settings -> SUBSET BOOLEAN]
    <3>1. (IF Verge!Has(c, {"hotkey"}) THEN c ELSE "none") \in Calls \cup {"none"}
          /\ {"hotkey"} \in SUBSET Verge!Settings
      BY DEF Verge!Settings
    <3>2. CASE UNCHANGED <<draft, by, done>>
      BY <3>2 DEF VergeTypes
    <3>3. CASE Verge!Edited(IF Verge!Has(c, {"hotkey"}) THEN c ELSE "none", {"hotkey"})
      BY <3>1, <3>3, EditedTypes
    <3>. QED BY <2>3, <3>2, <3>3
  <2>7. VergeTypes'
    BY <2>1, <2>5, <2>6, VergeGoesTypes DEF VergeTypes, Verge!proxyVars
  <2>8. Locked'
    BY <2>1, GoesLocked DEF Verge!proxyVars
  <2>. QED BY <2>7, <2>8
<1>6. ASSUME NEW c \in Calls, Verge!update_sysproxy(c) PROVE VergeBase'
  <2>1. /\ vergePc[c] = "lock" /\ lock = "free" /\ lock' = c /\ Verge!Goes(c, "apply")
        /\ sysGuard' = [sysGuard EXCEPT !.type = Verge!GuardType(Verge!Latest)]
        /\ steps' = [steps EXCEPT ![c] = Verge!ApplySteps(Verge!Latest)] /\ dirty' = FALSE
        /\ UNCHANGED <<Verge!draftVars, file, data, os, Verge!refreshVars, quitting, by, done, vergeCrossed, lag>>
    BY <1>6 DEF Verge!update_sysproxy
  <2>2. Verge!ApplySteps(Verge!Latest) \in Left /\ Verge!ApplySteps(Verge!Latest) # <<>>
        /\ steps' \in [Calls -> Left]
    BY <2>1, VergeLatestType, StepsTypes DEF VergeTypes
  <2>3. Verge!GuardType(Verge!Latest) \in {"none", "sys", "auto"}
    BY DEF Verge!GuardType
  <2>4. sysGuard' \in [type : {"none", "sys", "auto"}, running : BOOLEAN]
    BY <2>1, <2>3 DEF VergeTypes
  <2>5. VergeTypes'
    BY <2>1, <2>2, <2>4, VergeGoesTypes DEF VergeTypes, VergeSteps, Verge!draftVars
  <2>6. vergePc'[c] = "apply" /\ patch' = patch /\ \A d \in Calls \ {c} : vergePc'[d] = vergePc[d]
    BY <2>1, VergeGoesTypes DEF VergeSteps
  <2>7. \A d \in Calls : vergePc[d] # "apply"
    BY <2>1 DEF Locked, VergeParameters
  <2>8. Locked'
    BY <2>1, <2>2, <2>6, <2>7 DEF Locked, Verge!SYS_PROXY, Verge!Has, VergeTypes
  <2>. QED BY <2>5, <2>8
<1>7. ASSUME NEW c \in Calls, Verge!SetProxy(c) PROVE VergeBase'
  <2>1. /\ vergePc[c] = "apply" /\ lock = c
        /\ os' = [os EXCEPT ![steps[c][1][1]] = steps[c][1][2]]
        /\ steps' = [steps EXCEPT ![c] = Tail(@)]
        /\ UNCHANGED <<Verge!draftVars, file, data, sysGuard, Verge!refreshVars, quitting, Verge!history>>
    BY <1>7 DEF Verge!SetProxy, Locked
  <2>2. /\ steps[c] \in Left /\ steps[c] # <<>>
    BY <2>1 DEF VergeTypes, Locked
  <2>3. /\ steps[c][1][1] \in {"sys", "auto"} /\ steps[c][1][2] \in BOOLEAN
        /\ Tail(steps[c]) \in Left /\ (Len(steps[c]) = 1 <=> Tail(steps[c]) = <<>>)
    BY <2>2, StepsTypes
  <2>4. os' \in [sys : BOOLEAN, auto : BOOLEAN]
    BY <2>1, <2>3 DEF VergeTypes
  <2>5. steps' \in [Calls -> Left] /\ steps'[c] = Tail(steps[c]) /\ \A d \in Calls \ {c} : steps'[d] = steps[d]
    BY <2>1, <2>3 DEF VergeTypes
  <2>6. CASE Len(steps[c]) = 1
    <3>1. lock' = "free" /\ Verge!Goes(c, "refresh")
      BY <1>7, <2>6 DEF Verge!SetProxy
    <3>2. VergeTypes'
      BY <2>1, <2>4, <2>5, <3>1, VergeGoesTypes DEF VergeTypes, VergeSteps, Verge!draftVars, Verge!history
    <3>3. vergePc'[c] = "refresh" /\ patch' = patch /\ \A d \in Calls \ {c} : vergePc'[d] = vergePc[d]
      BY <3>1, VergeGoesTypes DEF VergeSteps
    <3>4. Locked'
      BY <2>1, <2>5, <3>1, <3>3 DEF Locked, Verge!SYS_PROXY, Verge!Has, VergeParameters
    <3>. QED BY <3>2, <3>4
  <2>7. CASE Len(steps[c]) # 1
    <3>1. UNCHANGED <<lock, Verge!callVars>>
      BY <1>7, <2>7 DEF Verge!SetProxy
    <3>2. VergeTypes'
      BY <2>1, <2>4, <2>5, <3>1 DEF VergeTypes, Verge!draftVars, Verge!history, Verge!callVars
    <3>3. Locked'
      BY <2>1, <2>3, <2>5, <2>7, <3>1 DEF Locked, Verge!SYS_PROXY, Verge!Has, Verge!callVars
    <3>. QED BY <3>2, <3>3
  <2>. QED BY <2>6, <2>7
<1>8. ASSUME NEW c \in Calls, Verge!SetProxyFails(c) PROVE VergeBase'
  <2>1. /\ vergePc[c] = "apply" /\ lock' = "free" /\ steps' = [steps EXCEPT ![c] = <<>>]
        /\ Verge!Goes(c, "idle") /\ dirty' = TRUE /\ lock = c
        /\ UNCHANGED <<Verge!draftVars, file, data, sysGuard, os, Verge!refreshVars, quitting, by, done, vergeCrossed, lag>>
    BY <1>8 DEF Verge!SetProxyFails, Verge!Refused, Locked
  <2>2. VergeTypes'
    BY <2>1, VergeGoesTypes DEF VergeTypes, VergeSteps, Verge!draftVars, Left
  <2>3. vergePc'[c] = "idle" /\ patch'[c] = <<>> /\ \A d \in Calls \ {c} : vergePc'[d] = vergePc[d]
        /\ patch'[d] = patch[d]
    BY <2>1, VergeGoesTypes DEF VergeSteps
  <2>4. Locked'
    BY <2>1, <2>3 DEF Locked, Verge!SYS_PROXY, Verge!Has, VergeParameters, VergeTypes
  <2>. QED BY <2>2, <2>4
<1>9. ASSUME NEW c \in Calls, Verge!refresh_guard(c) PROVE VergeBase'
  <2>1. /\ vergePc[c] = "refresh" /\ Verge!Goes(c, "guard")
        /\ wants' = [wants EXCEPT ![c] = Verge!Guarded(Verge!Latest)]
        /\ raced' = (\E d \in Calls : vergePc[d] = "guard" /\ wants[d] # Verge!Guarded(Verge!Latest))
        /\ UNCHANGED <<Verge!draftVars, file, data, Verge!proxyVars, quitting, Verge!history>>
    BY <1>9 DEF Verge!refresh_guard
  <2>2. Verge!Guarded(Verge!Latest) \in BOOLEAN
    BY DEF Verge!Guarded
  <2>3. wants' \in [Calls -> BOOLEAN] /\ raced' \in BOOLEAN
    BY <2>1, <2>2 DEF VergeTypes
  <2>4. VergeTypes'
    BY <2>1, <2>3, VergeGoesTypes DEF VergeTypes, VergeSteps, Verge!draftVars, Verge!proxyVars, Verge!history
  <2>5. Verge!SYS_PROXY(c) /\ UNCHANGED <<lock, steps>>
    BY <2>1 DEF Locked, Verge!proxyVars
  <2>6. Locked'
    BY <2>1, <2>5, GoesLocked DEF VergeSteps
  <2>. QED BY <2>4, <2>6
<1>22. ASSUME NEW c \in Calls, Verge!StartOrStop(c) PROVE VergeBase'
  <2>1. /\ vergePc[c] = "guard" /\ Verge!Goes(c, "rest")
           /\ sysGuard' = [sysGuard EXCEPT !.running = wants[c]]
        /\ wants' = [wants EXCEPT ![c] = FALSE]
        /\ UNCHANGED <<Verge!draftVars, file, data, lock, steps, os, raced, quitting, Verge!history>>
    BY <1>22 DEF Verge!StartOrStop
  <2>2. /\ sysGuard' \in [type : {"none", "sys", "auto"}, running : BOOLEAN]
        /\ wants' \in [Calls -> BOOLEAN]
    BY <2>1 DEF VergeTypes
  <2>3. VergeTypes'
    BY <2>1, <2>2, VergeGoesTypes DEF VergeTypes, VergeSteps, Verge!draftVars, Verge!history
  <2>4. Locked'
    BY <2>1, GoesLocked DEF VergeSteps
  <2>. QED BY <2>3, <2>4
<1>10. CASE Verge!GuardActs
  <2>1. sysGuard.type \in {"sys", "auto"} /\ os' = [os EXCEPT ![sysGuard.type] = TRUE]
        /\ UNCHANGED <<Verge!draftVars, file, Verge!callVars, data, lock, steps, sysGuard,
                       Verge!refreshVars, quitting, Verge!history>>
    BY <1>10 DEF Verge!GuardActs, VergeTypes
  <2>2. os' \in [sys : BOOLEAN, auto : BOOLEAN]
    BY <2>1 DEF VergeTypes
  <2>. QED BY <2>1, <2>2
              DEF VergeTypes, Locked, Verge!SYS_PROXY, Verge!Has, Verge!draftVars, Verge!callVars,
                  Verge!history
<1>11. ASSUME NEW c \in Calls, Verge!RestFails(c) PROVE VergeBase'
  <2>1. Verge!Goes(c, "idle") /\ vergePc[c] = "rest" /\ dirty' = TRUE
        /\ UNCHANGED <<Verge!draftVars, file, data, Verge!proxyVars, Verge!refreshVars, quitting, by, done, vergeCrossed, lag>>
    BY <1>11 DEF Verge!RestFails, Verge!Refused
  <2>2. VergeTypes'
    BY <2>1, VergeGoesTypes DEF VergeTypes, VergeSteps, Verge!proxyVars, Verge!draftVars
  <2>3. Locked'
    BY <2>1, GoesLocked DEF VergeSteps, Verge!proxyVars
  <2>. QED BY <2>2, <2>3
<1>12. ASSUME NEW c \in Calls, Verge!Apply(c) PROVE VergeBase'
  <2> DEFINE w == IF saves[c] THEN "save" ELSE "idle"
  <2>1. Verge!Goes(c, w) /\ vergePc[c] = "rest" /\ committed' = Verge!Latest /\ draft' = <<>> /\ Verge!Succeeded(c)
        /\ lag' = (lag \/ ~saves[c])
        /\ UNCHANGED <<file, data, Verge!proxyVars, Verge!refreshVars, quitting, dirty, vergeCrossed>>
    BY <1>12 DEF Verge!Apply
  <2>2. w \in VergeSteps /\ w \in {"save", "idle"}
    BY DEF VergeSteps
  <2>3. by' = by /\ done' \in [Verge!Settings -> SUBSET BOOLEAN]
    <3>1. \A s \in DOMAIN patch[c] : patch[c][s] \in BOOLEAN
      BY DEF VergeTypes, VergeParameters
    <3>. QED BY <2>1, <3>1 DEF Verge!Succeeded, VergeTypes
  <2> HIDE DEF w
  <2>4. VergeTypes'
    BY <2>1, <2>2, <2>3, VergeLatestType, VergeGoesTypes DEF VergeTypes, Verge!proxyVars
  <2>5. Locked'
    BY <2>1, <2>2, GoesLocked DEF Verge!proxyVars
  <2>. QED BY <2>4, <2>5
<1>13. ASSUME NEW c \in Calls, Verge!DataArc(c) PROVE VergeBase'
  <2>1. vergePc[c] = "save" /\ Verge!Goes(c, "write") /\ data' = [data EXCEPT ![c] = committed]
        /\ lag' = (\E d \in Calls \ {c} : vergePc[d] = "write")
        /\ UNCHANGED <<Verge!draftVars, file, Verge!proxyVars, Verge!refreshVars, quitting, by, done, dirty, vergeCrossed>>
    BY <1>13 DEF Verge!DataArc
  <2>2. data' \in [Calls -> Bool] /\ lag' \in BOOLEAN
    BY <2>1 DEF VergeTypes
  <2>3. VergeTypes'
    BY <2>1, <2>2, VergeGoesTypes DEF VergeTypes, VergeSteps, Verge!proxyVars, Verge!draftVars
  <2>4. Locked'
    BY <2>1, GoesLocked DEF VergeSteps, Verge!proxyVars
  <2>. QED BY <2>3, <2>4
<1>14. ASSUME NEW c \in Calls, Verge!SaveFile(c) PROVE VergeBase'
  <2>1. vergePc[c] = "write" /\ Verge!Goes(c, "idle") /\ file' = data[c]
        /\ UNCHANGED <<Verge!draftVars, data, Verge!proxyVars, Verge!refreshVars, quitting, Verge!history>>
    BY <1>14 DEF Verge!SaveFile
  <2>2. VergeTypes'
    BY <2>1, VergeGoesTypes DEF VergeTypes, VergeSteps, Verge!proxyVars, Verge!draftVars, Verge!history
  <2>3. Locked'
    BY <2>1, GoesLocked DEF VergeSteps, Verge!proxyVars
  <2>. QED BY <2>2, <2>3
<1>15. ASSUME NEW c \in Calls, Verge!SaveFails(c) PROVE VergeBase'
  <2>1. vergePc[c] = "write" /\ Verge!Goes(c, "idle") /\ lag' = TRUE
        /\ UNCHANGED <<Verge!draftVars, file, data, Verge!proxyVars, Verge!refreshVars, quitting, by, done, dirty, vergeCrossed>>
    BY <1>15 DEF Verge!SaveFails
  <2>2. VergeTypes'
    BY <2>1, VergeGoesTypes DEF VergeTypes, VergeSteps, Verge!proxyVars, Verge!draftVars
  <2>3. Locked'
    BY <2>1, GoesLocked DEF VergeSteps, Verge!proxyVars
  <2>. QED BY <2>2, <2>3
<1>16. CASE Verge!quit
  <2>1. (\E c \in Calls : Verge!SYS_PROXY(c)) \in BOOLEAN
    OBVIOUS
  <2>. QED BY <1>16, <2>1, VergeLatestType
              DEF Verge!quit, VergeTypes, Locked, Verge!SYS_PROXY, Verge!Has, Verge!callVars,
                  Verge!proxyVars
<1>17. CASE Verge!QuitSaves
  <2>1. (\E c \in Calls : vergePc[c] = "write") \in BOOLEAN
    OBVIOUS
  <2>. QED BY <1>17, <2>1
              DEF Verge!QuitSaves, VergeTypes, Locked, Verge!SYS_PROXY, Verge!Has, Verge!callVars,
                  Verge!proxyVars, Verge!draftVars
<1>18. CASE Verge!reset_sysproxy
  <2>1. \/ quitting' = "sys" /\ sysGuard' = [sysGuard EXCEPT !.type = "none"]
        \/ quitting' = "done" /\ sysGuard' = sysGuard
    BY <1>18 DEF Verge!reset_sysproxy
  <2>2. sysGuard' \in [type : {"none", "sys", "auto"}, running : BOOLEAN]
    BY <2>1 DEF VergeTypes
  <2>. QED BY <1>18, <2>1, <2>2
              DEF Verge!reset_sysproxy, VergeTypes, Locked, Verge!SYS_PROXY, Verge!Has, Verge!callVars,
                  Verge!draftVars, Verge!history
<1>19. CASE Verge!ResetStep
  <2>1. os' \in [sys : BOOLEAN, auto : BOOLEAN]
    BY <1>19 DEF Verge!ResetStep, VergeTypes
  <2>2. quitting' \in {"auto", "done"}
    BY <1>19 DEF Verge!ResetStep
  <2>. QED BY <1>19, <2>1, <2>2
              DEF Verge!ResetStep, VergeTypes, Locked, Verge!SYS_PROXY, Verge!Has, Verge!callVars,
                  Verge!draftVars, Verge!history
<1>20. CASE Verge!ResetFails
  BY <1>20
     DEF Verge!ResetFails, VergeTypes, Locked, Verge!SYS_PROXY, Verge!Has, Verge!callVars,
         Verge!draftVars, Verge!proxyVars
<1>21. CASE UNCHANGED Verge!vars
  BY <1>21
     DEF Verge!vars, VergeTypes, Locked, Verge!SYS_PROXY, Verge!Has, Verge!callVars, Verge!draftVars,
         Verge!proxyVars, Verge!history
<1>. QED
  BY <1>1, <1>2, <1>3, <1>4, <1>5, <1>6, <1>7, <1>8, <1>9, <1>10, <1>11, <1>12, <1>13, <1>14, <1>15,
     <1>16, <1>17, <1>18, <1>19, <1>20, <1>21, <1>22 DEF Verge!Next

-----------------------------------------------------------------------------
(* AcceptedIsCommitted: as long as nobody edits a setting again, what was  *)
(* committed of it is also what later drafts hold of it, and what its last *)
(* editor wants is what the draft holds.                                   *)
Held ==
  \A s \in Verge!Settings :
    /\ done[s] \subseteq {committed[s]} /\ done[s] \subseteq {Verge!Latest[s]}
    /\ \A c \in Calls : by[s] = c /\ s \in DOMAIN patch[c] => Verge!Latest[s] = patch[c][s]

(* Calls that go on or end, and those that commit what is in the draft.    *)
LEMMA CallsHold ==
  ASSUME Held, Verge!Latest' = Verge!Latest, committed' \in {committed, Verge!Latest},
         UNCHANGED <<by, done>>, \A d \in Calls : patch'[d] \in {patch[d], <<>>}
  PROVE  Held'
<1> SUFFICES ASSUME NEW s \in Verge!Settings
    PROVE  /\ done[s] \subseteq {committed'[s]} /\ done[s] \subseteq {Verge!Latest[s]}
           /\ \A c \in Calls : by[s] = c /\ s \in DOMAIN patch'[c] => Verge!Latest[s] = patch'[c][s]
  BY DEF Held
<1>1. done[s] \subseteq {committed'[s]} /\ done[s] \subseteq {Verge!Latest[s]}
  BY DEF Held
<1>2. ASSUME NEW c \in Calls, by[s] = c, s \in DOMAIN patch'[c]
      PROVE  Verge!Latest[s] = patch'[c][s]
  <2>1. patch'[c] = patch[c]
    BY <1>2
  <2>. QED BY <1>2, <2>1 DEF Held
<1>. QED BY <1>1, <1>2

(* What Goes does to the patches.                                          *)
LEMMA GoesPatches ==
  ASSUME VergeTypes, NEW c \in Calls, NEW w \in VergeSteps, Verge!Goes(c, w)
  PROVE  \A d \in Calls : patch'[d] \in {patch[d], <<>>}
BY VergeGoesTypes

LEMMA HeldStep == VergeParameters /\ VergeBase /\ Held /\ [Verge!Next]_Verge!vars => Held'
<1> SUFFICES ASSUME VergeParameters, VergeTypes, Locked, Held, [Verge!Next]_Verge!vars PROVE Held'
  BY DEF VergeBase
<1>0. ASSUME UNCHANGED <<committed, draft, by, done>>, \A d \in Calls : patch'[d] \in {patch[d], <<>>}
      PROVE  Held'
  <2>1. Verge!Latest' = Verge!Latest
    BY <1>0 DEF Verge!Latest
  <2>. QED BY <1>0, <2>1, CallsHold
<1>1. ASSUME NEW c \in Calls, NEW p \in Patches, NEW save \in SaveFlags, Verge!patch_verge(c, p, save)
      PROVE  Held'
  <2>1. /\ draft' = <<Verge!Patched(Verge!Latest, p)>> /\ patch' = [patch EXCEPT ![c] = p]
        /\ Verge!Edited(c, DOMAIN p) /\ committed' = committed /\ patch \in [Calls -> Patches \cup {<<>>}]
    BY <1>1 DEF Verge!patch_verge, VergeTypes
  <2>2. Verge!Latest' = Verge!Patched(Verge!Latest, p)
    BY <2>1 DEF Verge!Latest
  <2> SUFFICES ASSUME NEW s \in Verge!Settings
      PROVE  /\ done'[s] \subseteq {committed[s]} /\ done'[s] \subseteq {Verge!Latest'[s]}
             /\ \A d \in Calls : by'[s] = d /\ s \in DOMAIN patch'[d] => Verge!Latest'[s] = patch'[d][s]
    BY <2>1 DEF Held
  <2>3. CASE s \in DOMAIN p
    <3>1. done'[s] = {} /\ by'[s] = c /\ Verge!Latest'[s] = p[s] /\ patch'[c] = p
      BY <2>1, <2>2, <2>3 DEF Verge!Edited, Verge!Patched
    <3>. QED BY <3>1
  <2>4. CASE s \notin DOMAIN p
    <3>1. done'[s] = done[s] /\ by'[s] = by[s] /\ Verge!Latest'[s] = Verge!Latest[s]
      BY <2>1, <2>2, <2>4 DEF Verge!Edited, Verge!Patched
    <3>2. \A d \in Calls : s \in DOMAIN patch'[d] => patch'[d] = patch[d]
      BY <2>1, <2>4
    <3>. QED BY <3>1, <3>2 DEF Held
  <2>. QED BY <2>3, <2>4
<1>2. ASSUME NEW c \in Calls, Verge!save_webdav_config(c) PROVE Held'
  <2>1. Verge!Goes(c, "save") /\ committed' = Verge!Latest /\ draft' = <<>> /\ UNCHANGED <<by, done>>
    BY <1>2 DEF Verge!save_webdav_config, Verge!history
  <2>2. Verge!Latest' = Verge!Latest
    BY <2>1 DEF Verge!Latest
  <2>. QED BY <2>1, <2>2, GoesPatches, CallsHold DEF VergeSteps
<1>3. ASSUME NEW c \in Calls, Verge!CoreDone(c) PROVE Held'
  BY <1>0, <1>3, GoesPatches DEF Verge!CoreDone, VergeSteps, Verge!draftVars, Verge!history
<1>4. ASSUME NEW c \in Calls, Verge!CoreFails(c) PROVE Held'
  BY <1>0, <1>4, GoesPatches DEF Verge!CoreFails, Verge!Refused, VergeSteps, Verge!draftVars
<1>5. ASSUME NEW c \in Calls, Verge!EnableGlobalHotkey(c) PROVE Held'
  <2> DEFINE w == IF Verge!SYS_PROXY(c) THEN "lock" ELSE "rest"
             h == IF Verge!Has(c, {"hotkey"}) THEN patch[c]["hotkey"] ELSE FALSE
             e == IF Verge!Has(c, {"hotkey"}) THEN c ELSE "none"
  <2>1. Verge!Goes(c, w) /\ w \in VergeSteps /\ w # "idle" /\ committed' = committed
    BY <1>5 DEF Verge!EnableGlobalHotkey, VergeSteps
  <2>2. \/ UNCHANGED <<draft, by, done>>
        \/ draft' = <<[Verge!Latest EXCEPT !["hotkey"] = h]>> /\ Verge!Edited(e, {"hotkey"})
    BY <1>5, Zenon DEF Verge!EnableGlobalHotkey
  <2>3. e \in Calls => e = c /\ "hotkey" \in DOMAIN patch[c] /\ h = patch[c]["hotkey"]
    BY DEF Verge!Has, VergeParameters
  <2> HIDE DEF w, h, e
  <2>4. patch' = patch
    BY <2>1, VergeGoesTypes
  <2>5. CASE UNCHANGED <<draft, by, done>>
    BY <1>0, <2>1, <2>4, <2>5
  <2>6. CASE draft' = <<[Verge!Latest EXCEPT !["hotkey"] = h]>> /\ Verge!Edited(e, {"hotkey"})
    <3>1. Verge!Latest' = [Verge!Latest EXCEPT !["hotkey"] = h]
      BY <2>6 DEF Verge!Latest
    <3>2. Verge!Latest \in [Verge!Settings -> BOOLEAN]
      BY VergeLatestType DEF Bool
    <3> SUFFICES ASSUME NEW s \in Verge!Settings
        PROVE  /\ done'[s] \subseteq {committed[s]} /\ done'[s] \subseteq {Verge!Latest'[s]}
               /\ \A d \in Calls : by'[s] = d /\ s \in DOMAIN patch[d] => Verge!Latest'[s] = patch[d][s]
      BY <2>1, <2>4 DEF Held
    <3>3. CASE s = "hotkey"
      <4>1. done'[s] = {} /\ by'[s] = e /\ Verge!Latest'[s] = h
        BY <2>6, <3>1, <3>2, <3>3 DEF Verge!Edited
      <4>. QED BY <2>3, <3>3, <4>1
    <3>4. CASE s # "hotkey"
      <4>1. done'[s] = done[s] /\ by'[s] = by[s] /\ Verge!Latest'[s] = Verge!Latest[s]
        BY <2>6, <3>1, <3>2, <3>4 DEF Verge!Edited
      <4>. QED BY <4>1 DEF Held
    <3>. QED BY <3>3, <3>4
  <2>. QED BY <2>2, <2>5, <2>6
<1>6. ASSUME NEW c \in Calls, Verge!update_sysproxy(c) PROVE Held'
  BY <1>0, <1>6, GoesPatches DEF Verge!update_sysproxy, VergeSteps, Verge!draftVars
<1>7. ASSUME NEW c \in Calls, Verge!SetProxy(c) PROVE Held'
  <2>1. UNCHANGED <<Verge!draftVars, Verge!history>> /\ (Verge!Goes(c, "refresh") \/ patch' = patch)
    BY <1>7 DEF Verge!SetProxy, Verge!callVars
  <2>. QED BY <1>0, <2>1, GoesPatches DEF VergeSteps, Verge!draftVars, Verge!history
<1>8. ASSUME NEW c \in Calls, Verge!SetProxyFails(c) PROVE Held'
  BY <1>0, <1>8, GoesPatches DEF Verge!SetProxyFails, Verge!Refused, VergeSteps, Verge!draftVars
<1>9. ASSUME NEW c \in Calls, Verge!refresh_guard(c) PROVE Held'
  BY <1>0, <1>9, GoesPatches DEF Verge!refresh_guard, VergeSteps, Verge!draftVars, Verge!history
<1>18. ASSUME NEW c \in Calls, Verge!StartOrStop(c) PROVE Held'
  BY <1>0, <1>18, GoesPatches DEF Verge!StartOrStop, VergeSteps, Verge!draftVars, Verge!history
<1>10. CASE Verge!GuardActs
  BY <1>0, <1>10 DEF Verge!GuardActs, Verge!draftVars, Verge!history, Verge!callVars
<1>11. ASSUME NEW c \in Calls, Verge!RestFails(c) PROVE Held'
  BY <1>0, <1>11, GoesPatches DEF Verge!RestFails, Verge!Refused, VergeSteps, Verge!draftVars
<1>12. ASSUME NEW c \in Calls, Verge!Apply(c) PROVE Held'
  <2> DEFINE w == IF saves[c] THEN "save" ELSE "idle"
  <2>1. Verge!Goes(c, w) /\ w \in VergeSteps /\ committed' = Verge!Latest /\ draft' = <<>> /\ by' = by
        /\ done' = [s \in Verge!Settings |-> IF s \in DOMAIN patch[c] /\ by[s] = c THEN {patch[c][s]} ELSE done[s]]
    BY <1>12 DEF Verge!Apply, VergeSteps, Verge!Succeeded
  <2> HIDE DEF w
  <2>2. Verge!Latest' = Verge!Latest
    BY <2>1 DEF Verge!Latest
  <2>3. \A d \in Calls : patch'[d] \in {patch[d], <<>>}
    BY <2>1, GoesPatches
  <2> SUFFICES ASSUME NEW s \in Verge!Settings
      PROVE  /\ done'[s] \subseteq {Verge!Latest[s]}
             /\ \A d \in Calls : by[s] = d /\ s \in DOMAIN patch'[d] => Verge!Latest[s] = patch'[d][s]
    BY <2>1, <2>2 DEF Held
  <2>4. done'[s] \subseteq {Verge!Latest[s]}
    BY <2>1 DEF Held
  <2>5. ASSUME NEW d \in Calls, by[s] = d, s \in DOMAIN patch'[d]
        PROVE  Verge!Latest[s] = patch'[d][s]
    <3>1. patch'[d] = patch[d]
      BY <2>3, <2>5
    <3>. QED BY <2>5, <3>1 DEF Held
  <2>. QED BY <2>4, <2>5
<1>13. ASSUME NEW c \in Calls, Verge!DataArc(c) PROVE Held'
  BY <1>0, <1>13, GoesPatches DEF Verge!DataArc, VergeSteps, Verge!draftVars
<1>14. ASSUME NEW c \in Calls, Verge!SaveFile(c) PROVE Held'
  BY <1>0, <1>14, GoesPatches DEF Verge!SaveFile, VergeSteps, Verge!draftVars, Verge!history
<1>15. ASSUME NEW c \in Calls, Verge!SaveFails(c) PROVE Held'
  BY <1>0, <1>15, GoesPatches DEF Verge!SaveFails, VergeSteps, Verge!draftVars
<1>16. CASE Verge!quit
  <2>1. committed' = Verge!Latest /\ draft' = <<>> /\ UNCHANGED <<patch, by, done>>
    BY <1>16 DEF Verge!quit, Verge!callVars
  <2>2. Verge!Latest' = Verge!Latest
    BY <2>1 DEF Verge!Latest
  <2>. QED BY <2>1, <2>2, CallsHold
<1>17. CASE Verge!QuitSaves \/ Verge!reset_sysproxy \/ Verge!ResetStep \/ Verge!ResetFails \/ UNCHANGED Verge!vars
  BY <1>0, <1>17
     DEF Verge!QuitSaves, Verge!reset_sysproxy, Verge!ResetStep, Verge!ResetFails, Verge!vars,
         Verge!draftVars, Verge!callVars, Verge!history
<1>. QED
  BY <1>1, <1>2, <1>3, <1>4, <1>5, <1>6, <1>7, <1>8, <1>9, <1>10, <1>11, <1>12, <1>13, <1>14, <1>15,
     <1>16, <1>17, <1>18 DEF Verge!Next

(* A change that succeeded stays in the committed settings until somebody  *)
(* edits the setting again: a call that is refused meanwhile, and whose    *)
(* draft others commit, takes nothing of it back.                          *)
THEOREM VergeAccepted ==
  ASSUME VergeParameters
  PROVE  Verge!Spec => []Verge!AcceptedIsCommitted
<1>1. Verge!Init => VergeBase /\ Held
  <2> SUFFICES ASSUME Verge!Init PROVE Held
    BY VergeBaseInit
  <2>1. \A s \in Verge!Settings : done[s] = {}
    BY DEF Verge!Init
  <2>2. \A c \in Calls : patch[c] = <<>>
    BY DEF Verge!Init
  <2>3. \A c \in Calls, s \in Verge!Settings : s \notin DOMAIN patch[c]
    BY <2>2 DEF Verge!Settings
  <2>. QED BY <2>1, <2>3 DEF Held
<1>2. VergeBase /\ Held /\ [Verge!Next]_Verge!vars => (VergeBase /\ Held)'
  BY VergeBaseStep, HeldStep
<1>3. Held => Verge!AcceptedIsCommitted
  BY DEF Held, Verge!AcceptedIsCommitted
<1>. QED BY <1>1, <1>2, <1>3, PTL DEF Verge!Spec

-----------------------------------------------------------------------------
(* SystemFollows.  A change of the proxy that is not in force yet is one   *)
(* that a call still brings to update_sysproxy, or that was refused.  From *)
(* there on what the system has is what is wanted of it, but for the steps *)
(* that are left to do, and the guard is for what is wanted.  Nor do        *)
(* refreshes, from the read on, want anything else of the guard, unless    *)
(* two met that had read different settings: then the one that started or  *)
(* stopped it last has it.                                                 *)
Pending == \E c \in Calls : vergePc[c] \in {"core", "verge", "lock"} /\ Verge!SYS_PROXY(c)
Refreshing == \E c \in Calls : vergePc[c] \in {"apply", "refresh"}
Elems(q) == {q[i] : i \in DOMAIN q}
Rest == IF lock = "free" THEN {} ELSE Elems(steps[lock])

InForce ==
  /\ sysGuard.type = Verge!GuardType(Verge!Latest)
  /\ ~Refreshing /\ ~raced =>
       /\ \A c \in Calls : vergePc[c] = "guard" => wants[c] = Verge!Guarded(Verge!Latest)
       /\ (\A c \in Calls : vergePc[c] # "guard") => sysGuard.running = Verge!Guarded(Verge!Latest)
  /\ \A x \in Rest : x[2] = Verge!Wanted(Verge!Latest)[x[1]]
  /\ \A f \in {"sys", "auto"} : os[f] = Verge!Wanted(Verge!Latest)[f]
     \/ <<f, Verge!Wanted(Verge!Latest)[f]>> \in Rest

SystemInv == quitting = "no" /\ ~dirty /\ ~Pending => InForce

(* What is wanted depends on three of the settings.                        *)
LEMMA SameProxy ==
  ASSUME NEW a, NEW b, \A s \in Px : a[s] = b[s]
  PROVE  Verge!GuardType(a) = Verge!GuardType(b) /\ Verge!Guarded(a) = Verge!Guarded(b)
         /\ Verge!Wanted(a) = Verge!Wanted(b)
BY DEF Px, Verge!GuardType, Verge!Guarded, Verge!Wanted, Verge!SysProxy, Verge!AutoProxy

LEMMA ElemsOfSteps ==
  /\ \A q \in Left : q # <<>> => Elems(q) = {q[1]} \cup Elems(Tail(q))
  /\ Elems(<<>>) = {}
  /\ \A cfg \in Bool : Elems(Verge!ApplySteps(cfg)) = {<<"sys", Verge!Wanted(cfg)["sys"]>>, <<"auto", Verge!Wanted(cfg)["auto"]>>}
<1>1. ASSUME NEW q \in Left, q # <<>> PROVE Elems(q) = {q[1]} \cup Elems(Tail(q))
  <2>1. CASE \E a \in OneStep : q = <<a>>
    BY <2>1 DEF Elems
  <2>2. CASE \E a, b \in OneStep : q = <<a, b>>
    BY <2>2 DEF Elems
  <2>. QED BY <1>1, <2>1, <2>2 DEF Left
<1>2. Elems(<<>>) = {}
  BY DEF Elems
<1>3. ASSUME NEW cfg \in Bool
      PROVE  Elems(Verge!ApplySteps(cfg)) = {<<"sys", Verge!Wanted(cfg)["sys"]>>, <<"auto", Verge!Wanted(cfg)["auto"]>>}
  <2>1. \A a, b : Elems(<<a, b>>) = {a, b}
    <3> TAKE a, b
    <3>1. DOMAIN <<a, b>> = {1, 2} /\ <<a, b>>[1] = a /\ <<a, b>>[2] = b
      OBVIOUS
    <3> HIDE DEF Elems
    <3> DEFINE q == <<a, b>>
    <3>2. DOMAIN q = {1, 2} /\ q[1] = a /\ q[2] = b
      BY <3>1
    <3> HIDE DEF q
    <3>3. Elems(q) = {a, b}
      BY <3>2 DEF Elems
    <3>. QED BY <3>3 DEF q
  <2>2. CASE Verge!SysProxy(cfg)
    <3>1. Verge!Wanted(cfg)["sys"] = TRUE /\ Verge!Wanted(cfg)["auto"] = FALSE
      BY <2>2 DEF Verge!Wanted, Verge!AutoProxy, Verge!SysProxy, Bool, Verge!Settings
    <3>2. Verge!ApplySteps(cfg) = <<<<"auto", FALSE>>, <<"sys", TRUE>>>>
      BY <2>2 DEF Verge!ApplySteps
    <3>3. Elems(Verge!ApplySteps(cfg)) = {<<"auto", FALSE>>, <<"sys", TRUE>>}
      BY <2>1, <3>2, Zenon
    <3>. QED BY <3>1, <3>3
  <2>3. CASE ~Verge!SysProxy(cfg)
    <3>1. Verge!Wanted(cfg)["sys"] = FALSE /\ Verge!Wanted(cfg)["auto"] = Verge!AutoProxy(cfg)
      BY <2>3 DEF Verge!Wanted, Verge!SysProxy
    <3>2. Verge!ApplySteps(cfg) = <<<<"sys", FALSE>>, <<"auto", Verge!AutoProxy(cfg)>>>>
      BY <2>3 DEF Verge!ApplySteps
    <3>3. Elems(Verge!ApplySteps(cfg)) = {<<"sys", FALSE>>, <<"auto", Verge!AutoProxy(cfg)>>}
      BY <2>1, <3>2, Zenon
    <3>. QED BY <3>1, <3>3
  <2>. QED BY <2>2, <2>3
<1>. QED BY <1>1, <1>2, <1>3

(* A step that touches neither the proxy nor what is wanted of it, and     *)
(* loses no change on its way.                                             *)
LEMMA InForceStays ==
  ASSUME SystemInv, UNCHANGED <<lock, steps, sysGuard, os, wants, raced>>,
         \A s \in Px : Verge!Latest'[s] = Verge!Latest[s],
         quitting' = "no" => quitting = "no", ~dirty' => ~dirty, ~dirty' /\ Pending => Pending',
         \A c \in Calls : vergePc[c] \in {"apply", "refresh"} <=> vergePc'[c] \in {"apply", "refresh"},
         \A c \in Calls : vergePc[c] = "guard" <=> vergePc'[c] = "guard"
  PROVE  SystemInv'
<1> SUFFICES ASSUME quitting' = "no", ~dirty', ~Pending' PROVE InForce'
  BY DEF SystemInv
<1>1. InForce
  BY DEF SystemInv
<1>2. Verge!GuardType(Verge!Latest') = Verge!GuardType(Verge!Latest)
      /\ Verge!Guarded(Verge!Latest') = Verge!Guarded(Verge!Latest)
      /\ Verge!Wanted(Verge!Latest') = Verge!Wanted(Verge!Latest)
  BY SameProxy
<1>3. Rest' = Rest
  BY DEF Rest
<1>4. Verge!GuardType(Verge!Latest)' = Verge!GuardType(Verge!Latest)
      /\ Verge!Guarded(Verge!Latest)' = Verge!Guarded(Verge!Latest)
      /\ Verge!Wanted(Verge!Latest)' = Verge!Wanted(Verge!Latest)
  BY <1>2 DEF Verge!GuardType, Verge!Guarded, Verge!Wanted, Verge!SysProxy, Verge!AutoProxy
<1>5. Refreshing' = Refreshing
  BY DEF Refreshing
<1>. QED BY <1>1, <1>3, <1>4, <1>5 DEF InForce

(* A call goes on.                                                         *)
LEMMA GoesPending ==
  ASSUME VergeTypes, Locked, NEW c \in Calls, NEW w \in VergeSteps, Verge!Goes(c, w),
         vergePc[c] \in {"core", "verge", "lock"} /\ Verge!SYS_PROXY(c) => w \in {"core", "verge", "lock"}
  PROVE  Pending => Pending'
<1> SUFFICES ASSUME NEW d \in Calls, vergePc[d] \in {"core", "verge", "lock"}, Verge!SYS_PROXY(d) PROVE Pending'
  BY DEF Pending
<1>1. vergePc'[d] \in {"core", "verge", "lock"} /\ patch'[d] = patch[d]
  BY VergeGoesTypes
<1>. QED BY <1>1 DEF Pending, Verge!SYS_PROXY, Verge!Has

(* The same, when what is committed or drafted says the same of the proxy. *)
LEMMA GoesInForce ==
  ASSUME VergeTypes, Locked, SystemInv, NEW c \in Calls, NEW w \in VergeSteps, Verge!Goes(c, w),
         UNCHANGED <<lock, steps, sysGuard, os, wants, raced, quitting>>, ~dirty' => ~dirty,
         \A s \in Px : Verge!Latest'[s] = Verge!Latest[s],
         ~dirty' /\ vergePc[c] \in {"core", "verge", "lock"}
             /\ Verge!SYS_PROXY(c) => w \in {"core", "verge", "lock"},
         vergePc[c] \notin {"apply", "refresh", "guard"}, w \notin {"apply", "refresh", "guard"}
  PROVE  SystemInv'
<1>1. ~dirty' /\ Pending => Pending'
  BY GoesPending
<1>2. \A d \in Calls : /\ vergePc[d] \in {"apply", "refresh"} <=> vergePc'[d] \in {"apply", "refresh"}
                       /\ (vergePc[d] = "guard" <=> vergePc'[d] = "guard")
  <2>1. vergePc'[c] = w /\ \A d \in Calls \ {c} : vergePc'[d] = vergePc[d]
    BY VergeGoesTypes
  <2>. QED BY <2>1
<1>. QED BY <1>1, <1>2, InForceStays

LEMMA SystemStep == VergeParameters /\ VergeBase /\ SystemInv /\ [Verge!Next]_Verge!vars => SystemInv'
<1> SUFFICES ASSUME VergeParameters, VergeTypes, Locked, SystemInv, [Verge!Next]_Verge!vars PROVE SystemInv'
  BY DEF VergeBase
<1> USE DEF VergeBase, Verge!refreshVars
<1>1. ASSUME NEW c \in Calls, NEW p \in Patches, NEW save \in SaveFlags, Verge!patch_verge(c, p, save)
      PROVE  SystemInv'
  <2>1. /\ vergePc[c] = "idle" /\ draft' = <<Verge!Patched(Verge!Latest, p)>>
        /\ vergePc' = [vergePc EXCEPT ![c] = "core"] /\ patch' = [patch EXCEPT ![c] = p]
        /\ UNCHANGED <<lock, steps, sysGuard, os, wants, raced, quitting, dirty>>
        /\ vergePc \in [Calls -> VergeSteps] /\ patch \in [Calls -> Patches \cup {<<>>}]
    BY <1>1 DEF Verge!patch_verge, Verge!proxyVars, VergeTypes
  <2>2. Verge!Latest' = Verge!Patched(Verge!Latest, p)
    BY <2>1 DEF Verge!Latest
  <2>3. CASE Px \cap DOMAIN p # {}
    <3>1. vergePc'[c] = "core" /\ patch'[c] = p
      BY <2>1
    <3>2. Pending'
      BY <2>3, <3>1 DEF Pending, Verge!SYS_PROXY, Verge!Has, Px
    <3>. QED BY <3>2 DEF SystemInv
  <2>4. CASE Px \cap DOMAIN p = {}
    <3>1. \A s \in Px : Verge!Latest'[s] = Verge!Latest[s]
      BY <2>2, <2>4 DEF Verge!Patched, Px, Verge!Settings
    <3>2. \A d \in Calls : /\ vergePc[d] \in {"apply", "refresh"} <=> vergePc'[d] \in {"apply", "refresh"}
                         /\ vergePc[d] = "guard" <=> vergePc'[d] = "guard"
      BY <2>1
    <3>3. \A d \in Calls : vergePc[d] \in {"core", "verge", "lock"} => vergePc'[d] = vergePc[d]
          /\ patch'[d] = patch[d]
      BY <2>1
    <3>4. Pending => Pending'
      BY <3>3 DEF Pending, Verge!SYS_PROXY, Verge!Has
    <3>. QED BY <2>1, <3>1, <3>2, <3>4, InForceStays
  <2>. QED BY <2>3, <2>4
<1>2. ASSUME NEW c \in Calls, Verge!save_webdav_config(c) PROVE SystemInv'
  <2>1. vergePc[c] = "idle" /\ Verge!Goes(c, "save") /\ committed' = Verge!Latest /\ draft' = <<>>
        /\ UNCHANGED <<lock, steps, sysGuard, os, wants, raced, quitting, dirty>>
    BY <1>2 DEF Verge!save_webdav_config, Verge!proxyVars, Verge!history
  <2>2. Verge!Latest' = Verge!Latest
    BY <2>1 DEF Verge!Latest
  <2>. QED BY <2>1, <2>2, GoesInForce DEF VergeSteps
<1>3. ASSUME NEW c \in Calls, Verge!CoreDone(c) PROVE SystemInv'
  <2>1. vergePc[c] = "core" /\ Verge!Goes(c, "verge")
        /\ UNCHANGED <<committed, draft, lock, steps, sysGuard, os, wants, raced, quitting, dirty>>
    BY <1>3 DEF Verge!CoreDone, Verge!draftVars, Verge!proxyVars, Verge!history
  <2>2. Verge!Latest' = Verge!Latest
    BY <2>1 DEF Verge!Latest
  <2>. QED BY <2>1, <2>2, GoesInForce DEF VergeSteps
<1>4. ASSUME NEW c \in Calls, Verge!CoreFails(c) \/ Verge!SetProxyFails(c) \/ Verge!RestFails(c) PROVE SystemInv'
  BY <1>4 DEF Verge!CoreFails, Verge!SetProxyFails, Verge!RestFails, Verge!Refused, SystemInv
<1>5. ASSUME NEW c \in Calls, Verge!EnableGlobalHotkey(c) PROVE SystemInv'
  <2> DEFINE w == IF Verge!SYS_PROXY(c) THEN "lock" ELSE "rest"
             h == IF Verge!Has(c, {"hotkey"}) THEN patch[c]["hotkey"] ELSE FALSE
  <2>1. vergePc[c] = "verge" /\ Verge!Goes(c, w) /\ w \in VergeSteps /\ w \in {"lock", "rest"}
        /\ (Verge!SYS_PROXY(c) => w = "lock")
        /\ UNCHANGED <<committed, lock, steps, sysGuard, os, wants, raced, quitting, dirty>>
    BY <1>5 DEF Verge!EnableGlobalHotkey, VergeSteps, Verge!proxyVars
  <2>2. draft' = draft \/ draft' = <<[Verge!Latest EXCEPT !["hotkey"] = h]>>
    BY <1>5, Zenon DEF Verge!EnableGlobalHotkey
  <2> HIDE DEF w, h
  <2>3. Verge!Latest \in [Verge!Settings -> BOOLEAN]
    BY VergeLatestType DEF Bool
  <2>4. Verge!Latest' = Verge!Latest \/ Verge!Latest' = [Verge!Latest EXCEPT !["hotkey"] = h]
    BY <2>1, <2>2 DEF Verge!Latest
  <2>5. \A s \in Px : Verge!Latest'[s] = Verge!Latest[s]
    BY <2>3, <2>4 DEF Px, Verge!Settings
  <2>. QED BY <2>1, <2>5, GoesInForce
<1>6. ASSUME NEW c \in Calls, Verge!update_sysproxy(c) PROVE SystemInv'
  <2>1. /\ lock' = c /\ Verge!Goes(c, "apply") /\ sysGuard' = [sysGuard EXCEPT !.type = Verge!GuardType(Verge!Latest)]
        /\ steps' = [steps EXCEPT ![c] = Verge!ApplySteps(Verge!Latest)] /\ UNCHANGED <<committed, draft>>
        /\ steps \in [Calls -> Left] /\ sysGuard \in [type : {"none", "sys", "auto"}, running : BOOLEAN]
    BY <1>6 DEF Verge!update_sysproxy, Verge!draftVars, VergeTypes
  <2>2. Verge!Latest' = Verge!Latest
    BY <2>1 DEF Verge!Latest
  <2>3. sysGuard'.type = Verge!GuardType(Verge!Latest)
    BY <2>1
  <2>4. Refreshing'
    BY <2>1, VergeGoesTypes DEF VergeSteps, Refreshing
  <2>5. Rest' = Elems(Verge!ApplySteps(Verge!Latest))
    BY <2>1 DEF Rest, VergeParameters, Elems
  <2>6. Rest' = {<<"sys", Verge!Wanted(Verge!Latest)["sys"]>>, <<"auto", Verge!Wanted(Verge!Latest)["auto"]>>}
    BY <2>5, VergeLatestType, ElemsOfSteps
  <2>7. Verge!GuardType(Verge!Latest)' = Verge!GuardType(Verge!Latest)
        /\ Verge!Wanted(Verge!Latest)' = Verge!Wanted(Verge!Latest)
    BY <2>2 DEF Verge!GuardType, Verge!Wanted, Verge!SysProxy, Verge!AutoProxy
  <2>8. InForce'
    BY <2>3, <2>4, <2>6, <2>7 DEF InForce
  <2>. QED BY <2>8 DEF SystemInv
<1>7. ASSUME NEW c \in Calls, Verge!SetProxy(c) PROVE SystemInv'
  <2> DEFINE q == steps[c]
  <2>1. /\ vergePc[c] = "apply" /\ lock = c /\ os' = [os EXCEPT ![q[1][1]] = q[1][2]]
        /\ steps' = [steps EXCEPT ![c] = Tail(q)] /\ q # <<>> /\ q \in Left
        /\ UNCHANGED <<committed, draft, sysGuard, quitting, dirty>>
        /\ steps \in [Calls -> Left] /\ os \in [sys : BOOLEAN, auto : BOOLEAN]
    BY <1>7 DEF Verge!SetProxy, Locked, VergeTypes, Verge!draftVars, Verge!history
  <2>2. \/ Len(q) = 1 /\ lock' = "free" /\ Verge!Goes(c, "refresh")
        \/ Len(q) # 1 /\ lock' = lock /\ vergePc' = vergePc /\ patch' = patch
    BY <1>7 DEF Verge!SetProxy, Verge!callVars
  <2>3. Verge!Latest' = Verge!Latest
    BY <2>1 DEF Verge!Latest
  <2>4. steps'[c] = Tail(q) /\ (Len(q) = 1 <=> Tail(q) = <<>>) /\ q[1] \in OneStep /\ q[1][1] \in {"sys", "auto"}
    BY <2>1, StepsTypes
  <2>5. Rest = Elems(q) /\ Rest = {q[1]} \cup Elems(Tail(q))
    BY <2>1, ElemsOfSteps DEF Rest, VergeParameters
  <2>6. Rest' = Elems(Tail(q))
    <3>1. CASE Len(q) = 1
      BY <2>2, <2>4, <3>1, ElemsOfSteps DEF Rest
    <3>2. CASE Len(q) # 1
      <4>1. lock' = c /\ c # "free"
        BY <2>1, <2>2, <3>2 DEF VergeParameters
      <4>. QED BY <2>4, <4>1 DEF Rest, Elems
    <3>. QED BY <3>1, <3>2
  <2>7. Refreshing'
    <3>1. Verge!Goes(c, "refresh") => vergePc'[c] = "refresh"
      BY VergeGoesTypes DEF VergeSteps
    <3>. QED BY <2>1, <2>2, <3>1 DEF Refreshing
  <2>8. Pending => Pending'
    <3>1. CASE Verge!Goes(c, "refresh")
      BY <2>1, <3>1, GoesPending DEF VergeSteps
    <3>2. CASE vergePc' = vergePc /\ patch' = patch
      BY <3>2 DEF Pending, Verge!SYS_PROXY, Verge!Has
    <3>. QED BY <2>2, <3>1, <3>2
  <2> SUFFICES ASSUME quitting' = "no", ~dirty', ~Pending' PROVE InForce'
    BY DEF SystemInv
  <2>9. InForce
    BY <2>1, <2>8 DEF SystemInv
  <2>10. Verge!GuardType(Verge!Latest)' = Verge!GuardType(Verge!Latest)
         /\ Verge!Guarded(Verge!Latest)' = Verge!Guarded(Verge!Latest)
         /\ Verge!Wanted(Verge!Latest)' = Verge!Wanted(Verge!Latest)
    BY <2>3 DEF Verge!GuardType, Verge!Guarded, Verge!Wanted, Verge!SysProxy, Verge!AutoProxy
  <2> HIDE DEF q
  <2>11. ASSUME NEW f \in {"sys", "auto"}
         PROVE  os'[f] = Verge!Wanted(Verge!Latest)[f] \/ <<f, Verge!Wanted(Verge!Latest)[f]>> \in Rest'
    <3>1. CASE f = q[1][1]
      <4>1. os'[f] = q[1][2]
        BY <2>1, <2>4, <3>1
      <4>2. q[1][2] = Verge!Wanted(Verge!Latest)[f]
        BY <2>5, <2>9, <3>1 DEF InForce
      <4>. QED BY <4>1, <4>2
    <3>2. CASE f # q[1][1]
      <4>1. os'[f] = os[f]
        BY <2>1, <3>2
      <4>2. <<f, Verge!Wanted(Verge!Latest)[f]>> # q[1]
        BY <3>2
      <4>. QED BY <2>5, <2>6, <2>9, <4>1, <4>2 DEF InForce
    <3>. QED BY <3>1, <3>2
  <2>12. \A x \in Rest' : x[2] = Verge!Wanted(Verge!Latest)[x[1]]
    BY <2>5, <2>6, <2>9 DEF InForce
  <2>13. sysGuard'.type = Verge!GuardType(Verge!Latest)
    BY <2>1, <2>9 DEF InForce
  <2>. QED BY <2>7, <2>10, <2>11, <2>12, <2>13 DEF InForce
<1>8. ASSUME NEW c \in Calls, Verge!refresh_guard(c) PROVE SystemInv'
  <2> DEFINE on == Verge!Guarded(Verge!Latest)
  <2>1. /\ vergePc[c] = "refresh" /\ Verge!Goes(c, "guard")
        /\ wants' = [wants EXCEPT ![c] = on]
        /\ raced' = (\E d \in Calls : vergePc[d] = "guard" /\ wants[d] # on)
        /\ UNCHANGED <<committed, draft, lock, steps, sysGuard, os, quitting, dirty>>
        /\ wants \in [Calls -> BOOLEAN]
    BY <1>8 DEF Verge!refresh_guard, Verge!draftVars, Verge!proxyVars, Verge!history, VergeTypes
  <2>2. Verge!Latest' = Verge!Latest
    BY <2>1 DEF Verge!Latest
  <2>3. Pending => Pending'
    BY <2>1, GoesPending DEF VergeSteps
  <2>4. Verge!GuardType(Verge!Latest)' = Verge!GuardType(Verge!Latest) /\ Verge!Guarded(Verge!Latest)' = on
        /\ Verge!Wanted(Verge!Latest)' = Verge!Wanted(Verge!Latest)
    BY <2>2 DEF Verge!GuardType, Verge!Guarded, Verge!Wanted, Verge!SysProxy, Verge!AutoProxy
  <2>5. vergePc'[c] = "guard" /\ \A d \in Calls \ {c} : vergePc'[d] = vergePc[d]
    BY <2>1, VergeGoesTypes DEF VergeSteps
  <2> HIDE DEF on
  <2>6. ~raced' => \A d \in Calls : vergePc'[d] = "guard" => wants'[d] = on
    BY <2>1, <2>5
  <2>7. Rest' = Rest
    BY <2>1 DEF Rest
  <2>. QED BY <2>1, <2>3, <2>4, <2>5, <2>6, <2>7 DEF SystemInv, InForce
<1>14. ASSUME NEW c \in Calls, Verge!StartOrStop(c) PROVE SystemInv'
  <2>1. /\ vergePc[c] = "guard" /\ Verge!Goes(c, "rest")
           /\ sysGuard' = [sysGuard EXCEPT !.running = wants[c]]
        /\ wants' = [wants EXCEPT ![c] = FALSE]
        /\ UNCHANGED <<committed, draft, lock, steps, os, raced, quitting, dirty>>
        /\ wants \in [Calls -> BOOLEAN] /\ sysGuard \in [type : {"none", "sys", "auto"}, running : BOOLEAN]
    BY <1>14 DEF Verge!StartOrStop, Verge!draftVars, Verge!history, VergeTypes
  <2>2. Verge!Latest' = Verge!Latest
    BY <2>1 DEF Verge!Latest
  <2>3. Pending => Pending'
    BY <2>1, GoesPending DEF VergeSteps
  <2>4. Verge!GuardType(Verge!Latest)' = Verge!GuardType(Verge!Latest)
        /\ Verge!Guarded(Verge!Latest)' = Verge!Guarded(Verge!Latest)
        /\ Verge!Wanted(Verge!Latest)' = Verge!Wanted(Verge!Latest)
    BY <2>2 DEF Verge!GuardType, Verge!Guarded, Verge!Wanted, Verge!SysProxy, Verge!AutoProxy
  <2>5. vergePc'[c] = "rest" /\ \A d \in Calls \ {c} : vergePc'[d] = vergePc[d] /\ wants'[d] = wants[d]
    BY <2>1, VergeGoesTypes DEF VergeSteps
  <2>6. Rest' = Rest /\ (Refreshing => Refreshing')
    BY <2>1, <2>5 DEF Rest, Refreshing
  <2>7. sysGuard'.type = sysGuard.type /\ sysGuard'.running = wants[c]
    BY <2>1
  <2> SUFFICES ASSUME quitting' = "no", ~dirty', ~Pending' PROVE InForce'
    BY DEF SystemInv
  <2>8. InForce
    BY <2>1, <2>3 DEF SystemInv
  <2>9. ~Refreshing' /\ ~raced' =>
          /\ \A d \in Calls : vergePc'[d] = "guard" => wants'[d] = Verge!Guarded(Verge!Latest)
          /\ sysGuard'.running = Verge!Guarded(Verge!Latest)
    BY <2>1, <2>5, <2>6, <2>7, <2>8 DEF InForce
  <2>. QED BY <2>1, <2>4, <2>6, <2>7, <2>8, <2>9 DEF InForce
<1>9. CASE Verge!GuardActs
  <2>1. /\ sysGuard.type \in {"sys", "auto"} /\ os' = [os EXCEPT ![sysGuard.type] = TRUE]
        /\ UNCHANGED <<committed, draft, vergePc, patch, lock, steps, sysGuard, wants, raced, quitting, dirty>>
        /\ os \in [sys : BOOLEAN, auto : BOOLEAN]
    BY <1>9 DEF Verge!GuardActs, VergeTypes, Verge!draftVars, Verge!callVars, Verge!history
  <2>2. Verge!Latest' = Verge!Latest
    BY <2>1 DEF Verge!Latest
  <2>3. Rest' = Rest /\ Pending' = Pending /\ Refreshing' = Refreshing
    BY <2>1 DEF Rest, Pending, Refreshing, Verge!SYS_PROXY, Verge!Has
  <2>4. Verge!GuardType(Verge!Latest)' = Verge!GuardType(Verge!Latest)
        /\ Verge!Guarded(Verge!Latest)' = Verge!Guarded(Verge!Latest)
        /\ Verge!Wanted(Verge!Latest)' = Verge!Wanted(Verge!Latest)
    BY <2>2 DEF Verge!GuardType, Verge!Guarded, Verge!Wanted, Verge!SysProxy, Verge!AutoProxy
  <2>5. sysGuard.type = Verge!GuardType(Verge!Latest) => Verge!Wanted(Verge!Latest)[sysGuard.type] = TRUE
    <3>1. Verge!Latest \in [Verge!Settings -> BOOLEAN]
      BY VergeLatestType DEF Bool
    <3>2. CASE sysGuard.type = "auto" /\ sysGuard.type = Verge!GuardType(Verge!Latest)
      BY <3>1, <3>2 DEF Verge!GuardType, Verge!Wanted, Verge!SysProxy, Verge!AutoProxy, Verge!Settings
    <3>3. CASE sysGuard.type = "sys" /\ sysGuard.type = Verge!GuardType(Verge!Latest)
      BY <3>1, <3>3 DEF Verge!GuardType, Verge!Wanted, Verge!SysProxy, Verge!AutoProxy, Verge!Settings
    <3>. QED BY <2>1, <3>2, <3>3
  <2> SUFFICES ASSUME InForce PROVE InForce'
    BY <2>1, <2>3 DEF SystemInv
  <2>6. ASSUME NEW f \in {"sys", "auto"}
        PROVE  os'[f] = Verge!Wanted(Verge!Latest)[f] \/ <<f, Verge!Wanted(Verge!Latest)[f]>> \in Rest
    <3>1. CASE f = sysGuard.type
      <4>1. os'[f] = TRUE
        BY <2>1, <3>1
      <4>2. Verge!Wanted(Verge!Latest)[f] = TRUE
        BY <2>5, <3>1 DEF InForce
      <4>. QED BY <4>1, <4>2
    <3>2. CASE f # sysGuard.type
      <4>1. os'[f] = os[f]
        BY <2>1, <3>2
      <4>. QED BY <4>1 DEF InForce
    <3>. QED BY <3>1, <3>2
  <2>. QED BY <2>1, <2>3, <2>4, <2>6 DEF InForce
<1>10. ASSUME NEW c \in Calls, Verge!Apply(c) PROVE SystemInv'
  <2> DEFINE w == IF saves[c] THEN "save" ELSE "idle"
  <2>1. vergePc[c] = "rest" /\ Verge!Goes(c, w) /\ w \in VergeSteps /\ w \in {"save", "idle"}
        /\ committed' = Verge!Latest /\ draft' = <<>>
        /\ UNCHANGED <<lock, steps, sysGuard, os, wants, raced, quitting, dirty>>
    BY <1>10 DEF Verge!Apply, Verge!proxyVars, VergeSteps
  <2> HIDE DEF w
  <2>2. Verge!Latest' = Verge!Latest
    BY <2>1 DEF Verge!Latest
  <2>. QED BY <2>1, <2>2, GoesInForce
<1>11. ASSUME NEW c \in Calls, Verge!DataArc(c) \/ Verge!SaveFile(c) \/ Verge!SaveFails(c) PROVE SystemInv'
  <2>1. PICK w \in {"write", "idle"} :
           /\ vergePc[c] \in {"save", "write"} /\ Verge!Goes(c, w)
           /\ UNCHANGED <<committed, draft, lock, steps, sysGuard, os, wants, raced, quitting, dirty>>
    BY <1>11
       DEF Verge!DataArc, Verge!SaveFile, Verge!SaveFails, Verge!draftVars, Verge!proxyVars, Verge!history
  <2>2. Verge!Latest' = Verge!Latest
    BY <2>1 DEF Verge!Latest
  <2>3. w \in VergeSteps /\ w \notin {"apply", "refresh", "guard"}
    BY DEF VergeSteps
  <2>. QED BY <2>1, <2>2, <2>3, GoesInForce
<1>12. CASE Verge!quit \/ Verge!QuitSaves \/ Verge!reset_sysproxy \/ Verge!ResetStep \/ Verge!ResetFails
  <2>1. quitting' # "no"
    BY <1>12 DEF Verge!quit, Verge!QuitSaves, Verge!reset_sysproxy, Verge!ResetStep, Verge!ResetFails
  <2>. QED BY <2>1 DEF SystemInv
<1>13. CASE UNCHANGED Verge!vars
  <2>1. Verge!Latest' = Verge!Latest /\ Pending' = Pending
    BY <1>13
       DEF Verge!vars, Verge!draftVars, Verge!callVars, Verge!Latest, Pending, Verge!SYS_PROXY, Verge!Has
  <2>. QED BY <1>13, <2>1, InForceStays DEF Verge!vars, Verge!callVars, Verge!proxyVars, Verge!history
<1>. QED
  BY <1>1, <1>2, <1>3, <1>4, <1>5, <1>6, <1>7, <1>8, <1>9, <1>10, <1>11, <1>12, <1>13, <1>14 DEF Verge!Next

LEMMA SystemInit == VergeParameters /\ Verge!Init => SystemInv
<1> SUFFICES ASSUME VergeParameters, Verge!Init PROVE InForce
  BY DEF SystemInv
<1>1. Verge!Latest = committed /\ sysGuard.type = Verge!GuardType(committed)
      /\ sysGuard.running = Verge!Guarded(committed)
      /\ os = Verge!Wanted(committed) /\ Rest = {}
  BY DEF Verge!Init, Verge!Latest, Rest
<1>2. \A c \in Calls : vergePc[c] = "idle"
  BY DEF Verge!Init
<1>. QED BY <1>1, <1>2 DEF InForce

(* Once no call is under way and none was refused since, the system's      *)
(* proxy and what its guard is for are as the settings say, however the    *)
(* calls crossed, and the guard runs or not as they say unless two         *)
(* refreshes of it met that had read different settings.                   *)
THEOREM VergeSystem ==
  ASSUME VergeParameters
  PROVE  Verge!Spec => []Verge!SystemFollows
<1>1. Verge!Init => VergeBase /\ SystemInv
  BY VergeBaseInit, SystemInit
<1>2. VergeBase /\ SystemInv /\ [Verge!Next]_Verge!vars => (VergeBase /\ SystemInv)'
  BY VergeBaseStep, SystemStep
<1>3. VergeBase /\ SystemInv => Verge!SystemFollows
  <2> SUFFICES ASSUME VergeTypes, Locked, SystemInv, Verge!Quiet, quitting = "no", ~dirty
      PROVE  /\ os = Verge!Wanted(Verge!Latest) /\ sysGuard.type = Verge!GuardType(Verge!Latest)
             /\ ~raced => sysGuard.running = Verge!Guarded(Verge!Latest)
    BY DEF VergeBase, Verge!SystemFollows
  <2>1. \A c \in Calls : vergePc[c] = "idle"
    BY DEF Verge!Quiet
  <2>2. ~Pending /\ lock = "free"
    BY <2>1 DEF Pending, Locked, VergeTypes
  <2>3. InForce /\ Rest = {}
    BY <2>2 DEF SystemInv, Rest
  <2>4. sysGuard.type = Verge!GuardType(Verge!Latest)
        /\ (~raced => sysGuard.running = Verge!Guarded(Verge!Latest))
        /\ os.sys = Verge!Wanted(Verge!Latest).sys /\ os.auto = Verge!Wanted(Verge!Latest).auto
    BY <2>1, <2>3 DEF InForce, Refreshing
  <2>5. os = [sys |-> os.sys, auto |-> os.auto]
    BY DEF VergeTypes
  <2>6. Verge!Wanted(Verge!Latest) = [sys |-> Verge!Wanted(Verge!Latest).sys, auto |-> Verge!Wanted(Verge!Latest).auto]
    BY DEF Verge!Wanted
  <2>. QED BY <2>4, <2>5, <2>6
<1>. QED BY <1>1, <1>2, <1>3, PTL DEF Verge!Spec

-----------------------------------------------------------------------------
(* OffAfterQuit.  From quit() on nothing is pending: no call under way is  *)
(* about the proxy, so what is committed and what is drafted say the same  *)
(* of it, and only the guard and quit() itself still touch the system.     *)
QuitInv ==
  quitting # "no" /\ ~vergeCrossed =>
    /\ \A c \in Calls : ~Verge!SYS_PROXY(c)
    /\ \A s \in Px : committed[s] = Verge!Latest[s]
    /\ ~dirty => /\ quitting \in {"save", "clean"} => os = Verge!Wanted(committed)
                    /\ sysGuard.type = Verge!GuardType(committed)
                 /\ quitting \in {"sys", "auto"} => sysGuard.type = "none"
                 /\ quitting = "auto" => os.sys = FALSE
                 /\ quitting = "done" => os = [sys |-> FALSE, auto |-> FALSE]

(* A call that is not about the proxy goes on.                             *)
LEMMA QuitStays ==
  ASSUME QuitInv, UNCHANGED <<sysGuard, os, quitting, vergeCrossed>>, ~dirty' => ~dirty,
         quitting # "no" => \A c \in Calls : patch'[c] \in {patch[c], <<>>},
         \A s \in Px : Verge!Latest'[s] = Verge!Latest[s],
         committed' \in {committed, Verge!Latest}
  PROVE  QuitInv'
<1> SUFFICES ASSUME quitting # "no", ~vergeCrossed
    PROVE  /\ \A c \in Calls : Px \cap DOMAIN patch'[c] = {}
           /\ \A s \in Px : committed'[s] = Verge!Latest'[s]
           /\ ~dirty' => /\ quitting \in {"save", "clean"} => os = Verge!Wanted(committed')
                            /\ sysGuard.type = Verge!GuardType(committed')
                         /\ quitting \in {"sys", "auto"} => sysGuard.type = "none"
                         /\ quitting = "auto" => os.sys = FALSE
                         /\ quitting = "done" => os = [sys |-> FALSE, auto |-> FALSE]
  <2>1. /\ Verge!Wanted(committed)' = Verge!Wanted(committed')
           /\ Verge!GuardType(committed)' = Verge!GuardType(committed')
    BY DEF Verge!GuardType, Verge!Wanted, Verge!SysProxy, Verge!AutoProxy
  <2>. QED BY <2>1 DEF QuitInv, Verge!SYS_PROXY, Verge!Has, Px
<1>1. \A c \in Calls : Px \cap DOMAIN patch'[c] = {}
  <2> SUFFICES ASSUME NEW c \in Calls PROVE \A s \in Px : s \notin DOMAIN patch'[c]
    OBVIOUS
  <2>1. Px \cap DOMAIN patch[c] = {}
    BY DEF QuitInv, Verge!SYS_PROXY, Verge!Has, Px
  <2>. QED BY <2>1 DEF Px
<1>2. \A s \in Px : committed'[s] = committed[s] /\ committed'[s] = Verge!Latest'[s]
  BY DEF QuitInv
<1>3. Verge!GuardType(committed') = Verge!GuardType(committed) /\ Verge!Wanted(committed') = Verge!Wanted(committed)
  BY <1>2, SameProxy
<1>. QED BY <1>1, <1>2, <1>3 DEF QuitInv

LEMMA QuitStep == VergeParameters /\ VergeBase /\ SystemInv /\ QuitInv /\ [Verge!Next]_Verge!vars => QuitInv'
<1> SUFFICES ASSUME VergeParameters, VergeTypes, Locked, SystemInv, QuitInv, [Verge!Next]_Verge!vars PROVE QuitInv'
  BY DEF VergeBase
<1>0. committed \in {committed, Verge!Latest}
  OBVIOUS
<1>1. ASSUME NEW c \in Calls, NEW p \in Patches, NEW save \in SaveFlags, Verge!patch_verge(c, p, save)
      PROVE  QuitInv'
  BY <1>1 DEF Verge!patch_verge, QuitInv
<1>2. ASSUME NEW c \in Calls, Verge!save_webdav_config(c) PROVE QuitInv'
  BY <1>2 DEF Verge!save_webdav_config, QuitInv
<1>3. ASSUME NEW c \in Calls, Verge!CoreDone(c) \/ Verge!CoreFails(c) \/ Verge!RestFails(c) \/ Verge!DataArc(c)
             \/ Verge!SaveFile(c) \/ Verge!SaveFails(c)
      PROVE  QuitInv'
  <2>1. PICK w \in {"verge", "idle", "write"} :
          Verge!Goes(c, w) /\ UNCHANGED <<committed, draft, sysGuard, os, quitting, vergeCrossed>>
              /\ (~dirty' => ~dirty)
    <3>1. CASE Verge!CoreDone(c)
      BY <3>1 DEF Verge!CoreDone, Verge!draftVars, Verge!proxyVars, Verge!history
    <3>2. CASE Verge!CoreFails(c) \/ Verge!RestFails(c)
      BY <3>2 DEF Verge!CoreFails, Verge!RestFails, Verge!Refused, Verge!draftVars, Verge!proxyVars
    <3>3. CASE Verge!DataArc(c)
      BY <3>3 DEF Verge!DataArc, Verge!draftVars, Verge!proxyVars
    <3>4. CASE Verge!SaveFile(c)
      BY <3>4 DEF Verge!SaveFile, Verge!draftVars, Verge!proxyVars, Verge!history
    <3>5. CASE Verge!SaveFails(c)
      BY <3>5 DEF Verge!SaveFails, Verge!draftVars, Verge!proxyVars
    <3>. QED BY <1>3, <3>1, <3>2, <3>3, <3>4, <3>5
  <2>2. Verge!Latest' = Verge!Latest /\ w \in VergeSteps
    BY <2>1 DEF Verge!Latest, VergeSteps
  <2>3. \A d \in Calls : patch'[d] \in {patch[d], <<>>}
    BY <2>1, <2>2, GoesPatches
  <2>. QED BY <2>1, <2>2, <2>3, QuitStays
<1>4. ASSUME NEW c \in Calls, Verge!EnableGlobalHotkey(c) PROVE QuitInv'
  <2> DEFINE w == IF Verge!SYS_PROXY(c) THEN "lock" ELSE "rest"
             h == IF Verge!Has(c, {"hotkey"}) THEN patch[c]["hotkey"] ELSE FALSE
  <2>1. Verge!Goes(c, w) /\ w \in VergeSteps /\ UNCHANGED <<committed, sysGuard, os, quitting, dirty, vergeCrossed>>
    BY <1>4 DEF Verge!EnableGlobalHotkey, VergeSteps, Verge!proxyVars
  <2>2. draft' = draft \/ draft' = <<[Verge!Latest EXCEPT !["hotkey"] = h]>>
    BY <1>4, Zenon DEF Verge!EnableGlobalHotkey
  <2> HIDE DEF w, h
  <2>3. Verge!Latest \in [Verge!Settings -> BOOLEAN]
    BY VergeLatestType DEF Bool
  <2>4. Verge!Latest' = Verge!Latest \/ Verge!Latest' = [Verge!Latest EXCEPT !["hotkey"] = h]
    BY <2>1, <2>2 DEF Verge!Latest
  <2>5. \A s \in Px : Verge!Latest'[s] = Verge!Latest[s]
    BY <2>3, <2>4 DEF Px, Verge!Settings
  <2>. QED BY <2>1, <2>5, GoesPatches, QuitStays
<1>5. ASSUME NEW c \in Calls, Verge!update_sysproxy(c) \/ Verge!SetProxy(c) \/ Verge!SetProxyFails(c)
             \/ Verge!refresh_guard(c) \/ Verge!StartOrStop(c)
      PROVE  QuitInv'
  <2>2. vergePc[c] \in {"lock", "apply", "refresh", "guard"} /\ UNCHANGED <<quitting, vergeCrossed>>
    BY <1>5
       DEF Verge!update_sysproxy, Verge!SetProxy, Verge!SetProxyFails, Verge!refresh_guard,
           Verge!StartOrStop, Verge!history
  <2>3. Verge!SYS_PROXY(c)
    BY <2>2 DEF Locked
  <2>. QED BY <2>2, <2>3 DEF QuitInv
<1>6. CASE Verge!GuardActs
  <2>1. /\ sysGuard.type \in {"sys", "auto"} /\ os' = [os EXCEPT ![sysGuard.type] = TRUE] /\ quitting # "done"
        /\ UNCHANGED <<committed, draft, patch, sysGuard, quitting, dirty, vergeCrossed>>
        /\ os \in [sys : BOOLEAN, auto : BOOLEAN]
    BY <1>6 DEF Verge!GuardActs, VergeTypes, Verge!draftVars, Verge!callVars, Verge!history
  <2>2. Verge!Latest' = Verge!Latest
    BY <2>1 DEF Verge!Latest
  <2>3. sysGuard.type = Verge!GuardType(committed) /\ os = Verge!Wanted(committed) => os' = os
    <3> SUFFICES ASSUME sysGuard.type = Verge!GuardType(committed), os = Verge!Wanted(committed) PROVE os' = os
      OBVIOUS
    <3>1. committed \in [Verge!Settings -> BOOLEAN]
      BY DEF VergeTypes, Bool
    <3>2. os[sysGuard.type] = TRUE
      BY <2>1, <3>1 DEF Verge!GuardType, Verge!Wanted, Verge!SysProxy, Verge!AutoProxy, Verge!Settings
    <3>. QED BY <2>1, <3>2
  <2>4. Verge!Wanted(committed)' = Verge!Wanted(committed)
        /\ Verge!GuardType(committed)' = Verge!GuardType(committed)
    BY <2>1 DEF Verge!GuardType, Verge!Wanted, Verge!SysProxy, Verge!AutoProxy
  <2>. QED BY <2>1, <2>2, <2>3, <2>4 DEF QuitInv, Verge!SYS_PROXY, Verge!Has, VergeTypes
<1>7. ASSUME NEW c \in Calls, Verge!Apply(c) PROVE QuitInv'
  <2> DEFINE w == IF saves[c] THEN "save" ELSE "idle"
  <2>1. Verge!Goes(c, w) /\ w \in VergeSteps /\ committed' = Verge!Latest /\ draft' = <<>>
        /\ UNCHANGED <<sysGuard, os, quitting, dirty, vergeCrossed>>
    BY <1>7 DEF Verge!Apply, Verge!proxyVars, VergeSteps
  <2> HIDE DEF w
  <2>2. Verge!Latest' = Verge!Latest
    BY <2>1 DEF Verge!Latest
  <2>. QED BY <2>1, <2>2, GoesPatches, QuitStays
<1>8. CASE Verge!quit
  <2>1. /\ quitting = "no" /\ quitting' = "save" /\ committed' = Verge!Latest /\ draft' = <<>>
        /\ vergeCrossed' = (\E c \in Calls : Verge!SYS_PROXY(c))
           /\ UNCHANGED <<vergePc, patch, lock, steps, sysGuard, os, dirty>>
    BY <1>8 DEF Verge!quit, Verge!callVars, Verge!proxyVars
  <2>2. Verge!Latest' = Verge!Latest
    BY <2>1 DEF Verge!Latest
  <2> SUFFICES ASSUME \A c \in Calls : ~Verge!SYS_PROXY(c)
      PROVE  ~dirty => os = Verge!Wanted(Verge!Latest) /\ sysGuard.type = Verge!GuardType(Verge!Latest)
    <3>1. Verge!Wanted(committed)' = Verge!Wanted(Verge!Latest)
          /\ Verge!GuardType(committed)' = Verge!GuardType(Verge!Latest)
      BY <2>1 DEF Verge!GuardType, Verge!Wanted, Verge!SysProxy, Verge!AutoProxy
    <3>. QED BY <2>1, <2>2, <3>1 DEF QuitInv, Verge!SYS_PROXY, Verge!Has
  <2>3. ~Pending /\ lock = "free"
    BY DEF Pending, Locked, VergeTypes
  <2> SUFFICES ASSUME ~dirty PROVE os = Verge!Wanted(Verge!Latest) /\ sysGuard.type = Verge!GuardType(Verge!Latest)
    OBVIOUS
  <2>4. InForce /\ Rest = {}
    BY <2>1, <2>3 DEF SystemInv, Rest
  <2>5. sysGuard.type = Verge!GuardType(Verge!Latest) /\ os.sys = Verge!Wanted(Verge!Latest).sys
        /\ os.auto = Verge!Wanted(Verge!Latest).auto
    BY <2>4 DEF InForce
  <2>6. os = [sys |-> os.sys, auto |-> os.auto]
    BY DEF VergeTypes
  <2>7. Verge!Wanted(Verge!Latest) = [sys |-> Verge!Wanted(Verge!Latest).sys, auto |-> Verge!Wanted(Verge!Latest).auto]
    BY DEF Verge!Wanted
  <2>. QED BY <2>5, <2>6, <2>7
<1>9. CASE Verge!QuitSaves
  <2>1. quitting = "save" /\ quitting' = "clean"
        /\ UNCHANGED <<committed, draft, patch, sysGuard, os, dirty, vergeCrossed>>
    BY <1>9 DEF Verge!QuitSaves, Verge!draftVars, Verge!callVars, Verge!proxyVars
  <2>2. Verge!Latest' = Verge!Latest
    BY <2>1 DEF Verge!Latest
  <2>3. Verge!Wanted(committed)' = Verge!Wanted(committed)
        /\ Verge!GuardType(committed)' = Verge!GuardType(committed)
    BY <2>1 DEF Verge!GuardType, Verge!Wanted, Verge!SysProxy, Verge!AutoProxy
  <2>. QED BY <2>1, <2>2, <2>3 DEF QuitInv, Verge!SYS_PROXY, Verge!Has
<1>10. CASE Verge!reset_sysproxy
  <2>1. quitting = "clean" /\ UNCHANGED <<committed, draft, patch, os, dirty, vergeCrossed>>
    BY <1>10 DEF Verge!reset_sysproxy, Verge!draftVars, Verge!callVars, Verge!history
  <2>2. Verge!Latest' = Verge!Latest
    BY <2>1 DEF Verge!Latest
  <2>3. CASE committed["proxy"]
    <3>1. quitting' = "sys" /\ sysGuard' = [sysGuard EXCEPT !.type = "none"]
      BY <1>10, <2>3 DEF Verge!reset_sysproxy
    <3>2. sysGuard'.type = "none"
      BY <3>1 DEF VergeTypes
    <3>. QED BY <2>1, <2>2, <3>1, <3>2 DEF QuitInv, Verge!SYS_PROXY, Verge!Has
  <2>4. CASE ~committed["proxy"]
    <3>1. quitting' = "done"
      BY <1>10, <2>4 DEF Verge!reset_sysproxy
    <3>2. Verge!Wanted(committed) = [sys |-> FALSE, auto |-> FALSE]
      BY <2>4 DEF Verge!Wanted, Verge!SysProxy, Verge!AutoProxy
    <3>. QED BY <2>1, <2>2, <3>1, <3>2 DEF QuitInv, Verge!SYS_PROXY, Verge!Has
  <2>. QED BY <2>3, <2>4
<1>11. CASE Verge!ResetStep
  <2>1. /\ quitting \in {"sys", "auto"} /\ os' = [os EXCEPT ![quitting] = FALSE]
        /\ quitting' = (IF quitting = "sys" THEN "auto" ELSE "done")
        /\ UNCHANGED <<committed, draft, patch, sysGuard, dirty, vergeCrossed>>
        /\ os \in [sys : BOOLEAN, auto : BOOLEAN]
    BY <1>11 DEF Verge!ResetStep, Verge!draftVars, Verge!callVars, Verge!history, VergeTypes
  <2>2. Verge!Latest' = Verge!Latest
    BY <2>1 DEF Verge!Latest
  <2>3. quitting = "sys" => quitting' = "auto" /\ os'.sys = FALSE
    BY <2>1
  <2>4. quitting = "auto" /\ os.sys = FALSE => quitting' = "done" /\ os' = [sys |-> FALSE, auto |-> FALSE]
    BY <2>1
  <2>. QED BY <2>1, <2>2, <2>3, <2>4 DEF QuitInv, Verge!SYS_PROXY, Verge!Has
<1>12. CASE Verge!ResetFails
  <2>1. quitting # "no" /\ quitting' = "done" /\ dirty' = TRUE
        /\ UNCHANGED <<committed, draft, patch, vergeCrossed>>
    BY <1>12 DEF Verge!ResetFails, Verge!draftVars, Verge!callVars
  <2>2. Verge!Latest' = Verge!Latest
    BY <2>1 DEF Verge!Latest
  <2>. QED BY <2>1, <2>2 DEF QuitInv, Verge!SYS_PROXY, Verge!Has
<1>13. CASE UNCHANGED Verge!vars
  <2>1. Verge!Latest' = Verge!Latest
    BY <1>13 DEF Verge!vars, Verge!draftVars, Verge!Latest
  <2>. QED BY <1>13, <2>1, QuitStays
              DEF Verge!vars, Verge!draftVars, Verge!callVars, Verge!proxyVars, Verge!history
<1>. QED
  BY <1>1, <1>2, <1>3, <1>4, <1>5, <1>6, <1>7, <1>8, <1>9, <1>10, <1>11, <1>12, <1>13 DEF Verge!Next

(* The application leaves no proxy behind when it ends, unless a change of *)
(* the proxy was under way when the user quit, or one had been refused.    *)
THEOREM VergeOffAfterQuit ==
  ASSUME VergeParameters
  PROVE  Verge!Spec => []Verge!OffAfterQuit
<1>1. Verge!Init => VergeBase /\ SystemInv /\ QuitInv
  <2>1. Verge!Init => QuitInv
    BY DEF Verge!Init, QuitInv
  <2>. QED BY <2>1, VergeBaseInit, SystemInit
<1>2. VergeBase /\ SystemInv /\ QuitInv /\ [Verge!Next]_Verge!vars => (VergeBase /\ SystemInv /\ QuitInv)'
  BY VergeBaseStep, SystemStep, QuitStep
<1>3. QuitInv => Verge!OffAfterQuit
  BY DEF QuitInv, Verge!OffAfterQuit
<1>. QED BY <1>1, <1>2, <1>3, PTL DEF Verge!Spec

-----------------------------------------------------------------------------
(* FileFollows.  As long as no save failed, was left out or met another    *)
(* one, at most one call is writing, and unless somebody is still to save, *)
(* what it writes, or what is in the file, is what is committed.           *)
Writers == {c \in Calls : vergePc[c] = "write"}
FileInv ==
  ~lag =>
    /\ \A c, d \in Writers : c = d
    /\ (\A c \in Calls : vergePc[c] # "save") /\ quitting # "save" =>
         /\ \A c \in Writers : data[c] = committed
         /\ Writers = {} => file = committed

(* Steps of calls that are not about to save, and of quit().               *)
LEMMA FileStays ==
  ASSUME FileInv, ~lag' => ~lag, UNCHANGED <<committed, file, data>>,
         quitting' \in {quitting} \cup {"sys", "auto", "done"}, quitting' # quitting => quitting # "save",
         \A d \in Calls : (vergePc'[d] = "write" <=> vergePc[d] = "write")
             /\ (vergePc'[d] = "save" <=> vergePc[d] = "save")
  PROVE  FileInv'
<1>1. Writers' = Writers
  BY DEF Writers
<1>. QED BY <1>1 DEF FileInv

LEMMA FileStep == VergeParameters /\ VergeBase /\ FileInv /\ [Verge!Next]_Verge!vars => FileInv'
<1> SUFFICES ASSUME VergeParameters, VergeTypes, Locked, FileInv, [Verge!Next]_Verge!vars PROVE FileInv'
  BY DEF VergeBase
<1>1. ASSUME NEW c \in Calls, NEW p \in Patches, NEW save \in SaveFlags, Verge!patch_verge(c, p, save)
      PROVE  FileInv'
  <2>1. /\ vergePc[c] = "idle" /\ vergePc' = [vergePc EXCEPT ![c] = "core"] /\ vergePc \in [Calls -> VergeSteps]
        /\ UNCHANGED <<committed, file, data, quitting, lag>>
    BY <1>1 DEF Verge!patch_verge, VergeTypes
  <2>. QED BY <2>1, FileStays
<1>2. ASSUME NEW c \in Calls,
             Verge!CoreDone(c) \/ Verge!CoreFails(c) \/ Verge!EnableGlobalHotkey(c) \/ Verge!update_sysproxy(c)
                 \/ Verge!SetProxyFails(c)
               \/ Verge!refresh_guard(c) \/ Verge!StartOrStop(c) \/ Verge!RestFails(c)
      PROVE  FileInv'
  <2>1. PICK w \in VergeSteps \ {"save", "write"} :
          Verge!Goes(c, w) /\ vergePc[c] \notin {"save", "write"}
              /\ UNCHANGED <<committed, file, data, quitting, lag>>
    BY <1>2
       DEF Verge!CoreDone, Verge!CoreFails, Verge!EnableGlobalHotkey, Verge!update_sysproxy,
           Verge!SetProxyFails, Verge!refresh_guard, Verge!StartOrStop, Verge!RestFails,
         Verge!Refused, VergeSteps, Verge!draftVars, Verge!proxyVars, Verge!history
  <2>2. vergePc'[c] = w /\ \A d \in Calls \ {c} : vergePc'[d] = vergePc[d]
    BY <2>1, VergeGoesTypes
  <2>. QED BY <2>1, <2>2, FileStays
<1>3. ASSUME NEW c \in Calls, Verge!SetProxy(c) PROVE FileInv'
  <2>1. vergePc[c] = "apply" /\ UNCHANGED <<committed, file, data, quitting, lag>>
        /\ (Verge!Goes(c, "refresh") \/ vergePc' = vergePc)
    BY <1>3 DEF Verge!SetProxy, Verge!draftVars, Verge!history, Verge!callVars
  <2>2. CASE Verge!Goes(c, "refresh")
    <3>1. vergePc'[c] = "refresh" /\ \A d \in Calls \ {c} : vergePc'[d] = vergePc[d]
      BY <2>2, VergeGoesTypes DEF VergeSteps
    <3>. QED BY <2>1, <3>1, FileStays
  <2>3. CASE vergePc' = vergePc
    BY <2>1, <2>3, FileStays
  <2>. QED BY <2>1, <2>2, <2>3
<1>4. ASSUME NEW c \in Calls, Verge!save_webdav_config(c) PROVE FileInv'
  <2>1. vergePc[c] = "idle" /\ Verge!Goes(c, "save") /\ lag' = lag
    BY <1>4 DEF Verge!save_webdav_config, Verge!history
  <2>2. vergePc'[c] = "save" /\ \A d \in Calls \ {c} : vergePc'[d] = vergePc[d]
    BY <2>1, VergeGoesTypes DEF VergeSteps
  <2>3. Writers' = Writers
    BY <2>1, <2>2 DEF Writers
  <2>. QED BY <2>1, <2>2, <2>3 DEF FileInv
<1>5. ASSUME NEW c \in Calls, Verge!Apply(c) PROVE FileInv'
  <2> DEFINE w == IF saves[c] THEN "save" ELSE "idle"
  <2>1. vergePc[c] = "rest" /\ Verge!Goes(c, w) /\ w \in VergeSteps /\ lag' = (lag \/ ~saves[c])
    BY <1>5 DEF Verge!Apply, VergeSteps
  <2>2. ~lag' => ~lag /\ w = "save"
    BY <2>1
  <2>3. w # "write"
    OBVIOUS
  <2> HIDE DEF w
  <2>4. vergePc'[c] = w /\ \A d \in Calls \ {c} : vergePc'[d] = vergePc[d]
    BY <2>1, VergeGoesTypes
  <2>5. Writers' = Writers
    BY <2>1, <2>3, <2>4 DEF Writers
  <2>. QED BY <2>2, <2>4, <2>5 DEF FileInv
<1>6. ASSUME NEW c \in Calls, Verge!DataArc(c) PROVE FileInv'
  <2>1. /\ vergePc[c] = "save" /\ Verge!Goes(c, "write") /\ data' = [data EXCEPT ![c] = committed]
        /\ lag' = (\E d \in Calls \ {c} : vergePc[d] = "write") /\ committed' = committed
           /\ data \in [Calls -> Bool]
    BY <1>6 DEF Verge!DataArc, Verge!draftVars, VergeTypes
  <2>2. vergePc'[c] = "write" /\ \A d \in Calls \ {c} : vergePc'[d] = vergePc[d]
    BY <2>1, VergeGoesTypes DEF VergeSteps
  <2>3. ~lag' => Writers' = {c}
    BY <2>1, <2>2 DEF Writers
  <2>4. data'[c] = committed'
    BY <2>1
  <2>. QED BY <2>3, <2>4 DEF FileInv
<1>7. ASSUME NEW c \in Calls, Verge!SaveFile(c) PROVE FileInv'
  <2>1. vergePc[c] = "write" /\ Verge!Goes(c, "idle") /\ file' = data[c]
        /\ UNCHANGED <<committed, data, quitting, lag>>
    BY <1>7 DEF Verge!SaveFile, Verge!draftVars, Verge!history
  <2>2. vergePc'[c] = "idle" /\ \A d \in Calls \ {c} : vergePc'[d] = vergePc[d]
    BY <2>1, VergeGoesTypes DEF VergeSteps
  <2>3. Writers' = Writers \ {c} /\ c \in Writers
    BY <2>1, <2>2 DEF Writers
  <2>4. (\A d \in Calls : vergePc'[d] # "save") => \A d \in Calls : vergePc[d] # "save"
    BY <2>1, <2>2
  <2>. QED BY <2>1, <2>3, <2>4 DEF FileInv
<1>8. ASSUME NEW c \in Calls, Verge!SaveFails(c) PROVE FileInv'
  BY <1>8 DEF Verge!SaveFails, FileInv
<1>9. CASE Verge!GuardActs \/ Verge!reset_sysproxy \/ Verge!ResetStep \/ Verge!ResetFails \/ UNCHANGED Verge!vars
  <2>1. /\ UNCHANGED <<vergePc, committed, file, data, lag>>
        /\ quitting' \in {quitting} \cup {"sys", "auto", "done"} /\ (quitting' # quitting => quitting # "save")
    BY <1>9
       DEF Verge!GuardActs, Verge!reset_sysproxy, Verge!ResetStep, Verge!ResetFails, Verge!vars,
           Verge!draftVars, Verge!callVars, Verge!history
  <2>. QED BY <2>1, FileStays
<1>10. CASE Verge!quit
  <2>1. quitting' = "save" /\ UNCHANGED <<vergePc, lag>>
    BY <1>10 DEF Verge!quit, Verge!callVars
  <2>2. Writers' = Writers
    BY <2>1 DEF Writers
  <2>. QED BY <2>1, <2>2 DEF FileInv
<1>11. CASE Verge!QuitSaves
  <2>1. file' = committed /\ committed' = committed /\ vergePc' = vergePc
        /\ lag' = (\E c \in Calls : vergePc[c] = "write")
    BY <1>11 DEF Verge!QuitSaves, Verge!draftVars, Verge!callVars
  <2>2. ~lag' => Writers' = {}
    BY <2>1 DEF Writers
  <2>. QED BY <2>1, <2>2 DEF FileInv
<1>. QED
  BY <1>1, <1>2, <1>3, <1>4, <1>5, <1>6, <1>7, <1>8, <1>9, <1>10, <1>11 DEF Verge!Next

(* When no call is under way the file holds the settings, unless a save    *)
(* was left out, failed or crossed another one.                            *)
THEOREM VergeFile ==
  ASSUME VergeParameters
  PROVE  Verge!Spec => []Verge!FileFollows
<1>1. Verge!Init => VergeBase /\ FileInv
  <2>1. Verge!Init => FileInv
    BY DEF Verge!Init, FileInv, Writers
  <2>. QED BY <2>1, VergeBaseInit
<1>2. VergeBase /\ FileInv /\ [Verge!Next]_Verge!vars => (VergeBase /\ FileInv)'
  BY VergeBaseStep, FileStep
<1>3. FileInv => Verge!FileFollows
  BY DEF FileInv, Verge!FileFollows, Writers, Verge!Quiet
<1>. QED BY <1>1, <1>2, <1>3, PTL DEF Verge!Spec

-------------------------------------------------------------------------------
(* The core's lifecycle.  While one restart or stop is under way alone and *)
(* no core was left behind, where its task stands says which cores run,    *)
(* and which of them the manager can name (CoreWhere); when none is under  *)
(* way every core that runs is one that a stop reaches, and the last       *)
(* call's answer fits what runs (CoreResults).  An operation on the        *)
(* service touches no core but that of the service.                        *)
CoreSteps == {"idle", "stop", "stopped", "look", "read", "again", "sleep", "mode", "which", "kill", "spawn",
        "child", "sidecar", "enter", "set", "run", "ipc", "version", "gone", "succeeded", "failed",
        "notify", "notifyFailed", "serve", "service"}
OperationSteps == {"enter", "set", "run", "ipc", "version", "gone", "succeeded", "failed", "notify", "notifyFailed"}
ServiceStates == {"Ready", "NeedsReinstall", "InstallRequired", "UninstallRequired", "ReinstallRequired", "Unavailable"}

CoreTypes ==
  /\ mode \in {"Service", "Sidecar", "NotRunning"} /\ child \in Nat
  /\ sidecars \in SUBSET Nat /\ served \in BOOLEAN /\ service \in {"up", "old", "down"}
  /\ status \in ServiceStates /\ operation_running \in BOOLEAN /\ told \in [Tasks -> BOOLEAN]
  /\ corePc \in [Tasks -> CoreSteps] /\ cmd \in [Tasks -> {"none", "restart", "stop"} \cup Core!Operations]
  /\ view \in [Tasks -> ServiceStates \cup {"none"}] /\ pid \in [Tasks -> Nat]
  /\ ended \in {"started", "stopped", "done", "failed", "none", "met"}
  /\ coreCrossed \in BOOLEAN /\ lost \in BOOLEAN /\ coreCount \in Nat /\ spawned \in Nat \ {0}
  /\ child <= spawned /\ \A t \in Tasks : pid[t] <= spawned

(* What a task does fits its command.                                      *)
CoreFits(t) ==
  /\ corePc[t] = "idle" <=> cmd[t] = "none"
  /\ cmd[t] = "stop" => corePc[t] \in {"stop", "stopped"}
  /\ cmd[t] \in Core!Operations => corePc[t] \in OperationSteps
  /\ corePc[t] \in {"gone"} => cmd[t] = "uninstall"

(* What the history says of calls at once: crossed when two of restart and *)
(* stop are, met when any two are.                                         *)
CoreOneAtATime ==
  /\ ~coreCrossed => \A t, u \in Core!Lifecycle : t = u
  /\ ended # "met" => \A t, u \in Tasks : corePc[t] # "idle" /\ corePc[u] # "idle" => t = u
  /\ ~Core!Quiet => ended \in {"none", "met"}

(* No core runs; every core that runs is one the manager can name.         *)
NoCore == sidecars = {} /\ ~served
Named == sidecars \subseteq {child} /\ (sidecars # {} => mode = "Sidecar") /\ (served => mode = "Service")

(* What runs while t is the only restart or stop under way.                *)
CoreWhere(t) ==
  /\ corePc[t] = "stop" => Named
  /\ corePc[t] \notin {"stop", "child", "sidecar", "service"} => NoCore
  /\ corePc[t] = "which" => mode \in {"Service", "Sidecar"}
  /\ corePc[t] \in {"kill", "spawn", "child", "sidecar"} => mode = "Sidecar"
  /\ corePc[t] \in OperationSteps \cup {"serve", "service"} => mode = "Service"
  /\ corePc[t] \in {"child", "sidecar"} => sidecars = {pid[t]} /\ ~served
  /\ corePc[t] = "sidecar" => child = pid[t]
  /\ corePc[t] = "service" => sidecars = {} /\ (ended # "met" => served)

(* What runs after a call has ended and before the next begins.            *)
CoreResults ==
  /\ ended = "stopped" => NoCore /\ mode = "NotRunning"
  /\ ended = "started" => served = (sidecars = {}) /\ mode = IF served THEN "Service" ELSE "Sidecar"

CoresInv ==
  ~coreCrossed /\ ~lost =>
    /\ Core!Lifecycle = {} => Named
    /\ \A t \in Core!Lifecycle : CoreWhere(t)
    /\ CoreResults

CoreInv == CoreTypes /\ (\A t \in Tasks : CoreFits(t)) /\ CoreOneAtATime /\ CoresInv

(* Commands are those of the manager, the service is in one of its states. *)
CoreParameters ==
  /\ Commands \subseteq {"restart", "stop"} \cup Core!Operations
  /\ Services \subseteq {"up", "old", "down"}

LEMMA CoreInit == CoreParameters /\ Core!Init => CoreInv
<1>. SUFFICES ASSUME CoreParameters, Core!Init PROVE CoreInv
  OBVIOUS
<1>1. CoreTypes
  <2>1. /\ mode \in {"Service", "Sidecar"} /\ child \in 0..1 /\ sidecars \in SUBSET Nat /\ served \in BOOLEAN
        /\ service \in {"up", "old", "down"} /\ status \in ServiceStates
    <3>1. service \in {"up", "old", "down"} /\ status \in ServiceStates
      BY DEF CoreParameters, Core!Init, ServiceStates
    <3>2. CASE service = "up"
      <4>1. served = TRUE /\ mode = "Service" /\ sidecars = {} /\ child = 0
        BY <3>2 DEF Core!Init
      <4>. QED BY <3>1, <4>1
    <3>3. CASE service # "up"
      <4>1. served = FALSE /\ mode = "Sidecar" /\ sidecars = {1} /\ child = 1
        BY <3>3 DEF Core!Init
      <4>2. {1} \in SUBSET Nat /\ 1 \in 0..1
        OBVIOUS
      <4>. QED BY <3>1, <4>1, <4>2, Zenon
    <3>. QED BY <3>2, <3>3
  <2>2. /\ operation_running \in BOOLEAN /\ told \in [Tasks -> BOOLEAN]
        /\ coreCrossed \in BOOLEAN /\ lost \in BOOLEAN
    BY DEF Core!Init
  <2>3. /\ corePc \in [Tasks -> CoreSteps] /\ cmd \in [Tasks -> {"none", "restart", "stop"} \cup Core!Operations]
        /\ view \in [Tasks -> ServiceStates \cup {"none"}] /\ pid \in [Tasks -> Nat]
        /\ ended = "started" /\ coreCount = 0 /\ spawned = 1 /\ \A t \in Tasks : pid[t] = 0
    BY DEF Core!Init, CoreSteps
  <2>. QED BY <2>1, <2>2, <2>3 DEF CoreTypes
<1>2. \A t \in Tasks : CoreFits(t)
  BY DEF Core!Init, CoreFits, Core!Operations
<1>3. CoreOneAtATime
  BY DEF Core!Init, CoreOneAtATime, Core!Lifecycle, Core!Quiet
<1>4. CoresInv
  <2>1. Core!Lifecycle = {}
    BY DEF Core!Init, Core!Lifecycle
  <2>. QED BY <2>1, <1>1 DEF Core!Init, CoresInv, CoreTypes, Named, CoreResults
<1>. QED BY <1>1, <1>2, <1>3, <1>4 DEF CoreInv

LEMMA CoreGoesTypes ==
  ASSUME CoreTypes, NEW t \in Tasks, NEW w \in CoreSteps, Core!Goes(t, w)
  PROVE  /\ corePc' \in [Tasks -> CoreSteps] /\ cmd' \in [Tasks -> {"none", "restart", "stop"} \cup Core!Operations]
         /\ view' \in [Tasks -> ServiceStates \cup {"none"}] /\ pid' \in [Tasks -> Nat]
         /\ \A u \in Tasks : pid'[u] <= spawned
BY DEF CoreTypes, Core!Goes

(* A step of a call of restart or stop, when no other is under way.        *)
LEMMA CoresByLifecycle ==
  ASSUME CoreInv, NEW t \in Core!Lifecycle,
         coreCrossed' = coreCrossed, ~lost' => ~lost,
         cmd' = [cmd EXCEPT ![t] = cmd'[t]],
         ~coreCrossed /\ ~lost' =>
           /\ IF cmd'[t] \in {"restart", "stop"} THEN CoreWhere(t)' ELSE Named'
           /\ CoreResults'
  PROVE  CoresInv'
<1>. SUFFICES ASSUME ~coreCrossed, ~lost'
             PROVE  (Core!Lifecycle = {} => Named)' /\ (\A u \in Core!Lifecycle : CoreWhere(u))' /\ CoreResults'
  BY DEF CoresInv
<1>1. Core!Lifecycle = {t}
  BY DEF CoreInv, CoreOneAtATime
<1>2. t \in Tasks /\ cmd \in [Tasks -> {"none", "restart", "stop"} \cup Core!Operations]
  BY DEF Core!Lifecycle, CoreInv, CoreTypes
<1>3. Core!Lifecycle' = IF cmd'[t] \in {"restart", "stop"} THEN {t} ELSE {}
  BY <1>1, <1>2 DEF Core!Lifecycle
<1>. QED BY <1>3

(* An operation on the service touches no core but that of the service.    *)
LEMMA CoresByOperation ==
  ASSUME CoreInv, NEW t \in Tasks, corePc[t] # "idle", cmd[t] \in Core!Operations,
         coreCrossed' = coreCrossed, lost' = lost, Core!stateVars' = Core!stateVars, sidecars' = sidecars,
         served' => served, ended' \in {ended, "met", "done", "failed"},
         ended' # "met" => ended # "met",
         NEW w \in CoreSteps, Core!Goes(t, w), w \in OperationSteps \cup {"idle"}
  PROVE  CoresInv'
<1>. SUFFICES ASSUME ~coreCrossed, ~lost
             PROVE  (Core!Lifecycle = {} => Named)' /\ (\A u \in Core!Lifecycle : CoreWhere(u))' /\ CoreResults'
  BY DEF CoresInv
<1>1. t \notin Core!Lifecycle
  BY DEF Core!Lifecycle, Core!Operations
<1>2. Core!Lifecycle' = Core!Lifecycle /\ \A u \in Core!Lifecycle : u \in Tasks /\ corePc'[u] = corePc[u]
      /\ pid'[u] = pid[u]
  BY <1>1 DEF CoreInv, CoreTypes, Core!Goes, Core!Lifecycle, Core!Operations
<1>3. Named => Named'
  BY DEF Named, Core!stateVars
<1>4. NoCore => NoCore'
  BY DEF NoCore
<1>5. ASSUME NEW u \in Core!Lifecycle PROVE CoreWhere(u)'
  <2>1. CoreWhere(u)
    BY <1>5 DEF CoreInv, CoresInv
  <2>2. ended = "met"
    BY <1>1, <1>5 DEF CoreInv, CoreOneAtATime, Core!Lifecycle, CoreFits
  <2>. QED BY <1>2, <1>3, <1>4, <2>1, <2>2 DEF CoreWhere, Core!stateVars
<1>6. CoreResults'
  <2>1. ended \in {"none", "met"}
    BY DEF CoreInv, CoreOneAtATime, Core!Quiet
  <2>. QED BY <2>1 DEF CoreResults
<1>. QED BY <1>2, <1>3, <1>5, <1>6 DEF CoreInv, CoresInv

LEMMA CoreTypesStep ==
  ASSUME CoreInv, NEW t \in Tasks, Core!Proceeds(t)
  PROVE  (CoreTypes)'
<1>1. CASE Core!StopFails(t)
  <2>1. Core!Goes(t, "idle") /\ served' \in BOOLEAN /\ mode' = "NotRunning"
    BY <1>1 DEF Core!StopFails, Core!Ends, CoreInv, CoreTypes
  <2>2. lost' \in BOOLEAN
    BY <1>1 DEF Core!StopFails
  <2>3. ended' \in {"met", "failed"} /\ coreCrossed' = coreCrossed /\ coreCount' = coreCount
    BY <1>1 DEF Core!StopFails, Core!Ends
  <2>. QED BY <1>1, <2>1, <2>2, <2>3, CoreGoesTypes
              DEF Core!StopFails, CoreInv, CoreTypes, CoreSteps, Core!systemVars, Core!managerVars
<1>2. CASE Core!RunCommand(t)
  <2>1. /\ \E w \in CoreSteps : Core!Goes(t, w)
        /\ service' \in {"up", "old", "down"} /\ served' = FALSE
        /\ UNCHANGED <<ended, coreCrossed, coreCount, Core!stateVars, sidecars, Core!managerVars, lost, spawned>>
    BY <1>2 DEF Core!RunCommand, Core!Continues, CoreSteps
  <2>. QED BY <2>1, CoreGoesTypes DEF CoreInv, CoreTypes, Core!stateVars, Core!managerVars
<1>3. CASE Core!Done(t)
  <2>1. /\ \E w \in CoreSteps : Core!Goes(t, w)
        /\ operation_running' \in BOOLEAN /\ told' \in [Tasks -> BOOLEAN]
        /\ ended' \in {ended, "met", "done", "failed"} /\ coreCrossed' = coreCrossed /\ coreCount' = coreCount
        /\ UNCHANGED <<Core!stateVars, Core!systemVars, status, lost, spawned>>
    BY <1>3 DEF Core!Done, Core!Continues, Core!Ends, CoreSteps, CoreInv, CoreTypes
  <2>. QED BY <2>1, CoreGoesTypes DEF CoreInv, CoreTypes, Core!stateVars, Core!systemVars
<1>. USE DEF Core!vars, Core!stateVars, Core!systemVars, Core!managerVars, Core!history, Core!Goes,
             Core!Ends, Core!Continues, CoreInv, CoreTypes, CoreSteps, ServiceStates, Core!Operations,
             CoreFits
<1>4. CASE Core!NothingToStop(t)
  BY <1>4 DEF Core!NothingToStop
<1>5. CASE Core!KillChild(t)
  BY <1>5 DEF Core!KillChild
<1>6. CASE Core!StopServed(t)
  BY <1>6 DEF Core!StopServed
<1>7. CASE Core!Stopped(t)
  BY <1>7 DEF Core!Stopped
<1>8. CASE Core!Look(t)
  BY <1>8 DEF Core!Look
<1>9. CASE Core!ReadStatus(t)
  BY <1>9 DEF Core!ReadStatus
<1>10. CASE Core!LookAgain(t)
  BY <1>10 DEF Core!LookAgain
<1>11. CASE Core!Wake(t)
  BY <1>11 DEF Core!Wake
<1>12. CASE Core!SetMode(t)
  BY <1>12 DEF Core!SetMode
<1>13. CASE Core!StartBy(t)
  BY <1>13 DEF Core!StartBy
<1>14. CASE Core!StartFails(t)
  BY <1>14 DEF Core!StartFails
<1>15. CASE Core!KillStray(t)
  BY <1>15 DEF Core!KillStray
<1>16. CASE Core!Spawn(t)
  BY <1>16 DEF Core!Spawn
<1>17. CASE Core!SetChild(t)
  BY <1>17 DEF Core!SetChild
<1>18. CASE Core!SidecarRuns(t)
  BY <1>18 DEF Core!SidecarRuns
<1>19. CASE Core!Serve(t)
  BY <1>19 DEF Core!Serve
<1>20. CASE Core!ServiceRuns(t)
  BY <1>20 DEF Core!ServiceRuns
<1>21. CASE Core!Enter(t)
  BY <1>21 DEF Core!Enter
<1>22. CASE Core!AlreadyRunning(t)
  BY <1>22 DEF Core!AlreadyRunning
<1>23. CASE Core!SetStatus(t)
  BY <1>23 DEF Core!SetStatus, Core!Requested
<1>24. CASE Core!CommandFails(t)
  BY <1>24 DEF Core!CommandFails
<1>25. CASE Core!Connected(t)
  BY <1>25 DEF Core!Connected
<1>26. CASE Core!WrongVersion(t)
  BY <1>26 DEF Core!WrongVersion
<1>27. CASE Core!Unavailable(t)
  BY <1>27 DEF Core!Unavailable
<1>. QED BY <1>1, <1>2, <1>3, <1>4, <1>5, <1>6, <1>7, <1>8, <1>9, <1>10, <1>11, <1>12, <1>13, <1>14, <1>15,
            <1>16, <1>17, <1>18, <1>19, <1>20, <1>21, <1>22, <1>23, <1>24, <1>25, <1>26, <1>27
         DEF Core!Proceeds

LEMMA CoreFitsStep ==
  ASSUME CoreInv, NEW t \in Tasks, Core!Proceeds(t)
  PROVE  (\A u \in Tasks : CoreFits(u))'
<1>. USE DEF Core!vars, Core!stateVars, Core!systemVars, Core!managerVars, Core!history, Core!Goes,
             Core!Ends, Core!Continues, CoreInv, CoreTypes, CoreFits, OperationSteps, Core!Operations
<1>1. CASE Core!NothingToStop(t)
  BY <1>1 DEF Core!NothingToStop
<1>2. CASE Core!KillChild(t)
  BY <1>2 DEF Core!KillChild
<1>3. CASE Core!StopServed(t)
  BY <1>3 DEF Core!StopServed
<1>4. CASE Core!StopFails(t)
  BY <1>4 DEF Core!StopFails
<1>5. CASE Core!Stopped(t)
  BY <1>5 DEF Core!Stopped
<1>6. CASE Core!Look(t)
  BY <1>6 DEF Core!Look
<1>7. CASE Core!ReadStatus(t)
  BY <1>7 DEF Core!ReadStatus
<1>8. CASE Core!LookAgain(t)
  BY <1>8 DEF Core!LookAgain
<1>9. CASE Core!Wake(t)
  BY <1>9 DEF Core!Wake
<1>10. CASE Core!SetMode(t)
  BY <1>10 DEF Core!SetMode
<1>11. CASE Core!StartBy(t)
  BY <1>11 DEF Core!StartBy
<1>12. CASE Core!StartFails(t)
  BY <1>12 DEF Core!StartFails
<1>13. CASE Core!KillStray(t)
  BY <1>13 DEF Core!KillStray
<1>14. CASE Core!Spawn(t)
  BY <1>14 DEF Core!Spawn
<1>15. CASE Core!SetChild(t)
  BY <1>15 DEF Core!SetChild
<1>16. CASE Core!SidecarRuns(t)
  BY <1>16 DEF Core!SidecarRuns
<1>17. CASE Core!Serve(t)
  BY <1>17 DEF Core!Serve
<1>18. CASE Core!ServiceRuns(t)
  BY <1>18 DEF Core!ServiceRuns
<1>19. CASE Core!Enter(t)
  BY <1>19 DEF Core!Enter
<1>20. CASE Core!AlreadyRunning(t)
  BY <1>20 DEF Core!AlreadyRunning
<1>21. CASE Core!SetStatus(t)
  BY <1>21 DEF Core!SetStatus
<1>22. CASE Core!RunCommand(t)
  BY <1>22 DEF Core!RunCommand
<1>23. CASE Core!CommandFails(t)
  BY <1>23 DEF Core!CommandFails
<1>24. CASE Core!Connected(t)
  BY <1>24 DEF Core!Connected
<1>25. CASE Core!WrongVersion(t)
  BY <1>25 DEF Core!WrongVersion
<1>26. CASE Core!Unavailable(t)
  BY <1>26 DEF Core!Unavailable
<1>27. CASE Core!Done(t)
  BY <1>27 DEF Core!Done
<1>. QED BY <1>1, <1>2, <1>3, <1>4, <1>5, <1>6, <1>7, <1>8, <1>9, <1>10, <1>11, <1>12, <1>13, <1>14, <1>15,
            <1>16, <1>17, <1>18, <1>19, <1>20, <1>21, <1>22, <1>23, <1>24, <1>25, <1>26, <1>27
         DEF Core!Proceeds

LEMMA CoreOneStep ==
  ASSUME CoreInv, NEW t \in Tasks, Core!Proceeds(t)
  PROVE  (CoreOneAtATime)'
<1>. USE DEF Core!vars, Core!stateVars, Core!systemVars, Core!managerVars, Core!history, Core!Goes,
             Core!Ends, Core!Continues, CoreInv, CoreTypes, CoreFits, CoreOneAtATime, Core!Lifecycle,
             Core!Quiet, OperationSteps, Core!Operations
<1>1. CASE Core!NothingToStop(t)
  BY <1>1 DEF Core!NothingToStop
<1>2. CASE Core!KillChild(t)
  BY <1>2 DEF Core!KillChild
<1>3. CASE Core!StopServed(t)
  BY <1>3 DEF Core!StopServed
<1>4. CASE Core!StopFails(t)
  BY <1>4 DEF Core!StopFails
<1>5. CASE Core!Stopped(t)
  BY <1>5 DEF Core!Stopped
<1>6. CASE Core!Look(t)
  BY <1>6 DEF Core!Look
<1>7. CASE Core!ReadStatus(t)
  BY <1>7 DEF Core!ReadStatus
<1>8. CASE Core!LookAgain(t)
  BY <1>8 DEF Core!LookAgain
<1>9. CASE Core!Wake(t)
  BY <1>9 DEF Core!Wake
<1>10. CASE Core!SetMode(t)
  BY <1>10 DEF Core!SetMode
<1>11. CASE Core!StartBy(t)
  BY <1>11 DEF Core!StartBy
<1>12. CASE Core!StartFails(t)
  BY <1>12 DEF Core!StartFails
<1>13. CASE Core!KillStray(t)
  BY <1>13 DEF Core!KillStray
<1>14. CASE Core!Spawn(t)
  BY <1>14 DEF Core!Spawn
<1>15. CASE Core!SetChild(t)
  BY <1>15 DEF Core!SetChild
<1>16. CASE Core!SidecarRuns(t)
  BY <1>16 DEF Core!SidecarRuns
<1>17. CASE Core!Serve(t)
  BY <1>17 DEF Core!Serve
<1>18. CASE Core!ServiceRuns(t)
  BY <1>18 DEF Core!ServiceRuns
<1>19. CASE Core!Enter(t)
  BY <1>19 DEF Core!Enter
<1>20. CASE Core!AlreadyRunning(t)
  BY <1>20 DEF Core!AlreadyRunning
<1>21. CASE Core!SetStatus(t)
  BY <1>21 DEF Core!SetStatus
<1>22. CASE Core!RunCommand(t)
  BY <1>22 DEF Core!RunCommand
<1>23. CASE Core!CommandFails(t)
  BY <1>23 DEF Core!CommandFails
<1>24. CASE Core!Connected(t)
  BY <1>24 DEF Core!Connected
<1>25. CASE Core!WrongVersion(t)
  BY <1>25 DEF Core!WrongVersion
<1>26. CASE Core!Unavailable(t)
  BY <1>26 DEF Core!Unavailable
<1>27. CASE Core!Done(t)
  BY <1>27 DEF Core!Done
<1>. QED BY <1>1, <1>2, <1>3, <1>4, <1>5, <1>6, <1>7, <1>8, <1>9, <1>10, <1>11, <1>12, <1>13, <1>14, <1>15,
            <1>16, <1>17, <1>18, <1>19, <1>20, <1>21, <1>22, <1>23, <1>24, <1>25, <1>26, <1>27
         DEF Core!Proceeds

LEMMA CoreCoresStep ==
  ASSUME CoreInv, NEW t \in Tasks, Core!Proceeds(t)
  PROVE  (CoresInv)'
<1>1. CASE Core!Stopped(t)
  <2>1. t \in Core!Lifecycle
    BY <1>1 DEF Core!Stopped, CoreInv, Core!Lifecycle, CoreFits, CoreTypes, OperationSteps
  <2>2. coreCrossed' = coreCrossed /\ (~lost' => ~lost) /\ cmd' = [cmd EXCEPT ![t] = cmd'[t]]
    BY <1>1 DEF Core!Stopped, CoreInv, CoreTypes, Core!Goes, Core!Ends, Core!Continues, Core!history
  <2>3. ASSUME ~coreCrossed, ~lost'
        PROVE  IF cmd'[t] \in {"restart", "stop"} THEN CoreWhere(t)' ELSE Named'
    <3>1. NoCore /\ NoCore'
      BY <1>1, <2>1, <2>2, <2>3 DEF Core!Stopped, Core!systemVars, CoreInv, CoresInv, CoreWhere, NoCore
    <3>2. CASE cmd[t] = "stop"
      BY <1>1, <2>1, <3>1, <3>2
         DEF Core!Stopped, Core!Ends, Core!Goes, Named, NoCore, CoreInv, CoreTypes, Core!Lifecycle
    <3>3. CASE cmd[t] # "stop"
      <4>1. corePc'[t] = "look" /\ cmd'[t] \in {"restart", "stop"}
        BY <1>1, <2>1, <3>3 DEF Core!Stopped, Core!Continues, Core!Goes, CoreInv, CoreTypes, Core!Lifecycle
      <4>. QED BY <3>1, <4>1 DEF CoreWhere, OperationSteps
    <3>. QED BY <3>2, <3>3
  <2>4. ASSUME ~coreCrossed, ~lost' PROVE CoreResults'
    BY <1>1, <2>1, <2>2, <2>4
       DEF Core!Stopped, Core!vars, Core!stateVars, Core!systemVars, Core!managerVars, Core!history,
           Core!Goes, Core!Ends, Core!Continues, CoreInv, CoreTypes, CoresInv, CoreFits, CoreOneAtATime,
           CoreWhere, Named, NoCore, CoreResults, Core!Lifecycle, Core!Quiet, OperationSteps
  <2>. QED BY <2>1, <2>2, <2>3, <2>4, CoresByLifecycle
<1>2. CASE Core!StartBy(t)
  <2>1. t \in Core!Lifecycle
    BY <1>2 DEF Core!StartBy, CoreInv, Core!Lifecycle, CoreFits, CoreTypes, OperationSteps
  <2>2. coreCrossed' = coreCrossed /\ (~lost' => ~lost) /\ cmd' = [cmd EXCEPT ![t] = cmd'[t]]
    BY <1>2 DEF Core!StartBy, CoreInv, CoreTypes, Core!Goes, Core!Ends, Core!Continues, Core!history
  <2>3. ASSUME ~coreCrossed, ~lost'
        PROVE  IF cmd'[t] \in {"restart", "stop"} THEN CoreWhere(t)' ELSE Named'
    <3>1. NoCore /\ NoCore'
      BY <1>2, <2>1, <2>2, <2>3
         DEF Core!StartBy, Core!systemVars, CoreInv, CoresInv, CoreWhere, NoCore, OperationSteps
    <3>2. cmd'[t] = "restart"
      BY <1>2, <2>1 DEF Core!StartBy, Core!Continues, Core!Goes, CoreInv, CoreTypes, CoreFits, Core!Lifecycle
    <3>3. mode' = mode /\ corePc'[t] = IF mode = "Service" THEN "enter" ELSE "kill"
      BY <1>2, <2>1
         DEF Core!StartBy, Core!Continues, Core!Goes, CoreInv, CoreTypes, Core!Lifecycle, Core!stateVars
    <3>4. mode = "Service" \/ mode = "Sidecar"
      BY <1>2, <2>1, <2>2, <2>3 DEF Core!StartBy, CoreInv, CoresInv, CoreWhere
    <3>. QED BY <3>1, <3>2, <3>3, <3>4 DEF CoreWhere, OperationSteps
  <2>4. ASSUME ~coreCrossed, ~lost' PROVE CoreResults'
    BY <1>2, <2>1, <2>2, <2>4
       DEF Core!StartBy, Core!vars, Core!stateVars, Core!systemVars, Core!managerVars, Core!history,
           Core!Goes, Core!Ends, Core!Continues, CoreInv, CoreTypes, CoresInv, CoreFits, CoreOneAtATime,
           CoreWhere, Named, NoCore, CoreResults, Core!Lifecycle, Core!Quiet, OperationSteps
  <2>. QED BY <2>1, <2>2, <2>3, <2>4, CoresByLifecycle
<1>3. CASE Core!Spawn(t)
  <2>1. t \in Core!Lifecycle
    BY <1>3 DEF Core!Spawn, CoreInv, Core!Lifecycle, CoreFits, CoreTypes, OperationSteps
  <2>2. coreCrossed' = coreCrossed /\ (~lost' => ~lost) /\ cmd' = [cmd EXCEPT ![t] = cmd'[t]]
    BY <1>3 DEF Core!Spawn, CoreInv, CoreTypes, Core!Goes, Core!Ends, Core!Continues, Core!history
  <2>3. ASSUME ~coreCrossed, ~lost'
        PROVE  IF cmd'[t] \in {"restart", "stop"} THEN CoreWhere(t)' ELSE Named'
    <3>1. NoCore /\ mode = "Sidecar"
      BY <1>3, <2>1, <2>2, <2>3 DEF Core!Spawn, CoreInv, CoresInv, CoreWhere, OperationSteps
    <3>2. cmd'[t] = "restart" /\ corePc'[t] = "child" /\ pid'[t] = spawned'
      BY <1>3, <2>1 DEF Core!Spawn, CoreInv, CoreTypes, CoreFits, Core!Lifecycle
    <3>3. mode' = mode /\ sidecars' = {spawned'} /\ ~served'
      BY <1>3, <3>1 DEF Core!Spawn, NoCore, Core!stateVars
    <3>. QED BY <3>1, <3>2, <3>3 DEF CoreWhere, OperationSteps
  <2>4. ASSUME ~coreCrossed, ~lost' PROVE CoreResults'
    BY <1>3, <2>1, <2>2, <2>4
       DEF Core!Spawn, Core!vars, Core!stateVars, Core!systemVars, Core!managerVars, Core!history, Core!Goes,
           Core!Ends, Core!Continues, CoreInv, CoreTypes, CoresInv, CoreFits, CoreOneAtATime, CoreWhere,
           Named, NoCore, CoreResults, Core!Lifecycle, Core!Quiet, OperationSteps
  <2>. QED BY <2>1, <2>2, <2>3, <2>4, CoresByLifecycle
<1>4. CASE Core!AlreadyRunning(t)
  <2>1. CASE cmd[t] \in Core!Operations
    BY <1>4, <2>1, CoresByOperation DEF Core!AlreadyRunning, Core!Ends, Core!systemVars, CoreSteps, CoreInv
  <2>2. CASE cmd[t] \notin Core!Operations
    <3>1. t \in Core!Lifecycle
      BY <1>4, <2>2 DEF Core!AlreadyRunning, CoreInv, CoreTypes, Core!Lifecycle, CoreFits
    <3>2. cmd' = [cmd EXCEPT ![t] = cmd'[t]] /\ cmd'[t] = "none"
      BY <1>4 DEF Core!AlreadyRunning, Core!Ends, Core!Goes, CoreInv, CoreTypes
    <3>3. ASSUME ~coreCrossed, ~lost' PROVE Named' /\ CoreResults'
      BY <1>4, <3>1, <3>3
         DEF Core!AlreadyRunning, Core!Ends, Core!stateVars, Core!systemVars, CoreInv, CoresInv, CoreWhere,
             Named, NoCore, CoreResults, OperationSteps
    <3>. QED BY <1>4, <3>1, <3>2, <3>3, CoresByLifecycle DEF Core!AlreadyRunning, Core!Ends
  <2>. QED BY <2>1, <2>2
<1>5. CASE Core!Done(t)
  <2>1. CASE cmd[t] \in Core!Operations
    <3>1. /\ \E w \in OperationSteps \cup {"idle"} : w \in CoreSteps /\ Core!Goes(t, w)
          /\ coreCrossed' = coreCrossed /\ UNCHANGED <<Core!stateVars, Core!systemVars, lost>>
          /\ ended' \in {ended, "met", "done", "failed"} /\ (ended' # "met" => ended # "met")
      BY <1>5, <2>1 DEF Core!Done, Core!Ends, Core!Continues, OperationSteps, Core!Operations, CoreSteps
    <3>. QED BY <1>5, <2>1, <3>1, CoresByOperation DEF Core!Done, Core!systemVars
  <2>2. CASE cmd[t] \notin Core!Operations
    <3>1. t \in Core!Lifecycle
      BY <1>5, <2>2 DEF Core!Done, CoreInv, CoreTypes, Core!Lifecycle, CoreFits
    <3>2. /\ \E w \in {"notify", "notifyFailed", "serve", "idle"} : Core!Goes(t, w)
          /\ coreCrossed' = coreCrossed /\ UNCHANGED <<Core!stateVars, Core!systemVars, lost>>
          /\ ended' \in {ended, "met", "done", "failed"}
      BY <1>5 DEF Core!Done, Core!Ends, Core!Continues
    <3>3. cmd' = [cmd EXCEPT ![t] = cmd'[t]]
      BY <3>2 DEF Core!Goes, CoreInv, CoreTypes
    <3>4. ASSUME ~coreCrossed, ~lost
          PROVE  (IF cmd'[t] \in {"restart", "stop"} THEN CoreWhere(t)' ELSE Named') /\ CoreResults'
      <4>1. NoCore /\ mode = "Service" /\ ended \in {"none", "met"}
        BY <1>5, <3>1, <3>4
           DEF Core!Done, CoreInv, CoresInv, CoreWhere, OperationSteps, CoreOneAtATime, Core!Quiet
      <4>2. NoCore' /\ mode' = "Service"
        BY <3>2, <4>1 DEF NoCore, Core!stateVars, Core!systemVars
      <4>3. cmd'[t] \in {"restart", "stop"} => corePc'[t] \in {"notify", "notifyFailed", "serve"}
        BY <3>2 DEF Core!Goes, CoreInv, CoreTypes
      <4>. QED BY <3>2, <4>1, <4>2, <4>3 DEF CoreWhere, Named, NoCore, CoreResults
    <3>. QED BY <3>1, <3>2, <3>3, <3>4, CoresByLifecycle
  <2>. QED BY <2>1, <2>2
<1>. USE DEF Core!vars, Core!stateVars, Core!systemVars, Core!managerVars, Core!history, Core!Goes,
             Core!Ends, Core!Continues, CoreInv, CoreTypes, CoresInv, CoreFits, CoreOneAtATime, CoreWhere,
             Named, NoCore, CoreResults, Core!Lifecycle, Core!Quiet, OperationSteps, Core!Operations
<1>6. CASE Core!NothingToStop(t)
  <2>1. t \in Core!Lifecycle
    BY <1>6 DEF Core!NothingToStop
  <2>2. coreCrossed' = coreCrossed /\ (~lost' => ~lost) /\ cmd' = [cmd EXCEPT ![t] = cmd'[t]]
    BY <1>6 DEF Core!NothingToStop
  <2>3. ASSUME ~coreCrossed, ~lost'
        PROVE  IF cmd'[t] \in {"restart", "stop"} THEN CoreWhere(t)' ELSE Named'
    BY <1>6, <2>1, <2>2, <2>3 DEF Core!NothingToStop
  <2>4. ASSUME ~coreCrossed, ~lost' PROVE CoreResults'
    BY <1>6, <2>1, <2>2, <2>4 DEF Core!NothingToStop
  <2>. QED BY <2>1, <2>2, <2>3, <2>4, CoresByLifecycle
<1>7. CASE Core!KillChild(t)
  <2>1. t \in Core!Lifecycle
    BY <1>7 DEF Core!KillChild
  <2>2. coreCrossed' = coreCrossed /\ (~lost' => ~lost) /\ cmd' = [cmd EXCEPT ![t] = cmd'[t]]
    BY <1>7 DEF Core!KillChild
  <2>3. ASSUME ~coreCrossed, ~lost'
        PROVE  IF cmd'[t] \in {"restart", "stop"} THEN CoreWhere(t)' ELSE Named'
    BY <1>7, <2>1, <2>2, <2>3 DEF Core!KillChild
  <2>4. ASSUME ~coreCrossed, ~lost' PROVE CoreResults'
    BY <1>7, <2>1, <2>2, <2>4 DEF Core!KillChild
  <2>. QED BY <2>1, <2>2, <2>3, <2>4, CoresByLifecycle
<1>8. CASE Core!StopServed(t)
  <2>1. t \in Core!Lifecycle
    BY <1>8 DEF Core!StopServed
  <2>2. coreCrossed' = coreCrossed /\ (~lost' => ~lost) /\ cmd' = [cmd EXCEPT ![t] = cmd'[t]]
    BY <1>8 DEF Core!StopServed
  <2>3. ASSUME ~coreCrossed, ~lost'
        PROVE  IF cmd'[t] \in {"restart", "stop"} THEN CoreWhere(t)' ELSE Named'
    BY <1>8, <2>1, <2>2, <2>3 DEF Core!StopServed
  <2>4. ASSUME ~coreCrossed, ~lost' PROVE CoreResults'
    BY <1>8, <2>1, <2>2, <2>4 DEF Core!StopServed
  <2>. QED BY <2>1, <2>2, <2>3, <2>4, CoresByLifecycle
<1>9. CASE Core!StopFails(t)
  <2>1. t \in Core!Lifecycle
    BY <1>9 DEF Core!StopFails
  <2>2. coreCrossed' = coreCrossed /\ (~lost' => ~lost) /\ cmd' = [cmd EXCEPT ![t] = cmd'[t]]
    BY <1>9 DEF Core!StopFails
  <2>3. ASSUME ~coreCrossed, ~lost'
        PROVE  IF cmd'[t] \in {"restart", "stop"} THEN CoreWhere(t)' ELSE Named'
    BY <1>9, <2>1, <2>2, <2>3 DEF Core!StopFails
  <2>4. ASSUME ~coreCrossed, ~lost' PROVE CoreResults'
    BY <1>9, <2>1, <2>2, <2>4 DEF Core!StopFails
  <2>. QED BY <2>1, <2>2, <2>3, <2>4, CoresByLifecycle
<1>10. CASE Core!Look(t)
  <2>1. t \in Core!Lifecycle
    BY <1>10 DEF Core!Look
  <2>2. coreCrossed' = coreCrossed /\ (~lost' => ~lost) /\ cmd' = [cmd EXCEPT ![t] = cmd'[t]]
    BY <1>10 DEF Core!Look
  <2>3. ASSUME ~coreCrossed, ~lost'
        PROVE  IF cmd'[t] \in {"restart", "stop"} THEN CoreWhere(t)' ELSE Named'
    BY <1>10, <2>1, <2>2, <2>3 DEF Core!Look
  <2>4. ASSUME ~coreCrossed, ~lost' PROVE CoreResults'
    BY <1>10, <2>1, <2>2, <2>4 DEF Core!Look
  <2>. QED BY <2>1, <2>2, <2>3, <2>4, CoresByLifecycle
<1>11. CASE Core!ReadStatus(t)
  <2>1. t \in Core!Lifecycle
    BY <1>11 DEF Core!ReadStatus
  <2>2. coreCrossed' = coreCrossed /\ (~lost' => ~lost) /\ cmd' = [cmd EXCEPT ![t] = cmd'[t]]
    BY <1>11 DEF Core!ReadStatus
  <2>3. ASSUME ~coreCrossed, ~lost'
        PROVE  IF cmd'[t] \in {"restart", "stop"} THEN CoreWhere(t)' ELSE Named'
    BY <1>11, <2>1, <2>2, <2>3 DEF Core!ReadStatus
  <2>4. ASSUME ~coreCrossed, ~lost' PROVE CoreResults'
    BY <1>11, <2>1, <2>2, <2>4 DEF Core!ReadStatus
  <2>. QED BY <2>1, <2>2, <2>3, <2>4, CoresByLifecycle
<1>12. CASE Core!LookAgain(t)
  <2>1. t \in Core!Lifecycle
    BY <1>12 DEF Core!LookAgain
  <2>2. coreCrossed' = coreCrossed /\ (~lost' => ~lost) /\ cmd' = [cmd EXCEPT ![t] = cmd'[t]]
    BY <1>12 DEF Core!LookAgain
  <2>3. ASSUME ~coreCrossed, ~lost'
        PROVE  IF cmd'[t] \in {"restart", "stop"} THEN CoreWhere(t)' ELSE Named'
    BY <1>12, <2>1, <2>2, <2>3 DEF Core!LookAgain
  <2>4. ASSUME ~coreCrossed, ~lost' PROVE CoreResults'
    BY <1>12, <2>1, <2>2, <2>4 DEF Core!LookAgain
  <2>. QED BY <2>1, <2>2, <2>3, <2>4, CoresByLifecycle
<1>13. CASE Core!Wake(t)
  <2>1. t \in Core!Lifecycle
    BY <1>13 DEF Core!Wake
  <2>2. coreCrossed' = coreCrossed /\ (~lost' => ~lost) /\ cmd' = [cmd EXCEPT ![t] = cmd'[t]]
    BY <1>13 DEF Core!Wake
  <2>3. ASSUME ~coreCrossed, ~lost'
        PROVE  IF cmd'[t] \in {"restart", "stop"} THEN CoreWhere(t)' ELSE Named'
    BY <1>13, <2>1, <2>2, <2>3 DEF Core!Wake
  <2>4. ASSUME ~coreCrossed, ~lost' PROVE CoreResults'
    BY <1>13, <2>1, <2>2, <2>4 DEF Core!Wake
  <2>. QED BY <2>1, <2>2, <2>3, <2>4, CoresByLifecycle
<1>14. CASE Core!SetMode(t)
  <2>1. t \in Core!Lifecycle
    BY <1>14 DEF Core!SetMode
  <2>2. coreCrossed' = coreCrossed /\ (~lost' => ~lost) /\ cmd' = [cmd EXCEPT ![t] = cmd'[t]]
    BY <1>14 DEF Core!SetMode
  <2>3. ASSUME ~coreCrossed, ~lost'
        PROVE  IF cmd'[t] \in {"restart", "stop"} THEN CoreWhere(t)' ELSE Named'
    BY <1>14, <2>1, <2>2, <2>3 DEF Core!SetMode
  <2>4. ASSUME ~coreCrossed, ~lost' PROVE CoreResults'
    BY <1>14, <2>1, <2>2, <2>4 DEF Core!SetMode
  <2>. QED BY <2>1, <2>2, <2>3, <2>4, CoresByLifecycle
<1>15. CASE Core!StartFails(t)
  <2>1. t \in Core!Lifecycle
    BY <1>15 DEF Core!StartFails
  <2>2. coreCrossed' = coreCrossed /\ (~lost' => ~lost) /\ cmd' = [cmd EXCEPT ![t] = cmd'[t]]
    BY <1>15 DEF Core!StartFails
  <2>3. ASSUME ~coreCrossed, ~lost'
        PROVE  IF cmd'[t] \in {"restart", "stop"} THEN CoreWhere(t)' ELSE Named'
    BY <1>15, <2>1, <2>2, <2>3 DEF Core!StartFails
  <2>4. ASSUME ~coreCrossed, ~lost' PROVE CoreResults'
    BY <1>15, <2>1, <2>2, <2>4 DEF Core!StartFails
  <2>. QED BY <2>1, <2>2, <2>3, <2>4, CoresByLifecycle
<1>16. CASE Core!KillStray(t)
  <2>1. t \in Core!Lifecycle
    BY <1>16 DEF Core!KillStray
  <2>2. coreCrossed' = coreCrossed /\ (~lost' => ~lost) /\ cmd' = [cmd EXCEPT ![t] = cmd'[t]]
    BY <1>16 DEF Core!KillStray
  <2>3. ASSUME ~coreCrossed, ~lost'
        PROVE  IF cmd'[t] \in {"restart", "stop"} THEN CoreWhere(t)' ELSE Named'
    BY <1>16, <2>1, <2>2, <2>3 DEF Core!KillStray
  <2>4. ASSUME ~coreCrossed, ~lost' PROVE CoreResults'
    BY <1>16, <2>1, <2>2, <2>4 DEF Core!KillStray
  <2>. QED BY <2>1, <2>2, <2>3, <2>4, CoresByLifecycle
<1>17. CASE Core!SetChild(t)
  <2>1. t \in Core!Lifecycle
    BY <1>17 DEF Core!SetChild
  <2>2. coreCrossed' = coreCrossed /\ (~lost' => ~lost) /\ cmd' = [cmd EXCEPT ![t] = cmd'[t]]
    BY <1>17 DEF Core!SetChild
  <2>3. ASSUME ~coreCrossed, ~lost'
        PROVE  IF cmd'[t] \in {"restart", "stop"} THEN CoreWhere(t)' ELSE Named'
    BY <1>17, <2>1, <2>2, <2>3 DEF Core!SetChild
  <2>4. ASSUME ~coreCrossed, ~lost' PROVE CoreResults'
    BY <1>17, <2>1, <2>2, <2>4 DEF Core!SetChild
  <2>. QED BY <2>1, <2>2, <2>3, <2>4, CoresByLifecycle
<1>18. CASE Core!SidecarRuns(t)
  <2>1. t \in Core!Lifecycle
    BY <1>18 DEF Core!SidecarRuns
  <2>2. coreCrossed' = coreCrossed /\ (~lost' => ~lost) /\ cmd' = [cmd EXCEPT ![t] = cmd'[t]]
    BY <1>18 DEF Core!SidecarRuns
  <2>3. ASSUME ~coreCrossed, ~lost'
        PROVE  IF cmd'[t] \in {"restart", "stop"} THEN CoreWhere(t)' ELSE Named'
    BY <1>18, <2>1, <2>2, <2>3 DEF Core!SidecarRuns
  <2>4. ASSUME ~coreCrossed, ~lost' PROVE CoreResults'
    BY <1>18, <2>1, <2>2, <2>4 DEF Core!SidecarRuns
  <2>. QED BY <2>1, <2>2, <2>3, <2>4, CoresByLifecycle
<1>19. CASE Core!Serve(t)
  <2>1. t \in Core!Lifecycle
    BY <1>19 DEF Core!Serve
  <2>2. coreCrossed' = coreCrossed /\ (~lost' => ~lost) /\ cmd' = [cmd EXCEPT ![t] = cmd'[t]]
    BY <1>19 DEF Core!Serve
  <2>3. ASSUME ~coreCrossed, ~lost'
        PROVE  IF cmd'[t] \in {"restart", "stop"} THEN CoreWhere(t)' ELSE Named'
    BY <1>19, <2>1, <2>2, <2>3 DEF Core!Serve
  <2>4. ASSUME ~coreCrossed, ~lost' PROVE CoreResults'
    BY <1>19, <2>1, <2>2, <2>4 DEF Core!Serve
  <2>. QED BY <2>1, <2>2, <2>3, <2>4, CoresByLifecycle
<1>20. CASE Core!ServiceRuns(t)
  <2>1. t \in Core!Lifecycle
    BY <1>20 DEF Core!ServiceRuns
  <2>2. coreCrossed' = coreCrossed /\ (~lost' => ~lost) /\ cmd' = [cmd EXCEPT ![t] = cmd'[t]]
    BY <1>20 DEF Core!ServiceRuns
  <2>3. ASSUME ~coreCrossed, ~lost'
        PROVE  IF cmd'[t] \in {"restart", "stop"} THEN CoreWhere(t)' ELSE Named'
    BY <1>20, <2>1, <2>2, <2>3 DEF Core!ServiceRuns
  <2>4. ASSUME ~coreCrossed, ~lost' PROVE CoreResults'
    BY <1>20, <2>1, <2>2, <2>4 DEF Core!ServiceRuns
  <2>. QED BY <2>1, <2>2, <2>3, <2>4, CoresByLifecycle
<1>21. CASE Core!Enter(t)
  BY <1>21 DEF Core!Enter
<1>22. CASE Core!SetStatus(t)
  BY <1>22 DEF Core!SetStatus
<1>23. CASE Core!RunCommand(t)
  BY <1>23 DEF Core!RunCommand
<1>24. CASE Core!CommandFails(t)
  BY <1>24 DEF Core!CommandFails
<1>25. CASE Core!Connected(t)
  BY <1>25 DEF Core!Connected
<1>26. CASE Core!WrongVersion(t)
  BY <1>26 DEF Core!WrongVersion
<1>27. CASE Core!Unavailable(t)
  BY <1>27 DEF Core!Unavailable
<1>. HIDE DEF CoresInv
<1>. QED BY <1>1, <1>2, <1>3, <1>4, <1>5, <1>6, <1>7, <1>8, <1>9, <1>10, <1>11, <1>12, <1>13, <1>14, <1>15,
            <1>16, <1>17, <1>18, <1>19, <1>20, <1>21, <1>22, <1>23, <1>24, <1>25, <1>26, <1>27
         DEF Core!Proceeds


LEMMA CoreBeginStep ==
  ASSUME CoreParameters, CoreInv, NEW t \in Tasks, NEW c \in Commands, Core!Begin(t, c)
  PROVE  CoreInv'
<1>1. c \in {"restart", "stop"} \cup Core!Operations
  BY DEF CoreParameters
<1>2. CoreTypes'
  BY <1>1
     DEF Core!Begin, CoreInv, CoreTypes, CoreSteps, Core!Operations, Core!stateVars, Core!systemVars,
         Core!managerVars
<1>3. (\A u \in Tasks : CoreFits(u))'
  BY <1>1 DEF Core!Begin, CoreInv, CoreTypes, CoreFits, Core!Operations, OperationSteps
<1>4. Core!Lifecycle' = Core!Lifecycle \cup (IF c \in Core!Operations THEN {} ELSE {t})
  BY <1>1 DEF Core!Begin, CoreInv, CoreTypes, CoreFits, Core!Lifecycle, Core!Operations
<1>5. CoreOneAtATime'
  BY <1>1, <1>4 DEF Core!Begin, CoreInv, CoreTypes, CoreOneAtATime, Core!Quiet, Core!Operations
<1>6. CoresInv'
  <2>. SUFFICES ASSUME ~coreCrossed', ~lost
               PROVE  (Core!Lifecycle = {} => Named)' /\ (\A u \in Core!Lifecycle : CoreWhere(u))' /\ CoreResults'
    BY DEF CoresInv, Core!Begin
  <2>1. ~coreCrossed /\ (c \notin Core!Operations => Core!Lifecycle = {})
    BY DEF Core!Begin
  <2>2. CoreResults'
    BY DEF Core!Begin, CoreResults
  <2>3. (Named => Named') /\ (NoCore => NoCore')
    BY DEF Core!Begin, Named, NoCore, Core!stateVars, Core!systemVars
  <2>4. ASSUME NEW u \in Core!Lifecycle' PROVE CoreWhere(u)'
    <3>1. CASE u = t
      <4>1. c \notin Core!Operations
        BY <3>1, <1>1, <2>4 DEF Core!Begin, CoreInv, CoreTypes, Core!Lifecycle, Core!Operations
      <4>2. corePc'[t] \in {"stop"}
        BY <1>1, <4>1 DEF Core!Begin, CoreInv, CoreTypes
      <4>. QED BY <2>1, <2>3, <3>1, <4>1, <4>2 DEF CoreWhere, CoreInv, CoresInv, OperationSteps
    <3>2. CASE u # t
      <4>1. u \in Core!Lifecycle /\ CoreWhere(u)
        BY <1>4, <2>1, <2>4, <3>2 DEF CoreInv, CoresInv
      <4>2. ended' \in {"none", "met"} /\ (ended' # "met" => Core!Quiet)
        BY DEF Core!Begin
      <4>3. corePc'[u] = corePc[u] /\ pid'[u] = pid[u] /\ corePc[u] # "idle" /\ u \in Tasks
        BY <3>2, <4>1 DEF Core!Begin, CoreInv, CoreTypes, Core!Lifecycle, CoreFits
      <4>. QED BY <4>1, <4>2, <4>3, <2>3
                  DEF CoreWhere, Core!Begin, Core!stateVars, Core!systemVars, Core!Quiet
    <3>. QED BY <3>1, <3>2
  <2>. QED BY <1>4, <2>1, <2>2, <2>3, <2>4 DEF CoreInv, CoresInv
<1>. QED BY <1>2, <1>3, <1>5, <1>6 DEF CoreInv

LEMMA CoreStays == CoreInv /\ UNCHANGED Core!vars => CoreInv'
<1>. SUFFICES ASSUME CoreInv, UNCHANGED Core!vars PROVE CoreInv'
  OBVIOUS
<1>. USE DEF Core!vars, Core!stateVars, Core!systemVars, Core!managerVars, Core!history, CoreInv
<1>1. CoreTypes'
  BY DEF CoreTypes
<1>2. (\A t \in Tasks : CoreFits(t))' /\ CoreOneAtATime'
  BY DEF CoreFits, CoreOneAtATime, Core!Lifecycle, Core!Quiet
<1>3. CoresInv'
  BY DEF CoresInv, Core!Lifecycle, Named, NoCore, CoreWhere, CoreResults
<1>. QED BY <1>1, <1>2, <1>3

(* The inductive invariant holds, for any number of tasks and calls.       *)
THEOREM CoreInductive == ASSUME CoreParameters PROVE Core!Spec => []CoreInv
<1>1. Core!Init => CoreInv
  BY CoreInit
<1>2. CoreInv /\ [Core!Next]_Core!vars => CoreInv'
  <2>. SUFFICES ASSUME CoreInv, [Core!Next]_Core!vars PROVE CoreInv'
    OBVIOUS
  <2>1. ASSUME NEW t \in Tasks, Core!Proceeds(t) PROVE CoreInv'
    BY <2>1, CoreTypesStep, CoreFitsStep, CoreOneStep, CoreCoresStep DEF CoreInv
  <2>2. ASSUME NEW t \in Tasks, NEW c \in Commands, Core!Begin(t, c) PROVE CoreInv'
    BY <2>2, CoreBeginStep
  <2>. QED BY <2>1, <2>2, CoreStays DEF Core!Next
<1>. QED BY <1>1, <1>2, PTL DEF Core!Spec

(* Unless two restarts crossed or a stop failed and left a core, each core *)
(* that runs is one that the mode names and the next stop reaches.         *)
THEOREM CoreNamed == ASSUME CoreParameters PROVE Core!Spec => []Core!CoresAreNamed
<1>1. CoreInv => Core!CoresAreNamed
  BY DEF CoreInv, CoreTypes, CoreFits, CoresInv, Core!CoresAreNamed, Named, Core!Lifecycle, Core!Quiet
<1>. QED BY <1>1, CoreInductive, PTL

(* After a stop that nothing has crossed no core runs, after a restart     *)
(* one, the sidecar or the service's.                                      *)
THEOREM CoreOne == ASSUME CoreParameters PROVE Core!Spec => []Core!OneCore
<1>1. CoreInv => Core!OneCore
  BY DEF CoreInv, CoresInv, CoreResults, NoCore, Core!OneCore
<1>. QED BY <1>1, CoreInductive, PTL

-------------------------------------------------------------------------------
(* Automatic backups.  Whoever makes one holds the lock, has looked at the *)
(* time of the last one inside it, and nobody else makes one until that    *)
(* time is stored (LockInv): so backups are apart.  A refresh that no      *)
(* other crossed, and that no change of the settings followed, hands on    *)
(* what the settings say (RefreshInv), and the scheduler has the value of  *)
(* the channel but for what it has not seen (RunnerInv).                   *)
(* No saver is the state of a lock that nobody holds.                      *)
BackupParameters ==
  /\ MIN_BACKUP_INTERVAL_SECS \in Nat /\ AUTO_BACKUP_KEEP \in Nat /\ "free" \notin Savers

RefreshSteps == {"idle", "write", "send", "start"}
RunnerSteps == {"none", "begins", "waits", "sleeps", "runs"}
TriggerSteps == {"idle", "lock", "create", "store", "clean"}

SettingsTypes ==
  /\ verge \in Backup!AutoBackupSettings /\ settings \in Backup!AutoBackupSettings
     /\ channel \in Backup!AutoBackupSettings
  /\ step \in [Refreshes -> RefreshSteps] /\ loaded \in [Refreshes -> Backup!AutoBackupSettings]
  /\ runner_started \in BOOLEAN /\ runner \in RunnerSteps /\ current \in Backup!AutoBackupSettings
     /\ unseen \in BOOLEAN
  /\ backupCrossed \in BOOLEAN /\ backupCount \in Nat

TriggerTypes ==
  /\ backupPc \in [Backup!Tasks -> TriggerSteps] /\ exec_lock \in Backup!Tasks \cup {"free"}
  /\ now \in Nat /\ now > 0 /\ last_backup \in Nat /\ last_backup <= now
  /\ made \in SUBSET Nat /\ \A a \in made : 0 < a /\ a <= now
  /\ \A f \in files : f = <<0, FALSE>> \/ \E a \in made : f = <<a, TRUE>>

BackupTypes == SettingsTypes /\ TriggerTypes

(* The task of the scheduler: it exists once it was started, and has the   *)
(* value of the channel but for what it has not seen.                      *)
RunnerInv ==
  /\ runner_started <=> runner # "none"
  /\ unseen => runner_started
  /\ runner = "runs" <=> backupPc[Backup!Scheduled] # "idle"
  /\ runner \in {"waits", "sleeps", "runs"} /\ ~unseen => current = channel

(* A refresh that nothing has crossed has what the settings say.           *)
RefreshInv ==
  ~backupCrossed =>
    /\ \A r, q \in Refreshes : step[r] # "idle" /\ step[q] # "idle" => r = q
    /\ \A r \in Refreshes :
         /\ step[r] # "idle" => loaded[r] = verge
         /\ step[r] \in {"send", "start"} => settings = verge
         /\ step[r] = "start" => channel = verge
    /\ (\A r \in Refreshes : step[r] = "idle") =>
         settings = verge /\ channel = verge /\ (verge.schedule_enabled => runner_started)

(* Who makes a backup holds the lock, and the time of the last one is      *)
(* known but to who is about to store it.                                  *)
LockInv ==
  /\ \A t \in Backup!Tasks : exec_lock = t <=> backupPc[t] \in {"create", "store", "clean"}
  /\ \A t \in Backup!Tasks : backupPc[t] = "create" => Backup!ShouldRunNow
  /\ (\A t \in Backup!Tasks : backupPc[t] # "store") => \A a \in made : a <= last_backup

BackupInv == BackupTypes /\ RunnerInv /\ RefreshInv /\ LockInv /\ Backup!Spaced /\ Backup!LastAreKept

(* The instance counts as the library does.                                *)
LEMMA BackupCounts == \A S : Backup!Cardinality(S) = Cardinality(S)
  BY DEF Cardinality, Backup!Cardinality

(* In a finite set of numbers an element has fewer above it than there     *)
(* are.                                                                    *)
LEMMA RankType ==
  ASSUME NEW S \in SUBSET Nat, IsFiniteSet(S), NEW a \in S
  PROVE  /\ Cardinality({b \in S : b > a}) \in Nat
         /\ Cardinality({b \in S : b > a}) < Cardinality(S)
<1>. DEFINE Above == {b \in S : b > a}
<1>1. Above \in SUBSET S /\ Above # S
  OBVIOUS
<1>2. IsFiniteSet(Above) /\ Cardinality(Above) <= Cardinality(S) /\ Cardinality(Above) # Cardinality(S)
  BY <1>1, FS_Subset
<1>. QED BY <1>2, FS_CardinalityType

(* A larger one has fewer above it.                                        *)
LEMMA RankDecreases ==
  ASSUME NEW S \in SUBSET Nat, IsFiniteSet(S), NEW a \in S, NEW c \in S, a < c
  PROVE  Cardinality({b \in S : b > c}) < Cardinality({b \in S : b > a})
<1>. DEFINE AboveA == {b \in S : b > a}
            AboveC == {b \in S : b > c}
<1>1. AboveC \in SUBSET AboveA /\ AboveC # AboveA
  <2>1. \A b \in S : b > c => b > a
    OBVIOUS
  <2>2. c \in AboveA /\ c \notin AboveC
    OBVIOUS
  <2>. QED BY <2>1, <2>2
<1>2. AboveA \in SUBSET S
  OBVIOUS
<1>3. IsFiniteSet(AboveA)
  BY <1>2, FS_Subset
<1>4. IsFiniteSet(AboveC) /\ Cardinality(AboveC) <= Cardinality(AboveA) /\ Cardinality(AboveC) # Cardinality(AboveA)
  BY <1>1, <1>3, FS_Subset
<1>. QED BY <1>3, <1>4, FS_CardinalityType

(* Of a finite set with at least n numbers those with less than n above    *)
(* them are n at least: ranks number the set from its end.                 *)
LEMMA NewestAreEnough ==
  ASSUME NEW S \in SUBSET Nat, IsFiniteSet(S), NEW n \in Nat, n <= Cardinality(S)
  PROVE  n <= Cardinality({a \in S : Cardinality({b \in S : b > a}) < n})
<1>. DEFINE m == Cardinality(S)
            rank == [a \in S |-> Cardinality({b \in S : b > a})]
            T == {a \in S : Cardinality({b \in S : b > a}) < n}
<1>1. m \in Nat
  BY FS_CardinalityType
<1>2. rank \in [S -> 0..(m - 1)]
  BY <1>1, RankType
<1>3. \A a, c \in S : rank[a] = rank[c] => a = c
  <2>1. ASSUME NEW a \in S, NEW c \in S, a < c PROVE rank[a] # rank[c]
    <3>1. rank[c] < rank[a]
      BY <2>1, RankDecreases
    <3>2. rank[c] \in Nat /\ rank[a] \in Nat
      BY <1>1, <1>2
    <3>. QED BY <3>1, <3>2
  <2>. HIDE DEF rank
  <2>2. \A a, c \in S : a = c \/ a < c \/ c < a
    OBVIOUS
  <2>. QED BY <2>1, <2>2
<1>4. rank \in Injection(S, 0..(m - 1))
  BY <1>2, <1>3 DEF Injection, IsInjective
<1>5. IsFiniteSet(0..(m - 1)) /\ Cardinality(0..(m - 1)) = m
  <2>1. 0 \in Int /\ m - 1 \in Int
    BY <1>1
  <2>2. IsFiniteSet(0..(m - 1)) /\ Cardinality(0..(m - 1)) = IF 0 > m - 1 THEN 0 ELSE (m - 1) - 0 + 1
    BY <2>1, FS_Interval
  <2>. QED BY <1>1, <2>2
<1>6. rank \in Surjection(S, 0..(m - 1))
  BY <1>4, <1>5, FS_Injection
<1>. DEFINE low == [a \in T |-> rank[a]]
<1>7. low \in Surjection(T, 0..(n - 1))
  <2>1. low \in [T -> 0..(n - 1)]
    <3>1. ASSUME NEW a \in T PROVE rank[a] \in 0..(n - 1)
      <4>1. rank[a] \in 0..(m - 1) /\ rank[a] < n
        BY <1>2
      <4>. QED BY <4>1, <1>1
    <3>. QED BY <3>1
  <2>2. ASSUME NEW k \in 0..(n - 1) PROVE \E a \in T : low[a] = k
    <3>1. k \in 0..(m - 1)
      BY <1>1
    <3>2. PICK a \in S : rank[a] = k
      BY <3>1, <1>6 DEF Surjection
    <3>3. rank[a] < n
      BY <3>2
    <3>. QED BY <3>2, <3>3
  <2>. QED BY <2>1, <2>2 DEF Surjection
<1>8. T \in SUBSET S
  OBVIOUS
<1>9. IsFiniteSet(T)
  BY <1>8, FS_Subset
<1>10. Cardinality(0..(n - 1)) <= Cardinality(T)
  BY <1>7, <1>9, FS_Surjection
<1>11. Cardinality(0..(n - 1)) = n
  <2>1. 0 \in Int /\ n - 1 \in Int
    OBVIOUS
  <2>2. Cardinality(0..(n - 1)) = IF 0 > n - 1 THEN 0 ELSE (n - 1) - 0 + 1
    BY <2>1, FS_Interval
  <2>. QED BY <2>2
<1>. QED BY <1>10, <1>11

LEMMA FreeIsNoTask == ASSUME BackupParameters PROVE "free" \notin Backup!Tasks
BY DEF BackupParameters, Backup!Tasks, Backup!Scheduled

LEMMA BackupInit == BackupParameters /\ Backup!Init => BackupInv
<1>. SUFFICES ASSUME BackupParameters, Backup!Init PROVE BackupInv
  OBVIOUS
<1>1. Backup!Default \in Backup!AutoBackupSettings
  BY DEF Backup!Default, Backup!AutoBackupSettings
<1>2. BackupTypes
  <2>1. SettingsTypes
    <3>1. runner_started \in BOOLEAN /\ unseen \in BOOLEAN /\ backupCrossed \in BOOLEAN
      BY DEF Backup!Init
    <3>2. step \in [Refreshes -> RefreshSteps] /\ loaded \in [Refreshes -> Backup!AutoBackupSettings]
      BY <1>1 DEF Backup!Init, RefreshSteps
    <3>. QED BY <1>1, <3>1, <3>2 DEF Backup!Init, SettingsTypes, RunnerSteps
  <2>2. TriggerTypes
    BY DEF Backup!Init, TriggerTypes, TriggerSteps
  <2>. QED BY <2>1, <2>2 DEF BackupTypes
<1>3. RunnerInv /\ RefreshInv
  BY DEF Backup!Init, RunnerInv, RefreshInv, Backup!Tasks
<1>4. LockInv
  BY FreeIsNoTask DEF Backup!Init, LockInv
<1>5. Backup!Autos = {} /\ made = {} /\ <<0, FALSE>> \in files
  <2>1. made = {} /\ files = {<<0, FALSE>>}
    BY DEF Backup!Init
  <2>2. <<0, FALSE>>[2] = FALSE
    OBVIOUS
  <2>. QED BY <2>1, <2>2 DEF Backup!Autos
<1>6. Backup!Spaced /\ Backup!LastAreKept
  BY <1>5, FS_EmptySet DEF Backup!Spaced, Backup!LastAreKept, BackupParameters
<1>. QED BY <1>2, <1>3, <1>4, <1>6 DEF BackupInv

LEMMA BackupSTypesStep ==
  ASSUME BackupParameters, BackupInv, Backup!Change \/ Backup!RunnerBegins \/ Backup!Changed \/ Backup!TimePasses
  PROVE  SettingsTypes'
<1>. USE DEF Backup!settingsVars, Backup!runnerVars, Backup!backupVars, Backup!Goes, Backup!WaitsFor,
             BackupInv, BackupTypes, SettingsTypes, RefreshSteps, RunnerSteps, TriggerTypes
<1>1. CASE Backup!Change
  BY <1>1 DEF Backup!Change
<1>2. CASE Backup!RunnerBegins
  BY <1>2 DEF Backup!RunnerBegins
<1>3. CASE Backup!Changed
  BY <1>3 DEF Backup!Changed
<1>4. CASE Backup!TimePasses
  BY <1>4 DEF Backup!TimePasses
<1>. QED BY <1>1, <1>2, <1>3, <1>4

LEMMA BackupSTypesSettingsStep ==
  ASSUME BackupParameters, BackupInv, NEW r \in Refreshes, Backup!LoadSettings(r) \/ Backup!WriteSettings(r)
         \/ Backup!Send(r) \/ Backup!ensure_runner(r)
  PROVE  SettingsTypes'
<1>1. CASE Backup!ensure_runner(r)
  <2>1. /\ step' = [step EXCEPT ![r] = "idle"] /\ loaded' = [loaded EXCEPT ![r] = Backup!Default]
        /\ runner_started' \in {runner_started, TRUE} /\ runner' \in {runner, "begins"}
        /\ UNCHANGED <<current, unseen, verge, settings, channel, backupCrossed, backupCount>>
    BY <1>1 DEF Backup!ensure_runner, Backup!runnerVars
  <2>2. Backup!Default \in Backup!AutoBackupSettings
    BY DEF Backup!Default, Backup!AutoBackupSettings
  <2>. QED BY <2>1, <2>2 DEF BackupInv, BackupTypes, SettingsTypes, RefreshSteps, RunnerSteps
<1>. USE DEF Backup!settingsVars, Backup!runnerVars, Backup!backupVars, Backup!Goes, Backup!WaitsFor,
             BackupInv, BackupTypes, SettingsTypes, RefreshSteps, RunnerSteps, TriggerTypes
<1>2. CASE Backup!LoadSettings(r)
  BY <1>2 DEF Backup!LoadSettings
<1>3. CASE Backup!WriteSettings(r)
  BY <1>3 DEF Backup!WriteSettings
<1>4. CASE Backup!Send(r)
  BY <1>4 DEF Backup!Send
<1>. QED BY <1>1, <1>2, <1>3, <1>4

LEMMA BackupSTypesTriggerStep ==
  ASSUME BackupParameters, BackupInv, NEW t \in Backup!Tasks, Backup!Trigger(t) \/ Backup!Lock(t)
         \/ Backup!Create(t) \/ Backup!CreateFails(t) \/ Backup!Store(t) \/ Backup!cleanup_auto_backups(t)
         \/ Backup!CleanupFails(t)
  PROVE  SettingsTypes'
<1>. USE DEF Backup!settingsVars, Backup!runnerVars, Backup!backupVars, Backup!Goes, Backup!WaitsFor,
             BackupInv, BackupTypes, SettingsTypes, RefreshSteps, RunnerSteps, TriggerTypes
<1>1. CASE Backup!Trigger(t)
  BY <1>1 DEF Backup!Trigger
<1>2. CASE Backup!Lock(t)
  BY <1>2 DEF Backup!Lock
<1>3. CASE Backup!Create(t)
  BY <1>3 DEF Backup!Create
<1>4. CASE Backup!CreateFails(t)
  BY <1>4 DEF Backup!CreateFails
<1>5. CASE Backup!Store(t)
  BY <1>5 DEF Backup!Store
<1>6. CASE Backup!cleanup_auto_backups(t)
  BY <1>6 DEF Backup!cleanup_auto_backups
<1>7. CASE Backup!CleanupFails(t)
  BY <1>7 DEF Backup!CleanupFails
<1>. QED BY <1>1, <1>2, <1>3, <1>4, <1>5, <1>6, <1>7

LEMMA BackupTTypesStep ==
  ASSUME BackupParameters, BackupInv, Backup!Change \/ Backup!RunnerBegins \/ Backup!Changed \/ Backup!TimePasses
  PROVE  TriggerTypes'
<1>1. CASE Backup!TimePasses
  <2>1. now' = now + 1 /\ UNCHANGED <<backupPc, exec_lock, last_backup, files, made>>
    BY <1>1 DEF Backup!TimePasses, Backup!backupVars
  <2>2. now' \in Nat /\ now' > 0 /\ last_backup' <= now' /\ \A a \in made : 0 < a /\ a <= now'
    BY <2>1 DEF BackupInv, BackupTypes, TriggerTypes
  <2>3. /\ backupPc \in [Backup!Tasks -> TriggerSteps] /\ exec_lock \in Backup!Tasks \cup {"free"}
        /\ last_backup \in Nat /\ made \in SUBSET Nat
        /\ \A f \in files : f = <<0, FALSE>> \/ \E a \in made : f = <<a, TRUE>>
    BY DEF BackupInv, BackupTypes, TriggerTypes
  <2>. QED BY <2>1, <2>2, <2>3, Zenon DEF TriggerTypes
<1>. USE DEF Backup!settingsVars, Backup!runnerVars, Backup!backupVars, Backup!Goes, Backup!WaitsFor,
             BackupInv, BackupTypes, TriggerTypes, TriggerSteps
<1>2. CASE Backup!Change
  BY <1>2, FreeIsNoTask DEF Backup!Change
<1>3. CASE Backup!RunnerBegins
  BY <1>3, FreeIsNoTask DEF Backup!RunnerBegins
<1>4. CASE Backup!Changed
  BY <1>4, FreeIsNoTask DEF Backup!Changed
<1>. QED BY <1>1, <1>2, <1>3, <1>4

LEMMA BackupTTypesSettingsStep ==
  ASSUME BackupParameters, BackupInv, NEW r \in Refreshes, Backup!LoadSettings(r) \/ Backup!WriteSettings(r)
         \/ Backup!Send(r) \/ Backup!ensure_runner(r)
  PROVE  TriggerTypes'
<1>. USE DEF Backup!settingsVars, Backup!runnerVars, Backup!backupVars, Backup!Goes, Backup!WaitsFor,
             BackupInv, BackupTypes, TriggerTypes, TriggerSteps
<1>1. CASE Backup!LoadSettings(r)
  BY <1>1, FreeIsNoTask DEF Backup!LoadSettings
<1>2. CASE Backup!WriteSettings(r)
  BY <1>2, FreeIsNoTask DEF Backup!WriteSettings
<1>3. CASE Backup!Send(r)
  BY <1>3, FreeIsNoTask DEF Backup!Send
<1>4. CASE Backup!ensure_runner(r)
  BY <1>4, FreeIsNoTask DEF Backup!ensure_runner
<1>. QED BY <1>1, <1>2, <1>3, <1>4

LEMMA BackupTTypesTriggerStep ==
  ASSUME BackupParameters, BackupInv, NEW t \in Backup!Tasks, Backup!Trigger(t) \/ Backup!Lock(t)
         \/ Backup!Create(t) \/ Backup!CreateFails(t) \/ Backup!Store(t) \/ Backup!cleanup_auto_backups(t)
         \/ Backup!CleanupFails(t)
  PROVE  TriggerTypes'
<1>1. CASE Backup!Create(t)
  <2>1. /\ backupPc' = [backupPc EXCEPT ![t] = "store"] /\ made' = made \cup {now}
           /\ files' = files \cup {<<now, TRUE>>}
        /\ UNCHANGED <<exec_lock, last_backup, now>>
    BY <1>1 DEF Backup!Create, Backup!Goes
  <2>2. made' \in SUBSET Nat /\ \A a \in made' : 0 < a /\ a <= now
    BY <2>1 DEF BackupInv, BackupTypes, TriggerTypes
  <2>3. \A f \in files' : f = <<0, FALSE>> \/ \E a \in made' : f = <<a, TRUE>>
    BY <2>1, Zenon DEF BackupInv, BackupTypes, TriggerTypes
  <2>4. backupPc' \in [Backup!Tasks -> TriggerSteps]
    BY <2>1 DEF BackupInv, BackupTypes, TriggerTypes, TriggerSteps
  <2>. QED BY <2>1, <2>2, <2>3, <2>4 DEF BackupInv, BackupTypes, TriggerTypes
<1>2. CASE Backup!Store(t)
  <2>1. backupPc' = [backupPc EXCEPT ![t] = "clean"] /\ last_backup' = now
        /\ UNCHANGED <<exec_lock, files, made, now>>
    BY <1>2 DEF Backup!Store, Backup!Goes
  <2>2. backupPc' \in [Backup!Tasks -> TriggerSteps]
    BY <2>1 DEF BackupInv, BackupTypes, TriggerTypes, TriggerSteps
  <2>3. last_backup' \in Nat /\ last_backup' <= now'
    BY <2>1 DEF BackupInv, BackupTypes, TriggerTypes
  <2>. QED BY <2>1, <2>2, <2>3, Zenon DEF BackupInv, BackupTypes, TriggerTypes
<1>. USE DEF Backup!settingsVars, Backup!runnerVars, Backup!backupVars, Backup!Goes, Backup!WaitsFor,
             BackupInv, BackupTypes, TriggerTypes, TriggerSteps
<1>3. CASE Backup!Trigger(t)
  BY <1>3, FreeIsNoTask DEF Backup!Trigger
<1>4. CASE Backup!Lock(t)
  BY <1>4, FreeIsNoTask DEF Backup!Lock
<1>5. CASE Backup!CreateFails(t)
  BY <1>5, FreeIsNoTask DEF Backup!CreateFails
<1>6. CASE Backup!cleanup_auto_backups(t)
  BY <1>6, FreeIsNoTask DEF Backup!cleanup_auto_backups
<1>7. CASE Backup!CleanupFails(t)
  BY <1>7, FreeIsNoTask DEF Backup!CleanupFails
<1>. QED BY <1>1, <1>2, <1>3, <1>4, <1>5, <1>6, <1>7

LEMMA BackupRunnerStep ==
  ASSUME BackupParameters, BackupInv, Backup!Change \/ Backup!RunnerBegins \/ Backup!Changed \/ Backup!TimePasses
  PROVE  RunnerInv'
<1>. USE DEF Backup!settingsVars, Backup!runnerVars, Backup!backupVars, Backup!Goes, Backup!WaitsFor,
             BackupInv, BackupTypes, SettingsTypes, TriggerTypes, RefreshSteps, RunnerSteps, TriggerSteps,
             RunnerInv
<1>1. CASE Backup!Change
  BY <1>1 DEF Backup!Change
<1>2. CASE Backup!RunnerBegins
  BY <1>2 DEF Backup!RunnerBegins
<1>3. CASE Backup!Changed
  BY <1>3 DEF Backup!Changed
<1>4. CASE Backup!TimePasses
  BY <1>4 DEF Backup!TimePasses
<1>. QED BY <1>1, <1>2, <1>3, <1>4

LEMMA BackupRunnerSettingsStep ==
  ASSUME BackupParameters, BackupInv, NEW r \in Refreshes, Backup!LoadSettings(r) \/ Backup!WriteSettings(r)
         \/ Backup!Send(r) \/ Backup!ensure_runner(r)
  PROVE  RunnerInv'
<1>. USE DEF Backup!settingsVars, Backup!runnerVars, Backup!backupVars, Backup!Goes, Backup!WaitsFor,
             BackupInv, BackupTypes, SettingsTypes, TriggerTypes, RefreshSteps, RunnerSteps, TriggerSteps,
             RunnerInv
<1>1. CASE Backup!LoadSettings(r)
  BY <1>1 DEF Backup!LoadSettings
<1>2. CASE Backup!WriteSettings(r)
  BY <1>2 DEF Backup!WriteSettings
<1>3. CASE Backup!Send(r)
  BY <1>3 DEF Backup!Send
<1>4. CASE Backup!ensure_runner(r)
  BY <1>4 DEF Backup!ensure_runner
<1>. QED BY <1>1, <1>2, <1>3, <1>4

LEMMA BackupRunnerTriggerStep ==
  ASSUME BackupParameters, BackupInv, NEW t \in Backup!Tasks, Backup!Trigger(t) \/ Backup!Lock(t)
         \/ Backup!Create(t) \/ Backup!CreateFails(t) \/ Backup!Store(t) \/ Backup!cleanup_auto_backups(t)
         \/ Backup!CleanupFails(t)
  PROVE  RunnerInv'
<1>1. CASE Backup!Lock(t)
  <2>1. PICK w \in {"create", "idle"} : Backup!Goes(t, w)
    BY <1>1 DEF Backup!Lock
  <2>. QED BY <1>1, <2>1
              DEF Backup!Lock, Backup!Goes, Backup!WaitsFor, Backup!settingsVars, BackupInv, BackupTypes,
                  SettingsTypes, TriggerTypes,
                          RunnerSteps, TriggerSteps, RunnerInv
<1>. USE DEF Backup!settingsVars, Backup!runnerVars, Backup!backupVars, Backup!Goes, Backup!WaitsFor,
             BackupInv, BackupTypes, SettingsTypes, TriggerTypes, RefreshSteps, RunnerSteps, TriggerSteps,
             RunnerInv
<1>2. CASE Backup!Trigger(t)
  BY <1>2 DEF Backup!Trigger
<1>3. CASE Backup!Create(t)
  BY <1>3 DEF Backup!Create
<1>4. CASE Backup!CreateFails(t)
  BY <1>4 DEF Backup!CreateFails
<1>5. CASE Backup!Store(t)
  BY <1>5 DEF Backup!Store
<1>6. CASE Backup!cleanup_auto_backups(t)
  BY <1>6 DEF Backup!cleanup_auto_backups
<1>7. CASE Backup!CleanupFails(t)
  BY <1>7 DEF Backup!CleanupFails
<1>. QED BY <1>1, <1>2, <1>3, <1>4, <1>5, <1>6, <1>7

LEMMA BackupRefreshStep ==
  ASSUME BackupParameters, BackupInv, Backup!Change \/ Backup!RunnerBegins \/ Backup!Changed \/ Backup!TimePasses
  PROVE  RefreshInv'
<1>. USE DEF Backup!settingsVars, Backup!runnerVars, Backup!backupVars, Backup!Goes, Backup!WaitsFor,
             BackupInv, BackupTypes, SettingsTypes, RefreshInv, RunnerInv, RefreshSteps
<1>1. CASE Backup!Change
  BY <1>1 DEF Backup!Change
<1>2. CASE Backup!RunnerBegins
  BY <1>2 DEF Backup!RunnerBegins
<1>3. CASE Backup!Changed
  BY <1>3 DEF Backup!Changed
<1>4. CASE Backup!TimePasses
  BY <1>4 DEF Backup!TimePasses
<1>. QED BY <1>1, <1>2, <1>3, <1>4

LEMMA BackupRefreshSettingsStep ==
  ASSUME BackupParameters, BackupInv, NEW r \in Refreshes, Backup!LoadSettings(r) \/ Backup!WriteSettings(r)
         \/ Backup!Send(r) \/ Backup!ensure_runner(r)
  PROVE  RefreshInv'
<1>. USE DEF Backup!settingsVars, Backup!runnerVars, Backup!backupVars, Backup!Goes, Backup!WaitsFor,
             BackupInv, BackupTypes, SettingsTypes, RefreshInv, RunnerInv, RefreshSteps
<1>1. CASE Backup!LoadSettings(r)
  BY <1>1 DEF Backup!LoadSettings
<1>2. CASE Backup!WriteSettings(r)
  BY <1>2 DEF Backup!WriteSettings
<1>3. CASE Backup!Send(r)
  BY <1>3 DEF Backup!Send
<1>4. CASE Backup!ensure_runner(r)
  BY <1>4 DEF Backup!ensure_runner
<1>. QED BY <1>1, <1>2, <1>3, <1>4

LEMMA BackupRefreshTriggerStep ==
  ASSUME BackupParameters, BackupInv, NEW t \in Backup!Tasks, Backup!Trigger(t) \/ Backup!Lock(t)
         \/ Backup!Create(t) \/ Backup!CreateFails(t) \/ Backup!Store(t) \/ Backup!cleanup_auto_backups(t)
         \/ Backup!CleanupFails(t)
  PROVE  RefreshInv'
<1>. USE DEF Backup!settingsVars, Backup!runnerVars, Backup!backupVars, Backup!Goes, Backup!WaitsFor,
             BackupInv, BackupTypes, SettingsTypes, RefreshInv, RunnerInv, RefreshSteps
<1>1. CASE Backup!Trigger(t)
  BY <1>1 DEF Backup!Trigger
<1>2. CASE Backup!Lock(t)
  BY <1>2 DEF Backup!Lock
<1>3. CASE Backup!Create(t)
  BY <1>3 DEF Backup!Create
<1>4. CASE Backup!CreateFails(t)
  BY <1>4 DEF Backup!CreateFails
<1>5. CASE Backup!Store(t)
  BY <1>5 DEF Backup!Store
<1>6. CASE Backup!cleanup_auto_backups(t)
  BY <1>6 DEF Backup!cleanup_auto_backups
<1>7. CASE Backup!CleanupFails(t)
  BY <1>7 DEF Backup!CleanupFails
<1>. QED BY <1>1, <1>2, <1>3, <1>4, <1>5, <1>6, <1>7

LEMMA BackupLockStep ==
  ASSUME BackupParameters, BackupInv, Backup!Change \/ Backup!RunnerBegins \/ Backup!Changed \/ Backup!TimePasses
  PROVE  LockInv'
<1>. USE DEF Backup!settingsVars, Backup!runnerVars, Backup!backupVars, Backup!Goes, Backup!WaitsFor,
             BackupInv, BackupTypes, TriggerTypes, LockInv, Backup!ShouldRunNow, BackupParameters,
             TriggerSteps
<1>1. CASE Backup!Change
  BY <1>1, FreeIsNoTask DEF Backup!Change
<1>2. CASE Backup!RunnerBegins
  BY <1>2, FreeIsNoTask DEF Backup!RunnerBegins
<1>3. CASE Backup!Changed
  BY <1>3, FreeIsNoTask DEF Backup!Changed
<1>4. CASE Backup!TimePasses
  BY <1>4, FreeIsNoTask DEF Backup!TimePasses
<1>. QED BY <1>1, <1>2, <1>3, <1>4

LEMMA BackupLockSettingsStep ==
  ASSUME BackupParameters, BackupInv, NEW r \in Refreshes, Backup!LoadSettings(r) \/ Backup!WriteSettings(r)
         \/ Backup!Send(r) \/ Backup!ensure_runner(r)
  PROVE  LockInv'
<1>. USE DEF Backup!settingsVars, Backup!runnerVars, Backup!backupVars, Backup!Goes, Backup!WaitsFor,
             BackupInv, BackupTypes, TriggerTypes, LockInv, Backup!ShouldRunNow, BackupParameters,
             TriggerSteps
<1>1. CASE Backup!LoadSettings(r)
  BY <1>1, FreeIsNoTask DEF Backup!LoadSettings
<1>2. CASE Backup!WriteSettings(r)
  BY <1>2, FreeIsNoTask DEF Backup!WriteSettings
<1>3. CASE Backup!Send(r)
  BY <1>3, FreeIsNoTask DEF Backup!Send
<1>4. CASE Backup!ensure_runner(r)
  BY <1>4, FreeIsNoTask DEF Backup!ensure_runner
<1>. QED BY <1>1, <1>2, <1>3, <1>4

LEMMA BackupLockTriggerStep ==
  ASSUME BackupParameters, BackupInv, NEW t \in Backup!Tasks, Backup!Trigger(t) \/ Backup!Lock(t)
         \/ Backup!Create(t) \/ Backup!CreateFails(t) \/ Backup!Store(t) \/ Backup!cleanup_auto_backups(t)
         \/ Backup!CleanupFails(t)
  PROVE  LockInv'
<1>. USE DEF Backup!settingsVars, Backup!runnerVars, Backup!backupVars, Backup!Goes, Backup!WaitsFor,
             BackupInv, BackupTypes, TriggerTypes, LockInv, Backup!ShouldRunNow, BackupParameters,
             TriggerSteps
<1>1. CASE Backup!Trigger(t)
  BY <1>1, FreeIsNoTask DEF Backup!Trigger
<1>2. CASE Backup!Lock(t)
  BY <1>2, FreeIsNoTask DEF Backup!Lock
<1>3. CASE Backup!Create(t)
  BY <1>3, FreeIsNoTask DEF Backup!Create
<1>4. CASE Backup!CreateFails(t)
  BY <1>4, FreeIsNoTask DEF Backup!CreateFails
<1>5. CASE Backup!Store(t)
  BY <1>5, FreeIsNoTask DEF Backup!Store
<1>6. CASE Backup!cleanup_auto_backups(t)
  BY <1>6, FreeIsNoTask DEF Backup!cleanup_auto_backups
<1>7. CASE Backup!CleanupFails(t)
  BY <1>7, FreeIsNoTask DEF Backup!CleanupFails
<1>. QED BY <1>1, <1>2, <1>3, <1>4, <1>5, <1>6, <1>7


(* A new backup keeps its distance: the lock orders the backups, and what  *)
(* was looked at inside it is still so.                                    *)
LEMMA BackupSpacedStep ==
  ASSUME BackupParameters, BackupInv, NEW t \in Backup!Tasks, Backup!Create(t)
  PROVE  Backup!Spaced'
<1>1. made' = made \cup {now}
  BY DEF Backup!Create
<1>2. \A u \in Backup!Tasks : backupPc[u] # "store"
  BY DEF BackupInv, LockInv, Backup!Create
<1>3. \A a \in made : a \in Nat /\ 0 < a /\ a <= last_backup /\ a <= now
  BY <1>2 DEF BackupInv, LockInv, BackupTypes, TriggerTypes
<1>4. last_backup = 0 \/ now >= last_backup + MIN_BACKUP_INTERVAL_SECS
  BY DEF BackupInv, LockInv, Backup!Create, Backup!ShouldRunNow
<1>5. \A a \in made : a < now => now - a >= MIN_BACKUP_INTERVAL_SECS
  BY <1>3, <1>4 DEF BackupInv, BackupTypes, TriggerTypes, BackupParameters
<1>6. now \in Nat
  BY DEF BackupInv, BackupTypes, TriggerTypes
<1>. QED BY <1>1, <1>3, <1>5, <1>6 DEF BackupInv, Backup!Spaced

LEMMA AutosMade ==
  ASSUME BackupInv
  PROVE  Backup!Autos \in SUBSET made /\ made \in SUBSET Nat /\ IsFiniteSet(made) /\ IsFiniteSet(Backup!Autos)
<1>1. Backup!Autos \in SUBSET made /\ made \in SUBSET Nat /\ now \in Nat /\ \A a \in made : a <= now
  <2>1. \A f \in files : f = <<0, FALSE>> \/ \E a \in made : f = <<a, TRUE>>
    BY DEF BackupInv, BackupTypes, TriggerTypes
  <2>2. ASSUME NEW f \in files, f[2] PROVE f[1] \in made
    <3>1. f # <<0, FALSE>>
      <4>1. <<0, FALSE>>[2] = FALSE
        OBVIOUS
      <4>. QED BY <2>2, <4>1, Zenon
    <3>2. PICK a \in made : f = <<a, TRUE>>
      BY <2>1, <3>1
    <3>. QED BY <3>2
  <2>. QED BY <2>2 DEF Backup!Autos, BackupInv, BackupTypes, TriggerTypes
<1>2. IsFiniteSet(made)
  BY <1>1, FS_BoundedSetOfNaturals
<1>. QED BY <1>1, <1>2, FS_Subset

LEMMA AutosAre ==
  /\ \A a : a \in Backup!Autos <=> \E f \in files : f[2] /\ f[1] = a
  /\ (\A a : a \in Backup!Autos <=> \E f \in files : f[2] /\ f[1] = a)'
<1>1. \A a : a \in Backup!Autos <=> \E f \in files : f[2] /\ f[1] = a
  BY DEF Backup!Autos
<1>2. (\A a : a \in Backup!Autos <=> \E f \in files : f[2] /\ f[1] = a)'
  BY DEF Backup!Autos
<1>. QED BY <1>1, <1>2

LEMMA BackupCreateKeeps ==
  ASSUME BackupParameters, BackupInv, NEW t \in Backup!Tasks, Backup!Create(t)
  PROVE  Backup!LastAreKept'
<1>1. made' = made \cup {now} /\ files' = files \cup {<<now, TRUE>>}
  BY DEF Backup!Create
<1>2. Backup!Autos' = Backup!Autos \cup {now}
  <2>1. <<now, TRUE>>[1] = now /\ <<now, TRUE>>[2] = TRUE
    OBVIOUS
  <2>2. ASSUME NEW f PROVE f \in files' <=> f \in files \/ f = <<now, TRUE>>
    BY <1>1
  <2>3. ASSUME NEW a \in Backup!Autos' PROVE a \in Backup!Autos \/ a = now
    <3>1. PICK f \in files' : f[2] /\ f[1] = a
      BY AutosAre
    <3>. QED BY <2>1, <2>2, <3>1, AutosAre, Zenon
  <2>4. ASSUME NEW a, a \in Backup!Autos \/ a = now PROVE a \in Backup!Autos'
    BY <2>1, <2>2, <2>4, AutosAre, Zenon
  <2>. QED BY <2>3, <2>4
<1>3. Backup!Autos \subseteq made /\ made \subseteq Nat /\ IsFiniteSet(made) /\ IsFiniteSet(Backup!Autos)
  BY AutosMade
<1>4. /\ now \in Nat /\ AUTO_BACKUP_KEEP \in Nat /\ \A a \in made : a <= now
  BY DEF BackupInv, BackupTypes, TriggerTypes, BackupParameters
<1>5. \A gone \in made' \ Backup!Autos', kept \in Backup!Autos' : gone < kept
  <2>. SUFFICES ASSUME NEW gone \in made \ Backup!Autos, gone # now, NEW kept \in Backup!Autos \cup {now}
        PROVE gone < kept
    BY <1>1, <1>2
  <2>1. gone < now
    BY <1>3, <1>4
  <2>. QED BY <2>1 DEF BackupInv, Backup!LastAreKept
<1>6. /\ Cardinality(made) \in Nat /\ Cardinality(Backup!Autos) \in Nat
      /\ Cardinality(made') = IF now \in made THEN Cardinality(made) ELSE Cardinality(made) + 1
      /\ Cardinality(Backup!Autos') = IF now \in Backup!Autos THEN Cardinality(Backup!Autos) ELSE Cardinality(Backup!Autos) + 1
  BY <1>1, <1>2, <1>3, FS_CardinalityType, FS_AddElement
<1>7. /\ Cardinality(made) >= AUTO_BACKUP_KEEP => Cardinality(Backup!Autos) >= AUTO_BACKUP_KEEP
      /\ Cardinality(made) <= AUTO_BACKUP_KEEP => Backup!Autos = made
      /\ <<0, FALSE>> \in files
  BY BackupCounts DEF BackupInv, Backup!LastAreKept
<1>8. Cardinality(made') >= AUTO_BACKUP_KEEP => Cardinality(Backup!Autos') >= AUTO_BACKUP_KEEP
  BY <1>3, <1>4, <1>6, <1>7
<1>9. Cardinality(made') <= AUTO_BACKUP_KEEP => Backup!Autos' = made'
  BY <1>1, <1>2, <1>4, <1>6, <1>7
<1>. QED BY <1>1, <1>5, <1>7, <1>8, <1>9, BackupCounts DEF Backup!LastAreKept

LEMMA BackupCleanupKeeps ==
  ASSUME BackupParameters, BackupInv, NEW t \in Backup!Tasks, Backup!cleanup_auto_backups(t)
  PROVE  Backup!LastAreKept'
<1>. DEFINE rank(f) == Cardinality({a \in Backup!Autos : a > f})
<1>1. made' = made /\ files' = {f \in files : f[2] => rank(f[1]) < AUTO_BACKUP_KEEP}
  BY BackupCounts DEF Backup!cleanup_auto_backups
<1>2. Backup!Autos' = {a \in Backup!Autos : rank(a) < AUTO_BACKUP_KEEP}
  <2>. HIDE DEF rank
  <2>1. \A a : a \in Backup!Autos' <=> a \in Backup!Autos /\ rank(a) < AUTO_BACKUP_KEEP
    BY <1>1, AutosAre, Zenon
  <2>. QED BY <2>1
<1>3. Backup!Autos \in SUBSET Nat /\ Backup!Autos \subseteq made /\ IsFiniteSet(made) /\ IsFiniteSet(Backup!Autos)
  BY AutosMade
<1>4. AUTO_BACKUP_KEEP \in Nat /\ Cardinality(Backup!Autos) \in Nat
  BY <1>3, FS_CardinalityType DEF BackupParameters
<1>5. <<0, FALSE>> \in files'
  <2>1. <<0, FALSE>> \in files /\ <<0, FALSE>>[2] = FALSE
    BY DEF BackupInv, Backup!LastAreKept
  <2>. QED BY <1>1, <2>1
<1>6. \A gone \in made' \ Backup!Autos', kept \in Backup!Autos' : gone < kept
  <2>. SUFFICES ASSUME NEW gone \in made \ Backup!Autos', NEW kept \in Backup!Autos' PROVE gone < kept
    BY <1>1
  <2>1. kept \in Backup!Autos /\ rank(kept) < AUTO_BACKUP_KEEP
    BY <1>2
  <2>2. CASE gone \notin Backup!Autos
    BY <2>1, <2>2 DEF BackupInv, Backup!LastAreKept
  <2>3. CASE gone \in Backup!Autos
    <3>1. ~ (rank(gone) < AUTO_BACKUP_KEEP) /\ gone # kept
      BY <1>2, <2>3
    <3>2. kept < gone => rank(gone) < rank(kept)
      BY <1>3, <2>1, <2>3, RankDecreases
    <3>3. rank(gone) \in Nat /\ rank(kept) \in Nat
      BY <1>3, <2>1, <2>3, RankType
    <3>4. gone \in Nat /\ kept \in Nat
      BY <1>3, <2>1, <2>3
    <3>. HIDE DEF rank
    <3>. QED BY <1>4, <2>1, <3>1, <3>2, <3>3, <3>4
  <2>. QED BY <2>2, <2>3
<1>7. Cardinality(made) >= AUTO_BACKUP_KEEP => Cardinality(Backup!Autos') >= AUTO_BACKUP_KEEP
  <2>. SUFFICES ASSUME Cardinality(made) >= AUTO_BACKUP_KEEP PROVE Cardinality(Backup!Autos') >= AUTO_BACKUP_KEEP
    OBVIOUS
  <2>1. AUTO_BACKUP_KEEP <= Cardinality(Backup!Autos)
    BY <1>4, BackupCounts DEF BackupInv, Backup!LastAreKept
  <2>2. AUTO_BACKUP_KEEP <= Cardinality({a \in Backup!Autos : Cardinality({b \in Backup!Autos : b > a}) < AUTO_BACKUP_KEEP})
    BY <1>3, <1>4, <2>1, NewestAreEnough
  <2>3. Backup!Autos' \in SUBSET Backup!Autos
    BY <1>2
  <2>4. Cardinality(Backup!Autos') \in Nat
    BY <1>3, <2>3, FS_Subset, FS_CardinalityType
  <2>. QED BY <1>2, <1>4, <2>2, <2>4
<1>8. Cardinality(made) <= AUTO_BACKUP_KEEP => Backup!Autos' = made
  <2>. SUFFICES ASSUME Cardinality(made) <= AUTO_BACKUP_KEEP PROVE Backup!Autos' = made
    OBVIOUS
  <2>1. Backup!Autos = made
    BY BackupCounts DEF BackupInv, Backup!LastAreKept
  <2>2. \A a \in Backup!Autos : rank(a) \in Nat /\ rank(a) < Cardinality(Backup!Autos)
    BY <1>3, RankType
  <2>. HIDE DEF rank
  <2>. QED BY <1>2, <1>4, <2>1, <2>2
<1>. QED BY <1>1, <1>5, <1>6, <1>7, <1>8, BackupCounts DEF Backup!LastAreKept

LEMMA BackupStep ==
  ASSUME BackupParameters, BackupInv, Backup!Next
  PROVE  BackupInv'
<1>. DEFINE Same == made' = made /\ files' = files
<1>1. Same => Backup!Spaced' /\ Backup!LastAreKept'
  BY DEF BackupInv, Backup!Spaced, Backup!LastAreKept, Backup!Autos
<1>2. ASSUME Backup!Change \/ Backup!RunnerBegins \/ Backup!Changed \/ Backup!TimePasses PROVE BackupInv'
  <2>1. Same
    BY <1>2 DEF Backup!Change, Backup!RunnerBegins, Backup!Changed, Backup!TimePasses, Backup!backupVars
  <2>. QED BY <1>1, <1>2, <2>1, BackupSTypesStep, BackupTTypesStep, BackupRunnerStep, BackupRefreshStep,
              BackupLockStep
           DEF BackupInv, BackupTypes
<1>3. ASSUME NEW r \in Refreshes, Backup!LoadSettings(r) \/ Backup!WriteSettings(r) \/ Backup!Send(r)
             \/ Backup!ensure_runner(r) PROVE BackupInv'
  <2>1. Same
    BY <1>3
       DEF Backup!LoadSettings, Backup!WriteSettings, Backup!Send, Backup!ensure_runner, Backup!backupVars
  <2>. QED BY <1>1, <1>3, <2>1, BackupSTypesSettingsStep, BackupTTypesSettingsStep, BackupRunnerSettingsStep,
                 BackupRefreshSettingsStep, BackupLockSettingsStep DEF BackupInv, BackupTypes
<1>4. ASSUME NEW t \in Backup!Tasks, Backup!Trigger(t) \/ Backup!Lock(t) \/ Backup!Create(t)
             \/ Backup!CreateFails(t) \/ Backup!Store(t)
                              \/ Backup!cleanup_auto_backups(t) \/ Backup!CleanupFails(t)
      PROVE  BackupInv'
  <2>1. Backup!Spaced' /\ Backup!LastAreKept'
    <3>1. CASE Backup!Create(t)
      BY <3>1, BackupSpacedStep, BackupCreateKeeps
    <3>2. CASE Backup!cleanup_auto_backups(t)
      <4>1. made' = made
        BY <3>2 DEF Backup!cleanup_auto_backups
      <4>. QED BY <3>2, <4>1, BackupCleanupKeeps DEF BackupInv, Backup!Spaced
    <3>3. CASE ~Backup!Create(t) /\ ~Backup!cleanup_auto_backups(t)
      BY <1>1, <1>4, <3>3
         DEF Backup!Trigger, Backup!Lock, Backup!CreateFails, Backup!Store, Backup!CleanupFails
    <3>. QED BY <3>1, <3>2, <3>3
  <2>. QED BY <1>4, <2>1, BackupSTypesTriggerStep, BackupTTypesTriggerStep, BackupRunnerTriggerStep,
                 BackupRefreshTriggerStep, BackupLockTriggerStep DEF BackupInv, BackupTypes
<1>. QED BY <1>2, <1>3, <1>4 DEF Backup!Next

LEMMA BackupStays == ASSUME BackupInv, UNCHANGED Backup!vars PROVE BackupInv'
<1>. USE DEF Backup!vars, Backup!settingsVars, Backup!runnerVars, Backup!backupVars, BackupInv
<1>1. BackupTypes'
  BY DEF BackupTypes, SettingsTypes, TriggerTypes
<1>2. RunnerInv' /\ RefreshInv'
  BY DEF RunnerInv, RefreshInv
<1>3. LockInv' /\ Backup!Spaced' /\ Backup!LastAreKept'
  BY DEF LockInv, Backup!ShouldRunNow, Backup!Spaced, Backup!LastAreKept, Backup!Autos
<1>. QED BY <1>1, <1>2, <1>3

(* The inductive invariant holds, for any number of refreshes and savers   *)
(* and any distance and number to keep.                                    *)
THEOREM BackupInductive == ASSUME BackupParameters PROVE Backup!Spec => []BackupInv
<1>1. Backup!Init => BackupInv
  BY BackupInit
<1>2. BackupInv /\ [Backup!Next]_Backup!vars => BackupInv'
  BY BackupStep, BackupStays
<1>. QED BY <1>1, <1>2, PTL DEF Backup!Spec

(* Two automatic backups are at least the minimum apart, however many      *)
(* triggers come at once.                                                  *)
THEOREM BackupSpaced == ASSUME BackupParameters PROVE Backup!Spec => []Backup!Spaced
<1>1. BackupInv => Backup!Spaced
  BY DEF BackupInv
<1>. QED BY <1>1, BackupInductive, PTL

(* Those that were removed are older than those that are there, and as     *)
(* many of the newest as are to be kept, or all, are there; the user's own *)
(* backup stays.                                                           *)
THEOREM BackupLast == ASSUME BackupParameters PROVE Backup!Spec => []Backup!LastAreKept
<1>1. BackupInv => Backup!LastAreKept
  BY DEF BackupInv
<1>. QED BY <1>1, BackupInductive, PTL

(* The scheduler and the triggers have the settings of the last refresh,   *)
(* unless two of them crossed.                                             *)
THEOREM BackupSettings == ASSUME BackupParameters PROVE Backup!Spec => []Backup!SettingsFollow
<1>1. BackupInv => Backup!SettingsFollow
  BY DEF BackupInv, RunnerInv, RefreshInv, Backup!SettingsFollow
<1>. QED BY <1>1, BackupInductive, PTL

-------------------------------------------------------------------------------
(* The watch of the exit.  A mismatch counts once the address was the same *)
(* for the whole window (Settling), is prolonged only when the alarm's     *)
(* timer ran without a break since the mismatch came (Lasting), and an     *)
(* exit that was told is the one remembered (Told).                        *)
(* No address is called none; the ages, which stop at 99, reach both       *)
(* durations.                                                              *)
ExitParameters ==
  /\ "none" \notin Exit!Ips
  /\ STABLE_DURATION \in 1..98 /\ MISMATCH_PROLONGED \in 0..98

ExitKnown == Exit!Ips \cup {"none"}

ExitTypes ==
  /\ exit \in Exit!Ips /\ actual \in ExitKnown /\ expected \in ExitKnown /\ stable \in ExitKnown
  /\ connected \in BOOLEAN /\ setup \in BOOLEAN
  /\ pairs \in Seq(ExitKnown \X ExitKnown)
  /\ promote \in 0..99 /\ alarm \in 0..99
  /\ held \in 0..STABLE_DURATION /\ lasted \in 0..MISMATCH_PROLONGED

Settling ==
  /\ promote # Exit!Off => promote + held = STABLE_DURATION
  /\ held = STABLE_DURATION => actual \in settled
  /\ stable # "none" => stable \in settled

Lasting ==
  /\ prolonged => Exit!Counting /\ alarm = Exit!Off /\ lasted = MISMATCH_PROLONGED
  /\ ~prolonged => IF Exit!Counting THEN alarm # Exit!Off /\ alarm + lasted = MISMATCH_PROLONGED
                   ELSE alarm = Exit!Off

Told ==
  /\ lastNotified = IF pairs = <<>> THEN <<>> ELSE pairs[Len(pairs)]
  /\ Exit!NotifiedOnce

ExitInv == ExitTypes /\ prolonged \in BOOLEAN /\ Settling /\ Lasting /\ Told

LEMMA MismatchOf ==
  ASSUME NEW act, NEW exp, NEW conn \in BOOLEAN, NEW st, Exit!Status(act, exp, conn, st) = "mismatch"
  PROVE  act # "none" /\ st = act
<1>1. act # "none"
  BY DEF Exit!Status
<1>2. st = act
  BY DEF Exit!Status
<1>. QED BY <1>1, <1>2

LEMMA ExitInit == ExitParameters /\ Exit!Init => ExitInv
<1>. SUFFICES ASSUME ExitParameters, Exit!Init PROVE ExitInv
  OBVIOUS
<1>1. ExitTypes /\ prolonged \in BOOLEAN
  <2>1. exit \in Exit!Ips /\ actual \in ExitKnown /\ expected \in ExitKnown /\ stable \in ExitKnown
    BY DEF Exit!Init, ExitKnown, Exit!Ips
  <2>2. connected \in BOOLEAN /\ setup \in BOOLEAN /\ prolonged \in BOOLEAN
    BY DEF Exit!Init
  <2>3. pairs \in Seq(ExitKnown \X ExitKnown)
    BY DEF Exit!Init
  <2>4. promote \in 0..99 /\ alarm \in 0..99 /\ held \in 0..STABLE_DURATION /\ lasted \in 0..MISMATCH_PROLONGED
    BY DEF Exit!Init, Exit!Off, ExitParameters
  <2>. QED BY <2>1, <2>2, <2>3, <2>4 DEF ExitTypes
<1>2. Settling
  BY DEF ExitParameters, Exit!Init, Settling, Exit!Off
<1>3. Lasting
  <2>1. actual = "none" /\ connected \in BOOLEAN /\ prolonged = FALSE /\ alarm = Exit!Off
    BY DEF Exit!Init
  <2>2. ~Exit!Counting
    BY <2>1, MismatchOf DEF Exit!Counting, Exit!Now
  <2>. QED BY <2>1, <2>2 DEF Lasting
<1>4. Told
  BY DEF Exit!Init, Told, Exit!NotifiedOnce
<1>. QED BY <1>1, <1>2, <1>3, <1>4 DEF ExitInv

(* The address traffic leaves by is settled when the first timer ends.     *)
LEMMA SettledMismatch == ExitParameters /\ ExitInv => Exit!MismatchIsHeld
  BY MismatchOf DEF ExitInv, ExitTypes, Settling, Exit!MismatchIsHeld, Exit!Now

LEMMA TellingOnce ==
  ASSUME Told, pairs \in Seq(ExitKnown \X ExitKnown), NEW p \in ExitKnown \X ExitKnown, lastNotified # p,
         lastNotified' = p, pairs' = Append(pairs, p)
  PROVE  Told' /\ pairs' \in Seq(ExitKnown \X ExitKnown)
<1>1. pairs' \in Seq(ExitKnown \X ExitKnown) /\ Len(pairs') = Len(pairs) + 1 /\ pairs'[Len(pairs')] = p
  OBVIOUS
<1>2. \A i \in 1..Len(pairs) : pairs'[i] = pairs[i]
  OBVIOUS
<1>3. ASSUME NEW i \in 2..Len(pairs') PROVE pairs'[i] # pairs'[i - 1]
  <2>1. CASE i = Len(pairs')
    <3>1. pairs # <<>> /\ pairs'[i - 1] = lastNotified
      BY <1>1, <1>2, <2>1 DEF Told
    <3>. QED BY <1>1, <2>1, <3>1
  <2>2. CASE i # Len(pairs')
    BY <1>1, <1>2, <2>2 DEF Told, Exit!NotifiedOnce
  <2>. QED BY <2>1, <2>2
<1>. QED BY <1>1, <1>3 DEF Told, Exit!NotifiedOnce

LEMMA Forgetting ==
  ASSUME lastNotified' = <<>>, pairs' = <<>>
  PROVE  Told' /\ pairs' \in Seq(ExitKnown \X ExitKnown)
  BY DEF Told, Exit!NotifiedOnce

LEMMA ToldKept ==
  ASSUME Told, pairs \in Seq(ExitKnown \X ExitKnown), UNCHANGED <<lastNotified, pairs>>
  PROVE  Told' /\ pairs' \in Seq(ExitKnown \X ExitKnown)
  BY DEF Told, Exit!NotifiedOnce

LEMMA NotifiedTold ==
  ASSUME Told, pairs \in Seq(ExitKnown \X ExitKnown), NEW said, NEW exp \in ExitKnown, NEW act \in ExitKnown,
         Exit!Notified(said, exp, act)
  PROVE  Told' /\ pairs' \in Seq(ExitKnown \X ExitKnown)
  BY Forgetting, ToldKept, TellingOnce DEF Exit!Notified

Outcome(act, exp, conn, set, st) ==
  /\ Lasting' /\ prolonged' \in BOOLEAN /\ Told' /\ pairs' \in Seq(ExitKnown \X ExitKnown)
  /\ alarm' \in 0..99 /\ lasted' \in 0..MISMATCH_PROLONGED
  /\ actual' = act /\ expected' = exp /\ connected' = conn /\ setup' = set /\ stable' = st

LEMMA RenderedLasts ==
  ASSUME ExitParameters, ExitInv, NEW act \in ExitKnown, NEW exp \in ExitKnown, NEW conn \in BOOLEAN,
         NEW set \in BOOLEAN,
         NEW st \in ExitKnown, Exit!Rendered(act, exp, conn, set, st, prolonged)
  PROVE  Outcome(act, exp, conn, set, st)
<1>. DEFINE said == Exit!Status(act, exp, conn, st)
            counting == said = "mismatch" /\ ~set
<1>1. actual' = act /\ expected' = exp /\ connected' = conn /\ setup' = set /\ stable' = st
  BY DEF Exit!Rendered
<1>2. Exit!Counting' = counting
  BY <1>1 DEF Exit!Counting, Exit!Now
<1>3. Exit!Alarmed(counting, prolonged) /\ Exit!Notified(said, exp, act)
  BY DEF Exit!Rendered
<1>4. Told' /\ pairs' \in Seq(ExitKnown \X ExitKnown)
  BY <1>3, NotifiedTold DEF ExitInv, ExitTypes
<1>5. counting \in BOOLEAN /\ Exit!Counting \in BOOLEAN
  BY DEF Exit!Counting
<1>. HIDE DEF counting, said
<1>6. prolonged' = (counting /\ prolonged)
  BY <1>3 DEF Exit!Alarmed
<1>7. prolonged' \in BOOLEAN
  BY <1>5, <1>6 DEF ExitInv
<1>8. lasted' = IF counting /\ Exit!Counting THEN lasted ELSE 0
  BY <1>3 DEF Exit!Alarmed
<1>9. alarm' = IF counting = Exit!Counting THEN IF prolonged THEN Exit!Off ELSE alarm
               ELSE IF counting THEN MISMATCH_PROLONGED ELSE Exit!Off
  BY <1>3 DEF Exit!Alarmed
<1>10. alarm' \in 0..99 /\ lasted' \in 0..MISMATCH_PROLONGED
  BY <1>8, <1>9 DEF ExitInv, ExitTypes, ExitParameters, Exit!Off
<1>11. CASE counting /\ Exit!Counting
  <2>1. prolonged' = prolonged /\ lasted' = lasted /\ alarm' = IF prolonged THEN Exit!Off ELSE alarm
    BY <1>11, <1>6, <1>8, <1>9 DEF ExitInv
  <2>. QED BY <1>2, <1>4, <1>7, <1>1, <1>10, <1>11, <2>1 DEF ExitInv, Lasting, Outcome
<1>12. CASE counting /\ ~Exit!Counting
  <2>1. ~prolonged /\ ~prolonged' /\ lasted' = 0 /\ alarm' = MISMATCH_PROLONGED
    BY <1>12, <1>5, <1>6, <1>8, <1>9 DEF ExitInv, Lasting
  <2>2. alarm' # Exit!Off /\ alarm' + lasted' = MISMATCH_PROLONGED
    BY <2>1 DEF ExitParameters, Exit!Off
  <2>. QED BY <1>2, <1>4, <1>7, <1>1, <1>10, <1>12, <2>1, <2>2 DEF Lasting, Outcome
<1>13. CASE ~counting
  <2>1. ~prolonged'
    BY <1>13, <1>6
  <2>2. alarm' = Exit!Off
    BY <1>5, <1>13, <1>9 DEF ExitInv, Lasting
  <2>. QED BY <1>2, <1>4, <1>7, <1>1, <1>10, <1>13, <2>1, <2>2 DEF Lasting, Outcome
<1>. QED BY <1>11, <1>12, <1>13, <1>5

LEMMA ExitStep == ExitParameters /\ ExitInv /\ [Exit!Next]_Exit!vars => ExitInv'
<1>. SUFFICES ASSUME ExitParameters, ExitInv, [Exit!Next]_Exit!vars PROVE ExitInv'
  OBVIOUS
<1>0. ExitTypes /\ prolonged \in BOOLEAN /\ Settling /\ Lasting /\ Told
  BY DEF ExitInv
<1>a. /\ exit \in ExitKnown /\ expected \in ExitKnown /\ stable \in ExitKnown /\ actual \in ExitKnown
      /\ connected \in BOOLEAN /\ (~connected) \in BOOLEAN /\ setup \in BOOLEAN
  BY <1>0, Zenon DEF ExitTypes, ExitKnown
<1>1. CASE UNCHANGED <<Exit!guardVars, Exit!history, exit>>
  <2>1. UNCHANGED <<exit, actual, expected, connected, setup, promote, stable, alarm, prolonged, lastNotified, held, settled, lasted, pairs>>
    BY <1>1 DEF Exit!guardVars, Exit!history
  <2>. QED BY <1>0, <2>1
              DEF ExitInv, ExitTypes, Settling, Lasting, Told, Exit!NotifiedOnce, Exit!Counting, Exit!Now
<1>2. CASE Exit!Answer
  <2>1. Exit!Rendered(exit, expected, connected, setup, stable, prolonged) /\ UNCHANGED <<exit, settled>>
        /\ Exit!Tracked(exit)
    BY <1>2 DEF Exit!Answer
  <2>2. exit \in ExitKnown /\ ExitKnown = Exit!Ips \cup {"none"}
    BY <1>0 DEF ExitTypes, ExitKnown
  <2>9. Outcome(exit, expected, connected, setup, stable)
    BY <1>a, <2>1, <2>2, RenderedLasts, Zenon
<2>3. Lasting' /\ prolonged' \in BOOLEAN /\ Told' /\ pairs' \in Seq(ExitKnown \X ExitKnown)
         /\ alarm' \in 0..99 /\ lasted' \in 0..MISMATCH_PROLONGED
         /\ actual' = exit /\ expected' = expected /\ connected' = connected /\ setup' = setup /\ stable' = stable
    BY <2>9, Zenon DEF Outcome
  <2>4. Settling' /\ promote' \in 0..99 /\ held' \in 0..STABLE_DURATION
    <3>1. CASE exit = actual
      <4>1. UNCHANGED <<promote, held>> /\ actual' = actual
        BY <2>1, <2>3, <3>1 DEF Exit!Tracked
      <4>. QED BY <1>0, <2>1, <2>3, <4>1 DEF Settling, ExitTypes
    <3>2. CASE exit # actual
      <4>1. promote' = STABLE_DURATION /\ held' = 0
        BY <2>1, <3>2 DEF Exit!Tracked
      <4>. QED BY <1>0, <2>1, <2>3, <4>1 DEF Settling, ExitTypes, ExitParameters
    <3>. QED BY <3>1, <3>2
  <2>. QED BY <1>0, <2>1, <2>2, <2>3, <2>4 DEF ExitInv, ExitTypes
<1>3. CASE Exit!Promote
  <2>1. Exit!Rendered(actual, expected, connected, setup, actual, prolonged) /\ UNCHANGED <<exit, held, settled>>
        /\ promote = 0 /\ promote' = Exit!Off
    BY <1>3 DEF Exit!Promote, Exit!queryVars
  <2>9. Outcome(actual, expected, connected, setup, actual)
    BY <1>a, <2>1, RenderedLasts, Zenon
<2>3. Lasting' /\ prolonged' \in BOOLEAN /\ Told' /\ pairs' \in Seq(ExitKnown \X ExitKnown)
         /\ alarm' \in 0..99 /\ lasted' \in 0..MISMATCH_PROLONGED
         /\ actual' = actual /\ expected' = expected /\ connected' = connected /\ setup' = setup /\ stable' = actual
    BY <2>9, Zenon DEF Outcome
  <2>4. Settling' /\ promote' \in 0..99 /\ held' \in 0..STABLE_DURATION
    BY <1>0, <2>1, <2>3 DEF Settling, ExitTypes, ExitParameters, Exit!Off
  <2>. QED BY <1>0, <2>1, <2>3, <2>4 DEF ExitInv, ExitTypes
<1>4. CASE Exit!SwitchProxy
  <2>1. Exit!Rendered(actual, expected, ~connected, setup, stable, prolonged)
        /\ UNCHANGED <<exit, promote, held, settled>>
    BY <1>4 DEF Exit!SwitchProxy
  <2>2. (~connected) \in BOOLEAN
    BY Zenon DEF ExitTypes
  <2>9. Outcome(actual, expected, (~connected), setup, stable)
    BY <1>a, <2>1, <2>2, RenderedLasts, Zenon
<2>3. Lasting' /\ prolonged' \in BOOLEAN /\ Told' /\ pairs' \in Seq(ExitKnown \X ExitKnown)
         /\ alarm' \in 0..99 /\ lasted' \in 0..MISMATCH_PROLONGED
         /\ actual' = actual /\ expected' = expected /\ connected' = (~connected) /\ setup' = setup
            /\ stable' = stable
    BY <2>9, Zenon DEF Outcome
  <2>4. Settling' /\ promote' \in 0..99 /\ held' \in 0..STABLE_DURATION
    BY <1>0, <2>1, <2>3 DEF Settling, ExitTypes
  <2>. QED BY <1>0, <2>1, <2>2, <2>3, <2>4 DEF ExitInv, ExitTypes
<1>5. ASSUME NEW exp \in V4 \cup {"none"}, NEW set \in BOOLEAN, Exit!AccountChanges(exp, set) PROVE ExitInv'
  <2>1. Exit!Rendered(actual, exp, connected, set, stable, prolonged) /\ UNCHANGED <<exit, promote, held, settled>>
    BY <1>5 DEF Exit!AccountChanges, Exit!queryVars
  <2>2. exp \in ExitKnown
    BY DEF ExitKnown, Exit!Ips
  <2>9. Outcome(actual, exp, connected, set, stable)
    BY <1>a, <2>1, <2>2, RenderedLasts, Zenon
<2>3. Lasting' /\ prolonged' \in BOOLEAN /\ Told' /\ pairs' \in Seq(ExitKnown \X ExitKnown)
         /\ alarm' \in 0..99 /\ lasted' \in 0..MISMATCH_PROLONGED
         /\ actual' = actual /\ expected' = exp /\ connected' = connected /\ setup' = set /\ stable' = stable
    BY <2>9, Zenon DEF Outcome
  <2>4. Settling' /\ promote' \in 0..99 /\ held' \in 0..STABLE_DURATION
    BY <1>0, <2>1, <2>3 DEF Settling, ExitTypes
  <2>. QED BY <1>0, <2>1, <2>2, <2>3, <2>4 DEF ExitInv, ExitTypes
<1>6. CASE Exit!Prolong
  <2>1. UNCHANGED <<exit, actual, expected, connected, setup, promote, stable, held, settled, lasted>>
        /\ alarm = 0 /\ alarm' = Exit!Off /\ prolonged' = TRUE /\ Exit!Notified(Exit!Now, expected, actual)
    BY <1>6 DEF Exit!Prolong, Exit!queryVars
  <2>2. Told' /\ pairs' \in Seq(ExitKnown \X ExitKnown)
    BY <1>0, <1>a, <2>1, NotifiedTold DEF ExitTypes
  <2>3. Exit!Counting /\ lasted = MISMATCH_PROLONGED
    BY <1>0, <2>1 DEF Lasting, ExitTypes, ExitParameters, Exit!Off
  <2>4. Exit!Counting'
    BY <2>1, <2>3 DEF Exit!Counting, Exit!Now
  <2>5. Lasting' /\ prolonged' \in BOOLEAN
    BY <2>1, <2>3, <2>4 DEF Lasting
  <2>6. Settling'
    BY <1>0, <2>1 DEF Settling
  <2>. QED BY <1>0, <2>1, <2>2, <2>5, <2>6 DEF ExitInv, ExitTypes, Exit!Off
<1>7. CASE Exit!TimePasses
  <2>1. UNCHANGED <<exit, actual, expected, connected, setup, stable, prolonged, lastNotified, pairs>>
        /\ promote # 0 /\ alarm # 0 /\ promote' = Exit!Less(promote) /\ alarm' = Exit!Less(alarm)
        /\ held' = Exit!Up(held, STABLE_DURATION)
        /\ settled' = (IF held' = STABLE_DURATION THEN settled \cup {actual} ELSE settled)
        /\ lasted' = (IF Exit!Counting THEN Exit!Up(lasted, MISMATCH_PROLONGED) ELSE 0)
    BY <1>7 DEF Exit!TimePasses
  <2>2. Exit!Counting' = Exit!Counting /\ Exit!Counting \in BOOLEAN
    BY <2>1 DEF Exit!Counting, Exit!Now
  <2>3. ExitTypes'
    BY <1>0, <2>1 DEF ExitTypes, Exit!Less, Exit!Up, Exit!Off, ExitParameters
  <2>4. Settling'
    BY <1>0, <2>1 DEF Settling, ExitTypes, Exit!Less, Exit!Up, Exit!Off, ExitParameters
  <2>5. CASE Exit!Counting
    <3>1. lasted' = Exit!Up(lasted, MISMATCH_PROLONGED) /\ Exit!Counting'
      BY <2>1, <2>2, <2>5
    <3>. QED BY <1>0, <2>1, <2>3, <2>4, <2>5, <3>1, ToldKept
                DEF ExitInv, Lasting, ExitTypes, Exit!Less, Exit!Up, Exit!Off, ExitParameters
  <2>6. CASE ~Exit!Counting
    <3>1. lasted' = 0 /\ ~Exit!Counting'
      BY <2>1, <2>2, <2>6
    <3>. QED BY <1>0, <2>1, <2>3, <2>4, <2>6, <3>1, ToldKept
                DEF ExitInv, Lasting, ExitTypes, Exit!Less, Exit!Off
  <2>. QED BY <2>5, <2>6
<1>8. ASSUME NEW ip \in Exit!Ips, Exit!ExitChanges(ip) PROVE ExitInv'
  <2>1. UNCHANGED <<actual, expected, connected, setup, promote, stable, alarm, prolonged, lastNotified, held, settled, lasted, pairs>>
        /\ exit' = ip
    BY <1>8 DEF Exit!ExitChanges, Exit!guardVars, Exit!history
  <2>. QED BY <1>0, <2>1
              DEF ExitInv, ExitTypes, Settling, Lasting, Told, Exit!NotifiedOnce, Exit!Counting, Exit!Now
<1>9. CASE Exit!ServiceFails \/ Exit!RecheckFires \/ Exit!onCountdownTick \/ Exit!MutateEnds \/ Exit!GuardPolls
      \/ Exit!handleRefresh \/ UNCHANGED Exit!vars
  BY <1>1, <1>9
     DEF Exit!ServiceFails, Exit!RecheckFires, Exit!onCountdownTick, Exit!MutateEnds, Exit!GuardPolls,
         Exit!handleRefresh, Exit!vars, Exit!queryVars, Exit!Ask
<1>10. ASSUME NEW v \in BOOLEAN, Exit!IsVisible(v) PROVE ExitInv'
  BY <1>1, <1>10 DEF Exit!IsVisible, Exit!Ask
<1>. QED
  BY <1>2, <1>3, <1>4, <1>5, <1>6, <1>7, <1>8, <1>9, <1>10 DEF Exit!Next, Exit!Progress

LEMMA ExitHolds ==
  ExitParameters =>
    (Exit!Init /\ [][Exit!Next]_Exit!vars => [](Exit!MismatchIsHeld /\ Exit!ProlongedLasted /\ Exit!NotifiedOnce))
<1>. SUFFICES ASSUME ExitParameters
     PROVE  Exit!Init
            /\ [][Exit!Next]_Exit!vars => [](Exit!MismatchIsHeld /\ Exit!ProlongedLasted /\ Exit!NotifiedOnce)
  OBVIOUS
<1>1. ExitInv => Exit!ProlongedLasted
  BY DEF ExitInv, Lasting, Exit!ProlongedLasted
<1>2. ExitInv => Exit!NotifiedOnce
  BY DEF ExitInv, Told
<1>. QED BY <1>1, <1>2, ExitInit, ExitStep, SettledMismatch, PTL

(* A mismatch is only called so of an address that has been the same for   *)
(* as long as it must be.                                                  *)
THEOREM ExitMismatchIsHeld == ExitParameters => (Exit!Spec => []Exit!MismatchIsHeld)
  BY ExitHolds, PTL DEF Exit!Spec

(* A mismatch that is called prolonged has lasted.                         *)
THEOREM ExitProlongedLasted == ExitParameters => (Exit!Spec => []Exit!ProlongedLasted)
  BY ExitHolds, PTL DEF Exit!Spec

(* No exit is told twice in a row.                                         *)
THEOREM ExitNotifiedOnce == ExitParameters => (Exit!Spec => []Exit!NotifiedOnce)
  BY ExitHolds, PTL DEF Exit!Spec

-------------------------------------------------------------------------------
(* The account's card.  Whatever takes a seat to be set up, the file, the  *)
(* frontend's copy, the view of a render or a flow under way, has it from  *)
(* one confirmation that matched (AllVerified).                            *)
(* What is known of a seat, by the file or by one of the flows.            *)
Verified(s) == s.setupComplete => s.token \in matched
AccountStates == [token : Nat, setupComplete : BOOLEAN, bindStatus : {"none", "invite_sent", "bound"}]
AccountFlow == [pc : {"idle", "ask", "save", "verify", "erase"}, state : AccountStates]

AccountTypes ==
  /\ accountSeat \in [token : Nat, bind : {"none", "invite_sent", "bound"}]
  /\ accountFile \in AccountStates /\ clientState \in AccountStates /\ accountCur \in AccountStates
  /\ accountForm \in AccountFlow /\ accountSync \in AccountFlow /\ accountConfirm \in AccountFlow

AllVerified ==
  /\ Verified(accountFile) /\ Verified(clientState) /\ Verified(accountSync.state) /\ Verified(accountConfirm.state)
  /\ ~accountForm.state.setupComplete
  /\ accountCur # Account!NoState => accountCur.token \in matched

AccountInv == AccountTypes /\ AllVerified

LEMMA StateFields ==
  ASSUME NEW s \in AccountStates
  PROVE  /\ s.token \in Nat /\ s.setupComplete \in BOOLEAN
         /\ \A b \in {"none", "invite_sent", "bound"} :
              LET e == [s EXCEPT !.bindStatus = b]
              IN  e \in AccountStates /\ e.token = s.token /\ e.setupComplete = s.setupComplete
         /\ LET e == [s EXCEPT !.setupComplete = TRUE]
            IN  e \in AccountStates /\ e.token = s.token
  BY DEF AccountStates

LEMMA IssuedStates ==
  /\ Account!NoState \in AccountStates /\ Account!NoState.setupComplete = FALSE /\ Account!Idle \in AccountFlow
     /\ Account!Idle.state = Account!NoState
  /\ \A t \in Nat, c \in BOOLEAN : /\ Account!State(t, c, "none") \in AccountStates
                                   /\ Account!State(t, c, "none").token = t
                                      /\ Account!State(t, c, "none").setupComplete = c
  BY DEF Account!NoState, Account!State, AccountStates, Account!Idle, AccountFlow

LEMMA FlowFields ==
  ASSUME NEW f \in AccountFlow
  PROVE  /\ f.state \in AccountStates /\ f.pc \in {"idle", "ask", "save", "verify", "erase"}
         /\ \A p \in {"idle", "ask", "save", "verify", "erase"} :
              /\ [f EXCEPT !.pc = p] \in AccountFlow /\ [f EXCEPT !.pc = p].state = f.state
              /\ \A s \in AccountStates : [pc |-> p, state |-> s] \in AccountFlow
  BY DEF AccountFlow

LEMMA AccountInit == Account!Init => AccountInv
<1>. SUFFICES ASSUME Account!Init PROVE AccountInv
  OBVIOUS
<1>1. PICK given \in 0..1 :
        /\ accountSeat = [token |-> given, bind |-> "none"] /\ matched = 1..given
        /\ accountFile = Account!State(given, given = 1, "none") /\ clientState = accountFile
  BY DEF Account!Init
<1>2. accountForm = Account!Idle /\ accountSync = Account!Idle /\ accountConfirm = Account!Idle
      /\ accountCur = Account!NoState
  BY DEF Account!Init
<1>3. (given = 1) \in BOOLEAN /\ given \in Nat
  OBVIOUS
<1>4. accountFile \in AccountStates /\ accountFile.token = given /\ accountFile.setupComplete = (given = 1)
  BY <1>1, <1>3, IssuedStates
<1>5. accountSeat \in [token : Nat, bind : {"none", "invite_sent", "bound"}]
  BY <1>1
<1>6. AccountTypes
  BY <1>1, <1>2, <1>4, <1>5, IssuedStates DEF AccountTypes
<1>7. Verified(accountFile)
  <2>. SUFFICES ASSUME accountFile.setupComplete PROVE accountFile.token \in matched
    BY DEF Verified
  <2>1. given = 1
    BY <1>4, Zenon
  <2>. QED BY <1>1, <1>4, <2>1
<1>. QED BY <1>1, <1>2, <1>6, <1>7, IssuedStates DEF AccountInv, AllVerified, Verified

LEMMA AccountStep == AccountInv /\ [Account!Next]_Account!vars => AccountInv'
<1>. SUFFICES ASSUME AccountInv, [Account!Next]_Account!vars PROVE AccountInv'
  OBVIOUS
<1>1. /\ accountSeat \in [token : Nat, bind : {"none", "invite_sent", "bound"}]
      /\ accountFile \in AccountStates /\ clientState \in AccountStates /\ accountCur \in AccountStates
      /\ accountForm \in AccountFlow /\ accountSync \in AccountFlow /\ accountConfirm \in AccountFlow
  BY DEF AccountInv, AccountTypes
<1>2. /\ Verified(accountFile) /\ Verified(clientState) /\ Verified(accountSync.state) /\ Verified(accountConfirm.state)
      /\ ~accountForm.state.setupComplete
      /\ accountCur # Account!NoState => accountCur.token \in matched
  BY DEF AccountInv, AllVerified
<1>3. accountForm.state \in AccountStates /\ accountSync.state \in AccountStates /\ accountConfirm.state \in AccountStates
  BY <1>1, FlowFields
<1>4. CASE UNCHANGED <<accountSeat, accountFile, clientState, Account!flows, matched>>
  BY <1>4 DEF Account!flows, AccountInv, AccountTypes, AllVerified, Verified
<1>5. CASE Account!refresh
  BY <1>1, <1>2, <1>5 DEF Account!refresh, Account!flows, AccountInv, AccountTypes, AllVerified, Verified
<1>6. CASE Account!SubmitForm
  <2>1. UNCHANGED <<accountSeat, accountFile, clientState, accountSync, accountConfirm, accountCur, matched>>
        /\ accountForm' \in {accountForm, [accountForm EXCEPT !.pc = "ask"]}
    BY <1>6 DEF Account!SubmitForm
  <2>2. accountForm' \in AccountFlow /\ accountForm'.state = accountForm.state
    BY <1>1, <2>1, FlowFields
  <2>. QED BY <1>1, <1>2, <2>1, <2>2 DEF AccountInv, AccountTypes, AllVerified, Verified
<1>7. CASE Account!activate
  <2>1. UNCHANGED <<accountFile, clientState, accountSync, accountConfirm, accountCur, matched>>
        /\ (accountSeat' = [token |-> accountSeat.token + 1, bind |-> "none"] \/ accountSeat' = accountSeat)
        /\ accountForm' \in {Account!Idle, [pc |-> "save", state |-> Account!State(accountSeat.token + 1, FALSE, "none")]}
    BY <1>7 DEF Account!activate, Account!queries
  <2>2. accountSeat.token + 1 \in Nat /\ accountSeat' \in [token : Nat, bind : {"none", "invite_sent", "bound"}]
    BY <1>1, <2>1
  <2>3. /\ Account!State(accountSeat.token + 1, FALSE, "none") \in AccountStates
        /\ Account!State(accountSeat.token + 1, FALSE, "none").setupComplete = FALSE
    BY <2>2, IssuedStates
  <2>4. accountForm' \in AccountFlow /\ ~accountForm'.state.setupComplete
    <3>1. CASE accountForm' = Account!Idle
      BY <3>1, IssuedStates
    <3>2. CASE accountForm' = [pc |-> "save", state |-> Account!State(accountSeat.token + 1, FALSE, "none")]
      <4>. DEFINE s == Account!State(accountSeat.token + 1, FALSE, "none")
      <4>1. s \in AccountStates /\ s.setupComplete = FALSE
        BY <2>3
      <4>. HIDE DEF s
      <4>2. accountForm' \in AccountFlow /\ accountForm'.state = s
        BY <3>2, <4>1 DEF AccountFlow, s
      <4>. QED BY <4>1, <4>2
    <3>. QED BY <2>1, <3>1, <3>2
  <2>. QED BY <1>1, <1>2, <2>1, <2>2, <2>4 DEF AccountInv, AccountTypes, AllVerified, Verified
<1>8. CASE Account!SaveForm
  <2>1. UNCHANGED <<accountSeat, clientState, accountSync, accountConfirm, accountCur, matched>>
        /\ accountFile' = accountForm.state /\ accountForm' = [accountForm EXCEPT !.pc = "verify"]
    BY <1>8 DEF Account!SaveForm, Account!queries
  <2>2. accountForm' \in AccountFlow /\ accountForm'.state = accountForm.state
    BY <1>1, <2>1, FlowFields
  <2>. QED BY <1>1, <1>2, <1>3, <2>1, <2>2 DEF AccountInv, AccountTypes, AllVerified, Verified
<1>9. CASE Account!VerifyForm
  <2>1. UNCHANGED <<accountSeat, accountFile, clientState, accountSync, accountConfirm, accountCur, matched>>
        /\ accountForm' = Account!Idle
    BY <1>9 DEF Account!VerifyForm
  <2>. QED BY <1>1, <1>2, <2>1, IssuedStates DEF AccountInv, AccountTypes, AllVerified, Verified
<1>10. CASE Account!Match
  <2>1. UNCHANGED <<accountSeat, accountFile, clientState, accountForm, accountSync, accountConfirm>>
        /\ matched' = matched \cup {accountFile.token}
        /\ accountCur' \in {Account!NoState, accountFile}
    BY <1>10 DEF Account!Match, Account!queries
  <2>2. accountCur' \in AccountStates /\ (accountCur' # Account!NoState => accountCur'.token \in matched')
    BY <1>1, <2>1, IssuedStates
  <2>. QED BY <1>1, <1>2, <2>1, <2>2 DEF AccountInv, AccountTypes, AllVerified, Verified
<1>11. CASE Account!SaveSetup
  <2>1. UNCHANGED <<accountSeat, clientState, accountForm, accountSync, accountConfirm, matched>>
        /\ accountCur # Account!NoState /\ accountFile' = [accountCur EXCEPT !.setupComplete = TRUE]
           /\ accountCur' = Account!NoState
    BY <1>11 DEF Account!SaveSetup, Account!queries
  <2>2. accountFile' \in AccountStates /\ accountFile'.token = accountCur.token
    BY <1>1, <2>1, StateFields
  <2>. QED BY <1>1, <1>2, <2>1, <2>2, IssuedStates DEF AccountInv, AccountTypes, AllVerified, Verified
<1>12. CASE Account!ConfirmBound
  <2>1. UNCHANGED <<accountSeat, accountFile, clientState, accountForm, accountSync, accountCur, matched>>
        /\ accountConfirm' = [pc |-> "ask", state |-> clientState]
    BY <1>12 DEF Account!ConfirmBound, Account!queries
  <2>2. accountConfirm' \in AccountFlow /\ accountConfirm'.state = clientState
    BY <1>1, <2>1 DEF AccountFlow
  <2>. QED BY <1>1, <1>2, <2>1, <2>2 DEF AccountInv, AccountTypes, AllVerified, Verified
<1>13. CASE Account!confirmBind
  <2>1. UNCHANGED <<accountFile, clientState, accountForm, accountSync, accountCur, matched>>
        /\ (accountSeat' = [accountSeat EXCEPT !.bind = "bound"] \/ accountSeat' = accountSeat)
        /\ accountConfirm' \in {Account!Idle, [pc |-> "save", state |-> accountFile]}
    BY <1>13 DEF Account!confirmBind, Account!queries
  <2>2. accountConfirm' \in AccountFlow /\ Verified(accountConfirm'.state)
    BY <1>1, <1>2, <2>1, IssuedStates DEF AccountFlow, Verified
  <2>3. accountSeat' \in [token : Nat, bind : {"none", "invite_sent", "bound"}]
    BY <1>1, <2>1
  <2>. QED BY <1>1, <1>2, <2>1, <2>2, <2>3 DEF AccountInv, AccountTypes, AllVerified, Verified
<1>14. CASE Account!SaveBound
  <2>1. UNCHANGED <<accountSeat, clientState, accountForm, accountSync, accountCur, matched>> /\ accountConfirm' = Account!Idle
        /\ (accountFile' = accountFile \/ accountFile' = [accountConfirm.state EXCEPT !.bindStatus = "bound"])
    BY <1>14 DEF Account!SaveBound, Account!queries
  <2>2. accountFile' \in AccountStates /\ Verified(accountFile')
    <3>1. CASE accountFile' = accountFile
      BY <1>1, <1>2, <2>1, <3>1 DEF Verified
    <3>2. CASE accountFile' = [accountConfirm.state EXCEPT !.bindStatus = "bound"]
      <4>1. accountFile' \in AccountStates /\ accountFile'.token = accountConfirm.state.token
            /\ accountFile'.setupComplete = accountConfirm.state.setupComplete
        BY <1>3, <3>2, StateFields
      <4>. QED BY <1>2, <2>1, <4>1 DEF Verified
    <3>. QED BY <2>1, <3>1, <3>2
  <2>. QED BY <1>1, <1>2, <2>1, <2>2, IssuedStates DEF AccountInv, AccountTypes, AllVerified, Verified
<1>15. CASE Account!runSync
  <2>1. UNCHANGED <<accountSeat, accountFile, clientState, accountForm, accountConfirm, accountCur, matched>>
        /\ accountSync' = [pc |-> "ask", state |-> accountFile]
    BY <1>15 DEF Account!runSync, Account!queries
  <2>2. accountSync' \in AccountFlow /\ accountSync'.state = accountFile
    BY <1>1, <2>1 DEF AccountFlow
  <2>. QED BY <1>1, <1>2, <2>1, <2>2 DEF AccountInv, AccountTypes, AllVerified, Verified
<1>16. CASE Account!syncClient
  <2>1. UNCHANGED <<accountSeat, accountFile, clientState, accountForm, accountConfirm, accountCur, matched>>
        /\ (\/ accountSync' = [accountSync EXCEPT !.pc = "erase"]
            \/ accountSync' = [pc |-> "save", state |-> [accountSync.state EXCEPT !.bindStatus = accountSeat.bind]])
    BY <1>16 DEF Account!syncClient, Account!queries
  <2>2. accountSeat.bind \in {"none", "invite_sent", "bound"}
    BY <1>1
  <2>3. accountSync' \in AccountFlow /\ Verified(accountSync'.state)
    <3>1. CASE accountSync' = [accountSync EXCEPT !.pc = "erase"]
      BY <1>1, <1>2, <3>1, FlowFields
    <3>2. CASE accountSync' = [pc |-> "save", state |-> [accountSync.state EXCEPT !.bindStatus = accountSeat.bind]]
      <4>1. PICK e \in AccountStates : accountSync' = [pc |-> "save", state |-> e] /\ e.token = accountSync.state.token
            /\ e.setupComplete = accountSync.state.setupComplete
        BY <1>3, <2>2, <3>2, StateFields
      <4>2. accountSync'.state = e /\ accountSync' \in AccountFlow
        BY <4>1 DEF AccountFlow
      <4>. QED BY <1>2, <4>1, <4>2 DEF Verified
    <3>. QED BY <2>1, <3>1, <3>2
  <2>. QED BY <1>1, <1>2, <2>1, <2>3 DEF AccountInv, AccountTypes, AllVerified, Verified
<1>17. CASE Account!SyncSave
  <2>1. UNCHANGED <<accountSeat, clientState, accountForm, accountConfirm, accountCur, matched>> /\ accountSync' = Account!Idle
        /\ accountFile' \in {Account!NoState, accountSync.state}
    BY <1>17 DEF Account!SyncSave, Account!queries
  <2>. QED BY <1>1, <1>2, <1>3, <2>1, IssuedStates DEF AccountInv, AccountTypes, AllVerified, Verified
<1>18. CASE Account!SyncFails
  <2>1. UNCHANGED <<accountSeat, accountFile, clientState, accountForm, accountConfirm, accountCur, matched>>
        /\ accountSync' = Account!Idle
    BY <1>18 DEF Account!SyncFails, Account!queries
  <2>. QED BY <1>1, <1>2, <2>1, IssuedStates DEF AccountInv, AccountTypes, AllVerified, Verified
<1>19. CASE Account!Outside
  <2>1. UNCHANGED <<accountFile, clientState, accountForm, accountSync, accountConfirm, accountCur, matched>>
        /\ (accountSeat' = accountSeat \/ accountSeat' = [accountSeat EXCEPT !.bind = "invite_sent"] \/ accountSeat' = [accountSeat EXCEPT !.bind = "bound"])
    BY <1>19 DEF Account!Outside, Account!queries, Account!flows, Account!world
  <2>2. accountSeat' \in [token : Nat, bind : {"none", "invite_sent", "bound"}]
    BY <1>1, <2>1
  <2>. QED BY <1>1, <1>2, <2>1, <2>2 DEF AccountInv, AccountTypes, AllVerified, Verified
<1>20. CASE Account!Reset
  <2>1. UNCHANGED <<accountFile, clientState, accountForm, accountSync, accountConfirm, accountCur, matched>>
        /\ accountSeat' = [token |-> accountSeat.token + 1, bind |-> "none"]
    BY <1>20 DEF Account!Reset, Account!queries, Account!flows
  <2>2. accountSeat' \in [token : Nat, bind : {"none", "invite_sent", "bound"}]
    BY <1>1, <2>1
  <2>. QED BY <1>1, <1>2, <2>1, <2>2 DEF AccountInv, AccountTypes, AllVerified, Verified
<1>21. CASE Account!mutateSystemState \/ Account!recheck \/ Account!Resume \/ Account!ServiceReady
       \/ Account!enableTun \/ Account!Connected \/ Account!Reactivate
            \/ Account!onInstallService \/ Account!Installed \/ Account!InstallFails \/ Account!RetryAnyway
               \/ Account!onForceStopCv \/ Account!Leave
            \/ UNCHANGED Account!vars
  <2>1. UNCHANGED <<accountSeat, accountFile, clientState, Account!flows, matched>>
    BY <1>21
       DEF Account!mutateSystemState, Account!recheck, Account!Resume, Account!ServiceReady,
           Account!enableTun, Account!Connected, Account!Reactivate,
       Account!onInstallService, Account!Installed, Account!InstallFails, Account!RetryAnyway,
       Account!onForceStopCv, Account!Leave, Account!queries, Account!flows, Account!vars
  <2>. QED BY <1>4, <2>1
<1>. QED
  BY <1>5, <1>6, <1>7, <1>8, <1>9, <1>10, <1>11, <1>12, <1>13, <1>14, <1>15, <1>16, <1>17, <1>18, <1>19,
     <1>20, <1>21
     DEF Account!Next, Account!Queries, Account!Effects, Account!Answers

LEMMA AccountHolds == Account!Init /\ [][Account!Next]_Account!vars => []Account!AccountIsVerified
<1>1. AccountInv => Account!AccountIsVerified
  BY DEF AccountInv, AllVerified, Verified, Account!AccountIsVerified, Account!showAccount
<1>. QED BY <1>1, AccountInit, AccountStep, PTL

(* An account is shown only for a seat whose exit has matched.             *)
THEOREM AccountVerified == Account!Spec => []Account!AccountIsVerified
  BY AccountHolds, PTL DEF Account!Spec

-------------------------------------------------------------------------------
(* The switch of the system proxy.  The last click is what is stored, or   *)
(* being sent, or waits behind what is sent; a reset turns the proxy off   *)
(* only to turn it on again (ClickGoesOn), and what is shown differs from  *)
(* what is stored only while a fetch is due (DifferenceGoes).              *)
SysTypes ==
  /\ sysStored \in [enable : Sys!On, host : Hosts \cup {Sys!Nil}]
     /\ sysCached \in [enable : Sys!On, host : Hosts \cup {Sys!Nil}]
  /\ pending \in Sys!On \cup {Sys!Nil} /\ sending \in Sys!On \cup {Sys!Nil} /\ sysLast \in Sys!On \cup {Sys!Nil}
  /\ \A r \in resets : r.stage \in {"off", "on"}
  /\ value \in Hosts \cup {Sys!Nil} /\ sysSave.host \in Hosts \cup {Sys!Nil}

(* The last click is on its way, or done; a reset only crosses a click     *)
(* that turned the proxy on, and turns it on in the end.                   *)
ClickGoesOn ==
  sysLast # Sys!Nil =>
    /\ resets = {} => IF sending = Sys!Nil THEN sysStored.enable = sysLast
                      ELSE sysLast = IF pending = Sys!Nil THEN sending ELSE pending
    /\ resets # {} => sending = Sys!Nil /\ sysLast = "on"

(* What differs from what is stored is being changed, or will be fetched.  *)
DifferenceGoes ==
  \/ fetching \/ sysRefused
  \/ /\ sending # Sys!Nil \/ sysCached.enable = sysStored.enable
     /\ sysSave.stage = "patch" \/ sysCached.host = sysStored.host

SysInv == SysTypes /\ ClickGoesOn /\ DifferenceGoes

LEMMA SysInit == Sys!Init => SysInv
  BY DEF Sys!Init, SysInv, SysTypes, ClickGoesOn, DifferenceGoes, Sys!Nil, Sys!On, Sys!NoSave

LEMMA ResetBegins ==
  ASSUME NEW id, SysTypes, ClickGoesOn, Sys!BeginReset(id), UNCHANGED <<sysStored, sending, pending>>
  PROVE  ClickGoesOn' /\ sysLast' \in Sys!On \cup {Sys!Nil} /\ \A r \in resets' : r.stage \in {"off", "on"}
<1>1. sysStored.enable = "on" /\ resets' = resets \cup {[id |-> id, stage |-> "off"]}
      /\ sysLast' = IF sending = Sys!Nil THEN sysLast ELSE Sys!Nil
  BY DEF Sys!BeginReset
<1>2. resets' # {} /\ \A r \in resets' : r.stage \in {"off", "on"}
  <2>1. [id |-> id, stage |-> "off"].stage = "off"
    OBVIOUS
  <2>. QED BY <1>1, <2>1 DEF SysTypes
<1>3. sysLast' # Sys!Nil => sending' = Sys!Nil /\ sysLast' = "on"
  BY <1>1 DEF ClickGoesOn
<1>. QED BY <1>1, <1>2, <1>3 DEF ClickGoesOn, SysTypes

LEMMA SysStep == SysInv /\ [Sys!Next]_Sys!vars => SysInv'
<1>. SUFFICES ASSUME SysInv, [Sys!Next]_Sys!vars PROVE SysInv'
  OBVIOUS
<1>0. SysTypes /\ ClickGoesOn /\ DifferenceGoes
  BY DEF SysInv
<1>1. ASSUME NEW v \in Sys!On, Sys!toggleSystemProxy(v) PROVE SysInv'
  <2>1. UNCHANGED <<sysStored, fetching, sysOpen, value, sysSave, resets, sysRefused>>
        /\ sysCached' = [sysCached EXCEPT !.enable = v]
        /\ sysLast' = IF resets = {} THEN v ELSE Sys!Nil
    BY <1>1 DEF Sys!toggleSystemProxy
  <2>2. IF sending = Sys!Nil THEN sending' = v /\ pending' = Sys!Nil ELSE pending' = v /\ sending' = sending
    BY <1>1 DEF Sys!toggleSystemProxy
  <2>3. v # Sys!Nil /\ sysCached'.host = sysCached.host
    BY <2>1 DEF Sys!On, Sys!Nil
  <2>4. sending' # Sys!Nil /\ sending' \in Sys!On \cup {Sys!Nil} /\ pending' \in Sys!On \cup {Sys!Nil}
    BY <1>0, <2>2, <2>3 DEF SysTypes
  <2>5. resets = {} => sysLast' = IF pending' = Sys!Nil THEN sending' ELSE pending'
    BY <2>1, <2>2, <2>3
  <2>6. SysTypes'
    BY <1>0, <2>1, <2>4 DEF SysTypes
  <2>7. ClickGoesOn'
    BY <2>1, <2>4, <2>5 DEF ClickGoesOn
  <2>8. DifferenceGoes'
    BY <1>0, <2>1, <2>3, <2>4 DEF DifferenceGoes
  <2>. QED BY <2>6, <2>7, <2>8 DEF SysInv
<1>2. CASE Sys!Sent
  <2>1. sending # Sys!Nil /\ sysStored' = [sysStored EXCEPT !.enable = sending] /\ sending' = pending
        /\ pending' = Sys!Nil
        /\ fetching' = TRUE
           /\ UNCHANGED <<sysCached, sysOpen, value, sysSave, resets, sysLast, sysRefused, sysSteps>>
    BY <1>2 DEF Sys!Sent
  <2>2. sysStored'.enable = sending
    BY <1>0, <2>1 DEF SysTypes
  <2>3. SysTypes'
    BY <1>0, <2>1 DEF SysTypes
  <2>4. ClickGoesOn'
    BY <1>0, <2>1, <2>2 DEF ClickGoesOn
  <2>. QED BY <2>1, <2>3, <2>4 DEF SysInv, DifferenceGoes
<1>3. CASE Sys!SendFails
  BY <1>0, <1>3 DEF Sys!SendFails, SysInv, SysTypes, ClickGoesOn, DifferenceGoes
<1>4. CASE Sys!refetch
  BY <1>0, <1>4 DEF Sys!refetch, SysInv, SysTypes, ClickGoesOn, DifferenceGoes
<1>5. CASE Sys!Open \/ (\E h \in Hosts : Sys!Edit(h)) \/ UNCHANGED Sys!vars
  <2>1. UNCHANGED <<sysStored, sysCached, fetching, pending, sending, sysSave, resets, sysLast, sysRefused>>
    BY <1>5 DEF Sys!Open, Sys!Edit, Sys!vars
  <2>2. value' \in Hosts \cup {Sys!Nil}
    BY <1>0, <1>5 DEF Sys!Open, Sys!Edit, Sys!vars, SysTypes
  <2>. QED BY <1>0, <2>1, <2>2 DEF SysInv, SysTypes, ClickGoesOn, DifferenceGoes
<1>6. CASE Sys!onSave
  <2>1. UNCHANGED <<sysStored, fetching, pending, sending, resets, sysLast, sysRefused>>
        /\ sysCached' = [sysCached EXCEPT !.host = value]
        /\ sysSave' = [stage |-> "patch", host |-> value, reset |-> value # sysCached.host /\ sysCached.enable = "on"]
    BY <1>6 DEF Sys!onSave
  <2>2. sysCached'.enable = sysCached.enable /\ sysSave'.stage = "patch" /\ sysSave'.host = value /\ value' = value
    BY <1>0, <1>6, <2>1 DEF SysTypes, Sys!onSave
  <2>3. SysTypes'
    BY <1>0, <2>1, <2>2 DEF SysTypes
  <2>4. ClickGoesOn'
    BY <1>0, <2>1 DEF ClickGoesOn
  <2>5. DifferenceGoes'
    BY <1>0, <2>1, <2>2 DEF DifferenceGoes
  <2>. QED BY <2>3, <2>4, <2>5 DEF SysInv
<1>7. CASE Sys!SavePatched
  <2>1. UNCHANGED <<sysCached, pending, sending, resets, sysLast, sysRefused>> /\ fetching' = TRUE
        /\ sysStored' = [sysStored EXCEPT !.host = sysSave.host]
        /\ sysSave' = [sysSave EXCEPT !.stage = "timer"] /\ value' = value
    BY <1>7 DEF Sys!SavePatched
  <2>2. sysStored'.enable = sysStored.enable /\ sysSave'.host = sysSave.host
    BY <1>0, <2>1 DEF SysTypes
  <2>3. SysTypes'
    BY <1>0, <2>1, <2>2 DEF SysTypes
  <2>4. ClickGoesOn'
    BY <1>0, <2>1, <2>2 DEF ClickGoesOn
  <2>. QED BY <2>1, <2>3, <2>4 DEF SysInv, DifferenceGoes
<1>8. CASE Sys!SaveFails
  <2>1. UNCHANGED <<sysStored, sysCached, pending, sending, resets, sysLast, sysRefused, value>> /\ fetching' = TRUE
        /\ sysSave'.host = Sys!Nil
    BY <1>8 DEF Sys!SaveFails, Sys!NoSave
  <2>. QED BY <1>0, <2>1 DEF SysInv, SysTypes, ClickGoesOn, DifferenceGoes
<1>9. CASE Sys!SaveTimer
  <2>1. UNCHANGED <<sysStored, sysCached, fetching, pending, sending, sysRefused, value>> /\ sysSave.stage = "timer"
        /\ (Sys!BeginReset("save") \/ UNCHANGED <<resets, sysLast>>) /\ sysSave'.host = Sys!Nil
    BY <1>9 DEF Sys!SaveTimer, Sys!NoSave
  <2>2. DifferenceGoes'
    BY <1>0, <2>1 DEF DifferenceGoes
  <2>3. ClickGoesOn' /\ sysLast' \in Sys!On \cup {Sys!Nil} /\ \A r \in resets' : r.stage \in {"off", "on"}
    BY <1>0, <2>1, ResetBegins DEF SysTypes, ClickGoesOn
  <2>. QED BY <1>0, <2>1, <2>2, <2>3 DEF SysInv, SysTypes
<1>10. CASE Sys!MixedPortChanges
  <2>1. UNCHANGED <<sysStored, sysCached, fetching, pending, sending, sysRefused, sysSave, value>>
        /\ Sys!BeginReset("port")
    BY <1>10 DEF Sys!MixedPortChanges
  <2>3. ClickGoesOn' /\ sysLast' \in Sys!On \cup {Sys!Nil} /\ \A r \in resets' : r.stage \in {"off", "on"}
    BY <1>0, <2>1, ResetBegins DEF SysTypes, ClickGoesOn
  <2>. QED BY <1>0, <2>1, <2>3 DEF SysInv, SysTypes, DifferenceGoes
<1>11. ASSUME NEW r \in resets, Sys!ResetStep(r) PROVE SysInv'
  <2>1. UNCHANGED <<sysCached, pending, sending, sysSave, sysLast, sysRefused, value>> /\ fetching' = TRUE
    BY <1>11 DEF Sys!ResetStep
  <2>2. CASE r.stage = "off"
    <3>1. sysStored' = [sysStored EXCEPT !.enable = "off"]
          /\ resets' = (resets \ {r}) \cup {[r EXCEPT !.stage = "on"]}
      BY <1>11, <2>2 DEF Sys!ResetStep
    <3>2. resets # {} /\ resets' # {} /\ \A x \in resets' : x.stage \in {"off", "on"}
      <4>1. [r EXCEPT !.stage = "on"].stage = "on"
        BY <2>2
      <4>. QED BY <1>0, <3>1, <4>1 DEF SysTypes
    <3>. QED BY <1>0, <2>1, <3>1, <3>2 DEF SysInv, SysTypes, ClickGoesOn, DifferenceGoes, Sys!On
  <2>3. CASE r.stage # "off"
    <3>1. sysStored' = [sysStored EXCEPT !.enable = "on"] /\ resets' = resets \ {r}
      BY <1>11, <2>3 DEF Sys!ResetStep
    <3>2. sysStored'.enable = "on" /\ resets # {}
      BY <1>0, <3>1 DEF SysTypes
    <3>3. ClickGoesOn'
      BY <1>0, <2>1, <3>1, <3>2 DEF ClickGoesOn
    <3>. QED BY <1>0, <2>1, <3>1, <3>3 DEF SysInv, SysTypes, DifferenceGoes, Sys!On
  <2>. QED BY <2>2, <2>3
<1>12. ASSUME NEW r \in resets, Sys!ResetFails(r) PROVE SysInv'
  BY <1>0, <1>12 DEF Sys!ResetFails, SysInv, SysTypes, ClickGoesOn, DifferenceGoes
<1>. QED BY <1>1, <1>2, <1>3, <1>4, <1>5, <1>6, <1>7, <1>8, <1>9, <1>10, <1>11, <1>12 DEF Sys!Next

LEMMA SysHolds == Sys!Init /\ [][Sys!Next]_Sys!vars => [](Sys!LastClickWins /\ Sys!ShownIsStored)
<1>1. SysInv => Sys!LastClickWins
  BY DEF SysInv, ClickGoesOn, Sys!LastClickWins
<1>2. SysInv => Sys!ShownIsStored
  <2>. SUFFICES ASSUME SysInv, sending = Sys!Nil, ~fetching, sysSave.stage # "patch", ~sysRefused
        PROVE sysCached = sysStored
    BY DEF Sys!ShownIsStored
  <2>. QED BY DEF SysInv, SysTypes, DifferenceGoes
<1>. QED BY <1>1, <1>2, SysInit, SysStep, PTL

(* The last click wins, and the switch shows what is stored once nothing   *)
(* is under way.                                                           *)
THEOREM SysClicks == Sys!Spec => [](Sys!LastClickWins /\ Sys!ShownIsStored)
  BY SysHolds, PTL DEF Sys!Spec

-------------------------------------------------------------------------------
(* Settings behind a guard.  A locked setting has one change under way,    *)
(* and it is the last (ChangesAreLast); one that is not locked is as its   *)
(* last change left it (LocksAreHeld); what is shown is what is stored     *)
(* unless a change or a fetch is to come (ShownFollows).                   *)
(* No value is called none, and the icon is a setting.                     *)
GuardParameters == Setting!Nil \notin GuardVals /\ Icon \in Settings

GuardChange == [setting : Settings, stage : {"wait", "send", "fetch", "copy", "paths"},
           new : GuardVals, verge : [Settings -> GuardVals]]

GuardTypes ==
  /\ guardStored \in [Settings -> GuardVals] /\ guardCached \in [Settings -> GuardVals]
     /\ guardLast \in [Settings -> GuardVals]
  /\ guardFetch \in {Setting!None, Setting!Reading} \cup [Settings -> GuardVals]
     /\ guardLock \subseteq Settings \ {Icon}
  /\ guardChanges \subseteq GuardChange

(* A running change of a guarded setting is the only one, and its last.    *)
ChangesAreLast ==
  /\ \A c \in guardChanges : c.setting # Icon =>
       c.setting \in guardLock /\ c.new = guardLast[c.setting]
           /\ (c.stage = "fetch" => guardStored[c.setting] = guardLast[c.setting])
  /\ \A c, d \in guardChanges : c.setting = d.setting /\ c.setting # Icon => c = d

(* A setting is locked while a change of it runs.                          *)
LocksAreHeld ==
  /\ \A s \in guardLock : \E c \in guardChanges : c.setting = s
  /\ \A s \in Settings \ {Icon} : s \notin guardLock => guardStored[s] = guardLast[s]

(* What is shown is what is stored, or will be fetched.                    *)
ShownFollows ==
  /\ guardFetch \in [Settings -> GuardVals] => guardFetch = guardStored
  /\ (\A c \in guardChanges : c.stage \in {"copy", "paths"}) /\ guardFetch = Setting!None => guardRefused
     \/ guardCached = guardStored

GuardInv == GuardTypes /\ ChangesAreLast /\ LocksAreHeld /\ ShownFollows

LEMMA FetchStates ==
  ASSUME GuardParameters
  PROVE  Setting!None # Setting!Reading /\ Setting!None \notin [Settings -> GuardVals]
         /\ Setting!Reading \notin [Settings -> GuardVals]
<1>1. DOMAIN Setting!None # DOMAIN Setting!Reading /\ \A f \in [Settings -> GuardVals] : DOMAIN f = Settings
      /\ f[Icon] \in GuardVals
  BY DEF GuardParameters, Setting!None, Setting!Reading
<1>2. Setting!Reading[Icon] = Setting!Nil /\ DOMAIN Setting!None # Settings
  BY DEF GuardParameters, Setting!None, Setting!Reading
<1>. QED BY <1>1, <1>2 DEF GuardParameters

LEMMA GuardInit == GuardParameters /\ Setting!Init => GuardInv
<1>. SUFFICES ASSUME GuardParameters, Setting!Init PROVE GuardInv
  OBVIOUS
<1>. QED BY FetchStates DEF Setting!Init, GuardInv, GuardTypes, ChangesAreLast, LocksAreHeld, ShownFollows

(* A change goes on to its next stage.                                     *)
LEMMA GuardGoesOn ==
  ASSUME GuardTypes, ChangesAreLast, LocksAreHeld, NEW c \in guardChanges, NEW stage \in {"send", "paths"},
         guardChanges' = (guardChanges \ {c}) \cup {[c EXCEPT !.stage = stage]},
         guardStored' = guardStored, guardLock' = guardLock, guardLast' = guardLast
  PROVE  guardChanges' \subseteq GuardChange /\ ChangesAreLast' /\ LocksAreHeld'
<1>. DEFINE e == [c EXCEPT !.stage = stage]
<1>1. e \in GuardChange /\ e.setting = c.setting /\ e.new = c.new /\ e.stage = stage
  BY DEF GuardTypes, GuardChange
<1>. HIDE DEF e
<1>2. guardChanges' = (guardChanges \ {c}) \cup {e}
  BY DEF e
<1>3. guardChanges' \subseteq GuardChange
  BY <1>1, <1>2 DEF GuardTypes
<1>4. ChangesAreLast'
  BY <1>1, <1>2 DEF ChangesAreLast
<1>5. LocksAreHeld'
  BY <1>1, <1>2 DEF LocksAreHeld
<1>. QED BY <1>3, <1>4, <1>5

(* A change of the icon, or of a setting not locked, begins.               *)
LEMMA GuardBegins ==
  ASSUME GuardTypes, ChangesAreLast, LocksAreHeld, NEW e \in GuardChange, e.stage # "fetch",
         guardChanges' = guardChanges \cup {e}, guardStored' = guardStored,
         \/ e.setting = Icon /\ guardLock' = guardLock /\ guardLast' = guardLast
         \/ /\ e.setting # Icon /\ e.setting \notin guardLock /\ guardLock' = guardLock \cup {e.setting}
            /\ guardLast' = [guardLast EXCEPT ![e.setting] = e.new]
  PROVE  guardChanges' \subseteq GuardChange /\ guardLock' \subseteq Settings \ {Icon}
         /\ guardLast' \in [Settings -> GuardVals]
         /\ ChangesAreLast' /\ LocksAreHeld'
<1>1. e.setting \in Settings /\ e.new \in GuardVals
  BY DEF GuardChange
<1>2. CASE e.setting = Icon /\ guardLock' = guardLock /\ guardLast' = guardLast
  BY <1>1, <1>2 DEF GuardTypes, ChangesAreLast, LocksAreHeld
<1>3. CASE /\ e.setting # Icon /\ e.setting \notin guardLock /\ guardLock' = guardLock \cup {e.setting}
           /\ guardLast' = [guardLast EXCEPT ![e.setting] = e.new]
  <2>1. guardLast' \in [Settings -> GuardVals] /\ guardLast'[e.setting] = e.new
        /\ \A s \in Settings \ {e.setting} : guardLast'[s] = guardLast[s]
    BY <1>1, <1>3 DEF GuardTypes
  <2>2. \A c \in guardChanges : c.setting # e.setting
    BY <1>3 DEF ChangesAreLast
  <2>3. ChangesAreLast'
    <3>1. \A c \in guardChanges : c.setting \in Settings
      BY DEF GuardTypes, GuardChange
    <3>. QED BY <1>3, <2>1, <2>2, <3>1 DEF ChangesAreLast
  <2>4. LocksAreHeld'
    BY <1>3, <2>1 DEF LocksAreHeld
  <2>. QED BY <1>1, <1>3, <2>1, <2>3, <2>4 DEF GuardTypes
<1>. QED BY <1>2, <1>3

LEMMA SettingStep == GuardParameters /\ GuardInv /\ [Setting!Next]_Setting!vars => GuardInv'
<1>. SUFFICES ASSUME GuardParameters, GuardInv, [Setting!Next]_Setting!vars PROVE GuardInv'
  OBVIOUS
<1>. USE FetchStates
<1>0. GuardTypes /\ ChangesAreLast /\ LocksAreHeld /\ ShownFollows
  BY DEF GuardInv
<1>1. ASSUME NEW s \in Settings, NEW v \in GuardVals, Setting!onChange(s, v) PROVE GuardInv'
  <2>. DEFINE e == [setting |-> s, stage |-> IF s \in Waits THEN "wait" ELSE "send", new |-> v, verge |-> guardCached]
  <2>1. e \in GuardChange /\ e.setting = s /\ e.new = v /\ e.stage \in {"wait", "send"}
    BY <1>0 DEF GuardChange, GuardTypes
  <2>2. /\ s # Icon /\ s \notin guardLock /\ guardChanges' = guardChanges \cup {e}
           /\ guardLock' = guardLock \cup {s}
        /\ guardLast' = [guardLast EXCEPT ![s] = v] /\ guardCached' = [guardCached EXCEPT ![s] = v]
        /\ UNCHANGED <<guardStored, guardFetch, guardRefused>>
    BY <1>1 DEF Setting!onChange, Setting!onChangeData
  <2>. HIDE DEF e
  <2>3. guardChanges' \subseteq GuardChange /\ guardLock' \subseteq Settings \ {Icon}
        /\ guardLast' \in [Settings -> GuardVals] /\ ChangesAreLast' /\ LocksAreHeld'
    BY <1>0, <2>1, <2>2, GuardBegins
  <2>4. ShownFollows'
    BY <1>0, <2>1, <2>2 DEF ShownFollows
  <2>5. GuardTypes'
    BY <1>0, <2>2, <2>3 DEF GuardTypes, Setting!None, Setting!Reading
  <2>. QED BY <2>3, <2>4, <2>5 DEF GuardInv
<1>2. CASE (\E s \in Settings, v \in GuardVals : Setting!Ignored(s, v)) \/ UNCHANGED Setting!vars
  <2>1. UNCHANGED <<guardStored, guardCached, guardFetch, guardLock, guardChanges, guardLast, guardRefused>>
    BY <1>2 DEF Setting!Ignored, Setting!vars
  <2>. QED BY <1>0, <2>1
              DEF GuardInv, GuardTypes, ChangesAreLast, LocksAreHeld, ShownFollows, Setting!None,
                  Setting!Reading
<1>3. ASSUME NEW c \in guardChanges, Setting!WaitOver(c) \/ Setting!copyIconFile(c) PROVE GuardInv'
  <2>1. PICK stage \in {"send", "paths"} :
          /\ guardChanges' = (guardChanges \ {c}) \cup {[c EXCEPT !.stage = stage]}
             /\ (stage = "send" \/ c.stage = "copy")
          /\ UNCHANGED <<guardStored, guardCached, guardFetch, guardLock, guardLast, guardRefused>>
    BY <1>3 DEF Setting!WaitOver, Setting!copyIconFile
  <2>2. guardChanges' \subseteq GuardChange /\ ChangesAreLast' /\ LocksAreHeld'
    BY <1>0, <2>1, GuardGoesOn
  <2>3. [c EXCEPT !.stage = stage].stage = stage
    BY <1>0 DEF GuardTypes, GuardChange
  <2>4. ShownFollows'
    BY <1>0, <2>1, <2>3 DEF ShownFollows
  <2>. QED BY <1>0, <2>1, <2>2, <2>4 DEF GuardInv, GuardTypes, Setting!None, Setting!Reading
<1>4. ASSUME NEW c \in guardChanges, Setting!initIconPath(c) PROVE GuardInv'
  <2>1. /\ guardChanges' = (guardChanges \ {c}) \cup {[c EXCEPT !.stage = "send"]}
        /\ UNCHANGED <<guardStored, guardFetch, guardLock, guardLast, guardRefused>>
           /\ guardCached' = [c.verge EXCEPT ![Icon] = c.new]
    BY <1>4 DEF Setting!initIconPath, Setting!onChangeData
  <2>2. guardChanges' \subseteq GuardChange /\ ChangesAreLast' /\ LocksAreHeld'
    BY <1>0, <2>1, GuardGoesOn
  <2>3. [c EXCEPT !.stage = "send"].stage = "send" /\ c.verge \in [Settings -> GuardVals] /\ c.new \in GuardVals
    BY <1>0 DEF GuardTypes, GuardChange
  <2>4. ShownFollows'
    BY <1>0, <2>1, <2>3 DEF ShownFollows
  <2>. QED BY <1>0, <2>1, <2>2, <2>3, <2>4 DEF GuardInv, GuardTypes, Setting!None, Setting!Reading
<1>5. ASSUME NEW c \in guardChanges, Setting!patchVerge(c) PROVE GuardInv'
  <2>. DEFINE e == [c EXCEPT !.stage = "fetch"]
  <2>1. c \in GuardChange /\ e \in GuardChange /\ e.setting = c.setting /\ e.new = c.new /\ e.stage = "fetch"
    BY <1>0 DEF GuardTypes, GuardChange
  <2>2. /\ guardChanges' = (guardChanges \ {c}) \cup {e} /\ guardFetch' = Setting!Reading
        /\ guardStored' = [guardStored EXCEPT ![c.setting] = c.new]
           /\ UNCHANGED <<guardCached, guardLock, guardLast, guardRefused>>
    BY <1>5 DEF Setting!patchVerge
  <2>. HIDE DEF e
  <2>3. c.setting \in Settings /\ c.new \in GuardVals
    BY <2>1 DEF GuardChange
  <2>4. guardStored' \in [Settings -> GuardVals] /\ guardStored'[c.setting] = c.new
        /\ \A s \in Settings \ {c.setting} : guardStored'[s] = guardStored[s]
    BY <1>0, <2>2, <2>3 DEF GuardTypes
  <2>5. \A d \in guardChanges : d.setting \in Settings
    BY <1>0 DEF GuardTypes, GuardChange
  <2>6. ChangesAreLast'
    BY <1>0, <2>1, <2>2, <2>4, <2>5 DEF ChangesAreLast
  <2>7. LocksAreHeld'
    <3>1. c.setting # Icon => guardStored'[c.setting] = guardLast[c.setting]
      BY <1>0, <2>4 DEF ChangesAreLast
    <3>. QED BY <1>0, <2>1, <2>2, <2>4, <3>1 DEF LocksAreHeld
  <2>8. guardFetch' # Setting!None /\ guardFetch' \notin [Settings -> GuardVals] /\ Setting!None' = Setting!None
        /\ Setting!Reading' = Setting!Reading
    BY <2>2 DEF Setting!None, Setting!Reading
  <2>9. GuardTypes'
    BY <1>0, <2>1, <2>2, <2>4, <2>8 DEF GuardTypes
  <2>. QED BY <2>6, <2>7, <2>8, <2>9 DEF GuardInv, ShownFollows
<1>6. CASE Setting!Read
  <2>1. guardFetch' = guardStored
        /\ UNCHANGED <<guardStored, guardCached, guardLock, guardChanges, guardLast, guardRefused>>
        /\ Setting!None' = Setting!None
    BY <1>6 DEF Setting!Read, Setting!None
  <2>. QED BY <1>0, <2>1 DEF GuardInv, GuardTypes, ChangesAreLast, LocksAreHeld, ShownFollows
<1>7. CASE Setting!Refetched
  <2>1. /\ guardFetch \in [Settings -> GuardVals] /\ guardFetch' = Setting!None /\ guardCached' = guardFetch
           /\ UNCHANGED <<guardStored, guardLast>>
        /\ guardChanges' = {c \in guardChanges : c.stage # "fetch"}
           /\ guardLock' = {s \in guardLock : \E c \in guardChanges' : c.setting = s}
        /\ Setting!None' = Setting!None /\ Setting!Reading' = Setting!Reading
    BY <1>7 DEF Setting!Refetched, Setting!None, Setting!Reading
  <2>2. guardCached' = guardStored /\ guardCached' = guardStored'
    BY <1>0, <2>1 DEF ShownFollows
  <2>3. ChangesAreLast'
    BY <1>0, <2>1 DEF ChangesAreLast
  <2>4. LocksAreHeld'
    <3>1. \A s \in guardLock \ guardLock' : guardStored[s] = guardLast[s]
      BY <1>0, <2>1 DEF LocksAreHeld, ChangesAreLast, GuardTypes
    <3>. QED BY <1>0, <2>1, <3>1 DEF LocksAreHeld
  <2>5. GuardTypes'
    BY <1>0, <2>1, <2>2 DEF GuardTypes
  <2>. QED BY <2>1, <2>2, <2>3, <2>4, <2>5 DEF GuardInv, ShownFollows
<1>8. ASSUME NEW c \in guardChanges, Setting!Refused(c) PROVE GuardInv'
  <2>1. /\ c.setting # Icon /\ guardChanges' = guardChanges \ {c} /\ guardLock' = guardLock \ {c.setting}
           /\ guardRefused'
        /\ guardCached' = [c.verge EXCEPT ![c.setting] = c.verge[c.setting]]
        /\ guardLast' = [guardLast EXCEPT ![c.setting] = guardStored[c.setting]]
           /\ UNCHANGED <<guardStored, guardFetch>>
    BY <1>8, Zenon DEF Setting!Refused, Setting!onChangeData
  <2>2. c.setting \in Settings /\ c.verge \in [Settings -> GuardVals]
        /\ \A d \in guardChanges : d.setting \in Settings
    BY <1>0 DEF GuardTypes, GuardChange
  <2>3. /\ guardLast' \in [Settings -> GuardVals] /\ guardLast'[c.setting] = guardStored[c.setting]
        /\ \A s \in Settings \ {c.setting} : guardLast'[s] = guardLast[s]
    BY <1>0, <2>1, <2>2 DEF GuardTypes
  <2>4. ChangesAreLast'
    BY <1>0, <2>1, <2>2, <2>3 DEF ChangesAreLast
  <2>5. LocksAreHeld'
    BY <1>0, <2>1, <2>2, <2>3 DEF LocksAreHeld, GuardTypes
  <2>6. ShownFollows'
    BY <1>0, <2>1 DEF ShownFollows
  <2>7. Setting!None' = Setting!None /\ Setting!Reading' = Setting!Reading /\ guardCached' \in [Settings -> GuardVals]
    BY <2>1, <2>2 DEF Setting!None, Setting!Reading
  <2>8. GuardTypes'
    BY <1>0, <2>1, <2>3, <2>7 DEF GuardTypes
  <2>. QED BY <2>4, <2>5, <2>6, <2>8 DEF GuardInv
<1>9. ASSUME NEW v \in GuardVals, Setting!iconClick(v) PROVE GuardInv'
  <2>1. PICK stage \in {"send", "copy"} :
          /\ guardChanges' = guardChanges \cup {[setting |-> Icon, stage |-> stage, new |-> v, verge |-> guardCached]}
          /\ guardCached' = IF stage = "send" THEN [guardCached EXCEPT ![Icon] = v] ELSE guardCached
          /\ UNCHANGED <<guardStored, guardFetch, guardLock, guardLast, guardRefused>>
    BY <1>9 DEF Setting!iconClick, Setting!onChangeData
  <2>. DEFINE e == [setting |-> Icon, stage |-> stage, new |-> v, verge |-> guardCached]
  <2>2. e \in GuardChange /\ e.setting = Icon /\ e.stage = stage
    BY <1>0 DEF GuardChange, GuardTypes, GuardParameters
  <2>3. guardChanges' = guardChanges \cup {e} /\ e.stage # "fetch"
    BY <2>1
  <2>. HIDE DEF e
  <2>4. guardChanges' \subseteq GuardChange /\ ChangesAreLast' /\ LocksAreHeld'
    BY <1>0, <2>1, <2>2, <2>3, GuardBegins
  <2>5. ShownFollows'
    BY <1>0, <2>1, <2>2, <2>3 DEF ShownFollows
  <2>6. Setting!None' = Setting!None /\ Setting!Reading' = Setting!Reading /\ guardCached' \in [Settings -> GuardVals]
    BY <1>0, <2>1 DEF Setting!None, Setting!Reading, GuardTypes
  <2>7. GuardTypes'
    BY <1>0, <2>1, <2>4, <2>6 DEF GuardTypes
  <2>. QED BY <2>4, <2>5, <2>7 DEF GuardInv
<1>10. ASSUME NEW c \in guardChanges, Setting!IconFails(c) PROVE GuardInv'
  <2>1. /\ c.setting = Icon /\ c.stage \in {"copy", "send"} /\ guardChanges' = guardChanges \ {c}
        /\ UNCHANGED <<guardStored, guardCached, guardFetch, guardLock, guardLast>>
    BY <1>10 DEF Setting!IconFails
  <2>2. guardRefused' = (guardRefused \/ c.stage = "send")
    BY <1>10, Zenon DEF Setting!IconFails
  <2>3. ShownFollows'
    BY <1>0, <2>1, <2>2 DEF ShownFollows
  <2>4. ChangesAreLast' /\ LocksAreHeld'
    BY <1>0, <2>1 DEF ChangesAreLast, LocksAreHeld, GuardTypes
  <2>. QED BY <1>0, <2>1, <2>3, <2>4 DEF GuardInv, GuardTypes, Setting!None, Setting!Reading
<1>. QED BY <1>1, <1>2, <1>3, <1>4, <1>5, <1>6, <1>7, <1>8, <1>9, <1>10 DEF Setting!Next, Setting!Progress

LEMMA GuardHolds == GuardParameters => (Setting!Init /\ [][Setting!Next]_Setting!vars => []Setting!ChangesStick)
<1>. SUFFICES ASSUME GuardParameters PROVE Setting!Init /\ [][Setting!Next]_Setting!vars => []Setting!ChangesStick
  OBVIOUS
<1>1. GuardInv => Setting!ChangesStick
  BY DEF GuardInv, GuardTypes, LocksAreHeld, ShownFollows, Setting!ChangesStick
<1>. QED BY <1>1, GuardInit, SettingStep, PTL

(* Each guarded setting is as its last change left it, and shown as        *)
(* stored, once nothing is under way.                                      *)
THEOREM GuardChangesStick == GuardParameters => (Setting!Spec => []Setting!ChangesStick)
  BY GuardHolds, PTL DEF Setting!Spec

-------------------------------------------------------------------------------
(* Dialogs that save to two places.  A save that met no other of its       *)
(* dialog is alone, with what it has done in its place (AloneIsDone); a    *)
(* dialog whose last save neither failed nor met another is saved in both, *)
(* or such a save of it runs (TogetherIsSaved).                            *)
NewSave(d, taken) ==
  [id |-> dialogSteps, dialog |-> d, value |-> dialogForm, todo |-> {1, 2} \ taken, met |-> Dialog!Of(d) # {}, silent |-> FALSE]
DialogCall == [id : Nat, dialog : Dialogs, value : DialogVals \cup {Dialog!Nil},
         todo : SUBSET {1, 2}, met : BOOLEAN, silent : BOOLEAN]

DialogTypes ==
  /\ first \in [Dialogs -> DialogVals \cup {Dialog!Nil}] /\ second \in [Dialogs -> DialogVals \cup {Dialog!Nil}]
  /\ saved \in [Dialogs -> DialogVals \cup {Dialog!Nil}]
  /\ dialogOpen \in Dialogs \cup {Dialog!Nil} /\ dialogForm \in DialogVals \cup {Dialog!Nil} /\ dialogSteps \in Nat
  /\ dialogSaves \subseteq DialogCall /\ apart \subseteq Dialogs

(* A save that met no other is alone, and what it has done is there.       *)
AloneIsDone(s) ==
  /\ \A t \in dialogSaves : t.dialog = s.dialog => t = s
  /\ s.silent = FALSE =>
       \/ s.todo = {1, 2}
       \/ s.todo = {2} /\ first[s.dialog] = s.value
       \/ s.todo = {1} /\ second[s.dialog] = s.value

(* A dialog whose last save neither failed nor met another is saved in     *)
(* both places, or being saved by one that is heard.                       *)
TogetherIsSaved(d) ==
  /\ (\A s \in dialogSaves : s.dialog # d) => first[d] = saved[d] /\ second[d] = saved[d]
  /\ \A s \in dialogSaves : s.dialog = d => s.met = FALSE /\ s.silent = FALSE

DialogInv ==
  /\ DialogTypes
  /\ \A s \in dialogSaves : s.met = FALSE => AloneIsDone(s)
  /\ \A d \in Dialogs : d \notin apart => TogetherIsSaved(d)

LEMMA DialogInit == Dialog!Init => DialogInv
  BY DEF Dialog!Init, DialogInv, DialogTypes, TogetherIsSaved, AloneIsDone

LEMMA DialogMeets ==
  ASSUME NEW d, Dialog!Of(d) \subseteq DialogCall
  PROVE  \A e \in Dialog!Meets(d) : e \in DialogCall /\ e.dialog = d /\ e.met = TRUE
<1>. SUFFICES ASSUME NEW s \in Dialog!Of(d) PROVE
       LET e == [s EXCEPT !.met = TRUE, !.silent = s.silent \/ ~Dialog!Shape[d].heard] IN e \in DialogCall
           /\ e.dialog = d /\ e.met = TRUE
  BY DEF Dialog!Meets
<1>. DEFINE b == s.silent \/ ~Dialog!Shape[d].heard
<1>1. b \in BOOLEAN /\ s \in DialogCall /\ s.dialog = d
  BY DEF Dialog!Of
<1>. HIDE DEF b
<1>2. LET e == [s EXCEPT !.met = TRUE, !.silent = b] IN e \in DialogCall /\ e.dialog = d /\ e.met = TRUE
  BY <1>1 DEF DialogCall
<1>. QED BY <1>2 DEF b

(* A save goes on with one half done, or silent, or is over.               *)
LEMMA DialogLeft ==
  ASSUME DialogInv, NEW s \in dialogSaves, NEW h \in {1, 2}, Dialog!Left(s, h)
  PROVE  /\ dialogSaves' \subseteq DialogCall
         /\ \A t \in dialogSaves' : \/ t \in dialogSaves /\ t # s
                              \/ /\ t.dialog = s.dialog /\ t.value = s.value /\ t.todo = s.todo \ {h}
                                 /\ t.met = s.met /\ t.silent = s.silent /\ s.todo # {h}
         /\ \A t \in dialogSaves : t # s => t \in dialogSaves'
         /\ s.todo # {h} => \E t \in dialogSaves' : t.dialog = s.dialog
<1>. DEFINE e == [s EXCEPT !.todo = @ \ {h}]
<1>1. e \in DialogCall /\ e.dialog = s.dialog /\ e.value = s.value /\ e.todo = s.todo \ {h} /\ e.met = s.met
      /\ e.silent = s.silent
  BY DEF DialogInv, DialogTypes, DialogCall
<1>2. dialogSaves' = (dialogSaves \ {s}) \cup (IF s.todo = {h} THEN {} ELSE {e})
  BY DEF Dialog!Left
<1>. HIDE DEF e
<1>. QED BY <1>1, <1>2 DEF DialogInv, DialogTypes

(* The half done: the others of the dialog met this save, or it is alone.  *)
LEMMA DialogPatch ==
  ASSUME DialogInv, NEW s \in dialogSaves, NEW h \in {1, 2}, Dialog!Patch(s, h)
  PROVE  DialogInv'
<1>. DEFINE d == s.dialog
<1>1. s \in DialogCall /\ d \in Dialogs /\ s.value \in DialogVals \cup {Dialog!Nil} /\ h \in s.todo
      /\ s.todo \subseteq {1, 2}
      /\ s.met \in BOOLEAN /\ s.silent \in BOOLEAN
  BY DEF DialogInv, DialogTypes, DialogCall, Dialog!Patch, Dialog!CanDo
<1>2. Dialog!Left(s, h) /\ Dialog!onSuccess(s, h) /\ dialogSteps' = dialogSteps
  BY DEF Dialog!Patch
<1>3. /\ dialogSaves' \subseteq DialogCall
      /\ \A t \in dialogSaves' : \/ t \in dialogSaves /\ t # s
                           \/ /\ t.dialog = d /\ t.value = s.value /\ t.todo = s.todo \ {h}
                              /\ t.met = s.met /\ t.silent = s.silent /\ s.todo # {h}
      /\ \A t \in dialogSaves : t # s => t \in dialogSaves'
      /\ s.todo # {h} => \E t \in dialogSaves' : t.dialog = d
  BY <1>2, DialogLeft
<1>4. /\ first' \in [Dialogs -> DialogVals \cup {Dialog!Nil}]
         /\ second' \in [Dialogs -> DialogVals \cup {Dialog!Nil}]
      /\ h = 1 => first'[d] = s.value /\ second' = second
      /\ h = 2 => second'[d] = s.value /\ first' = first
      /\ \A x \in Dialogs \ {d} : first'[x] = first[x] /\ second'[x] = second[x]
  BY <1>1 DEF Dialog!Patch, DialogInv, DialogTypes
<1>5. CASE s.todo # {h} \/ s.silent = TRUE
  <2>1. UNCHANGED <<dialogOpen, dialogForm, saved, apart>>
    BY <1>2, <1>5 DEF Dialog!onSuccess
  <2>2. DialogTypes'
    BY <1>2, <1>3, <1>4, <2>1 DEF DialogTypes, DialogInv
  <2>3. \A t \in dialogSaves' : t.met = FALSE => AloneIsDone(t)'
    <3>. SUFFICES ASSUME NEW t \in dialogSaves', t.met = FALSE PROVE AloneIsDone(t)'
      OBVIOUS
    <3>1. CASE t \in dialogSaves /\ t # s
      <4>1. AloneIsDone(t) /\ t.dialog # d /\ t.dialog \in Dialogs
        BY <3>1 DEF DialogInv, AloneIsDone, DialogTypes, DialogCall
      <4>2. \A u \in dialogSaves' : u.dialog = t.dialog => u = t
        BY <1>3, <4>1 DEF AloneIsDone
      <4>. QED BY <1>4, <4>1, <4>2 DEF AloneIsDone
    <3>2. CASE /\ t.dialog = d /\ t.value = s.value /\ t.todo = s.todo \ {h}
               /\ t.met = s.met /\ t.silent = s.silent /\ s.todo # {h}
      <4>1. AloneIsDone(s)
        BY <3>2 DEF DialogInv
      <4>2. \A u \in dialogSaves' : u.dialog = d => u = t
        <5>1. dialogSaves' = (dialogSaves \ {s}) \cup {[s EXCEPT !.todo = @ \ {h}]}
          BY <1>2, <3>2 DEF Dialog!Left
        <5>2. \A u \in dialogSaves \ {s} : u.dialog # d
          BY <4>1 DEF AloneIsDone
        <5>. QED BY <5>1, <5>2, <3>2
      <4>3. s.silent = FALSE => s.todo = {1, 2}
        BY <1>1, <3>2, <4>1 DEF AloneIsDone
      <4>4. t.silent = FALSE => \/ t.todo = {2} /\ first'[d] = t.value
                                \/ t.todo = {1} /\ second'[d] = t.value
        BY <1>4, <3>2, <4>3
      <4>. QED BY <3>2, <4>2, <4>4 DEF AloneIsDone
    <3>. QED BY <1>3, <3>1, <3>2
  <2>4. ASSUME NEW x \in Dialogs, x \notin apart' PROVE TogetherIsSaved(x)'
    <3>1. TogetherIsSaved(x)
      BY <2>1, <2>4 DEF DialogInv
    <3>2. x = d => s.silent = FALSE /\ s.todo # {h}
      BY <1>5, <3>1 DEF TogetherIsSaved
    <3>3. \A t \in dialogSaves' : t.dialog = x => t.met = FALSE /\ t.silent = FALSE
      BY <1>3, <3>1 DEF TogetherIsSaved
    <3>4. (\A t \in dialogSaves' : t.dialog # x) => x # d /\ \A t \in dialogSaves : t.dialog # x
      BY <1>3, <3>2
    <3>. QED BY <1>4, <2>1, <3>1, <3>3, <3>4 DEF TogetherIsSaved
  <2>. QED BY <2>2, <2>3, <2>4 DEF DialogInv
<1>6. CASE s.todo = {h} /\ s.silent = FALSE
  <2>1. /\ (dialogOpen' = dialogOpen /\ dialogForm' = dialogForm)
           \/ (dialogOpen' = Dialog!Nil /\ dialogForm' = Dialog!Nil)
        /\ saved' = [saved EXCEPT ![d] = s.value]
        /\ apart' = IF s.met THEN apart \cup {d} ELSE apart \ {d}
    <3>1. /\ IF dialogOpen = s.dialog THEN dialogOpen' = Dialog!Nil
             /\ dialogForm' = Dialog!Nil ELSE UNCHANGED <<dialogOpen, dialogForm>>
          /\ saved' = [saved EXCEPT ![d] = s.value]
          /\ apart' = IF s.met THEN apart \cup {d} ELSE apart \ {d}
      <4>1. ~(s.todo # {h} \/ s.silent)
        BY <1>6
      <4>. QED BY <1>2, <4>1, Zenon DEF Dialog!onSuccess
    <3>. QED BY <3>1
  <2>2. dialogSaves' = dialogSaves \ {s}
    BY <1>2, <1>6 DEF Dialog!Left
  <2>3. /\ saved' \in [Dialogs -> DialogVals \cup {Dialog!Nil}] /\ saved'[d] = s.value
        /\ \A x \in Dialogs \ {d} : saved'[x] = saved[x]
    BY <1>1, <2>1 DEF DialogInv, DialogTypes
  <2>4. DialogTypes'
    <3>1. dialogOpen' \in Dialogs \cup {Dialog!Nil} /\ dialogForm' \in DialogVals \cup {Dialog!Nil}
          /\ apart' \subseteq Dialogs
      BY <1>1, <2>1 DEF DialogInv, DialogTypes
    <3>. QED BY <1>2, <1>3, <1>4, <2>3, <3>1 DEF DialogTypes, DialogInv
  <2>5. \A t \in dialogSaves' : t.met = FALSE => AloneIsDone(t)'
    <3>. SUFFICES ASSUME NEW t \in dialogSaves', t.met = FALSE PROVE AloneIsDone(t)'
      OBVIOUS
    <3>1. AloneIsDone(t) /\ t.dialog # d /\ t.dialog \in Dialogs
      BY <2>2 DEF DialogInv, AloneIsDone, DialogTypes, DialogCall
    <3>2. \A u \in dialogSaves' : u.dialog = t.dialog => u = t
      BY <2>2, <3>1 DEF AloneIsDone
    <3>. QED BY <1>4, <3>1, <3>2 DEF AloneIsDone
  <2>6. ASSUME NEW x \in Dialogs, x \notin apart' PROVE TogetherIsSaved(x)'
    <3>1. CASE x # d
      <4>1. TogetherIsSaved(x)
        BY <2>1, <2>6, <3>1 DEF DialogInv
      <4>. QED BY <1>4, <2>2, <2>3, <3>1, <4>1 DEF TogetherIsSaved
    <3>2. CASE x = d
      <4>1. s.met = FALSE
        BY <1>1, <2>1, <2>6, <3>2
      <4>2. AloneIsDone(s)
        BY <4>1 DEF DialogInv
      <4>3. first'[d] = s.value /\ second'[d] = s.value
        BY <1>1, <1>4, <1>6, <4>2 DEF AloneIsDone
      <4>4. \A t \in dialogSaves' : t.dialog # d
        BY <2>2, <4>2 DEF AloneIsDone
      <4>. QED BY <2>3, <3>2, <4>3, <4>4 DEF TogetherIsSaved
    <3>. QED BY <3>1, <3>2
  <2>. QED BY <2>4, <2>5, <2>6 DEF DialogInv
<1>. QED BY <1>1, <1>5, <1>6

LEMMA DialogFails ==
  ASSUME DialogInv, NEW s \in dialogSaves, NEW h \in {1, 2}, Dialog!PatchFails(s, h)
  PROVE  DialogInv'
<1>. DEFINE d == s.dialog
           e == [s EXCEPT !.todo = @ \ {h}, !.silent = TRUE]
<1>1. s \in DialogCall /\ d \in Dialogs /\ e \in DialogCall /\ e.dialog = d /\ e.met = s.met /\ e.silent = TRUE
  BY DEF DialogInv, DialogTypes, DialogCall
<1>2. /\ dialogSaves' = dialogSaves \ {s} \/ dialogSaves' = (dialogSaves \ {s}) \cup {e}
      /\ apart' = apart \cup {d} /\ UNCHANGED <<first, second, dialogOpen, dialogForm, saved, dialogSteps>>
  BY DEF Dialog!PatchFails
<1>. HIDE DEF e
<1>3. DialogTypes'
  BY <1>1, <1>2 DEF DialogInv, DialogTypes
<1>4. \A t \in dialogSaves' : t.met = FALSE => AloneIsDone(t)'
  <2>. SUFFICES ASSUME NEW t \in dialogSaves', t.met = FALSE PROVE AloneIsDone(t)'
    OBVIOUS
  <2>1. CASE t \in dialogSaves /\ t # s
    <3>1. AloneIsDone(t) /\ t.dialog # d
      BY <2>1 DEF DialogInv, AloneIsDone
    <3>2. \A u \in dialogSaves' : u.dialog = t.dialog => u = t
      BY <1>1, <1>2, <3>1 DEF AloneIsDone
    <3>. QED BY <1>2, <3>1, <3>2 DEF AloneIsDone
  <2>2. CASE t = e
    <3>1. AloneIsDone(s)
      BY <1>1, <2>2 DEF DialogInv
    <3>2. \A u \in dialogSaves' : u.dialog = d => u = t
      BY <1>2, <2>2, <3>1 DEF AloneIsDone
    <3>. QED BY <1>1, <2>2, <3>2 DEF AloneIsDone
  <2>. QED BY <1>2, <2>1, <2>2
<1>5. ASSUME NEW x \in Dialogs, x \notin apart' PROVE TogetherIsSaved(x)'
  <2>1. x # d /\ TogetherIsSaved(x)
    BY <1>2, <1>5 DEF DialogInv
  <2>. QED BY <1>1, <1>2, <2>1 DEF TogetherIsSaved
<1>. QED BY <1>3, <1>4, <1>5 DEF DialogInv

LEMMA DialogSave == ASSUME DialogInv, Dialog!onSave PROVE DialogInv'
<1>. DEFINE d == dialogOpen
<1>1. d \in Dialogs /\ dialogForm \in DialogVals \cup {Dialog!Nil} /\ dialogSteps \in Nat
      /\ dialogSteps' = dialogSteps + 1
      /\ UNCHANGED <<first, second, dialogOpen, dialogForm, saved>>
  BY DEF Dialog!onSave, DialogInv, DialogTypes, Dialog!Step
<1>2. apart' = IF Dialog!Of(d) = {} THEN apart ELSE apart \cup {d}
  BY DEF Dialog!onSave
<1>. USE DEF NewSave
<1>3. PICK taken : /\ Dialog!Of(d) = {} => taken = {}
                  /\ dialogSaves' = (dialogSaves \ Dialog!Of(d)) \cup Dialog!Meets(d) \cup
                       {NewSave(d, taken)}
  <2>. DEFINE w == {h \in Dialog!Shape[d].core : \E s \in Dialog!Of(d) : h \in s.todo}
  <2>1. Dialog!Of(d) = {} => w = {}
    OBVIOUS
  <2>2. dialogSaves' = (dialogSaves \ Dialog!Of(d)) \cup Dialog!Meets(d) \cup
          {NewSave(d, w)}
    BY DEF Dialog!onSave
  <2>. HIDE DEF w
  <2>. QED BY <2>1, <2>2, Zenon
<1>. DEFINE e == NewSave(d, taken)
<1>4. e \in DialogCall /\ e.dialog = d /\ e.value = dialogForm /\ e.todo = {1, 2} \ taken /\ e.silent = FALSE
      /\ (e.met = FALSE => Dialog!Of(d) = {})
  BY <1>1 DEF DialogCall
<1>5. dialogSaves' = (dialogSaves \ Dialog!Of(d)) \cup Dialog!Meets(d) \cup {e}
  BY <1>3
<1>. HIDE DEF e
<1>6. \A t \in Dialog!Meets(d) : t \in DialogCall /\ t.dialog = d /\ t.met = TRUE
  BY DialogMeets DEF DialogInv, DialogTypes, Dialog!Of
<1>7. \A t \in dialogSaves \ Dialog!Of(d) : t \in DialogCall /\ t.dialog # d
  BY DEF Dialog!Of, DialogInv, DialogTypes
<1>8. Dialog!Of(d) = {} => Dialog!Meets(d) = {}
  BY DEF Dialog!Meets
<1>. HIDE DEF d
<1>9. DialogTypes'
  BY <1>1, <1>2, <1>4, <1>5, <1>6, <1>7 DEF DialogInv, DialogTypes
<1>10. \A t \in dialogSaves' : t.met = FALSE => AloneIsDone(t)'
  <2>. SUFFICES ASSUME NEW t \in dialogSaves', t.met = FALSE PROVE AloneIsDone(t)'
    OBVIOUS
  <2>1. CASE t \in dialogSaves \ Dialog!Of(d)
    <3>1. AloneIsDone(t) /\ t.dialog # d
      BY <1>7, <2>1 DEF DialogInv
    <3>2. \A u \in dialogSaves' : u.dialog = t.dialog => u = t
      BY <1>4, <1>5, <1>6, <3>1 DEF AloneIsDone
    <3>. QED BY <1>1, <3>1, <3>2 DEF AloneIsDone
  <2>2. CASE t = e
    <3>1. Dialog!Of(d) = {} /\ e.todo = {1, 2}
      BY <1>3, <1>4, <2>2
    <3>2. \A u \in dialogSaves' : u.dialog = d => u = t
      BY <1>5, <1>7, <1>8, <2>2, <3>1
    <3>. QED BY <1>4, <2>2, <3>1, <3>2 DEF AloneIsDone
  <2>. QED BY <1>5, <1>6, <2>1, <2>2
<1>11. ASSUME NEW x \in Dialogs, x \notin apart' PROVE TogetherIsSaved(x)'
  <2>1. TogetherIsSaved(x)
    BY <1>2, <1>11 DEF DialogInv
  <2>2. CASE x # d
    BY <1>1, <1>4, <1>5, <1>6, <1>7, <2>1, <2>2 DEF TogetherIsSaved, Dialog!Of
  <2>3. CASE x = d
    <3>1. Dialog!Of(d) = {} /\ e.met = FALSE
      <4>1. Dialog!Of(d) = {}
        BY <1>2, <1>11, <2>3
      <4>2. e.met = (Dialog!Of(d) # {})
        BY DEF e
      <4>. QED BY <4>1, <4>2
    <3>2. e \in dialogSaves' /\ \A t \in dialogSaves' : t.dialog = d => t = e
      BY <1>5, <1>7, <1>8, <3>1
    <3>. QED BY <1>4, <2>3, <3>1, <3>2 DEF TogetherIsSaved
  <2>. QED BY <2>2, <2>3
<1>. QED BY <1>9, <1>10, <1>11 DEF DialogInv

LEMMA DialogStep == DialogInv /\ [Dialog!Next]_Dialog!vars => DialogInv'
<1>. SUFFICES ASSUME DialogInv, [Dialog!Next]_Dialog!vars PROVE DialogInv'
  OBVIOUS
<1>1. CASE (\E d \in Dialogs : Dialog!Open(d)) \/ Dialog!Close \/ Dialog!isPortInUse
      \/ (\E v \in DialogVals : Dialog!Edit(v)) \/ UNCHANGED Dialog!vars
  <2>1. UNCHANGED <<first, second, dialogSaves, saved, apart>>
    BY <1>1 DEF Dialog!Open, Dialog!Close, Dialog!isPortInUse, Dialog!Edit, Dialog!vars
  <2>2. dialogOpen' \in Dialogs \cup {Dialog!Nil} /\ dialogForm' \in DialogVals \cup {Dialog!Nil}
        /\ dialogSteps' \in Nat
    BY <1>1
       DEF Dialog!Open, Dialog!Close, Dialog!isPortInUse, Dialog!Edit, Dialog!vars, Dialog!Step,
           DialogInv, DialogTypes, Dialog!Nil
  <2>. QED BY <2>1, <2>2 DEF DialogInv, DialogTypes, AloneIsDone, TogetherIsSaved
<1>. QED BY <1>1, DialogPatch, DialogFails, DialogSave DEF Dialog!Next

LEMMA DialogHolds == Dialog!Init /\ [][Dialog!Next]_Dialog!vars => []Dialog!SavedInBoth
<1>1. DialogInv => Dialog!SavedInBoth
  BY DEF DialogInv, TogetherIsSaved, Dialog!SavedInBoth, Dialog!Of
<1>. QED BY <1>1, DialogInit, DialogStep, PTL

(* After a save that said it succeeded both places hold what was saved.    *)
THEOREM DialogSavedInBoth == Dialog!Spec => []Dialog!SavedInBoth
  BY DialogHolds, PTL DEF Dialog!Spec

-------------------------------------------------------------------------------
(* The dialogs of backups.  The slot of the account holds what the last    *)
(* call with it said (SlotIsAnswer), the list is of the source that it was *)
(* fetched for (RowsAreSources), and the switches differ from what is      *)
(* stored by the change under way (PendingIsStored).                       *)
BackupsFields == {"schedule", "change"}
Switches == [stored : [BackupsFields -> BOOLEAN], pending : Seq([BackupsFields -> BOOLEAN]), patch : Seq(BackupsFields)]

BackupsTypes ==
  /\ backupsFiles \in [Backups!Sources -> SUBSET Files] /\ account \in Accounts /\ source \in Backups!Sources
  /\ backupsStatus.account \in Accounts /\ answer \in [Accounts -> Backups!Known]
  /\ \A c \in calls : c.source \in Backups!Sources /\ c.account \in Accounts

(* What the slot says of its account is what the last call with it said.   *)
SlotIsAnswer == backupsStatus.known \in {"unknown", answer[backupsStatus.account]}

(* The list is of the source it was fetched for, or being fetched for it.  *)
RowsAreSources ==
  backupsOpen /\ met = FALSE /\ ran.source = source =>
    /\ \A c \in Backups!Listings : c.source = source
    /\ Backups!Listings = {} => rows.source = source /\ rows.files \subseteq backupsFiles[source]

(* What is pending is what is stored, but for the change under way.        *)
PendingIsStored ==
  /\ auto \in Switches
  /\ auto.patch = <<>> => auto.pending = <<>> \/ auto.pending[1] = auto.stored
  /\ auto.patch # <<>> =>
       auto.patch[1] \in BackupsFields /\ auto.pending = <<[auto.stored EXCEPT ![auto.patch[1]] = ~@]>>

BackupsInv == BackupsTypes /\ SlotIsAnswer /\ RowsAreSources /\ PendingIsStored

LEMMA BackupsInit == Backups!Init => BackupsInv
<1>. USE DEF Switches
<1>. SUFFICES ASSUME Backups!Init PROVE BackupsInv
  OBVIOUS
<1>1. BackupsTypes /\ SlotIsAnswer /\ RowsAreSources
  BY DEF Backups!Init, BackupsTypes, SlotIsAnswer, RowsAreSources, Backups!Sources, Backups!Known
<1>2. PendingIsStored
  <2>1. [f \in {"schedule", "change"} |-> FALSE] \in [BackupsFields -> BOOLEAN]
    BY DEF BackupsFields
  <2>. QED BY <2>1 DEF Backups!Init, PendingIsStored
<1>. QED BY <1>1, <1>2 DEF BackupsInv

LEMMA BackupsCall ==
  ASSUME BackupsTypes, NEW kind, NEW s \in Backups!Sources, NEW a \in Accounts, Backups!Call(kind, s, a)
  PROVE  /\ \A c \in calls' : c.source \in Backups!Sources /\ c.account \in Accounts
         /\ \A c \in calls' : c \in calls \/ c.source = s
         /\ kind # "list" => Backups!Listings' = Backups!Listings
         /\ kind = "list" => Backups!Listings' # {}
<1>. DEFINE e == [kind |-> kind, id |-> Backups!NewId, source |-> s, account |-> a]
<1>1. e.kind = kind /\ e.source = s /\ e.account = a
  OBVIOUS
<1>2. calls' = calls \cup {e}
  BY DEF Backups!Call
<1>. HIDE DEF e
<1>. QED BY <1>1, <1>2 DEF BackupsTypes, Backups!Listings

LEMMA BackupsAnswers ==
  ASSUME BackupsTypes, NEW c \in calls, NEW k \in Backups!Known,
         Backups!setWebdavStatus(c.account, k), answer' = [answer EXCEPT ![c.account] = k]
  PROVE  backupsStatus'.account \in Accounts /\ answer' \in [Accounts -> Backups!Known] /\ SlotIsAnswer'
  BY DEF BackupsTypes, Backups!setWebdavStatus, SlotIsAnswer

LEMMA BackupsListing ==
  ASSUME BackupsTypes, NEW force, Backups!List(force)
  PROVE  /\ \A c \in calls' : c.source \in Backups!Sources /\ c.account \in Accounts
         /\ met' = FALSE => /\ \A c \in Backups!Listings' : c.source = source
                            /\ Backups!Listings' = {} => rows' = [source |-> source, files |-> {}]
<1>1. \/ calls' = calls /\ rows' = [source |-> source, files |-> {}]
      \/ Backups!Call("list", source, account)
  BY DEF Backups!List
<1>2. met' = (Backups!Listings # {})
  BY DEF Backups!List
<1>3. CASE calls' = calls /\ rows' = [source |-> source, files |-> {}]
  BY <1>2, <1>3 DEF BackupsTypes, Backups!Listings
<1>4. CASE Backups!Call("list", source, account)
  <2>1. /\ \A c \in calls' : c.source \in Backups!Sources /\ c.account \in Accounts
        /\ \A c \in calls' : c \in calls \/ c.source = source
        /\ Backups!Listings' # {}
    BY <1>4, BackupsCall DEF BackupsTypes
  <2>. QED BY <1>2, <2>1 DEF Backups!Listings
<1>. QED BY <1>1, <1>3, <1>4

(* A step of the switches alone.                                           *)
LEMMA BackupsSwitch ==
  ASSUME PendingIsStored, (\E f \in DOMAIN auto.stored : Backups!applyPatch(f)) \/ Backups!Applied
         \/ Backups!ApplyFails
  PROVE  PendingIsStored'
         /\ UNCHANGED <<backupsFiles, account, backupsStatus, answer, backupsOpen, source, rows, ran, met, calls>>
<1>. USE DEF Switches
<1>0. auto \in Switches
      /\ auto.stored \in [BackupsFields -> BOOLEAN] /\ DOMAIN auto.stored = BackupsFields
  BY DEF PendingIsStored
<1>1. UNCHANGED <<backupsFiles, account, backupsStatus, answer, backupsOpen, source, rows, ran, met, calls>>
  BY DEF Backups!applyPatch, Backups!Applied, Backups!ApplyFails, Backups!history
<1>2. ASSUME NEW f \in BackupsFields, Backups!applyPatch(f) PROVE PendingIsStored'
  <2>1. Backups!values = auto.stored
    BY <1>2 DEF Backups!applyPatch, Backups!values, PendingIsStored
  <2>2. [Backups!values EXCEPT ![f] = ~@] \in [BackupsFields -> BOOLEAN]
    BY <1>0, <2>1
  <2>3. auto' = [auto EXCEPT !.pending = <<[Backups!values EXCEPT ![f] = ~@]>>, !.patch = <<f>>]
    BY <1>2 DEF Backups!applyPatch
  <2>. DEFINE w == [Backups!values EXCEPT ![f] = ~@]
  <2>4. auto' \in Switches
        /\ auto'.stored = auto.stored /\ auto'.pending = <<w>> /\ auto'.patch = <<f>>
    <3>. HIDE DEF w
    <3>1. w \in [BackupsFields -> BOOLEAN] /\ auto' = [auto EXCEPT !.pending = <<w>>, !.patch = <<f>>]
      BY <2>2, <2>3 DEF w
    <3>2. <<w>> \in Seq([BackupsFields -> BOOLEAN]) /\ <<f>> \in Seq(BackupsFields)
      BY <1>2, <3>1
    <3>. QED BY <1>0, <3>1, <3>2
  <2>5. auto'.patch # <<>> /\ auto'.patch[1] = f
    BY <2>4
  <2>6. auto'.pending = <<[auto'.stored EXCEPT ![auto'.patch[1]] = ~@]>>
    BY <2>1, <2>4, <2>5, Zenon
  <2>. QED BY <2>4, <2>5, <2>6 DEF PendingIsStored
<1>3. CASE Backups!Applied
  <2>. DEFINE f == auto.patch[1]
  <2>1. f \in BackupsFields /\ auto.pending = <<[auto.stored EXCEPT ![f] = ~@]>>
    BY <1>3 DEF Backups!Applied, PendingIsStored
  <2>2. auto.pending # <<>> /\ auto.pending[1] = [auto.stored EXCEPT ![f] = ~@]
    BY <2>1
  <2>3. auto' = [auto EXCEPT !.stored = [auto.stored EXCEPT ![f] = auto.pending[1][f]], !.patch = <<>>]
    BY <1>3, <2>2 DEF Backups!Applied, Backups!values
  <2>4. auto.pending[1] \in [BackupsFields -> BOOLEAN]
        /\ [auto.stored EXCEPT ![f] = auto.pending[1][f]] = auto.pending[1]
    BY <1>0, <2>1, <2>2
  <2>. HIDE DEF f
  <2>5. auto' = [auto EXCEPT !.stored = auto.pending[1], !.patch = <<>>]
    BY <2>3, <2>4
  <2>6. <<>> \in Seq(BackupsFields) /\ auto.pending \in Seq([BackupsFields -> BOOLEAN])
    BY <1>0
  <2>7. auto' \in Switches
        /\ auto'.stored = auto.pending[1] /\ auto'.pending = auto.pending /\ auto'.patch = <<>>
    BY <1>0, <2>4, <2>5, <2>6
  <2>. QED BY <1>1, <2>7 DEF PendingIsStored
<1>4. CASE Backups!ApplyFails
  <2>1. <<>> \in Seq(BackupsFields) /\ <<>> \in Seq([BackupsFields -> BOOLEAN])
    OBVIOUS
  <2>2. auto' \in Switches
        /\ auto'.pending = <<>> /\ auto'.patch = <<>>
    BY <1>0, <1>4, <2>1 DEF Backups!ApplyFails
  <2>. QED BY <1>1, <2>2 DEF PendingIsStored
<1>. QED BY <1>0, <1>1, <1>2, <1>3, <1>4

LEMMA BackupsStep == BackupsInv /\ [Backups!Next]_Backups!vars => BackupsInv'
<1>. SUFFICES ASSUME BackupsInv, [Backups!Next]_Backups!vars PROVE BackupsInv'
  OBVIOUS
<1>0. BackupsTypes /\ SlotIsAnswer /\ RowsAreSources /\ PendingIsStored
  BY DEF BackupsInv
<1>1. CASE (\E f \in DOMAIN auto.stored : Backups!applyPatch(f)) \/ Backups!Applied \/ Backups!ApplyFails
  <2>1. PendingIsStored'
        /\ UNCHANGED <<backupsFiles, account, backupsStatus, answer, backupsOpen, source, rows, ran, met, calls>>
    BY <1>0, <1>1, BackupsSwitch
  <2>. QED BY <1>0, <2>1 DEF BackupsInv, BackupsTypes, SlotIsAnswer, RowsAreSources, Backups!Listings
<1>2. CASE Backups!closeHistory \/ Backups!handleConfirmAction \/ Backups!closeConfirmDialog \/ Backups!Restored
      \/ Backups!ActionFails \/ Backups!RestartApp(FALSE)
           \/ (\E f \in Files, a \in {"delete", "restore"} : Backups!handleDelete(a, f)) \/ UNCHANGED Backups!vars
  <2>1. UNCHANGED <<backupsFiles, account, backupsStatus, answer, source, rows, ran, met, calls, auto>>
        /\ (backupsOpen' = backupsOpen \/ backupsOpen' = FALSE)
    BY <1>2
       DEF Backups!closeHistory, Backups!handleConfirmAction, Backups!closeConfirmDialog,
           Backups!Restored, Backups!ActionFails, Backups!RestartApp, Backups!handleDelete, Backups!vars
  <2>. QED BY <1>0, <2>1
              DEF BackupsInv, BackupsTypes, SlotIsAnswer, RowsAreSources, PendingIsStored,
                  Backups!Listings
<1>3. CASE Backups!RestartApp(TRUE)
  <2>1. UNCHANGED <<backupsFiles, account, backupsStatus, answer, source, auto>> /\ backupsOpen' = FALSE
        /\ calls' = {}
    BY <1>3 DEF Backups!RestartApp
  <2>. QED BY <1>0, <2>1 DEF BackupsInv, BackupsTypes, SlotIsAnswer, RowsAreSources, PendingIsStored
<1>4. CASE (\E s \in Backups!Sources : Backups!openHistory(s) \/ Backups!Tab(s))
      \/ (\E f \in Files : Backups!handleImport(f))
  <2>1. /\ UNCHANGED <<account, backupsStatus, answer, calls, auto>> /\ source' \in Backups!Sources
           /\ ran'.source # source'
        /\ backupsFiles' \in [Backups!Sources -> SUBSET Files]
    BY <1>0, <1>4
       DEF Backups!openHistory, Backups!Tab, Backups!handleImport, Backups!NoKey, Backups!Key,
           Backups!Sources, Backups!Nil, BackupsTypes
  <2>. QED BY <1>0, <2>1 DEF BackupsInv, BackupsTypes, SlotIsAnswer, RowsAreSources, PendingIsStored
<1>5. CASE Backups!fetchRows \/ Backups!handleRefresh \/ Backups!Deleted
  <2>1. PICK force \in BOOLEAN : Backups!List(force)
    BY <1>5 DEF Backups!fetchRows, Backups!handleRefresh, Backups!Deleted
  <2>2. UNCHANGED <<account, backupsStatus, answer, backupsOpen, source, auto>>
        /\ backupsFiles' \in [Backups!Sources -> SUBSET Files]
    BY <1>0, <1>5 DEF Backups!fetchRows, Backups!handleRefresh, Backups!Deleted, BackupsTypes
  <2>3. /\ \A c \in calls' : c.source \in Backups!Sources /\ c.account \in Accounts
        /\ met' = FALSE => /\ \A c \in Backups!Listings' : c.source = source
                           /\ Backups!Listings' = {} => rows' = [source |-> source, files |-> {}]
    BY <1>0, <2>1, BackupsListing
  <2>. QED BY <1>0, <2>2, <2>3 DEF BackupsInv, BackupsTypes, SlotIsAnswer, RowsAreSources, PendingIsStored
<1>6. ASSUME NEW c \in calls, NEW ok \in BOOLEAN, Backups!Listed(c, ok) PROVE BackupsInv'
  <2>1. /\ c \in Backups!Listings /\ calls' = calls \ {c}
           /\ UNCHANGED <<backupsFiles, account, backupsOpen, source, ran, met, auto>>
        /\ rows'.source = c.source /\ rows'.files \subseteq backupsFiles[c.source]
    BY <1>6 DEF Backups!Listed
  <2>2. \/ UNCHANGED <<backupsStatus, answer>>
        \/ \E k \in Backups!Known : Backups!setWebdavStatus(c.account, k)
           /\ answer' = [answer EXCEPT ![c.account] = k]
    BY <1>6 DEF Backups!Listed, Backups!Known
  <2>3. backupsStatus'.account \in Accounts /\ answer' \in [Accounts -> Backups!Known] /\ SlotIsAnswer'
    BY <1>0, <2>2, BackupsAnswers DEF BackupsTypes, SlotIsAnswer
  <2>4. BackupsTypes' /\ PendingIsStored'
    BY <1>0, <2>1, <2>3 DEF BackupsTypes, PendingIsStored
  <2>5. RowsAreSources'
    BY <1>0, <2>1 DEF RowsAreSources, Backups!Listings
  <2>. QED BY <2>3, <2>4, <2>5 DEF BackupsInv
<1>7. ASSUME NEW c \in calls, NEW ok \in BOOLEAN, NEW f \in Files, Backups!BackupEnds(c, f, ok) PROVE BackupsInv'
  <2>1. /\ c.kind = "backup" /\ calls' = calls \ {c}
           /\ UNCHANGED <<account, backupsOpen, source, rows, ran, met, auto>>
        /\ backupsFiles' = backupsFiles \/ backupsFiles' = [backupsFiles EXCEPT ![c.source] = @ \cup {f}]
    BY <1>7 DEF Backups!BackupEnds, Backups!history
  <2>2. \/ UNCHANGED <<backupsStatus, answer>>
        \/ \E k \in Backups!Known : Backups!setWebdavStatus(c.account, k)
           /\ answer' = [answer EXCEPT ![c.account] = k]
    BY <1>7 DEF Backups!BackupEnds, Backups!Known
  <2>3. backupsStatus'.account \in Accounts /\ answer' \in [Accounts -> Backups!Known] /\ SlotIsAnswer'
    BY <1>0, <2>2, BackupsAnswers DEF BackupsTypes, SlotIsAnswer
  <2>4. backupsFiles' \in [Backups!Sources -> SUBSET Files]
        /\ \A s \in Backups!Sources : backupsFiles[s] \subseteq backupsFiles'[s]
    BY <1>0, <2>1 DEF BackupsTypes
  <2>5. BackupsTypes' /\ PendingIsStored'
    BY <1>0, <2>1, <2>3, <2>4 DEF BackupsTypes, PendingIsStored
  <2>6. RowsAreSources'
    <3>1. Backups!Listings' = Backups!Listings
      BY <2>1 DEF Backups!Listings
    <3>. QED BY <1>0, <2>1, <2>4, <3>1 DEF RowsAreSources, BackupsTypes
  <2>. QED BY <2>3, <2>5, <2>6 DEF BackupsInv
<1>8. ASSUME NEW c \in calls, NEW ok \in BOOLEAN, Backups!refreshWebdav(c, ok) PROVE BackupsInv'
  <2>1. c.kind = "refresh" /\ calls' = calls \ {c}
        /\ UNCHANGED <<backupsFiles, account, backupsOpen, source, rows, ran, met, auto>>
    BY <1>8 DEF Backups!refreshWebdav, Backups!history
  <2>2. \E k \in Backups!Known : Backups!setWebdavStatus(c.account, k) /\ answer' = [answer EXCEPT ![c.account] = k]
    BY <1>8 DEF Backups!refreshWebdav, Backups!Known
  <2>3. backupsStatus'.account \in Accounts /\ answer' \in [Accounts -> Backups!Known] /\ SlotIsAnswer'
    BY <1>0, <2>2, BackupsAnswers
  <2>4. Backups!Listings' = Backups!Listings
    BY <2>1 DEF Backups!Listings
  <2>. QED BY <1>0, <2>1, <2>3, <2>4 DEF BackupsInv, BackupsTypes, RowsAreSources, PendingIsStored
<1>9. ASSUME NEW s \in Backups!Sources, Backups!handleBackup(s) PROVE BackupsInv'
  <2>1. Backups!Call("backup", s, account) /\ ~backupsOpen
        /\ UNCHANGED <<backupsFiles, account, backupsStatus, answer, backupsOpen, source, rows, ran, met, auto>>
    BY <1>9 DEF Backups!handleBackup, Backups!history
  <2>2. \A c \in calls' : c.source \in Backups!Sources /\ c.account \in Accounts
    BY <1>0, <2>1, BackupsCall DEF BackupsTypes
  <2>. QED BY <1>0, <2>1, <2>2 DEF BackupsInv, BackupsTypes, SlotIsAnswer, RowsAreSources, PendingIsStored
<1>10. ASSUME NEW a \in Accounts, Backups!save(a) PROVE BackupsInv'
  <2>1. /\ Backups!Call("refresh", "webdav", a) /\ ~backupsOpen /\ account' = a
           /\ Backups!setWebdavStatus(a, "unknown")
        /\ answer' = [answer EXCEPT ![a] = "unknown"]
           /\ UNCHANGED <<backupsFiles, backupsOpen, source, rows, ran, met, auto>>
    BY <1>10 DEF Backups!save, Backups!history
  <2>2. \A c \in calls' : c.source \in Backups!Sources /\ c.account \in Accounts
    BY <1>0, <2>1, BackupsCall DEF Backups!Sources
  <2>3. backupsStatus'.account \in Accounts /\ answer' \in [Accounts -> Backups!Known] /\ SlotIsAnswer'
    BY <1>0, <2>1 DEF BackupsTypes, Backups!setWebdavStatus, SlotIsAnswer, Backups!Known
  <2>. QED BY <1>0, <2>1, <2>2, <2>3 DEF BackupsInv, BackupsTypes, RowsAreSources, PendingIsStored
<1>11. CASE Backups!onInit
  <2>1. /\ Backups!Call("refresh", "webdav", account) /\ ~backupsOpen
        /\ UNCHANGED <<backupsFiles, account, backupsStatus, answer, backupsOpen, source, rows, ran, met, auto>>
    BY <1>11 DEF Backups!onInit, Backups!history
  <2>2. \A c \in calls' : c.source \in Backups!Sources /\ c.account \in Accounts
    BY <1>0, <2>1, BackupsCall DEF Backups!Sources, BackupsTypes
  <2>. QED BY <1>0, <2>1, <2>2 DEF BackupsInv, BackupsTypes, SlotIsAnswer, RowsAreSources, PendingIsStored
<1>12. [Backups!Next]_Backups!vars =>
         \/ (\E f \in DOMAIN auto.stored : Backups!applyPatch(f)) \/ Backups!Applied \/ Backups!ApplyFails
         \/ Backups!closeHistory \/ Backups!handleConfirmAction \/ Backups!closeConfirmDialog \/ Backups!Restored
            \/ Backups!ActionFails \/ Backups!RestartApp(FALSE)
         \/ (\E f \in Files, a \in {"delete", "restore"} : Backups!handleDelete(a, f)) \/ UNCHANGED Backups!vars
         \/ Backups!RestartApp(TRUE)
            \/ (\E s \in Backups!Sources : Backups!openHistory(s) \/ Backups!Tab(s) \/ Backups!handleBackup(s))
         \/ (\E f \in Files : Backups!handleImport(f)) \/ Backups!fetchRows \/ Backups!handleRefresh
            \/ Backups!Deleted
         \/ (\E c \in calls, ok \in BOOLEAN :
                Backups!Listed(c, ok) \/ Backups!refreshWebdav(c, ok)
                    \/ \E f \in Files : Backups!BackupEnds(c, f, ok))
         \/ (\E a \in Accounts : Backups!save(a)) \/ Backups!onInit
  <2>1. \A ok \in BOOLEAN : ok = TRUE \/ ok = FALSE
    OBVIOUS
  <2>. QED BY <2>1, Zenon DEF Backups!Next, Backups!Progress
<1>. QED BY <1>1, <1>2, <1>3, <1>4, <1>5, <1>6, <1>7, <1>8, <1>9, <1>10, <1>11, <1>12, Zenon

LEMMA BackupsHold == Backups!Init
    /\ [][Backups!Next]_Backups!vars => [](Backups!RowsExist /\ Backups!StatusIsOfAccount /\ Backups!AutoIsStored)
<1>1. BackupsInv => Backups!RowsExist
  BY DEF BackupsInv, RowsAreSources, Backups!RowsExist, Backups!isBusy, Backups!Key
<1>2. BackupsInv => Backups!StatusIsOfAccount
  BY DEF BackupsInv, SlotIsAnswer, Backups!StatusIsOfAccount, Backups!getWebdavStatus
<1>3. BackupsInv => Backups!AutoIsStored
  BY DEF BackupsInv, PendingIsStored, Backups!AutoIsStored, Backups!values
<1>. QED BY <1>1, <1>2, <1>3, BackupsInit, BackupsStep, PTL

(* The list shows backups of its source, what is known of an account is    *)
(* its last answer, and the switches show what is stored.                  *)
THEOREM BackupsAgree == Backups!Spec => [](Backups!RowsExist /\ Backups!StatusIsOfAccount /\ Backups!AutoIsStored)
  BY BackupsHold, PTL DEF Backups!Spec

-------------------------------------------------------------------------------
(* Updates.  A run that uploads its second file has put the first, and one *)
(* that ended well both (Published); who downloads holds the state all     *)
(* dialogs look at (OneAtATime).                                           *)
UpdateParameters == DOMAIN Versions \subseteq Nat \ {0}

First == "update.json"
Second == "update-proxy.json"
Ours == [tag |-> updateRun.tag, platforms |-> updateRun.platforms]

Released == [v : DOMAIN Versions, assets : SUBSET Update!Assets]

UpdateTypes ==
  /\ DOMAIN update = {First, Second}
  /\ DOMAIN updateRun = {"step", "tag", "fetching", "platforms", "file", "old"}
  /\ releases \in Seq(Released)
  /\ updateRun.step \in {"", "assets", "delete", "upload"}
  /\ updateRun.step = "" => updateRun = Update!NoRun
  /\ updateRun.step # "" => updateRun.tag \in DOMAIN Versions
  /\ updateRun.step \in {"delete", "upload"} => updateRun.file \in {1, 2}

Published ==
  /\ updateRun.step = "upload" /\ updateRun.file = 2 => update[First] = Ours
  /\ updateEnded = "ok" => /\ updateRun.step = ""
                           /\ update[First] # Update!Absent /\ update[First] = update[Second]

OneAtATime == (downloads # {} => updateState) /\ Update!OneDownload

UpdateInv == UpdateTypes /\ Published /\ OneAtATime

LEMMA UpdateFiles ==
  /\ Update!ToSet(Update!Files) = {First, Second}
  /\ Len(Update!Files) = 2 /\ Update!Files[1] = First /\ Update!Files[2] = Second
  BY DEF Update!ToSet, Update!Files, First, Second

LEMMA UpdateInit == UpdateParameters /\ Update!Init => UpdateInv
<1>. SUFFICES ASSUME UpdateParameters, Update!Init PROVE UpdateInv
  OBVIOUS
<1>1. DOMAIN update = {First, Second}
  BY UpdateFiles DEF Update!Init
<1>2. UpdateTypes
  <2>1. DOMAIN Update!NoRun = {"step", "tag", "fetching", "platforms", "file", "old"} /\ Update!NoRun.step = ""
    BY DEF Update!NoRun
  <2>2. <<>> \in Seq(Released)
    OBVIOUS
  <2>. QED BY <1>1, <2>1, <2>2 DEF Update!Init, UpdateTypes
<1>3. Published
  BY DEF Update!Init, Published, Update!NoRun
<1>4. OneAtATime
  BY DEF Update!Init, OneAtATime, Update!OneDownload
<1>. QED BY <1>2, <1>3, <1>4 DEF UpdateInv

(* The script.                                                             *)
LEMMA UpdateScript ==
  ASSUME UpdateParameters, UpdateTypes, Published,
         \/ Update!Release \/ Update!processRelease \/ Update!FindRelease \/ Update!DeleteOld
         \/ Update!Upload \/ Update!RunFails \/ \E a \in Update!Signatures : Update!getSignature(a)
  PROVE  UpdateTypes' /\ Published'
<1>1. CASE Update!Release
  <2>1. PICK v \in DOMAIN Versions, as \in {Update!Assets, {"setup.exe", "aarch64.app.tar.gz.sig"}} :
          releases' = Append(releases, [v |-> v, assets |-> as])
    BY <1>1 DEF Update!Release
  <2>2. [v |-> v, assets |-> as] \in Released
    BY DEF Update!Assets, Released
  <2>. DEFINE r == [v |-> v, assets |-> as]
  <2>. HIDE DEF r
  <2>3. releases' \in Seq(Released)
    <3>1. releases \in Seq(Released) /\ r \in Released /\ releases' = Append(releases, r)
      BY <2>1, <2>2 DEF UpdateTypes, r
    <3>. QED BY <3>1
  <2>4. UNCHANGED <<update, updateRun, updateEnded>>
    BY <1>1 DEF Update!Release
  <2>. QED BY <2>3, <2>4 DEF UpdateTypes, Published, Ours
<1>2. CASE Update!processRelease
  <2>1. releases # <<>> /\ releases' = releases /\ update' = update /\ updateEnded' = "no"
    BY <1>2 DEF Update!processRelease
  <2>. DEFINE r == releases[Len(releases)]
  <2>2. r \in Released
    <3>1. releases \in Seq(Released) /\ releases # <<>>
      BY <2>1 DEF UpdateTypes
    <3>. QED BY <3>1
  <2>3. DOMAIN updateRun' = {"step", "tag", "fetching", "platforms", "file", "old"}
        /\ updateRun'.step = "assets" /\ updateRun'.tag = r.v
    BY <1>2 DEF Update!processRelease, Update!NoRun
  <2>4. updateRun'.tag \in DOMAIN Versions
    BY <2>2, <2>3 DEF Released
  <2>. QED BY <2>1, <2>3, <2>4 DEF UpdateTypes, Published
<1>3. ASSUME NEW a, Update!getSignature(a) PROVE UpdateTypes' /\ Published'
  <2>1. DOMAIN updateRun' = DOMAIN updateRun /\ updateRun.step = "assets" /\ updateRun'.step = "assets"
        /\ updateRun'.tag = updateRun.tag
        /\ UNCHANGED <<releases, update, updateEnded>>
    BY <1>3 DEF Update!getSignature, UpdateTypes
  <2>. QED BY <2>1 DEF UpdateTypes, Published
<1>4. CASE Update!FindRelease
  <2>1. DOMAIN updateRun' = DOMAIN updateRun /\ updateRun.step = "assets" /\ updateRun'.step = "delete"
        /\ updateRun'.file = 1 /\ updateRun'.tag = updateRun.tag
        /\ UNCHANGED <<releases, update, updateEnded>>
    BY <1>4 DEF Update!FindRelease, UpdateTypes
  <2>. QED BY <2>1 DEF UpdateTypes, Published
<1>5. CASE Update!DeleteOld
  <2>1. updateRun.step = "delete" /\ updateRun.file \in {1, 2} /\ UNCHANGED <<releases, updateEnded>>
    BY <1>5 DEF Update!DeleteOld, UpdateTypes
  <2>2. DOMAIN update' = DOMAIN update
    BY <1>5 DEF Update!DeleteOld
  <2>3. DOMAIN updateRun' = DOMAIN updateRun /\ updateRun'.tag = updateRun.tag
        /\ \/ updateRun'.step = "delete" /\ updateRun'.file = 2
           \/ updateRun'.step = "upload" /\ updateRun'.file = 1
    <3>1. Update!NextFile("upload")
      BY <1>5 DEF Update!DeleteOld
    <3>2. IF updateRun.file < 2 THEN updateRun' = [updateRun EXCEPT !.file = updateRun.file + 1]
          ELSE updateRun' = [updateRun EXCEPT !.step = "upload", !.file = 1]
      BY <3>1, UpdateFiles DEF Update!NextFile
    <3>3. DOMAIN updateRun = {"step", "tag", "fetching", "platforms", "file", "old"}
      BY DEF UpdateTypes
    <3>4. CASE updateRun.file = 1
      BY <2>1, <3>2, <3>3, <3>4
    <3>5. CASE updateRun.file = 2
      <4>. DEFINE g == [updateRun EXCEPT !.step = "upload"]
      <4>1. updateRun' = [g EXCEPT !.file = 1]
        BY <3>2, <3>5
      <4>2. DOMAIN g = DOMAIN updateRun /\ g.step = "upload" /\ g.tag = updateRun.tag
        BY <3>3
      <4>. HIDE DEF g
      <4>3. DOMAIN updateRun' = DOMAIN g /\ updateRun'.step = g.step /\ updateRun'.tag = g.tag /\ updateRun'.file = 1
        BY <3>3, <4>1, <4>2
      <4>. QED BY <4>2, <4>3
    <3>. QED BY <2>1, <3>4, <3>5
  <2>4. updateRun'.step # "" /\ updateRun'.step # "assets" /\ updateRun'.file \in {1, 2}
        /\ ~(updateRun'.step = "upload" /\ updateRun'.file = 2)
    <3>1. CASE updateRun'.step = "delete" /\ updateRun'.file = 2
      BY <3>1
    <3>2. CASE updateRun'.step = "upload" /\ updateRun'.file = 1
      BY <3>2
    <3>. QED BY <2>3, <3>1, <3>2
  <2>5. updateRun.tag \in DOMAIN Versions /\ updateEnded # "ok"
    BY <2>1 DEF UpdateTypes, Published
  <2>6. UpdateTypes'
    BY <2>1, <2>2, <2>3, <2>4, <2>5 DEF UpdateTypes
  <2>7. Published'
    BY <2>1, <2>4, <2>5 DEF Published
  <2>. QED BY <2>6, <2>7
<1>6. CASE Update!Upload
  <2>1. updateRun.step = "upload" /\ updateRun.file \in {1, 2} /\ releases' = releases
        /\ updateRun.tag \in DOMAIN Versions
    BY <1>6 DEF Update!Upload, UpdateTypes
  <2>2. Ours # Update!Absent
    BY <2>1 DEF Ours, Update!Absent, UpdateParameters
  <2>3. CASE updateRun.file = 1
    <3>1. update' = [update EXCEPT ![First] = Ours] /\ updateEnded' = updateEnded
          /\ updateRun' = [updateRun EXCEPT !.file = 2]
      BY <1>6, <2>3, UpdateFiles DEF Update!Upload, Update!File, Update!NextFile, Ours
    <3>2. update'[First] = Ours /\ DOMAIN update' = DOMAIN update
      BY <3>1 DEF UpdateTypes
    <3>3. /\ DOMAIN updateRun' = DOMAIN updateRun /\ updateRun'.tag = updateRun.tag /\ updateRun'.file = 2
          /\ updateRun'.platforms = updateRun.platforms /\ updateRun'.step = "upload"
      BY <2>1, <3>1 DEF UpdateTypes
    <3>. QED BY <2>1, <3>1, <3>2, <3>3 DEF UpdateTypes, Published, Ours
  <2>4. CASE updateRun.file = 2
    <3>1. update' = [update EXCEPT ![Second] = Ours] /\ updateRun' = Update!NoRun
      BY <1>6, <2>4, UpdateFiles DEF Update!Upload, Update!File, Ours
    <3>2. update'[Second] = Ours /\ update'[First] = Ours /\ DOMAIN update' = DOMAIN update
      BY <2>1, <2>4, <3>1 DEF UpdateTypes, Published, First, Second
    <3>3. UpdateTypes'
      BY <2>1, <3>1, <3>2 DEF UpdateTypes, Update!NoRun
    <3>. QED BY <2>2, <3>1, <3>2, <3>3 DEF Published, Update!NoRun
  <2>. QED BY <2>1, <2>3, <2>4
<1>7. CASE Update!RunFails
  BY <1>7 DEF Update!RunFails, UpdateTypes, Published, Update!NoRun
<1>. QED BY <1>1, <1>2, <1>3, <1>4, <1>5, <1>6, <1>7

(* The application.                                                        *)
LEMMA UpdateDialogs ==
  ASSUME OneAtATime,
         \/ Update!checkUpdateSafe \/ \E d \in Viewers : Update!onUpdate(d) \/ Update!Remount(d)
         \/ \E x \in downloads : Update!Install(x) \/ Update!InstallFails(x)
  PROVE  OneAtATime' /\ UNCHANGED <<releases, update, updateRun, updateRuns, updateEnded>>
<1>1. CASE Update!checkUpdateSafe \/ \E d \in Viewers : Update!Remount(d)
  BY <1>1 DEF Update!checkUpdateSafe, Update!Remount, Update!script, OneAtATime, Update!OneDownload
<1>2. ASSUME NEW d \in Viewers, Update!onUpdate(d)
      PROVE  OneAtATime' /\ UNCHANGED <<releases, update, updateRun, updateRuns, updateEnded>>
  <2>1. downloads = {} /\ updateState'
    BY <1>2 DEF Update!onUpdate, OneAtATime
  <2>2. downloads' = {[by |-> d, v |-> updateInfo]}
    BY <1>2, <2>1 DEF Update!onUpdate
  <2>. QED BY <1>2, <2>1, <2>2 DEF Update!onUpdate, Update!script, OneAtATime, Update!OneDownload
<1>3. ASSUME NEW x \in downloads, Update!Install(x) \/ Update!InstallFails(x)
      PROVE  OneAtATime' /\ UNCHANGED <<releases, update, updateRun, updateRuns, updateEnded>>
  <2>1. downloads' = {}
    BY <1>3 DEF Update!Install, Update!InstallFails, Update!Done, OneAtATime, Update!OneDownload
  <2>. QED BY <1>3, <2>1 DEF Update!Install, Update!InstallFails, Update!script, OneAtATime, Update!OneDownload
<1>. QED BY <1>1, <1>2, <1>3

LEMMA UpdateStep ==
  ASSUME UpdateParameters, UpdateInv, [Update!Next]_Update!vars
  PROVE  UpdateInv'
<1>1. CASE UNCHANGED Update!vars
  BY <1>1 DEF Update!vars, Update!script, Update!app, UpdateInv, UpdateTypes, Published, Ours, OneAtATime, Update!OneDownload
<1>2. CASE \/ Update!Release \/ Update!processRelease \/ Update!FindRelease \/ Update!DeleteOld
           \/ Update!Upload \/ Update!RunFails \/ \E a \in Update!Signatures : Update!getSignature(a)
  <2>1. UNCHANGED Update!app
    BY <1>2 DEF Update!Release, Update!processRelease, Update!FindRelease, Update!DeleteOld,
                Update!Upload, Update!RunFails, Update!getSignature
  <2>2. OneAtATime'
    BY <2>1 DEF UpdateInv, Update!app, OneAtATime, Update!OneDownload
  <2>. QED BY <1>2, <2>2, UpdateScript DEF UpdateInv
<1>3. CASE \/ Update!checkUpdateSafe \/ \E d \in Viewers : Update!onUpdate(d) \/ Update!Remount(d)
           \/ \E x \in downloads : Update!Install(x) \/ Update!InstallFails(x)
  <2>1. OneAtATime' /\ UNCHANGED <<releases, update, updateRun, updateRuns, updateEnded>>
    BY <1>3, UpdateDialogs DEF UpdateInv
  <2>. QED BY <2>1 DEF UpdateInv, UpdateTypes, Published, Ours
<1>. QED BY <1>1, <1>2, <1>3 DEF Update!Next

LEMMA UpdateHolds ==
  UpdateParameters => (Update!Init /\ [][Update!Next]_Update!vars => [](Update!BothPublished /\ Update!OneDownload))
<1>. SUFFICES ASSUME UpdateParameters
     PROVE  Update!Init /\ [][Update!Next]_Update!vars => [](Update!BothPublished /\ Update!OneDownload)
  OBVIOUS
<1>1. UpdateInv => Update!BothPublished
  BY UpdateFiles DEF UpdateInv, Published, Update!BothPublished
<1>2. UpdateInv => Update!OneDownload
  BY DEF UpdateInv, OneAtATime
<1>. QED BY <1>1, <1>2, UpdateInit, UpdateStep, PTL

(* A run of the update script that ended well has left both files of one   *)
(* release, in whatever runs failed before it and whatever they deleted.   *)
THEOREM UpdateBothPublished == UpdateParameters => (Update!Spec => []Update!BothPublished)
  BY UpdateHolds, PTL DEF Update!Spec

(* Only one download runs, whichever dialogs come and go.                  *)
THEOREM UpdateOneDownload == UpdateParameters => (Update!Spec => []Update!OneDownload)
  BY UpdateHolds, PTL DEF Update!Spec

-------------------------------------------------------------------------------
(* The build.  A run that goes on, or ended well, has left no file of its  *)
(* tasks behind: each is still in the queue (Queued) or as it should be.   *)
BuildParameters ==
  /\ Sidecars \cap (Resources \cup Build!Bins \cup Scripts) = {}
  /\ Build!Bins \cap (Resources \cup Scripts) = {}
  /\ Resources \cap Scripts = {}
  /\ Binaries \in Seq(Build!Bins) /\ Binaries # <<>>

TaskNames(do) ==
  IF do = "sidecar" THEN Sidecars ELSE IF do = "service" THEN {"service"}
  ELSE IF do = "resource" THEN Resources ELSE Scripts

BuildTasks ==
  {t \in [do : {"sidecar", "service", "resource", "script"},
          names : SUBSET (Build!Names \cup {"service"}), on : SUBSET Platforms] :
     t.names \subseteq TaskNames(t.do) /\ t.names # {}}

Fields == {"FORCE", "queue", "tries", "step", "version", "copied"}

BuildRuns ==
  \/ buildRun = Build!NoRun
  \/ /\ DOMAIN buildRun = Fields
     /\ buildRun.queue \in Seq(BuildTasks) /\ buildRun.queue # <<>>
     /\ buildRun.step \in {"start", "resolve", "unpack", "unpacked", "copy"}
     /\ buildRun.copied \in Nat /\ (buildRun.step # "copy" => buildRun.copied = 0)

BuildTypes ==
  /\ DOMAIN disk = Build!Names /\ DOMAIN temp = Sidecars /\ DOMAIN hashes = Scripts
  /\ platform \in Platforms
  /\ BuildRuns
  /\ buildEnded = "ok" => buildRun = Build!NoRun

Queued(do, n) ==
  \E i \in 1..Len(buildRun.queue) : buildRun.queue[i].do = do /\ n \in buildRun.queue[i].names

GoesWell == Build!Runs \/ buildEnded = "ok"
InHand(n) == Build!At("sidecar", "unpacked") /\ n = Build!name
Copying == Build!At("service", "copy")

SidecarsDone ==
  \A n \in Sidecars :
    /\ disk[n].kind \in {"none", "whole", "partial"}
    /\ disk[n].kind = "partial" => n \in cut \/ InHand(n)
    /\ GoesWell => Queued("sidecar", n) \/ disk[n].kind = "whole" \/ n \in cut

ServiceDone ==
  /\ (Copying => buildRun.copied = 0) /\ Build!BundleExists /\ cut \cap Build!Bins = {} =>
       \A m, n \in Build!Bins : disk[m].kind = "whole" /\ disk[m] = disk[n]
  /\ Copying => /\ buildRun.copied < Len(Binaries)
                /\ \A i \in 1..buildRun.copied : disk[Binaries[i]] = Build!File("whole", buildRun.version)
  /\ GoesWell => Queued("service", "service") \/ Build!BundleExists

ScriptsDone ==
  GoesWell /\ platform = "darwin" =>
    \A n \in Scripts : Queued("script", n) \/ disk[n] = Build!File("whole", lookup)

BuildInv == BuildTypes /\ SidecarsDone /\ ServiceDone /\ ScriptsDone

(* The first task and what is left of the queue.                           *)
LEMMA BuildTaskNow ==
  ASSUME BuildTypes, Build!Runs
  PROVE  /\ DOMAIN buildRun = Fields
         /\ buildRun.queue \in Seq(BuildTasks) /\ Len(buildRun.queue) \in Nat \ {0}
         /\ Build!Task \in BuildTasks /\ Build!name \in Build!Task.names
         /\ buildEnded # "ok"
         /\ Queued(Build!Task.do, Build!name)
<1>1. DOMAIN buildRun = Fields /\ buildRun.queue \in Seq(BuildTasks) /\ buildRun.queue # <<>> /\ buildEnded # "ok"
  BY DEF BuildTypes, BuildRuns, Build!Runs
<1>2. Len(buildRun.queue) \in Nat \ {0} /\ Build!Task \in BuildTasks
  <2>. DEFINE q == buildRun.queue
  <2>. HIDE DEF q
  <2>1. q \in Seq(BuildTasks) /\ q # <<>> => Len(q) \in Nat \ {0} /\ q[1] \in BuildTasks
    OBVIOUS
  <2>. QED BY <1>1, <2>1 DEF q, Build!Task
<1>3. Build!Task.names # {}
  BY <1>2 DEF BuildTasks
<1>4. Build!name \in Build!Task.names
  BY <1>3 DEF Build!name
<1>5. Queued(Build!Task.do, Build!name)
  BY <1>2, <1>4 DEF Queued, Build!Task
<1>. QED BY <1>1, <1>2, <1>4, <1>5

LEMMA BuildRest ==
  ASSUME BuildTypes, Build!Runs
  PROVE  /\ Build!Rest \in Seq(BuildTasks)
         /\ \A do, n : Queued(do, n) /\ ~(do = Build!Task.do /\ n = Build!name) =>
              \E i \in 1..Len(Build!Rest) : Build!Rest[i].do = do /\ n \in Build!Rest[i].names
<1>. DEFINE q == buildRun.queue
            t == Build!Task
            u == [t EXCEPT !.names = @ \ {Build!name}]
<1>1. q \in Seq(BuildTasks) /\ Len(q) \in Nat \ {0} /\ t \in BuildTasks /\ Build!name \in t.names /\ q[1] = t
  BY BuildTaskNow DEF Build!Task
<1>2. Tail(q) \in Seq(BuildTasks) /\ Len(Tail(q)) = Len(q) - 1 /\ \A i \in 1..(Len(q) - 1) : Tail(q)[i] = q[i + 1]
  <2>. HIDE DEF q
  <2>1. q # <<>>
    BY <1>1
  <2>. QED BY <1>1, <2>1, HeadTailProperties, TailIsSubSeq
<1>3. CASE t.names = {Build!name}
  <2>1. Build!Rest = Tail(q)
    BY <1>3 DEF Build!Rest
  <2>2. ASSUME NEW do, NEW n, Queued(do, n), ~(do = t.do /\ n = Build!name)
        PROVE  \E i \in 1..Len(Tail(q)) : Tail(q)[i].do = do /\ n \in Tail(q)[i].names
    <3>1. PICK i \in 1..Len(q) : q[i].do = do /\ n \in q[i].names
      BY <2>2 DEF Queued
    <3>2. i # 1
      BY <1>1, <1>3, <2>2, <3>1
    <3>3. i - 1 \in 1..Len(Tail(q)) /\ Tail(q)[i - 1] = q[i]
      <4>1. i - 1 \in 1..(Len(q) - 1) /\ (i - 1) + 1 = i
        BY <1>1, <3>1, <3>2
      <4>. QED BY <1>2, <4>1
    <3>. QED BY <3>1, <3>3
  <2>. QED BY <1>2, <2>1, <2>2
<1>4. CASE t.names # {Build!name}
  <2>1. u \in BuildTasks /\ u.do = t.do /\ u.names = t.names \ {Build!name}
    BY <1>1, <1>4 DEF BuildTasks
  <2>. HIDE DEF u, q
  <2>2. Build!Rest = <<u>> \o Tail(q)
    BY <1>4 DEF Build!Rest, u, q
  <2>3. <<u>> \in Seq(BuildTasks) /\ Len(<<u>>) = 1 /\ <<u>>[1] = u
    BY <2>1
  <2>4. /\ <<u>> \o Tail(q) \in Seq(BuildTasks) /\ Len(<<u>> \o Tail(q)) = Len(q)
        /\ (<<u>> \o Tail(q))[1] = u
        /\ \A i \in 2..Len(q) : (<<u>> \o Tail(q))[i] = q[i]
    <3>1. /\ Len(<<u>> \o Tail(q)) = Len(<<u>>) + Len(Tail(q))
          /\ <<u>> \o Tail(q) \in Seq(BuildTasks)
          /\ \A i \in 1..(Len(<<u>>) + Len(Tail(q))) :
               (<<u>> \o Tail(q))[i] = IF i <= Len(<<u>>) THEN <<u>>[i] ELSE Tail(q)[i - Len(<<u>>)]
      BY <1>2, <2>3, ConcatProperties
    <3>2. Len(<<u>>) + Len(Tail(q)) = Len(q)
      BY <1>1, <1>2, <2>3
    <3>3. ASSUME NEW i \in 2..Len(q) PROVE (<<u>> \o Tail(q))[i] = q[i]
      <4>1. i \in 1..Len(q) /\ ~(i <= 1) /\ i - 1 \in 1..(Len(q) - 1) /\ (i - 1) + 1 = i
        BY <1>1
      <4>2. (<<u>> \o Tail(q))[i] = Tail(q)[i - 1]
        BY <2>3, <3>1, <3>2, <4>1
      <4>. QED BY <1>2, <4>1, <4>2
    <3>4. (<<u>> \o Tail(q))[1] = u
      BY <1>1, <2>3, <3>1, <3>2
    <3>. QED BY <3>1, <3>2, <3>3, <3>4
  <2>5. ASSUME NEW do, NEW n, Queued(do, n), ~(do = t.do /\ n = Build!name)
        PROVE  \E i \in 1..Len(Build!Rest) : Build!Rest[i].do = do /\ n \in Build!Rest[i].names
    <3>1. PICK i \in 1..Len(q) : q[i].do = do /\ n \in q[i].names
      BY <2>5 DEF Queued, q
    <3>2. CASE i = 1
      <4>1. do = t.do /\ n \in u.names
        BY <1>1, <2>1, <2>5, <3>1, <3>2
      <4>. QED BY <1>1, <2>1, <2>2, <2>4, <4>1
    <3>3. CASE i # 1
      <4>1. i \in 2..Len(q)
        BY <1>1, <3>1, <3>3
      <4>. QED BY <2>2, <2>4, <3>1, <4>1
    <3>. QED BY <3>2, <3>3
  <2>. QED BY <2>2, <2>4, <2>5
<1>. QED BY <1>3, <1>4

(* What becomes of the run: no task is lost but the one that is done.      *)
Keeps == GoesWell' => GoesWell /\ \A do, n : Queued(do, n) => Queued(do, n)'
Drops == \A do, n : Queued(do, n) /\ ~(do = Build!Task.do /\ n = Build!name) => Queued(do, n)'
RunTyped == BuildRuns /\ (buildEnded = "ok" => buildRun = Build!NoRun)

LEMMA BuildNoRun ==
  /\ DOMAIN Build!NoRun = Fields /\ Build!NoRun.step = "" /\ Build!NoRun.copied = 0
  /\ Build!NoRun.queue = <<>> /\ Len(Build!NoRun.queue) = 0
  BY DEF Build!NoRun, Fields

LEMMA BuildDrops ==
  ASSUME BuildTypes, Build!Runs, Build!runTask(Build!Rest)
  PROVE  RunTyped' /\ Drops /\ GoesWell /\ buildRun'.step \in {"", "start"}
<1>1. GoesWell
  BY DEF GoesWell
<1>2. CASE Build!Rest = <<>>
  <2>1. buildRun' = Build!NoRun
    BY <1>2 DEF Build!runTask
  <2>2. RunTyped'
    BY <2>1 DEF RunTyped, BuildRuns
  <2>3. \A do, n : Queued(do, n) => do = Build!Task.do /\ n = Build!name
    BY <1>2, BuildRest
  <2>4. Drops
    BY <2>3 DEF Drops
  <2>. QED BY <1>1, <2>1, <2>2, <2>4, BuildNoRun
<1>3. CASE Build!Rest # <<>>
  <2>1. buildRun' = [buildRun EXCEPT !.queue = Build!Rest, !.tries = 0, !.step = "start", !.version = 0, !.copied = 0]
        /\ buildEnded' = buildEnded
    BY <1>3 DEF Build!runTask, Build!Begin
  <2>2. DOMAIN buildRun = Fields /\ buildEnded # "ok"
    BY BuildTaskNow
  <2>3. DOMAIN buildRun' = Fields /\ buildRun'.queue = Build!Rest /\ buildRun'.step = "start" /\ buildRun'.copied = 0
    BY <2>1, <2>2 DEF Fields
  <2>4. RunTyped'
    BY <1>3, <2>1, <2>2, <2>3, BuildRest DEF RunTyped, BuildRuns
  <2>5. Drops
    BY <2>3, BuildRest DEF Drops, Queued
  <2>. QED BY <1>1, <2>3, <2>4, <2>5
<1>. QED BY <1>2, <1>3

LEMMA BuildThrows ==
  ASSUME BuildTypes, Build!Runs, Build!Throws
  PROVE  RunTyped' /\ Keeps /\ buildRun'.step \in {"", "start"}
<1>1. DOMAIN buildRun = Fields /\ buildEnded # "ok" /\ GoesWell /\ buildRun.queue \in Seq(BuildTasks) /\ buildRun.queue # <<>>
  BY BuildTaskNow DEF GoesWell, BuildTypes, BuildRuns, Build!Runs
<1>2. CASE buildRun' = Build!NoRun /\ buildEnded' = "error"
  BY <1>2, BuildNoRun DEF RunTyped, BuildRuns, Keeps, GoesWell, Build!Runs
<1>3. CASE Build!Begin(buildRun.queue, buildRun.tries + 1) /\ UNCHANGED buildEnded
  <2>1. DOMAIN buildRun' = Fields /\ buildRun'.queue = buildRun.queue /\ buildRun'.step = "start" /\ buildRun'.copied = 0
    BY <1>1, <1>3 DEF Fields, Build!Begin
  <2>2. RunTyped'
    BY <1>1, <1>3, <2>1 DEF RunTyped, BuildRuns
  <2>3. Keeps
    BY <1>1, <2>1 DEF Keeps, Queued
  <2>. QED BY <2>1, <2>2, <2>3
<1>. QED BY <1>2, <1>3 DEF Build!Throws

(* A run that is stopped, or exits.                                        *)
LEMMA BuildStops ==
  ASSUME buildRun' = Build!NoRun, buildEnded' # "ok"
  PROVE  RunTyped' /\ Keeps /\ buildRun'.step = "" /\ ~Build!Runs'
  BY BuildNoRun DEF RunTyped, BuildRuns, Keeps, GoesWell, Build!Runs

LEMMA BuildGoes ==
  ASSUME BuildTypes, Build!Runs, NEW s \in {"unpack", "unpacked", "copy"}, Build!Goes(s), buildRun.step # "copy"
  PROVE  RunTyped' /\ Keeps /\ buildRun'.step = s /\ buildRun'.copied = 0 /\ buildRun'.queue = buildRun.queue
<1>1. DOMAIN buildRun = Fields /\ buildEnded # "ok" /\ GoesWell /\ buildRun.queue \in Seq(BuildTasks) /\ buildRun.queue # <<>>
      /\ buildRun.copied = 0
  BY BuildTaskNow DEF GoesWell, BuildTypes, BuildRuns, Build!Runs
<1>2. buildRun' = [buildRun EXCEPT !.step = s] /\ buildEnded' = buildEnded
  BY DEF Build!Goes
<1>3. DOMAIN buildRun' = Fields /\ buildRun'.queue = buildRun.queue /\ buildRun'.step = s /\ buildRun'.copied = 0
  BY <1>1, <1>2 DEF Fields
<1>4. RunTyped'
  BY <1>1, <1>2, <1>3 DEF RunTyped, BuildRuns
<1>5. Keeps
  BY <1>1, <1>3 DEF Keeps, Queued
<1>. QED BY <1>3, <1>4, <1>5

LEMMA BuildVersioned ==
  ASSUME BuildTypes, Build!Runs, NEW v, Build!Versioned(v), buildRun.step # "copy"
  PROVE  RunTyped' /\ Keeps /\ buildRun'.step = "resolve"
<1>1. DOMAIN buildRun = Fields /\ buildEnded # "ok" /\ GoesWell /\ buildRun.queue \in Seq(BuildTasks) /\ buildRun.queue # <<>>
      /\ buildRun.copied = 0
  BY BuildTaskNow DEF GoesWell, BuildTypes, BuildRuns, Build!Runs
<1>2. buildRun' = [buildRun EXCEPT !.step = "resolve", !.version = v] /\ buildEnded' = buildEnded
  BY DEF Build!Versioned
<1>3. DOMAIN buildRun' = Fields /\ buildRun'.queue = buildRun.queue /\ buildRun'.step = "resolve" /\ buildRun'.copied = 0
  BY <1>1, <1>2 DEF Fields
<1>4. RunTyped'
  BY <1>1, <1>2, <1>3 DEF RunTyped, BuildRuns
<1>5. Keeps
  BY <1>1, <1>3 DEF Keeps, Queued
<1>. QED BY <1>3, <1>4, <1>5

(* A run starts with every task there is.                                  *)
LEMMA BuildDue ==
  ASSUME BuildParameters, platform \in Platforms
  PROVE  LET q == Build!Due(Build!tasks[1]) \o Build!Due(Build!tasks[2]) \o Build!Due(Build!tasks[3]) \o Build!Due(Build!tasks[4])
         IN  /\ q \in Seq(BuildTasks) /\ q # <<>>
             /\ \A n \in Sidecars : \E i \in 1..Len(q) : q[i].do = "sidecar" /\ n \in q[i].names
             /\ \E i \in 1..Len(q) : q[i].do = "service" /\ "service" \in q[i].names
             /\ platform = "darwin" => \A n \in Scripts : \E i \in 1..Len(q) : q[i].do = "script" /\ n \in q[i].names
<1>. DEFINE d(k) == Build!Due(Build!tasks[k])
            q == d(1) \o d(2) \o d(3) \o d(4)
            Has(s, do, n) == \E i \in 1..Len(s) : s[i].do = do /\ n \in s[i].names
<1>1. ASSUME NEW k \in 1..4, Build!tasks[k].names # {} => Build!tasks[k] \in BuildTasks
      PROVE  d(k) \in Seq(BuildTasks)
  BY <1>1 DEF Build!Due
<1>2. /\ Build!tasks[1] = [do |-> "sidecar", names |-> Sidecars, on |-> Platforms]
      /\ Build!tasks[2] = [do |-> "service", names |-> {"service"}, on |-> Platforms]
      /\ Build!tasks[3] = [do |-> "resource", names |-> Resources, on |-> Platforms]
      /\ Build!tasks[4] = [do |-> "script", names |-> Scripts, on |-> Platforms \cap {"darwin"}]
  BY DEF Build!tasks
<1>3. \A k \in 1..4 : Build!tasks[k].names # {} => Build!tasks[k] \in BuildTasks
  BY <1>2 DEF BuildTasks, TaskNames, Build!Names
<1>4. d(1) \in Seq(BuildTasks) /\ d(2) \in Seq(BuildTasks) /\ d(3) \in Seq(BuildTasks) /\ d(4) \in Seq(BuildTasks)
  BY <1>1, <1>3
<1>5. \A k \in 1..4 : platform \in Build!tasks[k].on /\ Build!tasks[k].names # {} => d(k) = <<Build!tasks[k]>>
  BY DEF Build!Due
<1>6. \A t : Len(<<t>>) = 1 /\ <<t>>[1] = t
  OBVIOUS
<1>7. \A k \in 1..4 : \A n : platform \in Build!tasks[k].on /\ n \in Build!tasks[k].names => Has(d(k), Build!tasks[k].do, n)
  <2>. SUFFICES ASSUME NEW k \in 1..4, NEW n, platform \in Build!tasks[k].on, n \in Build!tasks[k].names
       PROVE  Has(d(k), Build!tasks[k].do, n)
    OBVIOUS
  <2>1. d(k) = <<Build!tasks[k]>>
    BY <1>5
  <2>. HIDE DEF d
  <2>. QED BY <1>6, <2>1
<1>8. /\ \A n \in Sidecars : Has(d(1), "sidecar", n)
      /\ Has(d(2), "service", "service")
      /\ platform = "darwin" => \A n \in Scripts : Has(d(4), "script", n)
  <2>1. /\ Build!tasks[1].do = "sidecar" /\ Build!tasks[1].names = Sidecars /\ platform \in Build!tasks[1].on
        /\ Build!tasks[2].do = "service" /\ Build!tasks[2].names = {"service"} /\ platform \in Build!tasks[2].on
        /\ Build!tasks[4].do = "script" /\ Build!tasks[4].names = Scripts
        /\ platform = "darwin" => platform \in Build!tasks[4].on
    BY <1>2
  <2>. HIDE DEF d, Has
  <2>. QED BY <1>7, <2>1
<1>9. ASSUME NEW s \in Seq(BuildTasks), NEW t \in Seq(BuildTasks)
      PROVE  /\ s \o t \in Seq(BuildTasks)
             /\ \A do, n : Has(s, do, n) \/ Has(t, do, n) => Has(s \o t, do, n)
  <2>1. /\ s \o t \in Seq(BuildTasks) /\ Len(s \o t) = Len(s) + Len(t)
        /\ \A i \in 1..(Len(s) + Len(t)) : (s \o t)[i] = IF i <= Len(s) THEN s[i] ELSE t[i - Len(s)]
    BY ConcatProperties
  <2>2. ASSUME NEW do, NEW n, Has(s, do, n) PROVE Has(s \o t, do, n)
    <3>1. PICK i \in 1..Len(s) : s[i].do = do /\ n \in s[i].names
      BY <2>2
    <3>2. i \in 1..Len(s \o t) /\ (s \o t)[i] = s[i]
      <4>1. Len(s) \in Nat /\ Len(t) \in Nat
        OBVIOUS
      <4>2. i \in 1..(Len(s) + Len(t)) /\ i <= Len(s)
        BY <3>1, <4>1
      <4>. QED BY <2>1, <4>2
    <3>. QED BY <3>1, <3>2
  <2>3. ASSUME NEW do, NEW n, Has(t, do, n) PROVE Has(s \o t, do, n)
    <3>1. PICK i \in 1..Len(t) : t[i].do = do /\ n \in t[i].names
      BY <2>3
    <3>2. Len(s) + i \in 1..Len(s \o t) /\ (s \o t)[Len(s) + i] = t[i]
      <4>1. Len(s) \in Nat /\ Len(t) \in Nat
        OBVIOUS
      <4>2. Len(s) + i \in 1..(Len(s) + Len(t)) /\ ~(Len(s) + i <= Len(s)) /\ (Len(s) + i) - Len(s) = i
        BY <3>1, <4>1
      <4>. QED BY <2>1, <4>2
    <3>. QED BY <3>1, <3>2
  <2>. QED BY <2>1, <2>2, <2>3
<1>. HIDE DEF d, Has
<1>10. d(1) \o d(2) \in Seq(BuildTasks) /\ d(1) \o d(2) \o d(3) \in Seq(BuildTasks)
  BY <1>4, <1>9
<1>11. /\ q \in Seq(BuildTasks) /\ \A n \in Sidecars : Has(q, "sidecar", n)
       /\ Has(q, "service", "service") /\ (platform = "darwin" => \A n \in Scripts : Has(q, "script", n))
  BY <1>4, <1>8, <1>9, <1>10
<1>12. q # <<>>
  <2>. HIDE DEF q
  <2>1. Len(q) # 0
    BY <1>11 DEF Has
  <2>. QED BY <2>1
<1>. QED BY <1>11, <1>12 DEF d, Has

(* A file of one kind of task is none of another's.                        *)
LEMMA BuildNames ==
  ASSUME BuildParameters
  PROVE  /\ \A n \in Sidecars : n \in Build!Names /\ n \notin Resources /\ n \notin Build!Bins /\ n \notin Scripts
         /\ \A n \in Build!Bins : n \in Build!Names /\ n \notin Sidecars /\ n \notin Resources /\ n \notin Scripts
         /\ \A n \in Resources : n \in Build!Names /\ n \notin Sidecars /\ n \notin Build!Bins /\ n \notin Scripts
         /\ \A n \in Scripts : n \in Build!Names /\ n \notin Sidecars /\ n \notin Build!Bins /\ n \notin Resources
         /\ Build!Bins # {} /\ Len(Binaries) \in Nat \ {0}
         /\ \A i \in 1..Len(Binaries) : Binaries[i] \in Build!Bins
         /\ \A n \in Build!Bins : \E i \in 1..Len(Binaries) : n = Binaries[i]
<1>1. Binaries \in Seq(Build!Bins) /\ Binaries # <<>>
  BY DEF BuildParameters
<1>2. Len(Binaries) \in Nat \ {0} /\ DOMAIN Binaries = 1..Len(Binaries)
  BY <1>1, EmptySeq
<1>. QED BY <1>2 DEF BuildParameters, Build!Bins, Build!Names

LEMMA BuildNameOf ==
  ASSUME BuildTypes, Build!Runs
  PROVE  /\ Build!Is("sidecar") => Build!name \in Sidecars
         /\ Build!Is("resource") => Build!name \in Resources
         /\ Build!Is("script") => Build!name \in Scripts
         /\ Build!Is("service") => Build!name = "service"
  BY BuildTaskNow DEF BuildTasks, TaskNames, Build!Is

Spares(do) == GoesWell' => GoesWell /\ \A n : Queued(do, n) => Queued(do, n)'

LEMMA BuildSpares ==
  /\ Keeps => \A do : Spares(do)
  /\ Drops /\ GoesWell => \A do : do # Build!Task.do => Spares(do)
  BY DEF Keeps, Drops, Spares

(* What a step that has nothing to do with a kind of file leaves alone.    *)
LEMMA SidecarsKept ==
  ASSUME SidecarsDone, Spares("sidecar"),
         \A n \in Sidecars : disk'[n] = disk[n] /\ (n \in cut => n \in cut'),
         ~Build!At("sidecar", "unpacked")
  PROVE  SidecarsDone'
<1>. SUFFICES ASSUME NEW n \in Sidecars
     PROVE  /\ disk'[n].kind \in {"none", "whole", "partial"}
            /\ disk'[n].kind = "partial" => n \in cut' \/ InHand(n)'
            /\ GoesWell' => Queued("sidecar", n)' \/ disk'[n].kind = "whole" \/ n \in cut'
  BY DEF SidecarsDone
<1>1. disk'[n].kind = "partial" => n \in cut'
  BY DEF SidecarsDone, InHand
<1>2. GoesWell' /\ Queued("sidecar", n) => Queued("sidecar", n)'
  BY DEF Spares
<1>. QED BY <1>1, <1>2 DEF SidecarsDone, Spares

LEMMA ServiceKept ==
  ASSUME ServiceDone, Spares("service"),
         \A n \in Build!Bins : disk'[n] = disk[n] /\ (n \in cut => n \in cut'),
         ~Copying, ~Copying'
  PROVE  ServiceDone'
<1>1. Build!BundleExists' = Build!BundleExists
  BY DEF Build!BundleExists, Build!exists
<1>2. GoesWell' /\ Queued("service", "service") => Queued("service", "service")'
  BY DEF Spares
<1>3. cut' \cap Build!Bins = {} => cut \cap Build!Bins = {}
  OBVIOUS
<1>4. Build!BundleExists' /\ cut' \cap Build!Bins = {} =>
        \A m, n \in Build!Bins : disk'[m].kind = "whole" /\ disk'[m] = disk'[n]
  BY <1>1, <1>3 DEF ServiceDone
<1>. QED BY <1>1, <1>2, <1>4 DEF ServiceDone, Spares

LEMMA ScriptsKept ==
  ASSUME ScriptsDone, Spares("script"),
         \A n \in Scripts : disk'[n] = disk[n],
         platform' = platform, GoesWell' => lookup' = lookup
  PROVE  ScriptsDone'
<1>. SUFFICES ASSUME GoesWell', platform = "darwin", NEW n \in Scripts
     PROVE  Queued("script", n)' \/ disk'[n] = Build!File("whole", lookup')
  BY DEF ScriptsDone, Build!File
<1>1. Queued("script", n) => Queued("script", n)'
  BY DEF Spares
<1>. QED BY <1>1 DEF ScriptsDone, Spares, Build!File

LEMMA BuildInit == BuildParameters /\ Build!Init => BuildInv
<1>. SUFFICES ASSUME BuildParameters, Build!Init PROVE BuildInv
  OBVIOUS
<1>1. \A n \in Build!Names : disk[n] = Build!None
  BY DEF Build!Init
<1>2. Build!None.kind = "none"
  BY DEF Build!None, Build!File
<1>3. ~GoesWell /\ ~Build!Runs /\ buildRun = Build!NoRun /\ buildEnded # "ok"
  BY DEF Build!Init, GoesWell, Build!Runs
<1>4. BuildTypes
  BY <1>3 DEF Build!Init, BuildTypes, BuildRuns
<1>5. SidecarsDone
  BY <1>1, <1>2, <1>3, BuildNames DEF SidecarsDone
<1>6. ServiceDone
  BY <1>1, <1>2, <1>3, BuildNames DEF ServiceDone, Copying, Build!At, Build!Is, Build!BundleExists, Build!exists
<1>7. ScriptsDone
  BY <1>3 DEF ScriptsDone
<1>. QED BY <1>4, <1>5, <1>6, <1>7 DEF BuildInv

(* A step of a run that leaves the files alone.                            *)
LEMMA BuildQuiet ==
  ASSUME BuildInv, UNCHANGED <<platform, lookup, disk>>, DOMAIN temp' = Sidecars, DOMAIN hashes' = Scripts,
         RunTyped', Spares("sidecar"), Spares("service"), Spares("script"),
         \A n \in Build!Names : n \in cut => n \in cut',
         ~Build!At("sidecar", "unpacked"), ~Copying, ~Copying'
  PROVE  BuildInv'
<1>1. BuildTypes'
  BY DEF BuildInv, BuildTypes, RunTyped, Build!Names, Build!Bins
<1>2. /\ \A n \in Sidecars : disk'[n] = disk[n] /\ (n \in cut => n \in cut')
      /\ \A n \in Build!Bins : disk'[n] = disk[n] /\ (n \in cut => n \in cut')
      /\ \A n \in Scripts : disk'[n] = disk[n]
  BY DEF Build!Names
<1>3. SidecarsDone'
  BY <1>2, SidecarsKept DEF BuildInv
<1>4. ServiceDone'
  BY <1>2, ServiceKept DEF BuildInv
<1>5. ScriptsDone'
  BY <1>2, ScriptsKept DEF BuildInv
<1>. QED BY <1>1, <1>3, <1>4, <1>5 DEF BuildInv

LEMMA BuildStart ==
  ASSUME BuildParameters, BuildInv, NEW f \in BOOLEAN, Build!StartRun(f)
  PROVE  BuildInv'
<1>. DEFINE q == Build!Due(Build!tasks[1]) \o Build!Due(Build!tasks[2]) \o Build!Due(Build!tasks[3]) \o Build!Due(Build!tasks[4])
<1>1. /\ q \in Seq(BuildTasks) /\ q # <<>>
      /\ \A n \in Sidecars : \E i \in 1..Len(q) : q[i].do = "sidecar" /\ n \in q[i].names
      /\ \E i \in 1..Len(q) : q[i].do = "service" /\ "service" \in q[i].names
      /\ platform = "darwin" => \A n \in Scripts : \E i \in 1..Len(q) : q[i].do = "script" /\ n \in q[i].names
  BY BuildDue DEF BuildInv, BuildTypes
<1>2. /\ ~Build!Runs /\ buildEnded' = "no" /\ UNCHANGED <<platform, lookup, disk, temp, hashes, cut>>
      /\ buildRun' = [Build!NoRun EXCEPT !.FORCE = f, !.step = "start", !.queue = q]
  BY DEF Build!StartRun, Build!remote
<1>. HIDE DEF q
<1>3. DOMAIN buildRun' = Fields /\ buildRun'.queue = q /\ buildRun'.step = "start" /\ buildRun'.copied = 0
  BY <1>2 DEF Build!NoRun, Fields
<1>4. BuildTypes'
  BY <1>1, <1>2, <1>3 DEF BuildInv, BuildTypes, BuildRuns, Build!Names, Build!Bins
<1>5. SidecarsDone'
  <2>1. \A n \in Sidecars : Queued("sidecar", n)'
    BY <1>1, <1>3 DEF Queued
  <2>2. \A n \in Sidecars : ~InHand(n)
    BY <1>2 DEF InHand, Build!At, Build!Is
  <2>. QED BY <1>2, <2>1, <2>2 DEF BuildInv, SidecarsDone
<1>6. ServiceDone'
  <2>1. Queued("service", "service")' /\ ~Copying /\ ~Copying'
    BY <1>1, <1>2, <1>3 DEF Queued, Copying, Build!At, Build!Is
  <2>. QED BY <1>2, <2>1 DEF BuildInv, ServiceDone, Build!BundleExists, Build!exists, Build!Bins
<1>7. ScriptsDone'
  <2>1. platform = "darwin" => \A n \in Scripts : Queued("script", n)'
    BY <1>1, <1>3 DEF Queued
  <2>. QED BY <1>2, <2>1 DEF ScriptsDone
<1>. QED BY <1>4, <1>5, <1>6, <1>7 DEF BuildInv

LEMMA BuildLatest ==
  ASSUME BuildInv, Build!getLatestVersion
  PROVE  BuildInv'
<1>1. /\ Build!Runs /\ BuildTypes /\ buildRun.step = "start"
      /\ UNCHANGED <<platform, lookup, disk, temp, hashes, cut>>
  BY DEF Build!getLatestVersion, Build!remote, Build!At, Build!Is, BuildInv
<1>2. (\E v : Build!Versioned(v)) \/ (buildRun' = Build!NoRun /\ buildEnded' = "exit")
  BY DEF Build!getLatestVersion
<1>3. RunTyped' /\ Keeps /\ buildRun'.step \in {"", "resolve"}
  BY <1>1, <1>2, BuildVersioned, BuildStops
<1>. QED BY <1>1, <1>3, BuildQuiet, BuildSpares DEF BuildInv, BuildTypes, Build!At, Copying

LEMMA BuildSkip ==
  ASSUME BuildParameters, BuildInv, Build!Skip
  PROVE  BuildInv'
<1>1. /\ Build!Runs /\ BuildTypes /\ Build!runTask(Build!Rest) /\ buildRun.step \in {"start", "resolve"}
      /\ UNCHANGED <<platform, lookup, disk, temp, hashes, cut>>
  BY DEF Build!Skip, Build!remote, Build!At, Build!Is, BuildInv
<1>2. RunTyped' /\ Drops /\ GoesWell /\ buildRun'.step \in {"", "start"}
  BY <1>1, BuildDrops
<1>3. ~Build!At("sidecar", "unpacked") /\ ~Copying /\ ~Copying'
  BY <1>1, <1>2 DEF Build!At, Copying
<1>4. CASE Build!Task.do = "resource"
  <2>1. Spares("sidecar") /\ Spares("service") /\ Spares("script")
    BY <1>2, <1>4, BuildSpares
  <2>. QED BY <1>1, <1>2, <1>3, <2>1, BuildQuiet DEF BuildInv, BuildTypes
<1>5. CASE Build!Task.do = "sidecar"
  <2>1. Spares("service") /\ Spares("script")
    BY <1>2, <1>5, BuildSpares
  <2>2. Build!exists(Build!name)
    BY <1>5 DEF Build!Skip, Build!At, Build!Is
  <2>3. SidecarsDone'
    <3>. SUFFICES ASSUME NEW n \in Sidecars
         PROVE  /\ disk'[n].kind \in {"none", "whole", "partial"}
                /\ disk'[n].kind = "partial" => n \in cut' \/ InHand(n)'
                /\ GoesWell' => Queued("sidecar", n)' \/ disk'[n].kind = "whole" \/ n \in cut'
      BY DEF SidecarsDone
    <3>1. disk[n].kind \in {"none", "whole", "partial"} /\ (disk[n].kind = "partial" => n \in cut)
      BY <1>3 DEF BuildInv, SidecarsDone, InHand
    <3>2. Queued("sidecar", n)' \/ disk[n].kind = "whole" \/ n \in cut
      <4>1. CASE n = Build!name
        BY <2>2, <3>1, <4>1 DEF Build!exists
      <4>2. CASE n # Build!name
        BY <1>2, <4>2 DEF Drops, BuildInv, SidecarsDone
      <4>. QED BY <4>1, <4>2
    <3>. QED BY <1>1, <3>1, <3>2
  <2>4. ServiceDone'
    BY <1>1, <1>3, <2>1, ServiceKept DEF BuildInv
  <2>5. ScriptsDone'
    BY <1>1, <2>1, ScriptsKept DEF BuildInv
  <2>6. BuildTypes'
    BY <1>1, <1>2 DEF BuildTypes, RunTyped, Build!Names, Build!Bins
  <2>. QED BY <2>3, <2>4, <2>5, <2>6 DEF BuildInv
<1>6. CASE Build!Task.do = "service"
  <2>1. Spares("sidecar") /\ Spares("script")
    BY <1>2, <1>6, BuildSpares
  <2>2. Build!BundleExists
    BY <1>6 DEF Build!Skip, Build!At, Build!Is
  <2>3. SidecarsDone'
    BY <1>1, <1>3, <2>1, SidecarsKept DEF BuildInv
  <2>4. ServiceDone'
    <3>1. Build!BundleExists' /\ Build!Bins' = Build!Bins
      BY <1>1, <2>2 DEF Build!BundleExists, Build!exists, Build!Bins
    <3>. QED BY <1>1, <1>3, <2>2, <3>1 DEF BuildInv, ServiceDone
  <2>5. ScriptsDone'
    BY <1>1, <2>1, ScriptsKept DEF BuildInv
  <2>6. BuildTypes'
    BY <1>1, <1>2 DEF BuildTypes, RunTyped, Build!Names, Build!Bins
  <2>. QED BY <2>3, <2>4, <2>5, <2>6 DEF BuildInv
<1>. QED BY <1>4, <1>5, <1>6 DEF Build!Skip, Build!At, Build!Is

(* A step of the task of a sidecar, which touches no other file; rest says *)
(* that the task is left.                                                  *)
LEMMA BuildSidecar ==
  ASSUME BuildParameters, BuildInv, Build!Is("sidecar"), NEW x, x = Build!name,
         UNCHANGED <<platform, lookup, hashes>>, DOMAIN temp' = Sidecars, DOMAIN disk' = Build!Names,
         \A n \in Build!Names : n # x => disk'[n] = disk[n] /\ (n \in cut => n \in cut'),
         RunTyped', ~Copying',
         disk'[x].kind \in {"none", "whole", "partial"},
         disk'[x].kind = "partial" => x \in cut' \/ InHand(x)',
         \/ Keeps /\ (GoesWell' => Queued("sidecar", x)')
         \/ Drops /\ GoesWell /\ (disk'[x].kind = "whole" \/ x \in cut')
  PROVE  BuildInv'
<1>1. Build!Runs /\ Build!Task.do = "sidecar" /\ ~Copying
  BY DEF Build!Is, Copying, Build!At
<1>2. x \in Sidecars
  BY <1>1, BuildNameOf DEF BuildInv
<1>3. Spares("service") /\ Spares("script")
  BY <1>1, BuildSpares
<1>4. BuildTypes'
  BY DEF BuildInv, BuildTypes, RunTyped, Build!Names, Build!Bins
<1>5. SidecarsDone'
  <2>. SUFFICES ASSUME NEW n \in Sidecars, n # x
       PROVE  /\ disk'[n].kind \in {"none", "whole", "partial"}
              /\ disk'[n].kind = "partial" => n \in cut' \/ InHand(n)'
              /\ GoesWell' => Queued("sidecar", n)' \/ disk'[n].kind = "whole" \/ n \in cut'
    BY <1>2 DEF SidecarsDone
  <2>1. disk'[n] = disk[n] /\ (n \in cut => n \in cut')
    BY BuildNames
  <2>2. GoesWell' => GoesWell /\ (Queued("sidecar", n) => Queued("sidecar", n)')
    BY DEF Keeps, Drops
  <2>. QED BY <2>1, <2>2 DEF BuildInv, SidecarsDone, InHand
<1>6. ServiceDone'
  <2>1. \A n \in Build!Bins : disk'[n] = disk[n] /\ (n \in cut => n \in cut')
    BY <1>2, BuildNames
  <2>. QED BY <1>1, <1>3, <2>1, ServiceKept DEF BuildInv
<1>7. ScriptsDone'
  <2>1. \A n \in Scripts : disk'[n] = disk[n]
    BY <1>2, BuildNames
  <2>. QED BY <1>3, <2>1, ScriptsKept DEF BuildInv
<1>. QED BY <1>4, <1>5, <1>6, <1>7 DEF BuildInv

LEMMA BuildFetchSidecar ==
  ASSUME BuildParameters, BuildInv, Build!FetchSidecar
  PROVE  BuildInv'
<1>. PICK x : x = Build!name
  OBVIOUS
<1>1. /\ Build!Is("sidecar") /\ Build!Runs /\ BuildTypes /\ buildRun.step = "resolve" /\ Build!Task.do = "sidecar"
      /\ UNCHANGED <<platform, lookup, hashes, cut>>
  BY DEF Build!FetchSidecar, Build!remote, Build!At, Build!Is, BuildInv
<1>2. Build!name \in Sidecars /\ Build!name \in Build!Names
  BY <1>1, BuildNameOf, BuildNames
<1>3. CASE Build!Goes("unpack") /\ UNCHANGED disk
  <2>1. RunTyped' /\ Keeps /\ buildRun'.step = "unpack"
    BY <1>1, <1>3, BuildGoes
  <2>2. DOMAIN temp' = Sidecars
    BY <1>1, <1>3 DEF Build!FetchSidecar, BuildTypes
  <2>3. ~Build!At("sidecar", "unpacked") /\ ~Copying /\ ~Copying'
    BY <1>1, <2>1 DEF Build!At, Copying
  <2>. QED BY <1>1, <1>3, <2>1, <2>2, <2>3, BuildQuiet, BuildSpares DEF BuildTypes
<1>4. CASE temp' = [temp EXCEPT ![Build!name] = Build!None] /\ disk' = [disk EXCEPT ![Build!name] = Build!None] /\ Build!Throws
  <2>1. RunTyped' /\ Keeps /\ buildRun'.step \in {"", "start"} /\ Queued("sidecar", Build!name)
    BY <1>1, <1>4, BuildThrows, BuildTaskNow
  <2>2. /\ DOMAIN temp' = Sidecars /\ DOMAIN disk' = Build!Names /\ disk'[Build!name].kind = "none"
        /\ \A n \in Build!Names : n # Build!name => disk'[n] = disk[n]
    BY <1>1, <1>2, <1>4 DEF BuildTypes, Build!None, Build!File
  <2>3. ~Copying' /\ (GoesWell' => Queued("sidecar", x)')
    BY <2>1 DEF Build!At, Copying, Keeps
  <2>. QED BY <1>1, <2>1, <2>2, <2>3, BuildSidecar
<1>. QED BY <1>3, <1>4 DEF Build!FetchSidecar

LEMMA BuildUnpack ==
  ASSUME BuildParameters, BuildInv, Build!Unpack
  PROVE  BuildInv'
<1>. PICK x : x = Build!name
  OBVIOUS
<1>1. /\ Build!Is("sidecar") /\ Build!Runs /\ BuildTypes /\ buildRun.step = "unpack" /\ Build!Task.do = "sidecar"
      /\ UNCHANGED <<platform, lookup, hashes, cut, temp>> /\ Build!Goes("unpacked")
      /\ disk' = [disk EXCEPT ![Build!name] = Build!File("partial", buildRun.version)]
  BY DEF Build!Unpack, Build!remote, Build!At, Build!Is, BuildInv
<1>2. Build!name \in Sidecars /\ Build!name \in Build!Names
  BY <1>1, BuildNameOf, BuildNames
<1>3. RunTyped' /\ Keeps /\ buildRun'.step = "unpacked" /\ buildRun'.queue = buildRun.queue /\ Queued("sidecar", Build!name)
  BY <1>1, BuildGoes, BuildTaskNow
<1>4. /\ DOMAIN temp' = Sidecars /\ DOMAIN disk' = Build!Names /\ disk'[Build!name].kind = "partial"
      /\ \A n \in Build!Names : n # Build!name => disk'[n] = disk[n]
  BY <1>1, <1>2 DEF BuildTypes, Build!File
<1>5. ~Copying' /\ (GoesWell' => Queued("sidecar", x)')
  BY <1>3 DEF Build!At, Copying, Keeps
<1>6. InHand(x)'
  <2>1. Build!Task' = Build!Task /\ Build!Runs'
    BY <1>3, BuildNoRun DEF Build!Task, Build!Runs
  <2>. QED BY <1>1, <1>3, <2>1 DEF InHand, Build!At, Build!Is, Build!name
<1>. QED BY <1>1, <1>3, <1>4, <1>5, <1>6, BuildSidecar

LEMMA BuildUnpacked ==
  ASSUME BuildParameters, BuildInv, Build!Unpacked
  PROVE  BuildInv'
<1>1. /\ Build!Is("sidecar") /\ Build!Runs /\ BuildTypes /\ Build!Task.do = "sidecar"
      /\ UNCHANGED <<platform, lookup, hashes>> /\ Build!runTask(Build!Rest)
      /\ temp[Build!name].kind = "whole" /\ disk' = [disk EXCEPT ![Build!name] = temp[Build!name]]
      /\ temp' = [temp EXCEPT ![Build!name] = Build!None] /\ cut' = cut \ {Build!name}
  BY DEF Build!Unpacked, Build!remote, Build!At, Build!Is, BuildInv
<1>2. Build!name \in Sidecars /\ Build!name \in Build!Names
  BY <1>1, BuildNameOf, BuildNames
<1>3. RunTyped' /\ Drops /\ GoesWell /\ buildRun'.step \in {"", "start"}
  BY <1>1, BuildDrops
<1>4. /\ DOMAIN temp' = Sidecars /\ DOMAIN disk' = Build!Names /\ disk'[Build!name].kind = "whole"
      /\ \A n \in Build!Names : n # Build!name => disk'[n] = disk[n] /\ (n \in cut => n \in cut')
  BY <1>1, <1>2 DEF BuildTypes
<1>5. ~Copying'
  BY <1>3 DEF Build!At, Copying
<1>. QED BY <1>1, <1>3, <1>4, <1>5, BuildSidecar

LEMMA BuildUnpackFails ==
  ASSUME BuildParameters, BuildInv, Build!UnpackFails
  PROVE  BuildInv'
<1>. PICK x : x = Build!name
  OBVIOUS
<1>1. /\ Build!Is("sidecar") /\ Build!Runs /\ BuildTypes /\ Build!Task.do = "sidecar"
      /\ UNCHANGED <<platform, lookup, hashes, cut>> /\ Build!Throws
      /\ disk' = [disk EXCEPT ![Build!name] = Build!None] /\ temp' = [temp EXCEPT ![Build!name] = Build!None]
  BY DEF Build!UnpackFails, Build!remote, Build!At, Build!Is, BuildInv
<1>2. Build!name \in Sidecars /\ Build!name \in Build!Names
  BY <1>1, BuildNameOf, BuildNames
<1>3. RunTyped' /\ Keeps /\ buildRun'.step \in {"", "start"} /\ Queued("sidecar", Build!name)
  BY <1>1, BuildThrows, BuildTaskNow
<1>4. /\ DOMAIN temp' = Sidecars /\ DOMAIN disk' = Build!Names /\ disk'[Build!name].kind = "none"
      /\ \A n \in Build!Names : n # Build!name => disk'[n] = disk[n]
  BY <1>1, <1>2 DEF BuildTypes, Build!None, Build!File
<1>5. ~Copying' /\ (GoesWell' => Queued("sidecar", x)')
  BY <1>3 DEF Build!At, Copying, Keeps
<1>. QED BY <1>1, <1>3, <1>4, <1>5, BuildSidecar

LEMMA BuildCopied ==
  ASSUME BuildTypes, Build!Runs, buildRun.step = "copy",
         buildRun' = [buildRun EXCEPT !.copied = @ + 1], buildEnded' = buildEnded
  PROVE  /\ RunTyped' /\ Keeps /\ buildRun'.step = "copy" /\ buildRun'.version = buildRun.version
         /\ buildRun'.copied = buildRun.copied + 1 /\ buildRun'.queue = buildRun.queue /\ buildRun.copied \in Nat
<1>1. DOMAIN buildRun = Fields /\ buildEnded # "ok" /\ GoesWell /\ buildRun.queue \in Seq(BuildTasks) /\ buildRun.queue # <<>>
      /\ buildRun.copied \in Nat
  BY BuildTaskNow DEF GoesWell, BuildTypes, BuildRuns, Build!Runs
<1>2. /\ DOMAIN buildRun' = Fields /\ buildRun'.queue = buildRun.queue /\ buildRun'.step = "copy"
      /\ buildRun'.copied = buildRun.copied + 1 /\ buildRun'.version = buildRun.version
  BY <1>1 DEF Fields
<1>3. RunTyped'
  BY <1>1, <1>2 DEF RunTyped, BuildRuns
<1>4. Keeps
  BY <1>1, <1>2 DEF Keeps, Queued
<1>. QED BY <1>1, <1>2, <1>3, <1>4

LEMMA BuildBundle ==
  ASSUME BuildParameters, BuildInv, Build!resolveServiceBundle
  PROVE  BuildInv'
<1>1. /\ Build!Runs /\ BuildTypes /\ buildRun.step = "resolve" /\ Build!Task.do = "service"
      /\ UNCHANGED <<platform, lookup, disk, temp, hashes, cut>> /\ (Build!Goes("copy") \/ Build!Throws)
  BY DEF Build!resolveServiceBundle, Build!remote, Build!At, Build!Is, BuildInv
<1>2. RunTyped' /\ Keeps /\ (buildRun'.step = "copy" => buildRun'.copied = 0)
  BY <1>1, BuildGoes, BuildThrows
<1>3. Spares("sidecar") /\ Spares("script") /\ Spares("service")
  BY <1>2, BuildSpares
<1>4. ~Build!At("sidecar", "unpacked") /\ ~Copying /\ (Copying' => buildRun'.copied = 0)
  BY <1>1, <1>2 DEF Build!At, Copying
<1>5. SidecarsDone'
  BY <1>1, <1>3, <1>4, SidecarsKept DEF BuildInv
<1>6. ScriptsDone'
  BY <1>1, <1>3, ScriptsKept DEF BuildInv
<1>7. ServiceDone'
  <2>1. Build!BundleExists' = Build!BundleExists /\ 0 < Len(Binaries)
    BY <1>1, BuildNames DEF Build!BundleExists, Build!exists
  <2>2. Build!BundleExists /\ cut \cap Build!Bins = {} =>
          \A m, n \in Build!Bins : disk[m].kind = "whole" /\ disk[m] = disk[n]
    BY <1>4 DEF BuildInv, ServiceDone
  <2>3. GoesWell' => Queued("service", "service")' \/ Build!BundleExists'
    BY <1>3, <2>1 DEF BuildInv, ServiceDone, Spares
  <2>. QED BY <1>1, <1>4, <2>1, <2>2, <2>3 DEF ServiceDone, Build!Bins
<1>8. BuildTypes'
  BY <1>1, <1>2 DEF BuildTypes, RunTyped, Build!Names, Build!Bins
<1>. QED BY <1>5, <1>6, <1>7, <1>8 DEF BuildInv

LEMMA BuildCopyBinary ==
  ASSUME BuildParameters, BuildInv, Build!CopyBinary
  PROVE  BuildInv'
<1>. DEFINE b == Binaries[buildRun.copied + 1]
            w == Build!File("whole", buildRun.version)
<1>1. /\ Build!Runs /\ BuildTypes /\ buildRun.step = "copy" /\ Build!Task.do = "service" /\ Copying
      /\ UNCHANGED <<platform, lookup, temp, hashes>>
      /\ disk' = [disk EXCEPT ![b] = w] /\ cut' = cut \ {b}
  BY DEF Build!CopyBinary, Build!remote, Build!At, Build!Is, BuildInv, Copying
<1>2. buildRun.copied \in Nat /\ buildRun.copied < Len(Binaries)
      /\ \A i \in 1..buildRun.copied : disk[Binaries[i]] = w
  BY <1>1 DEF BuildInv, ServiceDone, BuildTypes, BuildRuns, Build!Runs
<1>3. b \in Build!Bins /\ b \in Build!Names /\ w.kind = "whole"
  BY <1>2, BuildNames DEF Build!File
<1>. HIDE DEF b
<1>4. /\ DOMAIN disk' = Build!Names /\ disk'[b] = w
      /\ \A n \in Build!Names : n # b => disk'[n] = disk[n] /\ (n \in cut => n \in cut')
  BY <1>1, <1>3 DEF BuildTypes
<1>. HIDE DEF w
<1>5. /\ \A n \in Sidecars : disk'[n] = disk[n] /\ (n \in cut => n \in cut')
      /\ \A n \in Scripts : disk'[n] = disk[n]
  BY <1>3, <1>4, BuildNames
<1>6. ~Build!At("sidecar", "unpacked")
  BY <1>1 DEF Build!At
<1>7. \A i \in 1..(buildRun.copied + 1) : disk'[Binaries[i]] = w
  <2>. SUFFICES ASSUME NEW i \in 1..(buildRun.copied + 1), Binaries[i] # b PROVE disk'[Binaries[i]] = w
    BY <1>4
  <2>1. i \in 1..buildRun.copied
    BY <1>2 DEF b
  <2>2. Binaries[i] \in Build!Names
    BY <1>2, <2>1, BuildNames
  <2>. QED BY <1>2, <1>4, <2>1, <2>2
<1>8. CASE buildRun.copied + 1 = Len(Binaries) /\ Build!runTask(Build!Rest)
  <2>1. RunTyped' /\ Drops /\ GoesWell /\ buildRun'.step \in {"", "start"}
    BY <1>1, <1>8, BuildDrops
  <2>2. Spares("sidecar") /\ Spares("script")
    BY <1>1, <2>1, BuildSpares
  <2>3. SidecarsDone' /\ ScriptsDone'
    BY <1>1, <1>5, <1>6, <2>2, SidecarsKept, ScriptsKept DEF BuildInv
  <2>4. \A n \in Build!Bins : disk'[n] = w
    BY <1>7, <1>8, BuildNames
  <2>5. Build!BundleExists' /\ ~Copying'
    BY <1>3, <2>1, <2>4 DEF Build!BundleExists, Build!exists, Build!Bins, Copying, Build!At
  <2>6. ServiceDone'
    BY <1>3, <2>4, <2>5 DEF ServiceDone, Build!Bins
  <2>7. BuildTypes'
    BY <1>1, <1>4, <2>1 DEF BuildTypes, RunTyped, Build!Names, Build!Bins
  <2>. QED BY <2>3, <2>6, <2>7 DEF BuildInv
<1>9. CASE buildRun.copied + 1 # Len(Binaries) /\ buildRun' = [buildRun EXCEPT !.copied = @ + 1] /\ buildEnded' = buildEnded
  <2>1. /\ RunTyped' /\ Keeps /\ buildRun'.step = "copy" /\ buildRun'.version = buildRun.version
        /\ buildRun'.copied = buildRun.copied + 1 /\ buildRun'.queue = buildRun.queue
    BY <1>1, <1>9, BuildCopied
  <2>2. Spares("sidecar") /\ Spares("script") /\ Spares("service")
    BY <2>1, BuildSpares
  <2>3. SidecarsDone' /\ ScriptsDone'
    BY <1>1, <1>5, <1>6, <2>2, SidecarsKept, ScriptsKept DEF BuildInv
  <2>4. Build!BundleExists => Build!BundleExists'
    BY <1>3, <1>4 DEF Build!BundleExists, Build!exists, Build!Bins, Build!Names
  <2>5. Copying' /\ buildRun'.copied # 0 /\ buildRun'.copied < Len(Binaries)
    <3>1. Build!Task' = Build!Task /\ Build!Runs'
      BY <2>1, BuildNoRun DEF Build!Task, Build!Runs
    <3>2. Len(Binaries) \in Nat
      BY BuildNames
    <3>. QED BY <1>1, <1>2, <1>9, <2>1, <3>1, <3>2 DEF Copying, Build!At, Build!Is
  <2>6. \A i \in 1..buildRun'.copied : disk'[Binaries[i]] = Build!File("whole", buildRun'.version)
    BY <1>7, <2>1 DEF w
  <2>7. GoesWell' => Queued("service", "service")' \/ Build!BundleExists'
    BY <2>2, <2>4 DEF BuildInv, ServiceDone, Spares
  <2>8. ServiceDone'
    BY <2>5, <2>6, <2>7 DEF ServiceDone, Build!File
  <2>9. BuildTypes'
    BY <1>1, <1>4, <2>1 DEF BuildTypes, RunTyped, Build!Names, Build!Bins
  <2>. QED BY <2>3, <2>8, <2>9 DEF BuildInv
<1>. QED BY <1>8, <1>9 DEF Build!CopyBinary

LEMMA BuildCopyFails ==
  ASSUME BuildParameters, BuildInv, Build!CopyFails
  PROVE  BuildInv'
<1>1. /\ Build!Runs /\ BuildTypes /\ buildRun.step = "copy" /\ Build!Task.do = "service"
      /\ UNCHANGED <<platform, lookup, disk, temp, hashes>> /\ Build!Throws
      /\ cut' = IF Build!BundleExists THEN cut \cup Build!Bins ELSE cut
  BY DEF Build!CopyFails, Build!remote, Build!At, Build!Is, BuildInv, Build!BundleExists
<1>2. RunTyped' /\ Keeps /\ buildRun'.step \in {"", "start"}
  BY <1>1, BuildThrows
<1>3. Spares("sidecar") /\ Spares("script") /\ Spares("service")
  BY <1>2, BuildSpares
<1>4. ~Build!At("sidecar", "unpacked") /\ ~Copying'
  BY <1>1, <1>2 DEF Build!At, Copying
<1>5. SidecarsDone' /\ ScriptsDone'
  BY <1>1, <1>3, <1>4, SidecarsKept, ScriptsKept DEF BuildInv
<1>6. ServiceDone'
  <2>1. Build!BundleExists' = Build!BundleExists /\ Build!Bins' = Build!Bins /\ Build!Bins # {}
    BY <1>1, BuildNames DEF Build!BundleExists, Build!exists, Build!Bins
  <2>2. Build!BundleExists' => cut' \cap Build!Bins # {}
    BY <1>1, <2>1
  <2>3. GoesWell' => Queued("service", "service")' \/ Build!BundleExists'
    BY <1>3, <2>1 DEF BuildInv, ServiceDone, Spares
  <2>. QED BY <1>4, <2>1, <2>2, <2>3 DEF ServiceDone
<1>7. BuildTypes'
  BY <1>1, <1>2 DEF BuildTypes, RunTyped, Build!Names, Build!Bins
<1>. QED BY <1>5, <1>6, <1>7 DEF BuildInv

LEMMA BuildResource ==
  ASSUME BuildParameters, BuildInv, Build!resolveResource
  PROVE  BuildInv'
<1>1. /\ Build!Runs /\ BuildTypes /\ Build!Task.do = "resource" /\ Build!Is("resource")
      /\ UNCHANGED <<platform, lookup, temp, hashes>> /\ (Build!Throws \/ Build!runTask(Build!Rest))
      /\ DOMAIN disk' = DOMAIN disk
      /\ \A n \in DOMAIN disk : n # Build!name => disk'[n] = disk[n] /\ (n \in cut => n \in cut')
  BY DEF Build!resolveResource, Build!remote, Build!Is, BuildInv
<1>2. Build!name \in Resources
  BY <1>1, BuildNameOf
<1>3. RunTyped' /\ buildRun'.step \in {"", "start"} /\ (Keeps \/ (Drops /\ GoesWell))
  BY <1>1, BuildThrows, BuildDrops
<1>4. Spares("sidecar") /\ Spares("script") /\ Spares("service")
  BY <1>1, <1>3, BuildSpares
<1>5. ~Build!At("sidecar", "unpacked") /\ ~Copying /\ ~Copying'
  BY <1>1, <1>3 DEF Build!At, Copying, Build!Is
<1>6. /\ \A n \in Sidecars : disk'[n] = disk[n] /\ (n \in cut => n \in cut')
      /\ \A n \in Build!Bins : disk'[n] = disk[n] /\ (n \in cut => n \in cut')
      /\ \A n \in Scripts : disk'[n] = disk[n]
  BY <1>1, <1>2, BuildNames DEF BuildTypes
<1>7. SidecarsDone' /\ ServiceDone' /\ ScriptsDone'
  BY <1>1, <1>4, <1>5, <1>6, SidecarsKept, ServiceKept, ScriptsKept DEF BuildInv
<1>8. BuildTypes'
  BY <1>1, <1>3 DEF BuildTypes, RunTyped, Build!Names, Build!Bins
<1>. QED BY <1>7, <1>8 DEF BuildInv

LEMMA BuildCopyScript ==
  ASSUME BuildParameters, BuildInv, Build!CopyScript
  PROVE  BuildInv'
<1>1. /\ Build!Runs /\ BuildTypes /\ Build!Task.do = "script" /\ Build!Is("script")
      /\ UNCHANGED <<platform, lookup, temp>> /\ Build!runTask(Build!Rest)
      /\ IF Build!hasFileChanged(Build!name)
         THEN /\ disk' = [disk EXCEPT ![Build!name] = Build!File("whole", lookup)]
              /\ hashes' = [hashes EXCEPT ![Build!name] = Build!File("whole", lookup)] /\ cut' = cut \ {Build!name}
         ELSE UNCHANGED <<disk, hashes, cut>>
  BY DEF Build!CopyScript, Build!remote, Build!Is, BuildInv
<1>2. Build!name \in Scripts /\ Build!name \in Build!Names
  BY <1>1, BuildNameOf, BuildNames
<1>3. /\ DOMAIN disk' = DOMAIN disk /\ DOMAIN hashes' = Scripts
      /\ \A n \in DOMAIN disk : n # Build!name => disk'[n] = disk[n] /\ (n \in cut => n \in cut')
  BY <1>1 DEF BuildTypes
<1>4. disk'[Build!name] = Build!File("whole", lookup)
  <2>1. CASE Build!hasFileChanged(Build!name)
    BY <1>1, <1>2, <2>1 DEF BuildTypes
  <2>2. CASE ~Build!hasFileChanged(Build!name)
    BY <1>1, <2>2 DEF Build!hasFileChanged
  <2>. QED BY <2>1, <2>2
<1>5. RunTyped' /\ buildRun'.step \in {"", "start"} /\ Drops /\ GoesWell
  BY <1>1, BuildDrops
<1>6. Spares("sidecar") /\ Spares("service")
  BY <1>1, <1>5, BuildSpares
<1>7. ~Build!At("sidecar", "unpacked") /\ ~Copying /\ ~Copying'
  BY <1>1, <1>5 DEF Build!At, Copying, Build!Is
<1>8. /\ \A n \in Sidecars : disk'[n] = disk[n] /\ (n \in cut => n \in cut')
      /\ \A n \in Build!Bins : disk'[n] = disk[n] /\ (n \in cut => n \in cut')
      /\ \A n \in Scripts : n # Build!name => disk'[n] = disk[n]
  BY <1>2, <1>3, BuildNames DEF BuildInv, BuildTypes
<1>9. SidecarsDone' /\ ServiceDone'
  BY <1>6, <1>7, <1>8, SidecarsKept, ServiceKept DEF BuildInv
<1>10. ScriptsDone'
  <2>. SUFFICES ASSUME platform = "darwin", NEW n \in Scripts
       PROVE  Queued("script", n)' \/ disk'[n] = Build!File("whole", lookup)
    BY <1>1 DEF ScriptsDone, Build!File
  <2>1. CASE n = Build!name
    BY <1>4, <2>1
  <2>2. CASE n # Build!name
    <3>1. Queued("script", n) => Queued("script", n)'
      BY <1>5, <2>2 DEF Drops
    <3>. QED BY <1>5, <1>8, <2>2, <3>1 DEF BuildInv, ScriptsDone
  <2>. QED BY <2>1, <2>2
<1>11. BuildTypes'
  BY <1>1, <1>3, <1>5 DEF BuildTypes, RunTyped, Build!Names, Build!Bins
<1>. QED BY <1>9, <1>10, <1>11 DEF BuildInv

LEMMA BuildStopped ==
  ASSUME BuildParameters, BuildInv, Build!Stopped
  PROVE  BuildInv'
<1>1. /\ Build!Runs /\ BuildTypes /\ UNCHANGED <<platform, lookup, hashes>>
      /\ buildRun' = Build!NoRun /\ buildEnded' = "no"
      /\ cut' = cut \cup {n \in Build!Names : disk'[n].kind = "partial"}
                    \cup (IF Build!At("service", "copy") /\ \A n \in Build!Bins : disk'[n].kind # "none" THEN Build!Bins ELSE {})
  BY DEF Build!Stopped, Build!remote, BuildInv
<1>2. RunTyped' /\ ~Build!Runs' /\ ~GoesWell' /\ ~Copying'
  BY <1>1, BuildStops DEF GoesWell, Copying, Build!At, Build!Is
<1>3. /\ DOMAIN disk' = DOMAIN disk /\ DOMAIN temp' = DOMAIN temp
      /\ \A n \in Sidecars : disk'[n] = disk[n]
      /\ Copying \/ \A n \in Build!Bins : disk'[n] = disk[n]
  <2>1. CASE UNCHANGED <<disk, temp>>
    BY <2>1
  <2>2. CASE Copying /\ UNCHANGED temp /\ disk' = [disk EXCEPT ![Binaries[buildRun.copied + 1]] = Build!File("partial", buildRun.version)]
    <3>1. Binaries[buildRun.copied + 1] \in Build!Bins
      <4>1. buildRun.copied \in Nat /\ buildRun.copied < Len(Binaries)
        BY <1>1, <2>2 DEF BuildInv, ServiceDone, BuildTypes, BuildRuns, Build!Runs
      <4>. QED BY <4>1, BuildNames
    <3>. QED BY <2>2, <3>1, BuildNames
  <2>3. CASE Build!Is("resource") /\ UNCHANGED temp /\ disk' = [disk EXCEPT ![Build!name] = Build!File("partial", released)]
    <3>1. Build!name \in Resources
      BY <1>1, <2>3, BuildNameOf
    <3>. QED BY <2>3, <3>1, BuildNames DEF BuildTypes
  <2>4. CASE UNCHANGED disk /\ temp' = [temp EXCEPT ![Build!name] = Build!File("partial", buildRun.version)]
    BY <2>4
  <2>. QED BY <2>1, <2>2, <2>3, <2>4 DEF Build!Stopped, Copying
<1>4. BuildTypes'
  BY <1>1, <1>2, <1>3 DEF BuildTypes, RunTyped, Build!Names, Build!Bins
<1>5. SidecarsDone'
  BY <1>1, <1>2, <1>3, BuildNames DEF BuildInv, SidecarsDone
<1>6. ServiceDone'
  <2>1. CASE Copying
    <3>1. Build!BundleExists' => cut' \cap Build!Bins # {}
      BY <1>1, <2>1, BuildNames DEF Copying, Build!BundleExists, Build!exists, Build!Bins
    <3>. QED BY <1>2, <3>1 DEF ServiceDone, Build!Bins
  <2>2. CASE ~Copying
    <3>1. Build!BundleExists' = Build!BundleExists
      BY <1>3, <2>2 DEF Build!BundleExists, Build!exists, Build!Bins
    <3>2. cut' \cap Build!Bins = {} => cut \cap Build!Bins = {}
      BY <1>1
    <3>3. Build!BundleExists' /\ cut' \cap Build!Bins = {} =>
            \A m, n \in Build!Bins : disk'[m].kind = "whole" /\ disk'[m] = disk'[n]
      BY <1>3, <2>2, <3>1, <3>2 DEF BuildInv, ServiceDone
    <3>. QED BY <1>2, <3>3 DEF ServiceDone, Build!Bins
  <2>. QED BY <2>1, <2>2
<1>7. ScriptsDone'
  BY <1>2 DEF ScriptsDone
<1>. QED BY <1>4, <1>5, <1>6, <1>7 DEF BuildInv

LEMMA BuildWorld ==
  ASSUME BuildParameters, BuildInv, Build!HourPasses \/ Build!Release
  PROVE  BuildInv'
<1>1. ~Build!Runs /\ BuildTypes /\ UNCHANGED <<platform, disk, temp, hashes, buildRun, cut>>
      /\ (GoesWell' => GoesWell /\ lookup' = lookup) /\ (buildEnded' = "ok" => buildEnded = "ok")
  BY DEF Build!HourPasses, Build!Release, Build!remote, BuildInv, GoesWell, Build!Runs
<1>2. Spares("sidecar") /\ Spares("script") /\ Spares("service") /\ RunTyped'
  BY <1>1 DEF Spares, Queued, RunTyped, BuildTypes, BuildRuns
<1>3. ~Build!At("sidecar", "unpacked") /\ ~Copying /\ ~Copying'
  BY <1>1 DEF Build!At, Copying, Build!Is, Build!Runs
<1>4. SidecarsDone' /\ ServiceDone' /\ ScriptsDone'
  BY <1>1, <1>2, <1>3, SidecarsKept, ServiceKept, ScriptsKept DEF BuildInv
<1>5. BuildTypes'
  BY <1>1, <1>2 DEF BuildTypes, RunTyped, Build!Names, Build!Bins
<1>. QED BY <1>4, <1>5 DEF BuildInv

LEMMA BuildStep ==
  ASSUME BuildParameters, BuildInv, [Build!Next]_Build!vars
  PROVE  BuildInv'
<1>1. CASE UNCHANGED Build!vars
  <2>1. UNCHANGED <<platform, lookup, disk, temp, hashes, buildRun, buildEnded, cut>>
    BY <1>1 DEF Build!vars, Build!remote
  <2>2. BuildTypes'
    BY <2>1 DEF BuildInv, BuildTypes, BuildRuns, Build!Names, Build!Bins
  <2>3. Build!Task' = Build!Task /\ Build!Runs' = Build!Runs /\ Build!name' = Build!name
        /\ Build!BundleExists' = Build!BundleExists /\ Copying' = Copying /\ GoesWell' = GoesWell
    BY <2>1 DEF Build!Task, Build!Runs, Build!name, Build!BundleExists, Build!exists, Copying, Build!At, Build!Is, GoesWell
  <2>4. /\ \A do, n : Queued(do, n)' = Queued(do, n)
        /\ \A n : InHand(n)' = InHand(n)
    BY <2>1, <2>3 DEF Queued, InHand, Build!At, Build!Is
  <2>5. SidecarsDone'
    BY <2>1, <2>3, <2>4 DEF BuildInv, SidecarsDone
  <2>6. ServiceDone'
    BY <2>1, <2>3, <2>4 DEF BuildInv, ServiceDone, Build!Bins, Build!File
  <2>7. ScriptsDone'
    BY <2>1, <2>3, <2>4 DEF BuildInv, ScriptsDone, Build!File
  <2>. QED BY <2>2, <2>5, <2>6, <2>7 DEF BuildInv
<1>. QED BY <1>1, BuildStart, BuildLatest, BuildSkip, BuildFetchSidecar, BuildUnpack, BuildUnpacked, BuildUnpackFails,
            BuildBundle, BuildCopyBinary, BuildCopyFails, BuildResource, BuildCopyScript, BuildStopped, BuildWorld DEF Build!Next

LEMMA BuildHolds ==
  BuildParameters =>
    (Build!Init /\ [][Build!Next]_Build!vars => [](Build!SidecarsWhole /\ Build!OneService /\ Build!ScriptsCurrent))
<1>. SUFFICES ASSUME BuildParameters
     PROVE  Build!Init /\ [][Build!Next]_Build!vars => [](Build!SidecarsWhole /\ Build!OneService /\ Build!ScriptsCurrent)
  OBVIOUS
<1>1. BuildInv => Build!SidecarsWhole /\ Build!OneService /\ Build!ScriptsCurrent
  <2>. SUFFICES ASSUME BuildInv, buildEnded = "ok" PROVE Build!SidecarsWhole /\ Build!OneService /\ Build!ScriptsCurrent
    BY DEF Build!SidecarsWhole, Build!OneService, Build!ScriptsCurrent
  <2>1. GoesWell /\ buildRun = Build!NoRun /\ ~Copying
    BY DEF BuildInv, BuildTypes, GoesWell, Copying, Build!At, Build!Is, Build!Runs
  <2>2. \A do, n : ~Queued(do, n)
    <3>1. Len(buildRun.queue) = 0
      BY <2>1, BuildNoRun, Zenon
    <3>2. 1..0 = {}
      OBVIOUS
    <3>. QED BY <3>1, <3>2 DEF Queued
  <2>3. Build!SidecarsWhole
    BY <2>1, <2>2 DEF BuildInv, SidecarsDone, Build!SidecarsWhole
  <2>4. Build!OneService
    BY <2>1, <2>2 DEF BuildInv, ServiceDone, Build!OneService
  <2>5. Build!ScriptsCurrent
    BY <2>1, <2>2 DEF BuildInv, ScriptsDone, Build!ScriptsCurrent
  <2>. QED BY <2>3, <2>4, <2>5
<1>. QED BY <1>1, BuildInit, BuildStep, PTL

(* After a build script that ended well, whatever runs were stopped or     *)
(* failed before it: the binaries are whole unless a stopped run left them *)
(* half, those of the service are of one release unless a run ended among  *)
(* them, and the scripts are those of the sources.                         *)
THEOREM BuildKeeps == BuildParameters => (Build!Spec => [](Build!SidecarsWhole /\ Build!OneService /\ Build!ScriptsCurrent))
  BY BuildHolds, PTL DEF Build!Spec
===============================================================================
