------------------------------- MODULE AutoBackup -------------------------------
(***************************************************************************)
(* Automatic backups (src/src-tauri/src/module/auto_backup.rs): the        *)
(* settings, which every change of the application's settings loads again  *)
(* and sends to the scheduler's task over a watch channel; the scheduler;  *)
(* and execute_trigger, which the scheduler and the saves of the global    *)
(* merge and script files call at once.                                    *)
(*                                                                         *)
(* The scheduler's sleep may end at any moment: its interval is left out,  *)
(* only the minimum between two backups is measured.  The clock of the     *)
(* system does not go back.  What is in a backup is left out.              *)
(***************************************************************************)
EXTENDS Naturals, FiniteSets

CONSTANTS Refreshes, Savers,         \* calls of refresh_settings, saves of a global file
          MIN_BACKUP_INTERVAL_SECS, AUTO_BACKUP_KEEP,
          MaxChanges, MaxTime        \* bounds on changes of the settings, on the clock

AutoBackupSettings == [schedule_enabled : BOOLEAN, change_enabled : BOOLEAN]
Default == [schedule_enabled |-> FALSE, change_enabled |-> TRUE]
Scheduled == "scheduled"
Tasks == Savers \cup {Scheduled}

VARIABLES verge,          \* what latest_arc() of the application's settings says
          settings,       \* what execute_trigger reads
          channel,        \* the value of the watch channel
          step, loaded,   \* of each refresh: where it is, what it has loaded
          runner_started,
          runner, current, unseen, \* the scheduler: what it does, its settings; the channel has changed
          pc, exec_lock,  \* of each trigger: where it is; which of them holds the lock
          last_backup, files,     \* files: <<when, TRUE>> automatic, <<0, FALSE>> the user's own
          now,
          made, crossed, count    \* history: times of the automatic ones; two refreshes crossed

settingsVars == <<settings, channel, step, loaded, runner_started>>
runnerVars == <<runner, current, unseen>>
backupVars == <<pc, exec_lock, last_backup, files, made>>
vars == <<verge, settingsVars, runnerVars, backupVars, now, crossed, count>>

Init ==
  /\ verge \in AutoBackupSettings /\ settings = Default
  /\ channel = Default
  /\ step = [r \in Refreshes |-> "idle"] /\ loaded = [r \in Refreshes |-> Default]
  /\ runner_started = FALSE /\ runner = "none" /\ current = Default /\ unseen = FALSE
  /\ pc = [t \in Tasks |-> "idle"] /\ exec_lock = "free"
  /\ last_backup = 0 /\ files = {<<0, FALSE>>} /\ made = {}
  /\ now = 1 /\ crossed = TRUE /\ count = 0

-------------------------------------------------------------------------------
(* Settings.                                                               *)
Change ==
  /\ count < MaxChanges /\ count' = count + 1
  /\ verge' \in AutoBackupSettings \ {verge} /\ crossed' = TRUE
  /\ UNCHANGED <<settingsVars, runnerVars, backupVars, now>>

(* refresh_settings; init is the first of them.  load_settings awaits.     *)
LoadSettings(r) ==
  /\ step[r] = "idle" /\ step' = [step EXCEPT ![r] = "write"]
  /\ loaded' = [loaded EXCEPT ![r] = verge]
  /\ crossed' = (\E q \in Refreshes : step[q] # "idle")
  /\ UNCHANGED <<verge, settings, channel, runner_started, runnerVars, backupVars, now, count>>

WriteSettings(r) ==
  /\ step[r] = "write" /\ step' = [step EXCEPT ![r] = "send"]
  /\ settings' = loaded[r]
  /\ UNCHANGED <<verge, channel, loaded, runner_started, runnerVars, backupVars, now, crossed, count>>

(* send() marks the value as changed also when it is the same.             *)
Send(r) ==
  /\ step[r] = "send" /\ step' = [step EXCEPT ![r] = "start"]
  /\ channel' = loaded[r] /\ unseen' = runner_started
  /\ UNCHANGED <<verge, settings, loaded, runner_started, runner, current, backupVars, now, crossed, count>>

(* maybe_start_runner, ensure_runner: the first one subscribes, to what    *)
(* comes after.                                                            *)
ensure_runner(r) ==
  /\ step[r] = "start" /\ step' = [step EXCEPT ![r] = "idle"]
  /\ loaded' = [loaded EXCEPT ![r] = Default]
  /\ IF loaded[r].schedule_enabled /\ ~runner_started
     THEN runner_started' = TRUE /\ runner' = "begins" /\ UNCHANGED <<current, unseen>>
     ELSE UNCHANGED <<runner_started, runnerVars>>
  /\ UNCHANGED <<verge, settings, channel, backupVars, now, crossed, count>>

-------------------------------------------------------------------------------
(* run_scheduler.                                                          *)
WaitsFor(s) == IF s.schedule_enabled THEN "sleeps" ELSE "waits"

RunnerBegins ==
  /\ runner = "begins"
  /\ current' = channel /\ runner' = WaitsFor(channel)
  /\ UNCHANGED <<verge, settingsVars, unseen, backupVars, now, crossed, count>>

(* rx.changed(), while it waits and in select!.                            *)
BugChanged ==
  /\ runner \in {"waits", "sleeps"} /\ unseen
  /\ unseen' = FALSE
  /\ IF runner = "waits" THEN current' = channel /\ runner' = WaitsFor(channel)
     ELSE UNCHANGED <<current, runner>>
  /\ UNCHANGED <<verge, settingsVars, backupVars, now, crossed, count>>

Changed ==
  /\ runner \in {"waits", "sleeps"} /\ unseen
  /\ unseen' = FALSE /\ current' = channel /\ runner' = WaitsFor(channel)
  /\ UNCHANGED <<verge, settingsVars, backupVars, now, crossed, count>>

-------------------------------------------------------------------------------
(* execute_trigger.                                                        *)
Enabled(t) == IF t = Scheduled THEN settings.schedule_enabled ELSE settings.change_enabled

ShouldRunNow == last_backup = 0 \/ now >= last_backup + MIN_BACKUP_INTERVAL_SECS

(* A trigger goes on; the scheduler's task waits again when its own ends.  *)
Goes(t, where) ==
  /\ pc' = [pc EXCEPT ![t] = where]
  /\ runner' = IF t = Scheduled THEN IF where = "idle" THEN WaitsFor(current) ELSE "runs" ELSE runner
  /\ UNCHANGED <<current, unseen, settingsVars>>

(* The sleep is over, or a global file was saved.                          *)
Trigger(t) ==
  /\ pc[t] = "idle" /\ (t = Scheduled => runner = "sleeps")
  /\ Enabled(t) /\ ShouldRunNow
  /\ Goes(t, "lock")
  /\ UNCHANGED <<verge, exec_lock, last_backup, files, made, now, crossed, count>>

BugLock(t) ==
  /\ pc[t] = "lock" /\ exec_lock = "free"
  /\ exec_lock' = t /\ Goes(t, "create")
  /\ UNCHANGED <<verge, last_backup, files, made, now, crossed, count>>

Lock(t) ==
  /\ pc[t] = "lock" /\ exec_lock = "free"
  /\ IF ShouldRunNow THEN exec_lock' = t /\ Goes(t, "create") ELSE Goes(t, "idle") /\ UNCHANGED exec_lock
  /\ UNCHANGED <<verge, last_backup, files, made, now, crossed, count>>

(* create_local_backup_with_namer.                                         *)
Create(t) ==
  /\ pc[t] = "create" /\ Goes(t, "store")
  /\ files' = files \cup {<<now, TRUE>>} /\ made' = made \cup {now}
  /\ UNCHANGED <<verge, exec_lock, last_backup, now, crossed, count>>

CreateFails(t) ==
  /\ pc[t] = "create" /\ Goes(t, "idle") /\ exec_lock' = "free"
  /\ UNCHANGED <<verge, last_backup, files, made, now, crossed, count>>

Store(t) ==
  /\ pc[t] = "store" /\ Goes(t, "clean")
  /\ last_backup' = now
  /\ UNCHANGED <<verge, exec_lock, files, made, now, crossed, count>>

Autos == {f[1] : f \in {g \in files : g[2]}}

BugCleanup(t) ==
  /\ pc[t] = "clean" /\ Goes(t, "idle") /\ exec_lock' = "free"
  /\ files' = {f \in files : f[2] => Cardinality({a \in Autos : a < f[1]}) < AUTO_BACKUP_KEEP}
  /\ UNCHANGED <<verge, last_backup, made, now, crossed, count>>

(* cleanup_auto_backups: of the files with the marker the newest stay.     *)
cleanup_auto_backups(t) ==
  /\ pc[t] = "clean" /\ Goes(t, "idle") /\ exec_lock' = "free"
  /\ files' = {f \in files : f[2] => Cardinality({a \in Autos : a > f[1]}) < AUTO_BACKUP_KEEP}
  /\ UNCHANGED <<verge, last_backup, made, now, crossed, count>>

CleanupFails(t) ==
  /\ pc[t] = "clean" /\ Goes(t, "idle") /\ exec_lock' = "free"
  /\ UNCHANGED <<verge, last_backup, files, made, now, crossed, count>>

TimePasses ==
  /\ now < MaxTime /\ now' = now + 1
  /\ UNCHANGED <<verge, settingsVars, runnerVars, backupVars, crossed, count>>

Next ==
  \/ Change \/ RunnerBegins \/ Changed \/ TimePasses
  \/ \E r \in Refreshes : LoadSettings(r) \/ WriteSettings(r) \/ Send(r) \/ ensure_runner(r)
  \/ \E t \in Tasks : Trigger(t) \/ Lock(t) \/ Create(t) \/ CreateFails(t) \/ Store(t)
                      \/ cleanup_auto_backups(t) \/ CleanupFails(t)

(* The task and a backup go on.                                            *)
Progress ==
  \/ RunnerBegins
  \/ \E t \in Tasks : Lock(t) \/ Create(t) \/ Store(t) \/ cleanup_auto_backups(t)

Spec == Init /\ [][Next]_vars

-------------------------------------------------------------------------------
(* Two automatic backups are at least the minimum apart, however many      *)
(* triggers come at once.                                                  *)
Spaced == \A a, b \in made : a < b => b - a >= MIN_BACKUP_INTERVAL_SECS

(* Those that were removed are older than those that are there, of which   *)
(* at least the number to keep, or all that were made, are; the user's own *)
(* backup stays.                                                           *)
LastAreKept ==
  /\ <<0, FALSE>> \in files
  /\ \A gone \in made \ Autos, kept \in Autos : gone < kept
  /\ Cardinality(made) >= AUTO_BACKUP_KEEP => Cardinality(Autos) >= AUTO_BACKUP_KEEP
  /\ Cardinality(made) <= AUTO_BACKUP_KEEP => Autos = made

(* The scheduler and the triggers have the settings of the last refresh,   *)
(* unless two of them crossed.                                             *)
SettingsFollow ==
  (\A r \in Refreshes : step[r] = "idle") /\ ~crossed =>
    /\ settings = verge /\ channel = verge
    /\ verge.schedule_enabled => runner_started
    /\ runner \in {"waits", "sleeps"} /\ ~unseen => current = verge

(* The scheduler hears of a change, in the end.                            *)
Unheard == runner # "none" /\ unseen
==================================================================================
