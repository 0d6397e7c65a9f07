----------------------------- MODULE ConfigUpdate -----------------------------
(***************************************************************************)
(* The configuration pipeline of the Tauri backend: a request generates    *)
(* the runtime configuration from the profile in force, has the core       *)
(* validate it, writes it to the run file, reloads or restarts the core    *)
(* and commits it (core/manager/config.rs), and the command that switches  *)
(* profiles drives that pipeline under a 30 s timeout (cmd/profile.rs).    *)
(*                                                                         *)
(* A configuration is abstracted to the profile it was generated from and  *)
(* whether a runtime edit (proxy chain, clash patch, DNS) changed it since.*)
(* The state starts where booting leaves it: the core runs the generated   *)
(* configuration, which is still only a draft of Config::runtime().        *)
(*                                                                         *)
(* An operator named BugX is X with a plausible mistake in it: no action   *)
(* uses it, it is there to see which property notices the mistake.         *)
(*                                                                         *)
(* Kinds of request (Ops):                                                 *)
(*   switch   patch_profiles_config                                        *)
(*   update   update_config_forced / update_config_checked                 *)
(*   auto     update_config_with_force(false), subject to the debounce     *)
(*   chain    update_runtime_config: edits the draft inside the guard      *)
(*   patch    patch_clash, apply_dns_config: edit the draft, then update   *)
(*   restart  the restart_core command, outside the guard                  *)
(*   regen    patch_clash of the controller: generate, then restart        *)
(***************************************************************************)
CONSTANTS Tasks, Profiles, None,
  Accepted,   \* the configurations the core's check accepts
  Ops,        \* the kinds of request that each task makes
  TimesOut    \* whether the switch's timeout may strike

Config == [from : Profiles, edited : BOOLEAN]

AllOps == {"switch", "update", "auto", "chain", "patch", "restart", "regen"}

GuardedOps == {"switch", "update", "auto", "chain", "patch"}

ASSUME ConfigUpdateAssumption ==
  /\ None \notin Profiles \cup Config
  /\ Accepted \subseteq Config
  /\ Ops \in [Tasks -> SUBSET AllOps]
  /\ TimesOut \in BOOLEAN

VARIABLES
  profile, profileDraft,  \* Config::profiles(): current, committed and draft
  runtime, runtimeDraft,  \* Config::runtime(), committed and draft
  runFile,                \* the run file the core is started with
  core,                   \* the configuration the core runs, None: stopped
  inProgress,             \* config_update_in_progress
  switching,              \* CURRENT_SWITCHING_PROFILE
  recent,                 \* last_update is younger than the debounce
  exiting,                \* Handle::is_exiting
  calls                   \* the requests being served

vars == <<profile, profileDraft, runtime, runtimeDraft, runFile, core,
          inProgress, switching, recent, exiting, calls>>

Pipeline == {"gen", "write", "check", "verdict", "run", "reload", "stop",
             "start", "spawn", "applied"}

Idle == [op |-> "none", pc |-> "idle", target |-> None, prev |-> None, seen |-> None]

Calls == [op : AllOps \cup {"none"},
          pc : Pipeline \cup {"idle", "enter", "commit", "restore", "unflag"},
          target : Profiles \cup {None}, prev : Profiles \cup {None},
          seen : Profiles \cup Config \cup {None}]

Latest(committed, draft) == IF draft = None THEN committed ELSE draft
LatestProfile == Latest(profile, profileDraft)
LatestRuntime == Latest(runtime, runtimeDraft)

At(p, c) == calls[p].pc = c
Guarded(p) == calls[p].op \in GuardedOps
Inside(p) == calls[p].pc \in Pipeline /\ Guarded(p)

BootConfig(q) == [from |-> q, edited |-> FALSE]

Init ==
  /\ profile \in {q \in Profiles : BootConfig(q) \in Accepted}
  /\ profileDraft = None
  /\ runtime = None
  /\ runtimeDraft = BootConfig(profile)
  /\ runFile = runtimeDraft
  /\ core = runtimeDraft
  /\ inProgress = FALSE /\ switching = FALSE /\ recent = FALSE /\ exiting = FALSE
  /\ calls = [p \in Tasks |-> Idle]

-----------------------------------------------------------------------------
(* Requests arrive.                                                        *)

Begin(p, o, pc) == calls[p] = Idle /\ o \in Ops[p]
                   /\ calls' = [calls EXCEPT ![p] = [Idle EXCEPT !.op = o, !.pc = pc]]

BugBeginSwitch(p, t) ==
  /\ calls[p] = Idle /\ "switch" \in Ops[p]
  /\ switching' = TRUE
  /\ profileDraft' = t
  /\ calls' = [calls EXCEPT ![p] = [Idle EXCEPT !.op = "switch", !.pc = "enter",
                                                !.target = t, !.prev = profile]]
  /\ UNCHANGED <<profile, runtime, runtimeDraft, runFile, core, inProgress, recent, exiting>>

BugPrevious(p, t) ==
  /\ calls[p] = Idle /\ "switch" \in Ops[p]
  /\ ~switching
  /\ switching' = TRUE
  /\ profileDraft' = t
  /\ calls' = [calls EXCEPT ![p] = [Idle EXCEPT !.op = "switch", !.pc = "enter",
                                                !.target = t, !.prev = None]]
  /\ UNCHANGED <<profile, runtime, runtimeDraft, runFile, core, inProgress, recent, exiting>>

(* A request for a profile that is being switched is turned away (Busy);   *)
(* otherwise the previous profile is remembered and the draft edited.      *)
BeginSwitch(p, t) ==
  /\ calls[p] = Idle /\ "switch" \in Ops[p]
  /\ ~switching
  /\ switching' = TRUE
  /\ profileDraft' = t
  /\ calls' = [calls EXCEPT ![p] = [Idle EXCEPT !.op = "switch", !.pc = "enter",
                                                !.target = t, !.prev = profile]]
  /\ UNCHANGED <<profile, runtime, runtimeDraft, runFile, core, inProgress, recent, exiting>>

BeginOther(p) ==
  /\ \/ \E o \in {"update", "auto", "chain"} : Begin(p, o, "enter")
     \/ Begin(p, "restart", "stop")
     \/ Begin(p, "regen", "gen")
  /\ UNCHANGED <<profile, profileDraft, runtime, runtimeDraft, runFile, core,
                 inProgress, switching, recent, exiting>>

Edited(c) == IF c = None THEN None ELSE [c EXCEPT !.edited = TRUE]

BeginPatch(p) ==
  /\ Begin(p, "patch", "enter")
  /\ runtimeDraft' = Edited(LatestRuntime)
  /\ UNCHANGED <<profile, profileDraft, runtime, runFile, core, inProgress,
                 switching, recent, exiting>>

-----------------------------------------------------------------------------
(* The pipeline.                                                           *)

(* Where a request goes when the pipeline answers: a switch handles the    *)
(* outcome, any other request is over.                                     *)
Answer(p, valid) ==
  calls' = [calls EXCEPT ![p] = IF @.op = "switch"
                                  THEN [@ EXCEPT !.pc = IF valid THEN "commit" ELSE "restore",
                                                 !.seen = None]
                                  ELSE Idle]

(* finish_config_update runs whichever way a guarded request leaves.       *)
Finish(p, valid) ==
  /\ Answer(p, valid)
  /\ inProgress' = IF Guarded(p) THEN FALSE ELSE inProgress

(* A failure inside the guard also discards the runtime draft; restart_core*)
(* called as a command leaves it alone.                                    *)
Fail(p) ==
  /\ Finish(p, FALSE)
  /\ runtimeDraft' = IF Guarded(p) THEN None ELSE runtimeDraft

Step(p, from, to) == At(p, from) /\ calls' = [calls EXCEPT ![p].pc = to]

(* Exiting: Skipped.  Busy: another update is in the guard.  Debounced.    *)
TurnedAway(p) ==
  /\ At(p, "enter")
  /\ \/ exiting /\ calls[p].op # "chain"
     \/ inProgress
     \/ calls[p].op = "auto" /\ recent
  /\ Answer(p, FALSE)
  /\ UNCHANGED <<profile, profileDraft, runtime, runtimeDraft, runFile, core,
                 inProgress, switching, recent, exiting>>

BugEnter(p) ==
  /\ IF calls[p].op = "chain"
       THEN Step(p, "enter", "check") /\ runtimeDraft' = Edited(LatestRuntime) /\ UNCHANGED recent
       ELSE Step(p, "enter", "gen") /\ UNCHANGED <<runtimeDraft, recent>>
  /\ inProgress' = TRUE
  /\ UNCHANGED <<profile, profileDraft, runtime, runFile, core, switching, exiting>>

Enter(p) ==
  /\ ~inProgress
  /\ inProgress' = TRUE
  /\ \/ /\ calls[p].op = "chain"
        /\ Step(p, "enter", "check")
        /\ runtimeDraft' = Edited(LatestRuntime)
        /\ UNCHANGED recent
     \/ /\ calls[p].op # "chain" /\ ~exiting
        /\ calls[p].op = "auto" => ~recent
        /\ Step(p, "enter", "gen")
        /\ recent' = TRUE
        /\ UNCHANGED runtimeDraft
  /\ UNCHANGED <<profile, profileDraft, runtime, runFile, core, switching, exiting>>

(* Config::generate: enhance reads the latest profiles, then awaits many   *)
(* files; the draft is replaced when it is done.                           *)
GenerateRead(p) ==
  /\ At(p, "gen")
  /\ calls' = [calls EXCEPT ![p].pc = "write", ![p].seen = LatestProfile]
  /\ UNCHANGED <<profile, profileDraft, runtime, runtimeDraft, runFile, core,
                 inProgress, switching, recent, exiting>>

GenerateWrite(p) ==
  /\ At(p, "write")
  /\ \/ /\ runtimeDraft' = BootConfig(calls[p].seen)
        /\ calls' = [calls EXCEPT ![p].pc = IF Guarded(p) THEN "check" ELSE "stop",
                                  ![p].seen = None]
        /\ UNCHANGED inProgress
     \/ Fail(p)
  /\ UNCHANGED <<profile, profileDraft, runtime, runFile, core, switching,
                 recent, exiting>>

(* validate_config_outcome: the check file is written from the latest      *)
(* runtime configuration and a core process is run on it.                  *)
WriteCheckFile(p) ==
  /\ At(p, "check")
  /\ \/ /\ LatestRuntime # None
        /\ calls' = [calls EXCEPT ![p].pc = "verdict", ![p].seen = LatestRuntime]
        /\ UNCHANGED <<inProgress, runtimeDraft>>
     \/ Fail(p)
  /\ UNCHANGED <<profile, profileDraft, runtime, runFile, core, switching,
                 recent, exiting>>

BugVerdict(p) ==
  /\ At(p, "verdict")
  /\ calls' = [calls EXCEPT ![p].pc = "run", ![p].seen = None]
  /\ UNCHANGED <<profile, profileDraft, runtime, runtimeDraft, runFile, core,
                 inProgress, switching, recent, exiting>>

Verdict(p) ==
  /\ At(p, "verdict")
  /\ \/ /\ calls[p].seen \in Accepted /\ ~exiting
        /\ calls' = [calls EXCEPT ![p].pc = "run", ![p].seen = None]
        /\ UNCHANGED <<inProgress, runtimeDraft>>
     \/ Fail(p)
  /\ UNCHANGED <<profile, profileDraft, runtime, runFile, core, switching,
                 recent, exiting>>

BugWriteRunFile(p) ==
  /\ At(p, "run")
  /\ LatestRuntime # None
  /\ runFile' = LatestRuntime /\ runtime' = LatestRuntime /\ runtimeDraft' = None
  /\ calls' = [calls EXCEPT ![p].pc = "reload"]
  /\ UNCHANGED <<profile, profileDraft, core, inProgress, switching, recent, exiting>>

(* generate_file(Run); its error leaves through `?` with the draft kept.   *)
WriteRunFile(p) ==
  /\ At(p, "run")
  /\ \/ /\ LatestRuntime # None
        /\ runFile' = LatestRuntime
        /\ calls' = [calls EXCEPT ![p].pc = "reload"]
        /\ UNCHANGED inProgress
     \/ Finish(p, FALSE) /\ UNCHANGED runFile
  /\ UNCHANGED <<profile, profileDraft, runtime, runtimeDraft, core, switching,
                 recent, exiting>>

(* The core reloads the run file, or the pipeline restarts the core.       *)
Reload(p) ==
  /\ \/ core # None /\ Step(p, "reload", "applied") /\ core' = runFile
     \/ Step(p, "reload", "stop") /\ UNCHANGED core
  /\ UNCHANGED <<profile, profileDraft, runtime, runtimeDraft, runFile,
                 inProgress, switching, recent, exiting>>

(* restart_core = stop_core, then start_core, which writes the run file    *)
(* from the latest runtime configuration once more.                        *)
Stop(p) ==
  /\ At(p, "stop")
  /\ \/ /\ core' = None
        /\ calls' = [calls EXCEPT ![p].pc = "start"]
        /\ UNCHANGED <<inProgress, runtimeDraft>>
     \/ Fail(p) /\ UNCHANGED core
  /\ UNCHANGED <<profile, profileDraft, runtime, runFile, switching, recent, exiting>>

BugStartWrite(p) ==
  /\ At(p, "start")
  /\ runFile' = LatestRuntime
  /\ calls' = [calls EXCEPT ![p].pc = "spawn"]
  /\ UNCHANGED <<profile, profileDraft, runtime, runtimeDraft, core, inProgress,
                 switching, recent, exiting>>

StartWrite(p) ==
  /\ At(p, "start")
  /\ \/ /\ LatestRuntime # None
        /\ runFile' = LatestRuntime
        /\ calls' = [calls EXCEPT ![p].pc = "spawn"]
        /\ UNCHANGED <<inProgress, runtimeDraft>>
     \/ Fail(p) /\ UNCHANGED runFile
  /\ UNCHANGED <<profile, profileDraft, runtime, core, switching, recent, exiting>>

Spawn(p) ==
  /\ At(p, "spawn")
  /\ \/ /\ core' = runFile
        /\ IF Guarded(p)
             THEN calls' = [calls EXCEPT ![p].pc = "applied"] /\ UNCHANGED inProgress
             ELSE Finish(p, TRUE)
        /\ UNCHANGED runtimeDraft
     \/ Fail(p) /\ UNCHANGED core
  /\ UNCHANGED <<profile, profileDraft, runtime, runFile, switching, recent, exiting>>

Applied(p) ==
  /\ At(p, "applied")
  /\ runtime' = LatestRuntime
  /\ runtimeDraft' = None
  /\ Finish(p, TRUE)
  /\ UNCHANGED <<profile, profileDraft, runFile, core, switching, recent, exiting>>

-----------------------------------------------------------------------------
(* The switch handles the pipeline's answer.                               *)

SwitchCommit(p) ==
  /\ Step(p, "commit", "unflag")
  /\ profile' = LatestProfile
  /\ profileDraft' = None
  /\ UNCHANGED <<runtime, runtimeDraft, runFile, core, inProgress, switching,
                 recent, exiting>>

(* discard_and_restore *)
SwitchRestore(p) ==
  /\ Step(p, "restore", "unflag")
  /\ profile' = calls[p].prev
  /\ profileDraft' = None
  /\ UNCHANGED <<runtime, runtimeDraft, runFile, core, inProgress, switching,
                 recent, exiting>>

BugUnflag(p) ==
  /\ At(p, "unflag")
  /\ calls' = [calls EXCEPT ![p] = Idle]
  /\ UNCHANGED <<profile, profileDraft, runtime, runtimeDraft, runFile, core,
                 inProgress, switching, recent, exiting>>

Unflag(p) ==
  /\ At(p, "unflag")
  /\ switching' = FALSE
  /\ calls' = [calls EXCEPT ![p] = Idle]
  /\ UNCHANGED <<profile, profileDraft, runtime, runtimeDraft, runFile, core,
                 inProgress, recent, exiting>>

BugTimeOut(p) ==
  /\ TimesOut
  /\ calls[p].op = "switch" /\ calls[p].pc \in Pipeline \ {"applied"}
  /\ Answer(p, FALSE)
  /\ UNCHANGED <<profile, profileDraft, runtime, runtimeDraft, runFile, core,
                 inProgress, switching, recent, exiting>>

(* The timeout drops the pipeline's future at the await it is in: only the *)
(* guard's defer runs.  A call to the core that is in flight may or may not*)
(* have taken effect.                                                      *)
TimeOut(p) ==
  /\ TimesOut
  /\ calls[p].op = "switch" /\ calls[p].pc \in Pipeline \ {"applied"}
  /\ inProgress' = FALSE
  /\ Answer(p, FALSE)
  /\ \/ UNCHANGED core
     \/ At(p, "reload") /\ core # None /\ core' = runFile
     \/ At(p, "stop") /\ core' = None
     \/ At(p, "spawn") /\ core' = runFile
  /\ UNCHANGED <<profile, profileDraft, runtime, runtimeDraft, runFile,
                 switching, recent, exiting>>

-----------------------------------------------------------------------------
DebounceElapses ==
  /\ recent' = FALSE
  /\ UNCHANGED <<profile, profileDraft, runtime, runtimeDraft, runFile, core,
                 inProgress, switching, exiting, calls>>

Exit ==
  /\ exiting' = TRUE
  /\ UNCHANGED <<profile, profileDraft, runtime, runtimeDraft, runFile, core,
                 inProgress, switching, recent, calls>>

Proceed(p) ==
  \/ TurnedAway(p) \/ Enter(p) \/ GenerateRead(p) \/ GenerateWrite(p)
  \/ WriteCheckFile(p) \/ Verdict(p) \/ WriteRunFile(p) \/ Reload(p)
  \/ Stop(p) \/ StartWrite(p) \/ Spawn(p) \/ Applied(p)
  \/ SwitchCommit(p) \/ SwitchRestore(p) \/ Unflag(p)

Next ==
  \/ DebounceElapses
  \/ Exit
  \/ \E p \in Tasks :
       \/ \E t \in Profiles : BeginSwitch(p, t)
       \/ BeginOther(p)
       \/ BeginPatch(p)
       \/ Proceed(p)
       \/ TimeOut(p)

Spec == Init /\ [][Next]_vars

(* Files, subprocesses and IPC calls return, so a request that can proceed *)
(* does; nothing is assumed about users, timeouts or the exit.             *)
FairSpec == Spec /\ \A p \in Tasks : WF_vars(Proceed(p))

-----------------------------------------------------------------------------
(* The state has its type.                                                 *)
TypeOK ==
  /\ profile \in Profiles /\ profileDraft \in Profiles \cup {None}
  /\ runtime \in Config \cup {None} /\ runtimeDraft \in Config \cup {None}
  /\ runFile \in Config /\ core \in Config \cup {None}
  /\ {inProgress, switching, recent, exiting} \subseteq BOOLEAN
  /\ calls \in [Tasks -> Calls]
  /\ \A p \in Tasks : calls[p].op = "none" <=> calls[p] = Idle

(* Two updates never generate, validate, write or apply at the same time,  *)
(* and the flag is raised exactly while one does, timeouts included.       *)
OneUpdate ==
  /\ \A p, q \in Tasks : Inside(p) /\ Inside(q) => p = q
  /\ inProgress <=> \E p \in Tasks : Inside(p)

(* Whatever fails or is cancelled on the way, the core only ever runs a    *)
(* configuration its check has accepted.                                   *)
CoreRunsValidated == core # None => core \in Accepted

(* Outside an update the committed runtime configuration, which the other  *)
(* commands read and a restart falls back to, is the one the core runs.    *)
RuntimeIsWhatRuns ==
  ~inProgress /\ runtime # None /\ core # None => core = runtime

(* When a switch reports success and commits its profile, that profile is  *)
(* still the one in force and the one the core runs, whatever other        *)
(* updates, refused switches and edits went on meanwhile.                  *)
SwitchedMeansRunning ==
  \A p \in Tasks :
    At(p, "commit") => /\ profileDraft = calls[p].target
                       /\ core = None \/ core.from = calls[p].target

(* When no request is being served, the core runs the profile in force:    *)
(* a refused switch is rolled back (cmd/profile.rs:309 and the message     *)
(* "modifications have been rolled back").                                 *)
RolledBack ==
  (\A p \in Tasks : calls[p] = Idle) /\ core # None => core.from = profile

(* While the core runs and no update is in the guard there is a runtime    *)
(* configuration to restart it with ("Fall back to committed config if     *)
(* runtime config is missing", config/config.rs:185).                      *)
RestartPossible == ~inProgress /\ core # None => LatestRuntime # None

(* A switch, even one that times out, never leaves the flag behind that    *)
(* turns every later switch away.                                          *)
SwitchEnds == switching ~> ~switching
=============================================================================
