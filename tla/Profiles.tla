------------------------------- MODULE Profiles -------------------------------
(***************************************************************************)
(* config/profiles.rs and the commands of cmd/profile.rs that change the   *)
(* list of profiles: the Draft that holds it, profiles.yaml, the files of  *)
(* the items, and restarts.  A command is a sequence of calls of           *)
(* with_data_modify; a switch edits and applies the draft instead, outside *)
(* the permit.  Draft is used as its theorems show: an Arc compares      *)
(* equal exactly when nothing was committed in between, which `stale'      *)
(* records.                                                                *)
(*                                                                         *)
(* A remote or local profile has five companion items (merge, script,      *)
(* rules, proxies, groups); one stands for them here.  Whether a switch    *)
(* succeeds is ConfigUpdate's matter: it is a choice here.                 *)
(***************************************************************************)
EXTENDS Naturals, Sequences, FiniteSets, SequencesExt

CONSTANTS
  Tasks, None,
  Mains,      \* uids of remote and local profiles
  CompanionOf,\* the companion item of each
  Listed,     \* profiles that exist at first
  Ops,        \* the commands that are called
  Failing,    \* jobs in which writing a file may fail
  MaxCalls, MaxRestarts \* bounds: how many commands and restarts there are

Companions == {CompanionOf[u] : u \in Mains}
Uids == Mains \cup Companions

(* IProfiles; `patched' stands for the options of the items. *)
Value == [items : Seq(Uids), current : Mains \cup {None}, patched : SUBSET Mains]

ASSUME ProfilesAssumption ==
  /\ IsInjective(CompanionOf) /\ DOMAIN CompanionOf = Mains
  /\ Mains \cap Companions = {} /\ None \notin Uids \cup Tasks \cup Value
  /\ Listed \in Seq(Mains) /\ IsInjective(Listed)
  /\ Ops \subseteq {"import", "delete", "patch", "update", "reorder", "switch"}
  /\ MaxCalls \in Nat /\ MaxRestarts \in Nat

VARIABLES
  committed, draft, \* Config::profiles(): IProfiles and its draft or None
  disk,             \* profiles.yaml
  files,            \* the items whose file is in the profiles directory
  permit,           \* the task inside with_data_modify, or None
  calls,
  told,             \* what the user was told is done
  used, gone,       \* uids generated so far, uids someone wants deleted
  count, restarts

vars == <<committed, draft, disk, files, permit, calls, told, used, gone, count, restarts>>

Empty == [items |-> <<>>, current |-> None, patched |-> {}]
Has(v) == Range(v.items)

(* A closure given to with_data_modify. *)
Job == [do : {"append", "delete", "patch", "update", "reorder", "save"}, uid : Uids, over : Uids]
Step == {"write", "remove", "save"} \X Uids

Idle == [op |-> "none", pc |-> "idle", uid |-> None, jobs |-> <<>>, steps |-> <<>>,
         local |-> Empty, stale |-> FALSE]

Init ==
  /\ committed = [items |-> [i \in 1..2 * Len(Listed) |->
                               IF i % 2 = 1 THEN CompanionOf[Listed[(i + 1) \div 2]] ELSE Listed[i \div 2]],
                  current |-> IF Listed = <<>> THEN None ELSE Head(Listed),
                  patched |-> {}]
  /\ draft = None
  /\ disk = committed
  /\ files = Has(committed)
  /\ permit = None
  /\ calls = [t \in Tasks |-> Idle]
  /\ told = {<<"in", u>> : u \in Range(Listed)} \cup {<<"current", u>> : u \in {committed.current} \ {None}}
  /\ used = Has(committed) /\ gone = {}
  /\ count = 0 /\ restarts = 0

Latest == IF draft = None THEN committed ELSE draft

-----------------------------------------------------------------------------
(* IProfiles: what each closure makes of the list, and what it writes.     *)

Position(items, u) == CHOOSE i \in DOMAIN items : items[i] = u

FirstMain(items) ==
  LET mains == {i \in DOMAIN items : items[i] \in Mains}
  IN IF mains = {} THEN None ELSE items[CHOOSE i \in mains : \A j \in mains : i <= j]

Without(items, u) == IF u \in Range(items) THEN RemoveAt(items, Position(items, u)) ELSE items

AppendItem(v, u) ==
  [v EXCEPT !.items = Append(@, u),
            !.current = IF @ = None /\ u \in Mains THEN u ELSE @]

(* The companions go with the item; without a current profile the first    *)
(* one that is left becomes current.                                       *)
DeleteItem(v, u) ==
  LET rest == Without(Without(v.items, u), CompanionOf[u])
  IN [v EXCEPT !.items = rest,
               !.current = IF @ \in {u, None} THEN FirstMain(rest) ELSE @,
               !.patched = @ \ {u}]

BugReorder(v, u, over) ==
  IF {u, over} \subseteq Has(v)
    THEN [v EXCEPT !.items = ReplaceAt(@, Position(@, over), u)]
    ELSE [v EXCEPT !.items = <<>>]

(* When one of the two is not listed any more, items.take() has emptied    *)
(* the list and reorder returns Ok.                                        *)
Reorder(v, u, over) ==
  IF {u, over} \subseteq Has(v)
    THEN [v EXCEPT !.items = InsertAt(RemoveAt(@, Position(@, u)), Position(@, over), u)]
    ELSE [v EXCEPT !.items = <<>>]

BugPatchConfig(v, u) == [v EXCEPT !.current = u]

PatchConfig(v, u) == IF u \in Has(v) THEN [v EXCEPT !.current = u] ELSE v

Possible(job, v) == job.do \in {"delete", "patch", "update"} => job.uid \in Has(v)

Result(job, v) ==
  CASE job.do = "append" -> AppendItem(v, job.uid)
    [] job.do = "delete" -> DeleteItem(v, job.uid)
    [] job.do = "patch" -> [v EXCEPT !.patched = @ \cup {job.uid}]
    [] job.do = "reorder" -> Reorder(v, job.uid, job.over)
    [] OTHER -> v

(* The files a closure touches, in order: items' files are removed before  *)
(* the list without them is saved, and written before.                     *)
BugSteps(job, v) ==
  CASE job.do = "append" -> << <<"write", job.uid>> >>
    [] job.do = "delete" -> << <<"remove", job.uid>>, <<"remove", CompanionOf[job.uid]>>, <<"save", job.uid>> >>
    [] job.do = "update" -> << <<"write", job.uid>>, <<"save", job.uid>> >>
    [] job.do = "patch" -> <<>>
    [] OTHER -> << <<"save", job.uid>> >>

Steps(job, v) ==
  CASE job.do = "append" -> << <<"write", job.uid>> >>
    [] job.do = "delete" -> << <<"remove", job.uid>>, <<"remove", CompanionOf[job.uid]>>, <<"save", job.uid>> >>
    [] job.do = "update" -> << <<"write", job.uid>>, <<"save", job.uid>> >>
    [] job.do = "reorder" /\ ~({job.uid, job.over} \subseteq Has(v)) -> <<>>
    [] OTHER -> << <<"save", job.uid>> >>

-----------------------------------------------------------------------------
(* Commands.                                                               *)

BugJobs(op, u, over) ==
  LET job(do) == [do |-> do, uid |-> u, over |-> over]
      append == <<[job("append") EXCEPT !.uid = CompanionOf[u]], job("append")>>
  IN CASE op = "import" -> append
       [] op = "delete" -> <<job("delete"), job("save")>>
       [] op = "switch" -> <<job("save")>>
       [] OTHER -> <<job(op)>>

Jobs(op, u, over) ==
  LET job(do) == [do |-> do, uid |-> u, over |-> over]
      append == <<[job("append") EXCEPT !.uid = CompanionOf[u]], job("append")>>
  IN CASE op = "import" -> Append(append, job("save"))
       [] op = "delete" -> <<job("delete"), job("save")>>
       [] op = "switch" -> <<job("save")>>
       [] OTHER -> <<job(op)>>

Called(op, u, over) ==
  /\ op \in Ops
  /\ count < MaxCalls /\ count' = count + 1
  /\ IF op = "import"
       THEN /\ u \notin used
            /\ used' = used \cup {u, CompanionOf[u]}
       ELSE {u, over} \subseteq Has(committed) /\ UNCHANGED used
  /\ gone' = IF op = "delete" THEN gone \cup {u} ELSE gone

(* import_profile, create_profile, delete_profile, patch_profile,          *)
(* reorder_profile and, with its download done, update_profile.            *)
Call(t, op, u, over) ==
  /\ calls[t] = Idle /\ op # "switch"
  /\ op # "reorder" => over = u
  /\ Called(op, u, over)
  /\ calls' = [calls EXCEPT ![t] = [Idle EXCEPT !.op = op, !.pc = "ready", !.uid = u,
                                                !.jobs = Jobs(op, u, over)]]
  /\ UNCHANGED <<committed, draft, disk, files, permit, told, restarts>>

(* patch_profiles_config: one at a time; the profile is kept to restore it.*)
CallSwitch(t, u) ==
  /\ calls[t] = Idle
  /\ \A s \in Tasks : calls[s].op # "switch"
  /\ Called("switch", u, u)
  /\ draft' = PatchConfig(Latest, u)
  /\ calls' = [calls EXCEPT ![t] = [Idle EXCEPT !.op = "switch", !.pc = "updating", !.uid = u,
                                                !.jobs = Jobs("switch", u, u),
                                                !.local = committed]]
  /\ UNCHANGED <<committed, disk, files, permit, told, restarts>>

-----------------------------------------------------------------------------
(* with_data_modify.                                                       *)

Fact(op, u) == <<CASE op = "import" -> "in" [] op = "patch" -> "patched" [] OTHER -> "current", u>>

Tell(c) ==
  IF c.op \notin {"import", "patch", "switch"} THEN told
  ELSE {f \in told : c.op = "switch" => f[1] # "current"} \cup {Fact(c.op, c.uid)}

(* A job is over.  A list that could not be saved after an import or a     *)
(* switch is only logged.                                                  *)
Advance(t, ok) ==
  LET c == calls[t]
      last == Len(c.jobs) = 1
      fine == ok \/ (Head(c.jobs).do = "save" /\ c.op # "delete")
  IN /\ permit' = None
     /\ told' = IF fine /\ last THEN Tell(c) ELSE told
     /\ calls' = [calls EXCEPT ![t] =
          IF ~fine \/ last THEN Idle
          ELSE [c EXCEPT !.pc = "ready", !.jobs = Tail(@), !.steps = <<>>, !.local = Empty,
                         !.stale = FALSE]]

Modify(t) ==
  LET job == Head(calls[t].jobs)
  IN /\ permit' = t
     /\ calls' = [calls EXCEPT ![t].pc = "closure", ![t].steps = Steps(job, committed),
                               ![t].local = Result(job, committed), ![t].stale = FALSE]
     /\ UNCHANGED told

BugBegin(t) ==
  /\ calls[t].pc = "ready"
  /\ IF Possible(Head(calls[t].jobs), committed)
       THEN Modify(t)
       ELSE Advance(t, FALSE)
  /\ UNCHANGED <<committed, draft, disk, files, used, gone, count, restarts>>

Begin(t) ==
  /\ calls[t].pc = "ready" /\ permit = None
  /\ IF Possible(Head(calls[t].jobs), committed)
       THEN Modify(t)
       ELSE Advance(t, FALSE)
  /\ UNCHANGED <<committed, draft, disk, files, used, gone, count, restarts>>

DiskStep(t) ==
  /\ calls[t].pc = "closure" /\ calls[t].steps # <<>>
  /\ LET step == Head(calls[t].steps)
     IN CASE step[1] = "write" -> files' = files \cup {step[2]} /\ UNCHANGED disk
          [] step[1] = "remove" -> files' = files \ {step[2]} /\ UNCHANGED disk
          [] step[1] = "save" -> disk' = calls[t].local /\ UNCHANGED files
  /\ calls' = [calls EXCEPT ![t].steps = Tail(@)]
  /\ UNCHANGED <<committed, draft, permit, told, used, gone, count, restarts>>

(* fs::write fails; removing a file never makes the closure fail.          *)
FailStep(t) ==
  /\ calls[t].pc = "closure" /\ calls[t].steps # <<>>
  /\ Head(calls[t].steps)[1] # "remove"
  /\ Head(calls[t].jobs).do \in Failing
  /\ Advance(t, FALSE)
  /\ UNCHANGED <<committed, draft, disk, files, used, gone, count, restarts>>

BugCommit(t) ==
  /\ calls[t].pc = "closure" /\ calls[t].steps = <<>>
  /\ committed' = calls[t].local
  /\ Advance(t, TRUE)
  /\ UNCHANGED <<draft, disk, files, used, gone, count, restarts>>

(* The optimistic lock: what was committed meanwhile wins.                 *)
Commit(t) ==
  /\ calls[t].pc = "closure" /\ calls[t].steps = <<>>
  /\ committed' = IF calls[t].stale THEN committed ELSE calls[t].local
  /\ Advance(t, ~calls[t].stale)
  /\ UNCHANGED <<draft, disk, files, used, gone, count, restarts>>

-----------------------------------------------------------------------------
(* What happens outside the permit.                                        *)

(* Draft::apply replaces the Arc that the permit's holder compares with.   *)
ApplyAnd(t, call) ==
  /\ committed' = Latest /\ draft' = None
  /\ calls' = [s \in Tasks |->
                 IF s = t THEN call
                 ELSE IF s = permit /\ draft # None THEN [calls[s] EXCEPT !.stale = TRUE]
                 ELSE calls[s]]

(* handle_success *)
SwitchOk(t) ==
  /\ calls[t].pc = "updating"
  /\ ApplyAnd(t, [calls[t] EXCEPT !.pc = "ready", !.local = Empty])
  /\ UNCHANGED <<disk, files, permit, told, used, gone, count, restarts>>

(* discard_and_restore, for every other outcome: patches a fresh draft     *)
(* with the previous profile, applies it and saves in the background.      *)
SwitchRefused(t) ==
  /\ calls[t].pc = "updating"
  /\ LET prev == calls[t].local.current
     IN IF prev = None
          THEN calls' = [calls EXCEPT ![t] = Idle] /\ UNCHANGED committed
          ELSE /\ committed' = PatchConfig(committed, prev)
               /\ calls' = [s \in Tasks |->
                    IF s = t THEN [calls[t] EXCEPT !.op = "restore", !.pc = "ready", !.local = Empty]
                    ELSE IF s = permit THEN [calls[s] EXCEPT !.stale = TRUE]
                    ELSE calls[s]]
  /\ draft' = None
  /\ UNCHANGED <<disk, files, permit, told, used, gone, count, restarts>>

BugBoot(image) ==
  /\ restarts < MaxRestarts /\ restarts' = restarts + 1
  /\ committed' = image /\ disk' = image /\ draft' = None
  /\ files' = files \cap Has(image) \cap Mains
  /\ permit' = None
  /\ calls' = [t \in Tasks |-> Idle]
  /\ UNCHANGED <<told, used, gone, count>>

(* IProfiles::new reads the list; init_config removes the files it does    *)
(* not name. *)
Boot(image) ==
  /\ restarts < MaxRestarts /\ restarts' = restarts + 1
  /\ committed' = image /\ disk' = image /\ draft' = None
  /\ files' = files \cap Has(image)
  /\ permit' = None
  /\ calls' = [t \in Tasks |-> Idle]
  /\ UNCHANGED <<told, used, gone, count>>

(* The process dies; a write is not torn.                                  *)
Crash == Boot(disk)

(* apply_all_and_save_file on exit, then the next start.                   *)
Quit == Boot(Latest)

-----------------------------------------------------------------------------
Serve(t) ==
  \/ Begin(t) \/ DiskStep(t) \/ FailStep(t) \/ Commit(t)
  \/ SwitchOk(t) \/ SwitchRefused(t)

Next ==
  \/ \E t \in Tasks, u \in Mains :
       \/ \E op \in Ops, over \in Mains : Call(t, op, u, over)
       \/ CallSwitch(t, u)
  \/ \E t \in Tasks : Serve(t)
  \/ Crash \/ Quit

Spec == Init /\ [][Next]_vars

-----------------------------------------------------------------------------
TypeOK ==
  /\ committed \in Value /\ disk \in Value
  /\ draft \in Value \cup {None}
  /\ files \subseteq Uids
  /\ permit \in Tasks \cup {None}
  /\ \A t \in Tasks :
       /\ calls[t].pc \in {"idle", "ready", "closure", "updating"}
       /\ calls[t].jobs \in Seq(Job) /\ calls[t].steps \in Seq(Step) /\ calls[t].local \in Value
       /\ (calls[t].pc = "closure") = (permit = t)
  /\ told \subseteq {"in", "patched", "current"} \X Mains
  /\ used \subseteq Uids /\ gone \subseteq Mains
  /\ count \in 0..MaxCalls /\ restarts \in 0..MaxRestarts

(* The current profile is always one of the list.                          *)
CurrentListed == committed.current # None => committed.current \in Has(committed)

(* Every item of the list has its file, except for one that is just being  *)
(* deleted.                                                                *)
BeingDeleted == {Head(calls[t].jobs).uid : t \in {s \in Tasks : /\ calls[s].pc = "closure"
                                                               /\ Head(calls[s].jobs).do = "delete"}}
FilesExist ==
  \A u \in Has(committed) \ files : \E m \in BeingDeleted : u \in {m, CompanionOf[m]}

Facts(v) ==
  {<<"in", u>> : u \in Has(v)} \cup {<<"patched", u>> : u \in v.patched} \cup {<<"current", v.current>>}

Due(kinds) == {f \in told : f[1] \in kinds /\ f[2] \notin gone}

(* What the user was told is done stays done: no other command and no      *)
(* restart takes it back.                                                  *)
Kept == Due({"in", "patched"}) \subseteq Facts(committed)

(* A switch that succeeded stays in force until the next one succeeds.     *)
SwitchKept ==
  (\A t \in Tasks : calls[t].op = "switch" => calls[t].pc = "updating")
    => Due({"current"}) \subseteq Facts(committed)

(* Between commands profiles.yaml is the list in memory.                   *)
DiskInStep == (\A t \in Tasks : calls[t] = Idle) => disk = committed

(* Cleaning up spares the files of profiles nobody deleted.                *)
FilesKept == \A f \in Due({"in"}) : f[2] \in files

(* Ordering the list loses nothing of it.                                  *)
ReorderKeeps ==
  [][\A t \in Tasks :
       Commit(t) /\ calls[t].op = "reorder" => Has(committed') = Has(committed)]_vars
=============================================================================
