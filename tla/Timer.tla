-------------------------------- MODULE Timer --------------------------------
(***************************************************************************)
(* core/timer.rs: the scheduler of the profiles' automatic updates.  One   *)
(* task owns a DelayQueue and the table of scheduled profiles; commands    *)
(* reach it through an unbounded channel: Apply from refresh(), RunNow     *)
(* from init(), TaskFinished from the update tasks it has spawned.  The    *)
(* queue's keys are slab slots: a key is used again once its entry is gone,*)
(* and removing or resetting through a dead key panics.                    *)
(*                                                                         *)
(* Time is left out: an entry may expire at any moment; it carries the     *)
(* interval it was inserted or reset with.  Interval 0 stands for a        *)
(* profile that is absent or not updated automatically.                    *)
(*                                                                         *)
(* An operator named BugX is X with a plausible mistake in it: no action   *)
(* uses it, it is there to see which property notices the mistake.         *)
(***************************************************************************)
EXTENDS Naturals, Sequences, FiniteSets, Functions

CONSTANTS
  Uids, Intervals, \* profiles and the intervals above 0 they may have
  Choices,         \* the intervals, or 0, that each profile is given
  Callers, Boot,   \* tasks that call refresh(); Boot is the one in init()
  Keys, None,      \* keys of the DelayQueue, the absent key
  MaxEdits,        \* bound: how often profiles are edited
  Silent           \* whether an edit may fail to call refresh()

ASSUME TimerAssumption ==
  /\ Intervals \subseteq Nat \ {0}
  /\ Choices \in [Uids -> SUBSET (Intervals \cup {0})] /\ Boot \in Callers
  /\ None \notin Keys \cup [uid : Uids, every : Nat]
  /\ IsFiniteSet(Keys) /\ MaxEdits \in Nat /\ Silent \in BOOLEAN

VARIABLES
  profiles, \* Config::profiles(): the interval of each profile, or 0
  timerMap, \* timer_map: the map last applied
  commands, \* the channel
  queue,    \* the DelayQueue: its entries by key
  tasks,    \* TaskState by uid; every = 0 while it is not scheduled
  runs,     \* how many spawned update tasks are running, by uid
  calls,    \* the calls of refresh() and init()
  edits

vars == <<profiles, timerMap, commands, queue, tasks, runs, calls, edits>>

(* The Choices that are checked: one profile stays on the timer with any   *)
(* interval, the others come and go with one.                              *)
OneKept ==
  LET kept == CHOOSE u \in Uids : TRUE
  IN [u \in Uids |-> IF u = kept THEN Intervals ELSE {0, CHOOSE i \in Intervals : TRUE}]

Maps == [Uids -> Intervals \cup {0}]
NoMap == [u \in Uids |-> 0]
Entry == [uid : Uids, every : Intervals]
TaskState == [key : Keys \cup {None}, every : Intervals \cup {0}, running : BOOLEAN]
Unscheduled == [key |-> None, every |-> 0, running |-> FALSE]
Command == [op : {"Apply"}, map : Maps] \cup [op : {"RunNow", "TaskFinished"}, uid : Uids]

Asleep == [pc |-> "idle", map |-> NoMap, overdue |-> {}]
Calls == [pc : {"idle", "gen", "cache", "send", "overdue"}, map : Maps, overdue : SUBSET Uids]

Init ==
  /\ profiles \in Maps /\ \A u \in Uids : profiles[u] \in Choices[u]
  /\ timerMap = NoMap
  /\ commands = <<>>
  /\ queue = [k \in Keys |-> None]
  /\ tasks = [u \in Uids |-> Unscheduled]
  /\ runs = [u \in Uids |-> 0]
  /\ calls = [c \in Callers |-> IF c = Boot THEN [Asleep EXCEPT !.pc = "gen"] ELSE Asleep]
  /\ edits = 0

Send(cmd) == commands' = Append(commands, cmd)

-----------------------------------------------------------------------------
(* Callers.                                                                *)

(* patch_profile refreshes when the interval changed; delete_profile does  *)
(* unless updating the configuration failed; imports never do.             *)
Edit(c, u, i) ==
  /\ calls[c] = Asleep /\ edits < MaxEdits
  /\ profiles[u] # i /\ i \in Choices[u]
  /\ edits' = edits + 1
  /\ profiles' = [profiles EXCEPT ![u] = i]
  /\ \/ calls' = [calls EXCEPT ![c].pc = "gen"]
     \/ Silent /\ UNCHANGED calls
  /\ UNCHANGED <<timerMap, commands, queue, tasks, runs>>

GenMap(c) ==
  /\ calls[c].pc = "gen"
  /\ calls' = [calls EXCEPT ![c].pc = "cache", ![c].map = profiles]
  /\ UNCHANGED <<profiles, timerMap, commands, queue, tasks, runs, edits>>

(* init() goes on to the profiles that are overdue, if any.                *)
Refreshed(c) ==
  IF c = Boot
    THEN \E S \in SUBSET {u \in Uids : profiles[u] # 0} :
           calls' = [calls EXCEPT ![c] = [Asleep EXCEPT !.pc = "overdue", !.overdue = S]]
    ELSE calls' = [calls EXCEPT ![c] = Asleep]

WriteCache(c) ==
  /\ calls[c].pc = "cache"
  /\ IF timerMap = calls[c].map
       THEN Refreshed(c) /\ UNCHANGED timerMap
       ELSE timerMap' = calls[c].map /\ calls' = [calls EXCEPT ![c].pc = "send"]
  /\ UNCHANGED <<profiles, commands, queue, tasks, runs, edits>>

(* The lock on the cache is released before the map is sent.               *)
SendApply(c) ==
  /\ calls[c].pc = "send"
  /\ Send([op |-> "Apply", map |-> calls[c].map])
  /\ Refreshed(c)
  /\ UNCHANGED <<profiles, timerMap, queue, tasks, runs, edits>>

SendRunNow(c) ==
  /\ calls[c].pc = "overdue"
  /\ IF calls[c].overdue = {}
       THEN calls' = [calls EXCEPT ![c] = Asleep] /\ UNCHANGED commands
       ELSE \E u \in calls[c].overdue :
              /\ Send([op |-> "RunNow", uid |-> u])
              /\ calls' = [calls EXCEPT ![c].overdue = @ \ {u}]
  /\ UNCHANGED <<profiles, timerMap, queue, tasks, runs, edits>>

-----------------------------------------------------------------------------
(* The scheduler.                                                          *)

Scheduled(u) == tasks[u].every # 0

Free == {k \in Keys : queue[k] = None}

(* queue.insert takes any free slot.                                       *)
Schedule(u, k) == queue' = [queue EXCEPT ![k] = [uid |-> u, every |-> tasks[u].every]]

BugApplyTimerMap(map) ==
  LET gone == {u \in Uids : map[u] = 0 /\ ~Scheduled(u)}
      free == Free \cup ({tasks[u].key : u \in gone} \ {None})
      fresh == {u \in Uids \ gone :
                  \/ ~Scheduled(u)
                  \/ tasks[u].every # map[u] /\ tasks[u].key = None /\ ~tasks[u].running}
  IN \E key \in Injection(fresh, free) :
       /\ tasks' = [u \in Uids |->
                      IF u \in gone THEN Unscheduled
                      ELSE [key |-> IF u \in fresh THEN key[u] ELSE tasks[u].key,
                            every |-> IF map[u] = 0 THEN tasks[u].every ELSE map[u],
                            running |-> tasks[u].running]]
       /\ queue' = [k \in Keys |->
                      LET new == {u \in fresh : key[u] = k}
                      IN IF new # {}
                           THEN LET u == CHOOSE u \in new : TRUE IN [uid |-> u, every |-> map[u]]
                         ELSE IF k \in free THEN None
                         ELSE queue[k]]

BugReset(map) ==
  LET gone == {u \in Uids : map[u] = 0}
      free == Free \cup ({tasks[u].key : u \in gone} \ {None})
      fresh == {u \in Uids \ gone :
                  \/ ~Scheduled(u)
                  \/ tasks[u].every # map[u] /\ tasks[u].key = None /\ ~tasks[u].running}
  IN \E key \in Injection(fresh, free) :
       /\ tasks' = [u \in Uids |->
                      IF u \in gone THEN Unscheduled
                      ELSE [key |-> IF u \in fresh THEN key[u] ELSE tasks[u].key,
                            every |-> map[u], running |-> tasks[u].running]]
       /\ queue' = [k \in Keys |->
                      LET new == {u \in fresh : key[u] = k}
                      IN IF new # {}
                           THEN LET u == CHOOSE u \in new : TRUE IN [uid |-> u, every |-> map[u]]
                         ELSE IF k \in free THEN None
                         ELSE queue[k]]

(* apply_timer_map: profiles that left the map give up their entry, new    *)
(* ones get one, changed ones have theirs reset or, if there is none and   *)
(* no update is running, get one.                                          *)
ApplyTimerMap(map) ==
  LET gone == {u \in Uids : map[u] = 0}
      free == Free \cup ({tasks[u].key : u \in gone} \ {None})
      fresh == {u \in Uids \ gone :
                  \/ ~Scheduled(u)
                  \/ tasks[u].every # map[u] /\ tasks[u].key = None /\ ~tasks[u].running}
  IN \E key \in Injection(fresh, free) :
       /\ tasks' = [u \in Uids |->
                      IF u \in gone THEN Unscheduled
                      ELSE [key |-> IF u \in fresh THEN key[u] ELSE tasks[u].key,
                            every |-> map[u], running |-> tasks[u].running]]
       /\ queue' = [k \in Keys |->
                      LET new == {u \in fresh : key[u] = k}
                      IN IF new # {}
                           THEN LET u == CHOOSE u \in new : TRUE IN [uid |-> u, every |-> map[u]]
                         ELSE IF k \in free THEN None
                         ELSE IF tasks[queue[k].uid].key = k
                           THEN [queue[k] EXCEPT !.every = map[queue[k].uid]]
                         ELSE queue[k]]

(* Every spawned update task ends, by its timeout of 40 s at the latest,   *)
(* and reports to the scheduler.                                           *)
Spawn(u) == runs' = [runs EXCEPT ![u] = @ + 1]

BugExpire(k) ==
  /\ k \notin Free
  /\ queue' = [queue EXCEPT ![k] = None]
  /\ LET u == queue[k].uid IN
       IF ~Scheduled(u) THEN UNCHANGED <<tasks, runs>>
       ELSE /\ tasks' = [tasks EXCEPT ![u].running = TRUE]
            /\ IF tasks[u].running THEN UNCHANGED runs ELSE Spawn(u)
  /\ UNCHANGED <<profiles, timerMap, commands, calls, edits>>

(* run_expired_task *)
Expire(k) ==
  /\ k \notin Free
  /\ queue' = [queue EXCEPT ![k] = None]
  /\ LET u == queue[k].uid IN
       IF ~Scheduled(u) THEN UNCHANGED <<tasks, runs>>
       ELSE /\ tasks' = [tasks EXCEPT ![u].key = None, ![u].running = TRUE]
            /\ IF tasks[u].running THEN UNCHANGED runs ELSE Spawn(u)
  /\ UNCHANGED <<profiles, timerMap, commands, calls, edits>>

BugRunTaskNow(u) ==
  IF ~Scheduled(u) \/ tasks[u].running THEN UNCHANGED <<queue, tasks, runs>>
  ELSE /\ tasks' = [tasks EXCEPT ![u].running = TRUE]
       /\ UNCHANGED queue
       /\ Spawn(u)

(* run_task_now *)
RunTaskNow(u) ==
  IF ~Scheduled(u) \/ tasks[u].running THEN UNCHANGED <<queue, tasks, runs>>
  ELSE /\ tasks' = [tasks EXCEPT ![u].key = None, ![u].running = TRUE]
       /\ queue' = [k \in Keys |-> IF k = tasks[u].key THEN None ELSE queue[k]]
       /\ Spawn(u)

BugFinishTask(u) ==
  /\ tasks' = [tasks EXCEPT ![u].running = FALSE]
  /\ UNCHANGED queue

(* finish_task: whatever entry the table knew of is forgotten.             *)
FinishTask(u) ==
  IF ~Scheduled(u) THEN UNCHANGED <<queue, tasks>>
  ELSE \E k \in Free : /\ Schedule(u, k)
                       /\ tasks' = [tasks EXCEPT ![u].key = k, ![u].running = FALSE]

Receive ==
  /\ commands # <<>>
  /\ commands' = Tail(commands)
  /\ LET cmd == Head(commands) IN
       \/ cmd.op = "Apply" /\ ApplyTimerMap(cmd.map) /\ UNCHANGED runs
       \/ cmd.op = "RunNow" /\ RunTaskNow(cmd.uid)
       \/ cmd.op = "TaskFinished" /\ FinishTask(cmd.uid) /\ UNCHANGED runs
  /\ UNCHANGED <<profiles, timerMap, calls, edits>>

BugEndRun(u) ==
  /\ runs' = [runs EXCEPT ![u] = @ - 1]
  /\ Send([op |-> "TaskFinished", uid |-> u])
  /\ UNCHANGED <<profiles, timerMap, queue, tasks, calls, edits>>

EndRun(u) ==
  /\ runs[u] > 0
  /\ runs' = [runs EXCEPT ![u] = @ - 1]
  /\ Send([op |-> "TaskFinished", uid |-> u])
  /\ UNCHANGED <<profiles, timerMap, queue, tasks, calls, edits>>

-----------------------------------------------------------------------------
Refresh(c) == GenMap(c) \/ WriteCache(c) \/ SendApply(c) \/ SendRunNow(c)

Next ==
  \/ \E c \in Callers :
       \/ \E u \in Uids, i \in Intervals \cup {0} : Edit(c, u, i)
       \/ Refresh(c)
  \/ \E k \in Keys : Expire(k)
  \/ Receive
  \/ \E u \in Uids : EndRun(u)

Spec == Init /\ [][Next]_vars

(* Timers expire, update tasks end (40 s timeout), calls return and the    *)
(* scheduler's select! serves both of its branches.                        *)
FairSpec ==
  /\ Spec
  /\ WF_vars(Receive)
  /\ \A k \in Keys : WF_vars(Expire(k))
  /\ \A u \in Uids : WF_vars(EndRun(u))
  /\ \A c \in Callers : WF_vars(Refresh(c))

-----------------------------------------------------------------------------
(* The state has its type.                                                 *)
TypeOK ==
  /\ profiles \in Maps /\ timerMap \in Maps
  /\ commands \in Seq(Command)
  /\ queue \in [Keys -> Entry \cup {None}]
  /\ tasks \in [Uids -> TaskState]
  /\ runs \in [Uids -> Nat]
  /\ calls \in [Callers -> Calls]
  /\ edits \in 0..MaxEdits

(* A key the table holds is that of a live entry of its own profile, with  *)
(* the interval the table has: DelayQueue::remove and reset neither panic  *)
(* nor hit another profile's entry.                                        *)
KeysLive ==
  \A u \in Uids : tasks[u].key # None =>
    queue[tasks[u].key] = [uid |-> u, every |-> tasks[u].every]

(* What still stands for the next update of a profile: entries, running    *)
(* updates and reports on their way.                                       *)
Entries(u) == {k \in Keys : queue[k] # None /\ queue[k].uid = u}
Reports(u) == {i \in DOMAIN commands : commands[i].op = "TaskFinished" /\ commands[i].uid = u}
Pending(u) == Cardinality(Entries(u)) + runs[u] + Cardinality(Reports(u))

(* A scheduled profile is never forgotten: without an entry in the queue   *)
(* its update is running or its end is about to be reported.               *)
NeverForgotten ==
  \A u \in Uids : Scheduled(u) =>
    IF tasks[u].running THEN Pending(u) > 0 ELSE tasks[u].key # None

(* A profile that stays on the timer has one entry or one running update   *)
(* at a time, however often the map is applied, also when it is overdue    *)
(* and run at once.                                                        *)
Kept == {u \in Uids : 0 \notin Choices[u]}

OnePending == \A u \in Kept : Pending(u) = IF Scheduled(u) THEN 1 ELSE 0

(* Once no refresh is under way and the commands are received, the         *)
(* scheduler has the intervals that get_next_update_time reads from the    *)
(* cache.                                                                  *)
Settled == commands = <<>> /\ \A c \in Callers : calls[c] = Asleep

InStep == Settled => \A u \in Uids : tasks[u].every = timerMap[u]

(* ... and they are the profiles' ("if the update interval or the          *)
(* permission to update changed, refresh the timer", cmd/profile.rs:349).  *)
FollowsProfiles == Settled => \A u \in Uids : tasks[u].every = profiles[u]

(* Every scheduled profile is updated or taken off the timer in the end.   *)
IsUpdated == \A u \in Uids : Scheduled(u) ~> runs[u] > 0 \/ ~Scheduled(u)
=============================================================================
