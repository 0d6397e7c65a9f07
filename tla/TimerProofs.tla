----------------------------- MODULE TimerProofs -----------------------------
(***************************************************************************)
(* The scheduler of core/timer.rs, for any profiles, callers, intervals    *)
(* and number of keys: it never uses a dead or foreign key of its          *)
(* DelayQueue (KeysLive), forgets no profile (NeverForgotten), neither     *)
(* schedules nor updates one twice (OnePending) and, as long as calls of   *)
(* refresh() do not overlap, has the intervals of the cache (InStep).      *)
(*                                                                         *)
(* With the type, KeysLive is inductive: it makes the table's keys         *)
(* distinct, and an unscheduled profile cannot hold one since no entry has *)
(* interval 0.  The others need to know which entries and which reports on *)
(* their way stand for each row of the table.                              *)
(***************************************************************************)
EXTENDS Timer, FiniteSetTheorems, TLAPS

USE DEF Entry, Maps, Free, Scheduled

(* An entry is a record, never the absent key. *)
LEMMA EntryNotNone == \A e \in Entry : e # None
BY TimerAssumption

(* What the type says of one profile's row of the table. *)
LEMMA RowType ==
  ASSUME TypeOK, NEW u \in Uids
  PROVE  /\ tasks[u].key \in Keys \cup {None}
         /\ tasks[u].every \in Intervals \cup {0}
         /\ tasks[u].running \in BOOLEAN
         /\ tasks[u] = [key |-> tasks[u].key, every |-> tasks[u].every, running |-> tasks[u].running]
<1>1. tasks[u] \in TaskState
  BY DEF TypeOK
<1>. QED BY <1>1 DEF TaskState

(* Changing a row's key and flag leaves its interval. *)
LEMMA RowUpdate ==
  ASSUME TypeOK, NEW w \in Uids, NEW k, NEW b,
         tasks' = [tasks EXCEPT ![w].key = k, ![w].running = b]
  PROVE  tasks' = [tasks EXCEPT ![w] = [key |-> k, every |-> tasks[w].every, running |-> b]]
<1>1. tasks \in [Uids -> TaskState]
  BY DEF TypeOK
<1>2. PICK t : t = tasks[w]
  OBVIOUS
<1>3. t = [key |-> t.key, every |-> t.every, running |-> t.running]
  BY <1>2, RowType
<1>4. [[t EXCEPT !.key = k] EXCEPT !.running = b] = [key |-> k, every |-> t.every, running |-> b]
  <2>1. PICK r : r = [t EXCEPT !.key = k]
    OBVIOUS
  <2>2. r = [key |-> k, every |-> t.every, running |-> t.running]
    BY <1>3, <2>1
  <2>3. [r EXCEPT !.running = b] = [key |-> k, every |-> t.every, running |-> b]
    BY <2>2
  <2>. QED BY <2>1, <2>3, Zenon
<1>5. tasks' = [tasks EXCEPT ![w] = [[t EXCEPT !.key = k] EXCEPT !.running = b]]
  BY <1>1, <1>2
<1>. QED BY <1>2, <1>4, <1>5

(* Two profiles never hold the same key, and who holds one is scheduled. *)
LEMMA KeysDistinct ==
  ASSUME TypeOK, KeysLive
  PROVE  /\ \A u, v \in Uids : tasks[u].key # None /\ tasks[u].key = tasks[v].key => u = v
         /\ \A u \in Uids : tasks[u].key # None =>
              tasks[u].key \in Keys /\ tasks[u].key \notin Free /\ Scheduled(u)
<1>1. ASSUME NEW u \in Uids, tasks[u].key # None
      PROVE  queue[tasks[u].key] = [uid |-> u, every |-> tasks[u].every]
  BY <1>1, Zenon DEF KeysLive
<1>2. ASSUME NEW u \in Uids, tasks[u].key # None
      PROVE  queue[tasks[u].key].uid = u
  <2>1. queue[tasks[u].key] = [uid |-> u, every |-> tasks[u].every]
    BY <1>1, <1>2, Zenon
  <2>. QED BY <2>1
<1>3. \A u, v \in Uids : tasks[u].key # None /\ tasks[u].key = tasks[v].key => u = v
  BY <1>2, Zenon
<1>4. ASSUME NEW u \in Uids, tasks[u].key # None
      PROVE  tasks[u].key \in Keys /\ tasks[u].key \notin Free /\ Scheduled(u)
  <2>1. tasks[u].key \in Keys /\ tasks[u].every \in Intervals \cup {0}
    BY <1>4, RowType
  <2>2. queue[tasks[u].key] = [uid |-> u, every |-> tasks[u].every]
    BY <1>1, <1>4
  <2>3. queue[tasks[u].key] \in Entry \cup {None}
    BY <2>1 DEF TypeOK
  <2>4. tasks[u].every \in Nat
    <3>1. PICK n \in Intervals \cup {0} : n = tasks[u].every
      BY <2>1
    <3>2. n \in Nat
      BY TimerAssumption
    <3>. QED BY <3>1, <3>2
  <2>5. queue[tasks[u].key] # None
    BY <2>2, <2>4, TimerAssumption
  <2>6. tasks[u].every \in Intervals
    BY <2>2, <2>3, <2>5
  <2>. QED BY <2>1, <2>5, <2>6, TimerAssumption
<1>. QED BY <1>3, <1>4

(* The table and the queue agree: what TypeOK and KeysLive say of them. *)
Agree ==
  /\ queue \in [Keys -> Entry \cup {None}]
  /\ tasks \in [Uids -> TaskState]
  /\ KeysLive

(* What applying a map does to each profile: those that leave the map are  *)
(* forgotten, those that have an entry or a running update keep it, and    *)
(* new ones get an entry.                                                  *)
Applied(map) ==
  \A u \in Uids :
    /\ map[u] = 0 => tasks'[u] = Unscheduled
    /\ map[u] # 0 => tasks'[u].every = map[u] /\ tasks'[u].running = tasks[u].running
    /\ map[u] # 0 /\ Scheduled(u) /\ (tasks[u].key # None \/ tasks[u].running) =>
         tasks'[u].key = tasks[u].key /\ Entries(u)' = Entries(u)
    /\ map[u] # 0 /\ ~Scheduled(u) =>
         tasks'[u].key \in Keys /\ Entries(u)' = Entries(u) \cup {tasks'[u].key}

(* Applying a map keeps the table and the queue in agreement. *)
LEMMA ApplyKeeps ==
  ASSUME TypeOK, KeysLive, NEW map \in Maps, ApplyTimerMap(map)
  PROVE  Agree' /\ Applied(map)
<1> DEFINE gone == {u \in Uids : map[u] = 0}
           free == Free \cup ({tasks[u].key : u \in gone} \ {None})
           fresh == {u \in Uids \ gone :
                       \/ ~Scheduled(u)
                       \/ tasks[u].every # map[u] /\ tasks[u].key = None /\ ~tasks[u].running}
<1>1. PICK key \in Injection(fresh, free) :
        /\ tasks' = [u \in Uids |->
                      IF u \in gone THEN Unscheduled
                      ELSE [key |-> IF u \in fresh THEN key[u] ELSE tasks[u].key,
                            every |-> map[u], running |-> tasks[u].running]]
        /\ queue' = [k \in Keys |->
                      LET new == {u \in fresh : key[u] = k}
                      IN IF new # {}
                           THEN LET u == CHOOSE u \in new : TRUE IN [uid |-> u, every |-> map[u]]
                         ELSE IF k \in free THEN None
                         ELSE IF tasks[queue[k].uid].key = k
                           THEN [queue[k] EXCEPT !.every = map[queue[k].uid]]
                         ELSE queue[k]]
  BY Zenon DEF ApplyTimerMap
<1>2. /\ \A u \in fresh : key[u] \in free
      /\ \A u, v \in fresh : key[u] = key[v] => u = v
  BY DEF Injection, IsInjective
<1>3. free \subseteq Keys
  BY KeysDistinct
<1>4. \A u \in Uids \ gone : map[u] \in Intervals
  BY DEF gone
<1>5. \A u \in fresh : u \in Uids \ gone
  OBVIOUS
<1>6. ASSUME NEW u \in Uids \ gone, tasks[u].key # None
      PROVE  tasks[u].key \in Keys \ free
  <2>1. tasks[u].key \in Keys /\ tasks[u].key \notin Free
    BY <1>6, KeysDistinct
  <2>2. \A v \in gone : tasks[v].key # tasks[u].key
    BY <1>6, KeysDistinct
  <2>. QED BY <2>1, <2>2
<1> HIDE DEF gone, free, fresh
<1>7. ASSUME NEW k \in Keys, NEW u \in fresh, key[u] = k
      PROVE  queue'[k] = [uid |-> u, every |-> map[u]]
  <2>1. {v \in fresh : key[v] = k} = {u}
    BY <1>2, <1>7
  <2>2. (CHOOSE v \in {u} : TRUE) = u
    OBVIOUS
  <2>. QED BY <1>1, <2>1, <2>2
<1>8. ASSUME NEW k \in Keys, \A u \in fresh : key[u] # k
      PROVE  queue'[k] = IF k \in free THEN None
                         ELSE IF tasks[queue[k].uid].key = k
                           THEN [queue[k] EXCEPT !.every = map[queue[k].uid]]
                         ELSE queue[k]
  <2>1. {v \in fresh : key[v] = k} = {}
    BY <1>8
  <2>. QED BY <1>1, <2>1
<1>9. ASSUME NEW k \in Keys \ free
      PROVE  queue[k] \in Entry
  BY <1>9 DEF TypeOK, free
<1>10. ASSUME NEW k \in Keys \ free, tasks[queue[k].uid].key = k
       PROVE  queue[k].uid \in Uids \ gone
  <2>1. queue[k].uid \in Uids
    BY <1>9
  <2>2. k # None
    BY TimerAssumption
  <2>3. k \notin {tasks[u].key : u \in gone}
    BY <2>2 DEF free
  <2>. QED BY <1>10, <2>1, <2>3 DEF gone
<1>11. queue' \in [Keys -> Entry \cup {None}]
  <2> SUFFICES ASSUME NEW k \in Keys PROVE queue'[k] \in Entry \cup {None}
    BY <1>1
  <2>1. CASE \E u \in fresh : key[u] = k
    <3>1. PICK u \in fresh : key[u] = k
      BY <2>1
    <3>2. queue'[k] = [uid |-> u, every |-> map[u]]
      BY <3>1, <1>7
    <3>. QED BY <3>2, <1>4, <1>5
  <2>2. CASE \A u \in fresh : key[u] # k
    <3>1. CASE k \in free
      BY <3>1, <2>2, <1>8
    <3>2. CASE k \notin free /\ tasks[queue[k].uid].key = k
      <4>1. queue'[k] = [queue[k] EXCEPT !.every = map[queue[k].uid]]
        BY <3>2, <2>2, <1>8
      <4>2. queue[k] \in Entry /\ map[queue[k].uid] \in Intervals
        BY <3>2, <1>4, <1>9, <1>10
      <4>. QED BY <4>1, <4>2
    <3>3. CASE k \notin free /\ tasks[queue[k].uid].key # k
      BY <3>3, <2>2, <1>8, <1>9
    <3>. QED BY <3>1, <3>2, <3>3
  <2>. QED BY <2>1, <2>2
<1>12. ASSUME NEW u \in Uids
       PROVE  tasks'[u] = IF u \in gone THEN Unscheduled
                ELSE [key |-> IF u \in fresh THEN key[u] ELSE tasks[u].key,
                      every |-> map[u], running |-> tasks[u].running]
  BY <1>1
<1>13. tasks' \in [Uids -> TaskState]
  <2> SUFFICES ASSUME NEW u \in Uids PROVE tasks'[u] \in TaskState
    BY <1>1
  <2>1. CASE u \in gone
    <3>1. tasks'[u] = Unscheduled
      BY <2>1, <1>12, Zenon
    <3>. QED BY <3>1 DEF Unscheduled, TaskState
  <2>2. CASE u \notin gone
    <3>1. tasks'[u] = [key |-> IF u \in fresh THEN key[u] ELSE tasks[u].key,
                       every |-> map[u], running |-> tasks[u].running]
      BY <2>2, <1>12
    <3>2. (IF u \in fresh THEN key[u] ELSE tasks[u].key) \in Keys \cup {None}
      BY <1>2, <1>3, RowType
    <3>3. map[u] \in Intervals /\ tasks[u].running \in BOOLEAN
      BY <2>2, <1>4, RowType
    <3>. QED BY <3>1, <3>2, <3>3 DEF TaskState
  <2>. QED BY <2>1, <2>2
<1>14. KeysLive'
  <2> SUFFICES ASSUME NEW u \in Uids, tasks'[u].key # None
               PROVE  queue'[tasks'[u].key] = [uid |-> u, every |-> tasks'[u].every]
    BY DEF KeysLive
  <2>0. u \in gone => tasks'[u] = Unscheduled
    BY <1>12, Zenon
  <2>1. u \notin gone
    BY <2>0 DEF Unscheduled
  <2>2. /\ tasks'[u].key = IF u \in fresh THEN key[u] ELSE tasks[u].key
        /\ tasks'[u].every = map[u]
    <3>1. tasks'[u] = [key |-> IF u \in fresh THEN key[u] ELSE tasks[u].key,
                       every |-> map[u], running |-> tasks[u].running]
      BY <2>1, <1>12, Zenon
    <3>. QED BY <3>1
  <2>3. CASE u \in fresh
    <3>1. key[u] \in Keys
      BY <2>3, <1>2, <1>3
    <3>. QED BY <2>2, <2>3, <3>1, <1>7
  <2>4. CASE u \notin fresh
    <3> DEFINE k == tasks[u].key
    <3>1. k # None /\ tasks'[u].key = k
      BY <2>2, <2>4
    <3>2. k \in Keys \ free
      BY <2>1, <3>1, <1>6
    <3>3. queue[k] = [uid |-> u, every |-> tasks[u].every]
      BY <3>1, Zenon DEF KeysLive
    <3>4. \A v \in fresh : key[v] # k
      BY <3>2, <1>2
    <3>5. tasks[queue[k].uid].key = k
      BY <3>3
    <3>6. queue'[k] = [queue[k] EXCEPT !.every = map[queue[k].uid]]
      BY <3>2, <3>4, <3>5, <1>8
    <3>7. queue'[k] = [uid |-> u, every |-> map[u]]
      BY <3>3, <3>6
    <3>. QED BY <2>2, <3>1, <3>7
  <2>. QED BY <2>3, <2>4
<1>15. ASSUME NEW u \in Uids \ gone
       PROVE  Entries(u)' = Entries(u) \cup (IF u \in fresh THEN {key[u]} ELSE {})
  <2>1. \A k \in Entries(u) : k \in Keys /\ queue[k] \in Entry /\ queue[k].uid = u
    BY DEF Entries, TypeOK
  <2>2. \A k \in Entries(u) : k \notin free
    <3>1. \A k \in Entries(u) : k \notin Free
      BY DEF Entries
    <3>2. ASSUME NEW v \in gone, tasks[v].key \in Entries(u) PROVE FALSE
      <4>1. tasks[v].key # None /\ v \in Uids
        BY <2>1, <3>2, TimerAssumption DEF gone
      <4>2. queue[tasks[v].key] = [uid |-> v, every |-> tasks[v].every]
        BY <4>1, Zenon DEF KeysLive
      <4>3. u = v
        BY <2>1, <3>2, <4>2
      <4>. QED BY <3>2, <4>3
    <3>3. None \notin Entries(u)
      BY <2>1, TimerAssumption
    <3>. QED BY <3>1, <3>2, <3>3 DEF free
  <2>3. ASSUME NEW k \in Keys, NEW v \in fresh, key[v] = k
        PROVE  k \in Entries(u)' <=> u = v
    <3>1. queue'[k] = [uid |-> v, every |-> map[v]] /\ map[v] \in Intervals /\ v \in Uids
      BY <2>3, <1>4, <1>5, <1>7
    <3>2. queue'[k] # None /\ queue'[k].uid = v
      BY <3>1, EntryNotNone
    <3>. QED BY <3>2 DEF Entries
  <2>4. ASSUME NEW k \in Keys, \A v \in fresh : key[v] # k
        PROVE  k \in Entries(u)' <=> k \in Entries(u)
    <3>1. CASE k \in free
      BY <2>2, <2>4, <3>1, <1>8 DEF Entries
    <3>2. CASE k \notin free /\ tasks[queue[k].uid].key = k
      <4>1. queue'[k] = [queue[k] EXCEPT !.every = map[queue[k].uid]]
        BY <3>2, <2>4, <1>8
      <4>2. queue[k] \in Entry /\ map[queue[k].uid] \in Intervals
        BY <3>2, <1>4, <1>9, <1>10
      <4>3. queue'[k] \in Entry /\ queue'[k].uid = queue[k].uid
        BY <4>1, <4>2
      <4>. QED BY <4>2, <4>3, EntryNotNone DEF Entries
    <3>3. CASE k \notin free /\ tasks[queue[k].uid].key # k
      BY <3>3, <2>4, <1>8 DEF Entries
    <3>. QED BY <3>1, <3>2, <3>3
  <2>5. \A k \in Entries(u)' : k \in Keys
    BY DEF Entries
  <2>6. ASSUME NEW k \in Keys
        PROVE  k \in Entries(u)' <=> k \in Entries(u) \/ (u \in fresh /\ k = key[u])
    <3>1. CASE \E v \in fresh : key[v] = k
      <4>1. PICK v \in fresh : key[v] = k
        BY <3>1
      <4>2. k \in free
        BY <4>1, <1>2
      <4>3. k \notin Entries(u)
        BY <4>2, <2>2
      <4>4. u \in fresh /\ k = key[u] <=> u = v
        BY <4>1, <1>2
      <4>. QED BY <2>3, <4>1, <4>3, <4>4
    <3>2. CASE \A v \in fresh : key[v] # k
      BY <2>4, <3>2
    <3>. QED BY <3>1, <3>2
  <2>7. u \in fresh => key[u] \in Keys
    BY <1>2, <1>3
  <2>. QED BY <2>1, <2>5, <2>6, <2>7
<1>16. Applied(map)
  <2> SUFFICES ASSUME NEW u \in Uids
      PROVE
        /\ map[u] = 0 => tasks'[u] = Unscheduled
        /\ map[u] # 0 => tasks'[u].every = map[u] /\ tasks'[u].running = tasks[u].running
        /\ map[u] # 0 /\ Scheduled(u) /\ (tasks[u].key # None \/ tasks[u].running) =>
             tasks'[u].key = tasks[u].key /\ Entries(u)' = Entries(u)
        /\ map[u] # 0 /\ ~Scheduled(u) =>
             tasks'[u].key \in Keys /\ Entries(u)' = Entries(u) \cup {tasks'[u].key}
    BY Zenon DEF Applied
  <2>1. CASE u \in gone
    <3>1. map[u] = 0
      BY <2>1 DEF gone
    <3>2. tasks'[u] = Unscheduled
      BY <2>1, <1>12, Zenon
    <3>. QED BY <3>1, <3>2
  <2>2. CASE u \notin gone
    <3>1. tasks'[u] = [key |-> IF u \in fresh THEN key[u] ELSE tasks[u].key,
                       every |-> map[u], running |-> tasks[u].running]
      BY <2>2, <1>12, Zenon
    <3>2. map[u] # 0
      BY <2>2 DEF gone
    <3>3. Scheduled(u) /\ (tasks[u].key # None \/ tasks[u].running) => u \notin fresh
      BY DEF fresh
    <3>4. ~Scheduled(u) => u \in fresh
      BY <2>2 DEF fresh
    <3>5. u \in fresh => key[u] \in Keys
      BY <1>2, <1>3
    <3>6. /\ tasks'[u].key = IF u \in fresh THEN key[u] ELSE tasks[u].key
          /\ tasks'[u].every = map[u] /\ tasks'[u].running = tasks[u].running
      BY <3>1
    <3>7. Entries(u)' = Entries(u) \cup (IF u \in fresh THEN {key[u]} ELSE {})
      BY <2>2, <1>15
    <3>. QED BY <3>2, <3>3, <3>4, <3>5, <3>6, <3>7
  <2>. QED BY <2>1, <2>2
<1>. QED BY <1>11, <1>13, <1>14, <1>16 DEF Agree

(* An expired entry leaves the queue and the table together. *)
LEMMA ExpireKeeps ==
  ASSUME TypeOK, KeysLive, NEW k \in Keys, Expire(k)
  PROVE  Agree' /\ runs' \in [Uids -> Nat]
<1> DEFINE w == queue[k].uid
<1>1. queue' = [queue EXCEPT ![k] = None] /\ queue[k] \in Entry
  BY DEF Expire, TypeOK
<1>2. w \in Uids
  BY <1>1
<1>3. queue' \in [Keys -> Entry \cup {None}]
  BY <1>1 DEF TypeOK
<1>4. runs' \in [Uids -> Nat]
  <2>1. runs' = runs \/ runs' = [runs EXCEPT ![w] = @ + 1]
    BY Zenon DEF Expire, Spawn
  <2>. QED BY <1>2, <2>1 DEF TypeOK
<1>5. CASE Scheduled(w)
  <2>1. tasks' = [tasks EXCEPT ![w].key = None, ![w].running = TRUE]
    BY <1>5, Zenon DEF Expire
  <2>2. tasks' = [tasks EXCEPT ![w] = [key |-> None, every |-> tasks[w].every, running |-> TRUE]]
    BY <1>2, <2>1, RowUpdate
  <2>3. [key |-> None, every |-> tasks[w].every, running |-> TRUE] \in TaskState
    BY <1>2, RowType DEF TaskState
  <2>4. tasks' \in [Uids -> TaskState]
    BY <2>2, <2>3 DEF TypeOK
  <2>5. ASSUME NEW u \in Uids, tasks'[u].key # None
        PROVE  queue'[tasks'[u].key] = [uid |-> u, every |-> tasks'[u].every]
    <3>1. u # w /\ tasks'[u] = tasks[u]
      BY <1>2, <2>2, <2>5 DEF TypeOK
    <3>2. queue[tasks[u].key] = [uid |-> u, every |-> tasks[u].every]
      BY <2>5, <3>1, Zenon DEF KeysLive
    <3>3. tasks[u].key \in Keys
      BY <2>5, <3>1, KeysDistinct
    <3>4. tasks[u].key # k
      BY <3>1, <3>2
    <3>. QED BY <1>1, <3>1, <3>2, <3>3, <3>4 DEF TypeOK
  <2>. QED BY <1>3, <1>4, <2>4, <2>5 DEF Agree, KeysLive
<1>6. CASE ~Scheduled(w)
  <2>1. tasks' = tasks
    BY <1>6 DEF Expire
  <2>2. ASSUME NEW u \in Uids, tasks'[u].key # None
        PROVE  queue'[tasks'[u].key] = [uid |-> u, every |-> tasks'[u].every]
    <3>1. queue[tasks[u].key] = [uid |-> u, every |-> tasks[u].every]
      BY <2>1, <2>2, Zenon DEF KeysLive
    <3>2. tasks[u].key \in Keys /\ Scheduled(u)
      BY <2>1, <2>2, KeysDistinct
    <3>3. tasks[u].key # k
      BY <1>6, <3>1, <3>2
    <3>. QED BY <1>1, <2>1, <3>1, <3>2, <3>3 DEF TypeOK
  <2>. QED BY <1>3, <1>4, <2>1, <2>2 DEF Agree, KeysLive, TypeOK
<1>. QED BY <1>5, <1>6

(* Running a profile at once takes its entry off the queue. *)
LEMMA RunNowKeeps ==
  ASSUME TypeOK, KeysLive, NEW w \in Uids, RunTaskNow(w)
  PROVE  Agree' /\ runs' \in [Uids -> Nat]
<1>1. CASE ~Scheduled(w) \/ tasks[w].running
  <2>1. UNCHANGED <<queue, tasks, runs>>
    BY <1>1, Zenon DEF RunTaskNow
  <2>. QED BY <2>1 DEF Agree, KeysLive, TypeOK
<1>2. CASE ~(~Scheduled(w) \/ tasks[w].running)
  <2>1. /\ tasks' = [tasks EXCEPT ![w].key = None, ![w].running = TRUE]
        /\ queue' = [k \in Keys |-> IF k = tasks[w].key THEN None ELSE queue[k]]
        /\ Spawn(w)
    BY <1>2, Zenon DEF RunTaskNow
  <2>2. tasks' = [tasks EXCEPT ![w] = [key |-> None, every |-> tasks[w].every, running |-> TRUE]]
    BY <2>1, RowUpdate
  <2>3. [key |-> None, every |-> tasks[w].every, running |-> TRUE] \in TaskState
    BY RowType DEF TaskState
  <2>4. tasks' \in [Uids -> TaskState]
    BY <2>2, <2>3 DEF TypeOK
  <2>5. queue' \in [Keys -> Entry \cup {None}]
    BY <2>1 DEF TypeOK
  <2>6. runs' \in [Uids -> Nat]
    BY <2>1 DEF Spawn, TypeOK
  <2>7. ASSUME NEW u \in Uids, tasks'[u].key # None
        PROVE  queue'[tasks'[u].key] = [uid |-> u, every |-> tasks'[u].every]
    <3>1. u # w /\ tasks'[u] = tasks[u]
      BY <2>2, <2>7 DEF TypeOK
    <3>2. queue[tasks[u].key] = [uid |-> u, every |-> tasks[u].every]
      BY <2>7, <3>1, Zenon DEF KeysLive
    <3>3. tasks[u].key \in Keys /\ tasks[u].key # tasks[w].key
      BY <2>7, <3>1, KeysDistinct
    <3>. QED BY <2>1, <3>1, <3>2, <3>3
  <2>. QED BY <2>4, <2>5, <2>6, <2>7 DEF Agree, KeysLive
<1>. QED BY <1>1, <1>2

(* The end of an update gives its profile an entry of its own. *)
LEMMA FinishKeeps ==
  ASSUME TypeOK, KeysLive, NEW w \in Uids, FinishTask(w)
  PROVE  Agree'
<1>1. CASE ~Scheduled(w)
  <2>1. UNCHANGED <<queue, tasks>>
    BY <1>1, Zenon DEF FinishTask
  <2>. QED BY <2>1 DEF Agree, KeysLive, TypeOK
<1>2. CASE Scheduled(w)
  <2>1. PICK k \in Free :
          /\ queue' = [queue EXCEPT ![k] = [uid |-> w, every |-> tasks[w].every]]
          /\ tasks' = [tasks EXCEPT ![w].key = k, ![w].running = FALSE]
    BY <1>2, Zenon DEF FinishTask, Schedule
  <2>2. k \in Keys /\ queue[k] = None
    OBVIOUS
  <2>3. tasks' = [tasks EXCEPT ![w] = [key |-> k, every |-> tasks[w].every, running |-> FALSE]]
    BY <2>1, RowUpdate
  <2>4. [key |-> k, every |-> tasks[w].every, running |-> FALSE] \in TaskState
    BY <2>2, RowType DEF TaskState
  <2>5. tasks' \in [Uids -> TaskState]
    BY <2>3, <2>4 DEF TypeOK
  <2>6. tasks[w].every \in Intervals
    BY <1>2, RowType
  <2>7. queue' \in [Keys -> Entry \cup {None}]
    BY <2>1, <2>6 DEF TypeOK
  <2>8. ASSUME NEW u \in Uids, tasks'[u].key # None
        PROVE  queue'[tasks'[u].key] = [uid |-> u, every |-> tasks'[u].every]
    <3>1. CASE u = w
      BY <2>1, <2>2, <2>3, <3>1 DEF TypeOK
    <3>2. CASE u # w
      <4>1. tasks'[u] = tasks[u]
        BY <2>3, <3>2 DEF TypeOK
      <4>2. queue[tasks[u].key] = [uid |-> u, every |-> tasks[u].every]
        BY <2>8, <4>1, Zenon DEF KeysLive
      <4>3. tasks[u].key \in Keys /\ tasks[u].key \notin Free
        BY <2>8, <4>1, KeysDistinct
      <4>. QED BY <2>1, <2>2, <4>1, <4>2, <4>3 DEF TypeOK
    <3>. QED BY <3>1, <3>2
  <2>. QED BY <2>5, <2>7, <2>8 DEF Agree, KeysLive
<1>. QED BY <1>1, <1>2

(* How many ends of updates of a profile the scheduler has still to hear.  *)
Reported(u) == Cardinality(Reports(u))

Ends(u, cmd) == cmd.op = "TaskFinished" /\ cmd.uid = u

(* Reports are finitely many.                                              *)
LEMMA ReportsFinite ==
  ASSUME TypeOK, NEW u
  PROVE  IsFiniteSet(Reports(u)) /\ Reported(u) \in Nat
<1>1. commands \in Seq(Command)
  BY DEF TypeOK
<1>2. Len(commands) \in Nat /\ DOMAIN commands = 1..Len(commands)
  BY <1>1
<1>3. IsFiniteSet(DOMAIN commands)
  BY <1>2, FS_Interval
<1>4. Reports(u) \in SUBSET DOMAIN commands
  BY DEF Reports
<1>5. IsFiniteSet(Reports(u))
  BY <1>3, <1>4, FS_Subset
<1>. QED BY <1>5, FS_CardinalityType DEF Reported

(* A command that is sent is a report or leaves the reports alone.         *)
LEMMA ReportsAppend ==
  ASSUME TypeOK, NEW cmd \in Command, Send(cmd), NEW u
  PROVE  Reported(u)' = Reported(u) + IF Ends(u, cmd) THEN 1 ELSE 0
<1> DEFINE n == Len(commands) + 1
<1>1. commands \in Seq(Command) /\ commands' = Append(commands, cmd)
  BY DEF TypeOK, Send
<1>2. /\ DOMAIN commands = 1..Len(commands) /\ DOMAIN commands' = 1..n
      /\ Len(commands) \in Nat
      /\ n \notin DOMAIN commands
      /\ DOMAIN commands' = DOMAIN commands \cup {n}
      /\ commands'[n] = cmd
      /\ \A i \in DOMAIN commands : commands'[i] = commands[i]
  BY <1>1
<1>3. n \notin Reports(u)
  BY <1>2 DEF Reports
<1> HIDE DEF n
<1>4. CASE Ends(u, cmd)
  <2>1. Reports(u)' = Reports(u) \cup {n}
    BY <1>2, <1>4 DEF Reports, Ends
  <2>. QED BY <1>3, <1>4, <2>1, ReportsFinite, FS_AddElement DEF Reported
<1>5. CASE ~Ends(u, cmd)
  <2>1. Reports(u)' = Reports(u)
    BY <1>2, <1>5 DEF Reports, Ends
  <2>. QED BY <1>5, <2>1, ReportsFinite DEF Reported
<1>. QED BY <1>4, <1>5

(* Receiving a command takes one report off the channel, or none.          *)
LEMMA ReportsTail ==
  ASSUME TypeOK, commands # <<>>, commands' = Tail(commands), NEW u
  PROVE  Reported(u) = Reported(u)' + IF Ends(u, Head(commands)) THEN 1 ELSE 0
<1>1. commands \in Seq(Command)
  BY DEF TypeOK
<1>2. /\ Len(commands) \in Nat \ {0} /\ DOMAIN commands = 1..Len(commands)
      /\ DOMAIN commands' = 1..(Len(commands) - 1)
      /\ Head(commands) = commands[1]
      /\ \A i \in DOMAIN commands' : commands'[i] = commands[i + 1]
  BY <1>1
<1> DEFINE S == Reports(u)' 
           T == Reports(u) \ {1}
           shift == [i \in S |-> i + 1]
<1>3. \A i \in S : i \in DOMAIN commands' /\ i + 1 \in T
  BY <1>2 DEF Reports
<1>4. \A j \in T : j - 1 \in S /\ shift[j - 1] = j
  BY <1>2 DEF Reports
<1>5. \A i, j \in S : shift[i] = shift[j] => i = j
  BY <1>2, <1>3
<1>6. shift \in [S -> T]
  BY <1>3
<1>7. \A j \in T : \E i \in S : shift[i] = j
  BY <1>4
<1>8. shift \in Injection(S, T)
  BY <1>5, <1>6 DEF Injection, IsInjective
<1>9. shift \in Surjection(S, T)
  BY <1>6, <1>7 DEF Surjection
<1>10. IsFiniteSet(T) /\ Cardinality(T) = IF 1 \in Reports(u) THEN Reported(u) - 1 ELSE Reported(u)
  BY ReportsFinite, FS_RemoveElement DEF Reported
<1> HIDE DEF S, T, shift
<1>11. Cardinality(S) = Cardinality(T)
  BY <1>8, <1>9, <1>10, FS_Injection
<1>12. 1 \in Reports(u) <=> Ends(u, Head(commands))
  BY <1>2 DEF Reports, Ends
<1>13. Cardinality(S) = Reported(u)'
  BY DEF S, Reported
<1>14. Reported(u) \in Nat
  BY ReportsFinite
<1>. QED BY <1>10, <1>11, <1>12, <1>13, <1>14

Live == TypeOK /\ KeysLive

(* The callers and the reports only append commands of the right shape. *)
LEMMA CommandTypes ==
  /\ \A map \in Maps : [op |-> "Apply", map |-> map] \in Command
  /\ \A u \in Uids : [op |-> "RunNow", uid |-> u] \in Command
  /\ \A u \in Uids : [op |-> "TaskFinished", uid |-> u] \in Command
BY DEF Command

(* A command carries what its handler reads from it. *)
LEMMA CommandFields ==
  ASSUME NEW cmd \in Command
  PROVE  /\ cmd.op = "Apply" => cmd.map \in Maps
         /\ cmd.op \in {"RunNow", "TaskFinished"} => cmd.uid \in Uids
<1>1. CASE cmd \in [op : {"Apply"}, map : Maps]
  BY <1>1
<1>2. CASE cmd \in [op : {"RunNow", "TaskFinished"}, uid : Uids]
  BY <1>2
<1>. QED BY <1>1, <1>2 DEF Command

(* A caller's step keeps its own record and the channel well typed. *)
LEMMA RefreshTypes ==
  ASSUME TypeOK, NEW c \in Callers, Refresh(c)
  PROVE  TypeOK' /\ UNCHANGED <<queue, tasks>>
<1>1. calls[c] \in Calls /\ calls \in [Callers -> Calls]
  BY DEF TypeOK
<1>2. NoMap \in Maps /\ Asleep \in Calls
  BY DEF NoMap, Asleep, Calls
<1>3. ASSUME Refreshed(c) PROVE calls' \in [Callers -> Calls]
  <2>1. CASE c = Boot
    <3>1. PICK S \in SUBSET {u \in Uids : profiles[u] # 0} :
            calls' = [calls EXCEPT ![c] = [Asleep EXCEPT !.pc = "overdue", !.overdue = S]]
      BY <1>3, <2>1, Zenon DEF Refreshed
    <3>2. [Asleep EXCEPT !.pc = "overdue", !.overdue = S] \in Calls
      BY <1>2 DEF Calls
    <3>. QED BY <1>1, <3>1, <3>2
  <2>2. CASE c # Boot
    BY <1>1, <1>2, <1>3, <2>2 DEF Refreshed
  <2>. QED BY <2>1, <2>2
<1>4. CASE GenMap(c)
  <2>1. calls' \in [Callers -> Calls]
    BY <1>1, <1>4 DEF GenMap, TypeOK, Calls
  <2>. QED BY <1>4, <2>1 DEF GenMap, TypeOK
<1>5. CASE WriteCache(c)
  <2>1. calls[c].map \in Maps
    BY <1>1 DEF Calls
  <2>2. CASE timerMap = calls[c].map
    BY <1>3, <1>5, <2>2 DEF WriteCache, TypeOK
  <2>3. CASE timerMap # calls[c].map
    <3>1. timerMap' = calls[c].map /\ calls' = [calls EXCEPT ![c].pc = "send"]
      BY <1>5, <2>3 DEF WriteCache
    <3>2. calls' \in [Callers -> Calls]
      BY <1>1, <3>1 DEF Calls
    <3>. QED BY <1>5, <2>1, <3>1, <3>2 DEF WriteCache, TypeOK
  <2>. QED BY <2>2, <2>3
<1>6. CASE SendApply(c)
  <2>1. calls[c].map \in Maps
    BY <1>1 DEF Calls
  <2>2. commands' \in Seq(Command)
    BY <1>6, <2>1, CommandTypes DEF SendApply, Send, TypeOK
  <2>. QED BY <1>3, <1>6, <2>2 DEF SendApply, TypeOK
<1>7. CASE SendRunNow(c)
  <2>1. CASE calls[c].overdue = {}
    BY <1>1, <1>2, <1>7, <2>1 DEF SendRunNow, TypeOK
  <2>2. CASE calls[c].overdue # {}
    <3>1. PICK u \in calls[c].overdue :
            /\ Send([op |-> "RunNow", uid |-> u])
            /\ calls' = [calls EXCEPT ![c].overdue = @ \ {u}]
      BY <1>7, <2>2 DEF SendRunNow
    <3>2. u \in Uids
      BY <1>1 DEF Calls
    <3>3. commands' \in Seq(Command)
      BY <3>1, <3>2, CommandTypes DEF Send, TypeOK
    <3>4. calls' \in [Callers -> Calls]
      BY <1>1, <3>1 DEF Calls
    <3>. QED BY <1>7, <3>3, <3>4 DEF SendRunNow, TypeOK
  <2>. QED BY <2>1, <2>2
<1>. QED BY <1>4, <1>5, <1>6, <1>7 DEF Refresh

(* The table and the queue agree at the start ...                          *)
LEMMA LiveInit == Init => Live
<1> SUFFICES ASSUME Init PROVE Live
  OBVIOUS
<1>1. \A u \in Uids : tasks[u] = Unscheduled
  BY DEF Init
<1>2. KeysLive
  BY <1>1 DEF KeysLive, Unscheduled
<1>3. Unscheduled \in TaskState
  BY DEF Unscheduled, TaskState
<1>4. NoMap \in Maps /\ Asleep \in Calls /\ [Asleep EXCEPT !.pc = "gen"] \in Calls
  BY DEF NoMap, Asleep, Calls
<1>5. tasks \in [Uids -> TaskState]
  BY <1>3 DEF Init
<1>6. queue \in [Keys -> Entry \cup {None}] /\ runs \in [Uids -> Nat]
  BY DEF Init
<1>7. calls \in [Callers -> Calls]
  BY <1>4 DEF Init
<1>8. profiles \in Maps /\ timerMap \in Maps /\ commands \in Seq(Command) /\ edits \in 0..MaxEdits
  BY <1>4, TimerAssumption DEF Init
<1>. QED BY <1>2, <1>5, <1>6, <1>7, <1>8 DEF Live, TypeOK

(* ... and after every step ...                                            *)
LEMMA LiveStep == Live /\ [Next]_vars => Live'
<1> SUFFICES ASSUME TypeOK, KeysLive, [Next]_vars PROVE Live'
  BY DEF Live
<1>1. ASSUME NEW c \in Callers, NEW u \in Uids, NEW i \in Intervals \cup {0}, Edit(c, u, i)
      PROVE  Live'
  <2>1. profiles' \in Maps
    BY <1>1 DEF Edit, TypeOK
  <2>2. calls' \in [Callers -> Calls]
    <3>1. calls' = calls \/ calls' = [calls EXCEPT ![c].pc = "gen"]
      BY <1>1, Zenon DEF Edit
    <3>2. calls[c] \in Calls /\ calls \in [Callers -> Calls]
      BY DEF TypeOK
    <3>3. [calls[c] EXCEPT !.pc = "gen"] \in Calls
      BY <3>2 DEF Calls
    <3>. QED BY <3>1, <3>2, <3>3
  <2>3. edits' \in 0..MaxEdits
    BY <1>1, TimerAssumption DEF Edit, TypeOK
  <2>4. UNCHANGED <<timerMap, commands, queue, tasks, runs>>
    BY <1>1 DEF Edit
  <2>. QED BY <2>1, <2>2, <2>3, <2>4 DEF Live, KeysLive, TypeOK
<1>2. ASSUME NEW c \in Callers, Refresh(c) PROVE Live'
  BY <1>2, RefreshTypes DEF Live, KeysLive
<1>3. ASSUME NEW k \in Keys, Expire(k) PROVE Live'
  <2>1. Agree' /\ runs' \in [Uids -> Nat]
    BY <1>3, ExpireKeeps
  <2>2. UNCHANGED <<profiles, timerMap, commands, calls, edits>>
    BY <1>3 DEF Expire
  <2>. QED BY <2>1, <2>2 DEF Agree, Live, TypeOK
<1>4. CASE Receive
  <2> DEFINE cmd == Head(commands)
  <2>1. cmd \in Command /\ commands' \in Seq(Command)
    BY <1>4 DEF Receive, TypeOK
  <2>2. UNCHANGED <<profiles, timerMap, calls, edits>>
    BY <1>4 DEF Receive
  <2>3. Agree' /\ runs' \in [Uids -> Nat]
    <3>1. CASE cmd.op = "Apply" /\ ApplyTimerMap(cmd.map) /\ UNCHANGED runs
      <4>1. Agree'
        BY <2>1, <3>1, ApplyKeeps, CommandFields
      <4>. QED BY <3>1, <4>1 DEF TypeOK
    <3>2. CASE cmd.op = "RunNow" /\ RunTaskNow(cmd.uid)
      BY <2>1, <3>2, RunNowKeeps, CommandFields
    <3>3. CASE cmd.op = "TaskFinished" /\ FinishTask(cmd.uid) /\ UNCHANGED runs
      <4>1. Agree'
        BY <2>1, <3>3, FinishKeeps, CommandFields
      <4>. QED BY <3>3, <4>1 DEF TypeOK
    <3>. QED BY <1>4, <3>1, <3>2, <3>3 DEF Receive
  <2>. QED BY <2>1, <2>2, <2>3 DEF Agree, Live, TypeOK
<1>5. ASSUME NEW u \in Uids, EndRun(u) PROVE Live'
  <2>1. runs' \in [Uids -> Nat]
    BY <1>5 DEF EndRun, TypeOK
  <2>2. commands' \in Seq(Command)
    BY <1>5, CommandTypes DEF EndRun, Send, TypeOK
  <2>. QED BY <1>5, <2>1, <2>2 DEF EndRun, Live, KeysLive, TypeOK
<1>6. CASE UNCHANGED vars
  BY <1>6 DEF vars, Live, KeysLive, TypeOK
<1>. QED BY <1>1, <1>2, <1>3, <1>4, <1>5, <1>6 DEF Next

(* ... hence in every reachable state.                                     *)
LEMMA LiveInvariant == Spec => []Live
BY LiveInit, LiveStep, PTL DEF Spec

(* Every reachable state of the timer has its type. *)
THEOREM TimerType == Spec => []TypeOK
<1>1. Live => TypeOK
  BY DEF Live
<1>. QED BY <1>1, LiveInvariant, PTL

(* Whatever order commands, expirations and ends of updates come in, the   *)
(* key the table holds for a profile is that of a live entry of that       *)
(* profile: DelayQueue::reset and remove never panic.                      *)
THEOREM TimerKeys == Spec => []KeysLive
<1>1. Live => KeysLive
  BY DEF Live
<1>. QED BY <1>1, LiveInvariant, PTL

-----------------------------------------------------------------------------
(* NeverForgotten and OnePending.  Neither is inductive: a report on its   *)
(* way must not be the end of an update that the table does not know to    *)
(* run, so the parts below say for each row of the table which entries and *)
(* which ends of updates stand for it.                                     *)

(* Updates of a profile whose end the scheduler has not heard of.          *)
Ongoing(u) == runs[u] + Reported(u)

(* A profile that waits has an entry, one that is updated is going to be   *)
(* reported, and one that is off the timer has neither key nor flag.       *)
Covered(u) ==
  /\ ~Scheduled(u) => ~tasks[u].running
  /\ Scheduled(u) /\ tasks[u].running => Ongoing(u) > 0
  /\ Scheduled(u) /\ ~tasks[u].running => tasks[u].key # None

(* What stands for a profile that stays on the timer is what its row says. *)
Exact(u) ==
  /\ ~Scheduled(u) => Entries(u) = {} /\ Ongoing(u) = 0
  /\ Scheduled(u) /\ tasks[u].running => Entries(u) = {} /\ Ongoing(u) = 1
  /\ Scheduled(u) /\ ~tasks[u].running => Entries(u) = {tasks[u].key} /\ Ongoing(u) = 0

Watched(u) == Covered(u) /\ (u \in Kept => Exact(u))

(* Maps on their way give the profiles intervals they may have.            *)
Given ==
  /\ \A u \in Uids : profiles[u] \in Choices[u]
  /\ \A c \in Callers : calls[c].pc \in {"cache", "send"} =>
       \A u \in Uids : calls[c].map[u] \in Choices[u]
  /\ \A i \in DOMAIN commands : commands[i].op = "Apply" =>
       \A u \in Uids : commands[i].map[u] \in Choices[u]

(* Entries and ends can be counted.                                        *)
LEMMA EntriesFinite ==
  ASSUME NEW u
  PROVE  Cardinality(Entries(u)) \in Nat
<1>1. Entries(u) \in SUBSET Keys
  BY DEF Entries
<1>. QED BY <1>1, TimerAssumption, FS_Subset, FS_CardinalityType

LEMMA OngoingType ==
  ASSUME TypeOK, NEW u \in Uids
  PROVE  runs[u] \in Nat /\ Reported(u) \in Nat /\ Ongoing(u) \in Nat
<1>1. runs[u] \in Nat
  BY DEF TypeOK
<1>. QED BY <1>1, ReportsFinite DEF Ongoing

(* A row that keeps its entries, its flag and its ends stays watched.      *)
LEMMA SameRow ==
  ASSUME NEW u \in Uids, Watched(u),
         Scheduled(u)' = Scheduled(u), tasks'[u].key = tasks[u].key,
         tasks'[u].running = tasks[u].running,
         Entries(u)' = Entries(u), Ongoing(u)' = Ongoing(u)
  PROVE  Watched(u)'
BY DEF Watched, Covered, Exact, Kept

(* Applying a map, whose command is no report.                             *)
LEMMA ApplyWatches ==
  ASSUME TypeOK, KeysLive, NEW u \in Uids, Watched(u),
         NEW map \in Maps, map[u] \in Choices[u], Applied(map), Ongoing(u)' = Ongoing(u)
  PROVE  Watched(u)'
<1>1. CASE map[u] = 0
  <2>1. tasks'[u] = Unscheduled
    BY <1>1, Zenon DEF Applied
  <2>2. tasks'[u].every = 0 /\ tasks'[u].running = FALSE
    BY <2>1 DEF Unscheduled
  <2>3. u \notin Kept
    BY <1>1 DEF Kept
  <2>. QED BY <2>2, <2>3 DEF Watched, Covered
<1>2. CASE map[u] # 0 /\ Scheduled(u)
  <2>1. tasks[u].key # None \/ tasks[u].running
    BY <1>2 DEF Watched, Covered
  <2>2. tasks'[u].key = tasks[u].key /\ Entries(u)' = Entries(u)
    BY <1>2, <2>1, Zenon DEF Applied
  <2>3. tasks'[u].every = map[u] /\ tasks'[u].running = tasks[u].running
    BY <1>2, Zenon DEF Applied
  <2>. QED BY <1>2, <2>2, <2>3, SameRow
<1>3. CASE map[u] # 0 /\ ~Scheduled(u)
  <2>1. tasks'[u].key \in Keys /\ Entries(u)' = Entries(u) \cup {tasks'[u].key}
    BY <1>3, Zenon DEF Applied
  <2>2. tasks'[u].every = map[u] /\ tasks'[u].running = tasks[u].running
    BY <1>3, Zenon DEF Applied
  <2>3. tasks'[u].key # None
    BY <2>1, TimerAssumption
  <2>. QED BY <1>3, <2>1, <2>2, <2>3 DEF Watched, Covered, Exact, Kept
<1>. QED BY <1>1, <1>2, <1>3

(* An entry expires: its update begins, unless one is running.            *)
LEMMA ExpireWatches ==
  ASSUME TypeOK, KeysLive, NEW k \in Keys, Expire(k), NEW u \in Uids, Watched(u)
  PROVE  Watched(u)'
<1> DEFINE w == queue[k].uid
<1>1. /\ queue' = [queue EXCEPT ![k] = None] /\ queue[k] \in Entry
      /\ queue \in [Keys -> Entry \cup {None}] /\ commands' = commands
  BY DEF Expire, TypeOK
<1>2. w \in Uids
  BY <1>1
<1>3. Entries(u)' = Entries(u) \ {k}
  BY <1>1 DEF Entries
<1>4. UNCHANGED Reports(u)
  BY <1>1 DEF Reports
<1>5. w = u <=> k \in Entries(u)
  BY <1>1, EntryNotNone DEF Entries
<1>6. CASE w # u
  <2>1. tasks'[u] = tasks[u] /\ runs'[u] = runs[u]
    <3>1. CASE Scheduled(w)
      <4>1. tasks' = [tasks EXCEPT ![w].key = None, ![w].running = TRUE]
        BY <3>1, Zenon DEF Expire
      <4>2. runs' = runs \/ runs' = [runs EXCEPT ![w] = @ + 1]
        BY <3>1, Zenon DEF Expire, Spawn
      <4>. QED BY <1>2, <1>6, <4>1, <4>2, RowUpdate DEF TypeOK
    <3>2. CASE ~Scheduled(w)
      BY <3>2 DEF Expire
    <3>. QED BY <3>1, <3>2
  <2>2. Entries(u)' = Entries(u)
    BY <1>3, <1>5, <1>6
  <2>. QED BY <1>4, <2>1, <2>2, SameRow DEF Ongoing, Reported
<1>7. CASE w = u /\ ~Scheduled(u)
  <2>1. tasks' = tasks /\ runs' = runs
    BY <1>7 DEF Expire
  <2>2. u \notin Kept
    BY <1>5, <1>7 DEF Watched, Exact
  <2>. QED BY <1>4, <1>7, <2>1, <2>2 DEF Watched, Covered
<1>8. CASE w = u /\ Scheduled(u)
  <2>1. tasks' = [tasks EXCEPT ![u].key = None, ![u].running = TRUE]
    BY <1>8, Zenon DEF Expire
  <2>2. tasks' = [tasks EXCEPT ![u] = [key |-> None, every |-> tasks[u].every, running |-> TRUE]]
    BY <2>1, RowUpdate
  <2>3. tasks'[u].every = tasks[u].every /\ tasks'[u].running = TRUE
    BY <2>2 DEF TypeOK
  <2>4. CASE tasks[u].running
    <3>1. runs' = runs
      BY <1>8, <2>4, Zenon DEF Expire
    <3>2. u \notin Kept
      BY <1>5, <1>8, <2>4 DEF Watched, Exact
    <3>. QED BY <1>4, <1>8, <2>3, <2>4, <3>1, <3>2 DEF Watched, Covered, Ongoing, Reported
  <2>5. CASE ~tasks[u].running
    <3>1. runs' = [runs EXCEPT ![u] = @ + 1]
      BY <1>8, <2>5, Zenon DEF Expire, Spawn
    <3>2. runs'[u] = runs[u] + 1
      BY <3>1 DEF TypeOK
    <3>3. Ongoing(u)' = Ongoing(u) + 1 /\ Ongoing(u) \in Nat
      BY <1>4, <3>2, OngoingType DEF Ongoing, Reported
    <3>4. u \in Kept => Entries(u)' = {} /\ Ongoing(u) = 0
      BY <1>3, <1>5, <1>8, <2>5 DEF Watched, Exact
    <3>. QED BY <1>8, <2>3, <3>3, <3>4 DEF Watched, Covered, Exact, Kept
  <2>. QED BY <2>4, <2>5
<1>. QED BY <1>6, <1>7, <1>8

(* ... whose command is no report either.                                  *)
LEMMA RunNowWatches ==
  ASSUME TypeOK, KeysLive, NEW w \in Uids, RunTaskNow(w), NEW u \in Uids, Watched(u),
         Reported(u)' = Reported(u)
  PROVE  Watched(u)'
<1>1. CASE ~Scheduled(w) \/ tasks[w].running
  <2>1. UNCHANGED <<queue, tasks, runs>>
    BY <1>1, Zenon DEF RunTaskNow
  <2>. QED BY <2>1, SameRow DEF Ongoing, Entries
<1>2. CASE ~(~Scheduled(w) \/ tasks[w].running)
  <2>1. /\ tasks' = [tasks EXCEPT ![w].key = None, ![w].running = TRUE]
        /\ queue' = [k \in Keys |-> IF k = tasks[w].key THEN None ELSE queue[k]]
        /\ runs' = [runs EXCEPT ![w] = @ + 1]
    BY <1>2, Zenon DEF RunTaskNow, Spawn
  <2>2. tasks' = [tasks EXCEPT ![w] = [key |-> None, every |-> tasks[w].every, running |-> TRUE]]
    BY <2>1, RowUpdate
  <2>3. Entries(u)' = Entries(u) \ {tasks[w].key}
    BY <2>1 DEF Entries
  <2>4. CASE u = w
    <3>1. tasks'[u].every = tasks[u].every /\ tasks'[u].running = TRUE
      BY <2>2, <2>4 DEF TypeOK
    <3>2. runs'[u] = runs[u] + 1
      BY <2>1, <2>4 DEF TypeOK
    <3>3. Ongoing(u)' = Ongoing(u) + 1 /\ Ongoing(u) \in Nat
      BY <3>2, OngoingType DEF Ongoing
    <3>. QED BY <1>2, <2>3, <2>4, <3>1, <3>3 DEF Watched, Covered, Exact, Kept
  <2>5. CASE u # w
    <3>1. tasks'[u] = tasks[u] /\ runs'[u] = runs[u]
      BY <2>1, <2>2, <2>5 DEF TypeOK
    <3>2. tasks[w].key \notin Entries(u)
      <4>1. SUFFICES ASSUME tasks[w].key \in Entries(u) PROVE FALSE
        OBVIOUS
      <4>2. tasks[w].key \in Keys /\ queue[tasks[w].key].uid = u
        BY <4>1 DEF Entries
      <4>3. tasks[w].key # None
        BY <4>2, TimerAssumption
      <4>4. queue[tasks[w].key] = [uid |-> w, every |-> tasks[w].every]
        BY <4>3, Zenon DEF KeysLive
      <4>. QED BY <2>5, <4>2, <4>4
    <3>3. Entries(u)' = Entries(u)
      BY <2>3, <3>2
    <3>. QED BY <3>1, <3>3, SameRow DEF Ongoing
  <2>. QED BY <2>4, <2>5
<1>. QED BY <1>1, <1>2

(* The scheduler hears of the end of an update and gives its profile an    *)
(* entry.                                                                  *)
LEMMA FinishWatches ==
  ASSUME TypeOK, KeysLive, NEW w \in Uids, FinishTask(w), runs' = runs, NEW u \in Uids, Watched(u),
         Reported(u) = Reported(u)' + IF u = w THEN 1 ELSE 0, Reported(u)' \in Nat
  PROVE  Watched(u)'
<1>1. u # w => Ongoing(u)' = Ongoing(u)
  BY DEF Ongoing
<1>2. u = w => Ongoing(u) = Ongoing(u)' + 1 /\ Ongoing(u)' \in Nat
  BY OngoingType DEF Ongoing
<1>3. CASE ~Scheduled(w)
  <2>1. UNCHANGED <<queue, tasks>>
    BY <1>3, Zenon DEF FinishTask
  <2>2. CASE u # w
    BY <1>1, <2>1, <2>2, SameRow DEF Entries
  <2>3. CASE u = w
    <3>1. u \notin Kept
      BY <1>2, <1>3, <2>3 DEF Watched, Exact
    <3>. QED BY <1>3, <2>1, <2>3, <3>1 DEF Watched, Covered
  <2>. QED BY <2>2, <2>3
<1>4. CASE Scheduled(w)
  <2>1. PICK k \in Free :
          /\ queue' = [queue EXCEPT ![k] = [uid |-> w, every |-> tasks[w].every]]
          /\ tasks' = [tasks EXCEPT ![w].key = k, ![w].running = FALSE]
    BY <1>4, Zenon DEF FinishTask, Schedule
  <2>2. k \in Keys /\ queue[k] = None /\ k # None
    BY TimerAssumption
  <2>3. tasks' = [tasks EXCEPT ![w] = [key |-> k, every |-> tasks[w].every, running |-> FALSE]]
    BY <2>1, RowUpdate
  <2>4. tasks[w].every \in Intervals
    BY <1>4, RowType
  <2>5. [uid |-> w, every |-> tasks[w].every] # None
    BY <2>4, EntryNotNone
  <2>6. Entries(u)' = Entries(u) \cup (IF u = w THEN {k} ELSE {})
    BY <2>1, <2>2, <2>5 DEF Entries, TypeOK
  <2>7. CASE u = w
    <3>1. tasks'[u].every = tasks[u].every /\ tasks'[u].running = FALSE /\ tasks'[u].key = k
      BY <2>3, <2>7 DEF TypeOK
    <3>2. u \in Kept => Entries(u) = {} /\ Ongoing(u) = 1
      BY <1>2, <1>4, <2>7 DEF Watched, Exact
    <3>. QED BY <1>2, <1>4, <2>2, <2>6, <2>7, <3>1, <3>2 DEF Watched, Covered, Exact, Kept
  <2>8. CASE u # w
    <3>1. tasks'[u] = tasks[u]
      BY <2>3, <2>8 DEF TypeOK
    <3>. QED BY <1>1, <2>6, <2>8, <3>1, SameRow
  <2>. QED BY <2>7, <2>8
<1>. QED BY <1>3, <1>4

(* A caller's step sends maps of intervals that the profiles may have.     *)
LEMMA RefreshGives ==
  ASSUME TypeOK, Given, NEW c \in Callers, Refresh(c)
  PROVE  Given' /\ UNCHANGED runs /\ \A u \in Uids : Reported(u)' = Reported(u)
<1>1. /\ calls \in [Callers -> Calls] /\ commands \in Seq(Command)
      /\ calls[c].map \in Maps /\ calls[c].overdue \subseteq Uids
  BY DEF TypeOK, Calls
<1>2. profiles' = profiles /\ runs' = runs
  BY DEF Refresh, GenMap, WriteCache, SendApply, SendRunNow
<1>3. ASSUME Refreshed(c)
      PROVE  calls' = [calls EXCEPT ![c] = calls'[c]] /\ calls'[c].pc \notin {"cache", "send"}
  <2>1. CASE c = Boot
    <3>1. PICK S \in SUBSET {u \in Uids : profiles[u] # 0} :
            calls' = [calls EXCEPT ![c] = [Asleep EXCEPT !.pc = "overdue", !.overdue = S]]
      BY <1>3, <2>1, Zenon DEF Refreshed
    <3>2. [Asleep EXCEPT !.pc = "overdue", !.overdue = S]
          = [pc |-> "overdue", map |-> NoMap, overdue |-> S]
      <4>1. PICK r : r = [Asleep EXCEPT !.pc = "overdue"]
        OBVIOUS
      <4>2. r = [pc |-> "overdue", map |-> NoMap, overdue |-> {}]
        BY <4>1 DEF Asleep
      <4>3. [r EXCEPT !.overdue = S] = [pc |-> "overdue", map |-> NoMap, overdue |-> S]
        BY <4>2
      <4>. QED BY <4>1, <4>3, Zenon
    <3>. QED BY <1>1, <3>1, <3>2
  <2>2. CASE c # Boot
    BY <1>1, <1>3, <2>2 DEF Refreshed, Asleep
  <2>. QED BY <2>1, <2>2
<1>4. ASSUME NEW cmd \in Command, Send(cmd),
             cmd.op = "Apply" => \A u \in Uids : cmd.map[u] \in Choices[u]
      PROVE  \A i \in DOMAIN commands' : commands'[i].op = "Apply" =>
               \A u \in Uids : commands'[i].map[u] \in Choices[u]
  <2>1. commands' = Append(commands, cmd)
    BY <1>4 DEF Send
  <2>2. /\ Len(commands) \in Nat
        /\ DOMAIN commands = 1..Len(commands) /\ DOMAIN commands' = 1..(Len(commands) + 1)
        /\ commands'[Len(commands) + 1] = cmd
        /\ \A i \in DOMAIN commands : commands'[i] = commands[i]
    BY <1>1, <2>1
  <2>3. \A i \in DOMAIN commands' : commands'[i] = cmd \/ (i \in DOMAIN commands /\ commands'[i] = commands[i])
    BY <2>2
  <2>. QED BY <1>4, <2>3 DEF Given
<1>5. ASSUME NEW cmd \in Command, Send(cmd), cmd.op # "TaskFinished"
      PROVE  \A u \in Uids : Reported(u)' = Reported(u)
  BY <1>5, ReportsAppend, ReportsFinite DEF Ends
<1>6. ASSUME commands' = commands
      PROVE  \A u \in Uids : Reported(u)' = Reported(u)
  BY <1>6 DEF Reported, Reports
<1>7. CASE GenMap(c)
  <2>1. calls' = [calls EXCEPT ![c].pc = "cache", ![c].map = profiles] /\ commands' = commands
    BY <1>7 DEF GenMap
  <2>2. ASSUME NEW d \in Callers, calls'[d].pc \in {"cache", "send"}, NEW u \in Uids
        PROVE  calls'[d].map[u] \in Choices[u]
    <3>1. CASE d = c
      <4>1. calls'[d].map = profiles
        BY <1>1, <2>1, <3>1 DEF Calls
      <4>. QED BY <4>1 DEF Given
    <3>2. CASE d # c
      <4>1. calls'[d] = calls[d]
        BY <1>1, <2>1, <3>2
      <4>. QED BY <2>2, <4>1 DEF Given
    <3>. QED BY <3>1, <3>2
  <2>. QED BY <1>2, <1>6, <2>1, <2>2 DEF Given
<1>8. CASE WriteCache(c)
  <2>1. commands' = commands
    BY <1>8 DEF WriteCache
  <2>2. CASE timerMap = calls[c].map
    <3>1. Refreshed(c)
      BY <1>8, <2>2 DEF WriteCache
    <3>2. \A d \in Callers : calls'[d].pc \in {"cache", "send"} => calls'[d] = calls[d]
      BY <1>1, <1>3, <3>1
    <3>. QED BY <1>2, <1>6, <2>1, <3>2 DEF Given
  <2>3. CASE timerMap # calls[c].map
    <3>1. calls[c].pc = "cache" /\ calls' = [calls EXCEPT ![c].pc = "send"]
      BY <1>8, <2>3 DEF WriteCache
    <3>2. \A d \in Callers : calls'[d].map = calls[d].map
                             /\ (calls'[d].pc \in {"cache", "send"} => calls[d].pc \in {"cache", "send"})
      BY <1>1, <3>1 DEF Calls
    <3>. QED BY <1>2, <1>6, <2>1, <3>2 DEF Given
  <2>. QED BY <2>2, <2>3
<1>9. CASE SendApply(c)
  <2> DEFINE cmd == [op |-> "Apply", map |-> calls[c].map]
  <2>1. cmd \in Command /\ Send(cmd) /\ Refreshed(c) /\ calls[c].pc = "send"
    BY <1>1, <1>9, CommandTypes DEF SendApply
  <2>2. cmd.op = "Apply" /\ \A u \in Uids : cmd.map[u] \in Choices[u]
    BY <2>1 DEF Given
  <2>3. \A d \in Callers : calls'[d].pc \in {"cache", "send"} => calls'[d] = calls[d]
    BY <1>1, <1>3, <2>1
  <2> HIDE DEF cmd
  <2>. QED BY <1>2, <1>4, <1>5, <2>1, <2>2, <2>3 DEF Given
<1>10. CASE SendRunNow(c)
  <2>1. CASE calls[c].overdue = {}
    <3>1. calls' = [calls EXCEPT ![c] = Asleep] /\ commands' = commands
      BY <1>10, <2>1 DEF SendRunNow
    <3>2. \A d \in Callers : calls'[d].pc \in {"cache", "send"} => calls'[d] = calls[d]
      BY <1>1, <3>1 DEF Asleep
    <3>. QED BY <1>2, <1>6, <3>1, <3>2 DEF Given
  <2>2. CASE calls[c].overdue # {}
    <3>1. PICK v \in calls[c].overdue :
            /\ Send([op |-> "RunNow", uid |-> v])
            /\ calls' = [calls EXCEPT ![c].overdue = @ \ {v}]
      BY <1>10, <2>2 DEF SendRunNow
    <3> DEFINE cmd == [op |-> "RunNow", uid |-> v]
    <3>2. cmd \in Command /\ cmd.op = "RunNow" /\ Send(cmd)
      BY <1>1, <3>1, CommandTypes
    <3>3. \A d \in Callers : calls'[d].map = calls[d].map /\ calls'[d].pc = calls[d].pc
      BY <1>1, <3>1 DEF Calls
    <3> HIDE DEF cmd
    <3>. QED BY <1>2, <1>4, <1>5, <3>2, <3>3 DEF Given
  <2>. QED BY <2>1, <2>2
<1>. QED BY <1>7, <1>8, <1>9, <1>10 DEF Refresh

WInv == Live /\ Given /\ \A u \in Uids : Watched(u)

(* In every reachable state, entries and ends are those the rows call for. *)
LEMMA WatchedInvariant == Spec => []WInv
<1>1. Init => Given /\ \A u \in Uids : Watched(u)
  <2> SUFFICES ASSUME Init PROVE Given /\ \A u \in Uids : Watched(u)
    OBVIOUS
  <2>1. Given
    <3>1. \A c \in Callers : calls[c].pc \in {"idle", "gen"}
      BY DEF Init, Asleep
    <3>. QED BY <3>1 DEF Init, Given
  <2>2. ASSUME NEW u \in Uids PROVE Watched(u)
    <3>1. tasks[u].every = 0 /\ tasks[u].running = FALSE /\ runs[u] = 0
      BY DEF Init, Unscheduled
    <3>2. Entries(u) = {} /\ Reports(u) = {}
      BY DEF Init, Entries, Reports
    <3>3. Ongoing(u) = 0
      BY <3>1, <3>2, FS_EmptySet DEF Ongoing, Reported
    <3>. QED BY <3>1, <3>2, <3>3 DEF Watched, Covered, Exact
  <2>. QED BY <2>1, <2>2
<1>2. ASSUME TypeOK, KeysLive, Given, \A u \in Uids : Watched(u), [Next]_vars
      PROVE  Given' /\ \A u \in Uids : Watched(u)'
  <2>1. ASSUME NEW c \in Callers, NEW v \in Uids, NEW i \in Intervals \cup {0}, Edit(c, v, i)
        PROVE  Given' /\ \A u \in Uids : Watched(u)'
    <3>1. UNCHANGED <<timerMap, commands, queue, tasks, runs>>
      BY <2>1 DEF Edit
    <3>2. \A u \in Uids : Watched(u)'
      BY <1>2, <3>1, SameRow DEF Ongoing, Reported, Reports, Entries
    <3>3. \A u \in Uids : profiles'[u] \in Choices[u]
      BY <1>2, <2>1 DEF Edit, Given, TypeOK
    <3>4. \A d \in Callers : calls'[d].pc \in {"cache", "send"} => calls'[d] = calls[d]
      <4>1. calls' = calls \/ calls' = [calls EXCEPT ![c].pc = "gen"]
        BY <2>1, Zenon DEF Edit
      <4>2. calls \in [Callers -> Calls] /\ calls[c] \in Calls
        BY <1>2 DEF TypeOK
      <4>. QED BY <4>1, <4>2 DEF Calls
    <3>. QED BY <1>2, <3>1, <3>2, <3>3, <3>4 DEF Given
  <2>2. ASSUME NEW c \in Callers, Refresh(c)
        PROVE  Given' /\ \A u \in Uids : Watched(u)'
    <3>1. Given' /\ UNCHANGED <<queue, tasks, runs>> /\ \A u \in Uids : Reported(u)' = Reported(u)
      BY <1>2, <2>2, RefreshGives, RefreshTypes
    <3>. QED BY <1>2, <3>1, SameRow DEF Ongoing, Entries
  <2>3. ASSUME NEW k \in Keys, Expire(k)
        PROVE  Given' /\ \A u \in Uids : Watched(u)'
    <3>1. UNCHANGED <<profiles, timerMap, commands, calls, edits>>
      BY <2>3 DEF Expire
    <3>2. \A u \in Uids : Watched(u)'
      BY <1>2, <2>3, ExpireWatches
    <3>. QED BY <1>2, <3>1, <3>2 DEF Given
  <2>4. CASE Receive
    <3> DEFINE cmd == Head(commands)
    <3>1. /\ commands \in Seq(Command) /\ commands # <<>> /\ commands' = Tail(commands)
          /\ UNCHANGED <<profiles, timerMap, calls, edits>>
      BY <1>2, <2>4 DEF Receive, TypeOK
    <3>2. /\ cmd \in Command /\ cmd = commands[1] /\ 1 \in DOMAIN commands
          /\ commands' \in Seq(Command)
          /\ \A i \in DOMAIN commands' : i + 1 \in DOMAIN commands /\ commands'[i] = commands[i + 1]
      BY <3>1
    <3>3. Given'
      BY <1>2, <3>1, <3>2 DEF Given
    <3>4. \A u \in Uids : /\ Reported(u) = Reported(u)' + IF Ends(u, cmd) THEN 1 ELSE 0
                          /\ Reported(u)' \in Nat
      <4>1. \A u \in Uids : Reported(u)' \in Nat
        <5>1. \A u \in Uids : IsFiniteSet(Reports(u)') 
          <6>1. Len(commands') \in Nat /\ DOMAIN commands' = 1..Len(commands')
            BY <3>2
          <6>2. IsFiniteSet(DOMAIN commands')
            BY <6>1, FS_Interval
          <6>3. \A u \in Uids : Reports(u)' \in SUBSET DOMAIN commands'
            BY DEF Reports
          <6>. QED BY <6>2, <6>3, FS_Subset
        <5>. QED BY <5>1, FS_CardinalityType DEF Reported
      <4>. QED BY <1>2, <3>1, <4>1, ReportsTail
    <3>5. CASE cmd.op = "Apply" /\ ApplyTimerMap(cmd.map) /\ UNCHANGED runs
      <4>1. cmd.map \in Maps /\ \A u \in Uids : cmd.map[u] \in Choices[u]
        BY <1>2, <3>2, <3>5, CommandFields DEF Given
      <4>2. Applied(cmd.map)
        BY <1>2, <3>5, <4>1, ApplyKeeps
      <4>3. \A u \in Uids : Ongoing(u)' = Ongoing(u)
        BY <3>4, <3>5 DEF Ongoing, Ends
      <4> HIDE DEF cmd
      <4>. QED BY <1>2, <3>3, <4>1, <4>2, <4>3, ApplyWatches
    <3>6. CASE cmd.op = "RunNow" /\ RunTaskNow(cmd.uid)
      <4>1. cmd.uid \in Uids
        BY <3>2, <3>6, CommandFields
      <4>2. \A u \in Uids : Reported(u)' = Reported(u)
        BY <3>4, <3>6 DEF Ends
      <4> HIDE DEF cmd
      <4>. QED BY <1>2, <3>3, <3>6, <4>1, <4>2, RunNowWatches
    <3>7. CASE cmd.op = "TaskFinished" /\ FinishTask(cmd.uid) /\ UNCHANGED runs
      <4>1. cmd.uid \in Uids
        BY <3>2, <3>7, CommandFields
      <4>2. \A u \in Uids : /\ Reported(u) = Reported(u)' + IF u = cmd.uid THEN 1 ELSE 0
                            /\ Reported(u)' \in Nat
        BY <3>4, <3>7 DEF Ends
      <4> HIDE DEF cmd
      <4>. QED BY <1>2, <3>3, <3>7, <4>1, <4>2, FinishWatches
    <3>. QED BY <2>4, <3>5, <3>6, <3>7 DEF Receive
  <2>5. ASSUME NEW v \in Uids, EndRun(v)
        PROVE  Given' /\ \A u \in Uids : Watched(u)'
    <3> DEFINE cmd == [op |-> "TaskFinished", uid |-> v]
    <3>1. /\ cmd \in Command /\ cmd.op = "TaskFinished" /\ cmd.uid = v /\ Send(cmd)
          /\ commands' = Append(commands, cmd) /\ commands \in Seq(Command)
          /\ runs[v] > 0 /\ runs' = [runs EXCEPT ![v] = @ - 1]
          /\ UNCHANGED <<profiles, timerMap, queue, tasks, calls, edits>>
      BY <1>2, <2>5, CommandTypes DEF EndRun, Send, TypeOK
    <3> HIDE DEF cmd
    <3>2. \A i \in DOMAIN commands' :
            commands'[i] = cmd \/ (i \in DOMAIN commands /\ commands'[i] = commands[i])
      <4>1. /\ Len(commands) \in Nat
            /\ DOMAIN commands = 1..Len(commands) /\ DOMAIN commands' = 1..(Len(commands) + 1)
            /\ commands'[Len(commands) + 1] = cmd
            /\ \A i \in DOMAIN commands : commands'[i] = commands[i]
        BY <3>1
      <4>. QED BY <4>1
    <3>3. Given'
      BY <1>2, <3>1, <3>2 DEF Given
    <3>4. ASSUME NEW u \in Uids PROVE Ongoing(u)' = Ongoing(u)
      <4>1. Reported(u)' = Reported(u) + IF u = v THEN 1 ELSE 0
        BY <1>2, <3>1, ReportsAppend DEF Ends
      <4>2. runs'[u] = runs[u] - IF u = v THEN 1 ELSE 0
        BY <1>2, <3>1 DEF TypeOK
      <4>3. runs[u] \in Nat /\ Reported(u) \in Nat
        BY <1>2, OngoingType
      <4>. QED BY <4>1, <4>2, <4>3 DEF Ongoing
    <3>. QED BY <1>2, <3>1, <3>3, <3>4, SameRow DEF Entries
  <2>6. CASE UNCHANGED vars
    BY <1>2, <2>6, SameRow DEF vars, Given, Ongoing, Reported, Reports, Entries
  <2>. QED BY <1>2, <2>1, <2>2, <2>3, <2>4, <2>5, <2>6 DEF Next
<1>3. Init => WInv
  BY <1>1, LiveInit DEF WInv
<1>4. WInv /\ [Next]_vars => WInv'
  BY <1>2, LiveStep DEF WInv, Live
<1>. QED BY <1>3, <1>4, PTL DEF Spec

(* However often the map is applied, run-now commands are sent and         *)
(* profiles come and go while their updates run: a profile on the timer    *)
(* has an entry, or an update that runs or has ended unheard.              *)
THEOREM TimerNeverForgets == Spec => []NeverForgotten
<1>1. WInv => NeverForgotten
  <2> SUFFICES ASSUME WInv, NEW u \in Uids, Scheduled(u)
               PROVE  IF tasks[u].running THEN Pending(u) > 0 ELSE tasks[u].key # None
    BY DEF NeverForgotten
  <2>1. Covered(u)
    BY DEF WInv, Watched
  <2>2. runs[u] \in Nat /\ Reported(u) \in Nat
    BY OngoingType DEF WInv, Live
  <2>. QED BY <2>1, <2>2, EntriesFinite DEF Covered, Ongoing, Pending, Reported
<1>. QED BY <1>1, WatchedInvariant, PTL

(* A profile that is always in the map is never scheduled twice nor        *)
(* updated twice at once, whatever the interleaving of expirations, ends   *)
(* of updates, maps and run-now commands.                                  *)
THEOREM TimerOnePending == Spec => []OnePending
<1>1. WInv => OnePending
  <2> SUFFICES ASSUME WInv, NEW u \in Kept
               PROVE  Pending(u) = IF Scheduled(u) THEN 1 ELSE 0
    BY DEF OnePending
  <2>1. u \in Uids /\ Exact(u)
    BY DEF WInv, Watched, Kept
  <2>2. runs[u] \in Nat /\ Reported(u) \in Nat
    BY <2>1, OngoingType DEF WInv, Live
  <2>3. Cardinality({}) = 0 /\ Cardinality({tasks[u].key}) = 1
    BY FS_EmptySet, FS_Singleton
  <2>4. Pending(u) = Cardinality(Entries(u)) + Ongoing(u)
    BY <2>2, EntriesFinite DEF Pending, Ongoing, Reported
  <2>5. CASE ~Scheduled(u)
    BY <2>1, <2>3, <2>4, <2>5 DEF Exact
  <2>6. CASE Scheduled(u) /\ tasks[u].running
    BY <2>1, <2>3, <2>4, <2>6 DEF Exact
  <2>7. CASE Scheduled(u) /\ ~tasks[u].running
    BY <2>1, <2>3, <2>4, <2>7 DEF Exact
  <2>. QED BY <2>5, <2>6, <2>7
<1>. QED BY <1>1, WatchedInvariant, PTL

-----------------------------------------------------------------------------
(* InStep, for calls of refresh() that do not overlap: with two of them    *)
(* the maps may be sent in another order than the cache was written in.    *)
(* The map sent last, or else the table, is what the cache holds, except   *)
(* between the write of the cache and the sending of its map.              *)
Applies == {i \in DOMAIN commands : commands[i].op = "Apply"}

Tracks ==
  IF calls[Boot].pc = "send" THEN calls[Boot].map = timerMap
  ELSE /\ Applies = {} => \A u \in Uids : tasks[u].every = timerMap[u]
       /\ \A i \in Applies : (\A j \in Applies : j <= i) => commands[i].map = timerMap

(* Only applying a map changes an interval of the table.                   *)
LEMMA IntervalsKept ==
  ASSUME TypeOK, NEW w \in Uids, NEW u \in Uids, NEW k, NEW b \in BOOLEAN,
         tasks' = [tasks EXCEPT ![w].key = k, ![w].running = b]
  PROVE  tasks'[u].every = tasks[u].every
<1>1. tasks' = [tasks EXCEPT ![w] = [key |-> k, every |-> tasks[w].every, running |-> b]]
  BY RowUpdate
<1>2. tasks \in [Uids -> TaskState]
  BY DEF TypeOK
<1>3. u = w => tasks'[u] = [key |-> k, every |-> tasks[w].every, running |-> b]
  BY <1>1, <1>2
<1>4. u # w => tasks'[u] = tasks[u]
  BY <1>1, <1>2
<1>. QED BY <1>3, <1>4

(* Sending another command leaves the maps on their way as they are.       *)
LEMMA AppliesAppend ==
  ASSUME TypeOK, NEW cmd \in Command, Send(cmd)
  PROVE  LET n == Len(commands) + 1
         IN  /\ n \in Nat /\ \A i \in Applies : i \in Nat /\ i < n
             /\ Applies' = IF cmd.op = "Apply" THEN Applies \cup {n} ELSE Applies
             /\ commands'[n] = cmd /\ \A i \in Applies : commands'[i] = commands[i]
<1> DEFINE n == Len(commands) + 1
<1>1. commands \in Seq(Command) /\ commands' = Append(commands, cmd)
  BY DEF TypeOK, Send
<1>2. /\ DOMAIN commands = 1..Len(commands) /\ DOMAIN commands' = DOMAIN commands \cup {n}
      /\ n \in Nat /\ n \notin DOMAIN commands /\ \A i \in DOMAIN commands : i \in Nat /\ i < n
      /\ commands'[n] = cmd
      /\ \A i \in DOMAIN commands : commands'[i] = commands[i]
  BY <1>1
<1> HIDE DEF n
<1>3. Applies' = IF cmd.op = "Apply" THEN Applies \cup {n} ELSE Applies
  BY <1>2 DEF Applies
<1>4. \A i \in Applies : i \in Nat /\ i < n /\ commands'[i] = commands[i]
  BY <1>2 DEF Applies
<1>. QED BY <1>2, <1>3, <1>4 DEF n

(* A map that is applied with none behind it is the last one.              *)
LEMMA ReceiveTracks ==
  ASSUME TypeOK, KeysLive, Tracks, Receive
  PROVE  Tracks'
<1> DEFINE cmd == Head(commands)
<1>1. /\ commands \in Seq(Command) /\ commands # <<>> /\ commands' = Tail(commands)
      /\ timerMap' = timerMap /\ calls' = calls
  BY DEF Receive, TypeOK
<1>2. /\ cmd \in Command /\ cmd = commands[1] /\ 1 \in DOMAIN commands
      /\ \A i \in DOMAIN commands : i \in Nat /\ i >= 1
      /\ \A i \in DOMAIN commands' : i \in Nat /\ i + 1 \in DOMAIN commands /\ commands'[i] = commands[i + 1]
      /\ \A i \in DOMAIN commands : i # 1 => i - 1 \in DOMAIN commands' /\ commands'[i - 1] = commands[i]
  BY <1>1
<1>3. \A i \in Applies' : i \in Nat /\ i + 1 \in Applies /\ commands'[i] = commands[i + 1]
  BY <1>2 DEF Applies
<1>4. \A i \in Applies : i \in Nat /\ i >= 1 /\ (i # 1 => i - 1 \in Applies')
  BY <1>2 DEF Applies
<1>5. CASE calls[Boot].pc = "send"
  BY <1>1, <1>5 DEF Tracks
<1>6. CASE calls[Boot].pc # "send"
  <2>1. ASSUME NEW i \in Applies', \A j \in Applies' : j <= i
        PROVE  commands'[i].map = timerMap
    <3>1. ASSUME NEW j \in Applies PROVE j <= i + 1
      <4>1. i \in Nat /\ j \in Nat
        BY <1>3, <1>4
      <4>2. CASE j = 1
        BY <4>1, <4>2
      <4>3. CASE j # 1
        <5>1. j - 1 <= i
          BY <1>4, <2>1, <4>3
        <5>. QED BY <4>1, <5>1
      <4>. QED BY <4>2, <4>3
    <3>2. commands[i + 1].map = timerMap
      BY <1>3, <1>6, <3>1 DEF Tracks
    <3>. QED BY <1>3, <3>2
  <2>2. ASSUME Applies' = {}, NEW u \in Uids
        PROVE  tasks'[u].every = timerMap[u]
    <3>1. Applies \subseteq {1}
      BY <1>4, <2>2
    <3>2. CASE cmd.op = "Apply" /\ ApplyTimerMap(cmd.map)
      <4>1. cmd.map \in Maps
        BY <1>2, <3>2, CommandFields
      <4>2. Applied(cmd.map)
        BY <3>2, <4>1, ApplyKeeps
      <4>3. 1 \in Applies /\ \A j \in Applies : j <= 1
        BY <1>2, <3>1, <3>2 DEF Applies
      <4>4. cmd.map = timerMap
        BY <1>2, <1>6, <4>3, Zenon DEF Tracks
      <4> HIDE DEF cmd
      <4>5. tasks'[u].every = cmd.map[u]
        <5>1. CASE cmd.map[u] = 0
          <6>1. tasks'[u] = Unscheduled
            BY <4>2, <5>1, Zenon DEF Applied
          <6>. QED BY <5>1, <6>1 DEF Unscheduled
        <5>2. CASE cmd.map[u] # 0
          BY <4>2, <5>2, Zenon DEF Applied
        <5>. QED BY <5>1, <5>2
      <4>. QED BY <4>4, <4>5
    <3>3. ASSUME cmd.op # "Apply", tasks'[u].every = tasks[u].every
          PROVE  tasks'[u].every = timerMap[u]
      <4>1. Applies = {}
        BY <1>2, <3>1, <3>3 DEF Applies
      <4>. QED BY <1>6, <3>3, <4>1 DEF Tracks
    <3>4. CASE cmd.op = "RunNow" /\ RunTaskNow(cmd.uid)
      <4>1. cmd.uid \in Uids
        BY <1>2, <3>4, CommandFields
      <4>2. tasks' = tasks \/ tasks' = [tasks EXCEPT ![cmd.uid].key = None, ![cmd.uid].running = TRUE]
        BY <3>4, Zenon DEF RunTaskNow
      <4>. QED BY <3>3, <3>4, <4>1, <4>2, IntervalsKept
    <3>5. CASE cmd.op = "TaskFinished" /\ FinishTask(cmd.uid)
      <4>1. cmd.uid \in Uids
        BY <1>2, <3>5, CommandFields
      <4>2. \/ tasks' = tasks
            \/ \E k \in Free : tasks' = [tasks EXCEPT ![cmd.uid].key = k, ![cmd.uid].running = FALSE]
        BY <3>5, Zenon DEF FinishTask
      <4>. QED BY <3>3, <3>5, <4>1, <4>2, IntervalsKept
    <3>. QED BY <3>2, <3>4, <3>5 DEF Receive
  <2>. QED BY <1>1, <1>6, <2>1, <2>2 DEF Tracks
<1>. QED BY <1>5, <1>6

(* The only caller's steps.                                                *)
LEMMA RefreshTracks ==
  ASSUME TypeOK, Tracks, Refresh(Boot)
  PROVE  Tracks'
<1>1. /\ calls \in [Callers -> Calls] /\ Boot \in Callers
      /\ calls[Boot].map \in Maps /\ calls[Boot].overdue \subseteq Uids
      /\ calls[Boot] \in Calls
  BY TimerAssumption DEF TypeOK, Calls
<1>2. tasks' = tasks
  BY DEF Refresh, GenMap, WriteCache, SendApply, SendRunNow
<1>3. ASSUME Refreshed(Boot) PROVE calls'[Boot].pc # "send"
  <2>1. PICK S \in SUBSET {u \in Uids : profiles[u] # 0} :
          calls' = [calls EXCEPT ![Boot] = [Asleep EXCEPT !.pc = "overdue", !.overdue = S]]
    BY <1>3, Zenon DEF Refreshed
  <2>2. [Asleep EXCEPT !.pc = "overdue", !.overdue = S].pc = "overdue"
    BY DEF Asleep
  <2>. QED BY <1>1, <2>1, <2>2
<1>4. CASE GenMap(Boot)
  <2>1. calls[Boot].pc = "gen" /\ calls'[Boot].pc = "cache"
    BY <1>1, <1>4 DEF GenMap, Calls
  <2>. QED BY <1>2, <1>4, <2>1 DEF GenMap, Tracks, Applies
<1>5. CASE WriteCache(Boot)
  <2>1. calls[Boot].pc = "cache" /\ commands' = commands
    BY <1>5 DEF WriteCache
  <2>2. CASE timerMap = calls[Boot].map
    <3>1. calls'[Boot].pc # "send" /\ timerMap' = timerMap
      BY <1>3, <1>5, <2>2 DEF WriteCache
    <3>. QED BY <1>2, <2>1, <3>1 DEF Tracks, Applies
  <2>3. CASE timerMap # calls[Boot].map
    <3>1. timerMap' = calls[Boot].map /\ calls' = [calls EXCEPT ![Boot].pc = "send"]
      BY <1>5, <2>3 DEF WriteCache
    <3>2. calls'[Boot].pc = "send" /\ calls'[Boot].map = calls[Boot].map
      BY <1>1, <3>1 DEF Calls
    <3>. QED BY <3>1, <3>2 DEF Tracks
  <2>. QED BY <2>2, <2>3
<1>6. CASE SendApply(Boot)
  <2> DEFINE cmd == [op |-> "Apply", map |-> calls[Boot].map]
             n == Len(commands) + 1
  <2>1. /\ cmd \in Command /\ Send(cmd) /\ cmd.op = "Apply" /\ cmd.map = timerMap
        /\ calls'[Boot].pc # "send" /\ timerMap' = timerMap
    BY <1>1, <1>3, <1>6, CommandTypes DEF SendApply, Tracks
  <2> HIDE DEF cmd
  <2>2. /\ n \in Nat /\ \A i \in Applies : i \in Nat /\ i < n
        /\ Applies' = Applies \cup {n} /\ commands'[n] = cmd
    BY <2>1, AppliesAppend
  <2> HIDE DEF n
  <2>3. \A i \in Applies' : n <= i => i = n
    BY <2>2
  <2>. QED BY <2>1, <2>2, <2>3 DEF Tracks
<1>7. CASE SendRunNow(Boot)
  <2>1. timerMap' = timerMap /\ calls[Boot].pc = "overdue"
    BY <1>7 DEF SendRunNow
  <2>2. CASE calls[Boot].overdue = {}
    <3>1. calls'[Boot].pc # "send" /\ commands' = commands
      BY <1>1, <1>7, <2>2 DEF SendRunNow, Asleep
    <3>. QED BY <1>2, <2>1, <3>1 DEF Tracks, Applies
  <2>3. CASE calls[Boot].overdue # {}
    <3>1. PICK v \in calls[Boot].overdue :
            /\ Send([op |-> "RunNow", uid |-> v])
            /\ calls' = [calls EXCEPT ![Boot].overdue = @ \ {v}]
      BY <1>7, <2>3 DEF SendRunNow
    <3> DEFINE cmd == [op |-> "RunNow", uid |-> v]
    <3>2. cmd \in Command /\ cmd.op = "RunNow" /\ Send(cmd)
      BY <1>1, <3>1, CommandTypes
    <3>3. calls'[Boot].pc = "overdue"
      BY <1>1, <2>1, <3>1 DEF Calls
    <3> HIDE DEF cmd
    <3>4. Applies' = Applies /\ \A i \in Applies : commands'[i] = commands[i]
      BY <3>2, AppliesAppend
    <3>. QED BY <1>2, <2>1, <3>3, <3>4 DEF Tracks
  <2>. QED BY <2>2, <2>3
<1>. QED BY <1>4, <1>5, <1>6, <1>7 DEF Refresh

(* When no two calls of refresh() overlap, a scheduler with nothing left   *)
(* to receive has the intervals of the cache.                              *)
THEOREM TimerInStep ==
  ASSUME Callers = {Boot}
  PROVE  Spec => []InStep
<1>1. Init => Tracks
  <2> SUFFICES ASSUME Init PROVE Tracks
    OBVIOUS
  <2>1. calls[Boot].pc # "send" /\ Applies = {}
    BY TimerAssumption DEF Init, Asleep, Applies
  <2>2. \A u \in Uids : tasks[u].every = timerMap[u]
    BY DEF Init, Unscheduled, NoMap
  <2>. QED BY <2>1, <2>2 DEF Tracks
<1>2. ASSUME TypeOK, KeysLive, Tracks, [Next]_vars PROVE Tracks'
  <2>1. ASSUME NEW c \in Callers, NEW v \in Uids, NEW i \in Intervals \cup {0}, Edit(c, v, i)
        PROVE  Tracks'
    <3>1. UNCHANGED <<timerMap, commands, tasks>> /\ c = Boot /\ calls[Boot] = Asleep
      BY <2>1 DEF Edit
    <3>2. calls'[Boot].pc # "send"
      <4>1. calls' = calls \/ calls' = [calls EXCEPT ![c].pc = "gen"]
        BY <2>1, Zenon DEF Edit
      <4>2. calls \in [Callers -> Calls] /\ calls[c] \in Calls
        BY <1>2 DEF TypeOK
      <4>. QED BY <3>1, <4>1, <4>2 DEF Calls, Asleep
    <3>3. calls[Boot].pc # "send"
      BY <3>1 DEF Asleep
    <3>. QED BY <1>2, <3>1, <3>2, <3>3 DEF Tracks, Applies
  <2>2. ASSUME NEW c \in Callers, Refresh(c) PROVE Tracks'
    BY <1>2, <2>2, RefreshTracks
  <2>3. ASSUME NEW k \in Keys, Expire(k) PROVE Tracks'
    <3>1. UNCHANGED <<timerMap, commands, calls>>
      BY <2>3 DEF Expire
    <3>2. ASSUME NEW u \in Uids PROVE tasks'[u].every = tasks[u].every
      <4> DEFINE w == queue[k].uid
      <4>1. w \in Uids
        BY <1>2, <2>3 DEF Expire, TypeOK
      <4>2. tasks' = tasks \/ tasks' = [tasks EXCEPT ![w].key = None, ![w].running = TRUE]
        BY <2>3, Zenon DEF Expire
      <4>. QED BY <1>2, <4>1, <4>2, IntervalsKept
    <3>. QED BY <1>2, <3>1, <3>2 DEF Tracks, Applies
  <2>4. CASE Receive
    BY <1>2, <2>4, ReceiveTracks
  <2>5. ASSUME NEW v \in Uids, EndRun(v) PROVE Tracks'
    <3> DEFINE cmd == [op |-> "TaskFinished", uid |-> v]
    <3>1. cmd \in Command /\ cmd.op = "TaskFinished" /\ Send(cmd) /\ UNCHANGED <<timerMap, tasks, calls>>
      BY <2>5, CommandTypes DEF EndRun
    <3> HIDE DEF cmd
    <3>2. Applies' = Applies /\ \A i \in Applies : commands'[i] = commands[i]
      BY <1>2, <3>1, AppliesAppend
    <3>. QED BY <1>2, <3>1, <3>2 DEF Tracks
  <2>6. CASE UNCHANGED vars
    BY <1>2, <2>6 DEF vars, Tracks, Applies
  <2>. QED BY <1>2, <2>1, <2>2, <2>3, <2>4, <2>5, <2>6 DEF Next
<1>3. Tracks => InStep
  <2> SUFFICES ASSUME Tracks, Settled PROVE \A u \in Uids : tasks[u].every = timerMap[u]
    BY DEF InStep
  <2>1. calls[Boot].pc # "send" /\ commands = <<>>
    BY TimerAssumption DEF Settled, Asleep
  <2>2. Applies = {}
    BY <2>1 DEF Applies
  <2>. QED BY <2>1, <2>2 DEF Tracks
<1>4. Live /\ Tracks /\ [Next]_vars => Tracks'
  BY <1>2 DEF Live
<1>. QED BY <1>1, <1>3, <1>4, LiveInvariant, PTL DEF Spec
=============================================================================
