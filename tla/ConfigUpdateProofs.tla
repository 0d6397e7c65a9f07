-------------------------- MODULE ConfigUpdateProofs --------------------------
(***************************************************************************)
(* Theorems about the configuration pipeline for any set of tasks,         *)
(* profiles and accepted configurations, with and without the timeout.     *)
(***************************************************************************)
EXTENDS MCConfigUpdate, TLAPS

(* What a call remembers is what its next step takes it for.               *)
CallsOK ==
  \A p \in Tasks :
    /\ calls[p].pc = "write" => calls[p].seen \in Profiles
    /\ calls[p].op = "switch" => calls[p].prev \in Profiles
    /\ calls[p].pc = "enter" => Guarded(p)
    /\ calls[p].pc \in {"commit", "restore", "unflag"} => calls[p].op = "switch"

CallsTyped ==
  /\ calls \in [Tasks -> Calls]
  /\ \A p \in Tasks : calls[p].op = "none" <=> calls[p] = Idle
  /\ CallsOK

Flags == /\ inProgress \in BOOLEAN /\ switching \in BOOLEAN
         /\ recent \in BOOLEAN /\ exiting \in BOOLEAN

Data ==
  /\ profile \in Profiles /\ profileDraft \in Profiles \cup {None}
  /\ runtime \in Config \cup {None} /\ runtimeDraft \in Config \cup {None}
  /\ runFile \in Config /\ core \in Config \cup {None}

TypeInv == CallsTyped /\ Flags /\ Data

LEMMA LatestType ==
  Data => LatestProfile \in Profiles /\ LatestRuntime \in Config \cup {None}
  BY DEF Data, LatestProfile, LatestRuntime, Latest

LEMMA BootType == \A q \in Profiles : BootConfig(q) \in Config
  BY DEF BootConfig, Config

LEMMA EditedType == \A c \in Config \cup {None} : Edited(c) \in Config \cup {None}
  BY DEF Edited, Config

(* Idle is the record a task has exactly while it serves no request.       *)
CallOK(c) ==
  /\ c \in Calls
  /\ c.op = "none" <=> c = Idle
  /\ c.pc = "write" => c.seen \in Profiles
  /\ c.op = "switch" => c.prev \in Profiles
  /\ c.pc = "enter" => c.op \in GuardedOps
  /\ c.pc \in {"commit", "restore", "unflag"} => c.op = "switch"

LEMMA IdleOK == CallOK(Idle)
  BY ConfigUpdateAssumption DEF CallOK, Calls, Idle, AllOps, GuardedOps, Pipeline

LEMMA CallsType ==
  ASSUME TypeInv, NEW p \in Tasks, NEW c, CallOK(c), calls' = [calls EXCEPT ![p] = c]
  PROVE  CallsTyped'
  BY DEF TypeInv, CallsTyped, CallsOK, CallOK, Guarded

(* A call that only moves on keeps what it remembers.                      *)
LEMMA MoveOK ==
  ASSUME NEW c, CallOK(c), c # Idle,
         NEW to \in Pipeline \ {"write"}
  PROVE  CallOK([c EXCEPT !.pc = to])
  BY ConfigUpdateAssumption DEF CallOK, Calls, Idle, AllOps, GuardedOps, Pipeline

(* ... and may remember what it has seen.                                  *)
LEMMA RememberOK ==
  ASSUME NEW c, CallOK(c), c # Idle, NEW to \in Pipeline,
         NEW x \in Profiles \cup Config \cup {None}, to = "write" => x \in Profiles
  PROVE  CallOK([c EXCEPT !.pc = to, !.seen = x])
<1> DEFINE d == [c EXCEPT !.pc = to, !.seen = x]
<1>1. /\ d \in Calls
      /\ d.op = c.op /\ d.pc = to /\ d.prev = c.prev /\ d.seen = x
  BY DEF CallOK, Calls, Pipeline
<1>2. c.op # "none" /\ Idle.op = "none"
  BY DEF CallOK, Idle
<1>3. to \notin {"enter", "commit", "restore", "unflag"}
  BY DEF Pipeline
<1> HIDE DEF d
<1>4. CallOK(d)
  BY <1>1, <1>2, <1>3 DEF CallOK
<1>5. QED
  BY <1>4 DEF d

LEMMA ForgetOK ==
  ASSUME NEW c, CallOK(c), c # Idle, NEW to \in Pipeline \ {"write"}
  PROVE  CallOK([c EXCEPT !.pc = to, !.seen = None])
  BY RememberOK

LEMMA NewOK ==
  ASSUME NEW o \in AllOps \ {"switch"}, NEW pc \in {"enter", "stop", "gen"},
         pc = "enter" => o \in GuardedOps
  PROVE  CallOK([Idle EXCEPT !.op = o, !.pc = pc])
<1> DEFINE d == [Idle EXCEPT !.op = o, !.pc = pc]
<1>1. /\ d \in Calls
      /\ d.op = o /\ d.pc = pc
  BY DEF Calls, Pipeline, Idle
<1>2. o \notin {"switch", "none"} /\ Idle.op = "none"
  BY DEF Idle, AllOps
<1>3. pc \notin {"write", "commit", "restore", "unflag"}
  OBVIOUS
<1> HIDE DEF d
<1>4. CallOK(d)
  BY <1>1, <1>2, <1>3 DEF CallOK
<1>5. QED
  BY <1>4 DEF d

LEMMA CallsAreOK == TypeInv => \A p \in Tasks : CallOK(calls[p])
  BY DEF TypeInv, CallsTyped, CallsOK, CallOK, Guarded

LEMMA AnswerOK ==
  ASSUME TypeInv, NEW p \in Tasks, NEW valid, Answer(p, valid), calls[p] # Idle
  PROVE  CallsTyped'
<1> DEFINE c == IF calls[p].op = "switch"
                  THEN [calls[p] EXCEPT !.pc = IF valid THEN "commit" ELSE "restore", !.seen = None]
                  ELSE Idle
<1>1. calls' = [calls EXCEPT ![p] = c]
  BY DEF Answer
<1>2. CallOK(c)
  <2>1. CASE calls[p].op = "switch"
    <3>1. CallOK(calls[p])
      BY CallsAreOK
    <3>2. CallOK([calls[p] EXCEPT !.pc = "commit", !.seen = None])
      BY <2>1, <3>1, ConfigUpdateAssumption DEF CallOK, Calls, Idle, AllOps, GuardedOps, Pipeline
    <3>3. CallOK([calls[p] EXCEPT !.pc = "restore", !.seen = None])
      BY <2>1, <3>1, ConfigUpdateAssumption DEF CallOK, Calls, Idle, AllOps, GuardedOps, Pipeline
    <3>4. QED
      BY <2>1, <3>2, <3>3
  <2>2. CASE calls[p].op # "switch"
    BY <2>2, IdleOK
  <2>3. QED
    BY <2>1, <2>2
<1>3. QED
  BY <1>1, <1>2, CallsType

LEMMA StepOK ==
  ASSUME TypeInv, NEW p \in Tasks, NEW from \in Pipeline \cup {"enter"},
         NEW to \in Pipeline \ {"write"}, Step(p, from, to)
  PROVE  CallsTyped'
<1>1. CallOK(calls[p]) /\ calls[p] # Idle
  BY CallsAreOK DEF Step, At, Idle, Pipeline
<1>2. CallOK([calls[p] EXCEPT !.pc = to])
  BY <1>1, MoveOK
<1>3. calls' = [calls EXCEPT ![p] = [calls[p] EXCEPT !.pc = to]]
  BY DEF Step
<1>4. QED
  BY <1>2, <1>3, CallsType

LEMMA TypeInit == Init => TypeInv
<1> SUFFICES ASSUME Init PROVE TypeInv
  OBVIOUS
<1>1. Flags
  BY Zenon DEF Init, Flags
<1>2. Data
  BY BootType DEF Init, Data
<1>3. CallsTyped
  <2>1. \A p \in Tasks : CallOK(calls[p]) /\ calls[p] = Idle
    BY IdleOK DEF Init
  <2>2. QED
    BY <2>1 DEF Init, CallsTyped, CallsOK, CallOK, Guarded
<1>4. QED
  BY <1>1, <1>2, <1>3 DEF TypeInv

LEMMA TypeNext == TypeInv /\ [Next]_vars => TypeInv'
<1> SUFFICES ASSUME TypeInv, [Next]_vars PROVE TypeInv'
  OBVIOUS
<1> USE DEF TypeInv
<1>1. ASSUME NEW p \in Tasks, NEW t \in Profiles, BeginSwitch(p, t) PROVE TypeInv'
  <2>1. CallsTyped'
    <3>1. CallOK([Idle EXCEPT !.op = "switch", !.pc = "enter", !.target = t, !.prev = profile])
      BY ConfigUpdateAssumption DEF CallOK, Calls, Idle, AllOps, GuardedOps, Pipeline, Data
    <3>2. QED
      BY <1>1, <3>1, CallsType DEF BeginSwitch
  <2>2. Flags'
    BY <1>1, Zenon DEF BeginSwitch, Flags
  <2>3. Data'
    BY <1>1 DEF BeginSwitch, Data
  <2>4. QED
    BY <2>1, <2>2, <2>3
<1>2. ASSUME NEW p \in Tasks, BeginOther(p) PROVE TypeInv'
  <2>1. CallsTyped'
    <3>1. \A o \in AllOps \ {"switch"}, pc \in {"enter", "stop", "gen"} :
            (pc = "enter" => o \in GuardedOps) => CallOK([Idle EXCEPT !.op = o, !.pc = pc])
      BY NewOK
    <3>2. QED
      BY <1>2, <3>1, CallsType DEF BeginOther, Begin, AllOps, GuardedOps
  <2>2. Flags'
    BY <1>2, Zenon DEF BeginOther, Flags
  <2>3. Data'
    BY <1>2 DEF BeginOther, Data
  <2>4. QED
    BY <2>1, <2>2, <2>3
<1>3. ASSUME NEW p \in Tasks, BeginPatch(p) PROVE TypeInv'
  <2>1. CallsTyped'
    <3>1. \A o \in AllOps \ {"switch"}, pc \in {"enter", "stop", "gen"} :
            (pc = "enter" => o \in GuardedOps) => CallOK([Idle EXCEPT !.op = o, !.pc = pc])
      BY NewOK
    <3>2. QED
      BY <1>3, <3>1, CallsType DEF BeginPatch, Begin, AllOps, GuardedOps
  <2>2. Flags'
    BY <1>3, Zenon DEF BeginPatch, Flags
  <2>3. Data'
    BY <1>3, LatestType, EditedType DEF BeginPatch, Data
  <2>4. QED
    BY <2>1, <2>2, <2>3
<1>4. ASSUME NEW p \in Tasks, TurnedAway(p) PROVE TypeInv'
  <2>1. CallsTyped'
    <3>1. calls[p] # Idle
      BY <1>4 DEF TurnedAway, At, Idle, Pipeline
    <3>2. Answer(p, FALSE)
      BY <1>4 DEF TurnedAway, Finish
    <3>3. QED
      BY <3>1, <3>2, AnswerOK
  <2>2. Flags'
    BY <1>4, Zenon DEF TurnedAway, Flags
  <2>3. Data'
    BY <1>4 DEF TurnedAway, Data
  <2>4. QED
    BY <2>1, <2>2, <2>3
<1>5. ASSUME NEW p \in Tasks, Enter(p) PROVE TypeInv'
  <2>1. CallsTyped'
    BY <1>5, StepOK DEF Enter, Pipeline
  <2>2. Flags'
    BY <1>5, Zenon DEF Enter, Flags
  <2>3. Data'
    BY <1>5, LatestType, EditedType DEF Enter, Data
  <2>4. QED
    BY <2>1, <2>2, <2>3
<1>6. ASSUME NEW p \in Tasks, GenerateRead(p) PROVE TypeInv'
  <2>1. CallsTyped'
    <3>1. CallOK(calls[p]) /\ calls[p] # Idle
      BY <1>6, CallsAreOK DEF GenerateRead, At, Idle
    <3>2. CallOK([calls[p] EXCEPT !.pc = "write", !.seen = LatestProfile])
      BY <3>1, LatestType, RememberOK DEF Pipeline
    <3>3. calls' = [calls EXCEPT ![p] = [calls[p] EXCEPT !.pc = "write", !.seen = LatestProfile]]
      BY <1>6 DEF GenerateRead
    <3>4. QED
      BY <3>2, <3>3, CallsType
  <2>2. Flags'
    BY <1>6, Zenon DEF GenerateRead, Flags
  <2>3. Data'
    BY <1>6 DEF GenerateRead, Data
  <2>4. QED
    BY <2>1, <2>2, <2>3
<1>7. ASSUME NEW p \in Tasks, GenerateWrite(p) PROVE TypeInv'
  <2>1. CallsTyped'
    <3>1. CallOK(calls[p]) /\ calls[p] # Idle
      BY <1>7, CallsAreOK DEF GenerateWrite, At, Idle
    <3>2. CASE Fail(p)
      BY <3>1, <3>2, AnswerOK DEF Fail, Finish
    <3>3. ASSUME NEW to \in {"check", "stop"},
                 calls' = [calls EXCEPT ![p].pc = to, ![p].seen = None]
          PROVE  CallsTyped'
      <4>1. CallOK([calls[p] EXCEPT !.pc = to, !.seen = None])
        BY <3>1, ForgetOK DEF Pipeline
      <4>2. calls' = [calls EXCEPT ![p] = [calls[p] EXCEPT !.pc = to, !.seen = None]]
        BY <3>3
      <4>3. QED
        BY <4>1, <4>2, CallsType
    <3>4. QED
      BY <1>7, <3>2, <3>3 DEF GenerateWrite
  <2>2. Flags'
    BY <1>7, Zenon DEF GenerateWrite, Flags, Fail, Finish
  <2>3. Data'
    <3>1. calls[p].seen \in Profiles
      BY <1>7 DEF GenerateWrite, At, CallsTyped, CallsOK
    <3>2. QED
      BY <1>7, <3>1, BootType DEF GenerateWrite, Fail, Data
  <2>4. QED
    BY <2>1, <2>2, <2>3
<1>8. ASSUME NEW p \in Tasks, WriteCheckFile(p) PROVE TypeInv'
  <2>1. CallsTyped'
    <3>1. CallOK(calls[p]) /\ calls[p] # Idle
      BY <1>8, CallsAreOK DEF WriteCheckFile, At, Idle
    <3>2. CASE Fail(p)
      BY <3>1, <3>2, AnswerOK DEF Fail, Finish
    <3>3. CASE calls' = [calls EXCEPT ![p].pc = "verdict", ![p].seen = LatestRuntime]
      <4>1. CallOK([calls[p] EXCEPT !.pc = "verdict", !.seen = LatestRuntime])
        BY <3>1, LatestType, RememberOK DEF Pipeline
      <4>2. calls' = [calls EXCEPT ![p] = [calls[p] EXCEPT !.pc = "verdict", !.seen = LatestRuntime]]
        BY <3>3
      <4>3. QED
        BY <4>1, <4>2, CallsType
    <3>4. QED
      BY <1>8, <3>2, <3>3 DEF WriteCheckFile
  <2>2. Flags'
    BY <1>8, Zenon DEF WriteCheckFile, Flags, Fail, Finish
  <2>3. Data'
    BY <1>8 DEF WriteCheckFile, Fail, Data
  <2>4. QED
    BY <2>1, <2>2, <2>3
<1>9. ASSUME NEW p \in Tasks, Verdict(p) PROVE TypeInv'
  <2>1. CallsTyped'
    <3>1. CallOK(calls[p]) /\ calls[p] # Idle
      BY <1>9, CallsAreOK DEF Verdict, At, Idle
    <3>2. CASE Fail(p)
      BY <3>1, <3>2, AnswerOK DEF Fail, Finish
    <3>3. ASSUME NEW to \in {"run"},
                 calls' = [calls EXCEPT ![p].pc = to, ![p].seen = None]
          PROVE  CallsTyped'
      <4>1. CallOK([calls[p] EXCEPT !.pc = to, !.seen = None])
        BY <3>1, ForgetOK DEF Pipeline
      <4>2. calls' = [calls EXCEPT ![p] = [calls[p] EXCEPT !.pc = to, !.seen = None]]
        BY <3>3
      <4>3. QED
        BY <4>1, <4>2, CallsType
    <3>4. QED
      BY <1>9, <3>2, <3>3 DEF Verdict
  <2>2. Flags'
    BY <1>9, Zenon DEF Verdict, Flags, Fail, Finish
  <2>3. Data'
    BY <1>9 DEF Verdict, Fail, Data
  <2>4. QED
    BY <2>1, <2>2, <2>3
<1>10. ASSUME NEW p \in Tasks, WriteRunFile(p) PROVE TypeInv'
  <2>1. CallsTyped'
    <3>1. CallOK(calls[p]) /\ calls[p] # Idle
      BY <1>10, CallsAreOK DEF WriteRunFile, At, Idle
    <3>2. ASSUME NEW valid, Finish(p, valid) PROVE CallsTyped'
      BY <3>1, <3>2, AnswerOK DEF Finish
    <3>3. ASSUME calls' = [calls EXCEPT ![p].pc = "reload"] PROVE CallsTyped'
      <4>1. CallOK([calls[p] EXCEPT !.pc = "reload"])
        BY <3>1, MoveOK DEF Pipeline
      <4>2. calls' = [calls EXCEPT ![p] = [calls[p] EXCEPT !.pc = "reload"]]
        BY <3>3
      <4>3. QED
        BY <4>1, <4>2, CallsType
    <3>4. QED
      BY <1>10, <3>2, <3>3 DEF WriteRunFile, Fail
  <2>2. Flags'
    BY <1>10, Zenon DEF WriteRunFile, Flags, Finish
  <2>3. Data'
    BY <1>10, LatestType DEF WriteRunFile, Data
  <2>4. QED
    BY <2>1, <2>2, <2>3
<1>11. ASSUME NEW p \in Tasks, Reload(p) PROVE TypeInv'
  <2>1. CallsTyped'
    BY <1>11, StepOK DEF Reload, Pipeline
  <2>2. Flags'
    BY <1>11, Zenon DEF Reload, Flags
  <2>3. Data'
    BY <1>11 DEF Reload, Data
  <2>4. QED
    BY <2>1, <2>2, <2>3
<1>12. ASSUME NEW p \in Tasks, Stop(p) PROVE TypeInv'
  <2>1. CallsTyped'
    <3>1. CallOK(calls[p]) /\ calls[p] # Idle
      BY <1>12, CallsAreOK DEF Stop, At, Idle
    <3>2. ASSUME NEW valid, Finish(p, valid) PROVE CallsTyped'
      BY <3>1, <3>2, AnswerOK DEF Finish
    <3>3. ASSUME calls' = [calls EXCEPT ![p].pc = "start"] PROVE CallsTyped'
      <4>1. CallOK([calls[p] EXCEPT !.pc = "start"])
        BY <3>1, MoveOK DEF Pipeline
      <4>2. calls' = [calls EXCEPT ![p] = [calls[p] EXCEPT !.pc = "start"]]
        BY <3>3
      <4>3. QED
        BY <4>1, <4>2, CallsType
    <3>4. QED
      BY <1>12, <3>2, <3>3 DEF Stop, Fail
  <2>2. Flags'
    BY <1>12, Zenon DEF Stop, Flags, Fail, Finish
  <2>3. Data'
    BY <1>12 DEF Stop, Fail, Data
  <2>4. QED
    BY <2>1, <2>2, <2>3
<1>13. ASSUME NEW p \in Tasks, StartWrite(p) PROVE TypeInv'
  <2>1. CallsTyped'
    <3>1. CallOK(calls[p]) /\ calls[p] # Idle
      BY <1>13, CallsAreOK DEF StartWrite, At, Idle
    <3>2. ASSUME NEW valid, Finish(p, valid) PROVE CallsTyped'
      BY <3>1, <3>2, AnswerOK DEF Finish
    <3>3. ASSUME calls' = [calls EXCEPT ![p].pc = "spawn"] PROVE CallsTyped'
      <4>1. CallOK([calls[p] EXCEPT !.pc = "spawn"])
        BY <3>1, MoveOK DEF Pipeline
      <4>2. calls' = [calls EXCEPT ![p] = [calls[p] EXCEPT !.pc = "spawn"]]
        BY <3>3
      <4>3. QED
        BY <4>1, <4>2, CallsType
    <3>4. QED
      BY <1>13, <3>2, <3>3 DEF StartWrite, Fail
  <2>2. Flags'
    BY <1>13, Zenon DEF StartWrite, Flags, Fail, Finish
  <2>3. Data'
    BY <1>13, LatestType DEF StartWrite, Fail, Data
  <2>4. QED
    BY <2>1, <2>2, <2>3
<1>14. ASSUME NEW p \in Tasks, Spawn(p) PROVE TypeInv'
  <2>1. CallsTyped'
    <3>1. CallOK(calls[p]) /\ calls[p] # Idle
      BY <1>14, CallsAreOK DEF Spawn, At, Idle
    <3>2. ASSUME NEW valid, Finish(p, valid) PROVE CallsTyped'
      BY <3>1, <3>2, AnswerOK DEF Finish
    <3>3. ASSUME calls' = [calls EXCEPT ![p].pc = "applied"] PROVE CallsTyped'
      <4>1. CallOK([calls[p] EXCEPT !.pc = "applied"])
        BY <3>1, MoveOK DEF Pipeline
      <4>2. calls' = [calls EXCEPT ![p] = [calls[p] EXCEPT !.pc = "applied"]]
        BY <3>3
      <4>3. QED
        BY <4>1, <4>2, CallsType
    <3>4. QED
      BY <1>14, <3>2, <3>3 DEF Spawn, Fail
  <2>2. Flags'
    BY <1>14, Zenon DEF Spawn, Flags, Fail, Finish
  <2>3. Data'
    BY <1>14 DEF Spawn, Fail, Data
  <2>4. QED
    BY <2>1, <2>2, <2>3
<1>15. ASSUME NEW p \in Tasks, Applied(p) PROVE TypeInv'
  <2>1. CallsTyped'
    <3>1. calls[p] # Idle
      BY <1>15 DEF Applied, At, Idle, Pipeline
    <3>2. Answer(p, TRUE)
      BY <1>15 DEF Applied, Finish
    <3>3. QED
      BY <3>1, <3>2, AnswerOK
  <2>2. Flags'
    BY <1>15, Zenon DEF Applied, Flags, Finish
  <2>3. Data'
    BY <1>15, LatestType DEF Applied, Data
  <2>4. QED
    BY <2>1, <2>2, <2>3
<1>16. ASSUME NEW p \in Tasks, SwitchCommit(p) PROVE TypeInv'
  <2>1. CallsTyped'
    <3>1. CallOK(calls[p]) /\ calls[p] # Idle
      BY <1>16, CallsAreOK DEF SwitchCommit, Step, At, Idle
    <3>2. calls[p].op = "switch"
      BY <1>16 DEF SwitchCommit, Step, At, CallsTyped, CallsOK
    <3>3. CallOK([calls[p] EXCEPT !.pc = "unflag"])
      BY <3>1, <3>2, ConfigUpdateAssumption DEF CallOK, Calls, Idle, AllOps, GuardedOps, Pipeline
    <3>4. calls' = [calls EXCEPT ![p] = [calls[p] EXCEPT !.pc = "unflag"]]
      BY <1>16 DEF SwitchCommit, Step
    <3>5. QED
      BY <3>3, <3>4, CallsType
  <2>2. Flags'
    BY <1>16, Zenon DEF SwitchCommit, Flags
  <2>3. Data'
    BY <1>16, LatestType DEF SwitchCommit, Data
  <2>4. QED
    BY <2>1, <2>2, <2>3
<1>17. ASSUME NEW p \in Tasks, SwitchRestore(p) PROVE TypeInv'
  <2>1. CallsTyped'
    <3>1. CallOK(calls[p]) /\ calls[p] # Idle
      BY <1>17, CallsAreOK DEF SwitchRestore, Step, At, Idle
    <3>2. calls[p].op = "switch"
      BY <1>17 DEF SwitchRestore, Step, At, CallsTyped, CallsOK
    <3>3. CallOK([calls[p] EXCEPT !.pc = "unflag"])
      BY <3>1, <3>2, ConfigUpdateAssumption DEF CallOK, Calls, Idle, AllOps, GuardedOps, Pipeline
    <3>4. calls' = [calls EXCEPT ![p] = [calls[p] EXCEPT !.pc = "unflag"]]
      BY <1>17 DEF SwitchRestore, Step
    <3>5. QED
      BY <3>3, <3>4, CallsType
  <2>2. Flags'
    BY <1>17, Zenon DEF SwitchRestore, Flags
  <2>3. Data'
    <3>1. calls[p].prev \in Profiles
      BY <1>17 DEF SwitchRestore, Step, At, CallsTyped, CallsOK
    <3>2. QED
      BY <1>17, <3>1 DEF SwitchRestore, Data
  <2>4. QED
    BY <2>1, <2>2, <2>3
<1>18. ASSUME NEW p \in Tasks, Unflag(p) PROVE TypeInv'
  <2>1. CallsTyped'
    BY <1>18, IdleOK, CallsType DEF Unflag
  <2>2. Flags'
    BY <1>18, Zenon DEF Unflag, Flags
  <2>3. Data'
    BY <1>18 DEF Unflag, Data
  <2>4. QED
    BY <2>1, <2>2, <2>3
<1>19. ASSUME NEW p \in Tasks, TimeOut(p) PROVE TypeInv'
  <2>1. CallsTyped'
    <3>1. calls[p] # Idle
      BY <1>19 DEF TimeOut, At, Idle, Pipeline
    <3>2. Answer(p, FALSE)
      BY <1>19 DEF TimeOut, Finish
    <3>3. QED
      BY <3>1, <3>2, AnswerOK
  <2>2. Flags'
    BY <1>19, Zenon DEF TimeOut, Flags
  <2>3. Data'
    BY <1>19 DEF TimeOut, Data
  <2>4. QED
    BY <2>1, <2>2, <2>3
<1>20. CASE DebounceElapses
  <2>1. CallsTyped'
    BY <1>20 DEF DebounceElapses, CallsTyped, CallsOK, Guarded
  <2>2. Flags'
    BY <1>20, Zenon DEF DebounceElapses, Flags
  <2>3. Data'
    BY <1>20 DEF DebounceElapses, Data
  <2>4. QED
    BY <2>1, <2>2, <2>3
<1>21. CASE Exit
  <2>1. CallsTyped'
    BY <1>21 DEF Exit, CallsTyped, CallsOK, Guarded
  <2>2. Flags'
    BY <1>21, Zenon DEF Exit, Flags
  <2>3. Data'
    BY <1>21 DEF Exit, Data
  <2>4. QED
    BY <2>1, <2>2, <2>3
<1>22. CASE UNCHANGED vars
  <2>1. CallsTyped'
    BY <1>22 DEF vars, CallsTyped, CallsOK, Guarded
  <2>2. Flags'
    BY <1>22, Zenon DEF vars, Flags
  <2>3. Data'
    BY <1>22 DEF vars, Data
  <2>4. QED
    BY <2>1, <2>2, <2>3
<1>23. QED
  BY <1>1, <1>2, <1>3, <1>4, <1>5, <1>6, <1>7, <1>8, <1>9, <1>10, <1>11, <1>12, <1>13, <1>14, <1>15, <1>16, <1>17, <1>18, <1>19, <1>20, <1>21, <1>22 DEF Next, Proceed

(* The state of the pipeline has its type.                                 *)
THEOREM ConfigUpdateType == Spec => []TypeOK
<1>1. TypeInv => TypeOK
  BY DEF TypeInv, CallsTyped, Flags, Data, TypeOK
<1>2. QED
  BY <1>1, TypeInit, TypeNext, PTL DEF Spec
-----------------------------------------------------------------------------
(* The guard.  A step leaves everybody where they are, or one request      *)
(* enters or leaves and moves the flag with it.                            *)
Kept == \A q \in Tasks : Inside(q)' <=> Inside(q)
KeptBut(p) == \A q \in Tasks \ {p} : Inside(q)' <=> Inside(q)

GuardKept == Kept /\ inProgress' = inProgress
GuardLeft(p) == Inside(p) /\ ~Inside(p)' /\ KeptBut(p) /\ inProgress' = FALSE
GuardEntered(p) == ~inProgress /\ Inside(p)' /\ KeptBut(p) /\ inProgress' = TRUE

LEMMA GuardStep ==
  ASSUME OneUpdate, GuardKept \/ \E p \in Tasks : GuardLeft(p) \/ GuardEntered(p)
  PROVE  OneUpdate'
<1>1. CASE GuardKept
  <2>1. inProgress' <=> inProgress
    BY <1>1, Zenon DEF GuardKept
  <2>2. QED
    BY <1>1, <2>1 DEF GuardKept, Kept, OneUpdate
<1>2. ASSUME NEW p \in Tasks, GuardLeft(p) PROVE OneUpdate'
  <2>1. ~inProgress'
    BY <1>2, Zenon DEF GuardLeft
  <2>2. QED
    BY <1>2, <2>1 DEF GuardLeft, KeptBut, OneUpdate
<1>3. ASSUME NEW p \in Tasks, GuardEntered(p) PROVE OneUpdate'
  <2>1. ~inProgress /\ inProgress'
    BY <1>3, Zenon DEF GuardEntered
  <2>2. QED
    BY <1>3, <2>1 DEF GuardEntered, KeptBut, OneUpdate
<1>4. QED
  BY <1>1, <1>2, <1>3

LEMMA InsideMoved ==
  ASSUME TypeInv, NEW p \in Tasks, NEW c, calls' = [calls EXCEPT ![p] = c],
         c.op = calls[p].op, c.pc \in Pipeline <=> calls[p].pc \in Pipeline
  PROVE  Kept
  BY DEF Kept, Inside, Guarded, TypeInv, CallsTyped

LEMMA InsideAnswered ==
  ASSUME TypeInv, NEW p \in Tasks, NEW valid, Answer(p, valid)
  PROVE  ~Inside(p)' /\ KeptBut(p)
<1>1. calls'[p].pc \notin Pipeline
  BY DEF Answer, Idle, Pipeline, TypeInv, CallsTyped, Calls
<1>2. KeptBut(p)
  BY DEF Answer, KeptBut, Inside, Guarded, TypeInv, CallsTyped
<1>3. QED
  BY <1>1, <1>2 DEF Inside

LEMMA InsideFinished ==
  ASSUME TypeInv, NEW p \in Tasks, NEW valid, Finish(p, valid), calls[p].pc \in Pipeline
  PROVE  GuardKept \/ GuardLeft(p)
<1>1. ~Inside(p)' /\ KeptBut(p)
  BY InsideAnswered DEF Finish
<1>2. CASE Guarded(p)
  <2>1. inProgress' = FALSE
    BY <1>2, Zenon DEF Finish
  <2>2. QED
    BY <1>1, <1>2, <2>1 DEF GuardLeft, Inside
<1>3. CASE ~Guarded(p)
  <2>1. inProgress' = inProgress
    BY <1>3, Zenon DEF Finish
  <2>2. Kept
    BY <1>1, <1>3 DEF Kept, KeptBut, Inside
  <2>3. QED
    BY <2>1, <2>2 DEF GuardKept
<1>4. QED
  BY <1>2, <1>3

LEMMA GuardInit == Init => OneUpdate
<1> SUFFICES ASSUME Init PROVE OneUpdate
  OBVIOUS
<1>1. ~inProgress
  BY Zenon DEF Init
<1>2. \A p \in Tasks : ~Inside(p)
  BY DEF Init, Inside, Idle, Pipeline
<1>3. QED
  BY <1>1, <1>2 DEF OneUpdate

LEMMA GuardNext == TypeInv /\ OneUpdate /\ [Next]_vars => OneUpdate'
<1> SUFFICES ASSUME TypeInv, OneUpdate, [Next]_vars
             PROVE  GuardKept \/ \E p \in Tasks : GuardLeft(p) \/ GuardEntered(p)
  BY GuardStep
<1>1. ASSUME NEW p \in Tasks, NEW t \in Profiles, BeginSwitch(p, t) PROVE GuardKept \/ GuardLeft(p) \/ GuardEntered(p)
  <2>1. inProgress' = inProgress
    BY <1>1, Zenon DEF BeginSwitch
  <2>2. Kept
    <3>1. ~Inside(p) /\ ~Inside(p)'
      BY <1>1 DEF BeginSwitch, Inside, Idle, Pipeline, TypeInv, CallsTyped
    <3>2. QED
      BY <1>1, <3>1 DEF BeginSwitch, Kept, Inside, Guarded, TypeInv, CallsTyped
  <2>3. QED
    BY <2>1, <2>2 DEF GuardKept
<1>2. ASSUME NEW p \in Tasks, BeginOther(p) PROVE GuardKept \/ GuardLeft(p) \/ GuardEntered(p)
  <2>1. inProgress' = inProgress
    BY <1>2, Zenon DEF BeginOther
  <2>2. Kept
    <3>1. ~Inside(p) /\ ~Inside(p)'
      BY <1>2 DEF BeginOther, Begin, Inside, Guarded, GuardedOps, Idle, Pipeline, TypeInv, CallsTyped
    <3>2. QED
      BY <1>2, <3>1 DEF BeginOther, Begin, Kept, Inside, Guarded, TypeInv, CallsTyped
  <2>3. QED
    BY <2>1, <2>2 DEF GuardKept
<1>3. ASSUME NEW p \in Tasks, BeginPatch(p) PROVE GuardKept \/ GuardLeft(p) \/ GuardEntered(p)
  <2>1. inProgress' = inProgress
    BY <1>3, Zenon DEF BeginPatch
  <2>2. Kept
    <3>1. ~Inside(p) /\ ~Inside(p)'
      BY <1>3 DEF BeginPatch, Begin, Inside, Guarded, GuardedOps, Idle, Pipeline, TypeInv, CallsTyped
    <3>2. QED
      BY <1>3, <3>1 DEF BeginPatch, Begin, Kept, Inside, Guarded, TypeInv, CallsTyped
  <2>3. QED
    BY <2>1, <2>2 DEF GuardKept
<1>4. ASSUME NEW p \in Tasks, TurnedAway(p) PROVE GuardKept \/ GuardLeft(p) \/ GuardEntered(p)
  <2>1. inProgress' = inProgress
    BY <1>4, Zenon DEF TurnedAway
  <2>2. Kept
    <3>1. ~Inside(p)
      BY <1>4 DEF TurnedAway, At, Inside, Pipeline
    <3>2. \A v : Answer(p, v) => ~Inside(p)' /\ KeptBut(p)
      BY InsideAnswered
    <3>3. ~Inside(p)' /\ KeptBut(p)
      BY <1>4, <3>2 DEF TurnedAway
    <3>4. QED
      BY <3>1, <3>3 DEF Kept, KeptBut
  <2>3. QED
    BY <2>1, <2>2 DEF GuardKept
<1>5. ASSUME NEW p \in Tasks, Enter(p) PROVE GuardKept \/ GuardLeft(p) \/ GuardEntered(p)
  <2>1. ~inProgress /\ inProgress' = TRUE
    BY <1>5, Zenon DEF Enter
  <2>2. Inside(p)' /\ KeptBut(p)
    <3>1. \E to \in {"check", "gen"} : calls' = [calls EXCEPT ![p].pc = to]
      BY <1>5 DEF Enter, Step
    <3>2. calls[p].pc = "enter"
      BY <1>5 DEF Enter, Step, At
    <3>3. Guarded(p)
      BY <3>2 DEF TypeInv, CallsTyped, CallsOK
    <3>4. QED
      BY <3>1, <3>3 DEF Inside, KeptBut, Guarded, Pipeline, TypeInv, CallsTyped
  <2>3. QED
    BY <2>1, <2>2 DEF GuardEntered
<1>6. ASSUME NEW p \in Tasks, GenerateRead(p) PROVE GuardKept \/ GuardLeft(p) \/ GuardEntered(p)
  <2>1. inProgress' = inProgress
    BY <1>6, Zenon DEF GenerateRead
  <2>2. Kept
    <3>1. calls' = [calls EXCEPT ![p] = [calls[p] EXCEPT !.pc = "write", !.seen = LatestProfile]]
      BY <1>6 DEF GenerateRead
    <3>2. calls[p] \in Calls /\ calls[p].pc \in Pipeline
      BY <1>6 DEF GenerateRead, At, Pipeline, TypeInv, CallsTyped
    <3>3. QED
      BY <3>1, <3>2, InsideMoved DEF Calls, Pipeline
  <2>3. QED
    BY <2>1, <2>2 DEF GuardKept
<1>7. ASSUME NEW p \in Tasks, GenerateWrite(p) PROVE GuardKept \/ GuardLeft(p) \/ GuardEntered(p)
  <2>1. calls[p] \in Calls /\ calls[p].pc \in Pipeline
    BY <1>7 DEF GenerateWrite, At, Pipeline, TypeInv, CallsTyped
  <2>2. ASSUME NEW v, Finish(p, v) PROVE GuardKept \/ GuardLeft(p)
    BY <2>1, <2>2, InsideFinished
  <2>3. ASSUME NEW to \in {"check", "stop"},
               calls' = [calls EXCEPT ![p].pc = to, ![p].seen = None]
        PROVE  Kept
    <3>1. calls' = [calls EXCEPT ![p] = [calls[p] EXCEPT !.pc = to, !.seen = None]]
      BY <2>3
    <3>2. QED
      BY <2>1, <3>1, InsideMoved DEF Calls, Pipeline
  <2>4. (\E v : Finish(p, v)) \/ (Kept /\ UNCHANGED inProgress)
    BY <1>7, <2>3 DEF GenerateWrite, Fail
  <2>5. QED
    BY <2>2, <2>4 DEF GuardKept
<1>8. ASSUME NEW p \in Tasks, WriteCheckFile(p) PROVE GuardKept \/ GuardLeft(p) \/ GuardEntered(p)
  <2>1. calls[p] \in Calls /\ calls[p].pc \in Pipeline
    BY <1>8 DEF WriteCheckFile, At, Pipeline, TypeInv, CallsTyped
  <2>2. ASSUME NEW v, Finish(p, v) PROVE GuardKept \/ GuardLeft(p)
    BY <2>1, <2>2, InsideFinished
  <2>3. ASSUME NEW to \in {"verdict"},
               calls' = [calls EXCEPT ![p].pc = to, ![p].seen = LatestRuntime]
        PROVE  Kept
    <3>1. calls' = [calls EXCEPT ![p] = [calls[p] EXCEPT !.pc = to, !.seen = LatestRuntime]]
      BY <2>3
    <3>2. QED
      BY <2>1, <3>1, InsideMoved DEF Calls, Pipeline
  <2>4. (\E v : Finish(p, v)) \/ (Kept /\ UNCHANGED inProgress)
    BY <1>8, <2>3 DEF WriteCheckFile, Fail
  <2>5. QED
    BY <2>2, <2>4 DEF GuardKept
<1>9. ASSUME NEW p \in Tasks, Verdict(p) PROVE GuardKept \/ GuardLeft(p) \/ GuardEntered(p)
  <2>1. calls[p] \in Calls /\ calls[p].pc \in Pipeline
    BY <1>9 DEF Verdict, At, Pipeline, TypeInv, CallsTyped
  <2>2. ASSUME NEW v, Finish(p, v) PROVE GuardKept \/ GuardLeft(p)
    BY <2>1, <2>2, InsideFinished
  <2>3. ASSUME NEW to \in {"run"},
               calls' = [calls EXCEPT ![p].pc = to, ![p].seen = None]
        PROVE  Kept
    <3>1. calls' = [calls EXCEPT ![p] = [calls[p] EXCEPT !.pc = to, !.seen = None]]
      BY <2>3
    <3>2. QED
      BY <2>1, <3>1, InsideMoved DEF Calls, Pipeline
  <2>4. (\E v : Finish(p, v)) \/ (Kept /\ UNCHANGED inProgress)
    BY <1>9, <2>3 DEF Verdict, Fail
  <2>5. QED
    BY <2>2, <2>4 DEF GuardKept
<1>10. ASSUME NEW p \in Tasks, WriteRunFile(p) PROVE GuardKept \/ GuardLeft(p) \/ GuardEntered(p)
  <2>1. calls[p] \in Calls /\ calls[p].pc \in Pipeline
    BY <1>10 DEF WriteRunFile, At, Pipeline, TypeInv, CallsTyped
  <2>2. ASSUME NEW v, Finish(p, v) PROVE GuardKept \/ GuardLeft(p)
    BY <2>1, <2>2, InsideFinished
  <2>3. ASSUME NEW to \in {"reload"},
               calls' = [calls EXCEPT ![p].pc = to]
        PROVE  Kept
    <3>1. calls' = [calls EXCEPT ![p] = [calls[p] EXCEPT !.pc = to]]
      BY <2>3
    <3>2. QED
      BY <2>1, <3>1, InsideMoved DEF Calls, Pipeline
  <2>4. (\E v : Finish(p, v)) \/ (Kept /\ UNCHANGED inProgress)
    BY <1>10, <2>3 DEF WriteRunFile
  <2>5. QED
    BY <2>2, <2>4 DEF GuardKept
<1>11. ASSUME NEW p \in Tasks, Reload(p) PROVE GuardKept \/ GuardLeft(p) \/ GuardEntered(p)
  <2>1. inProgress' = inProgress
    BY <1>11, Zenon DEF Reload
  <2>2. Kept
    <3>1. \E to \in {"applied", "stop"} : calls' = [calls EXCEPT ![p].pc = to]
      BY <1>11 DEF Reload, Step
    <3>2. calls[p] \in Calls /\ calls[p].pc \in Pipeline
      BY <1>11 DEF Reload, Step, At, Pipeline, TypeInv, CallsTyped
    <3>3. PICK to \in {"applied", "stop"} : calls' = [calls EXCEPT ![p] = [calls[p] EXCEPT !.pc = to]]
      BY <3>1
    <3>4. QED
      BY <3>2, <3>3, InsideMoved DEF Calls, Pipeline
  <2>3. QED
    BY <2>1, <2>2 DEF GuardKept
<1>12. ASSUME NEW p \in Tasks, Stop(p) PROVE GuardKept \/ GuardLeft(p) \/ GuardEntered(p)
  <2>1. calls[p] \in Calls /\ calls[p].pc \in Pipeline
    BY <1>12 DEF Stop, At, Pipeline, TypeInv, CallsTyped
  <2>2. ASSUME NEW v, Finish(p, v) PROVE GuardKept \/ GuardLeft(p)
    BY <2>1, <2>2, InsideFinished
  <2>3. ASSUME NEW to \in {"start"},
               calls' = [calls EXCEPT ![p].pc = to]
        PROVE  Kept
    <3>1. calls' = [calls EXCEPT ![p] = [calls[p] EXCEPT !.pc = to]]
      BY <2>3
    <3>2. QED
      BY <2>1, <3>1, InsideMoved DEF Calls, Pipeline
  <2>4. (\E v : Finish(p, v)) \/ (Kept /\ UNCHANGED inProgress)
    BY <1>12, <2>3 DEF Stop, Fail
  <2>5. QED
    BY <2>2, <2>4 DEF GuardKept
<1>13. ASSUME NEW p \in Tasks, StartWrite(p) PROVE GuardKept \/ GuardLeft(p) \/ GuardEntered(p)
  <2>1. calls[p] \in Calls /\ calls[p].pc \in Pipeline
    BY <1>13 DEF StartWrite, At, Pipeline, TypeInv, CallsTyped
  <2>2. ASSUME NEW v, Finish(p, v) PROVE GuardKept \/ GuardLeft(p)
    BY <2>1, <2>2, InsideFinished
  <2>3. ASSUME NEW to \in {"spawn"},
               calls' = [calls EXCEPT ![p].pc = to]
        PROVE  Kept
    <3>1. calls' = [calls EXCEPT ![p] = [calls[p] EXCEPT !.pc = to]]
      BY <2>3
    <3>2. QED
      BY <2>1, <3>1, InsideMoved DEF Calls, Pipeline
  <2>4. (\E v : Finish(p, v)) \/ (Kept /\ UNCHANGED inProgress)
    BY <1>13, <2>3 DEF StartWrite, Fail
  <2>5. QED
    BY <2>2, <2>4 DEF GuardKept
<1>14. ASSUME NEW p \in Tasks, Spawn(p) PROVE GuardKept \/ GuardLeft(p) \/ GuardEntered(p)
  <2>1. calls[p] \in Calls /\ calls[p].pc \in Pipeline
    BY <1>14 DEF Spawn, At, Pipeline, TypeInv, CallsTyped
  <2>2. ASSUME NEW v, Finish(p, v) PROVE GuardKept \/ GuardLeft(p)
    BY <2>1, <2>2, InsideFinished
  <2>3. ASSUME NEW to \in {"applied"},
               calls' = [calls EXCEPT ![p].pc = to]
        PROVE  Kept
    <3>1. calls' = [calls EXCEPT ![p] = [calls[p] EXCEPT !.pc = to]]
      BY <2>3
    <3>2. QED
      BY <2>1, <3>1, InsideMoved DEF Calls, Pipeline
  <2>4. (\E v : Finish(p, v)) \/ (Kept /\ UNCHANGED inProgress)
    BY <1>14, <2>3 DEF Spawn, Fail
  <2>5. QED
    BY <2>2, <2>4 DEF GuardKept
<1>15. ASSUME NEW p \in Tasks, Applied(p) PROVE GuardKept \/ GuardLeft(p) \/ GuardEntered(p)
  <2>1. calls[p].pc \in Pipeline /\ Finish(p, TRUE)
    BY <1>15 DEF Applied, At, Pipeline
  <2>2. QED
    BY <2>1, InsideFinished
<1>16. ASSUME NEW p \in Tasks, SwitchCommit(p) PROVE GuardKept \/ GuardLeft(p) \/ GuardEntered(p)
  <2>1. inProgress' = inProgress
    BY <1>16, Zenon DEF SwitchCommit
  <2>2. Kept
    <3>1. calls' = [calls EXCEPT ![p] = [calls[p] EXCEPT !.pc = "unflag"]]
      BY <1>16 DEF SwitchCommit, Step
    <3>2. calls[p] \in Calls /\ calls[p].pc \notin Pipeline
      BY <1>16 DEF SwitchCommit, Step, At, Pipeline, TypeInv, CallsTyped
    <3>3. QED
      BY <3>1, <3>2, InsideMoved DEF Calls, Pipeline
  <2>3. QED
    BY <2>1, <2>2 DEF GuardKept
<1>17. ASSUME NEW p \in Tasks, SwitchRestore(p) PROVE GuardKept \/ GuardLeft(p) \/ GuardEntered(p)
  <2>1. inProgress' = inProgress
    BY <1>17, Zenon DEF SwitchRestore
  <2>2. Kept
    <3>1. calls' = [calls EXCEPT ![p] = [calls[p] EXCEPT !.pc = "unflag"]]
      BY <1>17 DEF SwitchRestore, Step
    <3>2. calls[p] \in Calls /\ calls[p].pc \notin Pipeline
      BY <1>17 DEF SwitchRestore, Step, At, Pipeline, TypeInv, CallsTyped
    <3>3. QED
      BY <3>1, <3>2, InsideMoved DEF Calls, Pipeline
  <2>3. QED
    BY <2>1, <2>2 DEF GuardKept
<1>18. ASSUME NEW p \in Tasks, Unflag(p) PROVE GuardKept \/ GuardLeft(p) \/ GuardEntered(p)
  <2>1. inProgress' = inProgress
    BY <1>18, Zenon DEF Unflag
  <2>2. Kept
    <3>1. ~Inside(p) /\ ~Inside(p)'
      BY <1>18 DEF Unflag, At, Inside, Idle, Pipeline, TypeInv, CallsTyped
    <3>2. QED
      BY <1>18, <3>1 DEF Unflag, Kept, Inside, Guarded, TypeInv, CallsTyped
  <2>3. QED
    BY <2>1, <2>2 DEF GuardKept
<1>19. ASSUME NEW p \in Tasks, TimeOut(p) PROVE GuardKept \/ GuardLeft(p) \/ GuardEntered(p)
  <2>1. inProgress' = FALSE
    BY <1>19, Zenon DEF TimeOut
  <2>2. Inside(p)
    BY <1>19 DEF TimeOut, Inside, Guarded, GuardedOps
  <2>3. ~Inside(p)' /\ KeptBut(p)
    BY <1>19, InsideAnswered DEF TimeOut
  <2>4. QED
    BY <2>1, <2>2, <2>3 DEF GuardLeft
<1>20. CASE DebounceElapses
  BY <1>20 DEF DebounceElapses, GuardKept, Kept, Inside, Guarded
<1>21. CASE Exit
  BY <1>21 DEF Exit, GuardKept, Kept, Inside, Guarded
<1>22. CASE UNCHANGED vars
  BY <1>22 DEF vars, GuardKept, Kept, Inside, Guarded
<1>23. QED
  BY <1>1, <1>2, <1>3, <1>4, <1>5, <1>6, <1>7, <1>8, <1>9, <1>10, <1>11, <1>12, <1>13, <1>14, <1>15, <1>16, <1>17, <1>18, <1>19, <1>20, <1>21, <1>22 DEF Next, Proceed

(* Two updates never generate, validate, write or apply at the same time,  *)
(* whatever kinds of request are made and also when a switch times out.    *)
THEOREM ConfigUpdateGuard == Spec => []OneUpdate
  BY TypeInit, TypeNext, GuardInit, GuardNext, PTL DEF Spec

-----------------------------------------------------------------------------
(* What a step does to the request that takes it, the flags aside.       *)
SafeOps == {"switch", "update", "auto", "chain"}

Others(p) == \A q \in Tasks \ {p} : calls'[q] = calls[q]

Moved(p, to) == Others(p) /\ calls'[p].op = calls[p].op /\ calls'[p].pc = to
                /\ calls'[p].target = calls[p].target

Answered(p, valid) ==
  /\ Others(p)
  /\ \/ calls[p].op # "switch" /\ calls'[p] = Idle
     \/ /\ calls[p].op = "switch" /\ calls'[p].op = "switch"
        /\ calls'[p].target = calls[p].target
        /\ calls'[p].pc = IF valid THEN "commit" ELSE "restore"

Failed(p) ==
  /\ Answered(p, FALSE)
  /\ runtimeDraft' = IF Guarded(p) THEN None ELSE runtimeDraft

ProfilesKept == profile' = profile /\ profileDraft' = profileDraft
RuntimeKept == runtime' = runtime /\ runtimeDraft' = runtimeDraft
FilesKept == runFile' = runFile /\ core' = core

LEMMA MoveFacts ==
  ASSUME TypeInv, NEW p \in Tasks, NEW to, NEW x
  PROVE  /\ calls' = [calls EXCEPT ![p].pc = to]
               => Moved(p, to) /\ calls'[p].seen = calls[p].seen
         /\ calls' = [calls EXCEPT ![p].pc = to, ![p].seen = x]
               => Moved(p, to) /\ calls'[p].seen = x
  BY DEF TypeInv, CallsTyped, Calls, Moved, Others

LEMMA AnswerFacts ==
  ASSUME TypeInv, NEW p \in Tasks, NEW valid
  PROVE  /\ Answer(p, valid) => Answered(p, valid)
         /\ Finish(p, valid) => Answered(p, valid)
         /\ Fail(p) => Failed(p)
<1>1. \A v : Answer(p, v) => Answered(p, v)
  BY DEF TypeInv, CallsTyped, Calls, Answer, Answered, Others
<1>2. QED
  BY <1>1 DEF Finish, Fail, Failed

LEMMA TurnedAwayShape ==
  ASSUME TypeInv, NEW p \in Tasks, TurnedAway(p)
  PROVE  /\ calls[p].pc = "enter" /\ Answered(p, FALSE)
         /\ ProfilesKept /\ RuntimeKept /\ FilesKept
  BY AnswerFacts DEF TurnedAway, At, ProfilesKept, RuntimeKept, FilesKept

LEMMA EnterShape ==
  ASSUME TypeInv, NEW p \in Tasks, Enter(p)
  PROVE  /\ ~inProgress /\ calls[p].pc = "enter"
         /\ \/ calls[p].op = "chain" /\ Moved(p, "check") /\ runtimeDraft' = Edited(LatestRuntime)
            \/ calls[p].op # "chain" /\ Moved(p, "gen") /\ runtimeDraft' = runtimeDraft
         /\ runtime' = runtime /\ ProfilesKept /\ FilesKept
<1>1. ~inProgress
  BY Zenon DEF Enter
<1>2. QED
  BY <1>1, MoveFacts DEF Enter, Step, At, ProfilesKept, RuntimeKept, FilesKept

LEMMA GenerateReadShape ==
  ASSUME TypeInv, NEW p \in Tasks, GenerateRead(p)
  PROVE  /\ calls[p].pc = "gen" /\ Moved(p, "write") /\ calls'[p].seen = LatestProfile
         /\ ProfilesKept /\ RuntimeKept /\ FilesKept
  BY MoveFacts DEF GenerateRead, At, ProfilesKept, RuntimeKept, FilesKept

LEMMA GenerateWriteShape ==
  ASSUME TypeInv, NEW p \in Tasks, GenerateWrite(p)
  PROVE  /\ calls[p].pc = "write"
         /\ \/ Moved(p, IF Guarded(p) THEN "check" ELSE "stop") /\ runtimeDraft' = BootConfig(calls[p].seen)
            \/ Failed(p)
         /\ runtime' = runtime /\ ProfilesKept /\ FilesKept
  BY MoveFacts, AnswerFacts DEF GenerateWrite, At, ProfilesKept, RuntimeKept, FilesKept

LEMMA WriteCheckFileShape ==
  ASSUME TypeInv, NEW p \in Tasks, WriteCheckFile(p)
  PROVE  /\ calls[p].pc = "check"
         /\ \/ Moved(p, "verdict") /\ calls'[p].seen = LatestRuntime /\ runtimeDraft' = runtimeDraft
            \/ Failed(p)
         /\ runtime' = runtime /\ ProfilesKept /\ FilesKept
  BY MoveFacts, AnswerFacts DEF WriteCheckFile, At, ProfilesKept, RuntimeKept, FilesKept

LEMMA VerdictShape ==
  ASSUME TypeInv, NEW p \in Tasks, Verdict(p)
  PROVE  /\ calls[p].pc = "verdict"
         /\ \/ calls[p].seen \in Accepted /\ Moved(p, "run") /\ runtimeDraft' = runtimeDraft
            \/ Failed(p)
         /\ runtime' = runtime /\ ProfilesKept /\ FilesKept
  BY MoveFacts, AnswerFacts DEF Verdict, At, ProfilesKept, RuntimeKept, FilesKept

LEMMA WriteRunFileShape ==
  ASSUME TypeInv, NEW p \in Tasks, WriteRunFile(p)
  PROVE  /\ calls[p].pc = "run"
         /\ \/ Moved(p, "reload") /\ runFile' = LatestRuntime
            \/ Answered(p, FALSE) /\ runFile' = runFile
         /\ core' = core /\ ProfilesKept /\ RuntimeKept
  BY MoveFacts, AnswerFacts DEF WriteRunFile, At, ProfilesKept, RuntimeKept, FilesKept

LEMMA ReloadShape ==
  ASSUME TypeInv, NEW p \in Tasks, Reload(p)
  PROVE  /\ calls[p].pc = "reload"
         /\ \/ Moved(p, "applied") /\ core' = runFile
            \/ Moved(p, "stop") /\ core' = core
         /\ runFile' = runFile /\ ProfilesKept /\ RuntimeKept
  BY MoveFacts DEF Reload, Step, At, ProfilesKept, RuntimeKept, FilesKept

LEMMA StopShape ==
  ASSUME TypeInv, NEW p \in Tasks, Stop(p)
  PROVE  /\ calls[p].pc = "stop"
         /\ \/ Moved(p, "start") /\ core' = None /\ runtimeDraft' = runtimeDraft
            \/ Failed(p) /\ core' = core
         /\ runtime' = runtime /\ runFile' = runFile /\ ProfilesKept
  BY MoveFacts, AnswerFacts DEF Stop, At, ProfilesKept, RuntimeKept, FilesKept

LEMMA StartWriteShape ==
  ASSUME TypeInv, NEW p \in Tasks, StartWrite(p)
  PROVE  /\ calls[p].pc = "start"
         /\ \/ Moved(p, "spawn") /\ runFile' = LatestRuntime /\ runtimeDraft' = runtimeDraft
            \/ Failed(p) /\ runFile' = runFile
         /\ runtime' = runtime /\ core' = core /\ ProfilesKept
  BY MoveFacts, AnswerFacts DEF StartWrite, At, ProfilesKept, RuntimeKept, FilesKept

LEMMA SpawnShape ==
  ASSUME TypeInv, NEW p \in Tasks, Spawn(p)
  PROVE  /\ calls[p].pc = "spawn"
         /\ \/ /\ \/ Guarded(p) /\ Moved(p, "applied")
                  \/ ~Guarded(p) /\ Answered(p, TRUE)
               /\ core' = runFile /\ runtimeDraft' = runtimeDraft
            \/ Failed(p) /\ core' = core
         /\ runtime' = runtime /\ runFile' = runFile /\ ProfilesKept
  BY MoveFacts, AnswerFacts DEF Spawn, At, ProfilesKept, RuntimeKept, FilesKept

LEMMA AppliedShape ==
  ASSUME TypeInv, NEW p \in Tasks, Applied(p)
  PROVE  /\ calls[p].pc = "applied" /\ Answered(p, TRUE)
         /\ runtime' = LatestRuntime /\ runtimeDraft' = None
         /\ ProfilesKept /\ FilesKept
  BY AnswerFacts DEF Applied, At, ProfilesKept, RuntimeKept, FilesKept

LEMMA SwitchCommitShape ==
  ASSUME TypeInv, NEW p \in Tasks, SwitchCommit(p)
  PROVE  /\ calls[p].pc = "commit" /\ calls[p].op = "switch" /\ Moved(p, "unflag")
         /\ profile' = LatestProfile /\ profileDraft' = None
         /\ RuntimeKept /\ FilesKept
  BY MoveFacts DEF SwitchCommit, Step, At, TypeInv, CallsTyped, CallsOK, ProfilesKept, RuntimeKept, FilesKept

LEMMA SwitchRestoreShape ==
  ASSUME TypeInv, NEW p \in Tasks, SwitchRestore(p)
  PROVE  /\ calls[p].pc = "restore" /\ calls[p].op = "switch" /\ Moved(p, "unflag")
         /\ profile' = calls[p].prev /\ profileDraft' = None
         /\ RuntimeKept /\ FilesKept
  BY MoveFacts DEF SwitchRestore, Step, At, TypeInv, CallsTyped, CallsOK, ProfilesKept, RuntimeKept, FilesKept

LEMMA UnflagShape ==
  ASSUME TypeInv, NEW p \in Tasks, Unflag(p)
  PROVE  /\ calls[p].pc = "unflag" /\ Others(p) /\ calls'[p] = Idle
         /\ ProfilesKept /\ RuntimeKept /\ FilesKept
  BY DEF Unflag, At, Others, TypeInv, CallsTyped, ProfilesKept, RuntimeKept, FilesKept

LEMMA TimeOutShape ==
  ASSUME TypeInv, NEW p \in Tasks, TimeOut(p)
  PROVE  /\ TimesOut /\ calls[p].op = "switch" /\ calls[p].pc \in Pipeline \ {"applied"} /\ Answered(p, FALSE)
         /\ \/ core' = core
            \/ calls[p].pc \in {"reload", "spawn"} /\ core' = runFile
            \/ calls[p].pc = "stop" /\ core' = None
         /\ runFile' = runFile /\ ProfilesKept /\ RuntimeKept
  BY AnswerFacts DEF TimeOut, At, ProfilesKept, RuntimeKept, FilesKept

LEMMA BeginSwitchShape ==
  ASSUME TypeInv, NEW p \in Tasks, NEW t \in Profiles, BeginSwitch(p, t)
  PROVE  /\ ~switching /\ switching'
         /\ calls[p] = Idle /\ Others(p)
         /\ calls'[p].op = "switch" /\ calls'[p].pc = "enter" /\ calls'[p].target = t
         /\ profile' = profile /\ profileDraft' = t /\ RuntimeKept /\ FilesKept
<1>1. ~switching /\ switching'
  BY Zenon DEF BeginSwitch
<1>2. QED
  BY <1>1 DEF BeginSwitch, Idle, Others, TypeInv, CallsTyped, RuntimeKept, FilesKept

LEMMA BeginShape ==
  ASSUME \A q \in Tasks : Ops[q] \subseteq SafeOps, TypeInv, NEW p \in Tasks,
         BeginOther(p) \/ BeginPatch(p)
  PROVE  /\ calls[p] = Idle /\ Others(p)
         /\ calls'[p].op \in {"update", "auto", "chain"} /\ calls'[p].pc = "enter"
         /\ ProfilesKept /\ RuntimeKept /\ FilesKept
<1>1. BeginOther(p) /\ \E o \in {"update", "auto", "chain"} : Begin(p, o, "enter")
  BY DEF BeginOther, BeginPatch, Begin, SafeOps
<1>2. PICK o \in {"update", "auto", "chain"} : Begin(p, o, "enter")
  BY <1>1
<1>3. calls' = [calls EXCEPT ![p] = [Idle EXCEPT !.op = o, !.pc = "enter"]] /\ calls[p] = Idle
  BY <1>2 DEF Begin
<1>4. [Idle EXCEPT !.op = o, !.pc = "enter"].op = o /\ [Idle EXCEPT !.op = o, !.pc = "enter"].pc = "enter"
  BY DEF Idle
<1>5. QED
  BY <1>1, <1>3, <1>4 DEF BeginOther, Others, TypeInv, CallsTyped, ProfilesKept, RuntimeKept, FilesKept

-----------------------------------------------------------------------------
(* Validation.  When every request goes through the guard, the task    *)
(* inside is the only one that changes the runtime configuration, the run  *)
(* file or the core, so what it has validated is still what it runs.       *)
Served == \A p \in Tasks : calls[p].op \in SafeOps \cup {"none"}

Alone ==
  \A p, q \in Tasks : calls[p].pc \in Pipeline /\ calls[q].pc \in Pipeline => p = q

Free == ~inProgress => \A p \in Tasks : calls[p].pc \notin Pipeline

ValidInv ==
  /\ CoreRunsValidated
  /\ \A p \in Tasks :
       /\ calls[p].pc = "verdict" => calls[p].seen = LatestRuntime
       /\ calls[p].pc \in {"run", "reload", "stop", "start", "spawn"} => LatestRuntime \in Accepted
       /\ calls[p].pc \in {"reload", "stop", "start", "spawn"} => runFile \in Accepted

LEMMA ServedInit == Init => Served
<1>1. Init => \A p \in Tasks : calls[p] = Idle
  BY DEF Init
<1>2. Idle.op = "none"
  BY DEF Idle
<1>3. QED
  BY <1>1, <1>2 DEF Served

LEMMA ServedAlone ==
  ASSUME TypeInv, OneUpdate, Served
  PROVE  Alone /\ Free
<1>1. \A p \in Tasks : calls[p].pc \in Pipeline => Inside(p)
  BY DEF TypeInv, CallsTyped, Served, SafeOps, Inside, Guarded, GuardedOps, Idle, Pipeline
<1>2. QED
  BY <1>1 DEF Alone, Free, OneUpdate

LEMMA AllGuarded ==
  ASSUME TypeInv, Served, NEW p \in Tasks, calls[p].pc # "idle"
  PROVE  Guarded(p)
<1>1. calls[p].op # "none"
  BY DEF TypeInv, CallsTyped, Idle
<1>2. QED
  BY <1>1 DEF Served, SafeOps, Guarded, GuardedOps

LEMMA ServedNext ==
  ASSUME \A q \in Tasks : Ops[q] \subseteq SafeOps, TypeInv, Served, [Next]_vars
  PROVE  Served'
<1> USE DEF Served
<1>1. ASSUME NEW p \in Tasks, NEW t \in Profiles, BeginSwitch(p, t) PROVE Served'
  BY <1>1, BeginSwitchShape DEF Moved, Others, Answered, Failed, Idle, SafeOps
<1>2. ASSUME NEW p \in Tasks, BeginOther(p) \/ BeginPatch(p) PROVE Served'
  BY <1>2, BeginShape DEF Moved, Others, Answered, Failed, Idle, SafeOps
<1>3. ASSUME NEW p \in Tasks, TurnedAway(p) PROVE Served'
  BY <1>3, TurnedAwayShape DEF Moved, Others, Answered, Failed, Idle
<1>4. ASSUME NEW p \in Tasks, Enter(p) PROVE Served'
  BY <1>4, EnterShape DEF Moved, Others, Answered, Failed, Idle
<1>5. ASSUME NEW p \in Tasks, GenerateRead(p) PROVE Served'
  BY <1>5, GenerateReadShape DEF Moved, Others, Answered, Failed, Idle
<1>6. ASSUME NEW p \in Tasks, GenerateWrite(p) PROVE Served'
  BY <1>6, GenerateWriteShape DEF Moved, Others, Answered, Failed, Idle
<1>7. ASSUME NEW p \in Tasks, WriteCheckFile(p) PROVE Served'
  BY <1>7, WriteCheckFileShape DEF Moved, Others, Answered, Failed, Idle
<1>8. ASSUME NEW p \in Tasks, Verdict(p) PROVE Served'
  BY <1>8, VerdictShape DEF Moved, Others, Answered, Failed, Idle
<1>9. ASSUME NEW p \in Tasks, WriteRunFile(p) PROVE Served'
  BY <1>9, WriteRunFileShape DEF Moved, Others, Answered, Failed, Idle
<1>10. ASSUME NEW p \in Tasks, Reload(p) PROVE Served'
  BY <1>10, ReloadShape DEF Moved, Others, Answered, Failed, Idle
<1>11. ASSUME NEW p \in Tasks, Stop(p) PROVE Served'
  BY <1>11, StopShape DEF Moved, Others, Answered, Failed, Idle
<1>12. ASSUME NEW p \in Tasks, StartWrite(p) PROVE Served'
  BY <1>12, StartWriteShape DEF Moved, Others, Answered, Failed, Idle
<1>13. ASSUME NEW p \in Tasks, Spawn(p) PROVE Served'
  BY <1>13, SpawnShape DEF Moved, Others, Answered, Failed, Idle
<1>14. ASSUME NEW p \in Tasks, Applied(p) PROVE Served'
  BY <1>14, AppliedShape DEF Moved, Others, Answered, Failed, Idle
<1>15. ASSUME NEW p \in Tasks, SwitchCommit(p) PROVE Served'
  BY <1>15, SwitchCommitShape DEF Moved, Others, Answered, Failed, Idle
<1>16. ASSUME NEW p \in Tasks, SwitchRestore(p) PROVE Served'
  BY <1>16, SwitchRestoreShape DEF Moved, Others, Answered, Failed, Idle
<1>17. ASSUME NEW p \in Tasks, Unflag(p) PROVE Served'
  BY <1>17, UnflagShape DEF Moved, Others, Answered, Failed, Idle
<1>18. ASSUME NEW p \in Tasks, TimeOut(p) PROVE Served'
  BY <1>18, TimeOutShape DEF Moved, Others, Answered, Failed, Idle
<1>19. CASE DebounceElapses
  BY <1>19 DEF DebounceElapses
<1>20. CASE Exit
  BY <1>20 DEF Exit
<1>21. CASE UNCHANGED vars
  BY <1>21 DEF vars
<1>22. QED
  BY <1>1, <1>2, <1>3, <1>4, <1>5, <1>6, <1>7, <1>8, <1>9, <1>10, <1>11, <1>12, <1>13, <1>14, <1>15, <1>16, <1>17, <1>18, <1>19, <1>20, <1>21 DEF Next, Proceed

LEMMA ValidInit == Init => ValidInv
<1> SUFFICES ASSUME Init PROVE ValidInv
  OBVIOUS
<1>1. CoreRunsValidated
  BY DEF Init, CoreRunsValidated
<1>2. \A p \in Tasks : calls[p].pc = "idle"
  BY DEF Init, Idle
<1>3. QED
  BY <1>1, <1>2 DEF ValidInv

LEMMA ValidNext ==
  ASSUME \A q \in Tasks : Ops[q] \subseteq SafeOps, TypeInv, Served, Alone, Free, ValidInv, [Next]_vars
  PROVE  ValidInv'
<1> USE DEF ValidInv, CoreRunsValidated, LatestRuntime
<1>1. ASSUME NEW p \in Tasks, NEW t \in Profiles, BeginSwitch(p, t) PROVE ValidInv'
  BY <1>1, BeginSwitchShape DEF Moved, Others, Answered, Failed, Idle, Pipeline, ProfilesKept, RuntimeKept, FilesKept
<1>2. ASSUME NEW p \in Tasks, BeginOther(p) \/ BeginPatch(p) PROVE ValidInv'
  BY <1>2, BeginShape DEF Moved, Others, Answered, Failed, Idle, Pipeline, ProfilesKept, RuntimeKept, FilesKept
<1>3. ASSUME NEW p \in Tasks, TurnedAway(p) PROVE ValidInv'
  BY <1>3, TurnedAwayShape DEF Moved, Others, Answered, Failed, Idle, Pipeline, ProfilesKept, RuntimeKept, FilesKept
<1>4. ASSUME NEW p \in Tasks, Enter(p) PROVE ValidInv'
  <2>1. \A q \in Tasks : calls[q].pc \notin Pipeline
    BY <1>4, EnterShape DEF Free
  <2>2. QED
    BY <1>4, <2>1, EnterShape DEF Moved, Others, Answered, Failed, Idle, Pipeline, ProfilesKept, RuntimeKept, FilesKept
<1>5. ASSUME NEW p \in Tasks, GenerateRead(p) PROVE ValidInv'
  <2>1. \A q \in Tasks \ {p} : calls[q].pc \notin Pipeline
    BY <1>5, GenerateReadShape DEF Alone, Pipeline
  <2>2. QED
    BY <1>5, <2>1, GenerateReadShape DEF Moved, Others, Answered, Failed, Idle, Pipeline, ProfilesKept, RuntimeKept, FilesKept
<1>6. ASSUME NEW p \in Tasks, GenerateWrite(p) PROVE ValidInv'
  <2>1. \A q \in Tasks \ {p} : calls[q].pc \notin Pipeline
    BY <1>6, GenerateWriteShape DEF Alone, Pipeline
  <2>2. QED
    BY <1>6, <2>1, GenerateWriteShape, AllGuarded DEF Moved, Others, Answered, Failed, Idle, Pipeline, ProfilesKept, RuntimeKept, FilesKept
<1>7. ASSUME NEW p \in Tasks, WriteCheckFile(p) PROVE ValidInv'
  <2>1. \A q \in Tasks \ {p} : calls[q].pc \notin Pipeline
    BY <1>7, WriteCheckFileShape DEF Alone, Pipeline
  <2>2. QED
    BY <1>7, <2>1, WriteCheckFileShape DEF Moved, Others, Answered, Failed, Idle, Pipeline, ProfilesKept, RuntimeKept, FilesKept
<1>8. ASSUME NEW p \in Tasks, Verdict(p) PROVE ValidInv'
  <2>1. \A q \in Tasks \ {p} : calls[q].pc \notin Pipeline
    BY <1>8, VerdictShape DEF Alone, Pipeline
  <2>2. QED
    BY <1>8, <2>1, VerdictShape DEF Moved, Others, Answered, Failed, Idle, Pipeline, ProfilesKept, RuntimeKept, FilesKept
<1>9. ASSUME NEW p \in Tasks, WriteRunFile(p) PROVE ValidInv'
  <2>1. \A q \in Tasks \ {p} : calls[q].pc \notin Pipeline
    BY <1>9, WriteRunFileShape DEF Alone, Pipeline
  <2>2. QED
    BY <1>9, <2>1, WriteRunFileShape DEF Moved, Others, Answered, Failed, Idle, Pipeline, ProfilesKept, RuntimeKept, FilesKept
<1>10. ASSUME NEW p \in Tasks, Reload(p) PROVE ValidInv'
  <2>1. \A q \in Tasks \ {p} : calls[q].pc \notin Pipeline
    BY <1>10, ReloadShape DEF Alone, Pipeline
  <2>2. QED
    BY <1>10, <2>1, ReloadShape DEF Moved, Others, Answered, Failed, Idle, Pipeline, ProfilesKept, RuntimeKept, FilesKept
<1>11. ASSUME NEW p \in Tasks, Stop(p) PROVE ValidInv'
  <2>1. \A q \in Tasks \ {p} : calls[q].pc \notin Pipeline
    BY <1>11, StopShape DEF Alone, Pipeline
  <2>2. QED
    BY <1>11, <2>1, StopShape DEF Moved, Others, Answered, Failed, Idle, Pipeline, ProfilesKept, RuntimeKept, FilesKept
<1>12. ASSUME NEW p \in Tasks, StartWrite(p) PROVE ValidInv'
  <2>1. \A q \in Tasks \ {p} : calls[q].pc \notin Pipeline
    BY <1>12, StartWriteShape DEF Alone, Pipeline
  <2>2. QED
    BY <1>12, <2>1, StartWriteShape DEF Moved, Others, Answered, Failed, Idle, Pipeline, ProfilesKept, RuntimeKept, FilesKept
<1>13. ASSUME NEW p \in Tasks, Spawn(p) PROVE ValidInv'
  <2>1. \A q \in Tasks \ {p} : calls[q].pc \notin Pipeline
    BY <1>13, SpawnShape DEF Alone, Pipeline
  <2>2. QED
    BY <1>13, <2>1, SpawnShape DEF Moved, Others, Answered, Failed, Idle, Pipeline, ProfilesKept, RuntimeKept, FilesKept
<1>14. ASSUME NEW p \in Tasks, Applied(p) PROVE ValidInv'
  <2>1. \A q \in Tasks \ {p} : calls[q].pc \notin Pipeline
    BY <1>14, AppliedShape DEF Alone, Pipeline
  <2>2. QED
    BY <1>14, <2>1, AppliedShape DEF Moved, Others, Answered, Failed, Idle, Pipeline, ProfilesKept, RuntimeKept, FilesKept
<1>15. ASSUME NEW p \in Tasks, SwitchCommit(p) PROVE ValidInv'
  BY <1>15, SwitchCommitShape DEF Moved, Others, Answered, Failed, Idle, Pipeline, ProfilesKept, RuntimeKept, FilesKept
<1>16. ASSUME NEW p \in Tasks, SwitchRestore(p) PROVE ValidInv'
  BY <1>16, SwitchRestoreShape DEF Moved, Others, Answered, Failed, Idle, Pipeline, ProfilesKept, RuntimeKept, FilesKept
<1>17. ASSUME NEW p \in Tasks, Unflag(p) PROVE ValidInv'
  BY <1>17, UnflagShape DEF Moved, Others, Answered, Failed, Idle, Pipeline, ProfilesKept, RuntimeKept, FilesKept
<1>18. ASSUME NEW p \in Tasks, TimeOut(p) PROVE ValidInv'
  <2>1. \A q \in Tasks \ {p} : calls[q].pc \notin Pipeline
    BY <1>18, TimeOutShape DEF Alone, Pipeline
  <2>2. QED
    BY <1>18, <2>1, TimeOutShape DEF Moved, Others, Answered, Failed, Idle, Pipeline, ProfilesKept, RuntimeKept, FilesKept
<1>19. CASE DebounceElapses
  BY <1>19 DEF DebounceElapses
<1>20. CASE Exit
  BY <1>20 DEF Exit
<1>21. CASE UNCHANGED vars
  BY <1>21 DEF vars
<1>22. QED
  BY <1>1, <1>2, <1>3, <1>4, <1>5, <1>6, <1>7, <1>8, <1>9, <1>10, <1>11, <1>12, <1>13, <1>14, <1>15, <1>16, <1>17, <1>18, <1>19, <1>20, <1>21 DEF Next, Proceed

(* Whatever fails or is cancelled, and with any number of requests, the    *)
(* core only ever runs a configuration its check has accepted, provided    *)
(* that no request bypasses the guard.                                     *)
THEOREM ConfigUpdateValidated ==
  ASSUME \A q \in Tasks : Ops[q] \subseteq SafeOps
  PROVE  Spec => []CoreRunsValidated
<1> DEFINE I == TypeInv /\ OneUpdate /\ Served /\ ValidInv
<1>1. Init => I
  BY TypeInit, GuardInit, ServedInit, ValidInit
<1>2. I /\ [Next]_vars => I'
  BY TypeNext, GuardNext, ServedNext, ServedAlone, ValidNext
<1>3. I => CoreRunsValidated
  BY DEF ValidInv
<1>4. QED
  BY <1>1, <1>2, <1>3, PTL DEF Spec
-----------------------------------------------------------------------------
(* The committed configuration.                                            *)
RunEq == runtime # None /\ core # None => core = runtime

RuntimeInv ==
  /\ \A p \in Tasks :
       /\ calls[p].pc \in {"reload", "spawn"} => runFile = LatestRuntime
       /\ calls[p].pc = "applied" => core = LatestRuntime
  /\ (\A p \in Tasks : calls[p].pc # "applied") => RunEq

LEMMA RuntimeInit == Init => RuntimeInv
<1> SUFFICES ASSUME Init PROVE RuntimeInv
  OBVIOUS
<1>1. RunEq
  BY DEF Init, RunEq
<1>2. \A p \in Tasks : calls[p].pc = "idle"
  BY DEF Init, Idle
<1>3. QED
  BY <1>1, <1>2 DEF RuntimeInv

LEMMA RuntimeNext ==
  ASSUME \A q \in Tasks : Ops[q] \subseteq SafeOps, TimesOut = FALSE, TypeInv, Served, Alone, Free, RuntimeInv, [Next]_vars
  PROVE  RuntimeInv'
<1> USE DEF RuntimeInv, RunEq, LatestRuntime
<1>1. ASSUME NEW p \in Tasks, NEW t \in Profiles, BeginSwitch(p, t) PROVE RuntimeInv'
  BY <1>1, BeginSwitchShape DEF Moved, Others, Answered, Failed, Idle, Pipeline, ProfilesKept, RuntimeKept, FilesKept
<1>2. ASSUME NEW p \in Tasks, BeginOther(p) \/ BeginPatch(p) PROVE RuntimeInv'
  BY <1>2, BeginShape DEF Moved, Others, Answered, Failed, Idle, Pipeline, ProfilesKept, RuntimeKept, FilesKept
<1>3. ASSUME NEW p \in Tasks, TurnedAway(p) PROVE RuntimeInv'
  BY <1>3, TurnedAwayShape DEF Moved, Others, Answered, Failed, Idle, Pipeline, ProfilesKept, RuntimeKept, FilesKept
<1>4. ASSUME NEW p \in Tasks, Enter(p) PROVE RuntimeInv'
  <2>1. \A q \in Tasks : calls[q].pc \notin Pipeline
    BY <1>4, EnterShape DEF Free
  <2>2. QED
    BY <1>4, <2>1, EnterShape DEF Moved, Others, Answered, Failed, Idle, Pipeline, ProfilesKept, RuntimeKept, FilesKept
<1>5. ASSUME NEW p \in Tasks, GenerateRead(p) PROVE RuntimeInv'
  <2>1. \A q \in Tasks \ {p} : calls[q].pc \notin Pipeline
    BY <1>5, GenerateReadShape DEF Alone, Pipeline
  <2>2. QED
    BY <1>5, <2>1, GenerateReadShape DEF Moved, Others, Answered, Failed, Idle, Pipeline, ProfilesKept, RuntimeKept, FilesKept
<1>6. ASSUME NEW p \in Tasks, GenerateWrite(p) PROVE RuntimeInv'
  <2>1. \A q \in Tasks \ {p} : calls[q].pc \notin Pipeline
    BY <1>6, GenerateWriteShape DEF Alone, Pipeline
  <2>2. QED
    BY <1>6, <2>1, GenerateWriteShape, AllGuarded DEF Moved, Others, Answered, Failed, Idle, Pipeline, ProfilesKept, RuntimeKept, FilesKept
<1>7. ASSUME NEW p \in Tasks, WriteCheckFile(p) PROVE RuntimeInv'
  <2>1. \A q \in Tasks \ {p} : calls[q].pc \notin Pipeline
    BY <1>7, WriteCheckFileShape DEF Alone, Pipeline
  <2>2. QED
    BY <1>7, <2>1, WriteCheckFileShape DEF Moved, Others, Answered, Failed, Idle, Pipeline, ProfilesKept, RuntimeKept, FilesKept
<1>8. ASSUME NEW p \in Tasks, Verdict(p) PROVE RuntimeInv'
  <2>1. \A q \in Tasks \ {p} : calls[q].pc \notin Pipeline
    BY <1>8, VerdictShape DEF Alone, Pipeline
  <2>2. QED
    BY <1>8, <2>1, VerdictShape DEF Moved, Others, Answered, Failed, Idle, Pipeline, ProfilesKept, RuntimeKept, FilesKept
<1>9. ASSUME NEW p \in Tasks, WriteRunFile(p) PROVE RuntimeInv'
  <2>1. \A q \in Tasks \ {p} : calls[q].pc \notin Pipeline
    BY <1>9, WriteRunFileShape DEF Alone, Pipeline
  <2>2. QED
    BY <1>9, <2>1, WriteRunFileShape DEF Moved, Others, Answered, Failed, Idle, Pipeline, ProfilesKept, RuntimeKept, FilesKept
<1>10. ASSUME NEW p \in Tasks, Reload(p) PROVE RuntimeInv'
  <2>1. \A q \in Tasks \ {p} : calls[q].pc \notin Pipeline
    BY <1>10, ReloadShape DEF Alone, Pipeline
  <2>2. QED
    BY <1>10, <2>1, ReloadShape DEF Moved, Others, Answered, Failed, Idle, Pipeline, ProfilesKept, RuntimeKept, FilesKept
<1>11. ASSUME NEW p \in Tasks, Stop(p) PROVE RuntimeInv'
  <2>1. \A q \in Tasks \ {p} : calls[q].pc \notin Pipeline
    BY <1>11, StopShape DEF Alone, Pipeline
  <2>2. QED
    BY <1>11, <2>1, StopShape, AllGuarded DEF Moved, Others, Answered, Failed, Idle, Pipeline, ProfilesKept, RuntimeKept, FilesKept
<1>12. ASSUME NEW p \in Tasks, StartWrite(p) PROVE RuntimeInv'
  <2>1. \A q \in Tasks \ {p} : calls[q].pc \notin Pipeline
    BY <1>12, StartWriteShape DEF Alone, Pipeline
  <2>2. QED
    BY <1>12, <2>1, StartWriteShape DEF Moved, Others, Answered, Failed, Idle, Pipeline, ProfilesKept, RuntimeKept, FilesKept
<1>13. ASSUME NEW p \in Tasks, Spawn(p) PROVE RuntimeInv'
  <2>1. \A q \in Tasks \ {p} : calls[q].pc \notin Pipeline
    BY <1>13, SpawnShape DEF Alone, Pipeline
  <2>2. QED
    BY <1>13, <2>1, SpawnShape, AllGuarded DEF Moved, Others, Answered, Failed, Idle, Pipeline, ProfilesKept, RuntimeKept, FilesKept
<1>14. ASSUME NEW p \in Tasks, Applied(p) PROVE RuntimeInv'
  <2>1. \A q \in Tasks \ {p} : calls[q].pc \notin Pipeline
    BY <1>14, AppliedShape DEF Alone, Pipeline
  <2>2. QED
    BY <1>14, <2>1, AppliedShape DEF Moved, Others, Answered, Failed, Idle, Pipeline, ProfilesKept, RuntimeKept, FilesKept, Latest
<1>15. ASSUME NEW p \in Tasks, SwitchCommit(p) PROVE RuntimeInv'
  BY <1>15, SwitchCommitShape DEF Moved, Others, Answered, Failed, Idle, Pipeline, ProfilesKept, RuntimeKept, FilesKept
<1>16. ASSUME NEW p \in Tasks, SwitchRestore(p) PROVE RuntimeInv'
  BY <1>16, SwitchRestoreShape DEF Moved, Others, Answered, Failed, Idle, Pipeline, ProfilesKept, RuntimeKept, FilesKept
<1>17. ASSUME NEW p \in Tasks, Unflag(p) PROVE RuntimeInv'
  BY <1>17, UnflagShape DEF Moved, Others, Answered, Failed, Idle, Pipeline, ProfilesKept, RuntimeKept, FilesKept
<1>18. ASSUME NEW p \in Tasks, TimeOut(p) PROVE RuntimeInv'
  <2>1. \A q \in Tasks \ {p} : calls[q].pc \notin Pipeline
    BY <1>18, TimeOutShape DEF Alone, Pipeline
  <2>2. QED
    BY <1>18, <2>1, TimeOutShape DEF Moved, Others, Answered, Failed, Idle, Pipeline, ProfilesKept, RuntimeKept, FilesKept
<1>19. CASE DebounceElapses
  BY <1>19 DEF DebounceElapses
<1>20. CASE Exit
  BY <1>20 DEF Exit
<1>21. CASE UNCHANGED vars
  BY <1>21 DEF vars
<1>22. QED
  BY <1>1, <1>2, <1>3, <1>4, <1>5, <1>6, <1>7, <1>8, <1>9, <1>10, <1>11, <1>12, <1>13, <1>14, <1>15, <1>16, <1>17, <1>18, <1>19, <1>20, <1>21 DEF Next, Proceed

(* Outside the guard the committed runtime configuration is the one the    *)
(* core runs, for any number of requests that all go through the guard,    *)
(* none of which is cancelled.                                             *)
THEOREM ConfigUpdateRuntime ==
  ASSUME \A q \in Tasks : Ops[q] \subseteq SafeOps, TimesOut = FALSE
  PROVE  Spec => []RuntimeIsWhatRuns
<1> DEFINE I == TypeInv /\ OneUpdate /\ Served /\ RuntimeInv
<1>1. Init => I
  BY TypeInit, GuardInit, ServedInit, RuntimeInit
<1>2. I /\ [Next]_vars => I'
  BY TypeNext, GuardNext, ServedNext, ServedAlone, RuntimeNext
<1>3. I => RuntimeIsWhatRuns
  <2> SUFFICES ASSUME I, ~inProgress PROVE RunEq
    BY DEF RuntimeIsWhatRuns, RunEq
  <2>1. \A p \in Tasks : calls[p].pc # "applied"
    BY ServedAlone DEF Free, Pipeline
  <2>2. QED
    BY <2>1 DEF RuntimeInv
<1>4. QED
  BY <1>1, <1>2, <1>3, PTL DEF Spec

-----------------------------------------------------------------------------
(* The switch.  Only one is in flight; until it has handled its answer the *)
(* draft names its target, and whoever is in the guard works for it.       *)
Of(c, t) == c # None => c.from = t

OneSwitch ==
  /\ \A p \in Tasks : calls[p].op = "switch" => switching
  /\ \A p, q \in Tasks : calls[p].op = "switch" /\ calls[q].op = "switch" => p = q

Targeted ==
  \A p \in Tasks :
    calls[p].op = "switch" /\ calls[p].pc \in Pipeline \cup {"enter", "commit"} =>
      profileDraft = calls[p].target /\ calls[p].target \in Profiles

WorksFor(q, t) ==
  /\ calls[q].pc = "write" => calls[q].seen = t
  /\ calls[q].pc \in {"reload", "spawn"} => Of(runFile, t)
  /\ calls[q].pc = "applied" => Of(core, t)

SwitchOK(p, t) ==
  /\ WorksFor(p, t)
  /\ calls[p].pc \in {"check", "verdict", "run", "reload", "stop", "start", "spawn", "applied"} =>
       Of(LatestRuntime, t)
  /\ calls[p].pc = "commit" => /\ Of(runtime, t) /\ Of(runtimeDraft, t) /\ Of(core, t)
                              /\ \A q \in Tasks : WorksFor(q, t)

SwitchInv ==
  \A p \in Tasks : calls[p].op = "switch" => SwitchOK(p, calls[p].target)

LEMMA SwitchInit == Init => OneSwitch /\ Targeted /\ SwitchInv
<1> SUFFICES ASSUME Init PROVE OneSwitch /\ Targeted /\ SwitchInv
  OBVIOUS
<1>1. Idle.op = "none"
  BY DEF Idle
<1>2. \A p \in Tasks : calls[p].op # "switch"
  BY <1>1 DEF Init
<1>3. QED
  BY <1>2 DEF OneSwitch, Targeted, SwitchInv

(* The flag is only moved by the switch itself.                            *)
FlagKept == switching' <=> switching

LEMMA FlagStep ==
  ASSUME [Next]_vars, \A p \in Tasks, t \in Profiles : ~BeginSwitch(p, t),
         \A p \in Tasks : ~Unflag(p)
  PROVE  FlagKept
<1>1. ASSUME NEW p \in Tasks, BeginOther(p) PROVE FlagKept
  BY <1>1, Zenon DEF BeginOther, FlagKept
<1>2. ASSUME NEW p \in Tasks, BeginPatch(p) PROVE FlagKept
  BY <1>2, Zenon DEF BeginPatch, FlagKept
<1>3. ASSUME NEW p \in Tasks, TurnedAway(p) PROVE FlagKept
  BY <1>3, Zenon DEF TurnedAway, FlagKept
<1>4. ASSUME NEW p \in Tasks, Enter(p) PROVE FlagKept
  BY <1>4, Zenon DEF Enter, FlagKept
<1>5. ASSUME NEW p \in Tasks, GenerateRead(p) PROVE FlagKept
  BY <1>5, Zenon DEF GenerateRead, FlagKept
<1>6. ASSUME NEW p \in Tasks, GenerateWrite(p) PROVE FlagKept
  BY <1>6, Zenon DEF GenerateWrite, FlagKept
<1>7. ASSUME NEW p \in Tasks, WriteCheckFile(p) PROVE FlagKept
  BY <1>7, Zenon DEF WriteCheckFile, FlagKept
<1>8. ASSUME NEW p \in Tasks, Verdict(p) PROVE FlagKept
  BY <1>8, Zenon DEF Verdict, FlagKept
<1>9. ASSUME NEW p \in Tasks, WriteRunFile(p) PROVE FlagKept
  BY <1>9, Zenon DEF WriteRunFile, FlagKept
<1>10. ASSUME NEW p \in Tasks, Reload(p) PROVE FlagKept
  BY <1>10, Zenon DEF Reload, FlagKept
<1>11. ASSUME NEW p \in Tasks, Stop(p) PROVE FlagKept
  BY <1>11, Zenon DEF Stop, FlagKept
<1>12. ASSUME NEW p \in Tasks, StartWrite(p) PROVE FlagKept
  BY <1>12, Zenon DEF StartWrite, FlagKept
<1>13. ASSUME NEW p \in Tasks, Spawn(p) PROVE FlagKept
  BY <1>13, Zenon DEF Spawn, FlagKept
<1>14. ASSUME NEW p \in Tasks, Applied(p) PROVE FlagKept
  BY <1>14, Zenon DEF Applied, FlagKept
<1>15. ASSUME NEW p \in Tasks, SwitchCommit(p) PROVE FlagKept
  BY <1>15, Zenon DEF SwitchCommit, FlagKept
<1>16. ASSUME NEW p \in Tasks, SwitchRestore(p) PROVE FlagKept
  BY <1>16, Zenon DEF SwitchRestore, FlagKept
<1>17. ASSUME NEW p \in Tasks, TimeOut(p) PROVE FlagKept
  BY <1>17, Zenon DEF TimeOut, FlagKept
<1>18. CASE DebounceElapses
  BY <1>18, Zenon DEF DebounceElapses, FlagKept
<1>19. CASE Exit
  BY <1>19, Zenon DEF Exit, FlagKept
<1>20. CASE UNCHANGED vars
  BY <1>20, Zenon DEF vars, FlagKept
<1>21. QED
  BY <1>1, <1>2, <1>3, <1>4, <1>5, <1>6, <1>7, <1>8, <1>9, <1>10, <1>11, <1>12, <1>13, <1>14, <1>15, <1>16, <1>17, <1>18, <1>19, <1>20 DEF Next, Proceed

LEMMA UnflagSwitch ==
  ASSUME TypeInv, NEW p \in Tasks, Unflag(p)
  PROVE  calls[p].op = "switch"
  BY DEF Unflag, At, TypeInv, CallsTyped, CallsOK

LEMMA OneSwitchNext ==
  ASSUME \A q \in Tasks : Ops[q] \subseteq SafeOps, TypeInv, OneSwitch, [Next]_vars
  PROVE  OneSwitch'
<1> USE DEF OneSwitch
<1>1. ASSUME NEW p \in Tasks, NEW t \in Profiles, BeginSwitch(p, t) PROVE OneSwitch'
  BY <1>1, BeginSwitchShape DEF Moved, Others, Answered, Failed, Idle
<1>2. ASSUME NEW p \in Tasks, BeginOther(p) \/ BeginPatch(p), FlagKept PROVE OneSwitch'
  BY <1>2, BeginShape DEF Moved, Others, Answered, Failed, Idle, FlagKept
<1>3. ASSUME NEW p \in Tasks, TurnedAway(p), FlagKept PROVE OneSwitch'
  BY <1>3, TurnedAwayShape DEF Moved, Others, Answered, Failed, Idle, FlagKept
<1>4. ASSUME NEW p \in Tasks, Enter(p), FlagKept PROVE OneSwitch'
  BY <1>4, EnterShape DEF Moved, Others, Answered, Failed, Idle, FlagKept
<1>5. ASSUME NEW p \in Tasks, GenerateRead(p), FlagKept PROVE OneSwitch'
  BY <1>5, GenerateReadShape DEF Moved, Others, Answered, Failed, Idle, FlagKept
<1>6. ASSUME NEW p \in Tasks, GenerateWrite(p), FlagKept PROVE OneSwitch'
  BY <1>6, GenerateWriteShape DEF Moved, Others, Answered, Failed, Idle, FlagKept
<1>7. ASSUME NEW p \in Tasks, WriteCheckFile(p), FlagKept PROVE OneSwitch'
  BY <1>7, WriteCheckFileShape DEF Moved, Others, Answered, Failed, Idle, FlagKept
<1>8. ASSUME NEW p \in Tasks, Verdict(p), FlagKept PROVE OneSwitch'
  BY <1>8, VerdictShape DEF Moved, Others, Answered, Failed, Idle, FlagKept
<1>9. ASSUME NEW p \in Tasks, WriteRunFile(p), FlagKept PROVE OneSwitch'
  BY <1>9, WriteRunFileShape DEF Moved, Others, Answered, Failed, Idle, FlagKept
<1>10. ASSUME NEW p \in Tasks, Reload(p), FlagKept PROVE OneSwitch'
  BY <1>10, ReloadShape DEF Moved, Others, Answered, Failed, Idle, FlagKept
<1>11. ASSUME NEW p \in Tasks, Stop(p), FlagKept PROVE OneSwitch'
  BY <1>11, StopShape DEF Moved, Others, Answered, Failed, Idle, FlagKept
<1>12. ASSUME NEW p \in Tasks, StartWrite(p), FlagKept PROVE OneSwitch'
  BY <1>12, StartWriteShape DEF Moved, Others, Answered, Failed, Idle, FlagKept
<1>13. ASSUME NEW p \in Tasks, Spawn(p), FlagKept PROVE OneSwitch'
  BY <1>13, SpawnShape DEF Moved, Others, Answered, Failed, Idle, FlagKept
<1>14. ASSUME NEW p \in Tasks, Applied(p), FlagKept PROVE OneSwitch'
  BY <1>14, AppliedShape DEF Moved, Others, Answered, Failed, Idle, FlagKept
<1>15. ASSUME NEW p \in Tasks, SwitchCommit(p), FlagKept PROVE OneSwitch'
  BY <1>15, SwitchCommitShape DEF Moved, Others, Answered, Failed, Idle, FlagKept
<1>16. ASSUME NEW p \in Tasks, SwitchRestore(p), FlagKept PROVE OneSwitch'
  BY <1>16, SwitchRestoreShape DEF Moved, Others, Answered, Failed, Idle, FlagKept
<1>17. ASSUME NEW p \in Tasks, Unflag(p) PROVE OneSwitch'
  BY <1>17, UnflagShape, UnflagSwitch DEF Others, Idle
<1>18. ASSUME NEW p \in Tasks, TimeOut(p), FlagKept PROVE OneSwitch'
  BY <1>18, TimeOutShape DEF Moved, Others, Answered, Failed, Idle, FlagKept
<1>19. ASSUME DebounceElapses, FlagKept PROVE OneSwitch'
  BY <1>19 DEF DebounceElapses, FlagKept
<1>20. ASSUME Exit, FlagKept PROVE OneSwitch'
  BY <1>20 DEF Exit, FlagKept
<1>21. ASSUME UNCHANGED vars, FlagKept PROVE OneSwitch'
  BY <1>21 DEF vars, FlagKept
<1>22. QED
  BY <1>1, <1>2, <1>3, <1>4, <1>5, <1>6, <1>7, <1>8, <1>9, <1>10, <1>11, <1>12, <1>13, <1>14, <1>15, <1>16, <1>17, <1>18, <1>19, <1>20, <1>21, FlagStep DEF Next, Proceed

LEMMA TargetedNext ==
  ASSUME \A q \in Tasks : Ops[q] \subseteq SafeOps, TypeInv, OneSwitch, Targeted, [Next]_vars
  PROVE  Targeted'
<1> USE DEF Targeted, OneSwitch
<1>1. ASSUME NEW p \in Tasks, NEW t \in Profiles, BeginSwitch(p, t) PROVE Targeted'
  BY <1>1, BeginSwitchShape DEF Moved, Others, Answered, Failed, Idle, Pipeline, ProfilesKept
<1>2. ASSUME NEW p \in Tasks, BeginOther(p) \/ BeginPatch(p) PROVE Targeted'
  BY <1>2, BeginShape DEF Moved, Others, Answered, Failed, Idle, Pipeline, ProfilesKept
<1>3. ASSUME NEW p \in Tasks, TurnedAway(p) PROVE Targeted'
  BY <1>3, TurnedAwayShape DEF Moved, Others, Answered, Failed, Idle, Pipeline, ProfilesKept
<1>4. ASSUME NEW p \in Tasks, Enter(p) PROVE Targeted'
  BY <1>4, EnterShape DEF Moved, Others, Answered, Failed, Idle, Pipeline, ProfilesKept
<1>5. ASSUME NEW p \in Tasks, GenerateRead(p) PROVE Targeted'
  BY <1>5, GenerateReadShape DEF Moved, Others, Answered, Failed, Idle, Pipeline, ProfilesKept
<1>6. ASSUME NEW p \in Tasks, GenerateWrite(p) PROVE Targeted'
  BY <1>6, GenerateWriteShape DEF Moved, Others, Answered, Failed, Idle, Pipeline, ProfilesKept
<1>7. ASSUME NEW p \in Tasks, WriteCheckFile(p) PROVE Targeted'
  BY <1>7, WriteCheckFileShape DEF Moved, Others, Answered, Failed, Idle, Pipeline, ProfilesKept
<1>8. ASSUME NEW p \in Tasks, Verdict(p) PROVE Targeted'
  BY <1>8, VerdictShape DEF Moved, Others, Answered, Failed, Idle, Pipeline, ProfilesKept
<1>9. ASSUME NEW p \in Tasks, WriteRunFile(p) PROVE Targeted'
  BY <1>9, WriteRunFileShape DEF Moved, Others, Answered, Failed, Idle, Pipeline, ProfilesKept
<1>10. ASSUME NEW p \in Tasks, Reload(p) PROVE Targeted'
  BY <1>10, ReloadShape DEF Moved, Others, Answered, Failed, Idle, Pipeline, ProfilesKept
<1>11. ASSUME NEW p \in Tasks, Stop(p) PROVE Targeted'
  BY <1>11, StopShape DEF Moved, Others, Answered, Failed, Idle, Pipeline, ProfilesKept
<1>12. ASSUME NEW p \in Tasks, StartWrite(p) PROVE Targeted'
  BY <1>12, StartWriteShape DEF Moved, Others, Answered, Failed, Idle, Pipeline, ProfilesKept
<1>13. ASSUME NEW p \in Tasks, Spawn(p) PROVE Targeted'
  BY <1>13, SpawnShape DEF Moved, Others, Answered, Failed, Idle, Pipeline, ProfilesKept
<1>14. ASSUME NEW p \in Tasks, Applied(p) PROVE Targeted'
  BY <1>14, AppliedShape DEF Moved, Others, Answered, Failed, Idle, Pipeline, ProfilesKept
<1>15. ASSUME NEW p \in Tasks, SwitchCommit(p) PROVE Targeted'
  BY <1>15, SwitchCommitShape DEF Moved, Others, Answered, Failed, Idle, Pipeline, ProfilesKept
<1>16. ASSUME NEW p \in Tasks, SwitchRestore(p) PROVE Targeted'
  BY <1>16, SwitchRestoreShape DEF Moved, Others, Answered, Failed, Idle, Pipeline, ProfilesKept
<1>17. ASSUME NEW p \in Tasks, Unflag(p) PROVE Targeted'
  BY <1>17, UnflagShape DEF Moved, Others, Answered, Failed, Idle, Pipeline, ProfilesKept
<1>18. ASSUME NEW p \in Tasks, TimeOut(p) PROVE Targeted'
  BY <1>18, TimeOutShape DEF Moved, Others, Answered, Failed, Idle, Pipeline, ProfilesKept
<1>19. CASE DebounceElapses
  BY <1>19 DEF DebounceElapses
<1>20. CASE Exit
  BY <1>20 DEF Exit
<1>21. CASE UNCHANGED vars
  BY <1>21 DEF vars
<1>22. QED
  BY <1>1, <1>2, <1>3, <1>4, <1>5, <1>6, <1>7, <1>8, <1>9, <1>10, <1>11, <1>12, <1>13, <1>14, <1>15, <1>16, <1>17, <1>18, <1>19, <1>20, <1>21 DEF Next, Proceed

LEMMA OfFacts ==
  /\ \A q \in Profiles : Of(BootConfig(q), q)
  /\ \A c \in Config \cup {None}, t \in Profiles : Of(c, t) => Of(Edited(c), t)
  /\ \A c, d, t : Of(c, t) /\ Of(d, t) => Of(Latest(c, d), t)
  BY DEF Of, BootConfig, Edited, Config, Latest

LEMMA SwitchNext ==
  ASSUME \A q \in Tasks : Ops[q] \subseteq SafeOps, TypeInv, Served, Alone, Free, OneSwitch, Targeted, SwitchInv, [Next]_vars
  PROVE  SwitchInv'
<1> USE DEF SwitchInv, SwitchOK, OneSwitch, WorksFor, Of, LatestRuntime
<1>1. ASSUME NEW p \in Tasks, NEW t \in Profiles, BeginSwitch(p, t) PROVE SwitchInv'
  BY <1>1, BeginSwitchShape DEF Moved, Others, Answered, Failed, Idle, Pipeline, ProfilesKept, RuntimeKept, FilesKept
<1>2. ASSUME NEW p \in Tasks, BeginOther(p) \/ BeginPatch(p) PROVE SwitchInv'
  BY <1>2, BeginShape DEF Moved, Others, Answered, Failed, Idle, Pipeline, ProfilesKept, RuntimeKept, FilesKept
<1>3. ASSUME NEW p \in Tasks, TurnedAway(p) PROVE SwitchInv'
  BY <1>3, TurnedAwayShape DEF Moved, Others, Answered, Failed, Idle, Pipeline, ProfilesKept, RuntimeKept, FilesKept
<1>4. ASSUME NEW p \in Tasks, Enter(p) PROVE SwitchInv'
  <2>1. \A q \in Tasks : calls[q].pc \notin Pipeline
    BY <1>4, EnterShape DEF Free
  <2> SUFFICES ASSUME NEW r \in Tasks, calls'[r].op = "switch"
               PROVE  SwitchOK(r, calls[r].target)'
    BY DEF SwitchInv
  <2>2. calls[r].op = "switch" /\ calls'[r].target = calls[r].target
    BY <1>4, EnterShape DEF Moved, Answered, Failed, Others, Idle
  <2>3. SwitchOK(r, calls[r].target)
    BY <2>2
  <2>4. calls[r].pc \in Pipeline \cup {"enter", "commit"} =>
          calls[r].target \in Profiles /\ profileDraft = calls[r].target
    BY <2>2 DEF Targeted
  <2>5. CASE r = p
    BY <1>4, <2>1, <2>2, <2>3, <2>4, <2>5, EnterShape, OfFacts, LatestType DEF Moved, Others, Answered, Failed, Idle, ProfilesKept, RuntimeKept, FilesKept, Pipeline, TypeInv
  <2>6. CASE r # p /\ calls[r].pc # "commit"
    <3>1. calls'[r] = calls[r] /\ calls[r].pc \notin Pipeline
      BY <1>4, <2>1, <2>6, EnterShape DEF Moved, Answered, Failed, Others
    <3>2. QED
      BY <2>6, <3>1 DEF Pipeline
  <2>7. CASE r # p /\ calls[r].pc = "commit"
    <3>1. calls'[r] = calls[r]
      BY <1>4, <2>7, EnterShape DEF Moved, Answered, Failed, Others
    <3>2. calls[r].target \in Profiles /\ profileDraft = calls[r].target
      BY <2>4, <2>7
    <3>3. \A q \in Tasks \ {p} : calls'[q] = calls[q] /\ calls[q].pc \notin Pipeline
      BY <1>4, <2>1, EnterShape DEF Moved, Answered, Failed, Others
    <3>4. Of(LatestRuntime, calls[r].target)
      BY <2>3, <2>7, OfFacts
    <3>5. QED
      BY <1>4, <2>2, <2>3, <2>7, <3>1, <3>2, <3>3, <3>4, EnterShape, OfFacts, LatestType DEF Moved, Others, Answered, Failed, Idle, ProfilesKept, RuntimeKept, FilesKept, Pipeline, TypeInv
  <2>8. QED
    BY <2>5, <2>6, <2>7
<1>5. ASSUME NEW p \in Tasks, GenerateRead(p) PROVE SwitchInv'
  <2>1. \A q \in Tasks \ {p} : calls[q].pc \notin Pipeline
    BY <1>5, GenerateReadShape DEF Alone, Pipeline
  <2> SUFFICES ASSUME NEW r \in Tasks, calls'[r].op = "switch"
               PROVE  SwitchOK(r, calls[r].target)'
    BY DEF SwitchInv
  <2>2. calls[r].op = "switch" /\ calls'[r].target = calls[r].target
    BY <1>5, GenerateReadShape DEF Moved, Answered, Failed, Others, Idle
  <2>3. SwitchOK(r, calls[r].target)
    BY <2>2
  <2>4. calls[r].pc \in Pipeline \cup {"enter", "commit"} =>
          calls[r].target \in Profiles /\ profileDraft = calls[r].target
    BY <2>2 DEF Targeted
  <2>5. CASE r = p
    BY <1>5, <2>1, <2>2, <2>3, <2>4, <2>5, GenerateReadShape, ConfigUpdateAssumption DEF Moved, Others, Answered, Failed, Idle, ProfilesKept, RuntimeKept, FilesKept, Pipeline, LatestProfile, Latest
  <2>6. CASE r # p /\ calls[r].pc # "commit"
    <3>1. calls'[r] = calls[r] /\ calls[r].pc \notin Pipeline
      BY <1>5, <2>1, <2>6, GenerateReadShape DEF Moved, Answered, Failed, Others
    <3>2. QED
      BY <2>6, <3>1 DEF Pipeline
  <2>7. CASE r # p /\ calls[r].pc = "commit"
    <3>1. calls'[r] = calls[r]
      BY <1>5, <2>7, GenerateReadShape DEF Moved, Answered, Failed, Others
    <3>2. calls[r].target \in Profiles /\ profileDraft = calls[r].target
      BY <2>4, <2>7
    <3>3. \A q \in Tasks \ {p} : calls'[q] = calls[q] /\ calls[q].pc \notin Pipeline
      BY <1>5, <2>1, GenerateReadShape DEF Moved, Answered, Failed, Others
    <3>4. Of(LatestRuntime, calls[r].target)
      BY <2>3, <2>7, OfFacts
    <3>5. QED
      BY <1>5, <2>2, <2>3, <2>7, <3>1, <3>2, <3>3, <3>4, GenerateReadShape, ConfigUpdateAssumption DEF Moved, Others, Answered, Failed, Idle, ProfilesKept, RuntimeKept, FilesKept, Pipeline, LatestProfile, Latest
  <2>8. QED
    BY <2>5, <2>6, <2>7
<1>6. ASSUME NEW p \in Tasks, GenerateWrite(p) PROVE SwitchInv'
  <2>1. \A q \in Tasks \ {p} : calls[q].pc \notin Pipeline
    BY <1>6, GenerateWriteShape DEF Alone, Pipeline
  <2> SUFFICES ASSUME NEW r \in Tasks, calls'[r].op = "switch"
               PROVE  SwitchOK(r, calls[r].target)'
    BY DEF SwitchInv
  <2>2. calls[r].op = "switch" /\ calls'[r].target = calls[r].target
    BY <1>6, GenerateWriteShape DEF Moved, Answered, Failed, Others, Idle
  <2>3. SwitchOK(r, calls[r].target)
    BY <2>2
  <2>4. calls[r].pc \in Pipeline \cup {"enter", "commit"} =>
          calls[r].target \in Profiles /\ profileDraft = calls[r].target
    BY <2>2 DEF Targeted
  <2>5. CASE r = p
    BY <1>6, <2>1, <2>2, <2>3, <2>4, <2>5, GenerateWriteShape, BootType, AllGuarded, ConfigUpdateAssumption DEF Moved, Others, Answered, Failed, Idle, ProfilesKept, RuntimeKept, FilesKept, Pipeline, BootConfig, Latest
  <2>6. CASE r # p /\ calls[r].pc # "commit"
    <3>1. calls'[r] = calls[r] /\ calls[r].pc \notin Pipeline
      BY <1>6, <2>1, <2>6, GenerateWriteShape DEF Moved, Answered, Failed, Others
    <3>2. QED
      BY <2>6, <3>1 DEF Pipeline
  <2>7. CASE r # p /\ calls[r].pc = "commit"
    <3>1. calls'[r] = calls[r]
      BY <1>6, <2>7, GenerateWriteShape DEF Moved, Answered, Failed, Others
    <3>2. calls[r].target \in Profiles /\ profileDraft = calls[r].target
      BY <2>4, <2>7
    <3>3. \A q \in Tasks \ {p} : calls'[q] = calls[q] /\ calls[q].pc \notin Pipeline
      BY <1>6, <2>1, GenerateWriteShape DEF Moved, Answered, Failed, Others
    <3>4. Of(LatestRuntime, calls[r].target)
      BY <2>3, <2>7, OfFacts
    <3>5. QED
      BY <1>6, <2>2, <2>3, <2>7, <3>1, <3>2, <3>3, <3>4, GenerateWriteShape, BootType, AllGuarded, ConfigUpdateAssumption DEF Moved, Others, Answered, Failed, Idle, ProfilesKept, RuntimeKept, FilesKept, Pipeline, BootConfig, Latest
  <2>8. QED
    BY <2>5, <2>6, <2>7
<1>7. ASSUME NEW p \in Tasks, WriteCheckFile(p) PROVE SwitchInv'
  <2>1. \A q \in Tasks \ {p} : calls[q].pc \notin Pipeline
    BY <1>7, WriteCheckFileShape DEF Alone, Pipeline
  <2>2. QED
    BY <1>7, <2>1, WriteCheckFileShape DEF Moved, Others, Answered, Failed, Idle, Pipeline, ProfilesKept, RuntimeKept, FilesKept
<1>8. ASSUME NEW p \in Tasks, Verdict(p) PROVE SwitchInv'
  <2>1. \A q \in Tasks \ {p} : calls[q].pc \notin Pipeline
    BY <1>8, VerdictShape DEF Alone, Pipeline
  <2>2. QED
    BY <1>8, <2>1, VerdictShape DEF Moved, Others, Answered, Failed, Idle, Pipeline, ProfilesKept, RuntimeKept, FilesKept
<1>9. ASSUME NEW p \in Tasks, WriteRunFile(p) PROVE SwitchInv'
  <2>1. \A q \in Tasks \ {p} : calls[q].pc \notin Pipeline
    BY <1>9, WriteRunFileShape DEF Alone, Pipeline
  <2> SUFFICES ASSUME NEW r \in Tasks, calls'[r].op = "switch"
               PROVE  SwitchOK(r, calls[r].target)'
    BY DEF SwitchInv
  <2>2. calls[r].op = "switch" /\ calls'[r].target = calls[r].target
    BY <1>9, WriteRunFileShape DEF Moved, Answered, Failed, Others, Idle
  <2>3. SwitchOK(r, calls[r].target)
    BY <2>2
  <2>4. calls[r].pc \in Pipeline \cup {"enter", "commit"} =>
          calls[r].target \in Profiles /\ profileDraft = calls[r].target
    BY <2>2 DEF Targeted
  <2>5. CASE r = p
    BY <1>9, <2>1, <2>2, <2>3, <2>4, <2>5, WriteRunFileShape, LatestType DEF Moved, Others, Answered, Failed, Idle, ProfilesKept, RuntimeKept, FilesKept, Pipeline
  <2>6. CASE r # p /\ calls[r].pc # "commit"
    <3>1. calls'[r] = calls[r] /\ calls[r].pc \notin Pipeline
      BY <1>9, <2>1, <2>6, WriteRunFileShape DEF Moved, Answered, Failed, Others
    <3>2. QED
      BY <2>6, <3>1 DEF Pipeline
  <2>7. CASE r # p /\ calls[r].pc = "commit"
    <3>1. calls'[r] = calls[r]
      BY <1>9, <2>7, WriteRunFileShape DEF Moved, Answered, Failed, Others
    <3>2. calls[r].target \in Profiles /\ profileDraft = calls[r].target
      BY <2>4, <2>7
    <3>3. \A q \in Tasks \ {p} : calls'[q] = calls[q] /\ calls[q].pc \notin Pipeline
      BY <1>9, <2>1, WriteRunFileShape DEF Moved, Answered, Failed, Others
    <3>4. Of(LatestRuntime, calls[r].target)
      BY <2>3, <2>7, OfFacts
    <3>5. QED
      BY <1>9, <2>2, <2>3, <2>7, <3>1, <3>2, <3>3, <3>4, WriteRunFileShape, LatestType DEF Moved, Others, Answered, Failed, Idle, ProfilesKept, RuntimeKept, FilesKept, Pipeline
  <2>8. QED
    BY <2>5, <2>6, <2>7
<1>10. ASSUME NEW p \in Tasks, Reload(p) PROVE SwitchInv'
  <2>1. \A q \in Tasks \ {p} : calls[q].pc \notin Pipeline
    BY <1>10, ReloadShape DEF Alone, Pipeline
  <2>2. QED
    BY <1>10, <2>1, ReloadShape DEF Moved, Others, Answered, Failed, Idle, Pipeline, ProfilesKept, RuntimeKept, FilesKept
<1>11. ASSUME NEW p \in Tasks, Stop(p) PROVE SwitchInv'
  <2>1. \A q \in Tasks \ {p} : calls[q].pc \notin Pipeline
    BY <1>11, StopShape DEF Alone, Pipeline
  <2>2. QED
    BY <1>11, <2>1, StopShape DEF Moved, Others, Answered, Failed, Idle, Pipeline, ProfilesKept, RuntimeKept, FilesKept
<1>12. ASSUME NEW p \in Tasks, StartWrite(p) PROVE SwitchInv'
  <2>1. \A q \in Tasks \ {p} : calls[q].pc \notin Pipeline
    BY <1>12, StartWriteShape DEF Alone, Pipeline
  <2> SUFFICES ASSUME NEW r \in Tasks, calls'[r].op = "switch"
               PROVE  SwitchOK(r, calls[r].target)'
    BY DEF SwitchInv
  <2>2. calls[r].op = "switch" /\ calls'[r].target = calls[r].target
    BY <1>12, StartWriteShape DEF Moved, Answered, Failed, Others, Idle
  <2>3. SwitchOK(r, calls[r].target)
    BY <2>2
  <2>4. calls[r].pc \in Pipeline \cup {"enter", "commit"} =>
          calls[r].target \in Profiles /\ profileDraft = calls[r].target
    BY <2>2 DEF Targeted
  <2>5. CASE r = p
    BY <1>12, <2>1, <2>2, <2>3, <2>4, <2>5, StartWriteShape, LatestType DEF Moved, Others, Answered, Failed, Idle, ProfilesKept, RuntimeKept, FilesKept, Pipeline
  <2>6. CASE r # p /\ calls[r].pc # "commit"
    <3>1. calls'[r] = calls[r] /\ calls[r].pc \notin Pipeline
      BY <1>12, <2>1, <2>6, StartWriteShape DEF Moved, Answered, Failed, Others
    <3>2. QED
      BY <2>6, <3>1 DEF Pipeline
  <2>7. CASE r # p /\ calls[r].pc = "commit"
    <3>1. calls'[r] = calls[r]
      BY <1>12, <2>7, StartWriteShape DEF Moved, Answered, Failed, Others
    <3>2. calls[r].target \in Profiles /\ profileDraft = calls[r].target
      BY <2>4, <2>7
    <3>3. \A q \in Tasks \ {p} : calls'[q] = calls[q] /\ calls[q].pc \notin Pipeline
      BY <1>12, <2>1, StartWriteShape DEF Moved, Answered, Failed, Others
    <3>4. Of(LatestRuntime, calls[r].target)
      BY <2>3, <2>7, OfFacts
    <3>5. QED
      BY <1>12, <2>2, <2>3, <2>7, <3>1, <3>2, <3>3, <3>4, StartWriteShape, LatestType DEF Moved, Others, Answered, Failed, Idle, ProfilesKept, RuntimeKept, FilesKept, Pipeline
  <2>8. QED
    BY <2>5, <2>6, <2>7
<1>13. ASSUME NEW p \in Tasks, Spawn(p) PROVE SwitchInv'
  <2>1. \A q \in Tasks \ {p} : calls[q].pc \notin Pipeline
    BY <1>13, SpawnShape DEF Alone, Pipeline
  <2> SUFFICES ASSUME NEW r \in Tasks, calls'[r].op = "switch"
               PROVE  SwitchOK(r, calls[r].target)'
    BY DEF SwitchInv
  <2>2. calls[r].op = "switch" /\ calls'[r].target = calls[r].target
    BY <1>13, SpawnShape DEF Moved, Answered, Failed, Others, Idle
  <2>3. SwitchOK(r, calls[r].target)
    BY <2>2
  <2>4. calls[r].pc \in Pipeline \cup {"enter", "commit"} =>
          calls[r].target \in Profiles /\ profileDraft = calls[r].target
    BY <2>2 DEF Targeted
  <2>5. CASE r = p
    BY <1>13, <2>1, <2>2, <2>3, <2>4, <2>5, SpawnShape, AllGuarded DEF Moved, Others, Answered, Failed, Idle, ProfilesKept, RuntimeKept, FilesKept, Pipeline
  <2>6. CASE r # p /\ calls[r].pc # "commit"
    <3>1. calls'[r] = calls[r] /\ calls[r].pc \notin Pipeline
      BY <1>13, <2>1, <2>6, SpawnShape DEF Moved, Answered, Failed, Others
    <3>2. QED
      BY <2>6, <3>1 DEF Pipeline
  <2>7. CASE r # p /\ calls[r].pc = "commit"
    <3>1. calls'[r] = calls[r]
      BY <1>13, <2>7, SpawnShape DEF Moved, Answered, Failed, Others
    <3>2. calls[r].target \in Profiles /\ profileDraft = calls[r].target
      BY <2>4, <2>7
    <3>3. \A q \in Tasks \ {p} : calls'[q] = calls[q] /\ calls[q].pc \notin Pipeline
      BY <1>13, <2>1, SpawnShape DEF Moved, Answered, Failed, Others
    <3>4. Of(LatestRuntime, calls[r].target)
      BY <2>3, <2>7, OfFacts
    <3>5. QED
      BY <1>13, <2>2, <2>3, <2>7, <3>1, <3>2, <3>3, <3>4, SpawnShape, AllGuarded DEF Moved, Others, Answered, Failed, Idle, ProfilesKept, RuntimeKept, FilesKept, Pipeline
  <2>8. QED
    BY <2>5, <2>6, <2>7
<1>14. ASSUME NEW p \in Tasks, Applied(p) PROVE SwitchInv'
  <2>1. \A q \in Tasks \ {p} : calls[q].pc \notin Pipeline
    BY <1>14, AppliedShape DEF Alone, Pipeline
  <2> SUFFICES ASSUME NEW r \in Tasks, calls'[r].op = "switch"
               PROVE  SwitchOK(r, calls[r].target)'
    BY DEF SwitchInv
  <2>2. calls[r].op = "switch" /\ calls'[r].target = calls[r].target
    BY <1>14, AppliedShape DEF Moved, Answered, Failed, Others, Idle
  <2>3. SwitchOK(r, calls[r].target)
    BY <2>2
  <2>4. calls[r].pc \in Pipeline \cup {"enter", "commit"} =>
          calls[r].target \in Profiles /\ profileDraft = calls[r].target
    BY <2>2 DEF Targeted
  <2>5. CASE r = p
    BY <1>14, <2>1, <2>2, <2>3, <2>4, <2>5, AppliedShape DEF Moved, Others, Answered, Failed, Idle, ProfilesKept, RuntimeKept, FilesKept, Pipeline, Latest
  <2>6. CASE r # p /\ calls[r].pc # "commit"
    <3>1. calls'[r] = calls[r] /\ calls[r].pc \notin Pipeline
      BY <1>14, <2>1, <2>6, AppliedShape DEF Moved, Answered, Failed, Others
    <3>2. QED
      BY <2>6, <3>1 DEF Pipeline
  <2>7. CASE r # p /\ calls[r].pc = "commit"
    <3>1. calls'[r] = calls[r]
      BY <1>14, <2>7, AppliedShape DEF Moved, Answered, Failed, Others
    <3>2. calls[r].target \in Profiles /\ profileDraft = calls[r].target
      BY <2>4, <2>7
    <3>3. \A q \in Tasks \ {p} : calls'[q] = calls[q] /\ calls[q].pc \notin Pipeline
      BY <1>14, <2>1, AppliedShape DEF Moved, Answered, Failed, Others
    <3>4. Of(LatestRuntime, calls[r].target)
      BY <2>3, <2>7, OfFacts
    <3>5. QED
      BY <1>14, <2>2, <2>3, <2>7, <3>1, <3>2, <3>3, <3>4, AppliedShape DEF Moved, Others, Answered, Failed, Idle, ProfilesKept, RuntimeKept, FilesKept, Pipeline, Latest
  <2>8. QED
    BY <2>5, <2>6, <2>7
<1>15. ASSUME NEW p \in Tasks, SwitchCommit(p) PROVE SwitchInv'
  BY <1>15, SwitchCommitShape DEF Moved, Others, Answered, Failed, Idle, Pipeline, ProfilesKept, RuntimeKept, FilesKept
<1>16. ASSUME NEW p \in Tasks, SwitchRestore(p) PROVE SwitchInv'
  BY <1>16, SwitchRestoreShape DEF Moved, Others, Answered, Failed, Idle, Pipeline, ProfilesKept, RuntimeKept, FilesKept
<1>17. ASSUME NEW p \in Tasks, Unflag(p) PROVE SwitchInv'
  BY <1>17, UnflagShape DEF Moved, Others, Answered, Failed, Idle, Pipeline, ProfilesKept, RuntimeKept, FilesKept
<1>18. ASSUME NEW p \in Tasks, TimeOut(p) PROVE SwitchInv'
  <2>1. \A q \in Tasks \ {p} : calls[q].pc \notin Pipeline
    BY <1>18, TimeOutShape DEF Alone, Pipeline
  <2>2. QED
    BY <1>18, <2>1, TimeOutShape DEF Moved, Others, Answered, Failed, Idle, Pipeline, ProfilesKept, RuntimeKept, FilesKept
<1>19. CASE DebounceElapses
  BY <1>19 DEF DebounceElapses
<1>20. CASE Exit
  BY <1>20 DEF Exit
<1>21. CASE UNCHANGED vars
  BY <1>21 DEF vars
<1>22. QED
  BY <1>1, <1>2, <1>3, <1>4, <1>5, <1>6, <1>7, <1>8, <1>9, <1>10, <1>11, <1>12, <1>13, <1>14, <1>15, <1>16, <1>17, <1>18, <1>19, <1>20, <1>21 DEF Next, Proceed


(* A switch that is about to report success has its profile in force and   *)
(* running, whatever other guarded requests were refused, turned away,     *)
(* served or cancelled meanwhile.                                          *)
THEOREM ConfigUpdateSwitched ==
  ASSUME \A q \in Tasks : Ops[q] \subseteq SafeOps
  PROVE  Spec => []SwitchedMeansRunning
<1> DEFINE I == TypeInv /\ OneUpdate /\ Served /\ OneSwitch /\ Targeted /\ SwitchInv
<1>1. Init => I
  BY TypeInit, GuardInit, ServedInit, SwitchInit
<1>2. I /\ [Next]_vars => I'
  BY TypeNext, GuardNext, ServedNext, ServedAlone, OneSwitchNext, TargetedNext, SwitchNext
<1>3. I => SwitchedMeansRunning
  <2> SUFFICES ASSUME I, NEW p \in Tasks, calls[p].pc = "commit"
               PROVE  /\ profileDraft = calls[p].target
                      /\ core = None \/ core.from = calls[p].target
    BY DEF SwitchedMeansRunning, At
  <2>1. calls[p].op = "switch"
    BY DEF TypeInv, CallsTyped, CallsOK
  <2>2. QED
    BY <2>1 DEF Targeted, SwitchInv, SwitchOK, Of
<1>4. QED
  BY <1>1, <1>2, <1>3, PTL DEF Spec

-------------------------------------------------------------------------------
modeVars == <<vars, mode>>

(* The mode with the constants of the configuration, when these are        *)
(* without timeouts and all requests go through the guard.                 *)
THEOREM ConfigUpdateUntimedRuntime ==
  ASSUME \A q \in Tasks : Ops[q] \subseteq SafeOps, TimesOut = FALSE
  PROVE  ModeSpec => []UntimedRuntime
<1>1. ModeInit /\ mode = "constants" => Init
  BY DEF ModeInit
<1>2. [ModeNext]_modeVars /\ mode = "constants" => [Next]_vars /\ (mode = "constants")'
  BY DEF ModeNext, modeVars, vars
<1>3. ModeSpec => (mode = "constants" => Spec)
  BY <1>1, <1>2, PTL DEF ModeSpec, Spec, modeVars
<1>4. ModeSpec => (~(mode = "constants") => [](~(mode = "constants")))
  <2>1. [ModeNext]_modeVars /\ ~(mode = "constants") => (~(mode = "constants"))'
    BY DEF ModeNext, modeVars
  <2>. QED BY <2>1, PTL DEF ModeSpec, modeVars
<1>5. Spec => []RuntimeIsWhatRuns
  BY ConfigUpdateRuntime
<1>6. RuntimeIsWhatRuns \/ ~(mode = "constants") => UntimedRuntime
  BY DEF UntimedRuntime
<1>. QED BY <1>3, <1>4, <1>5, <1>6, PTL
===============================================================================
