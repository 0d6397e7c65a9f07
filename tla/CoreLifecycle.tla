------------------------------ MODULE CoreLifecycle ------------------------------
(***************************************************************************)
(* Stopping and starting the core (src/src-tauri/src/core/manager/         *)
(* lifecycle.rs, state.rs), as a sidecar or by the helper service, and the *)
(* operations on that service (src/src-tauri/src/core/service.rs):         *)
(* current() waits for the operation that is under way, run_operation lets *)
(* one in at a time.  Nothing orders the restarts of commands, tray,       *)
(* settings and the pipeline but the pipeline's own guard.                 *)
(*                                                                         *)
(* The service is external: it may be up, of another version, or down, and *)
(* runs at most one core, which ends when the service is removed.  A run   *)
(* file that cannot be written or a core that does not start fail.         *)
(***************************************************************************)
EXTENDS Naturals

CONSTANTS Tasks, Commands,   \* what calls, and with what: some of restart, stop, install, ...
          Services,          \* how the service may be at the start
          MaxCalls           \* bound on calls

Operations == {"install", "uninstall", "reinstall"}

VARIABLES mode,              \* running_mode
          child,             \* child_sidecar: a process, 0 is none
          sidecars, served,  \* processes that run; the service runs a core
          service,           \* "up", "old", "down"
          status,            \* Ready, NeedsReinstall, another request, Unavailable
          operation_running,
          pc, cmd,           \* of each task: where it is, its command
          view, told, pid,   \* the status it has read, whether its future was notified, its process
          ended,             \* history: what the last call came to, "met" if it was not alone
          crossed, lost,     \* history: two of them overlapped; a stop failed and left a core
          count, spawned

stateVars == <<mode, child>>
systemVars == <<sidecars, served, service>>
managerVars == <<status, operation_running, told>>
history == <<ended, crossed, lost>>
vars == <<stateVars, systemVars, managerVars, pc, cmd, view, pid, history, count, spawned>>

(* The manager after init_service_manager and its own start.               *)
Init ==
  /\ service \in Services /\ operation_running = FALSE
  /\ status = IF service = "up" THEN "Ready" ELSE "Unavailable"
  /\ mode = IF service = "up" THEN "Service" ELSE "Sidecar"
  /\ served = (service = "up")
  /\ sidecars = IF served THEN {} ELSE {1}
  /\ child = IF served THEN 0 ELSE 1
  /\ pc = [t \in Tasks |-> "idle"] /\ cmd = [t \in Tasks |-> "none"]
  /\ view = [t \in Tasks |-> "none"] /\ told = [t \in Tasks |-> TRUE] /\ pid = [t \in Tasks |-> 0]
  /\ ended = "started" /\ crossed = FALSE /\ lost = FALSE
  /\ count = 0 /\ spawned = 1

-------------------------------------------------------------------------------
Goes(t, where) ==
  /\ pc' = [pc EXCEPT ![t] = where]
  /\ cmd' = [cmd EXCEPT ![t] = IF where = "idle" THEN "none" ELSE @]
  /\ view' = [view EXCEPT ![t] = IF where = "idle" THEN "none" ELSE @]
  /\ pid' = [pid EXCEPT ![t] = IF where = "idle" THEN 0 ELSE @]

Quiet == \A t \in Tasks : pc[t] = "idle"
Lifecycle == {t \in Tasks : cmd[t] \in {"restart", "stop"}}

BugBegin(t, c) ==
  /\ pc[t] = "idle" /\ count < MaxCalls /\ count' = count + 1
  /\ cmd' = [cmd EXCEPT ![t] = c]
  /\ pc' = [pc EXCEPT ![t] = IF c \in Operations THEN "enter" ELSE IF c = "restart" THEN "look" ELSE "stop"]
  /\ ended' = IF Quiet THEN "none" ELSE "met"
  /\ crossed' = (crossed \/ (c \notin Operations /\ Lifecycle # {}))
  /\ UNCHANGED <<stateVars, systemVars, managerVars, view, pid, lost, spawned>>

Begin(t, c) ==
  /\ pc[t] = "idle" /\ count < MaxCalls /\ count' = count + 1
  /\ cmd' = [cmd EXCEPT ![t] = c]
  /\ pc' = [pc EXCEPT ![t] = IF c \in Operations THEN "enter" ELSE "stop"]
  /\ ended' = IF Quiet THEN "none" ELSE "met"
  /\ crossed' = (crossed \/ (c \notin Operations /\ Lifecycle # {}))
  /\ UNCHANGED <<stateVars, systemVars, managerVars, view, pid, lost, spawned>>

(* A call ends.                                                            *)
Ends(t, how) ==
  /\ Goes(t, "idle")
  /\ ended' = IF ended = "met" THEN "met" ELSE how
  /\ UNCHANGED <<crossed, count>>
Continues(t, where) == Goes(t, where) /\ UNCHANGED <<ended, crossed, count>>

-------------------------------------------------------------------------------
(* stop_core.                                                              *)
NothingToStop(t) ==
  /\ pc[t] = "stop" /\ mode = "NotRunning"
  /\ IF cmd[t] = "stop" THEN Ends(t, "stopped") ELSE Continues(t, "look")
  /\ UNCHANGED <<stateVars, systemVars, managerVars, lost, spawned>>

BugKillChild(t) ==
  /\ pc[t] = "stop" /\ mode = "Sidecar" /\ Continues(t, "stopped")
  /\ child' = 0
  /\ UNCHANGED <<mode, systemVars, managerVars, lost, spawned>>

(* stop_core_by_sidecar: take_child_sidecar, kill.                         *)
KillChild(t) ==
  /\ pc[t] = "stop" /\ mode = "Sidecar" /\ Continues(t, "stopped")
  /\ sidecars' = sidecars \ {child} /\ child' = 0
  /\ UNCHANGED <<mode, served, service, managerVars, lost, spawned>>

(* stop_core_by_service: an error or the timeout of quit() drop it, and    *)
(* the mode is reset nevertheless.                                         *)
StopServed(t) ==
  /\ pc[t] = "stop" /\ mode = "Service" /\ service # "down"
  /\ Continues(t, "stopped") /\ served' = FALSE
  /\ UNCHANGED <<stateVars, sidecars, service, managerVars, lost, spawned>>

StopFails(t) ==
  /\ pc[t] = "stop" /\ mode = "Service"
  /\ Ends(t, "failed") /\ mode' = "NotRunning"
  /\ served' \in {served, FALSE} /\ lost' = (lost \/ served')
  /\ UNCHANGED <<child, sidecars, service, managerVars, spawned>>

Stopped(t) ==
  /\ pc[t] = "stopped" /\ mode' = "NotRunning"
  /\ IF cmd[t] = "stop" THEN Ends(t, "stopped") ELSE Continues(t, "look")
  /\ UNCHANGED <<child, systemVars, managerVars, lost, spawned>>

-------------------------------------------------------------------------------
(* start_core: prepare_startup asks current(), which makes its future      *)
(* before it looks.                                                        *)
Look(t) ==
  /\ pc[t] = "look" /\ told' = [told EXCEPT ![t] = FALSE]
  /\ Continues(t, IF operation_running THEN "sleep" ELSE "read")
  /\ UNCHANGED <<stateVars, systemVars, status, operation_running, lost, spawned>>

ReadStatus(t) ==
  /\ pc[t] = "read"
  /\ pc' = [pc EXCEPT ![t] = "again"] /\ view' = [view EXCEPT ![t] = status]
  /\ UNCHANGED <<stateVars, systemVars, managerVars, cmd, pid, history, count, spawned>>

LookAgain(t) ==
  /\ pc[t] = "again" /\ Continues(t, IF operation_running THEN "sleep" ELSE "mode")
  /\ UNCHANGED <<stateVars, systemVars, managerVars, lost, spawned>>

Wake(t) ==
  /\ pc[t] = "sleep" /\ told[t] /\ Continues(t, "look")
  /\ UNCHANGED <<stateVars, systemVars, managerVars, lost, spawned>>

SetMode(t) ==
  /\ pc[t] = "mode" /\ Continues(t, "which")
  /\ mode' = IF view[t] = "Ready" THEN "Service" ELSE "Sidecar"
  /\ UNCHANGED <<child, systemVars, managerVars, lost, spawned>>

(* The match reads the mode again.  generate_file may fail.                *)
StartBy(t) ==
  /\ pc[t] = "which" /\ Continues(t, IF mode = "Service" THEN "enter" ELSE "kill")
  /\ UNCHANGED <<stateVars, systemVars, managerVars, lost, spawned>>

StartFails(t) ==
  /\ pc[t] \in {"which", "spawn", "serve"} /\ Ends(t, "failed")
  /\ UNCHANGED <<stateVars, systemVars, managerVars, lost, spawned>>

(* start_core_by_sidecar: kill_stray_mihomo does not reach the service's.  *)
KillStray(t) ==
  /\ pc[t] = "kill" /\ Continues(t, "spawn")
  /\ sidecars' = {}
  /\ UNCHANGED <<stateVars, served, service, managerVars, lost, spawned>>

Spawn(t) ==
  /\ pc[t] = "spawn" /\ spawned' = spawned + 1
  /\ pc' = [pc EXCEPT ![t] = "child"] /\ pid' = [pid EXCEPT ![t] = spawned']
  /\ sidecars' = sidecars \cup {spawned'}
  /\ UNCHANGED <<stateVars, served, service, managerVars, cmd, view, history, count>>

SetChild(t) ==
  /\ pc[t] = "child" /\ Continues(t, "sidecar")
  /\ child' = pid[t]
  /\ UNCHANGED <<mode, systemVars, managerVars, lost, spawned>>

SidecarRuns(t) ==
  /\ pc[t] = "sidecar" /\ Ends(t, "started")
  /\ mode' = "Sidecar"
  /\ UNCHANGED <<child, systemVars, managerVars, lost, spawned>>

(* start_core_by_service, after its refresh.                               *)
Serve(t) ==
  /\ pc[t] = "serve" /\ service = "up" /\ Continues(t, "service")
  /\ served' = TRUE
  /\ UNCHANGED <<stateVars, sidecars, service, managerVars, lost, spawned>>

ServiceRuns(t) ==
  /\ pc[t] = "service" /\ Ends(t, "started")
  /\ mode' = "Service"
  /\ UNCHANGED <<child, systemVars, managerVars, lost, spawned>>

-------------------------------------------------------------------------------
(* run_operation, for a command and for the refresh of a start.            *)
Enter(t) ==
  /\ pc[t] = "enter" /\ ~operation_running
  /\ operation_running' = TRUE /\ Continues(t, "set")
  /\ UNCHANGED <<stateVars, systemVars, status, told, lost, spawned>>

AlreadyRunning(t) ==
  /\ pc[t] = "enter" /\ operation_running /\ Ends(t, "failed")
  /\ UNCHANGED <<stateVars, systemVars, managerVars, lost, spawned>>

(* apply_service_status; refresh asks for the version first.               *)
Requested(t) ==
  CASE cmd[t] = "restart" -> IF service = "up" THEN "Ready" ELSE "NeedsReinstall"
    [] cmd[t] = "install" -> "InstallRequired"
    [] cmd[t] = "uninstall" -> "UninstallRequired"
    [] cmd[t] = "reinstall" -> "ReinstallRequired"
SetStatus(t) ==
  /\ pc[t] = "set"
  /\ status' = Requested(t)
  /\ Continues(t, IF Requested(t) = "Ready" THEN "succeeded" ELSE "run")
  /\ UNCHANGED <<stateVars, systemVars, operation_running, told, lost, spawned>>

(* run_service_command, outside: it removes the service, and its core with *)
(* it, or puts one there.                                                  *)
RunCommand(t) ==
  /\ pc[t] = "run" /\ served' = FALSE
  /\ IF cmd[t] = "uninstall" THEN service' = "down" /\ Continues(t, "gone")
     ELSE service' \in (IF status = "InstallRequired" THEN {"up", "old"} ELSE {"up"}) /\ Continues(t, "ipc")
  /\ UNCHANGED <<stateVars, sidecars, managerVars, lost, spawned>>

(* A reinstallation may fail between its halves.                           *)
CommandFails(t) ==
  /\ pc[t] = "run" /\ Continues(t, "failed")
  /\ service' \in {service} \cup
       (IF status \in {"NeedsReinstall", "ReinstallRequired"} THEN {"down"} ELSE {})
  /\ served' = (served /\ service' = service)
  /\ UNCHANGED <<stateVars, sidecars, managerVars, lost, spawned>>

(* wait_for_service_ipc; an install looks at the version and goes on.      *)
Connected(t) ==
  /\ pc[t] = "ipc"
  /\ status' = "Ready" /\ Continues(t, IF service = "old" THEN "version" ELSE "succeeded")
  /\ UNCHANGED <<stateVars, systemVars, operation_running, told, lost, spawned>>

WrongVersion(t) ==
  /\ pc[t] = "version"
  /\ status' = "NeedsReinstall" /\ Continues(t, "run")
  /\ UNCHANGED <<stateVars, systemVars, operation_running, told, lost, spawned>>

Unavailable(t) ==
  /\ pc[t] \in {"ipc", "gone"}
  /\ status' = "Unavailable" /\ Continues(t, IF pc[t] = "gone" THEN "succeeded" ELSE "failed")
  /\ UNCHANGED <<stateVars, systemVars, operation_running, told, lost, spawned>>

(* The defer: the flag, then everyone who waits.                           *)
BugDone(t) ==
  \/ /\ pc[t] \in {"succeeded", "failed"} /\ told' = [u \in Tasks |-> TRUE]
     /\ Continues(t, IF pc[t] = "failed" THEN "notifyFailed" ELSE "notify")
     /\ UNCHANGED <<stateVars, systemVars, status, operation_running, lost, spawned>>
  \/ /\ pc[t] \in {"notify", "notifyFailed"} /\ operation_running' = FALSE
     /\ IF pc[t] = "notify" /\ cmd[t] = "restart" THEN Continues(t, "serve")
        ELSE Ends(t, IF pc[t] = "notify" THEN "done" ELSE "failed")
     /\ UNCHANGED <<stateVars, systemVars, status, told, lost, spawned>>

Done(t) ==
  \/ /\ pc[t] \in {"succeeded", "failed"} /\ operation_running' = FALSE
     /\ Continues(t, IF pc[t] = "failed" THEN "notifyFailed" ELSE "notify")
     /\ UNCHANGED <<stateVars, systemVars, status, told, lost, spawned>>
  \/ /\ pc[t] \in {"notify", "notifyFailed"} /\ told' = [u \in Tasks |-> TRUE]
     /\ IF pc[t] = "notify" /\ cmd[t] = "restart" THEN Continues(t, "serve")
        ELSE Ends(t, IF pc[t] = "notify" THEN "done" ELSE "failed")
     /\ UNCHANGED <<stateVars, systemVars, status, operation_running, lost, spawned>>

(* What runs without waiting for the user or for luck.                     *)
Proceeds(t) ==
  \/ NothingToStop(t) \/ KillChild(t) \/ StopServed(t) \/ StopFails(t) \/ Stopped(t)
  \/ Look(t) \/ ReadStatus(t) \/ LookAgain(t) \/ Wake(t) \/ SetMode(t) \/ StartBy(t) \/ StartFails(t)
  \/ KillStray(t) \/ Spawn(t) \/ SetChild(t) \/ SidecarRuns(t) \/ Serve(t) \/ ServiceRuns(t)
  \/ Enter(t) \/ AlreadyRunning(t) \/ SetStatus(t) \/ RunCommand(t) \/ CommandFails(t)
  \/ Connected(t) \/ WrongVersion(t) \/ Unavailable(t) \/ Done(t)

Next == \E t \in Tasks : Proceeds(t) \/ \E c \in Commands : Begin(t, c)

Spec == Init /\ [][Next]_vars

-------------------------------------------------------------------------------
(* Whatever operations on the service a restart has met: a core that runs  *)
(* is one that the mode names and the next stop reaches, unless two        *)
(* restarts crossed or a stop failed and left it.                          *)
CoresAreNamed ==
  Quiet /\ ~crossed /\ ~lost =>
    sidecars \subseteq {child} /\ (sidecars # {} => mode = "Sidecar") /\ (served => mode = "Service")

(* After a stop that nothing has crossed no core runs, after a restart one.*)
OneCore ==
  Quiet /\ ~crossed /\ ~lost =>
    /\ ended = "stopped" => sidecars = {} /\ ~served /\ mode = "NotRunning"
    /\ ended = "started" => served = (sidecars = {}) /\ mode = IF served THEN "Service" ELSE "Sidecar"

(* Who waits for an operation goes on when it is over.                     *)
Waiting == \E t \in Tasks : pc[t] \in {"look", "read", "again", "sleep"}
===================================================================================
