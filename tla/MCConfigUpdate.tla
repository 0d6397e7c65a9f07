---------------------------- MODULE MCConfigUpdate ----------------------------
(***************************************************************************)
(* The pipeline in one of two modes, chosen by Init: with the constants of *)
(* the configuration, or with timeouts and without automatic updates.      *)
(***************************************************************************)
EXTENDS ConfigUpdate, TLC

CONSTANTS good1, good2, bad,
          Modes               \* modes of a run: "constants", "timed"

(* The check rejects one profile outright and another once it is edited.   *)
MCProfiles == {good1, good2, bad}
MCAccepted == {[from |-> good1, edited |-> FALSE], [from |-> good1, edited |-> TRUE],
               [from |-> good2, edited |-> FALSE]}

(* The smaller choice: one profile is accepted until it is edited.         *)
TwoProfiles == {good1, bad}
OneAccepted == {[from |-> good1, edited |-> FALSE]}

(* Requests that go through the guard, without and with timeouts.          *)
Guard == [t \in Tasks |-> {"switch", "update", "auto", "chain"}]
GuardAndTimeout == [t \in Tasks |-> {"switch", "update", "chain"}]

(* One task switches while the other makes the requests that pass the      *)
(* guard by.                                                               *)
PassBy == (CHOOSE t \in Tasks : TRUE) :> {"switch"} @@ [t \in Tasks |-> {"patch", "restart", "regen"}]

Switch == [t \in Tasks |-> {"switch"}]
SwitchOrUpdate == [t \in Tasks |-> {"switch", "update"}]

TaskPerms == Permutations(Tasks)

VARIABLE mode

Timed == INSTANCE ConfigUpdate WITH TimesOut <- TRUE, Ops <- GuardAndTimeout

ModeInit ==
  /\ mode \in Modes
  /\ \/ mode = "constants" /\ Init
     \/ mode = "timed" /\ Timed!Init

ModeNext ==
  /\ UNCHANGED mode
  /\ \/ mode = "constants" /\ Next
     \/ mode = "timed" /\ Timed!Next

ModeSpec == ModeInit /\ [][ModeNext]_<<vars, mode>>
FairModeSpec == ModeSpec /\ \A p \in Tasks : WF_vars(Proceed(p))

-------------------------------------------------------------------------------
(* Unless a switch was cancelled half-way, the committed runtime           *)
(* configuration is the one the core runs whenever nobody is in the guard. *)
UntimedRuntime == mode = "constants" => RuntimeIsWhatRuns
===============================================================================
