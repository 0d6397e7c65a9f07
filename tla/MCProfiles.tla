------------------------------ MODULE MCProfiles ------------------------------
(***************************************************************************)
(* The list of profiles in one of two modes, chosen by Init.  With the     *)
(* constants of the configuration writing a file may fail and the process  *)
(* may die or quit; in the other mode there are deletions and switches,    *)
(* and nothing fails.                                                      *)
(***************************************************************************)
EXTENDS ProfilesProofs, TLC
CONSTANTS m1, m2, m3, e1, e2, e3,
          Modes       \* modes of a run: "constants", "switching"

Two == {m1, m2}
Three == {m1, m2, m3}
CompanionOfTwo == m1 :> e1 @@ m2 :> e2
CompanionOfThree == m1 :> e1 @@ m2 :> e2 @@ m3 :> e3
OneListed == <<m1>>
TwoListed == <<m1, m2>>
TaskPerms == Permutations(Tasks)

VARIABLE mode

Switching == INSTANCE ProfilesProofs WITH
  Ops <- {"import", "delete", "patch", "update", "switch"}, Failing <- {}, MaxRestarts <- 0

ModeInit ==
  /\ mode \in Modes
  /\ \/ mode = "constants" /\ Init
     \/ mode = "switching" /\ Switching!Init

ModeNext ==
  /\ UNCHANGED mode
  /\ \/ mode = "constants" /\ Next
     \/ mode = "switching" /\ Switching!Next

ModeSpec == ModeInit /\ [][ModeNext]_<<vars, mode>>

-------------------------------------------------------------------------------
(* Whatever fails and whenever the process dies, listed items have their   *)
(* files and nothing that the user was told is done is taken back.         *)
WhileFailing == mode = "constants" => TypeOK /\ FilesExist /\ Kept

(* Without failures profiles.yaml is the list in memory once all is quiet. *)
WhileSwitching == mode = "switching" => TypeOK /\ DiskInStep

-------------------------------------------------------------------------------
(* What the theorems of the component say of each mode.                    *)
modeVars == <<vars, mode>>

(* The mode with failures: its commands never apply a draft over a         *)
(* commit, and no profile leaves the list.                                 *)
THEOREM ProfilesWhileFailing ==
  ASSUME Durable, NothingLeaves
  PROVE  ModeSpec => []WhileFailing
<1>1. ModeInit /\ mode = "constants" => Init
  BY DEF ModeInit
<1>2. [ModeNext]_modeVars /\ mode = "constants" => [Next]_vars /\ (mode = "constants")'
  BY DEF ModeNext, modeVars, vars
<1>3. ModeSpec => (mode = "constants" => Spec)
  BY <1>1, <1>2, PTL DEF ModeSpec, Spec, modeVars
<1>4. ModeSpec => (~(mode = "constants") => [](~(mode = "constants")))
  <2>1. [ModeNext]_modeVars /\ ~(mode = "constants") => (~(mode = "constants"))'
    BY DEF ModeNext, modeVars
  <2>. QED BY <2>1, PTL DEF ModeSpec, modeVars
<1>5. TypeOK /\ FilesExist /\ Kept => WhileFailing
  BY DEF WhileFailing
<1>6. ~(mode = "constants") => WhileFailing
  BY DEF WhileFailing
<1>7. Spec => []TypeOK
  BY ProfilesType
<1>8. Spec => []Kept
  BY ProfilesKept
<1>9. Spec => []FilesExist
  BY ProfilesFilesExist
<1>. QED BY <1>3, <1>4, <1>5, <1>6, <1>7, <1>8, <1>9, PTL

(* The mode with deletions and switches: nothing fails there.              *)
THEOREM ProfilesWhileSwitching == ModeSpec => []WhileSwitching
<1>1. ModeInit /\ mode = "switching" => Switching!Init
  BY DEF ModeInit
<1>2. [ModeNext]_modeVars /\ mode = "switching" => [Switching!Next]_Switching!vars /\ (mode = "switching")'
  BY DEF ModeNext, modeVars, vars, Switching!vars
<1>3. ModeSpec => (mode = "switching" => Switching!Spec)
  BY <1>1, <1>2, PTL DEF ModeSpec, Switching!Spec, modeVars
<1>4. ModeSpec => (~(mode = "switching") => [](~(mode = "switching")))
  <2>1. [ModeNext]_modeVars /\ ~(mode = "switching") => (~(mode = "switching"))'
    BY DEF ModeNext, modeVars
  <2>. QED BY <2>1, PTL DEF ModeSpec, modeVars
<1>5. Switching!TypeOK /\ Switching!DiskInStep => WhileSwitching
  <2>1. Switching!DiskInStep => DiskInStep
    BY DEF DiskInStep, Switching!DiskInStep, Idle, Switching!Idle, Empty, Switching!Empty
  <2>2. Switching!TypeOK => TypeOK
    <3>1. Switching!Value = Value /\ Switching!Job = Job /\ Switching!Step = Step /\ Switching!Uids = Uids
      BY DEF Value, Switching!Value, Uids, Switching!Uids, Companions, Switching!Companions,
             Job, Switching!Job, Step, Switching!Step
    <3>2. ASSUME restarts \in 0..0 PROVE restarts \in 0..MaxRestarts
      BY <3>2, ProfilesAssumption DEF ProfilesAssumption
    <3>. QED BY <3>1, <3>2, Zenon DEF TypeOK, Switching!TypeOK
  <2>. QED BY <2>1, <2>2 DEF WhileSwitching
<1>6. ~(mode = "switching") => WhileSwitching
  BY DEF WhileSwitching
<1>9. Switching!ProfilesAssumption
  BY ProfilesAssumption
     DEF ProfilesAssumption, Companions, Uids, Value, IsInjective, Switching!IsInjective,
         Switching!ProfilesAssumption, Switching!Companions, Switching!Uids, Switching!Value
<1>7. Switching!Spec => []Switching!TypeOK
  BY <1>9, Switching!ProfilesType
<1>8. Switching!Spec => []Switching!DiskInStep
  BY <1>9, Switching!ProfilesDisk DEF Switching!ReorderAlone
<1>. QED BY <1>3, <1>4, <1>5, <1>6, <1>7, <1>8, PTL
===============================================================================
