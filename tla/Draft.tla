-------------------------------- MODULE Draft --------------------------------
(***************************************************************************)
(* crates/clash-verge-draft: the container in which the Tauri backend      *)
(* keeps each of its four configurations (clash, verge, profiles,          *)
(* runtime).  Both slots hold an Arc; its address is the identity that     *)
(* with_data_modify compares before it commits.  Addresses are reused as   *)
(* soon as no Arc holds them.  Values are abstracted to the set of edits   *)
(* they contain: an edit made by task e adds e.                            *)
(*                                                                         *)
(* A task that calls with_data_modify goes through                         *)
(*   idle -> snap -> run -> check -> drop -> notify -> idle                *)
(* and, while the permit is taken, first through yield, then through       *)
(* rounds of poll, parked, woken or of poll, retry.  yield, parked, woken  *)
(* and run are the await points at which the caller may drop the future.   *)
(* tokio's Notify keeps at most one stored permit; which of the parked     *)
(* waiters notify_one picks is left open.                                  *)
(*                                                                         *)
(* An operator named BugX is X with a plausible mistake in it: no action   *)
(* uses it, it is there to see which property notices the mistake.         *)
(***************************************************************************)
EXTENDS TLAPS

CONSTANTS
  Tasks,   \* callers; a task's edits are tagged with the task
  Editors, \* the tasks that also edit the draft synchronously
  Addr,    \* heap addresses an Arc<Box<T>> may have
  None     \* the absent draft, the snapshot of a task that has none

ASSUME DraftAssumption ==
  /\ Editors \subseteq Tasks
  /\ None \notin [addr : Addr, edits : SUBSET Tasks]
  /\ \A S \in SUBSET Tasks : None # S

VARIABLES
  committed,  \* DraftData.0
  draft,      \* DraftData.1
  modifying,  \* data_modifying
  stored,     \* the permit stored in data_modify_notify
  pc,         \* where each with_data_modify call is
  snap        \* original_arc (and the clone it was made from) of each call

vars == <<committed, draft, modifying, stored, pc, snap>>

Arc == [addr : Addr, edits : SUBSET Tasks]

PC == {"idle", "yield", "poll", "parked", "woken", "retry",
       "snap", "run", "check", "drop", "notify"}

(* The permit is held from the successful exchange to the store in Drop.   *)
Holding(p) == pc[p] \in {"snap", "run", "check", "drop"}

BugInUse == {committed.addr} \cup (IF draft = None THEN {} ELSE {draft.addr})

(* Addresses some live Arc points to: they cannot be allocated.            *)
InUse == {committed.addr}
         \cup (IF draft = None THEN {} ELSE {draft.addr})
         \cup {snap[p].addr : p \in {q \in Tasks : snap[q] # None}}

Fresh == Addr \ InUse

Init ==
  /\ committed \in [addr : Addr, edits : {{}}]
  /\ draft = None
  /\ modifying = FALSE
  /\ stored = FALSE
  /\ pc = [p \in Tasks |-> "idle"]
  /\ snap = [p \in Tasks |-> None]

-----------------------------------------------------------------------------
(* Synchronous operations, each under the mutex.                           *)

(* edit_draft: the draft, or the committed Arc, goes through make_mut,     *)
(* which writes in place when nobody else holds the Arc and reallocates    *)
(* otherwise.  The committed Arc is always shared with the slot.           *)
EditDraft(e) ==
  /\ e \in Editors
  /\ \/ /\ draft = None
        /\ \E a \in Fresh :
             draft' = [addr |-> a, edits |-> committed.edits \cup {e}]
     \/ /\ draft # None
        /\ \E a \in Fresh \cup {draft.addr} :
             draft' = [addr |-> a, edits |-> draft.edits \cup {e}]
  /\ UNCHANGED <<committed, modifying, stored, pc, snap>>

Apply ==
  /\ draft # None
  /\ committed' = draft
  /\ draft' = None
  /\ UNCHANGED <<modifying, stored, pc, snap>>

Discard ==
  /\ draft' = None
  /\ UNCHANGED <<committed, modifying, stored, pc, snap>>

-----------------------------------------------------------------------------
(* with_data_modify.                                                       *)

BugTryAcquire(p, other) ==
  /\ \/ modifying' = TRUE /\ pc' = [pc EXCEPT ![p] = "snap"]
     \/ modifying /\ pc' = [pc EXCEPT ![p] = other] /\ UNCHANGED modifying
  /\ UNCHANGED <<committed, draft, stored, snap>>

(* One compare_exchange on data_modifying; p continues at other if it      *)
(* fails.                                                                  *)
TryAcquire(p, other) ==
  /\ \/ ~modifying /\ modifying' = TRUE /\ pc' = [pc EXCEPT ![p] = "snap"]
     \/ modifying /\ pc' = [pc EXCEPT ![p] = other] /\ UNCHANGED modifying
  /\ UNCHANGED <<committed, draft, stored, snap>>

Start(p) == pc[p] = "idle" /\ TryAcquire(p, "yield")

Retry(p) == pc[p] \in {"yield", "woken", "retry"} /\ TryAcquire(p, "poll")

(* First poll of notified.await: take the stored permit or park.           *)
Poll(p) ==
  /\ pc[p] = "poll"
  /\ \/ stored /\ stored' = FALSE /\ pc' = [pc EXCEPT ![p] = "retry"]
     \/ ~stored /\ pc' = [pc EXCEPT ![p] = "parked"] /\ UNCHANGED stored
  /\ UNCHANGED <<committed, draft, modifying, snap>>

Snapshot(p) ==
  /\ pc[p] = "snap"
  /\ snap' = [snap EXCEPT ![p] = committed]
  /\ pc' = [pc EXCEPT ![p] = "run"]
  /\ UNCHANGED <<committed, draft, modifying, stored>>

(* The closure returns Ok, or Err: `?` leaves with the permit's Drop.      *)
ClosureOk(p) ==
  /\ pc[p] = "run"
  /\ pc' = [pc EXCEPT ![p] = "check"]
  /\ UNCHANGED <<committed, draft, modifying, stored, snap>>

BugLeave(p) == pc' = [pc EXCEPT ![p] = "drop"] /\ UNCHANGED snap

Leave(p) == pc' = [pc EXCEPT ![p] = "drop"] /\ snap' = [snap EXCEPT ![p] = None]

ClosureErr(p) ==
  /\ pc[p] = "run"
  /\ Leave(p)
  /\ UNCHANGED <<committed, draft, modifying, stored>>

BugSameArc(p) == snap[p] # None

(* Arc::ptr_eq on the committed slot decides.                              *)
SameArc(p) == snap[p].addr = committed.addr

Commit(p) ==
  /\ pc[p] = "check"
  /\ \/ /\ SameArc(p)
        /\ \E a \in Fresh :
             committed' = [addr |-> a, edits |-> snap[p].edits \cup {p}]
     \/ ~SameArc(p) /\ UNCHANGED committed
  /\ Leave(p)
  /\ UNCHANGED <<draft, modifying, stored>>

(* Drop for DataModifyPermit: the flag first, then the notification.       *)
Release(p) ==
  /\ pc[p] = "drop"
  /\ modifying' = FALSE
  /\ pc' = [pc EXCEPT ![p] = "notify"]
  /\ UNCHANGED <<committed, draft, stored, snap>>

(* Notify::notify_one, called by p, which is then idle.                    *)
NotifyOne(p) ==
  \/ \E w \in Tasks :
       /\ pc[w] = "parked"
       /\ pc' = [pc EXCEPT ![w] = "woken", ![p] = "idle"]
       /\ UNCHANGED stored
  \/ /\ \A w \in Tasks : pc[w] # "parked"
     /\ stored' = TRUE
     /\ pc' = [pc EXCEPT ![p] = "idle"]

BugNotify(p) ==
  /\ pc[p] = "notify"
  /\ pc' = [pc EXCEPT ![p] = "idle"]
  /\ UNCHANGED <<committed, draft, modifying, stored, snap>>

Notify(p) ==
  /\ pc[p] = "notify"
  /\ NotifyOne(p)
  /\ UNCHANGED <<committed, draft, modifying, snap>>

BugCancelWait(p) ==
  /\ pc[p] \in {"yield", "parked", "woken"}
  /\ pc' = [pc EXCEPT ![p] = "idle"]
  /\ UNCHANGED <<committed, draft, modifying, stored, snap>>

(* The caller drops the future at an await.  A Notified that was woken but *)
(* never polled passes its notification on.                                *)
CancelWait(p) ==
  /\ \/ pc[p] \in {"yield", "parked"}
        /\ pc' = [pc EXCEPT ![p] = "idle"]
        /\ UNCHANGED stored
     \/ pc[p] = "woken" /\ NotifyOne(p)
  /\ UNCHANGED <<committed, draft, modifying, snap>>

BugCancelRun(p) ==
  /\ pc[p] = "run"
  /\ pc' = [pc EXCEPT ![p] = "idle"]
  /\ snap' = [snap EXCEPT ![p] = None]
  /\ UNCHANGED <<committed, draft, modifying, stored>>

CancelRun(p) ==
  /\ pc[p] = "run"
  /\ Leave(p)
  /\ UNCHANGED <<committed, draft, modifying, stored>>

-----------------------------------------------------------------------------
Modifier(p) ==
  \/ Retry(p) \/ Poll(p) \/ Snapshot(p) \/ ClosureOk(p) \/ ClosureErr(p)
  \/ Commit(p) \/ Release(p) \/ Notify(p)

Next ==
  \/ Apply
  \/ Discard
  \/ \E p \in Tasks :
       EditDraft(p) \/ Start(p) \/ Modifier(p) \/ CancelWait(p) \/ CancelRun(p)

Spec == Init /\ [][Next]_vars

(* The runtime keeps polling a future that is ready and the closures end.  *)
FairSpec == Spec /\ \A p \in Tasks : WF_vars(Modifier(p))

-----------------------------------------------------------------------------
(* The state has its type, and a call owns a snapshot exactly while its    *)
(* closure runs or its result waits to be committed.                       *)
TypeOK ==
  /\ committed \in Arc
  /\ draft \in Arc \cup {None}
  /\ modifying \in BOOLEAN
  /\ stored \in BOOLEAN
  /\ pc \in [Tasks -> PC]
  /\ snap \in [Tasks -> Arc \cup {None}]
  /\ \A p \in Tasks : snap[p] # None <=> pc[p] \in {"run", "check"}

(* The closures of two with_data_modify calls never overlap, and the flag  *)
(* is set exactly while one of them holds the permit.                      *)
PermitExclusion ==
  /\ \A p, q \in Tasks : Holding(p) /\ Holding(q) => p = q
  /\ modifying <=> \E p \in Tasks : Holding(p)

(* The notification cannot be lost: a task that has parked, or failed its  *)
(* last attempt and is about to park, while the permit is free is followed *)
(* by a stored notification or by a task that will still try or notify.    *)
NoLostWakeup ==
  ~modifying /\ (\E p \in Tasks : pc[p] \in {"poll", "parked"})
    => stored \/ \E p \in Tasks : pc[p] \in {"woken", "retry", "notify"}

(* with_data_modify commits on the very value it has read, in spite of     *)
(* address reuse: an equal address means an equal value.                   *)
SameAddressSameValue ==
  \A p \in Tasks :
    snap[p] # None /\ snap[p].addr = committed.addr => snap[p] = committed

(* Draft implements DraftCell: whatever the interleaving of edits, applies *)
(* and cancelled or failed modifications, with_data_modify acts as one     *)
(* atomic read-modify-write of the committed value.                        *)
Cell == INSTANCE DraftCell
          WITH value <- committed.edits,
               pending <- IF draft = None THEN None ELSE draft.edits

ImplementsCell == Cell!Spec

(* A waiting modification is never stuck behind a free permit: some task   *)
(* gets the permit.                                                        *)
PermitIsTaken ==
  (\E p \in Tasks : pc[p] = "parked") ~> (modifying \/ \A p \in Tasks : pc[p] # "parked")

(* The permit is always given back.                                        *)
PermitIsReleased == modifying ~> ~modifying

-----------------------------------------------------------------------------
(***************************************************************************)
(* Theorems, for any set of tasks and of addresses.                        *)
(***************************************************************************)

(* The address argument.  A draft never shares its address with the        *)
(* committed Arc or with the Arc a modification holds, so applying it      *)
(* cannot give a snapshot's address to another value.                      *)
DraftApart ==
  draft # None =>
    /\ draft.addr # committed.addr
    /\ \A p \in Tasks : snap[p] # None => snap[p].addr # draft.addr

AddressInv == TypeOK /\ SameAddressSameValue /\ DraftApart

(* The state of every reachable container has its type.                    *)
THEOREM DraftType == Spec => []TypeOK
<1>1. Init => TypeOK
  BY DraftAssumption DEF Init, TypeOK, Arc, PC
<1>2. TypeOK /\ [Next]_vars => TypeOK'
  <2> SUFFICES ASSUME TypeOK, [Next]_vars PROVE TypeOK'
    OBVIOUS
  <2> USE DraftAssumption DEF TypeOK, Arc, PC
  <2>1. CASE Apply
    BY <2>1 DEF Apply
  <2>2. CASE Discard
    BY <2>2 DEF Discard
  <2>3. ASSUME NEW p \in Tasks, EditDraft(p) PROVE TypeOK'
    BY <2>3 DEF EditDraft, Fresh
  <2>4. ASSUME NEW p \in Tasks, Start(p) PROVE TypeOK'
    <3>1. modifying' \in BOOLEAN /\ stored' \in BOOLEAN
      BY <2>4, Zenon DEF Start, TryAcquire
    <3>2. /\ pc' \in [Tasks -> PC]
          /\ \A q \in Tasks : snap'[q] # None <=> pc'[q] \in {"run", "check"}
          /\ UNCHANGED <<committed, draft, snap>>
      BY <2>4 DEF Start, TryAcquire
    <3>3. QED
      BY <3>1, <3>2
  <2>5. ASSUME NEW p \in Tasks, Retry(p) PROVE TypeOK'
    <3>1. modifying' \in BOOLEAN /\ stored' \in BOOLEAN
      BY <2>5, Zenon DEF Retry, TryAcquire
    <3>2. /\ pc' \in [Tasks -> PC]
          /\ \A q \in Tasks : snap'[q] # None <=> pc'[q] \in {"run", "check"}
          /\ UNCHANGED <<committed, draft, snap>>
      BY <2>5 DEF Retry, TryAcquire
    <3>3. QED
      BY <3>1, <3>2
  <2>6. ASSUME NEW p \in Tasks, Poll(p) PROVE TypeOK'
    <3>1. modifying' \in BOOLEAN /\ stored' \in BOOLEAN
      BY <2>6, Zenon DEF Poll
    <3>2. /\ pc' \in [Tasks -> PC]
          /\ \A q \in Tasks : snap'[q] # None <=> pc'[q] \in {"run", "check"}
          /\ UNCHANGED <<committed, draft, snap>>
      BY <2>6 DEF Poll
    <3>3. QED
      BY <3>1, <3>2
  <2>7. ASSUME NEW p \in Tasks, Snapshot(p) PROVE TypeOK'
    BY <2>7 DEF Snapshot
  <2>8. ASSUME NEW p \in Tasks, ClosureOk(p) PROVE TypeOK'
    BY <2>8 DEF ClosureOk
  <2>9. ASSUME NEW p \in Tasks, ClosureErr(p) PROVE TypeOK'
    BY <2>9 DEF ClosureErr, Leave
  <2>10. ASSUME NEW p \in Tasks, Commit(p) PROVE TypeOK'
    <3>1. snap[p] \in Arc
      BY <2>10 DEF Commit
    <3>2. committed' \in Arc
      BY <2>10, <3>1 DEF Commit, Fresh
    <3>3. QED
      BY <2>10, <3>2 DEF Commit, Leave
  <2>11. ASSUME NEW p \in Tasks, Release(p) PROVE TypeOK'
    <3>1. modifying' \in BOOLEAN /\ stored' \in BOOLEAN
      BY <2>11, Zenon DEF Release
    <3>2. /\ pc' \in [Tasks -> PC]
          /\ \A q \in Tasks : snap'[q] # None <=> pc'[q] \in {"run", "check"}
          /\ UNCHANGED <<committed, draft, snap>>
      BY <2>11 DEF Release
    <3>3. QED
      BY <3>1, <3>2
  <2>12. ASSUME NEW p \in Tasks, Notify(p) PROVE TypeOK'
    <3>1. modifying' \in BOOLEAN /\ stored' \in BOOLEAN
      BY <2>12, Zenon DEF Notify, NotifyOne
    <3>2. /\ pc' \in [Tasks -> PC]
          /\ \A q \in Tasks : snap'[q] # None <=> pc'[q] \in {"run", "check"}
          /\ UNCHANGED <<committed, draft, snap>>
      BY <2>12 DEF Notify, NotifyOne
    <3>3. QED
      BY <3>1, <3>2
  <2>13. ASSUME NEW p \in Tasks, CancelWait(p) PROVE TypeOK'
    <3>1. modifying' \in BOOLEAN /\ stored' \in BOOLEAN
      BY <2>13, Zenon DEF CancelWait, NotifyOne
    <3>2. /\ pc' \in [Tasks -> PC]
          /\ \A q \in Tasks : snap'[q] # None <=> pc'[q] \in {"run", "check"}
          /\ UNCHANGED <<committed, draft, snap>>
      BY <2>13 DEF CancelWait, NotifyOne
    <3>3. QED
      BY <3>1, <3>2
  <2>14. ASSUME NEW p \in Tasks, CancelRun(p) PROVE TypeOK'
    BY <2>14 DEF CancelRun, Leave
  <2>15. CASE UNCHANGED vars
    BY <2>15 DEF vars
  <2>16. QED
    BY <2>1, <2>2, <2>3, <2>4, <2>5, <2>6, <2>7, <2>8, <2>9, <2>10, <2>11,
       <2>12, <2>13, <2>14, <2>15 DEF Next, Modifier
<1>3. QED
  BY <1>1, <1>2, PTL DEF Spec

(* At most one with_data_modify call holds the permit, and the atomic flag *)
(* says so.                                                                *)
THEOREM DraftExclusion == Spec => []PermitExclusion
<1>1. Init => PermitExclusion
  BY DEF Init, PermitExclusion, Holding
<1>2. TypeOK /\ PermitExclusion /\ [Next]_vars => PermitExclusion'
  <2> SUFFICES ASSUME TypeOK, PermitExclusion, [Next]_vars
               PROVE  PermitExclusion'
    OBVIOUS
  <2> USE DEF TypeOK, PermitExclusion, Holding
  <2>1. CASE Apply \/ Discard \/ UNCHANGED vars
    BY <2>1 DEF Apply, Discard, vars
  <2>2. ASSUME NEW p \in Tasks, EditDraft(p) PROVE PermitExclusion'
    BY <2>2 DEF EditDraft
  <2>3. ASSUME NEW p \in Tasks, Start(p) \/ Retry(p) PROVE PermitExclusion'
    BY <2>3 DEF Start, Retry, TryAcquire
  <2>4. ASSUME NEW p \in Tasks, Poll(p) PROVE PermitExclusion'
    BY <2>4 DEF Poll
  <2>5. ASSUME NEW p \in Tasks, Snapshot(p) \/ ClosureOk(p) PROVE PermitExclusion'
    BY <2>5 DEF Snapshot, ClosureOk
  <2>6. ASSUME NEW p \in Tasks, ClosureErr(p) \/ Commit(p) \/ CancelRun(p)
        PROVE  PermitExclusion'
    <3>1. /\ pc[p] \in {"run", "check"}
          /\ pc' = [pc EXCEPT ![p] = "drop"]
          /\ UNCHANGED modifying
      BY <2>6 DEF ClosureErr, Commit, CancelRun, Leave
    <3>2. QED
      BY <3>1
  <2>7. ASSUME NEW p \in Tasks, Release(p) PROVE PermitExclusion'
    BY <2>7 DEF Release
  <2>8. ASSUME NEW p \in Tasks, Notify(p) PROVE PermitExclusion'
    BY <2>8 DEF Notify, NotifyOne
  <2>9. ASSUME NEW p \in Tasks, CancelWait(p) PROVE PermitExclusion'
    BY <2>9 DEF CancelWait, NotifyOne
  <2>10. QED
    BY <2>1, <2>2, <2>3, <2>4, <2>5, <2>6, <2>7, <2>8, <2>9 DEF Next, Modifier
<1>3. QED
  BY <1>1, <1>2, DraftType, PTL DEF Spec

-----------------------------------------------------------------------------
LEMMA AddressInit == Init => AddressInv
BY DraftAssumption DEF Init, AddressInv, TypeOK, Arc, PC, SameAddressSameValue,
                       DraftApart

(* Only a step that allocates or moves an Arc can disturb the addresses.   *)
LEMMA AddressStep ==
  TypeOK /\ TypeOK' /\ SameAddressSameValue /\ DraftApart /\ [Next]_vars
    => SameAddressSameValue' /\ DraftApart'
<1> SUFFICES ASSUME TypeOK, TypeOK', SameAddressSameValue, DraftApart, [Next]_vars
             PROVE  SameAddressSameValue' /\ DraftApart'
  OBVIOUS
<1> USE DraftAssumption DEF SameAddressSameValue, DraftApart, Arc
<1>1. CASE Apply
  BY <1>1 DEF Apply, TypeOK
<1>2. CASE Discard
  BY <1>2 DEF Discard
<1>3. ASSUME NEW e \in Tasks, EditDraft(e)
      PROVE  SameAddressSameValue' /\ DraftApart'
  <2>1. \A a \in Fresh : /\ a # committed.addr
                         /\ \A p \in Tasks : snap[p] # None => snap[p].addr # a
    BY DEF Fresh, InUse
  <2>2. QED
    BY <1>3, <2>1 DEF EditDraft, TypeOK
<1>4. ASSUME NEW p \in Tasks, Snapshot(p)
      PROVE  SameAddressSameValue' /\ DraftApart'
  BY <1>4 DEF Snapshot, TypeOK
<1>5. ASSUME NEW p \in Tasks, Commit(p)
      PROVE  SameAddressSameValue' /\ DraftApart'
  <2>1. \A a \in Fresh : /\ draft # None => a # draft.addr
                         /\ \A q \in Tasks : snap[q] # None => snap[q].addr # a
    BY DEF Fresh, InUse
  <2>2. \A q \in Tasks : snap'[q] # None => snap'[q] = snap[q]
    BY <1>5 DEF Commit, Leave, TypeOK
  <2>3. CASE UNCHANGED committed
    BY <1>5, <2>2, <2>3 DEF Commit
  <2>4. CASE \E a \in Fresh :
               committed' = [addr |-> a, edits |-> snap[p].edits \cup {p}]
    BY <1>5, <2>1, <2>2, <2>4 DEF Commit
  <2>5. QED
    BY <1>5, <2>3, <2>4 DEF Commit
<1>6. ASSUME NEW p \in Tasks, ClosureErr(p) \/ CancelRun(p)
      PROVE  SameAddressSameValue' /\ DraftApart'
  <2>1. /\ UNCHANGED <<committed, draft>>
        /\ snap' = [snap EXCEPT ![p] = None]
    BY <1>6 DEF ClosureErr, CancelRun, Leave
  <2>2. QED
    BY <2>1 DEF TypeOK
<1>7. CASE UNCHANGED <<committed, draft, snap>>
  BY <1>7
<1>8. QED
  BY <1>1, <1>2, <1>3, <1>4, <1>5, <1>6, <1>7
     DEF Next, Modifier, vars, Start, Retry, TryAcquire, Poll, ClosureOk,
         Release, Notify, CancelWait

(* An Arc that compares equal still holds the value that was read.         *)
THEOREM DraftAddresses == Spec => []SameAddressSameValue
<1>1. AddressInv /\ TypeOK' /\ [Next]_vars => AddressInv'
  BY AddressStep DEF AddressInv
<1>2. AddressInv => SameAddressSameValue
  BY DEF AddressInv
<1>3. QED
  BY AddressInit, <1>1, <1>2, DraftType, PTL DEF Spec

(* Every step of the container is a step, or a stutter, of the atomic cell.*)
LEMMA CellStep ==
  ASSUME TypeOK, TypeOK', SameAddressSameValue, [Next]_vars
  PROVE  [Cell!Next]_(Cell!cellVars)
<1> USE DEF Cell!cellVars, Cell!Next
<1>0. /\ draft # None => draft.edits # None
      /\ draft' # None => draft'.edits # None
  BY DraftAssumption DEF TypeOK, Arc
<1>1. CASE Apply
  BY <1>0, <1>1 DEF Apply, Cell!Apply
<1>2. CASE Discard
  BY <1>2 DEF Discard, Cell!Discard
<1>3. ASSUME NEW e \in Tasks, EditDraft(e) PROVE Cell!Edit(e)
  <2>1. draft' # None /\ committed' = committed
    BY <1>3, DraftAssumption DEF EditDraft, TypeOK, Arc, Fresh
  <2>2. draft'.edits = (IF draft = None THEN committed.edits ELSE draft.edits) \cup {e}
    BY <1>3 DEF EditDraft, TypeOK, Arc
  <2>3. QED
    BY <1>0, <2>1, <2>2 DEF Cell!Edit, Cell!Base
<1>4. ASSUME NEW p \in Tasks, Commit(p) PROVE [Cell!Modify(p)]_(Cell!cellVars)
  <2>1. snap[p] # None
    BY <1>4 DEF Commit, TypeOK
  <2>2. CASE SameArc(p)
    BY <1>4, <2>1, <2>2 DEF Commit, SameArc, SameAddressSameValue, Cell!Modify
  <2>3. CASE ~SameArc(p)
    BY <1>4, <2>3 DEF Commit
  <2>4. QED
    BY <2>2, <2>3
<1>5. CASE UNCHANGED <<committed, draft>>
  BY <1>5
<1>6. QED
  BY <1>1, <1>2, <1>3, <1>4, <1>5
     DEF Next, Modifier, vars, Start, Retry, TryAcquire, Poll, Snapshot,
         ClosureOk, ClosureErr, Release, Notify, CancelWait, CancelRun

(* The container implements the atomic cell: with_data_modify is one       *)
(* read-modify-write of the committed value, however it is interleaved     *)
(* with edits, applies, failures and cancellations.                        *)
THEOREM DraftRefinement == Spec => ImplementsCell
<1>1. Init => Cell!Init
  BY DEF Init, Cell!Init
<1>2. QED
  BY <1>1, CellStep, DraftType, DraftAddresses, PTL
     DEF Spec, ImplementsCell, Cell!Spec

(* No wakeup is lost: a task parked while the permit is free will be       *)
(* followed by a stored notification, a retry or a notifier.  The proof    *)
(* needs the exclusion invariant: a task whose exchange failed saw the     *)
(* flag set, so its holder has yet to release and to notify.               *)
THEOREM DraftWakeup == Spec => []NoLostWakeup
<1>1. Init => NoLostWakeup
  BY DEF Init, NoLostWakeup
<1>2. TypeOK /\ TypeOK' /\ NoLostWakeup /\ [Next]_vars => NoLostWakeup'
  <2> SUFFICES ASSUME TypeOK, TypeOK', NoLostWakeup, [Next]_vars
               PROVE  NoLostWakeup'
    OBVIOUS
  <2> USE DEF TypeOK, NoLostWakeup
  <2>1. CASE UNCHANGED <<modifying, stored, pc>>
    BY <2>1
  <2>2. ASSUME NEW p \in Tasks, Start(p) \/ Retry(p) PROVE NoLostWakeup'
    BY <2>2 DEF Start, Retry, TryAcquire
  <2>3. ASSUME NEW p \in Tasks, Poll(p) PROVE NoLostWakeup'
    BY <2>3 DEF Poll
  <2>4. ASSUME NEW p \in Tasks,
               Snapshot(p) \/ ClosureOk(p) \/ ClosureErr(p) \/ Commit(p) \/ CancelRun(p)
        PROVE  NoLostWakeup'
    <3>1. /\ pc[p] \in {"snap", "run", "check"}
          /\ \E c \in {"run", "check", "drop"} : pc' = [pc EXCEPT ![p] = c]
          /\ UNCHANGED <<modifying, stored>>
      BY <2>4 DEF Snapshot, ClosureOk, ClosureErr, Commit, CancelRun, Leave
    <3>2. QED
      BY <3>1
  <2>5. ASSUME NEW p \in Tasks, Release(p) PROVE NoLostWakeup'
    BY <2>5 DEF Release
  <2>6. ASSUME NEW p \in Tasks, NotifyOne(p), pc[p] \in {"notify", "woken"},
               UNCHANGED modifying
        PROVE  NoLostWakeup'
    BY <2>6 DEF NotifyOne
  <2>7. ASSUME NEW p \in Tasks, CancelWait(p) PROVE NoLostWakeup'
    BY <2>6, <2>7 DEF CancelWait
  <2>8. QED
    BY <2>1, <2>2, <2>3, <2>4, <2>5, <2>6, <2>7
       DEF Next, Modifier, vars, EditDraft, Apply, Discard, Notify
<1>3. QED
  BY <1>1, <1>2, DraftType, PTL DEF Spec
=============================================================================
