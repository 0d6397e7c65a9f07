------------------------------ MODULE DraftCell ------------------------------
(***************************************************************************)
(* What clash_verge_draft::Draft promises to its callers: a committed      *)
(* value and at most one draft, each changed in one indivisible step.  A   *)
(* value is abstracted to the set of the edits it contains.                *)
(***************************************************************************)
CONSTANTS Tasks, None

VARIABLES value, pending

cellVars == <<value, pending>>

Base == IF pending = None THEN value ELSE pending

Init == value = {} /\ pending = None

(* A synchronous edit starts from the draft when there is one. *)
Edit(e) == pending' = Base \cup {e} /\ UNCHANGED value

Apply == pending # None /\ value' = pending /\ pending' = None

Discard == pending' = None /\ UNCHANGED value

(* An asynchronous modification is a read-modify-write of the committed    *)
(* value: nothing is committed between its read and its write.             *)
Modify(e) == value' = value \cup {e} /\ UNCHANGED pending

Next == Apply \/ Discard \/ \E e \in Tasks : Edit(e) \/ Modify(e)

Spec == Init /\ [][Next]_cellVars
=============================================================================
