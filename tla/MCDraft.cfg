\* Only the permit's holder has a snapshot, so three addresses suffice for no
\* allocation ever to block: the committed value, the draft and a stale
\* snapshot.  No symmetry: liveness is checked.
CONSTANTS
  Tasks = {t1, t2, t3}
  Editors = {t1}
  Addr = {a1, a2, a3}
  None = None
SPECIFICATION FairSpec
INVARIANTS PermitExclusion NoLostWakeup SameAddressSameValue
PROPERTIES ImplementsCell PermitIsTaken PermitIsReleased
