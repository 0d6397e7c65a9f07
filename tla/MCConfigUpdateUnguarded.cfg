\* No symmetry: liveness is checked.
CONSTANTS
  Modes = {"constants"}
  Tasks = {t1, t2}
  good1 = good1
  good2 = good2
  bad = bad
  Profiles <- TwoProfiles
  Accepted <- OneAccepted
  None = None
  Ops <- PassBy
  TimesOut = FALSE
SPECIFICATION FairModeSpec
PROPERTY SwitchEnds
CHECK_DEADLOCK FALSE
