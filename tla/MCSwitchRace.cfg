CONSTANTS
  Modes = {"constants"}
  Tasks = {t1, t2}
  good1 = good1
  good2 = good2
  bad = bad
  Profiles <- MCProfiles
  Accepted <- MCAccepted
  None = None
  Ops <- SwitchOrUpdate
  TimesOut = FALSE
SPECIFICATION ModeSpec
INVARIANT RolledBack
CHECK_DEADLOCK FALSE
