CONSTANTS
  Modes = {"constants"}
  Tasks = {t1}
  good1 = good1
  good2 = good2
  bad = bad
  Profiles <- MCProfiles
  Accepted <- MCAccepted
  None = None
  Ops <- Switch
  TimesOut = FALSE
SPECIFICATION ModeSpec
INVARIANT RestartPossible
CHECK_DEADLOCK FALSE
