CONSTANTS
  Modes = {"constants", "timed"}
  Tasks = {t1, t2, t3}
  good1 = good1
  good2 = good2
  bad = bad
  Profiles <- MCProfiles
  Accepted <- MCAccepted
  None = None
  Ops <- Guard
  TimesOut = FALSE
SPECIFICATION ModeSpec
SYMMETRY TaskPerms
INVARIANTS OneUpdate UntimedRuntime CoreRunsValidated SwitchedMeansRunning
CHECK_DEADLOCK FALSE
