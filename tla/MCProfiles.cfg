CONSTANTS
  None = None
  m1 = m1
  m2 = m2
  m3 = m3
  e1 = e1
  e2 = e2
  e3 = e3
  Modes = {"constants", "switching"}
  Tasks = {t1, t2, t3}
  Mains <- Three
  CompanionOf <- CompanionOfThree
  Listed <- TwoListed
  Ops = {"import", "patch", "update", "reorder"}
  Failing = {"append", "reorder", "patch", "update"}
  MaxCalls = 4
  MaxRestarts = 2
SPECIFICATION ModeSpec
SYMMETRY TaskPerms
INVARIANTS CurrentListed FilesKept SwitchKept WhileFailing WhileSwitching
PROPERTY ReorderKeeps
CHECK_DEADLOCK FALSE
