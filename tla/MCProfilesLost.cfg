CONSTANTS
  None = None
  m1 = m1
  m2 = m2
  m3 = m3
  e1 = e1
  e2 = e2
  e3 = e3
  Modes = {"constants"}
  Tasks = {t1, t2}
  Mains <- Two
  CompanionOf <- CompanionOfTwo
  Listed <- OneListed
  Ops = {"import", "switch"}
  Failing = {}
  MaxCalls = 2
  MaxRestarts = 0
SPECIFICATION ModeSpec
SYMMETRY TaskPerms
INVARIANT Kept
CHECK_DEADLOCK FALSE
