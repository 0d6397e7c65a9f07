CONSTANTS
  Uids = {u1}
  Intervals = {1, 2}
  Choices <- OneKept
  Callers = {c1, c2}
  Boot = c1
  Keys = {k1, k2}
  None = None
  MaxEdits = 2
  Silent = FALSE
SPECIFICATION Spec
INVARIANTS FollowsProfiles
