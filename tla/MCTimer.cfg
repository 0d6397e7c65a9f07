\* Every entry, however stale, needs a key: u1 has at most one and u2, taken
\* off the timer while its update runs, two.
CONSTANTS
  Uids = {u1, u2}
  Intervals = {1, 2}
  Choices <- OneKept
  Callers = {c1}
  Boot = c1
  Keys = {k1, k2, k3}
  None = None
  MaxEdits = 2
  Silent = TRUE
SPECIFICATION FairSpec
INVARIANTS KeysLive NeverForgotten OnePending InStep
PROPERTY IsUpdated
\* With the edits used up, a scheduler that has nothing to do is at rest: it
\* is IsUpdated that says what must go on.
CHECK_DEADLOCK FALSE
