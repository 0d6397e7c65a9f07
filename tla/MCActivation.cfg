CONSTANTS
  Outcomes = {"applied", "refused", "failed"}
  MaxEvents = 2
SPECIFICATION FairSpec
INVARIANTS NotModifiedIsCurrent
PROPERTIES TunDebounced RevokedIsNoticed UpToDate TunFollows
CHECK_DEADLOCK FALSE
