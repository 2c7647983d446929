SPECIFICATION FairSpec
CONSTANTS
  Procs = {p1, p2, p3}
  Services = {s1}
  Fleets = {f1}
  None = None
  LockWait = 4
  StaleAfter = 6
  MaxHold = 1
  Prompt = TRUE
  Updates = 3
  Crashes = 1
  IOErrors = 1
  OldLocks = FALSE
INVARIANTS ExclusiveUntilKill
PROPERTIES SerialUpdates UpdateEnds
CHECK_DEADLOCK FALSE
