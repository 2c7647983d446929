SPECIFICATION Spec
CONSTANTS
  Member = {home, away}
  Home = home
  Boot = boot
  Post = {p1}
  MaxVersion = 2
  BusCap = 2
  ClientCap = 1
  Happens = {"fleet", "overlap", "failure", "cancel", "reindex", "lateclient"}
  None = None
INVARIANTS SyncFlagCleared
CHECK_DEADLOCK FALSE
