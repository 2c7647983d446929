SPECIFICATION PageSpec
CONSTANTS
  Kind = {index}
  IndexKind = index
  Job = {j1, j2}
  Total = 0
  ChanCap = 1
  MaxClicks = 1
  None = None
PROPERTIES  SlotFreed
CHECK_DEADLOCK FALSE
