SPECIFICATION Spec
CONSTANTS
  Kind = {index, eval, reconcile}
  IndexKind = index
  Job = {j1, j2}
  Total = 1
  ChanCap = 1
  None = None
SYMMETRY Symmetry
INVARIANTS SingleFlight CancelHitsItsJob ProfilerHeldByWorker OrphanRowExplained
PROPERTY RowsOnlyAdvance
