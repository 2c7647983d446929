SPECIFICATION FairSpec
CONSTANTS
  Services = 2
  PerService = 3
  Templ = {1, 2, 3, 4, 5}
  Inferred = {2}
  Workers = 2
INVARIANTS OwnResult InFileOrder OneSidecar
PROPERTIES PhaseEnds
CHECK_DEADLOCK FALSE
