SPECIFICATION FairSpec
CONSTANTS
  Api = {a1, a2}
  Cli = {c1}
  Wrapped = {w1}
  Ingests = {i1}
  Exports = {e1}
  Stops = 2
  Crashes = 1
  Errors = 1
  Overlap = FALSE
INVARIANTS AckedIsKept FinalCounts LiveIsKnown
 
CHECK_DEADLOCK FALSE
