SPECIFICATION FairSpec
CONSTANTS
  Indexers = {p1}
  Calls = {c1}
  Runs = 2
  Clean = {1}
  Failures = 1
  BadReloads = 1
  MaxCalls = 1
  Alone = TRUE
INVARIANTS WholeGraphs LedgerNotOlder
PROPERTIES NeverOlder 
CHECK_DEADLOCK FALSE
