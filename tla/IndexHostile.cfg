SPECIFICATION FairSpec
CONSTANTS
  File = {f1}
  Content = {c1}
  BadContent = {}
  Service = {s1}
  SemService = {s1}
  GenFile = {f1}
  Pattern = {p1, p2}
  Deps = {d1, d2}
  Embedder = {e1}
  Schema = {v1}
  HistoryCap = 1
  Allowed = {"midRunEdits", "patternEdits", "semWarnings", "depsEdits"}
  None = None
INVARIANT PublishedComplete
  
