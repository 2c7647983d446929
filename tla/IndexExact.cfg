SPECIFICATION Spec
CONSTANTS
  File = {f1, f2}
  Content = {c1, c2}
  BadContent = {c2}
  Service = {s1, s2}
  SemService = {s1}
  GenFile = {}
  Pattern = {p1}
  Deps = {d1}
  Embedder = {e1}
  Schema = {v1, v2}
  HistoryCap = 1
  Allowed = {"configEdits", "upgrades", "noEmbed", "openFailures", "embedFailures"}
  None = None
SYMMETRY Symmetry
INVARIANTS  CachesMatchFingerprint 
