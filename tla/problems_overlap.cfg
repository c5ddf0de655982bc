SPECIFICATION Spec
CONSTANTS
  k1 = k1
  f1 = f1
  None = None
  Gone = Gone
  Key = {k1}
  Family = {f1}
  FamilyOf <- MCFamilyOfOne
  Shared = {k1}
  Id = {p1, p2}
  Collector = {c1, c2}
  ClearEvaluations = 1
  ClearMin = 0
  ReopenWindow = 0
  Retention = 1
  StaleAfter = 0
  ReadMax = 1
SYMMETRY Collectors
INVARIANT OneLivePerKey
