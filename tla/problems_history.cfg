SPECIFICATION Spec
CONSTANTS
  k1 = k1
  f1 = f1
  None = None
  Gone = Gone
  Key = {k1}
  Family = {f1}
  FamilyOf <- MCFamilyOfOne
  Shared = {}
  Id = {p1, p2, p3}
  Collector = {c1}
  ClearEvaluations = 3
  ClearMin = 1
  ReopenWindow = 2
  Retention = 4
  StaleAfter = 3
  ReadMax = 1
SYMMETRY Ids
INVARIANT HistoryIsLinear
INVARIANT StaleIsHonest
PROPERTY ResolvedOnEvidence
PROPERTY FlapContinues
