SPECIFICATION Spec
CONSTANTS
  l1 = l1
  l2 = l2
  a1 = a1
  g1 = g1
  g2 = g2
  b1 = b1
  b2 = b2
  s1 = s1
  s2 = s2
  p1 = p1
  p2 = p2
  v1 = v1
  c1 = c1
  Line = {l1, l2}
  Account = {a1}
  AccountOf <- MCAccountOf
  Fingerprint = {g1, g2}
  FingerprintOf <- MCFingerprintOf
  Drained = 1
  KeepFor = 0
  MaxStores = 2
  MaxFalls = 1
  ScanAccount = {b1, b2}
  Source = {s1, s2}
  SourceOf <- MCSourceOf
  NoSource = NoSource
  Cap = 2
  ScanMax = 2
  PollAttempts = 2
  MaxLost = 1
  Problem = {p1, p2}
  Service = {v1}
  ServiceOf <- MCServiceOf
  Incident = {i1, i2}
  NoIncident = NoIncident
  IncidentWindow = 1
  Sustained = 1
  FreshSubject = 2
  Suppression = 1
  MaxGaps = 1
  Summed = {v1}
  Hour = 2
  Week = 5
  MaxStops = 1
  Group = {g1}
  RegressionGap = 2
  SilentAfter = 3
  LateMax = 1
  DetectLimit = 1
  Check = {c1, c2}
  NoCheck = NoCheck
  History = 2
  FailuresToDown = 2
  ClearsToResolve = 1
  MaxDeaths = 1
  Objective = {o1}
  Allowance = {1, 10}
  FastWindow = 3
  SlowWindow = 5
INVARIANTS
  TypeOK
  QueueAccounts
  MeasuresAreTrue
  OneOpenPerService
  OnceAWeek
PROPERTIES
  OldestFirst
  DismissalHolds
  TogetherIsCovered
  VerdictsHaveGrounds
  JobsCatchUp
CHECK_DEADLOCK FALSE
