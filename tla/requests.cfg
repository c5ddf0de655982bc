SPECIFICATION Spec
CONSTANTS
  a1 = a1
  a2 = a2
  a3 = a3
  c1 = c1
  c2 = c2
  h1 = h1
  e1 = e1
  Attempt = {a1, a2, a3}
  Client = {c1, c2}
  ClientOf <- MCClientOf
  Limit = 2
  Window = 2
  Threshold = 0
  MinInterval = 2
  MaxWaiting = 1
  MaxKeys = 1
  FailCap = 1
  Token = {t1, t2}
  Audience = {"web", "api"}
  Rolling <- MCRolling
  Ceiling <- MCCeiling
  Setup = {r1, r2}
  Longest = 3
  CacheKey = {k1, k2}
  Load = {f1, f2, f3}
  NoLoad = NoLoad
  Ttl = 2
  MaxEntries = 1
  SearchTimeout = 3
  Interval = 1
  PollMax = 2
  Group = {g1}
  Forwarder = {w1, w2}
  NoForwarder = NoForwarder
  Request = {q1, q2}
  NoAnswer = NoAnswer
  Host = {h1}
  Machine = {m1, m2}
  NoMachine = NoMachine
  Place = {e1, e2}
  NoPlace = NoPlace
  Name = {n1, n2}
  StaleAfter = 0
  Covered = {"stopped_reporting", "disk_full"}
  Connection = {k3}
  Caller = {r3, r4}
  NoCredential = NoCredential
  MaxVersion = 2
  Lifetime = 2
  RefreshWindow = 1
INVARIANTS
  SignInIsHeld
  SessionsHold
  CachesHold
  SearchIsReined
  RowsAgreeWithCloud
PROPERTIES
  TurnsAndPlacesHold
  RequestsComeToAnEnd
CHECK_DEADLOCK FALSE
