SPECIFICATION Spec
CONSTANTS
  None = None
  k1 = k1
  k2 = k2
  e1 = e1
  Key = {k1}
  EnvOf <- MCEnvOfOne
  Env = {e1}
  Message = {a1, a2}
  Dest = {d1}
  Collector = {c1, c2}
  Worker = {w1}
  MaxAttempts = 2
  MaxWait = 1
  Backoff <- MCBackoff
  Batch = 1
  JobMax = 1
  Leaving = {e1}
  MaxCrashes = 1
  MaxDeaths = 0
  Cooldown = 0
SYMMETRY RowsAndCollectors
INVARIANT OneOpenPerKey
PROPERTY NotifySpec
