SPECIFICATION Spec
CONSTANTS
  None = None
  k1 = k1
  k2 = k2
  e1 = e1
  Key = {k1, k2}
  EnvOf <- MCEnvOf
  Env = {e1}
  Message = {a1, a2}
  Dest = {d1, d2}
  Collector = {c1}
  Worker = {}
  MaxAttempts = 2
  MaxWait = 1
  Backoff <- MCBackoff
  Batch = 1
  JobMax = 1
  Leaving = {e1}
  MaxCrashes = 0
  MaxDeaths = 1
  Cooldown = 1
SYMMETRY Alike
INVARIANT FireIsQueued
PROPERTIES CycleSettles AckIsSilent
