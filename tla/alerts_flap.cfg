SPECIFICATION Spec
CONSTANTS
  None = None
  k1 = k1
  k2 = k2
  e1 = e1
  Key = {k1}
  EnvOf <- MCEnvOfOne
  Env = {e1}
  Message = {a1, a2, a3}
  Dest = {d1}
  Collector = {c1}
  Worker = {}
  MaxAttempts = 2
  MaxWait = 1
  Backoff <- MCBackoff
  Batch = 1
  JobMax = 1
  Leaving = {}
  MaxCrashes = 0
  MaxDeaths = 0
  Cooldown = 2
PROPERTY CooldownBetweenFires
