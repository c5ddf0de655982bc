SPECIFICATION NotifySpec
CONSTANTS
  None = None
  MaxAttempts = 3
  MaxWait = 2
  Backoff <- MCBackoff
  Message = {m1}
  Dest = {d1}
  Env = {e1, e2}
  Worker = {w1}
  Batch = 1
  JobMax = 1
  Leaving = {e1}
  MaxCrashes = 0
INVARIANT OwnAccountOnly
