SPECIFICATION NotifySpec
CONSTANTS
  None = None
  MaxAttempts = 3
  MaxWait = 2
  Backoff <- MCBackoff
  Message = {m1}
  Dest = {d1, d2}
  Env = {e1, e2}
  Worker = {w1}
  Batch = 2
  JobMax = 2
  Leaving = {e1}
  MaxCrashes = 1
SYMMETRY Symmetric
INVARIANTS BoundedRequests AccountsApart
PROPERTY SettledStays
