SPECIFICATION Spec
CONSTANTS
  p1 = p1
  p2 = p2
  env = env
  Process = {p1, p2}
  Nobody = Nobody
  Instance = Instance
  Env = {env}
  NJobs = 2
  Every <- MCEvery
  EnvOf <- MCEnvOf
  StaleAfter = 1
  JobMax = 1
SYMMETRY Symmetry
INVARIANTS OneCollects RunningMeansRunning
PROPERTIES ImplementsSingleCollector NoResurrection
