SPECIFICATION Spec
CONSTANTS
  None = None
  Nobody = Nobody
  Instance = Instance
  Gone = Gone
  e1 = e1
  x1 = x1
  x2 = x2
  k1 = k1
  f1 = f1
  r1 = r1
  r2 = r2
  c1 = c1
  m1 = m1
  d1 = d1
  w1 = w1
  w2 = w2
PROPERTIES
  KeepsCollecting
  ProblemsAndDeliveriesSettle
