CONSTANTS
  u1 = u1
  r1 = r1
  r2 = r2
  w1 = w1
  w2 = w2
  o1 = o1
  o2 = o2
  o3 = o3
  User <- OneUser
  Client <- OneClient
  Worker <- TwoWorkers
  Order <- ThreeOrders
  LastMonth = 1
  Faults <- NoFaults
  Wired <- NothingWired
SPECIFICATION Spec
INVARIANTS
  RenewedOnce
CHECK_DEADLOCK FALSE
