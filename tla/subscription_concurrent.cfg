CONSTANTS
  u1 = u1
  r1 = r1
  r2 = r2
  w1 = w1
  w2 = w2
  o1 = o1
  o2 = o2
  o3 = o3
  User <- OneUser
  Client <- TwoClients
  Worker <- TwoClients
  Order <- TwoOrders
  LastMonth = 1
  Faults <- AllFaults
  Wired <- NothingWired
SPECIFICATION MemberSpec
SYMMETRY Symmetric
CONSTRAINTS
  FewFailures
INVARIANTS
  TypeOK
  CompletedIsCaptured
  RenewalRecordedOnce
PROPERTIES
  ServiceIsPaid
CHECK_DEADLOCK FALSE
