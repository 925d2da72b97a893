CONSTANTS
  u1 = u1
  r1 = r1
  r2 = r2
  w1 = w1
  w2 = w2
  o1 = o1
  o2 = o2
  o3 = o3
  User <- OneUser
  Client <- OneSession
  Worker <- OneSession
  Order <- TwoOrders
  LastMonth = 2
  Faults <- NoFaults
  Wired <- BankWired
SPECIFICATION MemberSpec
SYMMETRY Symmetric
INVARIANTS
  
  HistoryTellsTier
PROPERTIES
  MembershipSpec
CHECK_DEADLOCK FALSE
