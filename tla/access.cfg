CONSTANTS
  e1 = e1
  k1 = k1
  s1 = s1
  s2 = s2
  Account <- TwoAccounts
  Address <- OneAddress
  Session <- TwoSessions
  Nonce <- OneNonce
  AccessLife = 1
  RefreshLife = 2
  ResetLife = 0
  BlacklistLife = 2
  UsedResetLife = 0
  Grace = 1
  LastTick = 3
  Suspended <- NobodySuspended
  Faults <- AllFaults
  Wired <- DeletionsWired
SPECIFICATION Spec
SYMMETRY Symmetric
CONSTRAINTS
  HashedTwice
  FewEntries
INVARIANTS
  TypeOK
  OneAccountPerEmail
PROPERTIES
  RevokedStaysRefused
  AnonymisedStays
CHECK_DEADLOCK FALSE
