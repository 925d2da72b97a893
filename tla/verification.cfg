CONSTANTS
  u1 = u1
  p1 = p1
  s1 = s1
  s2 = s2
  User <- OneUser
  Studio <- OneUser
  Phone <- OnePhone
  Session <- TwoSessions
  Business <- Numbers
  Operating <- Open
  MaxAttempts = 3
  CodeLife = 2
  CooldownLife = 1
  LockLife = 3
  Faults <- MayBeKilled
SPECIFICATION FairSpec
INVARIANTS
  TypeOK
  AttemptsBounded
PROPERTIES
  NoTypingErrors
  LockLifts
