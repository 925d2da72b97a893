CONSTANTS
  j1 = j1
  j2 = j2
  i1 = i1
  i2 = i2
  v1 = v1
  f1 = f1
  f2 = f2
  s1 = s1
  s2 = s2
  Post <- TwoPosts
  Instructor <- OneInstructor
  Viewer <- OneViewer
  Offer <- TwoOffers
  Session <- OneSession
  Premium <- NobodyPremium
  Limit = 1
  LastDay = 1
  Faults <- MayBeKilled
  Profile <- Filled
SPECIFICATION Spec
SYMMETRY Symmetric
INVARIANTS
  UsageAccounts
  TrackedAgrees
PROPERTIES
  CountFollows
  RecruitmentSpec
CHECK_DEADLOCK FALSE
