CONSTANTS
  j1 = j1
  j2 = j2
  i1 = i1
  i2 = i2
  v1 = v1
  f1 = f1
  f2 = f2
  s1 = s1
  s2 = s2
  Post <- OnePost
  Instructor <- TwoInstructors
  Viewer <- NoViewer
  Offer <- TwoOffers
  Session <- TwoSessions
  Premium <- OnePremium
  Limit = 1
  LastDay = 0
  Faults <- MayBeKilled
  Profile <- Filled
SPECIFICATION Spec
SYMMETRY Symmetric
INVARIANTS
  TypeOK
  OneOfferPerApplication
  OneContractPerOffer
  CountIsEarned
PROPERTIES
  NeverAgain
CHECK_DEADLOCK FALSE
