CONSTANTS
  seoul = seoul
  gangnam = gangnam
  mat = mat
  reformer = reformer
  p1 = p1
  p2 = p2
  Word <- Words
  Similar <- Contained
  Regions <- RegionWords
  Certificates <- CertificateWords
  Years <- SomeYears
  Rates <- SomeRates
  Posts <- SomePosts
  PostId <- TwoPosts
  Least = 60
  Schedules <- SomeSchedules
  LastDay = 9
SPECIFICATION Spec
INVARIANTS
  FullScoreIsDeserved
  NextIsTheFirst
PROPERTIES
  BetterNeverHurts
CHECK_DEADLOCK FALSE
