CONSTANTS
  i1 = i1
  st1 = st1
  c1 = c1
  c2 = c2
  s1 = s1
  User <- Both
  Role <- Roles
  Contract <- TwoContracts
  Between <- Parties
  Past <- Before
  Rating <- WorstAndBest
  Author <- TheStudio
  Refresher <- TheInstructor
  Editor <- TheInstructor
  Field <- SomeFields
  MaxCertificates = 0
  MaxNoShows = 1
  Day = 30
  MaxAge = 30
  Session <- OneSession
  Faults <- MayBeKilled
SPECIFICATION Spec
PROPERTIES
  CountRecovers
  NeverFallsUnearned
