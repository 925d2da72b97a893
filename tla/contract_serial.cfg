CONSTANTS
  c1 = c1
  c2 = c2
  c3 = c3
  s1 = s1
  s2 = s2
  s3 = s3
  d1 = d1
  d2 = d2
  d3 = d3
  Contract <- TwoContracts
  Session <- OneSession
  Dispute <- OneDispute
  ForeignKeys = FALSE
  Wired <- StatusWired
SPECIFICATION Spec
SYMMETRY Symmetric
INVARIANTS
  TransitionsLogged
PROPERTIES
  LifecycleSpec
CHECK_DEADLOCK FALSE
