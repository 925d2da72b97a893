CONSTANTS
  c1 = c1
  c2 = c2
  c3 = c3
  s1 = s1
  s2 = s2
  s3 = s3
  d1 = d1
  d2 = d2
  d3 = d3
  Contract <- ThreeContracts
  Session <- OneSession
  Dispute <- ThreeDisputes
  ForeignKeys = FALSE
  Wired <- DisputesWired
SPECIFICATION ReportedSpec
CONSTRAINTS
  ClocksStill
  NoChat
INVARIANTS
  OnePenaltyPerDispute
  SuspendedForThree
CHECK_DEADLOCK FALSE
