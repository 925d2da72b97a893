CONSTANTS
  c1 = c1
  c2 = c2
  c3 = c3
  s1 = s1
  s2 = s2
  s3 = s3
  d1 = d1
  d2 = d2
  d3 = d3
  Contract <- OneContract
  Session <- TwoSessions
  Dispute <- OneDispute
  ForeignKeys = FALSE
  Wired <- AllWired
SPECIFICATION Spec
SYMMETRY Symmetric
CONSTRAINTS
  NoChat
INVARIANTS
  TypeOK
  SignedBeforeWork
  CompletionIsEarned
  DisputedHasDispute
  CancelledHasReason
PROPERTIES
  EvidenceKept
CHECK_DEADLOCK FALSE
