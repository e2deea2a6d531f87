SPECIFICATION ModelSpec
CONSTANTS
  VerifyBatch = 2
  AdjudicateBatch = 2
  LineSpan = 64
  Penalty <- DefaultPenalty
  Threshold <- DefaultThreshold
  Consensus = 70
  PathOf <- MCPathOf
  Rounds <- MCRounds
  PageSize = 3
  MaxAttempts = 3
  MaxPublish = 2
  MaxChain = 2
INVARIANTS PassesFailOpen ReportAddsUp PublishedAsPlanned PublicationIsTruthful RequestsBounded VerdictsAreFollowed OutcomeMatchesSamples
CHECK_DEADLOCK FALSE
