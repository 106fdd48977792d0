CONSTANTS
  k1 = k1
  k2 = k2
  bad = bad
  NumWorkloads = 1
  MaxAttempts = 5
  BatchAttempts = 2
  NumWorkers = 2
  Keys <- MCKeys
  LegalKeys <- MCLegalKeys
  NoSample = none
  Seeds = {s1}
  Horizon = 5
  Streams <- MCStreams
  TraceCounts = {2}
  ResumeFlags = {TRUE, FALSE}
  None = None
  TornAppends = TRUE
  MaxRuns = 3
SPECIFICATION Spec
INVARIANTS TracesDistinct JournalConsistent
PROPERTIES ResumeNeverMovesBack ShortOnlyWhenSpent ImplementsSampling
SYMMETRY MCLegalSymmetry
CHECK_DEADLOCK FALSE
