CONSTANTS
  k1 = k1
  k2 = k2
  bad = bad
  NumWorkloads = 2
  MaxAttempts = 5
  BatchAttempts = 2
  Keys <- MCKeys
  LegalKeys <- MCLegalKeys
  NoSample = none
  Seeds = {s1}
  Horizon = 3
  Streams <- MCStreams
  TraceCounts = {3}
  ResumeFlags = {TRUE}
  None = None
  TornAppends = TRUE
  MaxRuns = 2
SPECIFICATION FairSpec
PROPERTIES Terminates ImplementsSampling
CHECK_DEADLOCK FALSE
