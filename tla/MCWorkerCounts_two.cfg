CONSTANTS
  k1 = k1
  k2 = k2
  bad = bad
  NumWorkloads = 2
  MaxAttempts = 4
  BatchAttempts = 1
  NumWorkers = 2
  Keys <- MCKeys
  LegalKeys <- MCLegalKeys
  NoSample = none
  Seeds = {s1}
  Horizon = 3
  Streams <- MCStreams
  TraceCounts = {2}
  None = None
SPECIFICATION Spec
CHECK_DEADLOCK FALSE
INVARIANT SameTraces
