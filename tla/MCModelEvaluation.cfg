CONSTANTS
  Jobs <- MCJobs
  Targets = {"default", "upmem", "attacc"}
  TraceRows = 2
  SegmentLimit = 3
SPECIFICATION Spec
INVARIANTS ResidentFits EstimateExact TraceAgrees VerifiedFits CacheNeverCosts
PROPERTIES ImplementsReuse
CHECK_DEADLOCK FALSE
