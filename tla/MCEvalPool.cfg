CONSTANTS
  NumTasks = 5
  WorkerCounts <- MCWorkerCounts
  InFlightPerWorker = 2
  StallPolls = 2
  MaxRestarts = 2
SPECIFICATION FairSpec
INVARIANTS EachTaskOnce SubmissionOrder
PROPERTIES RowsKept Ends
CHECK_DEADLOCK FALSE
