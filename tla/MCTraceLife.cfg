CONSTANTS
  WorkloadChoices <- MCWorkloadChoices
  ArchChoices <- MCArchChoices
  LevelChoices <- MCLevelChoices
  OutputChoices <- MCOutputChoices
  MaxAttempts = 1
SPECIFICATION Spec
INVARIANTS ReadBack DrawsEverySchedule WeightsExact SearchSurvives
CHECK_DEADLOCK FALSE
