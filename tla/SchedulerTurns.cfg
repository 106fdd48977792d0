CONSTANTS
  NumWorkloads = 4
  MaxAttempts = 11
  BatchAttempts = 2
  SeedIndices = {0, 2}
SPECIFICATION TurnsSpec
INVARIANTS TurnsBalanced RangesTile
