CONSTANTS
  NumWorkloads = 2
  Fronts <- MCFronts
  Layers <- MCLayers
  BatchSize = 4
  MaxPoints = 3
  Bounds <- MCBounds
SPECIFICATION Spec
INVARIANTS SweepExact FrontierExact LossBounded
CHECK_DEADLOCK FALSE
