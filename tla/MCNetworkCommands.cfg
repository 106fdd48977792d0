CONSTANTS
  LayerTable <- MCTable
  Outcome <- MCOutcome
  Area <- MCArea
  Rank <- MCRank
  MaxPoints = 3
  Bounds <- MCBounds
  Scripts <- MCScripts
  Networks <- MCNetworks
  Geometries <- MCGeometries
  Baseline = "narrow"
  DefaultRoot = "data"
SPECIFICATION Spec
INVARIANTS EveryLayerOnce NoneBetter LeastEdap SummaryReproduces ResolvedWhole
CHECK_DEADLOCK FALSE
