CONSTANTS
  Scripts <- MCScripts
  Outcome <- MCOutcome
  BaselineGeometry <- MCBaseline
  Scale = 12
SPECIFICATION Spec
INVARIANTS TableAsFresh FrontsOwn WinnersBest LinesHold SummaryVouches
CHECK_DEADLOCK FALSE
