SPECIFICATION Spec
CONSTANTS
  Handlers = {h1, h2}
  Calls <- MCCalls
  Currencies = {"IDR", "USD"}
  Opening = 4
  Stated = {3}
  MaxCalls = 5
  MaxChanges = 1
SYMMETRY MCSymmetry
INVARIANTS
  PositionIsExplained
  ForksOnlyWhenCallsOverlap
PROPERTY RefusalsAreDue
CHECK_DEADLOCK FALSE
