SPECIFICATION Spec
CONSTANTS
  AiFilter = TRUE
  Sizes = {"under", "equal", "over"}
  Faults = {"copy", "launch", "origin"}
INVARIANTS IsolatedOnlyContainer
CHECK_DEADLOCK FALSE
