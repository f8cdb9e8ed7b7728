SPECIFICATION Spec
CONSTANTS
  AiFilter = FALSE
  Sizes = {"under", "over"}
  Faults = {"launch", "origin"}
INVARIANTS OneResponse RefusedNotServed FlaggedTextWithheld
CHECK_DEADLOCK FALSE
