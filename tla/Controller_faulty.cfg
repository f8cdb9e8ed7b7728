SPECIFICATION Spec
CONSTANTS
  Ids = {i1, i2}
  Hosts = {h1, h2}
  None = None
  MayStop = TRUE
  Faults = {"run", "rm"}
SYMMETRY Symmetry
INVARIANTS AllowlistExact RemovedOnce
PROPERTY PolicySpec
CHECK_DEADLOCK FALSE
