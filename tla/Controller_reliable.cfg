SPECIFICATION FairSpec
CONSTANTS
  Ids = {i1, i2}
  Hosts = {h1, h2}
  None = None
  MayStop = FALSE
  Faults = {}
INVARIANT NoHalfUpSession
PROPERTY IdleReaped
CHECK_DEADLOCK FALSE
