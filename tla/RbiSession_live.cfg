SPECIFICATION FairSpec
CONSTANTS
  Hosts = {h1}
  Reqs = {r1, r2}
  Ports = {p1}
  None = None
  MaxSeq = 2
  MaxLate = 1
  MaxViewers = 2
  Graces = {"delayed"}
  PortReuse = TRUE
  Faults = {}
PROPERTIES LaunchReturns NothingLingers
CHECK_DEADLOCK FALSE
