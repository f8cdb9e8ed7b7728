SPECIFICATION Spec
CONSTANTS
  Hosts = {h1}
  Reqs = {r1}
  Ports = {p1}
  None = None
  MaxSeq = 1
  MaxLate = 1
  MaxViewers = 2
  Graces = {"delayed"}
  PortReuse = FALSE
  Faults = {}
PROPERTY StoppedTimerNeverKills
CHECK_DEADLOCK FALSE
