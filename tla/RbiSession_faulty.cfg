SPECIFICATION Spec
CONSTANTS
  Hosts = {h1, h2}
  Reqs = {r1, r2}
  Ports = {p1, p2}
  None = None
  MaxSeq = 2
  MaxLate = 1
  MaxViewers = 2
  Graces = {"instant", "delayed"}
  PortReuse = TRUE
  Faults = {"run", "inspect", "rm", "restart"}
SYMMETRY Symmetry
INVARIANTS DoomedNeverServed ArmedMeansEmpty
CHECK_DEADLOCK FALSE
