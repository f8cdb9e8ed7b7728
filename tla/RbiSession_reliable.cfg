SPECIFICATION Spec
CONSTANTS
  Hosts = {h1, h2}
  Reqs = {r1, r2}
  Ports = {p1, p2}
  None = None
  MaxSeq = 2
  MaxLate = 1
  MaxViewers = 2
  Graces = {"instant", "delayed"}
  PortReuse = FALSE
  Faults = {}
SYMMETRY Symmetry
INVARIANTS NoOrphan OneContainerPerHost
PROPERTY WatchedNeverReaped
CHECK_DEADLOCK FALSE
