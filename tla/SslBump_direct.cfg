SPECIFICATION Spec
CONSTANTS
  Conns = {c1, c2}
  n1 = n1
  n2 = n2
  a1 = a1
  a2 = a2
  Names = {n1, n2}
  Addrs = {a1, a2}
  Trusted <- SharedAddress
  None = None
  Faults = {}
INVARIANT IsolatedNeverDirect
CHECK_DEADLOCK FALSE
