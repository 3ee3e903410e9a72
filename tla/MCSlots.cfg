SPECIFICATION Spec
CONSTANTS
  NumPcbs = 3
  NumReqs = 2
  Clients = {c1, c2}
  Brokers = {b1}
  None = none
  Ports = {p1, p2}
  Pool = 3
  PcbMax = 2
  Requests <- MCRequests
SYMMETRY Symmetry
INVARIANTS
  TypeOK
  ServedOnceFromItsOwn
  LastingSlotsAreOwned
