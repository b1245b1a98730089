SPECIFICATION Spec
CONSTANTS
  a = a
  None = None
  Inst = {p, q}
  IPs = {a}
  MaxOffset = 2
  IpOf <- OneIp
  Malformed = {}
  Faults = {"crash"}
  InOrder = FALSE
  MaxSeq = 1
  MaxVersion = 1
  MaxQueue = 2
SYMMETRY Restarts
INVARIANT AckedMeansSettled
