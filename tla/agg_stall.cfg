SPECIFICATION Spec
CONSTANTS
  a = a
  None = None
  Inst = {p, q}
  IPs = {a}
  MaxOffset = 1
  IpOf <- OneIp
  Malformed = {}
  Faults = {"stall"}
  InOrder = TRUE
  MaxSeq = 2
  MaxVersion = 1
  MaxQueue = 2
SYMMETRY Restarts
INVARIANT PersistBeforePublish
PROPERTY NoDoubleApply
