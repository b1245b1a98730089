SPECIFICATION Spec
CONSTANTS
  a = a
  None = None
  Inst = {p, q}
  IPs = {a}
  MaxOffset = 2
  IpOf <- OneIp
  Malformed = {2}
  Faults = {"crash", "store", "publish", "ack"}
  InOrder = TRUE
  MaxSeq = 2
  MaxVersion = 2
  MaxQueue = 2
SYMMETRY Restarts
INVARIANT FreshEventId
INVARIANT OneOwner
INVARIANT LeakOnlyByLostRemoval
INVARIANT HotSetCurrent
INVARIANT AckedMeansSettled
