SPECIFICATION FairSpec
CONSTANTS
  a = a
  b = b
  IPs = {a, b}
  PrefixesOf <- Reported
  Arrivals <- Records3
  TimeOf <- Times
  MaxLog = 3
  MaxTrim = 1
  MaxCrash = 1
  MaxFail = 1
INVARIANT TrieIsLog
INVARIANT ReadyMeansReplayed
INVARIANT SameIdSameCount
INVARIANT ResumeSafe
INVARIANT StatsCurrent
PROPERTY Converges
