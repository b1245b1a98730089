\* Two writers of one shard (a stalled owner and its successor) with retries and
\* lost replies; the lease scripts over time; two callers marking one dedup key;
\* three processes of two members claiming three shards.
SPECIFICATION MCSpec
CONSTANTS
  Members = {m1, m2}
  IPs = {a}
  Free = Free
  TTLs = {1, 2, 3}
  SECOND = 2
  MAX_SEQUENCE_CAS_ATTEMPTS = 2
  MaxSeq = 2
  MaxNow = 6
  MaxCalls = 4
  MaxFault = 1
  Callers = {c1, c2}
  Durations = {2, 3}
  MaxTime = 7
  MaxMarks = 3
  Processes = {1, 2, 3}
  Nobody = Nobody
  Shards = {1, 2, 3}
  MemberOf <- MCMemberOf
  Assigned <- MCAssigned
  MaxMishaps = 1
CHECK_DEADLOCK FALSE
INVARIANT LeasesAccounted
PROPERTY KeepsContract
PROPERTY MarkSound
PROPERTY TwinsResolve
