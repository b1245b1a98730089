SPECIFICATION MCSpec
CONSTANTS
  IPs = {a, b, c}
  Configs <- TwoInstances
  Deltas = {0, 1, 2}
  max_tracked_ips = 2
  MaxNow = 6
  FullNow = 2
  MaxSkip = 2
  MaxBucket = 2
CHECK_DEADLOCK FALSE
SYMMETRY Symmetry
INVARIANT RingExact
INVARIANT HeapsSound
INVARIANT NoStaleHot
PROPERTY MaintenanceExact
PROPERTY EvictionSafe
