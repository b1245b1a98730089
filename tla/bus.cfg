SPECIFICATION MCSpec
CONSTANTS
  Ids = {"a", "b", "x"}
  Malformed = {"x"}
  Partitions = {1, 2}
  PartitionOf <- Subjects
  FETCH_BATCH = 2
  QUEUE_CAPACITY = 1
  MaxLog = 3
  MaxFault = 2
  MaxLapse = 1
  MaxRenew = 1
CHECK_DEADLOCK FALSE
INVARIANT OnePlace
INVARIANT CloseSound
PROPERTY FirstInOrder
PROPERTY KeepsContract
PROPERTY EventuallySettled
