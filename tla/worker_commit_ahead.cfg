CONSTANTS
  p1 = p1
  a = a
  b = b
  c = c
  d = d
  Partitions <- OnePartition
  Messages <- OneMessages
  PartitionOf <- OnePartitionOf
  OffsetOf <- OneOffsetOf
  Kind <- PoisonSecond
  Status <- AllStatuses
  BulkSize = 2
  RetryMax = 1
  MaxFiles = 1
  MaxRestarts = 1
  MaxRebalances = 0
SPECIFICATION Spec
INVARIANTS CommitSafe
