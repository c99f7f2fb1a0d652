CONSTANTS
  p1 = p1
  a = a
  b = b
  c = c
  d = d
  Partitions <- OnePartition
  Messages <- OneMessages
  PartitionOf <- OnePartitionOf
  OffsetOf <- OneOffsetOf
  Kind <- NotJsonFirst
  Status <- TwoStatuses
  BulkSize = 1
  RetryMax = 1
  MaxFiles = 1
  MaxRestarts = 0
  MaxRebalances = 0
SPECIFICATION Spec
INVARIANTS PoisonDeadLettered
