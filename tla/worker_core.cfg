CONSTANTS
  p1 = p1
  a = a
  b = b
  c = c
  d = d
  Partitions <- OnePartition
  Messages <- OneMessages
  PartitionOf <- OnePartitionOf
  OffsetOf <- OneOffsetOf
  Kind <- Readable2
  Status <- AllStatuses
  BulkSize = 2
  RetryMax = 1
  MaxFiles = 1
  MaxRestarts = 1
  MaxRebalances = 1
SPECIFICATION Spec
INVARIANTS TypeOK CommitSafe NothingForgotten EveryLossHasACause
PROPERTIES HandsOver
