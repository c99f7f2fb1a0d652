CONSTANTS
  p1 = p1
  a = a
  b = b
  c = c
  d = d
  Partitions <- OnePartition
  Messages <- FourMessages
  PartitionOf <- FourPartitionOf
  OffsetOf <- FourOffsetOf
  Kind <- LongFirstPoisonLast
  Status <- TwoStatuses
  BulkSize = 1
  RetryMax = 1
  MaxFiles = 3
  MaxRestarts = 0
  MaxRebalances = 0
SPECIFICATION RunningSpec
INVARIANTS NothingForgotten EveryLossHasACause
PROPERTIES FlushEnds FlushAdvances ShutdownEnds PassAdvances ReplayDrains
