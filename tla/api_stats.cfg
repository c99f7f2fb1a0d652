CONSTANTS
  q = q
  r = r
  x = x
  Replayer = Replayer
  Requests <- TwoRequests
  Leftover <- OneLeftover
  FileBytes = 4
  MaxBytes = 10
  MaxWalkErrors = 1
SPECIFICATION FairSpec
INVARIANTS TypeOK RequestsAccounted BacklogAccounted SnapshotConsistent
PROPERTIES GaugeSettles
