------------------------------- MODULE MCWorker -------------------------------
(* Instances of Worker for TLC. *)
EXTENDS Worker, TLC

CONSTANTS p1, a, b, c, d

\* One partition with two messages; some instances change their kinds.
OnePartition == {p1}
OneMessages == {a, b}
OnePartitionOf == a :> p1 @@ b :> p1
OneOffsetOf == a :> 0 @@ b :> 1
Readable2 == a :> "ok" @@ b :> "ok"
PoisonSecond == a :> "ok" @@ b :> "badLine"
NotJsonFirst == a :> "badJson" @@ b :> "ok"

\* Four messages; the first makes a line the scanner cannot hold.
FourMessages == {a, b, c, d}
FourPartitionOf == [m \in FourMessages |-> p1]
FourOffsetOf == a :> 0 @@ b :> 1 @@ c :> 2 @@ d :> 3
LongFirstPoisonLast == a :> "long" @@ b :> "ok" @@ c :> "ok" @@ d :> "badLine"

AllStatuses == {201, 429, 400}
TwoStatuses == {201, 400}

-----------------------------------------------------------------------------
(* A worker that has been running through an outage of Elasticsearch: states that are *)
(* reached from Init when the first batches, of one message each, are spooled and     *)
(* committed one after the other, and the replayer then gets some of them indexed.    *)

\* File n was written for the message with offset n - 1.  The files of `left' are still
\* there, those of `replayed' were replayed and removed.
Spooled(left, replayed) ==
  /\ LoopsAtStart
  /\ lastFile = Cardinality(left \cup replayed)
  /\ dir = left
  /\ content = [f \in Files |-> {m \in Messages : f <= lastFile /\ OffsetOf[m] = f - 1}]
  /\ committed = [p \in Partitions |-> lastFile] /\ position = committed
  /\ indexed = UNION {content[f] : f \in replayed}
  /\ dlq = {} /\ torn = {}

\* The file of the long message comes before the others: before the one that the
\* consumer has yet to write, or before two that are there.
RunningInit == Spooled({1}, {2}) \/ Spooled({1, 2, 3}, {})

RunningSpec == RunningInit /\ [][Next]_vars /\ Fairness
=============================================================================
