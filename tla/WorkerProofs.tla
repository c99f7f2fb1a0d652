----------------------------- MODULE WorkerProofs -----------------------------
(***************************************************************************)
(* Proofs about the worker for every set of partitions and messages, every *)
(* batch size, number of retries, files, restarts and rebalances.          *)
(***************************************************************************)
EXTENDS Worker, FiniteSetTheorems, TLAPS

USE WorkerAssumption DEF WorkerAssumption

-----------------------------------------------------------------------------
(* The bulk request. *)

\* Whatever Elasticsearch does, a result only speaks of the events of the
\* request; without an error each of them is indexed, retryable or permanent,
\* and with one no event is a permanent failure.
LEMMA BulkResultFacts ==
  ASSUME NEW E, NEW r \in BulkResults(E)
  PROVE  /\ r.indexed \subseteq E /\ r.retryable \subseteq E /\ r.permanent \subseteq E
         /\ r.err => r.permanent = {} /\ (r.retryable = {} \/ r.retryable = E)
         /\ ~r.err => E \subseteq r.indexed \cup r.retryable \cup r.permanent
<1>1. CASE r \in ES!Failed(E)
  BY <1>1 DEF ES!Failed, ES!Result
<1>2. CASE r \in ES!Refused(E)
  BY <1>2 DEF ES!Refused, ES!Result
<1>3. CASE r \in ES!Answered(E)
  <2>1. PICK s \in [E -> Status] :
          r = ES!Result(FALSE, {e \in E : ES!IsIndexed(s[e])},
                               {e \in E : ES!IsRetryable(s[e])},
                               {e \in E : ES!IsPermanent(s[e])})
    BY <1>3 DEF ES!Answered
  <2>2. /\ r.err = FALSE
        /\ r.indexed = {e \in E : ES!IsIndexed(s[e])}
        /\ r.retryable = {e \in E : ES!IsRetryable(s[e])}
        /\ r.permanent = {e \in E : ES!IsPermanent(s[e])}
    BY <2>1 DEF ES!Result
  <2>3. \A e \in E : ES!IsIndexed(s[e]) \/ ES!IsRetryable(s[e]) \/ ES!IsPermanent(s[e])
    BY DEF ES!IsPermanent
  <2>4. QED
    BY <2>2, <2>3
<1>4. QED
  BY <1>1, <1>2, <1>3 DEF BulkResults, ES!BulkIndex

\* What an attempt leaves to be done, and what it has done, is all it was given.
LEMMA AttemptCovers ==
  ASSUME NEW r \in BulkResults(pending)
  PROVE  /\ Left(r) \subseteq pending
         /\ pending \subseteq Left(r) \cup r.indexed \cup r.permanent
<1>1. /\ r.indexed \subseteq pending /\ r.retryable \subseteq pending
      /\ r.err => r.permanent = {} /\ (r.retryable = {} \/ r.retryable = pending)
      /\ ~r.err => pending \subseteq r.indexed \cup r.retryable \cup r.permanent
  BY BulkResultFacts
<1>2. CASE r.retryable # {}
  BY <1>1, <1>2 DEF Left
<1>3. CASE r.retryable = {}
  BY <1>1, <1>3 DEF Left
<1>4. QED
  BY <1>2, <1>3

-----------------------------------------------------------------------------
(* Types. *)

LEMMA DecodableIsMessage == Decodable \subseteq Messages
  BY DEF Decodable

LEMMA CommitType ==
  ASSUME TypeOK, NEW S \in SUBSET Messages, CommitMessages(S)
  PROVE  committed' \in [Partitions -> Nat]
<1>1. PICK newest \in [{PartitionOf[m] : m \in S} -> S] :
        committed' = [p \in Partitions |->
                       IF p \in DOMAIN newest THEN OffsetOf[newest[p]] + 1
                                              ELSE committed[p]]
  BY DEF CommitMessages
<1>2. \A p \in DOMAIN newest : OffsetOf[newest[p]] \in Nat
  OBVIOUS
<1>3. QED
  BY <1>1, <1>2 DEF TypeOK

\* attempt stays in range because a back-off only follows an attempt that was
\* not the last one.
BackoffInv == pc = "backoff" => attempt # RetryMax

TypeInv == TypeOK /\ BackoffInv

LEMMA TypeInit == Init => TypeInv
<1> SUFFICES ASSUME Init PROVE TypeInv
  OBVIOUS
<1>1. ctxDone \in BOOLEAN /\ tick \in BOOLEAN
  BY Zenon DEF Init, LoopsAtStart
<1>2. QED
  BY <1>1 DEF Init, LoopsAtStart, TypeInv, TypeOK, BackoffInv, Files, ConsumerPcs, ReplayPcs, FlushPcs

LEMMA FlushType ==
  ASSUME TypeInv, Flush PROVE TypeInv'
<1> USE DEF TypeInv, TypeOK, BackoffInv, FlushFails, AfterAttempt, replayVars, envVars,
            kafkaVars, diskVars, ConsumerPcs, FlushPcs
<1>1. CASE BulkIndex
  <2>1. PICK r \in BulkResults(pending) :
          /\ indexed' = indexed \cup r.indexed
          /\ pending' = Left(r)
          /\ permanent' = r.permanent
          /\ IF r.permanent # {} THEN pc' = "permanent" ELSE AfterAttempt(Left(r))
    BY <1>1 DEF BulkIndex
  <2>2. r.indexed \subseteq pending /\ r.permanent \subseteq pending /\ Left(r) \subseteq pending
    BY BulkResultFacts, AttemptCovers
  <2>3. QED
    BY <1>1, <2>1, <2>2 DEF BulkIndex
<1>2. CASE SendPermanentFailures
  BY <1>2, DecodableIsMessage DEF SendPermanentFailures
<1>3. CASE SendPermanentFailuresFails
  BY <1>3, DecodableIsMessage DEF SendPermanentFailuresFails
<1>4. CASE BackoffElapses
  BY <1>4 DEF BackoffElapses
<1>5. CASE BackoffCancelled
  BY <1>5 DEF BackoffCancelled
<1>6. CASE WriteReplayOpen
  BY <1>6 DEF WriteReplayOpen, Files
<1>7. ASSUME NEW m \in pending, WriteReplayEvent(m) PROVE TypeInv'
  <2>1. content' \in [Files -> SUBSET Decodable]
    <3>1. content[fd] \cup {m} \in SUBSET Decodable \/ fd \notin Files
      OBVIOUS
    <3>2. content' = [content EXCEPT ![fd] = content[fd] \cup {m}]
      BY <1>7 DEF WriteReplayEvent
    <3>3. QED
      BY <3>1, <3>2
  <2>2. /\ pc' \in {"write", "commit"} /\ fd' \in Files \cup {0}
        /\ pending' \subseteq Decodable
    BY <1>7 DEF WriteReplayEvent
  <2>3. UNCHANGED <<resume, batch, queued, permanent, attempt, cur, replayVars, envVars,
                    kafkaVars, indexed, dlq, dir, lastFile, torn>>
    BY <1>7 DEF WriteReplayEvent
  <2>4. QED
    BY <2>1, <2>2, <2>3
<1>8. CASE WriteReplayFails
  BY <1>8 DEF WriteReplayFails
<1>9. CASE CommitBatch
  BY <1>9, CommitType, DecodableIsMessage DEF CommitBatch
<1>10. CASE CommitBatchFails
  BY <1>10, CommitType, DecodableIsMessage DEF CommitBatchFails
<1>11. QED
  BY <1>1, <1>2, <1>3, <1>4, <1>5, <1>6, <1>7, <1>8, <1>9, <1>10 DEF Flush

LEMMA ConsumeLoopType ==
  ASSUME TypeInv, ConsumeLoop PROVE TypeInv'
<1> USE DEF TypeInv, TypeOK, BackoffInv, StartFlush, replayVars, envVars, kafkaVars,
            diskVars, ConsumerPcs, FlushPcs
<1>1. CASE SelectDone
  BY <1>1 DEF SelectDone
<1>2. CASE SelectTick
  <2>1. tick' \in BOOLEAN
    BY <1>2, Zenon DEF SelectTick
  <2>2. QED
    BY <1>2, <2>1 DEF SelectTick
<1>3. CASE SelectDefault
  BY <1>3 DEF SelectDefault
<1>4. ASSUME NEW m \in Messages, FetchEvent(m) PROVE TypeInv'
  BY <1>4 DEF FetchEvent
<1>5. ASSUME NEW m \in Messages, FetchPoison(m) PROVE TypeInv'
  BY <1>5 DEF FetchPoison
<1>6. CASE FetchFails
  BY <1>6 DEF FetchFails
<1>7. CASE SendPoison
  BY <1>7 DEF SendPoison, Poison
<1>8. CASE SendPoisonFails
  BY <1>8 DEF SendPoisonFails, Poison
<1>9. CASE CommitPoison
  BY <1>9, CommitType DEF CommitPoison, Poison
<1>10. QED
  BY <1>1, <1>2, <1>3, <1>4, <1>5, <1>6, <1>7, <1>8, <1>9 DEF ConsumeLoop

LEMMA ReplayLoopType ==
  ASSUME TypeInv, ReplayLoop PROVE TypeInv'
<1> USE DEF TypeInv, TypeOK, BackoffInv, GoOn, consumerVars, envVars, kafkaVars,
            diskVars, ReplayPcs
<1>1. CASE ReplayTick
  BY <1>1 DEF ReplayTick
<1>2. ASSUME NEW f \in todo, ReplayRead(f) PROVE TypeInv'
  BY <1>2 DEF ReplayRead
<1>3. ASSUME NEW f \in todo, ReplayReadEmpty(f) PROVE TypeInv'
  BY <1>3 DEF ReplayReadEmpty
<1>4. ASSUME NEW f \in todo, ReplayReadFails(f) PROVE TypeInv'
  BY <1>4 DEF ReplayReadFails
<1>5. CASE ReplayBulk
  <2>1. PICK r \in BulkResults(revents) :
          /\ indexed' = indexed \cup r.indexed
          /\ IF StaysSpooled(r)
             THEN GoOn(todo \ {rfile})
             ELSE /\ rpc' = IF r.permanent = {} THEN "remove" ELSE "dlq"
                  /\ rperm' = r.permanent
                  /\ UNCHANGED <<todo, rfile, revents>>
    BY <1>5 DEF ReplayBulk
  <2>2. r.indexed \subseteq revents /\ r.permanent \subseteq revents
    BY BulkResultFacts
  <2>3. QED
    BY <1>5, <2>1, <2>2 DEF ReplayBulk
<1>6. CASE ReplayDLQ
  BY <1>6, DecodableIsMessage DEF ReplayDLQ
<1>7. CASE ReplayDLQFails
  BY <1>7, DecodableIsMessage DEF ReplayDLQFails
<1>8. CASE ReplayRemove
  BY <1>8 DEF ReplayRemove
<1>9. CASE ReplayRemoveFails
  BY <1>9 DEF ReplayRemoveFails
<1>10. CASE ReplayStop
  BY <1>10 DEF ReplayStop
<1>11. QED
  BY <1>1, <1>2, <1>3, <1>4, <1>5, <1>6, <1>7, <1>8, <1>9, <1>10 DEF ReplayLoop

LEMMA EnvironmentType ==
  ASSUME TypeInv, Environment PROVE TypeInv'
<1> USE DEF TypeInv, TypeOK, BackoffInv, consumerVars, replayVars, kafkaVars, diskVars,
            ConsumerPcs, ReplayPcs
<1>1. CASE Tick
  BY <1>1 DEF Tick
<1>2. CASE Signal
  BY <1>2 DEF Signal
<1>3. CASE Restart
  <2>1. ctxDone' \in BOOLEAN /\ tick' \in BOOLEAN
    BY <1>3, Zenon DEF Restart
  <2>2. QED
    BY <1>3, <2>1 DEF Restart
<1>4. CASE Rebalance
  BY <1>4 DEF Rebalance
<1>5. QED
  BY <1>1, <1>2, <1>3, <1>4 DEF Environment

LEMMA StutterType ==
  ASSUME TypeInv, UNCHANGED vars PROVE TypeInv'
  BY DEF TypeInv, TypeOK, BackoffInv, vars, consumerVars, replayVars, envVars, kafkaVars,
         diskVars

\* Every variable keeps its type, for every value of the constants.
THEOREM TypeCorrect == Spec => []TypeOK
<1>1. Init => TypeInv
  BY TypeInit
<1>2. TypeInv /\ [Next]_vars => TypeInv'
  BY FlushType, ConsumeLoopType, ReplayLoopType, EnvironmentType, StutterType
     DEF Next, Terminated
<1>3. TypeInv => TypeOK
  BY DEF TypeInv
<1>4. QED
  BY <1>1, <1>2, <1>3, PTL DEF Spec

-----------------------------------------------------------------------------
(* The replay directory: what was ever written to a file of it is kept. *)

\* A file is open exactly while writeReplay writes it, and is then linked,
\* unless the replayer read it half-written.
OpenInv ==
  /\ pc = "write" => fd \in Files /\ fd \in dir \cup torn
  /\ pc # "write" => fd = 0

\* Files are numbered in the order of their names; none is ahead of lastFile.
NumberInv ==
  /\ \A f \in dir \cup torn \cup todo : f <= lastFile
  /\ fd <= lastFile /\ rfile <= lastFile
  /\ \A f \in Files : f > lastFile => content[f] = {}

\* What became of a file that was removed after it had been written completely.
RemovedInv == \A f \in Files \ (dir \cup torn) : content[f] \subseteq indexed \cup dlq

\* What replayOnce knows of the file it is replaying.
ReplayInv ==
  /\ rpc \in {"bulk", "dlq", "remove"} =>
       rfile \in Files /\ (rfile \in torn \/ (revents = content[rfile] /\ rfile # fd))
  /\ rpc = "dlq" => revents \subseteq indexed \cup dlq \cup rperm
  /\ rpc = "remove" => revents \subseteq indexed \cup dlq

DirInv == OpenInv /\ NumberInv /\ RemovedInv /\ ReplayInv

LEMMA DirInit == Init => DirInv
  BY DEF Init, LoopsAtStart, DirInv, OpenInv, NumberInv, RemovedInv, ReplayInv, Files

LEMMA FlushDir ==
  ASSUME TypeInv, DirInv, Flush PROVE DirInv'
<1> USE DEF TypeInv, TypeOK, DirInv, OpenInv, NumberInv, RemovedInv, ReplayInv,
            FlushFails, AfterAttempt, replayVars, envVars, kafkaVars, diskVars, Files
<1>1. CASE BulkIndex
  BY <1>1 DEF BulkIndex
<1>2. CASE SendPermanentFailures
  BY <1>2 DEF SendPermanentFailures
<1>3. CASE SendPermanentFailuresFails
  BY <1>3 DEF SendPermanentFailuresFails
<1>4. CASE BackoffElapses
  BY <1>4 DEF BackoffElapses
<1>5. CASE BackoffCancelled
  BY <1>5 DEF BackoffCancelled
<1>6. CASE WriteReplayOpen
  BY <1>6 DEF WriteReplayOpen
<1>7. ASSUME NEW m \in pending, WriteReplayEvent(m) PROVE DirInv'
  <2>1. /\ fd \in Files /\ fd \in dir \cup torn /\ fd <= lastFile
        /\ \A f \in Files : f # fd => content'[f] = content[f]
        /\ pc' \in {"write", "commit"} /\ (pc' = "write" => fd' = fd) /\ (pc' = "commit" => fd' = 0)
        /\ UNCHANGED <<rpc, todo, rfile, revents, rperm, indexed, dlq, dir, lastFile, torn>>
    BY <1>7 DEF WriteReplayEvent
  <2>2. OpenInv'
    BY <2>1
  <2>3. NumberInv'
    BY <2>1
  <2>4. RemovedInv'
    BY <2>1
  <2>5. ReplayInv'
    BY <2>1
  <2>6. QED
    BY <2>2, <2>3, <2>4, <2>5
<1>8. CASE WriteReplayFails
  BY <1>8 DEF WriteReplayFails
<1>9. CASE CommitBatch
  BY <1>9 DEF CommitBatch
<1>10. CASE CommitBatchFails
  BY <1>10 DEF CommitBatchFails
<1>11. QED
  BY <1>1, <1>2, <1>3, <1>4, <1>5, <1>6, <1>7, <1>8, <1>9, <1>10 DEF Flush

LEMMA ConsumeLoopDir ==
  ASSUME TypeInv, DirInv, ConsumeLoop PROVE DirInv'
<1>1. /\ pc # "write" /\ pc' # "write"
      /\ UNCHANGED <<fd, rpc, todo, rfile, revents, rperm, indexed, dir, content, lastFile, torn>>
      /\ dlq \subseteq dlq'
  BY DEF ConsumeLoop, SelectDone, SelectTick, SelectDefault, FetchEvent, FetchPoison,
         FetchFails, SendPoison, SendPoisonFails, CommitPoison, StartFlush, replayVars,
         envVars, kafkaVars, diskVars, TypeInv, TypeOK
<1>2. QED
  BY <1>1 DEF DirInv, OpenInv, NumberInv, RemovedInv, ReplayInv

LEMMA ReplayLoopDir ==
  ASSUME TypeInv, DirInv, ReplayLoop PROVE DirInv'
<1> USE DEF TypeInv, TypeOK, DirInv, OpenInv, NumberInv, RemovedInv, ReplayInv, GoOn,
            consumerVars, envVars, kafkaVars, diskVars, Files
<1>1. CASE ReplayTick
  BY <1>1 DEF ReplayTick
<1>2. ASSUME NEW f \in todo, ReplayRead(f) PROVE DirInv'
  BY <1>2 DEF ReplayRead
<1>3. ASSUME NEW f \in todo, ReplayReadEmpty(f) PROVE DirInv'
  <2>1. /\ f \in Files /\ f <= lastFile /\ content[f] = {}
        /\ dir' \subseteq dir /\ \A g \in dir : g # f => g \in dir'
        /\ torn \subseteq torn' /\ torn' \subseteq torn \cup {f}
        /\ fd = f => f \in torn'
        /\ todo' \subseteq todo /\ rpc' \in {"idle", "next"} /\ rfile' = 0
        /\ UNCHANGED <<pc, fd, indexed, dlq, content, lastFile>>
    BY <1>3 DEF ReplayReadEmpty
  <2>2. OpenInv'
    BY <2>1
  <2>3. NumberInv'
    BY <2>1
  <2>4. RemovedInv'
    BY <2>1
  <2>5. ReplayInv'
    BY <2>1
  <2>6. QED
    BY <2>2, <2>3, <2>4, <2>5
<1>4. ASSUME NEW f \in todo, ReplayReadFails(f) PROVE DirInv'
  BY <1>4 DEF ReplayReadFails
<1>5. CASE ReplayBulk
  <2>1. PICK r \in BulkResults(revents) :
          /\ indexed' = indexed \cup r.indexed
          /\ IF StaysSpooled(r)
             THEN GoOn(todo \ {rfile})
             ELSE /\ rpc' = IF r.permanent = {} THEN "remove" ELSE "dlq"
                  /\ rperm' = r.permanent
                  /\ UNCHANGED <<todo, rfile, revents>>
    BY <1>5 DEF ReplayBulk
  <2>2. ~StaysSpooled(r) => revents \subseteq indexed' \cup r.permanent
    BY <2>1, BulkResultFacts DEF StaysSpooled
  <2>3. QED
    BY <1>5, <2>1, <2>2 DEF ReplayBulk
<1>6. CASE ReplayDLQ
  BY <1>6 DEF ReplayDLQ
<1>7. CASE ReplayDLQFails
  BY <1>7 DEF ReplayDLQFails
<1>8. CASE ReplayRemove
  BY <1>8 DEF ReplayRemove
<1>9. CASE ReplayRemoveFails
  BY <1>9 DEF ReplayRemoveFails
<1>10. CASE ReplayStop
  BY <1>10 DEF ReplayStop
<1>11. QED
  BY <1>1, <1>2, <1>3, <1>4, <1>5, <1>6, <1>7, <1>8, <1>9, <1>10 DEF ReplayLoop

LEMMA EnvironmentDir ==
  ASSUME TypeInv, DirInv, Environment PROVE DirInv'
<1> USE DEF TypeInv, TypeOK, DirInv, OpenInv, NumberInv, RemovedInv, ReplayInv,
            consumerVars, replayVars, kafkaVars, diskVars, Files
<1>1. CASE Tick
  BY <1>1 DEF Tick
<1>2. CASE Signal
  BY <1>2 DEF Signal
<1>3. CASE Restart
  BY <1>3 DEF Restart
<1>4. CASE Rebalance
  BY <1>4 DEF Rebalance
<1>5. QED
  BY <1>1, <1>2, <1>3, <1>4 DEF Environment

LEMMA StutterDir ==
  ASSUME DirInv, UNCHANGED vars PROVE DirInv'
  BY DEF DirInv, OpenInv, NumberInv, RemovedInv, ReplayInv, vars, consumerVars,
         replayVars, diskVars

LEMMA DirStep == TypeInv /\ DirInv /\ [Next]_vars => DirInv'
  BY FlushDir, ConsumeLoopDir, ReplayLoopDir, EnvironmentDir, StutterDir
     DEF Next, Terminated

-----------------------------------------------------------------------------
(* What is handled stays handled: replay files are removed only when each of *)
(* their events is indexed or dead-lettered.                                 *)

LEMMA StorageGrows ==
  ASSUME TypeInv, [Next]_vars
  PROVE  /\ indexed \subseteq indexed' /\ dlq \subseteq dlq' /\ torn \subseteq torn'
         /\ \A f \in Files : content[f] \subseteq content'[f]
<1>1. CASE Flush
  BY <1>1 DEF TypeInv, TypeOK, Flush, BulkIndex, SendPermanentFailures,
     SendPermanentFailuresFails, BackoffElapses, BackoffCancelled, WriteReplayOpen,
     WriteReplayEvent, WriteReplayFails, CommitBatch, CommitBatchFails, diskVars
<1>2. CASE ConsumeLoop
  BY <1>2 DEF ConsumeLoop, SelectDone, SelectTick, SelectDefault, FetchEvent, FetchPoison,
     FetchFails, SendPoison, SendPoisonFails, CommitPoison, diskVars
<1>3. CASE ReplayLoop
  BY <1>3 DEF ReplayLoop, ReplayTick, ReplayRead, ReplayReadEmpty, ReplayReadFails,
     ReplayBulk, ReplayDLQ, ReplayDLQFails, ReplayRemove, ReplayRemoveFails, ReplayStop,
     diskVars
<1>4. CASE Environment
  BY <1>4 DEF Environment, Tick, Signal, Restart, Rebalance, diskVars
<1>5. CASE UNCHANGED vars
  BY <1>5 DEF vars, diskVars
<1>6. QED
  BY <1>1, <1>2, <1>3, <1>4, <1>5 DEF Next, Terminated

LEMMA HandledGrows ==
  ASSUME TypeInv, DirInv, [Next]_vars PROVE Handled \subseteq Handled'
<1>1. DirInv'
  BY DirStep
<1>2. \A f \in Files : f \notin dir' \cup torn' => content'[f] \subseteq indexed' \cup dlq'
  BY <1>1 DEF DirInv, RemovedInv
<1>3. \A f \in dir \cup torn : f \in Files
  BY DEF TypeInv, TypeOK
<1>4. QED
  BY <1>2, <1>3, StorageGrows DEF Handled

-----------------------------------------------------------------------------
(* A flush loses nothing of its batch. *)

\* Until the commit, what is not handled is still to be indexed or dead-lettered;
\* at the commit all of the batch is handled.
FlushInv ==
  /\ pc \in {"bulk", "backoff", "open", "write"} => batch \subseteq pending \cup Handled
  /\ pc = "permanent" => batch \subseteq pending \cup permanent \cup Handled
  /\ pc = "commit" => batch \subseteq Handled

LEMMA FlushInit == Init => FlushInv
  BY DEF Init, LoopsAtStart, FlushInv

LEMMA FlushFlush ==
  ASSUME TypeInv, DirInv, FlushInv, Flush PROVE FlushInv'
<1>1. Handled \subseteq Handled'
  BY HandledGrows DEF Next
<1>2. pc' = resume => pc' \notin {"bulk", "backoff", "open", "write", "permanent", "commit"}
  BY DEF TypeInv, TypeOK
<1> USE DEF FlushInv
<1>3. CASE BulkIndex
  <2>1. PICK r \in BulkResults(pending) :
          /\ indexed' = indexed \cup r.indexed
          /\ pending' = Left(r)
          /\ permanent' = r.permanent
          /\ IF r.permanent # {} THEN pc' = "permanent" ELSE AfterAttempt(Left(r))
    BY <1>3 DEF BulkIndex
  <2>2. pending \subseteq pending' \cup permanent' \cup Handled'
    BY <2>1, AttemptCovers DEF Handled
  <2>3. pc' = "commit" => pending' = {} /\ permanent' = {}
    BY <2>1 DEF AfterAttempt
  <2>4. pc' # "permanent" => permanent' = {}
    BY <2>1
  <2>5. batch' = batch /\ batch \subseteq pending \cup Handled
    BY <1>3 DEF BulkIndex
  <2>6. QED
    BY <1>1, <2>2, <2>3, <2>4, <2>5
<1>4. CASE SendPermanentFailures
  <2>1. permanent \subseteq Handled'
    BY <1>4 DEF SendPermanentFailures, Handled
  <2>2. /\ batch' = batch /\ pending' = pending
        /\ batch \subseteq pending \cup permanent \cup Handled
        /\ pc' # "permanent"
        /\ pc' = "commit" => pending = {}
    BY <1>4 DEF SendPermanentFailures, AfterAttempt
  <2>3. QED
    BY <1>1, <2>1, <2>2
<1>5. CASE SendPermanentFailuresFails
  BY <1>2, <1>5 DEF SendPermanentFailuresFails, FlushFails
<1>6. CASE BackoffElapses
  BY <1>1, <1>6 DEF BackoffElapses
<1>7. CASE BackoffCancelled
  BY <1>2, <1>7 DEF BackoffCancelled, FlushFails
<1>8. CASE WriteReplayOpen
  BY <1>1, <1>8 DEF WriteReplayOpen
<1>9. ASSUME NEW m \in pending, WriteReplayEvent(m) PROVE FlushInv'
  <2>1. CASE pending \subseteq content'[fd]
    <3>1. fd \in dir \cup torn
      BY <1>9 DEF WriteReplayEvent, DirInv, OpenInv
    <3>2. content'[fd] \subseteq Handled'
      BY <1>9, <3>1 DEF WriteReplayEvent, Handled
    <3>3. pc' = "commit" /\ batch' = batch /\ batch \subseteq pending \cup Handled
      BY <1>9, <2>1 DEF WriteReplayEvent
    <3>4. QED
      BY <1>1, <2>1, <3>2, <3>3
  <2>2. CASE ~(pending \subseteq content'[fd])
    BY <1>1, <1>9, <2>2 DEF WriteReplayEvent
  <2>3. QED
    BY <2>1, <2>2
<1>10. CASE WriteReplayFails
  BY <1>2, <1>10 DEF WriteReplayFails, FlushFails
<1>11. CASE CommitBatch
  BY <1>2, <1>11 DEF CommitBatch
<1>12. CASE CommitBatchFails
  BY <1>2, <1>12 DEF CommitBatchFails, FlushFails
<1>13. QED
  BY <1>3, <1>4, <1>5, <1>6, <1>7, <1>8, <1>9, <1>10, <1>11, <1>12 DEF Flush

LEMMA ConsumeLoopFlush ==
  ASSUME TypeInv, ConsumeLoop PROVE FlushInv'
<1>1. /\ pc' \in {"select", "fetch", "sendDLQ", "commitDLQ", "stopped", "bulk"}
      /\ pc' = "bulk" => pending' = batch'
  BY DEF ConsumeLoop, SelectDone, SelectTick, SelectDefault, FetchEvent, FetchPoison,
         FetchFails, SendPoison, SendPoisonFails, CommitPoison, StartFlush
<1>2. QED
  BY <1>1 DEF FlushInv

LEMMA ReplayLoopFlush ==
  ASSUME TypeInv, DirInv, FlushInv, ReplayLoop PROVE FlushInv'
<1>1. Handled \subseteq Handled'
  BY HandledGrows DEF Next
<1>2. UNCHANGED <<pc, batch, pending, permanent>>
  BY DEF ReplayLoop, ReplayTick, ReplayRead, ReplayReadEmpty, ReplayReadFails, ReplayBulk,
     ReplayDLQ, ReplayDLQFails, ReplayRemove, ReplayRemoveFails, ReplayStop, consumerVars
<1>3. QED
  BY <1>1, <1>2 DEF FlushInv

LEMMA EnvironmentFlush ==
  ASSUME TypeInv, DirInv, FlushInv, Environment PROVE FlushInv'
<1>1. Handled \subseteq Handled'
  BY HandledGrows DEF Next
<1>2. pc' = "select" \/ UNCHANGED <<pc, batch, pending, permanent>>
  BY DEF Environment, Tick, Signal, Restart, Rebalance, consumerVars
<1>3. QED
  BY <1>1, <1>2 DEF FlushInv

LEMMA StutterFlush ==
  ASSUME FlushInv, UNCHANGED vars PROVE FlushInv'
  BY DEF FlushInv, Handled, vars, consumerVars, diskVars

LEMMA FlushStep == TypeInv /\ DirInv /\ FlushInv /\ [Next]_vars => FlushInv'
  BY FlushFlush, ConsumeLoopFlush, ReplayLoopFlush, EnvironmentFlush, StutterFlush
     DEF Next, Terminated

-----------------------------------------------------------------------------
(* No message is forgotten, but for poison committed on its own. *)

\* The reader and the group are past x and no commit can bring them back: what is
\* in hand of its partition is newer.
Passed(x) ==
  /\ Committed(x) /\ Fetched(x)
  /\ \A b \in batch \cup cur : PartitionOf[b] = PartitionOf[x] => OffsetOf[x] < OffsetOf[b]

\* m will not be delivered again, and the process that held it is gone: before it
\* died, a poison message behind m was committed.
Lost(m) == restarts # 0 /\ \E x \in Poison : SkippedBy(x, m) /\ Passed(x)

\* Behind the reader, and behind the group's offset, everything is in hand, or lost.
BehindInv ==
  \A m \in Decodable : Fetched(m) \/ Committed(m) => m \in batch \cup Handled \/ Lost(m)

\* So is everything not newer than a message in hand: this is what makes the
\* commit of that message harmless.
OlderInv ==
  \A b \in batch \cup cur, m \in Decodable :
    PartitionOf[m] = PartitionOf[b] /\ OffsetOf[m] <= OffsetOf[b]
      => m \in batch \cup Handled \/ Lost(m)

\* A restart finds below the committed offset what is handled, and what a poison
\* message skipped.
CommittedInv ==
  \A m \in Decodable : Committed(m) => m \in Handled \/ \E x \in Poison : SkippedBy(x, m)

MessageInv == BehindInv /\ OlderInv /\ CommittedInv

IInv == TypeInv /\ DirInv /\ FlushInv /\ MessageInv

LEMMA PoisonIsMessage == Poison \subseteq Messages /\ Poison \cap Decodable = {}
  BY DEF Poison

LEMMA MessageInit == Init => MessageInv
  BY DecodableIsMessage
     DEF Init, LoopsAtStart, MessageInv, BehindInv, OlderInv, CommittedInv, Fetched, Committed

\* A commit of S moves the offset of a partition to just behind the newest message
\* of S there.
LEMMA CommitReach ==
  ASSUME TypeOK, NEW S \in SUBSET Messages, CommitMessages(S), NEW p \in Partitions
  PROVE  \/ committed'[p] = committed[p] /\ \A b \in S : PartitionOf[b] # p
         \/ \E b \in S : /\ PartitionOf[b] = p /\ committed'[p] = OffsetOf[b] + 1
                         /\ \A m \in S : PartitionOf[m] = p => OffsetOf[m] <= OffsetOf[b]
<1>1. PICK newest \in [{PartitionOf[n] : n \in S} -> S] :
        /\ \A q \in DOMAIN newest :
             /\ PartitionOf[newest[q]] = q
             /\ \A m \in S : PartitionOf[m] = q => OffsetOf[m] <= OffsetOf[newest[q]]
        /\ committed' = [q \in Partitions |->
                           IF q \in DOMAIN newest THEN OffsetOf[newest[q]] + 1
                                                  ELSE committed[q]]
  BY DEF CommitMessages
<1>2. DOMAIN newest = {PartitionOf[n] : n \in S}
  OBVIOUS
<1>3. CASE p \in DOMAIN newest
  <2>1. newest[p] \in S
    BY <1>3
  <2>2. committed'[p] = OffsetOf[newest[p]] + 1
    BY <1>1, <1>3
  <2>3. QED
    BY <1>1, <1>3, <2>1, <2>2
<1>4. CASE p \notin DOMAIN newest
  BY <1>1, <1>2, <1>4
<1>5. QED
  BY <1>3, <1>4

\* What becomes committed by a commit of S is not newer than some message of S.
LEMMA CommitCovers ==
  ASSUME TypeOK, NEW S \in SUBSET Messages, CommitMessages(S) \/ UNCHANGED committed,
         NEW m \in Messages, OffsetOf[m] < committed'[PartitionOf[m]]
  PROVE  \/ Committed(m)
         \/ \E b \in S : PartitionOf[m] = PartitionOf[b] /\ OffsetOf[m] <= OffsetOf[b]
<1>1. CASE committed'[PartitionOf[m]] = committed[PartitionOf[m]]
  BY <1>1 DEF Committed
<1>2. CASE \E b \in S : PartitionOf[b] = PartitionOf[m]
                        /\ committed'[PartitionOf[m]] = OffsetOf[b] + 1
  <2>1. PICK b \in S : PartitionOf[b] = PartitionOf[m]
                       /\ committed'[PartitionOf[m]] = OffsetOf[b] + 1
    BY <1>2
  <2>2. OffsetOf[b] \in Nat /\ OffsetOf[m] \in Nat
    BY <2>1
  <2>3. OffsetOf[m] <= OffsetOf[b]
    BY <2>1, <2>2
  <2>4. QED
    BY <2>1, <2>3
<1>3. PartitionOf[m] \in Partitions
  OBVIOUS
<1>4. QED
  BY <1>1, <1>2, <1>3, CommitReach

\* What was passed stays passed under a commit of messages in hand.
LEMMA CommitPasses ==
  ASSUME TypeOK, NEW S \in SUBSET (batch \cup cur), CommitMessages(S) \/ UNCHANGED committed,
         batch' \subseteq batch, cur' \subseteq cur, position' = position,
         NEW x \in Messages, Passed(x)
  PROVE  Passed(x)'
<1>1. S \in SUBSET Messages
  BY DecodableIsMessage, PoisonIsMessage DEF TypeOK
<1>2. PartitionOf[x] \in Partitions /\ OffsetOf[x] \in Nat
  OBVIOUS
<1>3. OffsetOf[x] < committed'[PartitionOf[x]]
  <2>1. CASE committed'[PartitionOf[x]] = committed[PartitionOf[x]]
    BY <2>1 DEF Passed, Committed
  <2>2. CASE \E b \in S : PartitionOf[b] = PartitionOf[x]
                          /\ committed'[PartitionOf[x]] = OffsetOf[b] + 1
    <3>1. PICK b \in S : PartitionOf[b] = PartitionOf[x]
                         /\ committed'[PartitionOf[x]] = OffsetOf[b] + 1
      BY <2>2
    <3>2. OffsetOf[x] < OffsetOf[b]
      BY <3>1 DEF Passed
    <3>3. OffsetOf[b] \in Nat
      BY <1>1, <3>1
    <3>4. QED
      BY <1>2, <3>1, <3>2, <3>3
  <2>3. QED
    BY <1>1, <1>2, <2>1, <2>2, CommitReach
<1>4. QED
  BY <1>3 DEF Passed, Committed, Fetched

\* A loss is for ever.
LEMMA LossStays ==
  ASSUME \A x \in Poison : Passed(x) => Passed(x)', restarts' = restarts,
         NEW m \in Messages, Lost(m)
  PROVE  Lost(m)'
<1>1. PICK x \in Poison : SkippedBy(x, m) /\ Passed(x)
  BY DEF Lost
<1>2. Passed(x)'
  BY <1>1
<1>3. SkippedBy(x, m)'
  BY <1>1, <1>2 DEF SkippedBy, Passed
<1>4. QED
  BY <1>2, <1>3 DEF Lost

\* A commit of messages in hand keeps the invariant: it is one of the whole batch
\* when all of it is handled, or of a poison message alone.
LEMMA CommitKeeps ==
  ASSUME TypeOK, MessageInv, Handled \subseteq Handled',
         NEW S, (S = batch /\ batch \subseteq Handled) \/ S = cur,
         CommitMessages(S) \/ UNCHANGED committed,
         batch \subseteq batch' \cup Handled', batch' \subseteq batch, cur' \subseteq cur,
         position' = position, restarts' = restarts
  PROVE  MessageInv'
<1>1. S \in SUBSET (batch \cup cur) /\ S \in SUBSET Messages
  BY DecodableIsMessage, PoisonIsMessage DEF TypeOK
<1>2. \A x \in Poison : Passed(x) => Passed(x)'
  BY <1>1, CommitPasses, PoisonIsMessage
<1>3. \A m \in Decodable : Lost(m) => Lost(m)'
  BY <1>2, LossStays, DecodableIsMessage
<1>4. ASSUME NEW m \in Decodable, OffsetOf[m] < committed'[PartitionOf[m]]
      PROVE  \/ Committed(m)
             \/ \E b \in S : PartitionOf[m] = PartitionOf[b] /\ OffsetOf[m] <= OffsetOf[b]
  BY <1>1, <1>4, CommitCovers, DecodableIsMessage
<1>5. ASSUME NEW m \in Decodable, OffsetOf[m] < committed'[PartitionOf[m]]
      PROVE  m \in batch \cup Handled \/ Lost(m)
  <2>1. CASE Committed(m)
    BY <2>1 DEF MessageInv, BehindInv
  <2>2. CASE \E b \in S : PartitionOf[m] = PartitionOf[b] /\ OffsetOf[m] <= OffsetOf[b]
    BY <1>1, <2>2 DEF MessageInv, OlderInv
  <2>3. QED
    BY <1>4, <1>5, <2>1, <2>2
<1>6. BehindInv'
  BY <1>3, <1>5 DEF MessageInv, BehindInv, Fetched, Committed
<1>7. OlderInv'
  BY <1>3 DEF MessageInv, OlderInv
<1>8. ASSUME NEW m \in Decodable, OffsetOf[m] < committed'[PartitionOf[m]], m \notin Handled'
      PROVE  \E x \in Poison : SkippedBy(x, m)'
  <2>1. PartitionOf[m] \in Partitions /\ OffsetOf[m] \in Nat
    BY DecodableIsMessage
  <2>2. CASE S = batch /\ batch \subseteq Handled
    BY <1>5, <1>8, <1>3, <2>2 DEF Lost
  <2>3. CASE committed'[PartitionOf[m]] = committed[PartitionOf[m]]
    <3>1. PICK x \in Poison : SkippedBy(x, m)
      BY <1>8, <2>3 DEF MessageInv, CommittedInv, Committed
    <3>2. QED
      BY <2>3, <3>1 DEF SkippedBy, Committed
  <2>4. CASE S = cur /\ \E b \in S : /\ PartitionOf[b] = PartitionOf[m]
                                  /\ committed'[PartitionOf[m]] = OffsetOf[b] + 1
    <3>1. PICK b \in cur : /\ PartitionOf[b] = PartitionOf[m]
                           /\ committed'[PartitionOf[m]] = OffsetOf[b] + 1
      BY <2>4
    <3>2. b \in Poison /\ b \in Messages /\ b # m /\ m \in Messages
      BY PoisonIsMessage, DecodableIsMessage DEF TypeOK
    <3>3. OffsetOf[b] \in Nat /\ OffsetOf[b] # OffsetOf[m]
      BY <3>1, <3>2
    <3>4. OffsetOf[m] < OffsetOf[b] /\ OffsetOf[b] < committed'[PartitionOf[b]]
      BY <1>8, <2>1, <3>1, <3>3
    <3>5. QED
      BY <3>1, <3>2, <3>4 DEF SkippedBy, Committed
  <2>5. QED
    BY <1>1, <2>1, <2>2, <2>3, <2>4, CommitReach
<1>9. CommittedInv'
  BY <1>8 DEF CommittedInv, Committed
<1>10. QED
  BY <1>6, <1>7, <1>9 DEF MessageInv

\* A step that only adds to what is handled keeps the invariant.
LEMMA StillKeeps ==
  ASSUME MessageInv, Handled \subseteq Handled',
         UNCHANGED <<batch, position, committed, restarts>>, cur' \subseteq cur
  PROVE  MessageInv'
<1>1. \A m \in Messages : (Fetched(m)' <=> Fetched(m)) /\ (Committed(m)' <=> Committed(m))
  BY DEF Fetched, Committed
<1>2. \A x \in Poison : Passed(x) => Passed(x)'
  BY <1>1, PoisonIsMessage DEF Passed
<1>3. \A m \in Decodable : Lost(m) => Lost(m)'
  BY <1>2, LossStays, DecodableIsMessage
<1>4. BehindInv'
  BY <1>1, <1>3, DecodableIsMessage DEF MessageInv, BehindInv
<1>5. OlderInv'
  BY <1>3 DEF MessageInv, OlderInv
<1>6. CommittedInv'
  BY <1>1, DecodableIsMessage, PoisonIsMessage DEF MessageInv, CommittedInv, SkippedBy
<1>7. QED
  BY <1>4, <1>5, <1>6 DEF MessageInv

\* The reader hands out the next message of a partition: nothing lies between
\* what was behind it and that message.
LEMMA NextIsNext ==
  ASSUME TypeOK, NEW m \in Messages, IsNext(m), NEW n \in Messages,
         PartitionOf[n] = PartitionOf[m], OffsetOf[n] <= OffsetOf[m]
  PROVE  n = m \/ Fetched(n)
<1>1. /\ OffsetOf[n] \in Nat /\ OffsetOf[m] \in Nat
      /\ position[PartitionOf[m]] \in Nat
  BY DEF TypeOK
<1>2. CASE OffsetOf[n] < position[PartitionOf[m]]
  BY <1>2 DEF Fetched
<1>3. CASE position[PartitionOf[m]] <= OffsetOf[n]
  BY <1>1, <1>3 DEF IsNext
<1>4. QED
  BY <1>1, <1>2, <1>3

LEMMA FetchKeeps ==
  ASSUME TypeOK, MessageInv, Handled \subseteq Handled', NEW m \in Messages, IsNext(m),
         position' = [position EXCEPT ![PartitionOf[m]] = OffsetOf[m] + 1],
         UNCHANGED <<committed, restarts>>,
         \/ m \in Decodable /\ batch' = batch \cup {m} /\ cur' = cur
         \/ m \in Poison /\ batch' = batch /\ cur' = {m}
  PROVE  MessageInv'
<1>1. ASSUME NEW n \in Messages
      PROVE  /\ OffsetOf[n] \in Nat /\ PartitionOf[n] \in Partitions
             /\ position'[PartitionOf[n]] = IF PartitionOf[n] = PartitionOf[m]
                                            THEN OffsetOf[m] + 1 ELSE position[PartitionOf[n]]
             /\ position[PartitionOf[n]] \in Nat
  BY DEF TypeOK
<1>2. \A b \in batch' \cup cur' : b = m \/ b \in batch \cup cur
  OBVIOUS
<1>3. ASSUME NEW x \in Poison, Passed(x) PROVE Passed(x)'
  <2>1. x \in Messages
    BY PoisonIsMessage
  <2>2. PartitionOf[m] = PartitionOf[x] => OffsetOf[x] < OffsetOf[m]
    BY <1>1, <1>3, <2>1 DEF Passed, Fetched, IsNext
  <2>3. OffsetOf[x] < position'[PartitionOf[x]]
    BY <1>1, <1>3, <2>1, <2>2 DEF Passed, Fetched
  <2>4. QED
    BY <1>2, <1>3, <2>2, <2>3 DEF Passed, Fetched, Committed
<1>4. \A n \in Decodable : Lost(n) => Lost(n)'
  BY <1>3, LossStays, DecodableIsMessage
<1>5. ASSUME NEW n \in Decodable, n \in batch \cup Handled \/ Lost(n)
      PROVE  n \in batch' \cup Handled' \/ Lost(n)'
  BY <1>4, <1>5
<1>6. ASSUME NEW n \in Decodable, PartitionOf[n] = PartitionOf[m], OffsetOf[n] <= OffsetOf[m]
      PROVE  n \in batch' \cup Handled' \/ Lost(n)'
  <2>1. n = m \/ Fetched(n)
    BY <1>6, NextIsNext, DecodableIsMessage
  <2>2. CASE n = m
    BY <2>2, PoisonIsMessage
  <2>3. CASE Fetched(n)
    BY <1>5, <2>3 DEF MessageInv, BehindInv
  <2>4. QED
    BY <2>1, <2>2, <2>3
<1>7. ASSUME NEW n \in Decodable, OffsetOf[n] < position'[PartitionOf[n]]
      PROVE  n \in batch' \cup Handled' \/ Lost(n)'
  <2>1. n \in Messages
    BY DecodableIsMessage
  <2>2. CASE PartitionOf[n] = PartitionOf[m]
    <3>1. OffsetOf[n] <= OffsetOf[m]
      BY <1>1, <1>7, <2>1, <2>2
    <3>2. QED
      BY <1>6, <2>2, <3>1
  <2>3. CASE PartitionOf[n] # PartitionOf[m]
    <3>1. Fetched(n)
      BY <1>1, <1>7, <2>1, <2>3 DEF Fetched
    <3>2. QED
      BY <1>5, <3>1 DEF MessageInv, BehindInv
  <2>4. QED
    BY <2>2, <2>3
<1>8. BehindInv'
  <2>1. ASSUME NEW n \in Decodable, Committed(n) PROVE n \in batch' \cup Handled' \/ Lost(n)'
    BY <1>5, <2>1 DEF MessageInv, BehindInv
  <2>2. QED
    BY <1>7, <2>1 DEF BehindInv, Fetched, Committed
<1>9. OlderInv'
  <2>1. ASSUME NEW b \in batch \cup cur, NEW n \in Decodable,
               PartitionOf[n] = PartitionOf[b], OffsetOf[n] <= OffsetOf[b]
        PROVE  n \in batch' \cup Handled' \/ Lost(n)'
    BY <1>5, <2>1 DEF MessageInv, OlderInv
  <2>2. QED
    BY <1>2, <1>6, <2>1 DEF OlderInv
<1>10. CommittedInv'
  BY DEF MessageInv, CommittedInv, SkippedBy, Committed
<1>11. QED
  BY <1>8, <1>9, <1>10 DEF MessageInv

LEMMA FlushMessage ==
  ASSUME IInv, Flush PROVE MessageInv'
<1>1. Handled \subseteq Handled' /\ TypeOK /\ MessageInv
  BY HandledGrows DEF Next, IInv, TypeInv
<1>2. CASE CommitBatch
  <2>1. batch \subseteq Handled
    BY <1>2 DEF CommitBatch, IInv, FlushInv
  <2>2. /\ CommitMessages(batch) /\ batch' = {} /\ cur' = cur
        /\ position' = position /\ restarts' = restarts
    BY <1>2 DEF CommitBatch, envVars
  <2>3. QED
    BY <1>1, <2>1, <2>2, CommitKeeps
<1>3. CASE CommitBatchFails
  <2>1. batch \subseteq Handled
    BY <1>3 DEF CommitBatchFails, IInv, FlushInv
  <2>2. /\ CommitMessages(batch) \/ UNCHANGED committed
        /\ batch' = batch /\ cur' = cur /\ position' = position /\ restarts' = restarts
    BY <1>3 DEF CommitBatchFails, FlushFails, envVars
  <2>3. QED
    BY <1>1, <2>1, <2>2, CommitKeeps
<1>4. CASE ~CommitBatch /\ ~CommitBatchFails
  <2>1. UNCHANGED <<batch, position, committed, restarts>> /\ cur' \subseteq cur
    BY <1>4 DEF Flush, BulkIndex, SendPermanentFailures, SendPermanentFailuresFails,
       BackoffElapses, BackoffCancelled, WriteReplayOpen, WriteReplayEvent,
       WriteReplayFails, FlushFails, envVars, kafkaVars
  <2>2. QED
    BY <1>1, <2>1, StillKeeps
<1>5. QED
  BY <1>2, <1>3, <1>4

LEMMA ConsumeLoopMessage ==
  ASSUME IInv, ConsumeLoop PROVE MessageInv'
<1>1. Handled \subseteq Handled' /\ TypeOK /\ MessageInv
  BY HandledGrows DEF Next, IInv, TypeInv
<1>2. ASSUME NEW m \in Messages, FetchEvent(m) PROVE MessageInv'
  BY <1>1, <1>2, FetchKeeps DEF FetchEvent, envVars
<1>3. ASSUME NEW m \in Messages, FetchPoison(m) PROVE MessageInv'
  BY <1>1, <1>3, FetchKeeps DEF FetchPoison, envVars
<1>4. CASE CommitPoison
  <2>1. /\ CommitMessages(cur) \/ UNCHANGED committed
        /\ batch' = batch /\ cur' = {} /\ position' = position /\ restarts' = restarts
    BY <1>4 DEF CommitPoison, envVars
  <2>2. QED
    BY <1>1, <2>1, CommitKeeps
<1>5. CASE \/ SelectDone \/ SelectTick \/ SelectDefault \/ FetchFails
           \/ SendPoison \/ SendPoisonFails
  <2>1. UNCHANGED <<batch, position, committed, restarts>> /\ cur' \subseteq cur
    BY <1>5 DEF SelectDone, SelectTick, SelectDefault, FetchFails, SendPoison,
       SendPoisonFails, envVars, kafkaVars
  <2>2. QED
    BY <1>1, <2>1, StillKeeps
<1>6. QED
  BY <1>2, <1>3, <1>4, <1>5 DEF ConsumeLoop

LEMMA ReplayLoopMessage ==
  ASSUME IInv, ReplayLoop PROVE MessageInv'
<1>1. Handled \subseteq Handled' /\ MessageInv
  BY HandledGrows DEF Next, IInv
<1>2. UNCHANGED <<batch, cur, position, committed, restarts>>
  BY DEF ReplayLoop, ReplayTick, ReplayRead, ReplayReadEmpty, ReplayReadFails, ReplayBulk,
     ReplayDLQ, ReplayDLQFails, ReplayRemove, ReplayRemoveFails, ReplayStop, consumerVars,
     envVars, kafkaVars
<1>3. QED
  BY <1>1, <1>2, StillKeeps

LEMMA EnvironmentMessage ==
  ASSUME IInv, Environment PROVE MessageInv'
<1>1. Handled \subseteq Handled' /\ MessageInv /\ TypeOK
  BY HandledGrows DEF Next, IInv, TypeInv
<1>2. CASE Tick \/ Signal
  <2>1. UNCHANGED <<batch, cur, position, committed, restarts>>
    BY <1>2 DEF Tick, Signal, consumerVars, kafkaVars
  <2>2. QED
    BY <1>1, <2>1, StillKeeps
<1>3. CASE Restart
  <2>1. /\ batch' = {} /\ cur' = {} /\ position' = committed /\ committed' = committed
        /\ restarts' # 0
    BY <1>1, <1>3 DEF Restart, TypeOK
  <2>2. \A m \in Messages : (Fetched(m)' <=> Committed(m)) /\ (Committed(m)' <=> Committed(m))
    BY <2>1 DEF Fetched, Committed
  <2>3. ASSUME NEW m \in Decodable, NEW x \in Poison, SkippedBy(x, m) PROVE Lost(m)'
    BY <2>1, <2>2, <2>3, PoisonIsMessage DEF Lost, SkippedBy, Passed
  <2>4. ASSUME NEW m \in Decodable, Committed(m) PROVE m \in Handled' \/ Lost(m)'
    BY <1>1, <2>3, <2>4 DEF MessageInv, CommittedInv
  <2>5. BehindInv' /\ OlderInv'
    BY <2>1, <2>2, <2>4, DecodableIsMessage DEF BehindInv, OlderInv
  <2>6. CommittedInv'
    BY <1>1, <2>2, DecodableIsMessage, PoisonIsMessage
       DEF MessageInv, CommittedInv, SkippedBy
  <2>7. QED
    BY <2>5, <2>6 DEF MessageInv
<1>4. CASE Rebalance
  <2>1. /\ UNCHANGED <<batch, cur, committed, restarts>> /\ position' = committed
    BY <1>4 DEF Rebalance, consumerVars
  <2>2. \A m \in Messages : (Fetched(m)' <=> Committed(m)) /\ (Committed(m)' <=> Committed(m))
    BY <2>1 DEF Fetched, Committed
  <2>3. \A x \in Poison : Passed(x) => Passed(x)'
    BY <2>1, <2>2, PoisonIsMessage DEF Passed
  <2>4. \A m \in Decodable : Lost(m) => Lost(m)'
    BY <2>1, <2>3, LossStays, DecodableIsMessage
  <2>5. BehindInv'
    BY <1>1, <2>1, <2>2, <2>4, DecodableIsMessage DEF MessageInv, BehindInv
  <2>6. OlderInv'
    BY <1>1, <2>1, <2>4 DEF MessageInv, OlderInv
  <2>7. CommittedInv'
    BY <1>1, <2>2, DecodableIsMessage, PoisonIsMessage
       DEF MessageInv, CommittedInv, SkippedBy
  <2>8. QED
    BY <2>5, <2>6, <2>7 DEF MessageInv
<1>5. QED
  BY <1>2, <1>3, <1>4 DEF Environment

LEMMA StutterMessage ==
  ASSUME IInv, UNCHANGED vars PROVE MessageInv'
<1>1. Handled' = Handled
  BY DEF Handled, vars, diskVars
<1>2. QED
  BY <1>1, StillKeeps DEF IInv, vars, consumerVars, envVars, kafkaVars

-----------------------------------------------------------------------------
(* The theorems. *)

LEMMA Invariance == Spec => []IInv
<1>1. Init => IInv
  BY TypeInit, DirInit, FlushInit, MessageInit DEF IInv
<1>2. IInv /\ [Next]_vars => IInv'
  <2> SUFFICES ASSUME IInv, [Next]_vars PROVE IInv'
    OBVIOUS
  <2>1. TypeInv'
    BY FlushType, ConsumeLoopType, ReplayLoopType, EnvironmentType, StutterType
       DEF Next, Terminated, IInv
  <2>2. DirInv' /\ FlushInv'
    BY DirStep, FlushStep DEF IInv
  <2>3. MessageInv'
    BY FlushMessage, ConsumeLoopMessage, ReplayLoopMessage, EnvironmentMessage,
       StutterMessage DEF Next, Terminated
  <2>4. QED
    BY <2>1, <2>2, <2>3 DEF IInv
<1>3. QED
  BY <1>1, <1>2, PTL DEF Spec

\* A readable message that is committed and that is nowhere was in a replay file read
\* before it was complete (service.go:344), or a poison message behind it was committed
\* too (service.go:201): crashes, rebalances, failing calls and the answers of
\* Elasticsearch lose nothing without one of the two.
THEOREM LossesHaveACause == Spec => []EveryLossHasACause
<1>1. IInv => EveryLossHasACause
  BY DEF IInv, MessageInv, CommittedInv, Handled, EveryLossHasACause
<1>2. QED
  BY <1>1, Invariance, PTL

\* Without poison messages there is nothing that can be skipped.
LEMMA CommittedIsHandled ==
  ASSUME Poison = {}, IInv, NEW m \in Messages, Committed(m) PROVE m \in Handled
<1>1. m \in Decodable
  BY DEF Poison
<1>2. QED
  BY <1>1 DEF IInv, MessageInv, CommittedInv

\* Without poison messages the group's offset is never ahead of a message that is
\* neither indexed, nor dead-lettered, nor written to a replay file: through
\* crashes, rebalances, failed commits and every answer of Elasticsearch.
THEOREM CommitSafety ==
  ASSUME Poison = {} PROVE Spec => []CommitSafe
<1>1. IInv => CommitSafe
  BY CommittedIsHandled DEF CommitSafe
<1>2. QED
  BY <1>1, Invariance, PTL

\* With poison messages among the others, a process that does not die still has
\* in its batch, or has handled, every message that decodes and was fetched.
THEOREM NothingIsForgotten == Spec => []NothingForgotten
<1>1. IInv => NothingForgotten
  BY DEF IInv, MessageInv, BehindInv, Lost, NothingForgotten
<1>2. QED
  BY <1>1, Invariance, PTL

\* Without poison messages the worker implements the hand-over of Handoff: it
\* acknowledges to Kafka only what is stored, and what is stored stays stored.
THEOREM WorkerHandsOver ==
  ASSUME Poison = {} PROVE Spec => HandsOver
<1>1. Init => Upstream!Init
  BY DEF Init, LoopsAtStart, Upstream!Init, Handled, Committed
<1>2. IInv /\ IInv' /\ [Next]_vars => [Upstream!Next]_(Upstream!vars)
  <2> SUFFICES ASSUME IInv, IInv', [Next]_vars PROVE Upstream!Next
    BY DEF Upstream!vars
  <2>1. Handled \subseteq Handled'
    BY HandledGrows DEF IInv
  <2>2. Handled' \subseteq Messages
    BY DecodableIsMessage DEF IInv, TypeInv, TypeOK, Handled
  <2>3. {m \in Messages : Committed(m)}' \subseteq Handled'
    BY DEF IInv, MessageInv, CommittedInv, Committed, Poison
  <2>4. QED
    BY <2>1, <2>2, <2>3 DEF Upstream!Next, Upstream!Store, Upstream!Acknowledge
<1>3. QED
  BY <1>1, <1>2, Invariance, PTL DEF Spec, HandsOver, Upstream!Spec

\* With poison messages too, Handled never shrinks, whatever fails and whenever the
\* process dies: a replay file goes only after its events are indexed or in the
\* dead-letter topic.  (Handled counts a file read while it was being written for all
\* that was written to it; LossesHaveACause speaks of those.)
THEOREM StoredStaysStored == Spec => [][Handled \subseteq Handled']_vars
<1>1. IInv /\ [Next]_vars => Handled \subseteq Handled'
  BY HandledGrows DEF IInv
<1>2. QED
  BY <1>1, Invariance, PTL DEF Spec

\* Without poison messages the race of writeReplay with replayOnce is the only one that is
\* left: NoRecordLost holds as long as no file was read too early.
THEOREM TornFilesAreTheOnlyLoss ==
  ASSUME Poison = {} PROVE Spec => [](torn = {} => NoRecordLost)
<1>1. IInv => (torn = {} => NoRecordLost)
  BY CommittedIsHandled DEF Handled, NoRecordLost
<1>2. QED
  BY <1>1, Invariance, PTL

-----------------------------------------------------------------------------
(* A flush and a pass of the replayer come to an end. *)

\* A batch has been fetched message by message.
FiniteInv == IsFiniteSet(batch) /\ IsFiniteSet(pending)

LEMMA FiniteStep == TypeInv /\ FiniteInv /\ [Next]_vars => FiniteInv'
<1> SUFFICES ASSUME TypeInv, FiniteInv, [Next]_vars PROVE FiniteInv'
  OBVIOUS
<1>1. CASE Flush
  <2>1. \/ batch' = batch
        \/ batch' = {}
    BY <1>1 DEF Flush, BulkIndex, SendPermanentFailures, SendPermanentFailuresFails,
       BackoffElapses, BackoffCancelled, WriteReplayOpen, WriteReplayEvent,
       WriteReplayFails, CommitBatch, CommitBatchFails, FlushFails
  <2>2. pending' \subseteq pending
    <3>1. ASSUME BulkIndex PROVE pending' \subseteq pending
      BY <3>1, AttemptCovers DEF BulkIndex
    <3>2. QED
      BY <1>1, <3>1 DEF Flush, SendPermanentFailures, SendPermanentFailuresFails,
         BackoffElapses, BackoffCancelled, WriteReplayOpen, WriteReplayEvent,
         WriteReplayFails, CommitBatch, CommitBatchFails, FlushFails
  <2>3. QED
    BY <2>1, <2>2, FS_Subset, FS_EmptySet DEF FiniteInv
<1>2. CASE ConsumeLoop
  <2>1. \/ batch' = batch
        \/ \E m \in Messages : batch' = batch \cup {m}
    BY <1>2 DEF ConsumeLoop, SelectDone, SelectTick, SelectDefault, FetchEvent, FetchPoison,
       FetchFails, SendPoison, SendPoisonFails, CommitPoison
  <2>2. pending' = pending \/ pending' = batch \/ pending' = batch'
    BY <1>2 DEF ConsumeLoop, SelectDone, SelectTick, SelectDefault, FetchEvent, FetchPoison,
       FetchFails, SendPoison, SendPoisonFails, CommitPoison, StartFlush
  <2>3. IsFiniteSet(batch')
    BY <2>1, FS_AddElement DEF FiniteInv
  <2>4. QED
    BY <2>2, <2>3 DEF FiniteInv
<1>3. CASE ReplayLoop
  <2>1. UNCHANGED <<batch, pending>>
    BY <1>3 DEF ReplayLoop, ReplayTick, ReplayRead, ReplayReadEmpty, ReplayReadFails,
       ReplayBulk, ReplayDLQ, ReplayDLQFails, ReplayRemove, ReplayRemoveFails, ReplayStop,
       consumerVars
  <2>2. QED
    BY <2>1 DEF FiniteInv
<1>4. CASE Environment
  <2>1. UNCHANGED <<batch, pending>> \/ (batch' = {} /\ pending' = {})
    BY <1>4 DEF Environment, Tick, Signal, Restart, Rebalance, consumerVars
  <2>2. QED
    BY <2>1, FS_EmptySet DEF FiniteInv
<1>5. CASE UNCHANGED vars
  BY <1>5 DEF vars, consumerVars, FiniteInv
<1>6. QED
  BY <1>1, <1>2, <1>3, <1>4, <1>5 DEF Next, Terminated

\* How many are left of a finite set, and that it is one less without x.
LEMMA FewerAreLeft ==
  ASSUME NEW S, IsFiniteSet(S), NEW T \in SUBSET S
  PROVE  /\ Cardinality(S) \in Nat /\ Cardinality(T) \in Nat
         /\ Cardinality(T) <= Cardinality(S)
  BY FS_Subset, FS_CardinalityType

LEMMA OneLessIsLeft ==
  ASSUME NEW S, IsFiniteSet(S), NEW x \in S, NEW T \in SUBSET (S \ {x})
  PROVE  /\ Cardinality(S) \in Nat /\ Cardinality(T) \in Nat
         /\ Cardinality(T) <= Cardinality(S) - 1
<1>1. /\ IsFiniteSet(S \ {x}) /\ Cardinality(S \ {x}) = Cardinality(S) - 1
  BY FS_RemoveElement
<1>2. QED
  BY <1>1, FewerAreLeft, FS_CardinalityType

LEMMA FlushWorkType ==
  ASSUME TypeInv, FiniteInv
  PROVE  FlushWork \in Nat /\ (pc \in FlushPcs => FlushWork > 0)
<1>1. /\ Cardinality(pending) \in Nat /\ Cardinality(pending \ content[fd]) \in Nat
  BY FewerAreLeft DEF FiniteInv
<1>2. RetryMax - attempt \in Nat
  BY DEF TypeInv, TypeOK
<1>3. QED
  BY <1>1, <1>2 DEF FlushWork, FlushPcs

LEMMA FlushNearer ==
  ASSUME TypeInv, DirInv, FiniteInv, FiniteInv', Flush PROVE FlushWork' < FlushWork
<1>1. FlushWork \in Nat /\ (pc \in FlushPcs => FlushWork > 0)
  BY FlushWorkType
<1>2. ASSUME pc \in FlushPcs, pc' = resume PROVE FlushWork' < FlushWork
  <2>1. pc' \notin FlushPcs
    BY <1>2 DEF TypeInv, TypeOK, FlushPcs
  <2>2. FlushWork' = 0
    BY <2>1 DEF FlushWork, FlushPcs
  <2>3. QED
    BY <1>1, <1>2, <2>2
<1> DEFINE left == Cardinality(pending)
<1>3. /\ left \in Nat /\ left' \in Nat
      /\ RetryMax \in Nat /\ attempt \in Nat /\ attempt <= RetryMax
  BY FewerAreLeft DEF FiniteInv, TypeInv, TypeOK
<1>4. CASE BulkIndex
  <2>1. PICK r \in BulkResults(pending) :
          /\ pending' = Left(r)
          /\ IF r.permanent # {} THEN pc' = "permanent" ELSE AfterAttempt(Left(r))
    BY <1>4 DEF BulkIndex
  <2>2. left' <= left
    BY <2>1, AttemptCovers, FewerAreLeft DEF FiniteInv
  <2>3. /\ pc = "bulk" /\ pc' \in {"permanent", "commit", "open", "backoff"}
        /\ attempt' = attempt
    BY <1>4, <2>1 DEF BulkIndex, AfterAttempt
  <2> HIDE DEF left
  <2>4. FlushWork = 3 * (RetryMax - attempt) + (left + 2) + 3
    BY <2>3 DEF FlushWork, left
  <2>5. \/ FlushWork' = 3 * (RetryMax - attempt) + (left' + 2) + 2
        \/ FlushWork' = 3 * (RetryMax - attempt) + (left' + 2) + 1
        \/ FlushWork' = left' + 2
        \/ FlushWork' = 1
    BY <2>3 DEF FlushWork, left
  <2>6. QED
    BY <1>3, <2>2, <2>4, <2>5
<1>5. CASE SendPermanentFailures
  <2>1. /\ pc = "permanent" /\ pc' \in {"commit", "open", "backoff"}
        /\ pending' = pending /\ attempt' = attempt
    BY <1>5 DEF SendPermanentFailures, AfterAttempt
  <2>2. left' = left
    BY <2>1
  <2> HIDE DEF left
  <2>3. FlushWork = 3 * (RetryMax - attempt) + (left + 2) + 2
    BY <2>1 DEF FlushWork, left
  <2>4. \/ FlushWork' = 3 * (RetryMax - attempt) + (left' + 2) + 1
        \/ FlushWork' = left' + 2
        \/ FlushWork' = 1
    BY <2>1 DEF FlushWork, left
  <2>5. QED
    BY <1>3, <2>2, <2>3, <2>4
<1>6. CASE BackoffElapses
  <2>1. /\ pc = "backoff" /\ pc' = "bulk"
        /\ pending' = pending /\ attempt' = attempt + 1
    BY <1>6 DEF BackoffElapses
  <2>2. left' = left
    BY <2>1
  <2> HIDE DEF left
  <2>3. FlushWork = 3 * (RetryMax - attempt) + (left + 2) + 1
    BY <2>1 DEF FlushWork, left
  <2>4. FlushWork' = 3 * (RetryMax - (attempt + 1)) + (left' + 2) + 3
    BY <2>1 DEF FlushWork, left
  <2>5. QED
    BY <1>3, <2>2, <2>3, <2>4
<1>7. CASE WriteReplayOpen
  <2>1. pc = "open" /\ pc' = "write" /\ pending' = pending
    BY <1>7 DEF WriteReplayOpen
  <2>2. Cardinality(pending \ content'[fd']) \in Nat /\ Cardinality(pending \ content'[fd']) <= left
    BY FewerAreLeft DEF FiniteInv
  <2>3. FlushWork = left + 2 /\ FlushWork' = Cardinality(pending \ content'[fd']) + 1
    BY <2>1 DEF FlushWork
  <2> HIDE DEF left
  <2>4. QED
    BY <1>3, <2>2, <2>3
<1>8. ASSUME NEW m \in pending, WriteReplayEvent(m) PROVE FlushWork' < FlushWork
  <2> DEFINE toWrite == pending \ content[fd]
  <2>1. IsFiniteSet(toWrite) /\ m \in toWrite /\ pc = "write"
    BY <1>8, FS_Subset DEF FiniteInv, WriteReplayEvent
  <2>2. FlushWork = Cardinality(toWrite) + 1
    BY <2>1 DEF FlushWork
  <2>3. Cardinality(toWrite) \in Nat /\ Cardinality(toWrite) >= 1
    BY <2>1, OneLessIsLeft, FS_EmptySet
  <2>4. CASE pending \subseteq content'[fd]
    <3>1. pc' = "commit"
      BY <1>8, <2>4 DEF WriteReplayEvent
    <3>2. FlushWork' = 1
      BY <3>1 DEF FlushWork
    <3> HIDE DEF toWrite
    <3>3. QED
      BY <2>2, <2>3, <3>2
  <2>5. CASE ~(pending \subseteq content'[fd])
    <3>1. pc' = "write" /\ fd' = fd /\ pending' = pending
      BY <1>8, <2>1, <2>5 DEF WriteReplayEvent
    <3>2. m \in content'[fd] /\ content[fd] \subseteq content'[fd]
      <4>1. fd \in Files /\ content \in [Files -> SUBSET Decodable]
        BY <2>1 DEF DirInv, OpenInv, TypeInv, TypeOK
      <4>2. content' = [content EXCEPT ![fd] = @ \cup {m}]
        BY <1>8 DEF WriteReplayEvent
      <4>3. QED
        BY <4>1, <4>2
    <3>3. toWrite' \in SUBSET (toWrite \ {m})
      BY <3>1, <3>2
    <3>4. Cardinality(toWrite') \in Nat /\ Cardinality(toWrite') <= Cardinality(toWrite) - 1
      BY <2>1, <3>3, OneLessIsLeft
    <3>5. FlushWork' = Cardinality(toWrite') + 1
      BY <3>1 DEF FlushWork
    <3> HIDE DEF toWrite
    <3>6. QED
      BY <2>2, <2>3, <3>4, <3>5
  <2>6. QED
    BY <2>4, <2>5
<1>9. CASE CommitBatch \/ CommitBatchFails \/ WriteReplayFails \/ BackoffCancelled
           \/ SendPermanentFailuresFails
  <2>1. pc \in FlushPcs /\ pc' = resume
    BY <1>9 DEF CommitBatch, CommitBatchFails, WriteReplayFails, BackoffCancelled,
       SendPermanentFailuresFails, FlushFails, FlushPcs
  <2>2. QED
    BY <1>2, <2>1
<1>10. QED
  BY <1>4, <1>5, <1>6, <1>7, <1>8, <1>9 DEF Flush

\* A flush always comes nearer to its end: three steps for each attempt, one for each
\* event it has to store, and no outcome of a call and no step of the replayer, Kafka or
\* a signal sets it back, for any batch and any RetryMax.
THEOREM FlushesAdvance == Spec => FlushAdvances
<1>1. FiniteInv /\ IInv /\ [Next]_vars => FiniteInv'
  BY FiniteStep DEF IInv
<1>2. Init => FiniteInv
  BY FS_EmptySet DEF Init, LoopsAtStart, FiniteInv
<1>3. /\ IInv /\ FiniteInv /\ FiniteInv' /\ [Next]_vars /\ pc \in FlushPcs
      => FlushWork' < FlushWork \/ (FlushWork' = FlushWork /\ UNCHANGED consumerVars)
  <2> SUFFICES ASSUME IInv, FiniteInv, FiniteInv', [Next]_vars, pc \in FlushPcs
               PROVE  \/ FlushWork' < FlushWork
                      \/ FlushWork' = FlushWork /\ UNCHANGED consumerVars
    OBVIOUS
  <2>1. CASE Flush
    BY <2>1, FlushNearer DEF IInv
  <2>2. CASE Restart
    <3>1. FlushWork' = 0
      BY <2>2 DEF Restart, FlushWork
    <3>2. FlushWork \in Nat /\ FlushWork > 0
      BY FlushWorkType DEF IInv
    <3>3. QED
      BY <3>1, <3>2
  <2>3. ~ConsumeLoop
    BY DEF FlushPcs, ConsumeLoop, SelectDone, SelectTick, SelectDefault, FetchEvent,
       FetchPoison, FetchFails, SendPoison, SendPoisonFails, CommitPoison
  <2>4. CASE ReplayLoop \/ Tick \/ Signal \/ Rebalance \/ UNCHANGED vars
    <3>1. UNCHANGED <<consumerVars, content>>
      BY <2>4 DEF ReplayLoop, ReplayTick, ReplayRead, ReplayReadEmpty, ReplayReadFails,
         ReplayBulk, ReplayDLQ, ReplayDLQFails, ReplayRemove, ReplayRemoveFails, ReplayStop,
         Tick, Signal, Rebalance, vars, diskVars
    <3>2. FlushWork' = FlushWork
      BY <3>1 DEF FlushWork, consumerVars
    <3>3. QED
      BY <3>1, <3>2
  <2>5. QED
    BY <2>1, <2>2, <2>3, <2>4 DEF Next, Environment, Terminated
<1>4. QED
  BY <1>1, <1>2, <1>3, Invariance, PTL DEF Spec, FlushAdvances

\* A pass has files left to look at, and the file being replayed is one of them.
PassInv ==
  /\ rpc = "next" => todo # {}
  /\ rpc \in {"bulk", "dlq", "remove"} => rfile \in todo

LEMMA PassStep == TypeInv /\ PassInv /\ [Next]_vars => PassInv'
<1> SUFFICES ASSUME TypeInv, PassInv, [Next]_vars PROVE PassInv'
  OBVIOUS
<1>1. CASE ReplayLoop
  BY <1>1 DEF PassInv, TypeInv, TypeOK, ReplayLoop, ReplayTick, ReplayRead, ReplayReadEmpty,
     ReplayReadFails, ReplayBulk, ReplayDLQ, ReplayDLQFails, ReplayRemove,
     ReplayRemoveFails, ReplayStop, GoOn
<1>2. CASE Restart
  BY <1>2 DEF Restart, PassInv
<1>3. CASE Flush
  BY <1>3 DEF PassInv, Flush, BulkIndex, SendPermanentFailures, SendPermanentFailuresFails,
     BackoffElapses, BackoffCancelled, WriteReplayOpen, WriteReplayEvent,
     WriteReplayFails, CommitBatch, CommitBatchFails, replayVars
<1>4. CASE ConsumeLoop
  BY <1>4 DEF PassInv, ConsumeLoop, SelectDone, SelectTick, SelectDefault, FetchEvent,
     FetchPoison, FetchFails, SendPoison, SendPoisonFails, CommitPoison, replayVars
<1>5. CASE Tick \/ Signal \/ Rebalance \/ UNCHANGED vars
  BY <1>5 DEF PassInv, Tick, Signal, Rebalance, vars, replayVars
<1>6. QED
  BY <1>1, <1>2, <1>3, <1>4, <1>5 DEF Next, Environment, Terminated

LEMMA TodoFinite == TypeInv => IsFiniteSet(todo)
<1>1. IsFiniteSet(Files)
  BY FS_Interval DEF Files
<1>2. QED
  BY <1>1, FS_Subset DEF TypeInv, TypeOK

\* A file that has been dealt with brings the pass four steps nearer to its end.
LEMMA FileDone ==
  ASSUME TypeInv, NEW f \in todo, GoOn(todo \ {f}) \/ GoOn({})
  PROVE  /\ Cardinality(todo) \in Nat /\ Cardinality(todo) >= 1
         /\ PassWork' \in Nat /\ PassWork' <= 4 * Cardinality(todo) - 4
<1>1. Cardinality(todo) \in Nat /\ Cardinality(todo) >= 1
  BY TodoFinite, OneLessIsLeft, FS_EmptySet
<1>2. CASE GoOn({})
  <2>1. PassWork' = 0
    BY <1>2 DEF GoOn, PassWork
  <2>2. QED
    BY <1>1, <2>1
<1>3. CASE GoOn(todo \ {f})
  <2>1. Cardinality(todo') \in Nat /\ Cardinality(todo') <= Cardinality(todo) - 1
    BY <1>3, TodoFinite, OneLessIsLeft DEF GoOn
  <2>2. PassWork' = 0 \/ PassWork' = 4 * Cardinality(todo')
    BY <1>3 DEF GoOn, PassWork
  <2>3. QED
    BY <1>1, <2>1, <2>2
<1>4. QED
  BY <1>2, <1>3

LEMMA PassNearer ==
  ASSUME TypeInv, PassInv, rpc \notin {"idle", "stopped"}, ReplayLoop
  PROVE  PassWork' < PassWork
<1> DEFINE left == Cardinality(todo)
<1>1. PICK f \in todo : rpc \in {"bulk", "dlq", "remove"} => f = rfile
  BY DEF PassInv, TypeInv, TypeOK, ReplayPcs
<1>2. left \in Nat /\ left >= 1
  BY <1>1, TodoFinite, OneLessIsLeft, FS_EmptySet
<1>3. /\ rpc = "next" => PassWork = 4 * left
      /\ rpc = "bulk" => PassWork = 4 * left - 1
      /\ rpc = "dlq" => PassWork = 4 * left - 2
      /\ rpc = "remove" => PassWork = 4 * left - 3
  BY DEF PassWork
<1>4. PassWork >= 4 * left - 3 /\ PassWork \in Int
  <2>1. rpc \in {"next", "bulk", "dlq", "remove"}
    BY DEF TypeInv, TypeOK, ReplayPcs
  <2> HIDE DEF left
  <2>2. QED
    BY <1>2, <1>3, <2>1
<1>5. ASSUME NEW g \in todo, GoOn(todo \ {g}) \/ GoOn({}) PROVE PassWork' < PassWork
  <2>1. PassWork' \in Nat /\ PassWork' <= 4 * left - 4
    BY <1>5, FileDone
  <2> HIDE DEF left
  <2>2. QED
    BY <1>2, <1>4, <2>1
<1>6. ASSUME rpc' \in {"bulk", "dlq", "remove"}, todo' = todo
      PROVE  /\ rpc' = "bulk" => PassWork' = 4 * left - 1
             /\ rpc' = "dlq" => PassWork' = 4 * left - 2
             /\ rpc' = "remove" => PassWork' = 4 * left - 3
  BY <1>6 DEF PassWork
<1>7. ASSUME NEW g \in todo, ReplayReadEmpty(g) \/ ReplayReadFails(g) PROVE PassWork' < PassWork
  BY <1>5, <1>7 DEF ReplayReadEmpty, ReplayReadFails
<1>8. CASE ReplayDLQFails \/ ReplayRemove \/ ReplayRemoveFails
  <2>1. GoOn(todo \ {f}) \/ GoOn({})
    BY <1>1, <1>8 DEF ReplayDLQFails, ReplayRemove, ReplayRemoveFails
  <2>2. QED
    BY <1>5, <2>1
<1>9. ASSUME NEW g \in todo, ReplayRead(g) PROVE PassWork' < PassWork
  <2>1. rpc = "next" /\ rpc' = "bulk" /\ todo' = todo
    BY <1>9 DEF ReplayRead
  <2>2. PassWork = 4 * left /\ PassWork' = 4 * left - 1
    BY <1>3, <1>6, <2>1
  <2> HIDE DEF left
  <2>3. QED
    BY <1>2, <2>2
<1>10. CASE ReplayBulk
  <2>1. \/ GoOn(todo \ {f})
        \/ rpc = "bulk" /\ rpc' \in {"dlq", "remove"} /\ todo' = todo
    BY <1>1, <1>10 DEF ReplayBulk
  <2>2. CASE rpc = "bulk" /\ rpc' \in {"dlq", "remove"} /\ todo' = todo
    <3>1. PassWork = 4 * left - 1 /\ PassWork' \in {4 * left - 2, 4 * left - 3}
      BY <1>3, <1>6, <2>2
    <3> HIDE DEF left
    <3>2. QED
      BY <1>2, <3>1
  <2>3. QED
    BY <1>5, <2>1, <2>2
<1>11. CASE ReplayDLQ
  <2>1. rpc = "dlq" /\ rpc' = "remove" /\ todo' = todo
    BY <1>11 DEF ReplayDLQ
  <2>2. PassWork = 4 * left - 2 /\ PassWork' = 4 * left - 3
    BY <1>3, <1>6, <2>1
  <2> HIDE DEF left
  <2>3. QED
    BY <1>2, <2>2
<1>12. ~ReplayTick /\ ~ReplayStop
  BY DEF ReplayTick, ReplayStop
<1>13. QED
  BY <1>7, <1>8, <1>9, <1>10, <1>11, <1>12 DEF ReplayLoop

\* A pass of the replayer always comes nearer to its end: at most four steps for each file,
\* for any number of files. One that cannot be read, indexed, dead-lettered or removed
\* keeps no other from being tried for ever, nor the process from stopping.
THEOREM PassesAdvance == Spec => PassAdvances
<1>1. IInv /\ PassInv /\ [Next]_vars => PassInv'
  BY PassStep DEF IInv
<1>2. Init => PassInv
  BY DEF Init, LoopsAtStart, PassInv
<1>3. IInv /\ PassInv /\ [Next]_vars /\ rpc \notin {"idle", "stopped"}
        => PassWork' < PassWork \/ UNCHANGED replayVars
  <2> SUFFICES ASSUME IInv, PassInv, [Next]_vars, rpc \notin {"idle", "stopped"}
               PROVE  PassWork' < PassWork \/ UNCHANGED replayVars
    OBVIOUS
  <2>1. CASE ReplayLoop
    BY <2>1, PassNearer DEF IInv
  <2>2. CASE Restart
    <3>1. PassWork' = 0
      BY <2>2 DEF Restart, PassWork
    <3>2. PICK f \in todo : TRUE
      BY DEF PassInv, IInv, TypeInv, TypeOK, ReplayPcs
    <3>3. Cardinality(todo) \in Nat /\ Cardinality(todo) >= 1
      BY <3>2, TodoFinite, OneLessIsLeft, FS_EmptySet DEF IInv
    <3>4. rpc \in {"next", "bulk", "dlq", "remove"}
      BY DEF IInv, TypeInv, TypeOK, ReplayPcs
    <3>5. QED
      BY <3>1, <3>3, <3>4 DEF PassWork
  <2>3. CASE Flush
    BY <2>3 DEF Flush, BulkIndex, SendPermanentFailures, SendPermanentFailuresFails,
       BackoffElapses, BackoffCancelled, WriteReplayOpen, WriteReplayEvent,
       WriteReplayFails, CommitBatch, CommitBatchFails
  <2>4. CASE ConsumeLoop
    BY <2>4 DEF ConsumeLoop, SelectDone, SelectTick, SelectDefault, FetchEvent,
       FetchPoison, FetchFails, SendPoison, SendPoisonFails, CommitPoison
  <2>5. CASE Tick \/ Signal \/ Rebalance \/ UNCHANGED vars
    BY <2>5 DEF Tick, Signal, Rebalance, vars
  <2>6. QED
    BY <2>1, <2>2, <2>3, <2>4, <2>5 DEF Next, Environment, Terminated
<1>4. QED
  BY <1>1, <1>2, <1>3, Invariance, PTL DEF Spec, PassAdvances
=============================================================================
