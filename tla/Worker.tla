-------------------------------- MODULE Worker --------------------------------
(***************************************************************************)
(* The log worker of src/internal/worker/service.go: one process with two  *)
(* goroutines that share Elasticsearch, the dead-letter topic and a        *)
(* directory of replay files.                                              *)
(*                                                                         *)
(*   consumeLoop  fetches messages of a consumer group, decodes them,      *)
(*                collects a batch, indexes it in bulk, sends permanent    *)
(*                failures to the dead-letter topic, writes what is left   *)
(*                after the retries to a replay file, commits the offsets; *)
(*   replayLoop   reads the replay files in name order, indexes them and   *)
(*                removes them.                                            *)
(*                                                                         *)
(* Every call that leaves the process (Kafka, Elasticsearch, a file) is a  *)
(* step of its own, so the two goroutines, a crash, a rebalance and the    *)
(* cancellation of the context interleave at those points.                 *)
(***************************************************************************)
EXTENDS Integers, FiniteSets

CONSTANTS
  Partitions,      \* partitions of the log topic this worker reads
  Messages,        \* the messages of those partitions
  PartitionOf,     \* message -> partition
  OffsetOf,        \* message -> offset
  Kind,            \* message -> how decode and the replay reader treat it
  BulkSize,        \* cfg.BulkSize
  RetryMax,        \* cfg.RetryMax
  Status,          \* per-item statuses Elasticsearch may answer
  MaxFiles,        \* bound: replay files one run of the model may create
  MaxRestarts,     \* bound: crashes or restarts of the process
  MaxRebalances    \* bound: rebalances; a restart begins a new generation too, and counts

\* "ok"      decodes, and its line in a replay file can be read back;
\* "long"    decodes, but its line exceeds the 64 KiB token of bufio.Scanner;
\* "badLine" valid JSON whose raw log line does not parse;
\* "badJson" a non-empty value that is not JSON at all.
Kinds == {"ok", "long", "badLine", "badJson"}

ASSUME WorkerAssumption ==
  /\ PartitionOf \in [Messages -> Partitions]
  /\ OffsetOf \in [Messages -> Nat]
  /\ Kind \in [Messages -> Kinds]
  /\ \A m, n \in Messages :
       PartitionOf[m] = PartitionOf[n] /\ OffsetOf[m] = OffsetOf[n] => m = n
  /\ BulkSize \in Nat \ {0}
  /\ RetryMax \in Nat
  /\ Status \subseteq Nat
  /\ MaxFiles \in Nat
  /\ MaxRestarts \in Nat
  /\ MaxRebalances \in Nat

ES == INSTANCE Elasticsearch

VARIABLES
  \* consumeLoop
  pc,          \* where it is
  resume,      \* where a running flush returns to
  batch,       \* messages taken from Kafka and not yet dealt with
  queued,      \* len(batch): a redelivered message is counted twice
  pending,     \* indexSafely: events still to be indexed
  permanent,   \* indexSafely: failures being sent to the dead-letter topic
  attempt,     \* indexSafely: number of the current attempt
  cur,         \* {the message that failed to decode}, or {}
  fd,          \* the replay file open for writing, or 0
  \* replayLoop
  rpc,         \* where it is
  todo,        \* files of the current pass not yet looked at
  rfile,       \* the file being replayed, or 0
  revents,     \* the events read from it
  rperm,       \* its permanent failures being sent to the dead-letter topic
  \* surroundings of the process
  ctxDone,     \* the context is cancelled
  tick,        \* the flush ticker's channel holds a tick
  restarts, rebalances,
  \* what outlives the process
  committed,   \* the group's committed offset of each partition
  position,    \* the reader's next offset of each partition (lost in a crash)
  indexed,     \* messages whose document reached Elasticsearch
  dlq,         \* messages that reached the dead-letter topic
  dir,         \* replay files in the directory
  content,     \* events written to each file, kept when the file is removed
  lastFile,    \* the newest file name
  torn         \* history: files replayOnce read while they were being written

consumerVars == <<pc, resume, batch, queued, pending, permanent, attempt, cur, fd>>
replayVars == <<rpc, todo, rfile, revents, rperm>>
envVars == <<ctxDone, tick, restarts, rebalances>>
kafkaVars == <<committed, position>>
diskVars == <<dir, content, lastFile>>
vars == <<consumerVars, replayVars, envVars, kafkaVars, indexed, dlq, diskVars, torn>>

Files == 1..MaxFiles

Decodable == {m \in Messages : Kind[m] \in {"ok", "long"}}
Poison == Messages \ Decodable

FlushPcs == {"bulk", "permanent", "backoff", "open", "write", "commit"}
ConsumerPcs == {"select", "fetch", "sendDLQ", "commitDLQ", "stopped"} \cup FlushPcs
ReplayPcs == {"idle", "next", "bulk", "dlq", "remove", "stopped"}

TypeOK ==
  /\ pc \in ConsumerPcs
  /\ resume \in {"select", "fetch", "stopped"}
  /\ batch \subseteq Decodable
  /\ queued \in Nat
  /\ pending \subseteq Decodable
  /\ permanent \subseteq Decodable
  /\ attempt \in 0..RetryMax
  /\ cur \subseteq Poison
  /\ fd \in Files \cup {0}
  /\ rpc \in ReplayPcs
  /\ todo \subseteq Files
  /\ rfile \in Files \cup {0}
  /\ revents \subseteq Decodable
  /\ rperm \subseteq Decodable
  /\ ctxDone \in BOOLEAN
  /\ tick \in BOOLEAN
  /\ restarts \in 0..MaxRestarts
  /\ rebalances \in 0..MaxRebalances
  /\ committed \in [Partitions -> Nat]
  /\ position \in [Partitions -> Nat]
  /\ indexed \subseteq Decodable
  /\ dlq \subseteq Messages
  /\ dir \subseteq Files
  /\ content \in [Files -> SUBSET Decodable]
  /\ lastFile \in Files \cup {0}
  /\ torn \subseteq Files

\* Both loops are at their beginning and hold nothing.
LoopsAtStart ==
  /\ pc = "select" /\ resume = "select"
  /\ batch = {} /\ queued = 0
  /\ pending = {} /\ permanent = {} /\ attempt = 0
  /\ cur = {} /\ fd = 0
  /\ rpc = "idle" /\ todo = {} /\ rfile = 0 /\ revents = {} /\ rperm = {}
  /\ ctxDone = FALSE /\ tick = FALSE
  /\ restarts = 0 /\ rebalances = 0

Init ==
  /\ LoopsAtStart
  /\ committed = [p \in Partitions |-> 0]
  /\ position = [p \in Partitions |-> 0]
  /\ indexed = {} /\ dlq = {}
  /\ dir = {} /\ content = [f \in Files |-> {}] /\ lastFile = 0
  /\ torn = {}

-----------------------------------------------------------------------------
(* Kafka, as the code uses it. *)

\* m is the message the reader hands out next for its partition.
IsNext(m) ==
  LET p == PartitionOf[m] IN
    /\ position[p] <= OffsetOf[m]
    /\ \A n \in Messages :
         PartitionOf[n] = p /\ position[p] <= OffsetOf[n] => OffsetOf[m] <= OffsetOf[n]

\* CommitMessages(S): the offset of each partition that occurs in S becomes the
\* one after the newest message of S there.
CommitMessages(S) ==
  \E newest \in [{PartitionOf[m] : m \in S} -> S] :
    /\ \A p \in DOMAIN newest :
         /\ PartitionOf[newest[p]] = p
         /\ \A m \in S : PartitionOf[m] = p => OffsetOf[m] <= OffsetOf[newest[p]]
    /\ committed' = [p \in Partitions |->
                       IF p \in DOMAIN newest THEN OffsetOf[newest[p]] + 1
                                              ELSE committed[p]]

-----------------------------------------------------------------------------
(* The flush closure, processBatch and indexSafely. *)

\* flush() with the batch b; it returns to `next'.
StartFlush(b, next) ==
  IF b = {}
  THEN pc' = next /\ UNCHANGED <<resume, pending, attempt>>
  ELSE pc' = "bulk" /\ resume' = next /\ pending' = b /\ attempt' = 0

\* Mutant of FlushFails: the batch is emptied before the error is looked at.
FlushFailsEmptied ==
  /\ pc' = resume /\ resume' = "select"
  /\ pending' = {} /\ permanent' = {} /\ attempt' = 0 /\ fd' = 0
  /\ batch' = {} /\ queued' = 0

\* processBatch returns an error: the batch stays for the next flush.
FlushFails ==
  /\ pc' = resume /\ resume' = "select"
  /\ pending' = {} /\ permanent' = {} /\ attempt' = 0 /\ fd' = 0
  /\ UNCHANGED <<batch, queued>>

\* Mutant of Left: an error without retryable items leaves nothing to do.
LeftNothing(r) == r.retryable

\* The events an attempt with result r leaves to be indexed: without an answer
\* all of them.
Left(r) == IF r.retryable # {} THEN r.retryable ELSE IF r.err THEN pending ELSE {}

\* Mutant of AfterAttempt: one attempt too many.
AfterAttemptOneMore(left) ==
  pc' = IF left = {} THEN "commit" ELSE IF attempt > RetryMax THEN "open" ELSE "backoff"

\* Where indexSafely goes after an attempt that left `left' to be indexed.
AfterAttempt(left) ==
  pc' = IF left = {} THEN "commit" ELSE IF attempt = RetryMax THEN "open" ELSE "backoff"

\* What a bulk request may return: under a cancelled context only an error.
BulkResults(events) == IF ctxDone THEN ES!Failed(events) ELSE ES!BulkIndex(events)

BulkIndex ==
  /\ pc = "bulk"
  /\ \E r \in BulkResults(pending) :
       /\ indexed' = indexed \cup r.indexed
       /\ pending' = Left(r)
       /\ permanent' = r.permanent
       /\ IF r.permanent # {} THEN pc' = "permanent" ELSE AfterAttempt(Left(r))
  /\ UNCHANGED <<resume, batch, queued, attempt, cur, fd, replayVars, envVars,
                 kafkaVars, dlq, diskVars, torn>>

SendPermanentFailures ==
  /\ pc = "permanent"
  /\ dlq' = dlq \cup permanent
  /\ permanent' = {}
  /\ AfterAttempt(pending)
  /\ UNCHANGED <<resume, batch, queued, pending, attempt, cur, fd, replayVars,
                 envVars, kafkaVars, indexed, diskVars, torn>>

\* Some sends may have succeeded, and the failed one may still have landed.
SendPermanentFailuresFails ==
  /\ pc = "permanent"
  /\ \E landed \in SUBSET permanent : dlq' = dlq \cup landed
  /\ FlushFails
  /\ UNCHANGED <<cur, replayVars, envVars, kafkaVars, indexed, diskVars, torn>>

\* Mutant of BackoffElapses: the attempt is not counted.
BackoffElapsesUncounted ==
  /\ pc = "backoff"
  /\ pc' = "bulk"
  /\ UNCHANGED <<resume, batch, queued, pending, permanent, attempt, cur, fd, replayVars,
                 envVars, kafkaVars, indexed, dlq, diskVars, torn>>

BackoffElapses ==
  /\ pc = "backoff"
  /\ attempt' = attempt + 1
  /\ pc' = "bulk"
  /\ UNCHANGED <<resume, batch, queued, pending, permanent, cur, fd, replayVars,
                 envVars, kafkaVars, indexed, dlq, diskVars, torn>>

BackoffCancelled ==
  /\ pc = "backoff" /\ ctxDone
  /\ FlushFails
  /\ UNCHANGED <<cur, replayVars, envVars, kafkaVars, indexed, dlq, diskVars, torn>>

\* writeReplay creates the file under its final name ...
WriteReplayOpen ==
  /\ pc = "open" /\ lastFile < MaxFiles
  /\ lastFile' = lastFile + 1
  /\ dir' = dir \cup {lastFile'}
  /\ fd' = lastFile'
  /\ pc' = "write"
  /\ UNCHANGED <<resume, batch, queued, pending, permanent, attempt, cur, replayVars,
                 envVars, kafkaVars, indexed, dlq, content, torn>>

\* ... and writes it event by event, reaching the inode even if it was unlinked.
WriteReplayEvent(m) ==
  /\ pc = "write" /\ m \in pending \ content[fd]
  /\ content' = [content EXCEPT ![fd] = @ \cup {m}]
  /\ IF pending \subseteq content'[fd]
     THEN pc' = "commit" /\ fd' = 0 /\ pending' = {}
     ELSE UNCHANGED <<pc, fd, pending>>
  /\ UNCHANGED <<resume, batch, queued, permanent, attempt, cur, replayVars, envVars,
                 kafkaVars, indexed, dlq, dir, lastFile, torn>>

\* No directory, no file or no space; a half-written file stays.
WriteReplayFails ==
  /\ pc \in {"open", "write"}
  /\ FlushFails
  /\ UNCHANGED <<cur, replayVars, envVars, kafkaVars, indexed, dlq, diskVars, torn>>

CommitBatch ==
  /\ pc = "commit"
  /\ CommitMessages(batch)
  /\ batch' = {} /\ queued' = 0
  /\ pending' = {} /\ permanent' = {} /\ attempt' = 0
  /\ pc' = resume /\ resume' = "select"
  /\ UNCHANGED <<cur, fd, replayVars, envVars, position, indexed, dlq, diskVars, torn>>

\* The commit may have reached the broker although the call failed.
CommitBatchFails ==
  /\ pc = "commit"
  /\ CommitMessages(batch) \/ UNCHANGED committed
  /\ FlushFails
  /\ UNCHANGED <<cur, replayVars, envVars, position, indexed, dlq, diskVars, torn>>

-----------------------------------------------------------------------------
(* The loop of consumeLoop: select, fetch, decode, append. *)

SelectDone ==
  /\ pc = "select" /\ ctxDone
  /\ StartFlush(batch, "stopped")
  /\ UNCHANGED <<batch, queued, permanent, cur, fd, replayVars, envVars, kafkaVars,
                 indexed, dlq, diskVars, torn>>

\* After the flush the loop goes on to FetchMessage, not back to select.
SelectTick ==
  /\ pc = "select" /\ tick
  /\ tick' = FALSE
  /\ StartFlush(batch, "fetch")
  /\ UNCHANGED <<batch, queued, permanent, cur, fd, replayVars, ctxDone, restarts,
                 rebalances, kafkaVars, indexed, dlq, diskVars, torn>>

SelectDefault ==
  /\ pc = "select" /\ ~ctxDone /\ ~tick
  /\ pc' = "fetch"
  /\ UNCHANGED <<resume, batch, queued, pending, permanent, attempt, cur, fd, replayVars,
                 envVars, kafkaVars, indexed, dlq, diskVars, torn>>

\* FetchMessage returns m, which decodes.
FetchEvent(m) ==
  /\ pc = "fetch" /\ IsNext(m) /\ m \in Decodable
  /\ position' = [position EXCEPT ![PartitionOf[m]] = OffsetOf[m] + 1]
  /\ batch' = batch \cup {m}
  /\ queued' = queued + 1
  /\ IF queued' >= BulkSize
     THEN StartFlush(batch', "select")
     ELSE pc' = "select" /\ UNCHANGED <<resume, pending, attempt>>
  /\ UNCHANGED <<permanent, cur, fd, replayVars, envVars, committed, indexed, dlq,
                 diskVars, torn>>

\* FetchMessage returns m, which does not decode.
FetchPoison(m) ==
  /\ pc = "fetch" /\ IsNext(m) /\ m \in Poison
  /\ position' = [position EXCEPT ![PartitionOf[m]] = OffsetOf[m] + 1]
  /\ cur' = {m}
  /\ pc' = "sendDLQ"
  /\ UNCHANGED <<resume, batch, queued, pending, permanent, attempt, fd, replayVars,
                 envVars, committed, indexed, dlq, diskVars, torn>>

FetchFails ==
  /\ pc = "fetch"
  /\ IF ctxDone THEN StartFlush(batch, "stopped")
                ELSE pc' = "select" /\ UNCHANGED <<resume, pending, attempt>>
  /\ UNCHANGED <<batch, queued, permanent, cur, fd, replayVars, envVars, kafkaVars,
                 indexed, dlq, diskVars, torn>>

\* The value goes into the DLQ record as a json.RawMessage, so json.Marshal
\* refuses one that is not JSON and nothing is sent.
SendPoison ==
  /\ pc = "sendDLQ"
  /\ \A m \in cur : Kind[m] # "badJson"
  /\ dlq' = dlq \cup cur
  /\ pc' = "commitDLQ"
  /\ UNCHANGED <<resume, batch, queued, pending, permanent, attempt, cur, fd, replayVars,
                 envVars, kafkaVars, indexed, diskVars, torn>>

SendPoisonFails ==
  /\ pc = "sendDLQ"
  /\ \E landed \in SUBSET {m \in cur : Kind[m] # "badJson"} : dlq' = dlq \cup landed
  /\ cur' = {}
  /\ pc' = "select"
  /\ UNCHANGED <<resume, batch, queued, pending, permanent, attempt, fd, replayVars,
                 envVars, kafkaVars, indexed, diskVars, torn>>

\* CommitMessages of the poison message alone; an error is only logged.
CommitPoison ==
  /\ pc = "commitDLQ"
  /\ CommitMessages(cur) \/ UNCHANGED committed
  /\ cur' = {}
  /\ pc' = "select"
  /\ UNCHANGED <<resume, batch, queued, pending, permanent, attempt, fd, replayVars,
                 envVars, position, indexed, dlq, diskVars, torn>>

-----------------------------------------------------------------------------
(* replayLoop and replayOnce. *)

\* The pass goes on with the files of `rest', or ends.
GoOn(rest) ==
  /\ todo' = rest
  /\ rpc' = IF rest = {} THEN "idle" ELSE "next"
  /\ rfile' = 0 /\ revents' = {} /\ rperm' = {}

ReplayTick ==
  /\ rpc = "idle" /\ dir # {}
  /\ GoOn(dir)
  /\ UNCHANGED <<consumerVars, envVars, kafkaVars, indexed, dlq, diskVars, torn>>

IsFirst(f) == f \in todo /\ \A g \in todo : f <= g

Readable(f) == \A m \in content[f] : Kind[m] # "long"

\* The file is read to its present end.
ReplayRead(f) ==
  /\ rpc = "next" /\ IsFirst(f) /\ Readable(f) /\ content[f] # {}
  /\ rpc' = "bulk" /\ rfile' = f /\ revents' = content[f]
  /\ torn' = IF f = fd THEN torn \cup {f} ELSE torn
  /\ UNCHANGED <<todo, rperm, consumerVars, envVars, kafkaVars, indexed, dlq, diskVars>>

\* A file without events is removed; an error of os.Remove is ignored.
ReplayReadEmpty(f) ==
  /\ rpc = "next" /\ IsFirst(f) /\ content[f] = {}
  /\ dir' = dir \ {f} \/ UNCHANGED dir
  /\ torn' = IF f = fd THEN torn \cup {f} ELSE torn
  /\ GoOn(todo \ {f})
  /\ UNCHANGED <<consumerVars, envVars, kafkaVars, indexed, dlq, content, lastFile>>

\* Mutant of ReplayReadFails: the error ends the pass.
ReplayReadFailsEndsPass(f) ==
  /\ rpc = "next" /\ IsFirst(f)
  /\ GoOn({})
  /\ UNCHANGED <<consumerVars, envVars, kafkaVars, indexed, dlq, diskVars, torn>>

\* An I/O error, a line cut short, or a line the scanner cannot hold.
ReplayReadFails(f) ==
  /\ rpc = "next" /\ IsFirst(f)
  /\ GoOn(todo \ {f})
  /\ UNCHANGED <<consumerVars, envVars, kafkaVars, indexed, dlq, diskVars, torn>>

\* Mutant of StaysSpooled: only the error of the request counts.
StaysSpooledOnError(r) == r.err

\* The file is kept for the next pass.
StaysSpooled(r) == r.err \/ r.retryable # {}

ReplayBulk ==
  /\ rpc = "bulk"
  /\ \E r \in BulkResults(revents) :
       /\ indexed' = indexed \cup r.indexed
       /\ IF StaysSpooled(r)
          THEN GoOn(todo \ {rfile})
          ELSE /\ rpc' = IF r.permanent = {} THEN "remove" ELSE "dlq"
               /\ rperm' = r.permanent
               /\ UNCHANGED <<todo, rfile, revents>>
  /\ UNCHANGED <<consumerVars, envVars, kafkaVars, dlq, diskVars, torn>>

ReplayDLQ ==
  /\ rpc = "dlq"
  /\ dlq' = dlq \cup rperm
  /\ rperm' = {}
  /\ rpc' = "remove"
  /\ UNCHANGED <<todo, rfile, revents, consumerVars, envVars, kafkaVars, indexed,
                 diskVars, torn>>

\* The error ends the pass: the files after this one wait for the next one.
ReplayDLQFails ==
  /\ rpc = "dlq"
  /\ \E landed \in SUBSET rperm : dlq' = dlq \cup landed
  /\ GoOn({})
  /\ UNCHANGED <<consumerVars, envVars, kafkaVars, indexed, diskVars, torn>>

ReplayRemove ==
  /\ rpc = "remove"
  /\ dir' = dir \ {rfile}
  /\ GoOn(todo \ {rfile})
  /\ UNCHANGED <<consumerVars, envVars, kafkaVars, indexed, dlq, content, lastFile, torn>>

\* Mutant of ReplayRemoveFails: the file is replayed again at once.
ReplayRemoveFailsRetried ==
  /\ rpc = "remove"
  /\ GoOn(todo)
  /\ UNCHANGED <<consumerVars, envVars, kafkaVars, indexed, dlq, diskVars, torn>>

ReplayRemoveFails ==
  /\ rpc = "remove"
  /\ GoOn({})
  /\ UNCHANGED <<consumerVars, envVars, kafkaVars, indexed, dlq, diskVars, torn>>

\* Mutant of ReplayStop: the directory is to be emptied first.
ReplayStopDrained ==
  /\ rpc = "idle" /\ ctxDone /\ dir = {}
  /\ rpc' = "stopped"
  /\ UNCHANGED <<todo, rfile, revents, rperm, consumerVars, envVars, kafkaVars, indexed,
                 dlq, diskVars, torn>>

ReplayStop ==
  /\ rpc = "idle" /\ ctxDone
  /\ rpc' = "stopped"
  /\ UNCHANGED <<todo, rfile, revents, rperm, consumerVars, envVars, kafkaVars, indexed,
                 dlq, diskVars, torn>>

-----------------------------------------------------------------------------
(* The surroundings: ticker, signal, crash, rebalance. *)

Tick ==
  /\ pc # "stopped" /\ ~tick
  /\ tick' = TRUE
  /\ UNCHANGED <<consumerVars, replayVars, ctxDone, restarts, rebalances, kafkaVars,
                 indexed, dlq, diskVars, torn>>

\* SIGINT or SIGTERM cancels the context both loops run under.
Signal ==
  /\ ~ctxDone
  /\ ctxDone' = TRUE
  /\ UNCHANGED <<consumerVars, replayVars, tick, restarts, rebalances, kafkaVars,
                 indexed, dlq, diskVars, torn>>

\* The process dies, or has stopped, and is started again: a new reader begins
\* at the committed offsets, and the replay directory is as it was left.
Restart ==
  /\ restarts < MaxRestarts
  /\ restarts' = restarts + 1
  /\ pc' = "select" /\ resume' = "select"
  /\ batch' = {} /\ queued' = 0
  /\ pending' = {} /\ permanent' = {} /\ attempt' = 0 /\ cur' = {} /\ fd' = 0
  /\ rpc' = "idle" /\ todo' = {} /\ rfile' = 0 /\ revents' = {} /\ rperm' = {}
  /\ ctxDone' = FALSE /\ tick' = FALSE
  /\ position' = committed
  /\ UNCHANGED <<rebalances, committed, indexed, dlq, diskVars, torn>>

\* A new generation of the consumer group: the reader starts over at the
\* committed offsets while the batch stays in memory.
Rebalance ==
  /\ pc # "stopped" /\ restarts + rebalances < MaxRebalances
  /\ rebalances' = rebalances + 1
  /\ position' = committed
  /\ UNCHANGED <<consumerVars, replayVars, ctxDone, tick, restarts, committed, indexed,
                 dlq, diskVars, torn>>

\* Both goroutines have returned: nothing is left to do.
Terminated == pc = "stopped" /\ rpc = "stopped" /\ UNCHANGED vars

Flush ==
  \/ BulkIndex \/ SendPermanentFailures \/ SendPermanentFailuresFails
  \/ BackoffElapses \/ BackoffCancelled
  \/ WriteReplayOpen \/ (\E m \in pending : WriteReplayEvent(m)) \/ WriteReplayFails
  \/ CommitBatch \/ CommitBatchFails

ConsumeLoop ==
  \/ SelectDone \/ SelectTick \/ SelectDefault
  \/ (\E m \in Messages : FetchEvent(m) \/ FetchPoison(m)) \/ FetchFails
  \/ SendPoison \/ SendPoisonFails \/ CommitPoison

ReplayLoop ==
  \/ ReplayTick
  \/ (\E f \in todo : ReplayRead(f) \/ ReplayReadEmpty(f) \/ ReplayReadFails(f))
  \/ ReplayBulk \/ ReplayDLQ \/ ReplayDLQFails \/ ReplayRemove \/ ReplayRemoveFails
  \/ ReplayStop

Environment == Tick \/ Signal \/ Restart \/ Rebalance

Next == Flush \/ ConsumeLoop \/ ReplayLoop \/ Environment \/ Terminated

Spec == Init /\ [][Next]_vars
-----------------------------------------------------------------------------
(* Fairness. *)

\* Every call returns, with an answer or an error, and Go schedules both
\* goroutines; a select with two ready cases picks each of them again and again.
\* Only FetchMessage may wait for ever, until the context is cancelled.
GoroutinesRun ==
  /\ WF_vars(Flush \/ SelectDone \/ SelectTick \/ SelectDefault
             \/ SendPoison \/ SendPoisonFails \/ CommitPoison \/ (ctxDone /\ FetchFails))
  /\ WF_vars(ReplayLoop)
  /\ SF_vars(ReplayStop)
  /\ WF_vars(Tick)

\* The broker delivers what is there, however often a fetch fails.
KafkaDelivers == SF_vars(\E m \in Messages : FetchEvent(m) \/ FetchPoison(m))

\* No outage lasts: the calls of the replayer that are tried again and again
\* succeed in the end.
OutagesEnd ==
  /\ SF_vars(\E f \in todo : ReplayRead(f) \/ (ReplayReadEmpty(f) /\ f \notin dir'))
  /\ SF_vars(ReplayBulk /\ rpc' \in {"remove", "dlq"})
  /\ SF_vars(ReplayDLQ)
  /\ SF_vars(ReplayRemove)

Fairness == GoroutinesRun /\ KafkaDelivers /\ OutagesEnd

FairSpec == Spec /\ Fairness

-----------------------------------------------------------------------------
(* What the worker promises. *)

\* Messages that need not be delivered again: indexed, dead-lettered, or in a
\* replay file.  A file the replayer read while it was still being written
\* counts for all that was ever written to it: what becomes of such a file is
\* the business of NoRecordLost alone.
Handled == indexed \cup dlq \cup UNION {content[f] : f \in dir \cup torn}

Committed(m) == OffsetOf[m] < committed[PartitionOf[m]]
Fetched(m) == OffsetOf[m] < position[PartitionOf[m]]

\* docs/architecture.md:30: "Kafka offsets are committed only after indexing,
\* DLQ, or durable worker replay storage."
CommitSafe == \A m \in Messages : Committed(m) => m \in Handled

\* As long as the process lives, a message that decodes is never forgotten: once
\* the reader or the group is past it, it is in the batch or handled, whatever
\* calls fail, generations change and poison messages are committed around it.
NothingForgotten ==
  restarts = 0 =>
    \A m \in Decodable : Fetched(m) \/ Committed(m) => m \in batch \cup Handled

\* docs/architecture.md:27, "Accepted input is not dropped": a committed message
\* is in Elasticsearch, in the dead-letter topic, or in a file that is there.
NoRecordLost ==
  \A m \in Messages :
    Committed(m) => m \in indexed \cup dlq \cup UNION {content[f] : f \in dir}

\* The group has moved past m by the commit of a poison message behind it.
SkippedBy(x, m) ==
  /\ x \in Poison /\ PartitionOf[x] = PartitionOf[m] /\ OffsetOf[m] < OffsetOf[x]
  /\ Committed(x)

\* A readable message that is committed and nowhere was lost in one of two ways: a
\* replay file that held it was read before it was complete, or a poison message
\* behind it was committed on its own.  No crash, rebalance, failing call or answer
\* of Elasticsearch is a third one.
EveryLossHasACause ==
  \A m \in Decodable :
    Committed(m) /\ m \notin indexed \cup dlq \cup UNION {content[f] : f \in dir}
      => \/ \E f \in torn \ dir : m \in content[f]
         \/ \E x \in Poison : SkippedBy(x, m)

\* docs/architecture.md:21, "Poison records and permanent document failures are
\* written to logs.dlq": the group does not move past an undecodable message that
\* is not there.
PoisonDeadLettered == \A m \in Poison : Committed(m) => m \in dlq

\* The worker implements the hand-over of messages from Kafka to storage.
Upstream == INSTANCE Handoff WITH
  Item <- Messages, stored <- Handled, acked <- {m \in Messages : Committed(m)}

HandsOver == Upstream!Spec

\* A flush ends: the attempts run out, and the batch is committed or kept for
\* the next flush, whatever fails (service.go:250-298).
FlushEnds == pc \in FlushPcs ~> pc \in {"select", "fetch", "stopped"}

\* At most so many steps of indexSafely and processBatch are left of a flush: three for
\* each attempt, then the events to be written to the replay file, and the commit.
FlushWork ==
  LET attempts == 3 * (RetryMax - attempt)
      storing == Cardinality(pending) + 2
  IN CASE pc = "bulk"      -> attempts + storing + 3
       [] pc = "permanent" -> attempts + storing + 2
       [] pc = "backoff"   -> attempts + storing + 1
       [] pc = "open"      -> storing
       [] pc = "write"     -> Cardinality(pending \ content[fd]) + 1
       [] pc = "commit"    -> 1
       [] OTHER            -> 0

\* Why FlushEnds holds: whatever an attempt, a send, a write or a commit returns, the
\* flush is nearer to its end, and nothing the replayer, Kafka or a signal does sets it
\* back (service.go:250-298).
FlushAdvances ==
  [][(pc \in FlushPcs) =>
       FlushWork' < FlushWork \/ (FlushWork' = FlushWork /\ UNCHANGED consumerVars)]_vars

\* At most so many steps of replayOnce are left of a pass: four for each file.
PassWork ==
  LET files == 4 * Cardinality(todo)
  IN CASE rpc = "next"   -> files
       [] rpc = "bulk"   -> files - 1
       [] rpc = "dlq"    -> files - 2
       [] rpc = "remove" -> files - 3
       [] OTHER          -> 0

\* Why a file that cannot be read, indexed or removed does not hold up the files behind
\* it, nor the shutdown: each step of a pass brings its end nearer, whatever it returns
\* (service.go:361-407).
PassAdvances ==
  [][(rpc \notin {"idle", "stopped"}) => PassWork' < PassWork \/ UNCHANGED replayVars]_vars

\* requirements/implementation-plan.md: the worker shuts down gracefully.  Once
\* the context is cancelled both loops return, whatever they were waiting for.
ShutdownEnds == ctxDone ~> (pc = "stopped" /\ rpc = "stopped") \/ ~ctxDone

\* docs/architecture.md:31: a file of the replay directory whose lines can be read is
\* replayed and removed once the outage is over, though files before it in the order of
\* names can never be read (line 385) or end the passes again and again (lines 398-406).
ReplayDrains ==
  \A f \in Files : (f \in dir /\ f # fd /\ Readable(f)) ~> (f \notin dir \/ ctxDone)

\* requirements/full-workflow-diagram.md:31, "Bulk Buffer size/time flush": a
\* message does not wait in the batch for others to arrive.
BatchIsFlushed == batch # {} ~> (pc \in FlushPcs \/ ctxDone)
=============================================================================
