# Log-Service in TLA+

A verification project for the log service: TLA+ modules translated from the Go
source, TLC configurations that model-check them on small instances, and theorems
that TLAPS checks for every value of the constants.

## 1. The system

```
generator --POST--> log API ----> Kafka logs.raw --> log worker --> Elasticsearch
                     |    ^                             |    |           |
                     v    | replay                      |    +--> Kafka logs.dlq
                   spool directory               replay directory        |
                                                                      dashboard
```

| Component | State it keeps | Operations | Talks to |
|---|---|---|---|
| Ingestion handler (`internal/ingestion`) | `inFlight` semaphore; per request: context, events | `ServeHTTP`: admit, decode, validate, publish, fall back to the spool, answer | Kafka producer, spool writer, metrics |
| Spool writer (`internal/spool/writer.go`) | the spool directory | `Write` (capacity walk, `.tmp` file, rename), `ReadFile`, `State` | disk |
| Spool replayer (`internal/spool/replayer.go`) | current pass over the directory | `ReplayOnce`: read, publish, remove | spool directory, Kafka producer |
| Kafka producer (`internal/kafka`) | kafka-go writer | `Publish` | Kafka |
| Log worker, `consumeLoop` (`internal/worker/service.go`) | `batch`, ticker, position in `indexSafely` | fetch, decode, bulk index, retry, dead-letter, write a replay file, commit | Kafka, Elasticsearch, replay directory |
| Log worker, `replayLoop` | current pass over the replay directory | read, bulk index, dead-letter, remove | replay directory, Elasticsearch, Kafka |
| Elasticsearch client (`internal/storage`) | none | `BulkIndex`: indexed / retryable / permanent | Elasticsearch |
| Processes (`cmd/log-api`, `cmd/log-worker`) | the signal context | start, signal, shutdown | all of the above |
| API metrics, worker stats | atomic counters, last spool state, dimension map | observe, snapshot, overload mode | `/stats` |
| Dashboard API (`internal/dashboard`) | `seen` set of each live stream | queries, live stream | Elasticsearch, `/stats` |
| Dashboard page (`web/dashboard/index.html`) | its `EventSource`, the lines it shows | open, close, prepend a line | dashboard API |
| Log generator (`cmd/log-generator`) | counters; each client's batch and attempt | send a batch in up to three attempts, end the run | log API |
| Parser, events, configuration | none | pure functions | - |

What makes the parts correct, and what is hard about them:

- **Handler and spool.** A 202 means the records are in Kafka or in the spool, and
  stay there until they are in Kafka. Hard: many handlers and the replayer share one
  directory without a lock; a publish that fails may have written some records; the
  deadline of the request spans both attempts; a crash may fall between any two steps.
  The capacity check, the semaphore and the shutdown have limits that only several
  requests together can break.
- **Worker.** An offset is committed only when every message before it is indexed,
  dead-lettered or in a replay file. Hard: a failed flush keeps the batch while the
  loop fetches on; undecodable messages are committed on their own; retries split the
  batch into indexed, retryable and permanent events; the replayer works on the
  directory the consumer is writing to; crash, rebalance and cancellation come at any
  time; a redelivered message is in the batch twice.
- **Generator.** What it reports as sent is stored, and each batch is reported once. Hard: an
  attempt the client has given up may still arrive and be handled while the next one is on its way, and the
  run may end during a call or a back-off.
- **Live stream.** A record is shown once, the newest on top, and not left out. Hard: a poll sees 25 logs
  of a window that moves; polls overlap; a record has a document for each redelivery; records become visible out of
  order; each new connection starts with an empty `seen`.
- **Worker and API.** What was stored during an outage is delivered when the outage is over, and
  a signal ends the process from every state.

`PROJECT.json` lists the hazards line by line, with the properties that cover them.

## 2. The modules

| Module | What it is |
|---|---|
| `Handoff` | The abstract promise of every stage: items are stored and stay stored; only stored items are acknowledged. |
| `HandoffProofs` | What that promise means for an item. |
| `Elasticsearch` | What one `BulkIndex(ctx, events)` may do to the index and may return. Instantiated by `Worker`. |
| `Worker` | The log worker: `consumeLoop`, `replayLoop`, Kafka and the environment. |
| `MCWorker` | Constants for TLC. |
| `WorkerProofs` | Theorems about `Worker`. |
| `LogApi` | The log API: handlers, spool writer, spool replayer, producer, shutdown. |
| `MCLogApi` | Constants for TLC. |
| `LogApiProofs` | Theorems about `LogApi`. |
| `ApiStats` | What `/stats` of the log API reports: counters and spool gauge, and the snapshot that reads them. |
| `MCApiStats` | Constants for TLC. |
| `ApiStatsProofs` | Theorems about `ApiStats`. |
| `Generator` | The log generator, composed with `LogApi`: its clients send the requests that `LogApi` handles. |
| `MCGenerator` | Constants for TLC. |
| `GeneratorProofs` | Theorems about the generator and about the composition. |
| `Dashboard` | The live stream: the page, the handler of its connection, and the search. |
| `MCDashboard` | Constants for TLC. |
| `DashboardProofs` | Theorems about `Dashboard`. |

`Worker` and `LogApi` implement `Handoff`; `Worker` instantiates `Elasticsearch`. `ApiStats` looks at
the same handlers and the same replayer as `LogApi`, from another side: `LogApi` says when a record is published,
spooled or refused, `ApiStats` lets each of these happen and says what is counted and observed on the way.
`Generator` extends `LogApi`: a step of the composed system is a step of the API or of a client, and the client reads the
handler's `answer`. `Dashboard` meets the worker in the documents that become visible to searches.

### Worker

`pc` and `rpc` are the program counters of the two goroutines that `Service.Run`
starts. An action is the code between two calls that leave the process, up to and
including the second call's effect: `BulkIndex` is one round of the loop of
`indexSafely` up to the dead-letter calls, `WriteReplayOpen` is `os.OpenFile`,
`WriteReplayEvent` one `Encode`, `CommitBatch` the commit together with the assignments
of the `flush` closure that follow it. Every call has a failing variant
(`...Fails`), and a failing call that reaches another system may have done its work: a
failed send may have landed, a failed commit may have been stored, a failed bulk
request may have indexed any part of its documents.

| Variables | Code |
|---|---|
| `batch`, `queued` | the slice `batch`; `queued` is its length, which counts a redelivered message twice |
| `pending`, `permanent`, `attempt` | locals of `indexSafely` |
| `resume` | what the loop does after `flush()` returns: `continue` with select, go on to `FetchMessage` (after a tick), or return |
| `cur` | the message that did not decode |
| `fd`, `dir`, `content`, `lastFile` | the open replay file and the replay directory; files are numbered in the order of their time-stamped names, and `content` stays when the name is removed, because the writer's descriptor still works |
| `todo`, `rfile`, `revents`, `rperm` | locals of `replayOnce` |
| `ctxDone`, `tick` | the context; the ticker's channel of capacity one |
| `committed`, `position` | Kafka's group offset and the reader's next offset, by partition |
| `indexed`, `dlq` | what reached Elasticsearch and the dead-letter topic at least once |
| `torn` | history: files that were read while they were being written |

`Kind` tells the messages apart as `decode` and the replay reader do: `ok`, `long` (its
line does not fit `bufio.Scanner`), `badLine` (JSON, but the raw line does not parse)
and `badJson` (cannot even be put into the DLQ record, because `json.Marshal` refuses
the `json.RawMessage`).

### LogApi

`pc[r]` is the handler of request `r`. `Arrive` is `acquire`; `Validate` is decoding and
validation; `Publish` and `PublishFails` are the outcomes of `WriteMessages`; `WriteExpired`,
`WalkStart`, `WalkEnd`, `WriteTmp`, `Rename` and `WriteFails` are the steps of `Writer.Write`,
with the capacity walk in two steps (the directory is listed, then each entry is
examined), so that the replayer's removals fall in between. `Expire` is the
request's deadline or its client going away. A request writes at most one file, so a
file is named by its request, and `name` gives the order of the real names. `raced` and
`diskFailed` are history variables read by properties only.

### ApiStats

`ServeHTTP` and `Run` do not only move records: each of them counts what it did and measures the spool
directory. An observer is a request or the replayer.

| Variables | Code |
|---|---|
| `pc`, `after` | where a handler or the replayer is, and where it goes on when `observeSpoolState` or `publishState` returns |
| `listed`, `measured` | `WalkDir` after it has listed the directory; the `State` that is measured and not yet stored |
| `requests`, `rejected`, `batches`, `spooled`, `replayed`, `kafkaErrors` | the atomic counters of that name in `Counters` |
| `gauge` | `spoolState`, guarded by a lock of its own |
| `loading`, `loaded` | a `Snapshot` that has loaded `batchesAcceptedTotal` and has yet to load `requestsTotal` |

`WalkList`, `WalkEnd` or `WalkFails`, and `ObserveSpoolState` are the three steps of an observation. `Mode`
does the comparisons of `mode` in integers. A walk that meets a removal either counts the file or,
as `dirUsage` turns `ErrNotExist` into an empty directory, reports nothing at all.
`ReplayRemove` is publishing and removing; a pass may end with `PassEnds` after any file, which stands for the end of
the list and for each error of `ReplayOnce`. Rejected and accepted records are counted by batch, with one record each.

### Generator

| Variables | Code |
|---|---|
| `cpc`, `batch`, `attempt` | where `runClient` and `sendBatch` of a client are; the batches it has generated; the loop variable of `sendBatch` (from 1) |
| `runOver` | the context of the run, which `-duration` ends |
| `sent`, `counted`, `failed`, `retries` | the counters of the summary, as sets of batches where the code adds their sizes |

Each attempt is a request `<<client, batch, attempt>>` of `LogApi` with the events of its batch. The API may take a
request from when it was sent (`WasSent`) for ever after: a client's timeout does not recall it. `DoFails` is every error of
`client.Do`, including one that comes after the handler has answered. `Receive` splits by status as the code does; `accepted_records`
comes from the body, which may not decode, so `counted` may lag behind `sent`. `StartBatch` and `Stop` have the two modes:
in burst mode the context is not looked at between the batches of a burst.

### Dashboard

`pc`, `asked`, `hits`, `i` and `seen` are the handler of the open connection, `stream` and `view` the page, `docs` and
`now` what Elasticsearch and the clock say. A search is two steps (`Tick`, then `SearchAnswered` or `SearchFails`, which is
every error of `post`), so documents become visible and time passes between the query and its answer. The loop over the
answer is one action for each round, `WriteLog`: `i` counts down as in the code, `IsNew` is the look-up in `seen`, and the
page may lose its connection between any two rounds. What the handler still writes then reaches nobody; the module counts it
as not written, since `seen` is forgotten with the connection. `LoopEnds` is the flush behind the loop.

`Answers` is what Elasticsearch may return for `logs` with `rangeQuery`: the newest documents by timestamp, in any order
among equal ones, and any choice of those at the end of the window. The clock and the timestamps count in parts of a
`Second`; `rangeQuery` writes its bounds with `time.RFC3339`, which has whole seconds only (`Whole`). Elasticsearch completes an upper bound
without a fraction to the end of its second (`SecondEnd`), so a poll sees all of the current second, and a log whose time is ahead of
that has to wait. A key is a timestamp with a raw line. `StartStream`, `StopStream` and `Shown` are
the page's functions; `Lose` and `Connect` the browser's `EventSource`.
`late` and `cut` are history variables that `NewestOnTop` reads: the two ways in which the order is lost before the
stream sees it.

## 3. What is checked

Runs of TLC (the `.cfg` has the name of the run):

| Run | Question | Result |
|---|---|---|
| `worker_core` | With two readable messages: is everything committed also stored (`CommitSafe`), is anything forgotten while the process lives (`NothingForgotten`), can a record be lost in another way than through a replay file read too early (`EveryLossHasACause`), and does the worker implement `Handoff` (`HandsOver`)? Bulk size 2, one retry, all three kinds of item status, one replay file, one crash, one rebalance before it. | holds |
| `worker_live` | A worker that comes out of an outage with spooled files, the first of which can never be read, and an undecodable last message: is any other message ever forgotten (`NothingForgotten`), or lost without one of the two known causes (`EveryLossHasACause`)? Does each flush end (`FlushEnds`), does a signal stop both loops (`ShutdownEnds`), is a readable replay file replayed after the outage, behind one that is not (`ReplayDrains`)? Does each step of a flush and of a replay pass bring it nearer to its end (`FlushAdvances`, `PassAdvances`)? | holds |
| `worker_commit_ahead` | `CommitSafe` with an undecodable message | violated, finding 1 |
| `worker_replay_race` | Is a committed message really in a place that exists (`NoRecordLost`)? | violated, finding 2 |
| `worker_idle_batch` | Is a partial batch flushed by time (`BatchIsFlushed`)? | violated, finding 3 |
| `worker_poison_skipped` | Does the group move past an undecodable message that is not in `logs.dlq` (`PoisonDeadLettered`)? | violated, finding 6 |
| `api_core` | Three requests, two slots, a spool of one record's size, a crash: does the API implement `Handoff`, how far can the spool outgrow its limit (`SpoolBound`), are slots respected (`TypeOK`)? | holds |
| `api_live` | The generator drives the API: is what it counts as sent stored (`CountedIsStored`), is each batch counted once (`BatchesAccounted`), do accepted records reach Kafka (`AcceptedReachesKafka`), does the API come to rest after a signal (`ShutdownEnds`) and the generator after its run (`RunEnds`), and does each step of a client bring it nearer to that end (`ClientsAdvance`)? | holds |
| `api_stats` | Is each request counted once (`RequestsAccounted`); do the counters explain the files in the spool (`BacklogAccounted`); can `/stats` show more batches than requests (`SnapshotConsistent`); is the gauge right in the end, although observations overtake each other (`GaugeSettles`)? | holds |
| `dashboard_stream` | Is a record shown at most once for each connection (`ShownOncePerConnection`), is the newest line on top (`NewestOnTop`), is what stays among the newest shown in the end (`NewestStreamed`)? | holds |
| `api_timeout` | Is a request refused as unavailable only if the disk failed (`UnavailableOnlyWithoutDisk`)? | violated, finding 4 |
| `api_long_line` | `AcceptedReachesKafka` with a record of more than 64 KiB | violated, finding 5 |

### The bounds and why they are enough

`MaxFiles`, `MaxRestarts` and `MaxRebalances` are bounds of the model, not of the code; all other
constants are parameters of the code.

- Two messages of one partition and a bulk size of two give a batch that is complete,
  one that is partial, and a split of it into all combinations of indexed, retryable and
  permanent. `RetryMax = 1` gives a first, a last and an intermediate back-off; the
  run has statuses 201, 429 and 400, one of each branch of `BulkIndex`.
- One replay file is created, written event by event, replayed and removed; when
  `MaxFiles` is used up, `writeReplay` only fails, which is also a behaviour of the
  code. One restart is enough for each crash point, because only the durable state survives it.
- A rebalance matters only to the position of the reader, so one is enough to
  redeliver everything that is in the batch; the run has it with or without a crash after it.
- `worker_live` has four messages and up to three replay files, so a readable file can stand behind others: the event of
  the first file makes a line that the scanner cannot hold, so that file stays for ever (line 385 goes on to the next one),
  and another file in between may fail to be indexed, dead-lettered or removed, which ends the pass (lines 391-406). To
  keep this small the run begins in two states of a worker that has been running (`RunningInit`): the long message's file
  is there, and the consumer has a readable message to spool, or it is there with two readable files. Both states are
  reached from `Init`: the first two or three messages are fetched, spooled and committed one by one while Elasticsearch does not
  answer, and in the first state the replayer then gets file 2 indexed and removed (TLC finds either path as a violation of the
  state's negation under `Spec`).
- The bulk size of `worker_live` is one, so that a flush starts with each message; its last message is undecodable, so the
  loop's dead-letter path is part of the liveness question, and the commit of that message, while one before it is in the
  batch of a failed flush, part of `NothingForgotten`. It runs without restarts, since that property is about one life of the process.
  `EveryLossHasACause` with restarts is checked in `worker_core` for readable messages; restarts and undecodable messages
  together are covered by its theorem.
- In `worker_poison_skipped` the first message is not JSON and the second one is fine.
- In `api_core` two handlers can be in flight while a third request exists, the least for
  the semaphore and for the race between check and rename. A limit of one record is reached by
  the first file and overshot by the second.
- `api_live` has one client with one batch in two attempts, the least for a client that retries while the API still handles
  the attempt before: both may be accepted, both refused, or each do something else. The spool has no limit there, because one that is
  full refuses requests and then there is nothing to deliver. Three attempts, several batches and clients, burst mode and
  batches that are refused with 4xx are in the theorems, which hold for all constants; for `RunEnds` they add
  nothing but repetition, as a client deals with one batch after the other.
- `dashboard_stream` polls two logs, so that a third one, or a copy of the first, moves a record out of the window. Two
  records share a time and the third is newer by a second and a half: a poll sees it from the beginning of its second on, the last half second before its time included, and not before. `Span` and `MaxTime` let records
  enter and leave the range, the page keeps three lines, and the second connection is enough for an empty `seen` under a page that has lines. The run may stop:
  the user turns away and `MaxConnections`, `MaxTime` and `MaxCopies`, the bounds of the model, are used up.

- `api_stats` has two requests and one file that an earlier process left: two handlers and the replayer are three
  observers whose measurements overtake each other. Files of 4 bytes with a limit of 10 reach every mode: one
  file is `degraded`, two are `critical`, three are `exhausted`, and none or a failed walk (`MaxWalkErrors`, a bound of
  the model) give the other two. There is no crash: counters live as long as the process.

The theorems of section 4 carry the safety results beyond these bounds. Files are
part of the proof too: `MaxFiles` is any natural number there.

### Fairness

No property of a plain `Spec` depends on fairness. `FairSpec` of `Worker` and `LogApi` adds:

- `GoroutinesRun`: every call returns, with an answer or with an error (the client has a
  timeout of 15 s, kafka-go bounds its attempts, a file operation ends), and Go
  schedules every goroutine. It does not say that calls succeed. `FetchMessage` is the one
  call that may wait for ever, and it is fair only once the context is cancelled. A `select` with
  two ready cases picks at random, hence strong fairness for `ReplayStop`, whose
  rival is another pass.
- `KafkaDelivers` (worker): the broker delivers a message that is there although fetches fail
  again and again.
- `OutagesEnd`: what a replayer tries again and again succeeds in the end. It
  is about the replayers' calls only, and is what `ReplayDrains` and `AcceptedReachesKafka` need. Nothing is
  assumed to succeed among the consumer's own bulk requests, commits and dead-letter sends or the handlers'
  publishes and spool writes: a flush ends and a signal is obeyed while all of these fail.

`FairSpec` of `ApiStats` says only that handlers and the replayer are scheduled and that their calls return;
a walk that fails is followed by another one in the next pass, and walks fail `MaxWalkErrors` times.

`ClientsRun` of `Generator` says that a client's call ends (its timeout is five seconds), that its sleeps end and that
the run has a duration. No call has to succeed.

`FairSpec` of `Dashboard` has the ticker, searches that end (five seconds), a browser that connects, and strong fairness for
an answered search: an outage of Elasticsearch does not last. Time need not pass, so "stays among the newest" means that
nothing newer pushes the record out and that its ten minutes are not over.

## 4. What is proved

`tlapm` checks all proofs of `HandoffProofs`, `WorkerProofs`, `LogApiProofs`, `GeneratorProofs`, `ApiStatsProofs` and `DashboardProofs`. The
assumptions are `WorkerAssumption`, `LogApiAssumption`, `GeneratorAssumption`, `ApiStatsAssumption` and `DashboardAssumption` (types of
the constants; two messages of one partition have different offsets; the requests, and the records of the live stream, are finitely
many; the attempts of a batch carry the same events), which TLC evaluates in every run.

**Handoff.** `AcknowledgedIsKept` says what the promise is worth: an item that was acknowledged once is stored in every later
state, although an acknowledgement may be taken back. It holds of everything that implements `Handoff`.

**Worker.** `TypeCorrect` (`[]TypeOK`), `NothingIsForgotten` (`[]NothingForgotten`),
`CommitSafety` and `WorkerHandsOver` (`[]CommitSafe` and the refinement of `Handoff`, both assuming
`Poison = {}`, because finding 1 refutes them with undecodable messages).

None of the properties is inductive. The invariant that is, `IInv`, has four parts:

1. `TypeInv`: `TypeOK`, and that a back-off never follows the last attempt - otherwise
   `attempt` could leave its range.
2. `DirInv`: what a replay file knows. A file is open exactly in the `write` state and linked
   unless torn (`OpenInv`); names are increasing and unused files are empty (`NumberInv`); the contents of a
   file that is gone are indexed or dead-lettered (`RemovedInv`); the replayer's events are the whole file,
   and in the states before the removal they are handled except for those still to be dead-lettered (`ReplayInv`).
   From it follows that `Handled` never shrinks (`HandledGrows`), although files are removed.
3. `FlushInv`: during a flush, each message of the batch is still pending, about to be
   dead-lettered, or handled; at the commit all of it is handled.
4. `MessageInv`: everything behind the reader or the committed offset is in the batch or handled
   (`BehindInv`); so is everything older than a message in the batch or than the undecodable message in hand
   (`OlderInv`), which is what makes moving the offset to that message harmless; and
   what is committed is handled without the help of the batch (`CommittedInv`), which is what a restart needs. Each of the three has
   an exception for what finding 1 costs. `CommittedInv` excepts messages with a committed undecodable message behind them
   (`SkippedBy`). `BehindInv` and `OlderInv` need a narrower one, since the batch holds such messages until the process dies:
   `Lost` asks in addition that there was a restart and that the undecodable message is `Passed`, that is, neither the
   reader nor the next commit can fall back behind it. This is why a lost message stays lost (`LossStays`), although
   a rebalance moves the reader and a stale batch the offset.

The invariant makes no assumption about messages. `CommitSafety` and `WorkerHandsOver` follow because nothing can be skipped
if nothing is undecodable. Three more theorems say what the findings leave of the promise:

- `LossesHaveACause`: a committed message that is nowhere was written to a torn file that is gone (finding 2), or an
  undecodable message behind it in its partition is committed too (finding 1). Without either no decodable message is lost.
- `TornFilesAreTheOnlyLoss`: if nothing is undecodable, `NoRecordLost` holds while no file is torn. Whoever closes the race of
  `writeReplay` with `replayOnce` has closed the only way in which such logs are lost.
- `StoredStaysStored`, an action property: `Handled` never shrinks. `Handled` counts a torn file for all that was ever written
  to it, which is what `EveryLossHasACause` does not do.

`FlushesAdvance` and `PassesAdvance` are the part of liveness that is in reach. `FlushWork` bounds the steps that are
left of a flush: three for each attempt, the events to be written to the replay file, the commit. Each step of the flush makes
it smaller, also when its call fails, and no other step changes it; so a flush ends as soon as its steps are taken, which is the
fairness TLC needs for `FlushEnds`. The proof needs that the batch is finite (`FiniteInv`), since any number of messages
may be in it. `PassWork` does the same for a pass over the replay directory, four steps for each file, whether a file can be read,
indexed and removed or not; `PassInv` says that the file being replayed is one of those the pass has left.

**Log API.** `TypeCorrect` (with the bound on the semaphore) and `ApiHandsOver` (the refinement of
`Handoff`). `IInv` adds to `TypeOK` that a file in the `remove` state is in
Kafka (`RemoveInv`), without which `os.Remove` could lose records, and that the records of every
accepted request are stored (`AcceptedInv`). `AcceptedIsKept` is the same in terms of a client: once answered with 202, a
record is in Kafka or the spool for ever.

`LongFilesStay` says that finding 5 has no remedy: a file with a record that the scanner cannot hold is in the directory in every later
state, through passes, errors and crashes. Only a file that was read is removed, and such a file is never read (`ReadInv`).

`SpoolIsBounded` proves `[]SpoolBound`. The size of a set of files is the cardinality of its bytes (`BytesOf`), so that
the library's facts about finite sets apply: bytes are finitely many, grow with the files (`BytesMonotone`), and those of a union or of many
files are bounded by sums (`BytesOfUnion`, `BytesOfMany`). `SpoolBound` itself is not inductive: it does not know of the files that
handlers are about to link. `SpoolInv` puts the same bound on the linked files together with `Pending`, the
handlers that are past the capacity check, or in a walk that will report room for their file. Only the start of a walk adds to that
set (`WalkStartSpool`): at that moment the file fits on top of what is linked, and all other pending files belong to the
other handlers in flight, at most `MaxInFlight - 1`. Everything else links what was pending or drops it (`NoMorePending`).
The end of a walk changes nothing as long as the walk reports what it listed; this is where `raced` is needed.

**Generator.** `SystemImplementsApi`: a step of the composed system is a step of `LogApi` or leaves its variables
alone, so `LogApi`'s theorems hold of the composition; this is also where restricting `Arrive` to requests that were
sent is shown to add no behaviour. `GeneratorTypeCorrect` follows with the client's own steps. `SentIsStored` needs two facts of
the API: an accepted request's records are stored (`AcceptedInv`), and what is stored stays stored in each of its
steps. A client adds a batch to `sent` when it reads the answer to one attempt, and all attempts carry the same
events. `BatchesAreAccounted` adds to the property that counted batches have been generated, without which a new batch
could already be counted. `ClientsComeToAnEnd` is the variant for `RunEnds`: once the run is over, each step of a client makes
`ClientWork` smaller - attempts and batches of a burst that are left - and neither the API nor another client changes it.

**Statistics.** `TypeCorrect`, `RequestsAreAccounted`, `SnapshotsAreConsistent` and `BacklogIsAccounted`. The
inductive invariant adds three parts to the properties: a measurement that is about to be stored has the mode of its size
(`MeasuredInv`), what a snapshot has loaded is at most what is there now (`LoadedInv`), and a request that has yet to
write its file is not in the directory (`UnwrittenInv`). The step lemmas `HandlerInHand` and `HandlerBacklog` say what a
handler's step does to the sets of requests in hand and of files; the counting is then a matter of
adding one element to a finite set or removing one.

**Dashboard.** `TypeCorrect`, `ShownOnce` and `NewestIsOnTop`.

`ShownOncePerConnection` becomes inductive when each record is given its `Chances`: one for each connection, and one less while a
stream is open that has not sent it (`ShownInv`). Sending a record uses up a chance (`CopiesPrepended`), removing lines at the bottom
adds none (`CopiesShown`), and a new connection brings one for each record.

`NewestOnTop` looks simple and is not. The page stays sorted only if no poll ever returns a record that is older than one
already sent and was not sent itself, although documents come and go in the window of 25. `OrderInv` says why that is so:

1. `ComingInv`: what was sent, or is about to be by the loop, is visible and not newer than the end of the second of the poll.
2. `ViewInv`: the page is sorted, and all of its lines are in `seen`.
3. `HitsInv`: the answer is sorted, and what the loop has yet to send is as new as all that was sent.
4. `LeftInv`: a visible record that is neither sent nor coming is as new as all that was, or it is `Crowded` out
   for good: so many newer documents are visible and in range that no later answer reaches down to it - or it is older than the range.

The heart is the step in which an answer arrives (`AnsweredOrder`). Its lines are matched one to one with documents
(`LinesAreDocuments`), so a record that the answer leaves out and that is older than one of its lines was left out
by a full window (`LeftOutOfFull`, `FullAnswerCrowds`). The documents in that window stay visible and stay newer than the record
(`CrowdedStays`), so a later poll that still reaches back to the record finds all of them before it (`CrowdedOut`).
`late` and `cut` are exactly the cases in which this fails. In all other steps `Growth` carries the four parts on: documents only
become more and time only passes.

TLC checked `SpoolInv`, `OrderInv` and the three parts of `MessageInv` on instances of the runs' size before they were proved, the
last of these with undecodable messages, a restart and rebalances.

**Only model-checked.** All liveness properties, which are outside the provers' reach; of `FlushEnds`, `RunEnds` and the end of a
pass the variants are proved, and what is left to TLC is that fairness takes the steps. `GaugeSettles`, `NewestStreamed`,
`AcceptedReachesKafka`, `ReplayDrains` and `ShutdownEnds` have no such theorem: they are about several actors
at once, most of them about outages that end. Naturally, the violated properties are only checked, too. Every type invariant, safety invariant,
action property and refinement that a passing run checks has a theorem; those of
`CommitSafe` and the worker's `HandsOver` are about logs without undecodable messages.

## 5. Findings

1. `service.go:201`. The commit of an undecodable message also commits earlier
   messages of its partition that are only in the batch in memory. A crash before the next
   flush skips them (`worker_commit_ahead`), against `docs/architecture.md:30`.
2. `service.go:344`. A replay file is written under its final name and can be
   read, indexed in part and removed by `replayOnce` while it is being written
   (`worker_replay_race`), against `docs/architecture.md:27`. The spool's writer, which renames a
   `.tmp` file, does not have this problem. `CommitSafe` and `HandsOver` count what was written to such a torn
   file as stored; `NoRecordLost` does not.
3. `service.go:174`. On a quiet topic a partial batch is never flushed by time
   (`worker_idle_batch`), against `requirements/full-workflow-diagram.md:31`.
4. `writer.go:41`. A publish that fails by the request's deadline leaves nothing for the
   spool (`api_timeout`), against `requirements/implementation-plan.md:208-209`.
5. `writer.go:96`. A record whose line exceeds 64 KiB is accepted and spooled but can
   never be read back (`api_long_line`), against `docs/architecture.md:18`.
6. `service.go:199`. When an undecodable message cannot be sent to `logs.dlq`, the loop goes on and the commit of a later
   message covers it. A value that is not JSON can never be sent, since `json.Marshal` refuses the `RawPayload` of line 193
   (`worker_poison_skipped`), against `docs/architecture.md:21`.

Seen on the way, without a run: `counters.go:205` looks at Kafka errors only when there is no spool state, and `main` observes
one before the first request, so `degraded` after a failed publish (`docs/architecture.md:36`) is reported only with a backlog. The
live stream skips logs when more than 25 arrive between two polls.

## 6. Abstractions, and what is not modelled

- A crash ends the process, not the machine: the code never calls `fsync`, so after a
  power failure a renamed file may be empty. The modules take written files as durable.
- File names are distinct. The code's names have nanoseconds and the process id; two calls in
  the same nanosecond would collide.
- Elasticsearch answers one item for each event of a bulk request.
- A record's event in a file or in the index stands for itself; documents
  indexed twice are not counted, since the code promises at-least-once delivery.
- A line of a replay file is written or not. A crash in the middle of a line makes a file that
  cannot be read, which is `ReplayReadFails`.
- One worker. A second worker of the group acts like a rebalance that takes partitions away; the
  module only has rebalances that give them back to the same worker.
- `LogApi.Arrive` takes no request from the signal on, although `Shutdown` closes the listener an instant later. A request
  that slips in is handled like any other in flight.
- `ApiStats.CountSpooled` is one step for the two atomic additions of `counters.go:115-119`. An answer of `/stats` between the
  two misses the spooled records of a batch it counts; `SnapshotConsistent` compares batches with requests only, and
  `BacklogAccounted` would have one more state of the handler to name.
- An attempt that the generator begins when the run is over may reach the API and be answered in `Generator`; in the code
  `client.Do` fails at once. The module has more behaviour there, never less.
- The generator's latencies and pacing are left out, and so are failures to marshal its payload or to build a request, which no
  input causes. The page's `JSON.parse` and the formatting of a line are left out; a line stands for its record.
- Elasticsearch makes documents visible at once or later, one by one; deletion of old indexes is left out.
- Not modelled: the worker's counters, the API's dimension counters and resource figures, readiness checks, the dashboard's
  overview, metrics and log queries, the text of log lines, configuration, back-off durations. `PROJECT.json` gives the reason
  for each.

## 7. Plan

Done, in this order: `Handoff`, `Elasticsearch`, `Worker`, `WorkerProofs`, `LogApi`, `LogApiProofs`,
`ApiStats`, `ApiStatsProofs`, `Generator`, `GeneratorProofs`, `Dashboard`, `DashboardProofs`, `HandoffProofs`.

Next:

1. The overload mode of `/stats`, on top of `ApiStats`, against `docs/architecture.md:35-36`.
2. The generator in burst mode with several batches under TLC, for the liveness of its end.
3. A composition of the API, the topic and the worker: a client's accepted
   record ends in Elasticsearch or the dead-letter topic, `Handoff` end to end.
4. A property for the flush on shutdown, which runs under a cancelled context and cannot index anything
   (`requirements/implementation-plan.md:307`).
5. Smaller functions against reference definitions: `backoff` with 64-bit wrap-around, `logline.Parse`'s
   status and time bounds, `parseLimit`.
6. Several workers of one consumer group sharing partitions.

Theorems to come, with the composition of item 3: its end-to-end safety, from `ApiHandsOver`, `WorkerHandsOver` and a proof that
refinements of `Handoff` compose.
