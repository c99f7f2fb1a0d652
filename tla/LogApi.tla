-------------------------------- MODULE LogApi --------------------------------
(***************************************************************************)
(* The log API: the handler of POST /v1/logs (internal/ingestion), the     *)
(* Kafka producer it calls (internal/kafka), the durable spool it falls    *)
(* back to and the spool replayer (internal/spool), as cmd/log-api wires   *)
(* them: many handler goroutines, one replayer, one directory.             *)
(*                                                                         *)
(* A handler's calls that leave the process (publish, walk the directory,  *)
(* write, rename) are steps of their own, and so are the replayer's; they, *)
(* the deadlines of the requests, the shutdown signal and a crash          *)
(* interleave.  A request writes at most one spool file, so the file is    *)
(* named by its request; `name' holds the order of the real, time-stamped  *)
(* names, which are taken to be distinct.                                  *)
(***************************************************************************)
EXTENDS Integers, FiniteSets

CONSTANTS
  Requests,        \* the requests of one run of the model
  Events,          \* their log records
  EventsOf,        \* request -> its records
  Body,            \* request -> how decoding, validation and ReadFile treat it
  Size,            \* request -> bytes of its records as JSON lines
  MaxBytes,        \* cfg.SpoolMaxBytes; 0: no limit
  MaxInFlight,     \* cfg.MaxInFlightRequests; 0: no limit
  MaxRestarts      \* bound: crashes or restarts of the process

\* "ok"   well formed, and its spool file can be read back;
\* "long" well formed, but a line of its spool file exceeds the 64 KiB token of
\*        bufio.Scanner (a body may have 1 MiB);
\* "bad"  refused: method, size, JSON, batch size or a record is wrong.
Bodies == {"ok", "long", "bad"}

ASSUME LogApiAssumption ==
  /\ IsFiniteSet(Requests)
  /\ EventsOf \in [Requests -> SUBSET Events]
  /\ Body \in [Requests -> Bodies]
  /\ Size \in [Requests -> Nat]
  /\ MaxBytes \in Nat
  /\ MaxInFlight \in Nat
  /\ MaxRestarts \in Nat

VARIABLES
  \* ServeHTTP, one goroutine for each request
  pc,          \* where it is
  answer,      \* what the client was answered
  expired,     \* requests whose context is done: timeout, or the client left
  seen,        \* Write: the files the capacity walk found in the directory
  \* the replayer
  rpc,         \* where it is
  todo,        \* files of the current pass not yet looked at
  rfile,       \* {the file being replayed}, or {}
  \* the surroundings
  ctxDone,     \* SIGINT or SIGTERM was received
  restarts,
  \* what outlives the process
  kafka,       \* records in the log topic
  dir,         \* linked spool files
  name,        \* request -> rank of its file's name, 0 before it has one
  lastName,
  \* history, read by properties only
  raced,       \* requests whose walk met a file that was just removed
  diskFailed   \* requests for which a file operation failed

handlerVars == <<pc, answer, expired, seen>>
replayVars == <<rpc, todo, rfile>>
envVars == <<ctxDone, restarts>>
diskVars == <<dir, name, lastName>>
history == <<raced, diskFailed>>
vars == <<handlerVars, replayVars, envVars, kafka, diskVars, history>>

ActivePcs == {"admitted", "publish", "spool", "walk", "write", "rename"}
Answers == {"none", "202", "4xx", "saturated", "full", "unavailable"}

\* Requests that hold a slot of the inFlight channel.
Active == {r \in Requests : pc[r] \in ActivePcs}

TypeOK ==
  /\ pc \in [Requests -> {"new", "done"} \cup ActivePcs]
  /\ answer \in [Requests -> Answers]
  /\ expired \subseteq Requests
  /\ seen \in [Requests -> SUBSET Requests]
  /\ rpc \in {"idle", "next", "publish", "remove", "stopped"}
  /\ todo \subseteq Requests
  /\ rfile \subseteq Requests
  /\ ctxDone \in BOOLEAN
  /\ restarts \in 0..MaxRestarts
  /\ kafka \subseteq Events
  /\ dir \subseteq Requests
  /\ name \in [Requests -> Nat]
  /\ lastName \in Nat
  /\ raced \subseteq Requests
  /\ diskFailed \subseteq Requests
  \* The inFlight channel never holds more than its capacity.
  /\ MaxInFlight # 0 => Cardinality(Active) <= MaxInFlight

Init ==
  /\ pc = [r \in Requests |-> "new"]
  /\ answer = [r \in Requests |-> "none"]
  /\ expired = {}
  /\ seen = [r \in Requests |-> {}]
  /\ rpc = "idle" /\ todo = {} /\ rfile = {}
  /\ ctxDone = FALSE /\ restarts = 0
  /\ kafka = {}
  /\ dir = {} /\ name = [r \in Requests |-> 0] /\ lastName = 0
  /\ raced = {} /\ diskFailed = {}

-----------------------------------------------------------------------------
(* The handler. *)

GoTo(r, step) == pc' = [pc EXCEPT ![r] = step] /\ UNCHANGED answer

\* ServeHTTP answers and returns; its deferred release frees the slot.
Answer(r, a) ==
  /\ pc' = [pc EXCEPT ![r] = "done"]
  /\ answer' = [answer EXCEPT ![r] = a]

\* Mutant of HasSlot: one slot too many.
HasSlotTooMany == MaxInFlight = 0 \/ Cardinality(Active) <= MaxInFlight

HasSlot == MaxInFlight = 0 \/ Cardinality(Active) < MaxInFlight

\* acquire: a full inFlight channel is never waited for.
Arrive(r) ==
  /\ pc[r] = "new" /\ ~ctxDone
  /\ IF HasSlot
     THEN GoTo(r, "admitted")
     ELSE Answer(r, "saturated")
  /\ UNCHANGED <<expired, seen, replayVars, envVars, kafka, diskVars, history>>

\* Decode the body and validate its records: all of them, or none is taken.
Validate(r) ==
  /\ pc[r] = "admitted"
  /\ IF Body[r] = "bad" THEN Answer(r, "4xx") ELSE GoTo(r, "publish")
  /\ UNCHANGED <<expired, seen, replayVars, envVars, kafka, diskVars, history>>

\* RequestTimeout runs out or the client closes the connection.
Expire(r) ==
  /\ pc[r] \in ActivePcs \ {"admitted"} /\ r \notin expired
  /\ expired' = expired \cup {r}
  /\ UNCHANGED <<pc, answer, seen, replayVars, envVars, kafka, diskVars, history>>

\* Every in-sync replica has every record.
Publish(r) ==
  /\ pc[r] = "publish" /\ r \notin expired
  /\ kafka' = kafka \cup EventsOf[r]
  /\ Answer(r, "202")
  /\ UNCHANGED <<expired, seen, replayVars, envVars, diskVars, history>>

\* Some of the records may have been written all the same.
PublishFails(r) ==
  /\ pc[r] = "publish"
  /\ \E landed \in SUBSET EventsOf[r] : kafka' = kafka \cup landed
  /\ GoTo(r, "spool")
  /\ UNCHANGED <<expired, seen, replayVars, envVars, diskVars, history>>

-----------------------------------------------------------------------------
(* Writer.Write, called by the handler when the publish has failed. *)

\* A context that is done is refused before anything is tried.
WriteExpired(r) ==
  /\ pc[r] = "spool" /\ r \in expired
  /\ Answer(r, "unavailable")
  /\ UNCHANGED <<expired, seen, replayVars, envVars, kafka, diskVars, history>>

\* dirSize begins: the directory is listed.
WalkStart(r) ==
  /\ pc[r] = "spool" /\ r \notin expired
  /\ IF MaxBytes = 0
     THEN GoTo(r, "write") /\ UNCHANGED seen
     ELSE GoTo(r, "walk") /\ seen' = [seen EXCEPT ![r] = dir]
  /\ UNCHANGED <<expired, replayVars, envVars, kafka, diskVars, history>>

\* A byte is its file and its place in it.
BytesOf(files) == UNION {{r} \X (1..Size[r]) : r \in files}
Bytes(files) == Cardinality(BytesOf(files))

\* The listed files are examined one by one.  One that was removed meanwhile may
\* have been counted before; if not, its ErrNotExist ends the walk and dirUsage
\* reports an empty directory.
WalkResults(files) == {Bytes(files)} \cup (IF files \subseteq dir THEN {} ELSE {0})

\* Mutant of OverCapacity: the payload itself is not counted.
OverCapacityNow(used, r) == used > MaxBytes

OverCapacity(used, r) == used + Size[r] > MaxBytes

WalkEnd(r) ==
  /\ pc[r] = "walk"
  /\ \E used \in WalkResults(seen[r]) :
       /\ IF OverCapacity(used, r) THEN Answer(r, "full") ELSE GoTo(r, "write")
       /\ raced' = IF used = Bytes(seen[r]) THEN raced ELSE raced \cup {r}
  /\ seen' = [seen EXCEPT ![r] = {}]
  /\ UNCHANGED <<expired, replayVars, envVars, kafka, diskVars, diskFailed>>

\* The payload goes to a .tmp file, which neither the walk nor the replayer sees.
WriteTmp(r) ==
  /\ pc[r] = "write"
  /\ lastName' = lastName + 1
  /\ name' = [name EXCEPT ![r] = lastName']
  /\ GoTo(r, "rename")
  /\ UNCHANGED <<expired, seen, replayVars, envVars, kafka, dir, history>>

\* Mutant of Rename: the file keeps its .tmp name.
RenameForgotten(r) ==
  /\ pc[r] = "rename"
  /\ Answer(r, "202")
  /\ UNCHANGED <<expired, seen, replayVars, envVars, kafka, diskVars, history>>

Rename(r) ==
  /\ pc[r] = "rename"
  /\ dir' = dir \cup {r}
  /\ Answer(r, "202")
  /\ UNCHANGED <<expired, seen, replayVars, envVars, kafka, name, lastName, history>>

\* MkdirAll, the walk, WriteFile or Rename fails; a .tmp file may stay behind.
WriteFails(r) ==
  /\ pc[r] \in {"walk", "write", "rename"} \/ (pc[r] = "spool" /\ r \notin expired)
  /\ diskFailed' = diskFailed \cup {r}
  /\ seen' = [seen EXCEPT ![r] = {}]
  /\ Answer(r, "unavailable")
  /\ UNCHANGED <<expired, replayVars, envVars, kafka, diskVars, raced>>

-----------------------------------------------------------------------------
(* The replayer. *)

\* The pass goes on with the files of `rest', or ends.
GoOn(rest) ==
  /\ todo' = rest
  /\ rpc' = IF rest = {} THEN "idle" ELSE "next"
  /\ rfile' = {}

ReplayTick ==
  /\ rpc = "idle" /\ dir # {}
  /\ GoOn(dir)
  /\ UNCHANGED <<handlerVars, envVars, kafka, diskVars, history>>

IsFirst(f) == f \in todo /\ \A g \in todo : name[f] <= name[g]

ReplayRead(f) ==
  /\ rpc = "next" /\ IsFirst(f) /\ Body[f] # "long"
  /\ rpc' = "publish" /\ rfile' = {f}
  /\ UNCHANGED <<todo, handlerVars, envVars, kafka, diskVars, history>>

\* An I/O error, or a line the scanner cannot hold: the file is left alone.
ReplayReadFails(f) ==
  /\ rpc = "next" /\ IsFirst(f)
  /\ GoOn(todo \ {f})
  /\ UNCHANGED <<handlerVars, envVars, kafka, diskVars, history>>

ReplayPublish(f) ==
  /\ rpc = "publish" /\ rfile = {f} /\ ~ctxDone
  /\ kafka' = kafka \cup EventsOf[f]
  /\ rpc' = "remove"
  /\ UNCHANGED <<todo, rfile, handlerVars, envVars, diskVars, history>>

\* Mutant of ReplayPublishFails: the error is ignored.
ReplayPublishIgnored(f) ==
  /\ rpc = "publish" /\ rfile = {f}
  /\ \E landed \in SUBSET EventsOf[f] : kafka' = kafka \cup landed
  /\ rpc' = "remove"
  /\ UNCHANGED <<todo, rfile, handlerVars, envVars, diskVars, history>>

\* The error ends the pass: the files after this one wait for the next one.
ReplayPublishFails(f) ==
  /\ rpc = "publish" /\ rfile = {f}
  /\ \E landed \in SUBSET EventsOf[f] : kafka' = kafka \cup landed
  /\ GoOn({})
  /\ UNCHANGED <<handlerVars, envVars, diskVars, history>>

ReplayRemove(f) ==
  /\ rpc = "remove" /\ rfile = {f}
  /\ dir' = dir \ {f}
  /\ GoOn(todo \ {f})
  /\ UNCHANGED <<handlerVars, envVars, kafka, name, lastName, history>>

ReplayRemoveFails(f) ==
  /\ rpc = "remove" /\ rfile = {f}
  /\ GoOn({})
  /\ UNCHANGED <<handlerVars, envVars, kafka, diskVars, history>>

\* Mutant of ReplayStop: the spool is to be drained first.
ReplayStopDrained ==
  /\ rpc = "idle" /\ ctxDone /\ dir = {}
  /\ rpc' = "stopped"
  /\ UNCHANGED <<todo, rfile, handlerVars, envVars, kafka, diskVars, history>>

ReplayStop ==
  /\ rpc = "idle" /\ ctxDone
  /\ rpc' = "stopped"
  /\ UNCHANGED <<todo, rfile, handlerVars, envVars, kafka, diskVars, history>>

-----------------------------------------------------------------------------
(* The process. *)

\* The replayer's context is cancelled and the server takes no new requests.
Signal ==
  /\ ~ctxDone
  /\ ctxDone' = TRUE
  /\ UNCHANGED <<handlerVars, replayVars, restarts, kafka, diskVars, history>>

\* The process ends - a crash, or a shutdown that was completed or ran out of
\* its ten seconds - and is started again.  Its requests get no answer any more.
Restart ==
  /\ restarts < MaxRestarts
  /\ restarts' = restarts + 1
  /\ pc' = [r \in Requests |-> IF r \in Active THEN "done" ELSE pc[r]]
  /\ expired' = {} /\ seen' = [r \in Requests |-> {}]
  /\ rpc' = "idle" /\ todo' = {} /\ rfile' = {}
  /\ ctxDone' = FALSE
  /\ UNCHANGED <<answer, kafka, diskVars, history>>

\* Shut down: every handler has returned and the replayer has stopped.
Terminated == ctxDone /\ Active = {} /\ rpc = "stopped" /\ UNCHANGED vars

HandlerStep(r) ==
  \/ Validate(r) \/ Publish(r) \/ PublishFails(r) \/ WriteExpired(r) \/ WalkStart(r)
  \/ WalkEnd(r) \/ WriteTmp(r) \/ Rename(r) \/ WriteFails(r)

ReplayStep(f) ==
  \/ ReplayRead(f) \/ ReplayReadFails(f) \/ ReplayPublish(f) \/ ReplayPublishFails(f)
  \/ ReplayRemove(f) \/ ReplayRemoveFails(f)

Next ==
  \/ \E r \in Requests : Arrive(r) \/ Expire(r) \/ HandlerStep(r) \/ ReplayStep(r)
  \/ ReplayTick \/ ReplayStop
  \/ Signal \/ Restart \/ Terminated

Spec == Init /\ [][Next]_vars

-----------------------------------------------------------------------------
(* Fairness. *)

\* Every call returns, with a result or an error, and both kinds of goroutines
\* are scheduled; select picks each of two ready cases again and again.
GoroutinesRun ==
  /\ \A r \in Requests : WF_vars(HandlerStep(r))
  /\ WF_vars(ReplayTick \/ (\E f \in Requests : ReplayStep(f)))
  /\ SF_vars(ReplayStop)

\* Kafka and the disk recover: what the replayer tries again and again succeeds.
OutagesEnd ==
  \A f \in Requests :
    SF_vars(ReplayRead(f)) /\ SF_vars(ReplayPublish(f)) /\ SF_vars(ReplayRemove(f))

FairSpec == Spec /\ GoroutinesRun /\ OutagesEnd

-----------------------------------------------------------------------------
(* What the API promises. *)

Accepted == {r \in Requests : answer[r] = "202"}
RecordsOf(S) == UNION {EventsOf[r] : r \in S}

\* The API implements the hand-over of records from its clients to Kafka or the
\* spool: docs/architecture.md, "API returns 202 only after Kafka or durable
\* spool persistence" and "Accepted input is not dropped".
Downstream == INSTANCE Handoff WITH
  Item <- Events, stored <- kafka \cup RecordsOf(dir), acked <- RecordsOf(Accepted)

HandsOver == Downstream!Spec

\* How far the spool can outgrow SpoolMaxBytes: the check and the rename are not
\* one step, so each other handler in flight may add one file that the check did
\* not see, and no more - unless a walk met a file the replayer had just removed,
\* which makes dirUsage report an empty directory (writer.go:56-71 and 143-145).
SpoolBound ==
  \A m \in {Size[r] : r \in Requests} :
    /\ raced = {} /\ MaxBytes > 0 /\ MaxInFlight > 0
    /\ \A r \in Requests : Size[r] <= m
    => Bytes(dir) <= MaxBytes + (MaxInFlight - 1) * m

\* requirements/implementation-plan.md: "Kafka publish failure writes accepted
\* records to the durable spool and still returns 202", "API returns 503 only when
\* no durable write path is available": the unavailable answer means that a
\* file operation failed.
UnavailableOnlyWithoutDisk ==
  \A r \in Requests : answer[r] = "unavailable" => r \in diskFailed

\* docs/architecture.md: "API spool replayer republishes spooled records after
\* Kafka recovers".  What was accepted reaches Kafka, unless the API is told to
\* stop before.
AcceptedReachesKafka ==
  \A r \in Requests : answer[r] = "202" ~> (EventsOf[r] \subseteq kafka \/ ctxDone)

\* Every request that was let in is answered (or its process ended), and after a
\* signal the API comes to rest, whatever fails on the way.
ShutdownEnds == ctxDone ~> (Active = {} /\ rpc = "stopped") \/ ~ctxDone
=============================================================================
