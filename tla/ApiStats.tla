------------------------------- MODULE ApiStats -------------------------------
(***************************************************************************)
(* What GET /stats of the log API reports: the counters and the spool      *)
(* gauge of internal/metrics, fed by the handlers of internal/ingestion    *)
(* and by the spool replayer, read by a snapshot that takes no common lock.*)
(*                                                                         *)
(* An observer - a request or the replayer - measures the directory in two *)
(* steps (list it, examine the files) and stores the result in a third, so *)
(* measurements can be stored out of order.  Whether a record is published *)
(* or spooled is decided in LogApi; here each outcome is possible, and what*)
(* matters is what is counted for it.  Every batch has one record, and all *)
(* spool files have FileBytes bytes.                                       *)
(***************************************************************************)
EXTENDS Integers, FiniteSets, Sequences

CONSTANTS
  Requests,        \* the requests of one run of the model
  Leftover,        \* spool files an earlier process left behind
  Replayer,        \* the replayer, as an observer
  FileBytes,       \* bytes of one spool file
  MaxBytes,        \* cfg.SpoolMaxBytes; 0: no limit
  MaxWalkErrors    \* bound: directory walks that fail

ASSUME ApiStatsAssumption ==
  /\ IsFiniteSet(Requests) /\ IsFiniteSet(Leftover)
  /\ Requests \cap Leftover = {}
  /\ Replayer \notin Requests
  /\ FileBytes \in Nat \ {0}
  /\ MaxBytes \in Nat
  /\ MaxWalkErrors \in Nat

Files == Requests \cup Leftover
Observers == Requests \cup {Replayer}

VARIABLES
  pc,          \* observer -> where it is
  after,       \* observer -> where it goes on when the gauge is stored
  listed,      \* observer -> the files its walk found
  measured,    \* observer -> the State it is about to store
  dir,         \* spool files
  ctxDone,     \* a signal was received
  walkErrors,  \* failed walks
  \* Counters
  requests,    \* requestsTotal
  rejected,    \* rejectedRequestsTotal
  batches,     \* batchesAcceptedTotal
  spooled,     \* spooledRecordsTotal
  replayed,    \* replayedRecordsTotal
  kafkaErrors, \* kafkaPublishErrorsTotal: overloadMode would look at it had gauge no mode
  gauge,       \* spoolState
  \* one reader of /stats
  loading,     \* Snapshot has loaded its first counter
  loaded       \* the value it had

observerVars == <<pc, after, listed, measured>>
surroundings == <<dir, ctxDone, walkErrors>>
counters == <<requests, rejected, batches, spooled, replayed, kafkaErrors>>
reader == <<loading, loaded>>
vars == <<observerVars, surroundings, counters, gauge, reader>>

Bytes(files) == FileBytes * Cardinality(files)

\* mode: the comparisons of used / maxBytes with 1, 0.8 and 0 in integers.
Mode(used) ==
  CASE used = 0 -> "normal"
    [] used > 0 /\ MaxBytes = 0 -> "degraded"
    [] used > 0 /\ MaxBytes > 0 /\ used >= MaxBytes -> "exhausted"
    [] used > 0 /\ used < MaxBytes /\ 10 * used >= 8 * MaxBytes -> "critical"
    [] used > 0 /\ 10 * used < 8 * MaxBytes -> "degraded"

State(used) == [mode |-> Mode(used), used |-> used]
Unknown == [mode |-> "unknown", used |-> 0]
Modes == {"normal", "degraded", "critical", "exhausted", "unknown"}

Init ==
  /\ pc = [o \in Observers |-> IF o = Replayer THEN "list" ELSE "new"]
  /\ after = [o \in Observers |-> IF o = Replayer THEN "idle" ELSE "acquire"]
  /\ listed = [o \in Observers |-> {}]
  /\ measured = [o \in Observers |-> Unknown]
  /\ dir = Leftover
  /\ ctxDone = FALSE /\ walkErrors = 0
  /\ requests = 0 /\ rejected = 0 /\ batches = 0
  /\ spooled = 0 /\ replayed = 0 /\ kafkaErrors = 0
  /\ gauge = State(Bytes(dir))
  /\ loading = FALSE /\ loaded = 0

GoTo(o, step) == pc' = [pc EXCEPT ![o] = step]

\* The caller goes on at `step' once it has observed the spool state.
ObserveThen(o, step) == GoTo(o, "list") /\ after' = [after EXCEPT ![o] = step]

-----------------------------------------------------------------------------
(* observeSpoolState and publishState. *)

WalkList(o) ==
  /\ pc[o] = "list"
  /\ listed' = [listed EXCEPT ![o] = dir]
  /\ GoTo(o, "walk")
  /\ UNCHANGED <<after, measured, surroundings, counters, gauge, reader>>

\* A listed file that is gone was either counted before, or its ErrNotExist makes
\* dirUsage report an empty directory.
WalkEnd(o) ==
  /\ pc[o] = "walk"
  /\ \E used \in {Bytes(listed[o])} \cup (IF listed[o] \subseteq dir THEN {} ELSE {0}) :
       measured' = [measured EXCEPT ![o] = State(used)]
  /\ listed' = [listed EXCEPT ![o] = {}]
  /\ GoTo(o, "store")
  /\ UNCHANGED <<after, surroundings, counters, gauge, reader>>

\* Any other error of the walk.
WalkFails(o) ==
  /\ pc[o] = "walk" /\ walkErrors < MaxWalkErrors
  /\ walkErrors' = walkErrors + 1
  /\ measured' = [measured EXCEPT ![o] = Unknown]
  /\ listed' = [listed EXCEPT ![o] = {}]
  /\ GoTo(o, "store")
  /\ UNCHANGED <<after, dir, ctxDone, counters, gauge, reader>>

\* Mutant of ObserveSpoolState: the size is stored without its mode.
ObserveSpoolStateSizeOnly(o) ==
  /\ pc[o] = "store"
  /\ gauge' = [gauge EXCEPT !.used = measured[o].used]
  /\ measured' = [measured EXCEPT ![o] = Unknown]
  /\ GoTo(o, after[o])
  /\ UNCHANGED <<after, listed, surroundings, counters, reader>>

ObserveSpoolState(o) ==
  /\ pc[o] = "store"
  /\ gauge' = measured[o]
  /\ measured' = [measured EXCEPT ![o] = Unknown]
  /\ GoTo(o, after[o])
  /\ UNCHANGED <<after, listed, surroundings, counters, reader>>

-----------------------------------------------------------------------------
(* ServeHTTP, as far as it is observed. *)

Arrive(r) ==
  /\ pc[r] = "new" /\ ~ctxDone
  /\ requests' = requests + 1
  /\ ObserveThen(r, "acquire")
  /\ UNCHANGED <<listed, measured, surroundings, rejected, batches, spooled, replayed,
                 kafkaErrors, gauge, reader>>

\* Saturated, or refused with a 4xx.
Reject(r) ==
  /\ pc[r] = "acquire"
  /\ rejected' = rejected + 1
  /\ GoTo(r, "done")
  /\ UNCHANGED <<after, listed, measured, surroundings, requests, batches, spooled,
                 replayed, kafkaErrors, gauge, reader>>

Publish(r) ==
  /\ pc[r] = "acquire"
  /\ batches' = batches + 1
  /\ GoTo(r, "done")
  /\ UNCHANGED <<after, listed, measured, surroundings, requests, rejected, spooled,
                 replayed, kafkaErrors, gauge, reader>>

PublishFails(r) ==
  /\ pc[r] = "acquire"
  /\ kafkaErrors' = kafkaErrors + 1
  /\ GoTo(r, "spool")
  /\ UNCHANGED <<after, listed, measured, surroundings, requests, rejected, batches,
                 spooled, replayed, gauge, reader>>

\* Write renames the file ...
Spool(r) ==
  /\ pc[r] = "spool"
  /\ dir' = dir \cup {r}
  /\ GoTo(r, "count")
  /\ UNCHANGED <<after, listed, measured, ctxDone, walkErrors, counters, gauge, reader>>

\* Mutant of CountSpooled: the spooled records are not counted as accepted.
CountSpooledOnly(r) ==
  /\ pc[r] = "count"
  /\ spooled' = spooled + 1
  /\ ObserveThen(r, "done")
  /\ UNCHANGED <<listed, measured, surroundings, requests, rejected, batches, replayed,
                 kafkaErrors, gauge, reader>>

\* ... and the handler counts it, while the replayer may be replaying it.
CountSpooled(r) ==
  /\ pc[r] = "count"
  /\ batches' = batches + 1
  /\ spooled' = spooled + 1
  /\ ObserveThen(r, "done")
  /\ UNCHANGED <<listed, measured, surroundings, requests, rejected, replayed,
                 kafkaErrors, gauge, reader>>

\* The spool is full, or the disk or the context refuses.
SpoolFails(r) ==
  /\ pc[r] = "spool"
  /\ rejected' = rejected + 1
  /\ ObserveThen(r, "done")
  /\ UNCHANGED <<listed, measured, surroundings, requests, batches, spooled, replayed,
                 kafkaErrors, gauge, reader>>

-----------------------------------------------------------------------------
(* The replayer: a pass republishes and removes files, then the state is     *)
(* published, however the pass ended.                                        *)

ReplayTick ==
  /\ pc[Replayer] = "idle"
  /\ GoTo(Replayer, "pass")
  /\ UNCHANGED <<after, listed, measured, surroundings, counters, gauge, reader>>

ReplayRemove(f) ==
  /\ pc[Replayer] = "pass" /\ f \in dir
  /\ dir' = dir \ {f}
  /\ GoTo(Replayer, "count")
  /\ UNCHANGED <<after, listed, measured, ctxDone, walkErrors, counters, gauge, reader>>

\* Mutant of OnReplay: the callback is left out.
OnReplayMissing ==
  /\ pc[Replayer] = "count"
  /\ GoTo(Replayer, "pass")
  /\ UNCHANGED <<after, listed, measured, surroundings, counters, gauge, reader>>

OnReplay ==
  /\ pc[Replayer] = "count"
  /\ replayed' = replayed + 1
  /\ GoTo(Replayer, "pass")
  /\ UNCHANGED <<after, listed, measured, surroundings, requests, rejected, batches,
                 spooled, kafkaErrors, gauge, reader>>

\* Mutant of PassEnds: the state is published only when nothing is left over.
PassEndsDrained ==
  /\ pc[Replayer] = "pass"
  /\ IF dir = {} THEN ObserveThen(Replayer, "idle") ELSE GoTo(Replayer, "idle") /\ UNCHANGED after
  /\ UNCHANGED <<listed, measured, surroundings, counters, gauge, reader>>

\* All files were looked at, or an error ended the pass.
PassEnds ==
  /\ pc[Replayer] = "pass"
  /\ ObserveThen(Replayer, "idle")
  /\ UNCHANGED <<listed, measured, surroundings, counters, gauge, reader>>

ReplayStop ==
  /\ pc[Replayer] = "idle" /\ ctxDone
  /\ GoTo(Replayer, "stopped")
  /\ UNCHANGED <<after, listed, measured, surroundings, counters, gauge, reader>>

Signal ==
  /\ ~ctxDone
  /\ ctxDone' = TRUE
  /\ UNCHANGED <<observerVars, dir, walkErrors, counters, gauge, reader>>

-----------------------------------------------------------------------------
(* Snapshot: each counter is loaded by itself. *)

\* Mutant of LoadOrder: the order of the fields in the answer.
LoadOrderAsWritten == <<"requests", "batches">>

\* batchesAcceptedTotal is loaded before the fields of the answer are filled in.
LoadOrder == <<"batches", "requests">>

Load(counter) == IF counter = "batches" THEN batches ELSE requests

SnapshotBegins ==
  /\ ~loading
  /\ loading' = TRUE /\ loaded' = Load(LoadOrder[1])
  /\ UNCHANGED <<observerVars, surroundings, counters, gauge>>

\* The answer if the second counter is loaded now.
Answer == [c \in {"batches", "requests"} |-> IF c = LoadOrder[1] THEN loaded ELSE Load(c)]

SnapshotEnds ==
  /\ loading
  /\ loading' = FALSE /\ loaded' = 0
  /\ UNCHANGED <<observerVars, surroundings, counters, gauge>>

Observe(o) == WalkList(o) \/ WalkEnd(o) \/ WalkFails(o) \/ ObserveSpoolState(o)

Handler(r) ==
  \/ Reject(r) \/ Publish(r) \/ PublishFails(r)
  \/ Spool(r) \/ SpoolFails(r) \/ CountSpooled(r)

Replay ==
  \/ ReplayTick \/ OnReplay \/ PassEnds \/ ReplayStop
  \/ \E f \in Files : ReplayRemove(f)

Next ==
  \/ \E o \in Observers : Observe(o)
  \/ \E r \in Requests : Arrive(r) \/ Handler(r)
  \/ Replay \/ Signal
  \/ SnapshotBegins \/ SnapshotEnds

Spec == Init /\ [][Next]_vars

\* Handlers and the replayer are scheduled, and all their calls return.
FairSpec ==
  /\ Spec
  /\ \A r \in Requests : WF_vars(Observe(r) \/ Handler(r))
  /\ WF_vars(Observe(Replayer) \/ Replay)

-----------------------------------------------------------------------------
(* What the figures promise. *)

\* Requests that were counted and have no outcome yet.
InHand ==
  {r \in Requests : \/ pc[r] \in {"acquire", "spool", "count"}
                    \/ pc[r] \in {"list", "walk", "store"} /\ after[r] = "acquire"}

TypeOK ==
  /\ pc \in [Observers -> {"new", "list", "walk", "store", "acquire", "spool", "count",
                           "done", "idle", "pass", "stopped"}]
  /\ after \in [Observers -> {"acquire", "done", "idle"}]
  /\ listed \in [Observers -> SUBSET Files]
  /\ measured \in [Observers -> [mode : Modes, used : Nat]]
  /\ dir \subseteq Files
  /\ ctxDone \in BOOLEAN
  /\ walkErrors \in 0..MaxWalkErrors
  /\ requests \in Nat /\ rejected \in Nat /\ batches \in Nat
  /\ spooled \in Nat /\ replayed \in Nat /\ kafkaErrors \in Nat
  /\ gauge \in [mode : Modes, used : Nat]
  \* The reported mode is that of the size reported with it.
  /\ gauge.mode = "unknown" \/ gauge.mode = Mode(gauge.used)
  /\ loading \in BOOLEAN /\ loaded \in Nat

\* Every request ends as accepted or rejected, and as one of them only, on each
\* of the handler's paths (handler.go:73-167).
RequestsAccounted == requests = batches + rejected + Cardinality(InHand)

\* The counters explain the backlog: what was found at the start or spooled since is in
\* the directory or was replayed, up to the files whose counting is under way.
BacklogAccounted ==
  Cardinality(Leftover) + spooled + Cardinality({r \in Requests : pc[r] = "count"})
    = Cardinality(dir) + replayed + (IF pc[Replayer] = "count" THEN 1 ELSE 0)

\* Although the counters change while a snapshot loads them one after the other, no
\* answer of /stats reports more accepted batches than requests (counters.go:157-176).
SnapshotConsistent == loading => Answer.batches <= Answer.requests

\* docs/architecture.md, "Overload Modes": however observations overtake each other
\* and whatever vanishes under a walk, the reported mode and size come to be those of
\* the directory and stay so, unless the process is told to stop.
GaugeSettles == <>[](gauge = State(Bytes(dir)) \/ ctxDone)
=============================================================================
