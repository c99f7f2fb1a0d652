------------------------------- MODULE Handoff -------------------------------
(***************************************************************************)
(* What every stage of the pipeline promises the stage before it.          *)
(*                                                                         *)
(* A stage takes items over.  `stored' is what it keeps somewhere that     *)
(* outlives the process (a Kafka topic, an Elasticsearch index, the        *)
(* dead-letter topic, a spool file); `acked' is what it has told its       *)
(* upstream it need not keep any longer: a 202 answer of the log API, a    *)
(* committed Kafka offset of the log worker.                               *)
(*                                                                         *)
(* The promise, from docs/architecture.md ("Accepted input is not          *)
(* dropped", "API returns 202 only after Kafka or durable spool            *)
(* persistence", "Kafka offsets are committed only after indexing, DLQ, or *)
(* durable worker replay storage"): an item is acknowledged only once it   *)
(* is stored, and what is stored stays stored.  An acknowledgement may be  *)
(* taken back (a consumer group's offset can move backwards).              *)
(***************************************************************************)
CONSTANT Item

VARIABLES stored, acked

vars == <<stored, acked>>

TypeOK == stored \subseteq Item /\ acked \subseteq Item

Init == stored = {} /\ acked = {}

\* Items reach durable storage; the ones that are there stay there.
Store == stored \subseteq stored' /\ stored' \subseteq Item

\* Only stored items are acknowledged, and both may happen in one step.
Acknowledge == acked' \subseteq stored'

Next == Store /\ Acknowledge

Spec == Init /\ [][Next]_vars

\* Nothing that was acknowledged is missing from durable storage.
NothingLost == acked \subseteq stored
=============================================================================
