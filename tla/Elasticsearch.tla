---------------------------- MODULE Elasticsearch ----------------------------
(***************************************************************************)
(* The bulk request of src/internal/storage/elasticsearch.go: what one     *)
(* call BulkIndex(ctx, events) may do to the index and may tell its        *)
(* caller.  An event stands for itself; a status is the integer the code   *)
(* compares.  Documents are sent without an _id, so `indexed' is what      *)
(* reached the index at least once.                                        *)
(***************************************************************************)
EXTENDS Integers

CONSTANT Status        \* the per-item statuses, integers, the cluster may answer

\* The three ways the code reads the status of one item.
IsIndexed(s) == s \in 200..299
IsRetryable(s) == s = 429 \/ s >= 500
IsPermanent(s) == ~IsIndexed(s) /\ ~IsRetryable(s)

\* What BulkIndex returns (err, Retryable, Permanent) together with what the
\* cluster really did with the documents of this call (indexed).
Result(err, indexed, retryable, permanent) ==
  [err |-> err, indexed |-> indexed, retryable |-> retryable,
   permanent |-> permanent]

\* A transport error, a cancelled context, a 4xx answer or a body that cannot
\* be read: an empty result and an error, and no knowledge of what was indexed.
Failed(events) == {Result(TRUE, S, {}, {}) : S \in SUBSET events}

\* A 429 or 5xx answer to the whole request: every event is retryable.  A
\* gateway may answer 5xx for a request the cluster carried out.
Refused(events) == {Result(TRUE, S, events, {}) : S \in SUBSET events}

\* A 200 answer with one item per event.
Answered(events) ==
  {Result(FALSE, {e \in events : IsIndexed(s[e])},
                 {e \in events : IsRetryable(s[e])},
                 {e \in events : IsPermanent(s[e])}) : s \in [events -> Status]}

BulkIndex(events) == Failed(events) \cup Refused(events) \cup Answered(events)
=============================================================================
