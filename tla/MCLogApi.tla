------------------------------- MODULE MCLogApi -------------------------------
(* Instances of LogApi for TLC. *)
EXTENDS LogApi, TLC

CONSTANTS q, r, s, q1, q2, r1, s1

\* Two requests, the first with two records.
TwoRequests == {q, r}
TwoEvents == {q1, q2, r1}
TwoEventsOf == q :> {q1, q2} @@ r :> {r1}
TwoOk == q :> "ok" @@ r :> "ok"
TwoLong == q :> "long" @@ r :> "ok"
TwoSizes == q :> 2 @@ r :> 1

\* Three requests of one record each.
ThreeRequests == {q, r, s}
ThreeEvents == {q1, r1, s1}
ThreeEventsOf == q :> {q1} @@ r :> {r1} @@ s :> {s1}
ThreeOk == [x \in ThreeRequests |-> "ok"]
ThreeSizes == [x \in ThreeRequests |-> 1]
=============================================================================
