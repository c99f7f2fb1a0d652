------------------------------ MODULE MCApiStats ------------------------------
(* Instances of ApiStats for TLC. *)
EXTENDS ApiStats, TLC

CONSTANTS q, r, x

TwoRequests == {q, r}
OneLeftover == {x}
=============================================================================
