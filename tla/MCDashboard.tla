------------------------------ MODULE MCDashboard ------------------------------
(* Instances of Dashboard for TLC. *)
EXTENDS Dashboard, TLC

CONSTANTS a, b, c

\* Two records of one time and one that is a second and a half newer.
ThreeKeys == {a, b, c}
ThreeTimes == a :> 0 @@ b :> 0 @@ c :> 3
=============================================================================
