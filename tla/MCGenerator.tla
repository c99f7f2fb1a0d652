------------------------------ MODULE MCGenerator ------------------------------
(* Instances of Generator for TLC. *)
EXTENDS Generator, TLC

CONSTANT c1, e1

OneClient == {c1}
OneRecord == {e1}
AllRequests == Clients \X (1..PerClient) \X (1..Attempts)
SameEvents == [r \in AllRequests |-> {e1}]
AllOk == [r \in AllRequests |-> "ok"]
AllSizes == [r \in AllRequests |-> 1]
=============================================================================
