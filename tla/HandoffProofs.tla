---------------------------- MODULE HandoffProofs ----------------------------
(***************************************************************************)
(* What the promise of Handoff means for a client: whatever implements     *)
(* Handoff (Worker and LogApi do, HandsOver) keeps an item for ever once   *)
(* it has acknowledged it.                                                 *)
(***************************************************************************)
EXTENDS Handoff, TLAPS

\* What is acknowledged is stored (docs/architecture.md:28-30).
THEOREM NothingIsLost == Spec => []NothingLost
<1>1. Init => NothingLost
  BY DEF Init, NothingLost
<1>2. NothingLost /\ [Next]_vars => NothingLost'
  BY DEF NothingLost, Next, Store, Acknowledge, vars
<1>3. QED
  BY <1>1, <1>2, PTL DEF Spec

\* An item that was acknowledged once is stored in every later state, although the
\* acknowledgement may be taken back (docs/architecture.md:27, "Accepted input is not
\* dropped").
THEOREM AcknowledgedIsKept ==
  ASSUME NEW item \in Item
  PROVE  Spec => []((item \in acked) => [](item \in stored))
<1>1. (item \in stored) /\ [Next]_vars => (item \in stored)'
  BY DEF Next, Store, vars
<1>2. NothingLost => ((item \in acked) => (item \in stored))
  BY DEF NothingLost
<1>3. QED
  BY <1>1, <1>2, NothingIsLost, PTL DEF Spec
=============================================================================
