---------------------------- MODULE GeneratorProofs ----------------------------
(***************************************************************************)
(* Proofs about the generator and the log API together, for any number of  *)
(* clients, batches and attempts, in both modes, through any number of     *)
(* restarts of the API.                                                    *)
(***************************************************************************)
EXTENDS Generator, LogApiProofs

USE GeneratorAssumption DEF GeneratorAssumption

-----------------------------------------------------------------------------
(* The generator only uses the API: whatever it does, the API goes its way. *)

LEMMA StepIsApiStep == [SystemNext]_systemVars => [Next]_vars
<1> SUFFICES ASSUME [SystemNext]_systemVars PROVE [Next]_vars
  OBVIOUS
<1>1. CASE ApiStep
  BY <1>1 DEF ApiStep, Next
<1>2. CASE UNCHANGED vars
  BY <1>2
<1>3. QED
  BY <1>1, <1>2 DEF SystemNext, systemVars

\* Every behaviour of the generator and the API is one of the API, so that what is
\* proved of the API for arbitrary requests holds for retried ones.
THEOREM SystemImplementsApi == System => Spec
<1>1. SystemInit => Init
  BY DEF SystemInit
<1>2. QED
  BY <1>1, StepIsApiStep, PTL DEF System, Spec

-----------------------------------------------------------------------------
(* Types. *)

LEMMA ClientType ==
  ASSUME GeneratorTypeOK, NEW c \in Clients, ClientStep(c)
  PROVE  GeneratorTypeOK'
<1> USE DEF GeneratorTypeOK, Sending, Current, Batches, summary
<1>1. CASE StartBatch(c)
  BY <1>1 DEF StartBatch
<1>2. CASE Stop(c)
  BY <1>2 DEF Stop
<1>3. CASE Receive(c)
  BY <1>3 DEF Receive
<1>4. CASE DoFails(c)
  BY <1>4 DEF DoFails
<1>5. CASE BackoffElapses(c)
  BY <1>5 DEF BackoffElapses
<1>6. QED
  BY <1>1, <1>2, <1>3, <1>4, <1>5 DEF ClientStep

\* Every variable of the generator keeps its type; no batch is tried more than
\* Attempts times, and only batches answered 2xx add to the accepted records.
THEOREM GeneratorTypeCorrect == System => []GeneratorTypeOK
<1>1. SystemInit => GeneratorTypeOK
  <2> SUFFICES ASSUME GeneratorInit PROVE GeneratorTypeOK
    BY DEF SystemInit
  <2>1. runOver \in BOOLEAN
    BY Zenon DEF GeneratorInit
  <2>2. QED
    BY <2>1 DEF GeneratorInit, GeneratorTypeOK, Sending
<1>2. GeneratorTypeOK /\ [SystemNext]_systemVars => GeneratorTypeOK'
  <2> SUFFICES ASSUME GeneratorTypeOK, [SystemNext]_systemVars PROVE GeneratorTypeOK'
    OBVIOUS
  <2>1. CASE UNCHANGED generatorVars
    BY <2>1 DEF generatorVars, clientVars, summary, GeneratorTypeOK, Sending
  <2>2. CASE RunOver
    BY <2>2 DEF RunOver, clientVars, summary, GeneratorTypeOK, Sending
  <2>3. QED
    BY <2>1, <2>2, ClientType DEF SystemNext, systemVars
<1>3. QED
  BY <1>1, <1>2, PTL DEF System

-----------------------------------------------------------------------------
(* What was counted as sent is stored. *)

LEMMA CountedStep ==
  ASSUME IInv, GeneratorTypeOK, CountedIsStored, [SystemNext]_systemVars
  PROVE  CountedIsStored'
<1>1. Stored \subseteq Stored'
  BY StepIsApiStep, StoredGrows
<1>2. ASSUME sent' = sent PROVE CountedIsStored'
  BY <1>1, <1>2 DEF CountedIsStored, Stored
<1>3. ASSUME NEW c \in Clients, Receive(c), sent' # sent PROVE CountedIsStored'
  <2>1. answer[Request(c)] = "202" /\ sent' = sent \cup {Current(c)} /\ c \in Sending
    BY <1>3 DEF Receive, Succeeded, Sending
  <2>2. Request(c) \in Requests /\ BatchOf(Request(c)) = Current(c)
    BY <2>1 DEF Request, Current, BatchOf, GeneratorTypeOK
  <2>3. EventsOf[Request(c)] \subseteq Stored
    BY <2>1, <2>2 DEF IInv, AcceptedInv, Accepted, RecordsOf
  <2>4. \A r \in Requests : BatchOf(r) = Current(c) => EventsOf[r] \subseteq Stored
    BY <2>2, <2>3
  <2>5. QED
    BY <1>1, <2>1, <2>4 DEF CountedIsStored, Stored
<1>4. CASE UNCHANGED generatorVars \/ RunOver
  BY <1>2, <1>4 DEF generatorVars, summary, RunOver
<1>5. ASSUME NEW c \in Clients, ClientStep(c) PROVE CountedIsStored'
  BY <1>2, <1>3, <1>5 DEF ClientStep, StartBatch, Stop, DoFails, BackoffElapses, summary
<1>6. QED
  BY <1>4, <1>5 DEF SystemNext, systemVars

\* What the generator reports as sent is in Kafka or a spool file in every later
\* state: lost answers, retries, abandoned attempts, crashes and failed
\* publishes included.
THEOREM SentIsStored == System => []CountedIsStored
<1>1. SystemInit => CountedIsStored
  BY DEF SystemInit, GeneratorInit, CountedIsStored
<1>2. QED
  BY <1>1, CountedStep, SystemImplementsApi, Invariance, GeneratorTypeCorrect, PTL DEF System

-----------------------------------------------------------------------------
(* Every batch is counted once. *)

\* Only batches that were generated have been counted.
GeneratedInv ==
  \A c \in Clients : \A k \in 1..PerClient : <<c, k>> \in sent \cup failed => k <= batch[c]

AccountedInv == GeneratedInv /\ BatchesAccounted

LEMMA AccountedStep ==
  ASSUME GeneratorTypeOK, AccountedInv, NEW c \in Clients, ClientStep(c)
  PROVE  AccountedInv'
<1> USE DEF GeneratorTypeOK, AccountedInv, GeneratedInv, BatchesAccounted, Sending, Current
<1>1. CASE StartBatch(c)
  <2>1. <<c, batch[c] + 1>> \notin sent \cup failed
    BY <1>1 DEF StartBatch
  <2>2. QED
    BY <1>1, <2>1 DEF StartBatch, summary
<1>2. CASE Stop(c)
  BY <1>2 DEF Stop, summary
<1>3. CASE Receive(c)
  BY <1>3 DEF Receive
<1>4. CASE DoFails(c)
  BY <1>4 DEF DoFails, summary
<1>5. CASE BackoffElapses(c)
  BY <1>5 DEF BackoffElapses
<1>6. QED
  BY <1>1, <1>2, <1>3, <1>4, <1>5 DEF ClientStep

\* A batch that is no longer in hand was counted as sent or as failed, and not as
\* both, unless the run ended while its client was sending it.
THEOREM BatchesAreAccounted == System => []BatchesAccounted
<1> USE DEF AccountedInv, GeneratedInv, BatchesAccounted
<1>1. SystemInit => AccountedInv
  BY DEF SystemInit, GeneratorInit
<1>2. GeneratorTypeOK /\ AccountedInv /\ [SystemNext]_systemVars => AccountedInv'
  <2> SUFFICES ASSUME GeneratorTypeOK, AccountedInv, [SystemNext]_systemVars
               PROVE  AccountedInv'
    OBVIOUS
  <2>1. CASE UNCHANGED generatorVars
    BY <2>1 DEF generatorVars, clientVars, summary, Sending
  <2>2. CASE RunOver
    BY <2>2 DEF RunOver, clientVars, summary, Sending
  <2>3. QED
    BY <2>1, <2>2, AccountedStep DEF SystemNext, systemVars
<1>3. AccountedInv => BatchesAccounted
  OBVIOUS
<1>4. QED
  BY <1>1, <1>2, <1>3, GeneratorTypeCorrect, PTL DEF System

-----------------------------------------------------------------------------
(* A client comes to its end. *)

\* One batch less is so many steps less.
LEMMA OneBatchLess ==
  ASSUME NEW k \in Nat, NEW n \in Nat PROVE k * (n - 1) = k * n - k
  OBVIOUS

LEMMA LessAfterTheSame ==
  ASSUME NEW p \in Nat, NEW m \in Nat, NEW n \in Nat, m < n PROVE p + m < p + n
  OBVIOUS

LEMMA ClientNearer ==
  ASSUME GeneratorTypeOK, runOver, NEW c \in Clients, ClientStep(c)
  PROVE  ClientWork(c)' < ClientWork(c)
<1> DEFINE K == 2 * Attempts + 2
           batchesLeft == IF Mode = "burst" /\ batch[c] > 0 THEN PerClient - batch[c] ELSE 0
           own == CASE cpc[c] = "waiting" -> 2 * (Attempts - attempt[c]) + 3
                    [] cpc[c] = "backoff" -> 2 * (Attempts - attempt[c]) + 2
                    [] cpc[c] = "ready"   -> 1
                    [] OTHER              -> 0
<1>1. ClientWork(c) = K * batchesLeft + own
  BY DEF ClientWork
<1>2. ClientWork(c)' = K * batchesLeft' + own'
  BY DEF ClientWork
<1>3. /\ Attempts \in Nat /\ attempt[c] \in Nat /\ attempt[c] <= Attempts /\ attempt[c] >= 1
      /\ batch[c] \in Nat /\ batch[c] <= PerClient /\ PerClient \in Nat
      /\ c \in DOMAIN cpc /\ c \in DOMAIN batch /\ c \in DOMAIN attempt
  BY DEF GeneratorTypeOK
<1>4. K \in Nat /\ batchesLeft \in Nat /\ K * batchesLeft \in Nat
  <2>1. K \in Nat /\ batchesLeft \in Nat
    <3>1. K \in Nat
      BY <1>3
    <3>2. PerClient - batch[c] \in Nat
      BY <1>3
    <3> HIDE DEF K
    <3>3. QED
      BY <3>1, <3>2
  <2> HIDE DEF K, batchesLeft
  <2>2. QED
    BY <2>1
<1>5. CASE StartBatch(c)
  <2>1. /\ cpc[c] = "ready" /\ cpc'[c] = "waiting" /\ attempt'[c] = 1
        /\ batch'[c] = batch[c] + 1 /\ batch[c] < PerClient
        /\ Mode = "burst" /\ batch[c] > 0
    BY <1>3, <1>5 DEF StartBatch
  <2>2. own = 1
    BY <2>1
  <2>3. own' = 2 * (Attempts - 1) + 3
    BY <2>1
  <2>4. batchesLeft' = batchesLeft - 1
    BY <1>3, <2>1
  <2>5. K * batchesLeft' = K * batchesLeft - K
    <3> HIDE DEF K, batchesLeft
    <3>1. QED
      BY <1>4, <2>4, OneBatchLess
  <2>6. K = 2 * Attempts + 2
    OBVIOUS
  <2> HIDE DEF K, batchesLeft, own
  <2>7. QED
    BY <1>1, <1>2, <1>3, <1>4, <2>2, <2>3, <2>5, <2>6
<1>6. ASSUME batch' = batch, own' \in Nat, own \in Nat, own' < own
      PROVE  ClientWork(c)' < ClientWork(c)
  <2> HIDE DEF K, own
  <2>1. batchesLeft' = batchesLeft
    BY <1>6, Zenon
  <2> HIDE DEF batchesLeft
  <2>2. ClientWork(c)' = K * batchesLeft + own'
    BY <1>2, <2>1
  <2>3. K * batchesLeft + own' < K * batchesLeft + own
    BY <1>4, <1>6, LessAfterTheSame
  <2>4. QED
    BY <1>1, <2>2, <2>3
<1>7. CASE Stop(c)
  <2>1. batch' = batch /\ cpc[c] = "ready" /\ cpc'[c] = "stopped"
    BY <1>3, <1>7 DEF Stop
  <2>2. QED
    BY <1>6, <2>1
<1>8. CASE Receive(c) \/ DoFails(c)
  <2>1. /\ batch' = batch /\ attempt' = attempt
        /\ cpc[c] = "waiting" /\ cpc'[c] \in {"ready", "backoff"}
    BY <1>3, <1>8 DEF Receive, DoFails, summary
  <2>2. own = 2 * (Attempts - attempt[c]) + 3
    BY <2>1
  <2>3. own' = 1 \/ own' = 2 * (Attempts - attempt[c]) + 2
    BY <2>1
  <2> HIDE DEF own
  <2>4. QED
    BY <1>3, <1>6, <2>1, <2>2, <2>3
<1>9. CASE BackoffElapses(c)
  <2>1. /\ batch' = batch /\ cpc[c] = "backoff"
        /\ \/ cpc'[c] = "ready"
           \/ cpc'[c] = "waiting" /\ attempt[c] < Attempts /\ attempt'[c] = attempt[c] + 1
    BY <1>3, <1>9 DEF BackoffElapses
  <2>2. own = 2 * (Attempts - attempt[c]) + 2
    BY <2>1
  <2>3. own' = 1 \/ (own' = 2 * (Attempts - (attempt[c] + 1)) + 3 /\ attempt[c] < Attempts)
    BY <2>1
  <2> HIDE DEF own
  <2>4. QED
    BY <1>3, <1>6, <2>1, <2>2, <2>3
<1>10. QED
  BY <1>5, <1>7, <1>8, <1>9 DEF ClientStep

\* A step of one client leaves the others where they are.
LEMMA OthersWait ==
  ASSUME GeneratorTypeOK, NEW c \in Clients, ClientStep(c), NEW d \in Clients, d # c
  PROVE  UNCHANGED <<cpc[d], batch[d], attempt[d]>>
  BY DEF GeneratorTypeOK, ClientStep, StartBatch, Stop, Receive, DoFails, BackoffElapses,
     summary

\* After the end of the run a client has boundedly many steps left: at most two for each
\* attempt of its batch, and in burst mode of the batches that are left of its burst, for
\* any number of clients, batches and attempts and whatever the API does.
THEOREM ClientsComeToAnEnd == System => ClientsAdvance
<1>1. GeneratorTypeOK /\ [SystemNext]_systemVars /\ runOver
        => \A c \in Clients :
             ClientWork(c)' < ClientWork(c) \/ UNCHANGED <<cpc[c], batch[c], attempt[c]>>
  <2> SUFFICES ASSUME GeneratorTypeOK, [SystemNext]_systemVars, runOver, NEW c \in Clients
               PROVE  \/ ClientWork(c)' < ClientWork(c)
                      \/ UNCHANGED <<cpc[c], batch[c], attempt[c]>>
    OBVIOUS
  <2>1. CASE UNCHANGED clientVars
    BY <2>1 DEF clientVars
  <2>2. ASSUME NEW d \in Clients, ClientStep(d)
        PROVE  \/ ClientWork(c)' < ClientWork(c)
               \/ UNCHANGED <<cpc[c], batch[c], attempt[c]>>
    BY <2>2, ClientNearer, OthersWait
  <2>3. QED
    BY <2>1, <2>2 DEF SystemNext, RunOver, systemVars, generatorVars
<1>2. QED
  BY <1>1, GeneratorTypeCorrect, PTL DEF System, ClientsAdvance
=============================================================================
