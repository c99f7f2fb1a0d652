------------------------------- MODULE Generator -------------------------------
(***************************************************************************)
(* The log generator (cmd/log-generator) against the log API: clients that *)
(* send batches one after another, each in up to three attempts, to the    *)
(* handlers of LogApi.                                                     *)
(*                                                                         *)
(* Every attempt is a request of its own with the same payload.  An        *)
(* attempt the client has given up may still arrive, be handled and be     *)
(* accepted, while the next one is on its way.                             *)
(***************************************************************************)
EXTENDS LogApi

CONSTANTS
  Clients,     \* -clients: the goroutines of main
  PerClient,   \* bound: batches one client generates; in burst mode, of one burst
  Attempts,    \* the attempts of sendBatch: 3 in the code
  Mode         \* -mode: "steady" or "burst"

\* Batch k of client c is <<c, k>>, its n-th attempt is the request <<c, k, n>>.
Batches == Clients \X (1..PerClient)
BatchOf(r) == <<r[1], r[2]>>

ASSUME GeneratorAssumption ==
  /\ PerClient \in Nat \ {0}
  /\ Attempts \in Nat \ {0}
  /\ Mode \in {"steady", "burst"}
  /\ Requests = Clients \X (1..PerClient) \X (1..Attempts)
  /\ \A q, r \in Requests :
       BatchOf(q) = BatchOf(r) => EventsOf[q] = EventsOf[r] /\ Body[q] = Body[r]

VARIABLES
  cpc,       \* where runClient, or the sendBatch it called, is
  batch,     \* client -> the batches it has generated
  attempt,   \* client -> the attempt of the batch it is sending
  runOver,   \* the context of the run is done: -duration has passed
  \* the counters of the summary
  sent,      \* batches answered 2xx
  counted,   \* those whose records were added to accepted_records
  failed,    \* batches added to failed_requests
  retries

clientVars == <<cpc, batch, attempt>>
summary == <<sent, counted, failed, retries>>
generatorVars == <<clientVars, runOver, summary>>
systemVars == <<vars, generatorVars>>

Sending == {c \in Clients : cpc[c] \in {"waiting", "backoff"}}

\* The batch client c is at, and the request of its current attempt.
Current(c) == <<c, batch[c]>>
Request(c) == <<c, batch[c], attempt[c]>>

GeneratorTypeOK ==
  /\ cpc \in [Clients -> {"ready", "waiting", "backoff", "stopped"}]
  /\ batch \in [Clients -> 0..PerClient]
  /\ attempt \in [Clients -> 1..Attempts]
  /\ runOver \in BOOLEAN
  /\ sent \subseteq Batches
  /\ counted \subseteq sent
  /\ failed \subseteq Batches
  /\ retries \in Nat
  \* A client that is sending is at a batch it has generated.
  /\ \A c \in Sending : batch[c] >= 1

GeneratorInit ==
  /\ cpc = [c \in Clients |-> "ready"]
  /\ batch = [c \in Clients |-> 0]
  /\ attempt = [c \in Clients |-> 1]
  /\ runOver = FALSE
  /\ sent = {} /\ counted = {} /\ failed = {} /\ retries = 0

-----------------------------------------------------------------------------
(* runClient and sendBatch. *)

\* steady: the loop looks at the context before each batch.
\* burst: the batches of one burst follow each other without a look at it.
StartBatch(c) ==
  /\ cpc[c] = "ready" /\ batch[c] < PerClient
  /\ ~runOver \/ (Mode = "burst" /\ batch[c] > 0)
  /\ batch' = [batch EXCEPT ![c] = @ + 1]
  /\ attempt' = [attempt EXCEPT ![c] = 1]
  /\ cpc' = [cpc EXCEPT ![c] = "waiting"]
  /\ UNCHANGED <<runOver, summary>>

Stop(c) ==
  /\ cpc[c] = "ready" /\ runOver
  /\ Mode = "burst" => batch[c] \in {0, PerClient}
  /\ cpc' = [cpc EXCEPT ![c] = "stopped"]
  /\ UNCHANGED <<batch, attempt, runOver, summary>>

\* Every refusal of the handler but a 4xx is a 503.
Succeeded(a) == a = "202"
Retryable(a) == a \in {"saturated", "full", "unavailable"}

\* client.Do returns the answer to the current attempt.  A body that does not
\* decode, cut off for instance, counts as no accepted records.
Receive(c) ==
  /\ cpc[c] = "waiting"
  /\ LET a == answer[Request(c)] IN
       \/ /\ Succeeded(a)
          /\ sent' = sent \cup {Current(c)}
          /\ counted' \in {counted, counted \cup {Current(c)}}
          /\ cpc' = [cpc EXCEPT ![c] = "ready"]
          /\ UNCHANGED failed
       \/ /\ Retryable(a)
          /\ cpc' = [cpc EXCEPT ![c] = "backoff"]
          /\ UNCHANGED <<sent, counted, failed>>
       \/ /\ a = "4xx"
          /\ failed' = failed \cup {Current(c)}
          /\ cpc' = [cpc EXCEPT ![c] = "ready"]
          /\ UNCHANGED <<sent, counted>>
  /\ UNCHANGED <<batch, attempt, runOver, retries>>

\* Mutant of DoFails: a call that fails because the run is over is made again.
DoFailsCallsAgain(c) ==
  /\ cpc[c] = "waiting"
  /\ cpc' = [cpc EXCEPT ![c] = IF runOver THEN "waiting" ELSE "backoff"]
  /\ UNCHANGED <<batch, attempt, runOver, summary>>

\* client.Do returns an error: refused, timed out, the connection lost before or
\* after the answer was written, or the run over.  In the last case sendBatch
\* returns without counting the batch.
DoFails(c) ==
  /\ cpc[c] = "waiting"
  /\ cpc' = [cpc EXCEPT ![c] = IF runOver THEN "ready" ELSE "backoff"]
  /\ UNCHANGED <<batch, attempt, runOver, summary>>

\* Mutant of BackoffElapses: the attempts are not limited.
BackoffElapsesForEver(c) ==
  /\ cpc[c] = "backoff"
  /\ cpc' = [cpc EXCEPT ![c] = "waiting"]
  /\ UNCHANGED <<batch, attempt, runOver, summary>>

\* Mutant of BackoffElapses: the last failure is not counted.
BackoffElapsesUncounted(c) ==
  /\ cpc[c] = "backoff"
  /\ IF attempt[c] < Attempts
     THEN /\ attempt' = [attempt EXCEPT ![c] = @ + 1]
          /\ retries' = retries + 1
          /\ cpc' = [cpc EXCEPT ![c] = "waiting"]
     ELSE /\ cpc' = [cpc EXCEPT ![c] = "ready"]
          /\ UNCHANGED <<attempt, retries>>
  /\ UNCHANGED <<batch, runOver, sent, counted, failed>>

\* Mutant of BackoffElapses: one attempt too many.
BackoffElapsesOneMore(c) ==
  /\ cpc[c] = "backoff"
  /\ attempt[c] <= Attempts
  /\ attempt' = [attempt EXCEPT ![c] = @ + 1]
  /\ retries' = retries + 1
  /\ cpc' = [cpc EXCEPT ![c] = "waiting"]
  /\ UNCHANGED <<batch, runOver, sent, counted, failed>>

\* The sleep after a failed attempt, also after the last one.
BackoffElapses(c) ==
  /\ cpc[c] = "backoff"
  /\ IF attempt[c] < Attempts
     THEN /\ attempt' = [attempt EXCEPT ![c] = @ + 1]
          /\ retries' = retries + 1
          /\ cpc' = [cpc EXCEPT ![c] = "waiting"]
          /\ UNCHANGED failed
     ELSE /\ failed' = failed \cup {Current(c)}
          /\ cpc' = [cpc EXCEPT ![c] = "ready"]
          /\ UNCHANGED <<attempt, retries>>
  /\ UNCHANGED <<batch, runOver, sent, counted>>

RunOver ==
  /\ ~runOver
  /\ runOver' = TRUE
  /\ UNCHANGED <<clientVars, summary>>

ClientStep(c) == StartBatch(c) \/ Stop(c) \/ Receive(c) \/ DoFails(c) \/ BackoffElapses(c)

-----------------------------------------------------------------------------
(* Both together. *)

\* A request can arrive once it was sent, however late.
WasSent(r) ==
  LET c == r[1] IN
    \/ r[2] < batch[c]
    \/ r[2] = batch[c] /\ r[3] <= attempt[c]

ApiStep ==
  \/ \E r \in Requests : (WasSent(r) /\ Arrive(r)) \/ Expire(r) \/ HandlerStep(r) \/ ReplayStep(r)
  \/ ReplayTick \/ ReplayStop \/ Signal \/ Restart

SystemInit == Init /\ GeneratorInit

SystemNext ==
  \/ ApiStep /\ UNCHANGED generatorVars
  \/ ((\E c \in Clients : ClientStep(c)) \/ RunOver) /\ UNCHANGED vars
  \* The generator has ended; the API goes on or not.
  \/ (\A c \in Clients : cpc[c] = "stopped") /\ UNCHANGED systemVars

System == SystemInit /\ [][SystemNext]_systemVars

\* A client's call ends by its own timeout of five seconds, its sleeps end, and
\* the run has a duration.
ClientsRun ==
  /\ WF_systemVars(RunOver /\ UNCHANGED vars)
  /\ \A c \in Clients :
       WF_systemVars((Receive(c) \/ DoFails(c) \/ BackoffElapses(c) \/ Stop(c)
                      \/ (runOver /\ StartBatch(c))) /\ UNCHANGED vars)

FairSystem == System /\ GoroutinesRun /\ OutagesEnd /\ ClientsRun

-----------------------------------------------------------------------------
(* What the summary of a run can be trusted for. *)

\* What the generator reports as sent is in Kafka or the spool, whichever of
\* the attempts was answered, and whatever became of the others.
CountedIsStored ==
  \A b \in sent : \A r \in Requests :
    BatchOf(r) = b => EventsOf[r] \subseteq kafka \cup RecordsOf(dir)

\* Each batch is counted once, as sent or as failed.  The exception is what a
\* client was sending when the run ended: in steady mode one batch for each
\* client, in burst mode the rest of its burst.
BatchesAccounted ==
  /\ sent \cap failed = {}
  /\ \A c \in Clients : \A k \in 1..batch[c] :
       LET inHand == c \in Sending /\ k = batch[c] IN
         IF inHand THEN <<c, k>> \notin sent \cup failed
         ELSE \/ <<c, k>> \in sent \cup failed
              \/ runOver /\ (Mode = "steady" => k = batch[c])

\* At most so many steps client c has left once the run is over: two for each attempt
\* of its batch, in burst mode those of the rest of its burst, and its end.
ClientWork(c) ==
  LET batchesLeft == IF Mode = "burst" /\ batch[c] > 0 THEN PerClient - batch[c] ELSE 0
      attemptsLeft == 2 * (Attempts - attempt[c])
  IN (2 * Attempts + 2) * batchesLeft
     + CASE cpc[c] = "waiting" -> attemptsLeft + 3
         [] cpc[c] = "backoff" -> attemptsLeft + 2
         [] cpc[c] = "ready"   -> 1
         [] OTHER              -> 0

\* Why RunEnds holds: after the end of the run each step of a client brings its end
\* nearer, whatever the API answers or does not, and nothing the API or another client
\* does sets it back (main.go:127-217).
ClientsAdvance ==
  [][runOver => \A c \in Clients :
       ClientWork(c)' < ClientWork(c) \/ UNCHANGED <<cpc[c], batch[c], attempt[c]>>]_systemVars

\* The generator ends after the run is over, whatever the API does.
RunEnds == runOver ~> \A c \in Clients : cpc[c] = "stopped"
=============================================================================
