---------------------------- MODULE ApiStatsProofs ----------------------------
(***************************************************************************)
(* Proofs about the figures of /stats for any finite number of requests    *)
(* and left-over files, any file size and any capacity.                    *)
(***************************************************************************)
EXTENDS ApiStats, FiniteSetTheorems, TLAPS

USE ApiStatsAssumption DEF ApiStatsAssumption

-----------------------------------------------------------------------------
(* What the observers measure. *)

LEMMA ObserverFacts ==
  /\ Requests \subseteq Observers /\ Replayer \in Observers
  /\ Requests \subseteq Files
  /\ IsFiniteSet(Files)
  BY FS_Union DEF Observers, Files

\* The five modes exhaust the sizes.
LEMMA ModeType == ASSUME NEW n \in Nat PROVE Mode(n) \in Modes
<1>1. CASE n = 0
  BY <1>1 DEF Mode, Modes
<1>2. CASE n > 0 /\ MaxBytes = 0
  BY <1>2 DEF Mode, Modes
<1>3. CASE n > 0 /\ MaxBytes > 0 /\ n >= MaxBytes
  BY <1>3 DEF Mode, Modes
<1>4. CASE n > 0 /\ n < MaxBytes /\ 10 * n >= 8 * MaxBytes
  BY <1>4 DEF Mode, Modes
<1>5. CASE n > 0 /\ MaxBytes > 0 /\ 10 * n < 8 * MaxBytes
  BY <1>5 DEF Mode, Modes
<1>6. QED
  BY <1>1, <1>2, <1>3, <1>4, <1>5

LEMMA BytesType == ASSUME NEW S \in SUBSET Files PROVE Bytes(S) \in Nat
<1>1. Cardinality(S) \in Nat
  BY ObserverFacts, FS_Subset, FS_CardinalityType
<1>2. QED
  BY <1>1 DEF Bytes

\* A measurement is a failed one, or has the mode of its size.
Measurement(m) ==
  /\ m \in [mode : Modes, used : Nat]
  /\ m.mode = "unknown" \/ m.mode = Mode(m.used)

LEMMA MeasurementFacts ==
  /\ Measurement(Unknown)
  /\ \A n \in Nat : Measurement(State(n))
  BY ModeType DEF Measurement, State, Unknown, Modes

-----------------------------------------------------------------------------
(* Types. *)

MeasuredInv == \A o \in Observers : Measurement(measured[o])

TypeInv == TypeOK /\ MeasuredInv

LEMMA TypeInit == Init => TypeInv
<1> SUFFICES ASSUME Init PROVE TypeInv
  OBVIOUS
<1>1. Bytes(dir) \in Nat
  BY BytesType, ObserverFacts DEF Init, Files
<1>2. Measurement(gauge)
  BY <1>1, MeasurementFacts DEF Init
<1>3. \A o \in Observers : Measurement(measured[o])
  BY MeasurementFacts DEF Init
<1>4. measured \in [Observers -> [mode : Modes, used : Nat]]
  BY MeasurementFacts DEF Init, Measurement
<1>5. /\ pc \in [Observers -> {"new", "list", "walk", "store", "acquire", "spool", "count",
                               "done", "idle", "pass", "stopped"}]
      /\ after \in [Observers -> {"acquire", "done", "idle"}]
      /\ listed \in [Observers -> SUBSET Files]
  BY DEF Init
<1>6. /\ gauge \in [mode : Modes, used : Nat]
      /\ gauge.mode = "unknown" \/ gauge.mode = Mode(gauge.used)
  BY <1>2 DEF Measurement
<1>7. /\ requests \in Nat /\ rejected \in Nat /\ batches \in Nat
      /\ spooled \in Nat /\ replayed \in Nat /\ kafkaErrors \in Nat
      /\ loaded \in Nat /\ walkErrors \in 0..MaxWalkErrors
  BY SMT DEF Init
<1>8. dir \subseteq Files /\ ctxDone \in BOOLEAN /\ loading \in BOOLEAN
  BY Zenon DEF Init, Files
<1>9. TypeOK
  BY <1>4, <1>5, <1>6, <1>7, <1>8 DEF TypeOK
<1>10. QED
  BY <1>3, <1>9 DEF TypeInv, MeasuredInv

LEMMA ObserveType ==
  ASSUME TypeInv, NEW o \in Observers, Observe(o) PROVE TypeInv'
<1> USE DEF TypeInv, TypeOK, MeasuredInv
<1>1. CASE WalkList(o)
  BY <1>1 DEF WalkList, GoTo, surroundings, counters, reader
<1>2. CASE WalkEnd(o)
  <2>1. PICK used \in {Bytes(listed[o])} \cup (IF listed[o] \subseteq dir THEN {} ELSE {0}) :
          measured' = [measured EXCEPT ![o] = State(used)]
    BY <1>2 DEF WalkEnd
  <2>2. used \in Nat
    BY BytesType
  <2>3. Measurement(State(used))
    BY <2>2, MeasurementFacts
  <2>4. State(used) \in [mode : Modes, used : Nat]
    BY <2>3 DEF Measurement
  <2>5. MeasuredInv'
    BY <2>1, <2>3
  <2>6. TypeOK'
    BY <1>2, <2>1, <2>4 DEF WalkEnd, GoTo, surroundings, counters, reader
  <2>7. QED
    BY <2>5, <2>6
<1>3. CASE WalkFails(o)
  <2>1. measured' = [measured EXCEPT ![o] = Unknown] /\ Measurement(Unknown)
    BY <1>3, MeasurementFacts DEF WalkFails
  <2>2. MeasuredInv'
    BY <2>1
  <2>3. TypeOK'
    BY <1>3, <2>1 DEF WalkFails, GoTo, counters, reader, Measurement
  <2>4. QED
    BY <2>2, <2>3
<1>4. CASE ObserveSpoolState(o)
  <2>1. /\ measured' = [measured EXCEPT ![o] = Unknown] /\ Measurement(Unknown)
        /\ gauge' = measured[o] /\ Measurement(measured[o])
    BY <1>4, MeasurementFacts DEF ObserveSpoolState
  <2>2. MeasuredInv'
    BY <2>1
  <2>3. /\ measured' \in [Observers -> [mode : Modes, used : Nat]]
        /\ gauge' \in [mode : Modes, used : Nat]
        /\ gauge'.mode = "unknown" \/ gauge'.mode = Mode(gauge'.used)
    BY <2>1 DEF Measurement
  <2>4. TypeOK'
    BY <1>4, <2>3 DEF ObserveSpoolState, GoTo, surroundings, counters, reader
  <2>5. QED
    BY <2>2, <2>4
<1>5. QED
  BY <1>1, <1>2, <1>3, <1>4 DEF Observe

LEMMA HandlerType ==
  ASSUME TypeInv, NEW r \in Requests, Arrive(r) \/ Handler(r) PROVE TypeInv'
<1> USE ObserverFacts DEF TypeInv, TypeOK, MeasuredInv, GoTo, ObserveThen, surroundings,
        counters, reader
<1>1. CASE Arrive(r)
  BY <1>1 DEF Arrive
<1>2. CASE Reject(r)
  BY <1>2 DEF Reject
<1>3. CASE Publish(r)
  BY <1>3 DEF Publish
<1>4. CASE PublishFails(r)
  BY <1>4 DEF PublishFails
<1>5. CASE Spool(r)
  BY <1>5 DEF Spool
<1>6. CASE SpoolFails(r)
  BY <1>6 DEF SpoolFails
<1>7. CASE CountSpooled(r)
  BY <1>7 DEF CountSpooled
<1>8. QED
  BY <1>1, <1>2, <1>3, <1>4, <1>5, <1>6, <1>7 DEF Handler

LEMMA ReplayType == ASSUME TypeInv, Replay PROVE TypeInv'
<1> USE ObserverFacts DEF TypeInv, TypeOK, MeasuredInv, GoTo, ObserveThen, surroundings,
        counters, reader
<1>1. CASE ReplayTick
  BY <1>1 DEF ReplayTick
<1>2. CASE OnReplay
  BY <1>2 DEF OnReplay
<1>3. CASE PassEnds
  BY <1>3 DEF PassEnds
<1>4. CASE ReplayStop
  BY <1>4 DEF ReplayStop
<1>5. ASSUME NEW f \in Files, ReplayRemove(f) PROVE TypeInv'
  BY <1>5 DEF ReplayRemove
<1>6. QED
  BY <1>1, <1>2, <1>3, <1>4, <1>5 DEF Replay

LEMMA OtherType ==
  ASSUME TypeInv, Signal \/ SnapshotBegins \/ SnapshotEnds \/ UNCHANGED vars PROVE TypeInv'
<1> USE DEF TypeInv, TypeOK, MeasuredInv, observerVars, surroundings, counters, reader
<1>1. CASE Signal
  BY <1>1 DEF Signal
<1>2. CASE SnapshotBegins
  <2>1. Load(LoadOrder[1]) \in Nat
    BY DEF Load
  <2>2. QED
    BY <1>2, <2>1 DEF SnapshotBegins
<1>3. CASE SnapshotEnds
  BY <1>3 DEF SnapshotEnds
<1>4. CASE UNCHANGED vars
  BY <1>4 DEF vars
<1>5. QED
  BY <1>1, <1>2, <1>3, <1>4

LEMMA TypeStep == ASSUME TypeInv, [Next]_vars PROVE TypeInv'
  BY ObserveType, HandlerType, ReplayType, OtherType DEF Next

\* Type correctness, and with it that the gauge always has the mode of its size
\* (writer.go:74-86, counters.go:147-151).
THEOREM TypeCorrect == Spec => []TypeOK
<1>1. TypeInv /\ [Next]_vars => TypeInv'
  BY TypeStep
<1>2. TypeInv => TypeOK
  BY DEF TypeInv
<1>3. QED
  BY <1>1, <1>2, TypeInit, PTL DEF Spec

-----------------------------------------------------------------------------
(* Requests are accounted for. *)

Observing(r) == pc[r] \in {"list", "walk", "store"}

LEMMA InHandFinite == InHand \subseteq Requests /\ IsFiniteSet(InHand)
  BY FS_Subset DEF InHand

\* Adding or removing one element of a finite set changes its size by one.
LEMMA OneMore ==
  ASSUME NEW S, IsFiniteSet(S), NEW e, e \notin S
  PROVE  Cardinality(S \cup {e}) = Cardinality(S) + 1 /\ Cardinality(S) \in Nat
  BY FS_AddElement, FS_CardinalityType

LEMMA OneLess ==
  ASSUME NEW S, IsFiniteSet(S), NEW e \in S
  PROVE  Cardinality(S \ {e}) = Cardinality(S) - 1 /\ Cardinality(S) \in Nat
  BY FS_RemoveElement, FS_CardinalityType

\* No observation changes who is in hand.
LEMMA ObserveInHand ==
  ASSUME TypeInv, NEW o \in Observers, Observe(o)
  PROVE  InHand' = InHand
<1> USE DEF TypeInv, TypeOK, InHand, GoTo
<1>1. CASE WalkList(o)
  BY <1>1 DEF WalkList
<1>2. CASE WalkEnd(o)
  BY <1>2 DEF WalkEnd
<1>3. CASE WalkFails(o)
  BY <1>3 DEF WalkFails
<1>4. CASE ObserveSpoolState(o)
  BY <1>4 DEF ObserveSpoolState
<1>5. QED
  BY <1>1, <1>2, <1>3, <1>4 DEF Observe

\* What a step of a handler does to the requests in hand and to the counters.
LEMMA HandlerInHand ==
  ASSUME TypeInv, NEW r \in Requests, Arrive(r) \/ Handler(r)
  PROVE  \/ /\ r \notin InHand /\ InHand' = InHand \cup {r}
            /\ requests' = requests + 1 /\ UNCHANGED <<batches, rejected>>
         \/ /\ r \in InHand /\ InHand' = InHand \ {r} /\ requests' = requests
            /\ \/ batches' = batches + 1 /\ rejected' = rejected
               \/ rejected' = rejected + 1 /\ batches' = batches
         \/ InHand' = InHand /\ UNCHANGED <<requests, batches, rejected>>
<1> USE ObserverFacts DEF TypeInv, TypeOK, InHand, GoTo, ObserveThen, counters
<1>1. CASE Arrive(r)
  BY <1>1 DEF Arrive
<1>2. CASE Reject(r)
  BY <1>2 DEF Reject
<1>3. CASE Publish(r)
  BY <1>3 DEF Publish
<1>4. CASE PublishFails(r)
  BY <1>4 DEF PublishFails
<1>5. CASE Spool(r)
  BY <1>5 DEF Spool
<1>6. CASE SpoolFails(r)
  BY <1>6 DEF SpoolFails
<1>7. CASE CountSpooled(r)
  BY <1>7 DEF CountSpooled
<1>8. QED
  BY <1>1, <1>2, <1>3, <1>4, <1>5, <1>6, <1>7 DEF Handler

\* The replayer leaves the handlers where they are.
LEMMA ReplayElsewhere ==
  ASSUME TypeInv, Replay
  PROVE  /\ \A r \in Requests : pc'[r] = pc[r] /\ after'[r] = after[r]
         /\ UNCHANGED <<requests, batches, rejected, spooled>>
<1> USE ObserverFacts DEF TypeInv, TypeOK, GoTo, ObserveThen, counters
<1>1. CASE ReplayTick
  BY <1>1 DEF ReplayTick
<1>2. CASE OnReplay
  BY <1>2 DEF OnReplay
<1>3. CASE PassEnds
  BY <1>3 DEF PassEnds
<1>4. CASE ReplayStop
  BY <1>4 DEF ReplayStop
<1>5. ASSUME NEW f \in Files, ReplayRemove(f)
      PROVE  /\ \A r \in Requests : pc'[r] = pc[r] /\ after'[r] = after[r]
             /\ UNCHANGED <<requests, batches, rejected, spooled>>
  BY <1>5 DEF ReplayRemove
<1>6. QED
  BY <1>1, <1>2, <1>3, <1>4, <1>5 DEF Replay

LEMMA RequestsStep ==
  ASSUME TypeInv, RequestsAccounted, [Next]_vars PROVE RequestsAccounted'
<1> USE InHandFinite DEF RequestsAccounted
<1>1. ASSUME InHand' = InHand, UNCHANGED <<requests, batches, rejected>>
      PROVE  RequestsAccounted'
  BY <1>1
<1>2. ASSUME NEW o \in Observers, Observe(o) PROVE RequestsAccounted'
  <2>1. UNCHANGED counters
    BY <1>2 DEF Observe, WalkList, WalkEnd, WalkFails, ObserveSpoolState
  <2>2. QED
    BY <1>1, <1>2, <2>1, ObserveInHand DEF counters
<1>3. ASSUME NEW r \in Requests, Arrive(r) \/ Handler(r) PROVE RequestsAccounted'
  <2>1. CASE /\ r \notin InHand /\ InHand' = InHand \cup {r}
             /\ requests' = requests + 1 /\ UNCHANGED <<batches, rejected>>
    <3>1. /\ Cardinality(InHand') = Cardinality(InHand) + 1
          /\ Cardinality(InHand) \in Nat
      BY <2>1, OneMore
    <3>2. QED
      BY <2>1, <3>1 DEF TypeInv, TypeOK
  <2>2. CASE /\ r \in InHand /\ InHand' = InHand \ {r} /\ requests' = requests
             /\ \/ batches' = batches + 1 /\ rejected' = rejected
                \/ rejected' = rejected + 1 /\ batches' = batches
    <3>1. /\ Cardinality(InHand') = Cardinality(InHand) - 1
          /\ Cardinality(InHand) \in Nat
      BY <2>2, OneLess
    <3>2. QED
      BY <2>2, <3>1 DEF TypeInv, TypeOK
  <2>3. QED
    BY <1>1, <1>3, <2>1, <2>2, HandlerInHand
<1>4. CASE Replay
  <2>1. InHand' = InHand
    BY <1>4, ReplayElsewhere DEF InHand
  <2>2. QED
    BY <1>1, <1>4, <2>1, ReplayElsewhere
<1>5. CASE Signal \/ SnapshotBegins \/ SnapshotEnds \/ UNCHANGED vars
  <2>1. UNCHANGED <<observerVars, counters>>
    BY <1>5 DEF Signal, SnapshotBegins, SnapshotEnds, vars
  <2>2. InHand' = InHand
    BY <2>1 DEF InHand, observerVars
  <2>3. QED
    BY <1>1, <2>1, <2>2 DEF counters
<1>6. QED
  BY <1>2, <1>3, <1>4, <1>5 DEF Next

LEMMA RequestsInit == Init => RequestsAccounted
<1> SUFFICES ASSUME Init PROVE RequestsAccounted
  OBVIOUS
<1>1. InHand = {}
  BY ObserverFacts DEF Init, InHand
<1>2. QED
  BY <1>1, FS_EmptySet DEF Init, RequestsAccounted

LEMMA RequestsInvariance == Spec => [](TypeInv /\ RequestsAccounted)
<1>1. TypeInv /\ RequestsAccounted /\ [Next]_vars => (TypeInv /\ RequestsAccounted)'
  BY TypeStep, RequestsStep
<1>2. QED
  BY <1>1, TypeInit, RequestsInit, PTL DEF Spec

\* Every request that was counted is accepted, rejected, or still in hand, on each
\* path of the handler and with any number of handlers (handler.go:73-167).
THEOREM RequestsAreAccounted == Spec => []RequestsAccounted
  BY RequestsInvariance, PTL

-----------------------------------------------------------------------------
(* A snapshot is consistent. *)

\* What a running snapshot has loaded is not more than what is there now.
LoadedInv == loading => loaded <= batches

LEMMA BatchesGrow ==
  ASSUME TypeInv, [Next]_vars PROVE batches <= batches' /\ batches' \in Nat
<1>1. batches \in Nat /\ batches' \in Nat
  BY TypeStep DEF TypeInv, TypeOK
<1>2. ASSUME NEW r \in Requests, Arrive(r) \/ Handler(r) PROVE batches <= batches'
  BY <1>1, <1>2, HandlerInHand
<1>3. ASSUME NEW o \in Observers, Observe(o) PROVE batches' = batches
  BY <1>3 DEF Observe, WalkList, WalkEnd, WalkFails, ObserveSpoolState, counters
<1>4. CASE Replay
  BY <1>1, <1>4, ReplayElsewhere
<1>5. CASE Signal \/ SnapshotBegins \/ SnapshotEnds \/ UNCHANGED vars
  <2>1. batches' = batches
    BY <1>5 DEF Signal, SnapshotBegins, SnapshotEnds, vars, counters
  <2>2. QED
    BY <1>1, <2>1
<1>6. QED
  BY <1>1, <1>2, <1>3, <1>4, <1>5 DEF Next

LEMMA LoadedStep ==
  ASSUME TypeInv, LoadedInv, [Next]_vars PROVE LoadedInv'
<1>1. CASE SnapshotBegins
  <2>1. loaded' = batches /\ batches' = batches
    BY <1>1 DEF SnapshotBegins, Load, LoadOrder, counters
  <2>2. QED
    BY <2>1 DEF LoadedInv, TypeInv, TypeOK
<1>2. CASE SnapshotEnds
  BY <1>2 DEF SnapshotEnds, LoadedInv
<1>3. CASE ~SnapshotBegins /\ ~SnapshotEnds
  <2>1. UNCHANGED reader
    <3>1. ASSUME NEW r \in Requests, Arrive(r) \/ Handler(r) PROVE UNCHANGED reader
      BY <3>1 DEF Arrive, Handler, Reject, Publish, PublishFails, Spool, SpoolFails,
         CountSpooled
    <3>2. ASSUME NEW o \in Observers, Observe(o) PROVE UNCHANGED reader
      BY <3>2 DEF Observe, WalkList, WalkEnd, WalkFails, ObserveSpoolState
    <3>3. CASE Replay
      BY <3>3 DEF Replay, ReplayTick, OnReplay, PassEnds, ReplayStop, ReplayRemove
    <3>4. CASE Signal \/ UNCHANGED vars
      BY <3>4 DEF Signal, vars
    <3>5. QED
      BY <1>3, <3>1, <3>2, <3>3, <3>4 DEF Next
  <2>2. loaded \in Nat /\ batches \in Nat
    BY DEF TypeInv, TypeOK
  <2>3. QED
    BY <2>1, <2>2, BatchesGrow DEF reader, LoadedInv
<1>4. QED
  BY <1>1, <1>2, <1>3

LEMMA LoadedIsConsistent ==
  ASSUME TypeInv, RequestsAccounted, LoadedInv PROVE SnapshotConsistent
<1>1. Cardinality(InHand) \in Nat
  BY InHandFinite, FS_CardinalityType
<1>2. batches <= requests
  BY <1>1 DEF RequestsAccounted, TypeInv, TypeOK
<1>3. Answer.batches = loaded /\ Answer.requests = requests
  BY DEF Answer, LoadOrder, Load
<1>4. QED
  BY <1>2, <1>3 DEF SnapshotConsistent, LoadedInv, TypeInv, TypeOK

\* No answer of /stats shows more accepted batches than requests, whatever is
\* counted between its two loads (counters.go:157-176).
THEOREM SnapshotsAreConsistent == Spec => []SnapshotConsistent
<1>1. Init => LoadedInv
  BY DEF Init, LoadedInv
<1>2. TypeInv /\ LoadedInv /\ [Next]_vars => LoadedInv'
  BY LoadedStep
<1>3. TypeInv /\ RequestsAccounted /\ LoadedInv => SnapshotConsistent
  BY LoadedIsConsistent
<1>4. QED
  BY <1>1, <1>2, <1>3, RequestsInvariance, PTL DEF Spec

-----------------------------------------------------------------------------
(* The backlog is accounted for. *)

NotSpooled(r) ==
  \/ pc[r] \in {"new", "acquire", "spool"}
  \/ Observing(r) /\ after[r] = "acquire"

\* A request that has yet to write its file is not in the directory, so the
\* rename of its file makes the backlog one file longer.
UnwrittenInv == \A r \in Requests : NotSpooled(r) => r \notin dir

Counting == {r \in Requests : pc[r] = "count"}
Removed == IF pc[Replayer] = "count" THEN 1 ELSE 0

BacklogInv == TypeInv /\ UnwrittenInv /\ BacklogAccounted

LEMMA BacklogFinite ==
  ASSUME TypeInv
  PROVE  /\ IsFiniteSet(dir) /\ IsFiniteSet(Counting)
         /\ Cardinality(dir) \in Nat /\ Cardinality(Counting) \in Nat
         /\ Cardinality(Leftover) \in Nat
<1>1. dir \subseteq Files /\ Counting \subseteq Requests
  BY DEF TypeInv, TypeOK, Counting
<1>2. IsFiniteSet(dir) /\ IsFiniteSet(Counting)
  BY <1>1, ObserverFacts, FS_Subset
<1>3. QED
  BY <1>2, FS_CardinalityType

LEMMA BacklogInit == Init => UnwrittenInv /\ BacklogAccounted
<1> SUFFICES ASSUME Init PROVE UnwrittenInv /\ BacklogAccounted
  OBVIOUS
<1>1. {r \in Requests : pc[r] = "count"} = {} /\ pc[Replayer] # "count"
  BY ObserverFacts DEF Init
<1>2. UnwrittenInv
  BY DEF Init, UnwrittenInv
<1>3. Cardinality(Leftover) \in Nat
  BY FS_CardinalityType
<1>4. QED
  BY <1>1, <1>2, <1>3, FS_EmptySet DEF Init, BacklogAccounted

\* Observations move no file and are not part of the counting.
LEMMA ObserveBacklog ==
  ASSUME TypeInv, UnwrittenInv, NEW o \in Observers, Observe(o)
  PROVE  UnwrittenInv' /\ Counting' = Counting /\ Removed' = Removed
<1> USE ObserverFacts DEF TypeInv, TypeOK, UnwrittenInv, NotSpooled, Observing, Counting,
        Removed, GoTo
<1>1. CASE WalkList(o)
  BY <1>1 DEF WalkList, surroundings
<1>2. CASE WalkEnd(o)
  BY <1>2 DEF WalkEnd, surroundings
<1>3. CASE WalkFails(o)
  BY <1>3 DEF WalkFails
<1>4. CASE ObserveSpoolState(o)
  BY <1>4 DEF ObserveSpoolState, surroundings
<1>5. QED
  BY <1>1, <1>2, <1>3, <1>4 DEF Observe

\* What a step of a handler does to the backlog and to its counters.
LEMMA HandlerBacklog ==
  ASSUME TypeInv, UnwrittenInv, NEW r \in Requests, Arrive(r) \/ Handler(r)
  PROVE  /\ UnwrittenInv' /\ Removed' = Removed /\ replayed' = replayed
         /\ \/ /\ r \notin dir /\ dir' = dir \cup {r} /\ spooled' = spooled
               /\ r \notin Counting /\ Counting' = Counting \cup {r}
            \/ /\ r \in Counting /\ Counting' = Counting \ {r}
               /\ spooled' = spooled + 1 /\ dir' = dir
            \/ UNCHANGED <<dir, spooled>> /\ Counting' = Counting
<1> USE ObserverFacts DEF TypeInv, TypeOK, UnwrittenInv, NotSpooled, Observing, Counting,
        Removed, GoTo, ObserveThen, surroundings, counters
<1>1. CASE Arrive(r)
  BY <1>1 DEF Arrive
<1>2. CASE Reject(r)
  BY <1>2 DEF Reject
<1>3. CASE Publish(r)
  BY <1>3 DEF Publish
<1>4. CASE PublishFails(r)
  BY <1>4 DEF PublishFails
<1>5. CASE Spool(r)
  BY <1>5 DEF Spool
<1>6. CASE SpoolFails(r)
  BY <1>6 DEF SpoolFails
<1>7. CASE CountSpooled(r)
  BY <1>7 DEF CountSpooled
<1>8. QED
  BY <1>1, <1>2, <1>3, <1>4, <1>5, <1>6, <1>7 DEF Handler

\* What a step of the replayer does to them.
LEMMA ReplayBacklog ==
  ASSUME TypeInv, Replay
  PROVE  \/ /\ \E f \in dir : dir' = dir \ {f}
            /\ Removed' = Removed + 1 /\ replayed' = replayed
         \/ Removed = Removed' + 1 /\ replayed' = replayed + 1 /\ dir' = dir
         \/ Removed' = Removed /\ UNCHANGED <<dir, replayed>>
<1> USE ObserverFacts DEF TypeInv, TypeOK, Removed, GoTo, ObserveThen, surroundings, counters
<1>1. CASE ReplayTick
  BY <1>1 DEF ReplayTick
<1>2. CASE OnReplay
  BY <1>2 DEF OnReplay
<1>3. CASE PassEnds
  BY <1>3 DEF PassEnds
<1>4. CASE ReplayStop
  BY <1>4 DEF ReplayStop
<1>5. ASSUME NEW f \in Files, ReplayRemove(f)
      PROVE  /\ f \in dir /\ dir' = dir \ {f}
             /\ Removed' = Removed + 1 /\ replayed' = replayed
  BY <1>5 DEF ReplayRemove
<1>6. QED
  BY <1>1, <1>2, <1>3, <1>4, <1>5 DEF Replay

LEMMA UnwrittenStep ==
  ASSUME TypeInv, UnwrittenInv, [Next]_vars PROVE UnwrittenInv'
<1>1. ASSUME NEW o \in Observers, Observe(o) PROVE UnwrittenInv'
  BY <1>1, ObserveBacklog
<1>2. ASSUME NEW r \in Requests, Arrive(r) \/ Handler(r) PROVE UnwrittenInv'
  BY <1>2, HandlerBacklog
<1>3. CASE Replay
  <2>1. dir' \subseteq dir
    BY <1>3, ReplayBacklog
  <2>2. QED
    BY <1>3, <2>1, ReplayElsewhere DEF UnwrittenInv, NotSpooled, Observing
<1>4. CASE Signal \/ SnapshotBegins \/ SnapshotEnds \/ UNCHANGED vars
  <2>1. UNCHANGED <<pc, after, dir>>
    BY <1>4 DEF Signal, SnapshotBegins, SnapshotEnds, vars, observerVars, surroundings
  <2>2. QED
    BY <2>1 DEF UnwrittenInv, NotSpooled, Observing
<1>5. QED
  BY <1>1, <1>2, <1>3, <1>4 DEF Next

LEMMA BacklogStep ==
  ASSUME BacklogInv, [Next]_vars PROVE BacklogAccounted'
<1>1. TypeInv /\ UnwrittenInv
  BY DEF BacklogInv
<1>2. Removed \in Nat /\ spooled \in Nat /\ replayed \in Nat
  BY <1>1 DEF TypeInv, TypeOK, Removed
<1>3. /\ Cardinality(dir) \in Nat /\ Cardinality(Counting) \in Nat
       /\ Cardinality(Leftover) \in Nat
  BY <1>1, BacklogFinite
<1>4. Cardinality(Leftover) + spooled + Cardinality(Counting)
        = Cardinality(dir) + replayed + Removed
  BY DEF BacklogInv, BacklogAccounted, Counting, Removed
<1> DEFINE Balanced == Cardinality(Leftover) + spooled + Cardinality(Counting)
                         = Cardinality(dir) + replayed + Removed
<1>5. Balanced' => BacklogAccounted'
  BY DEF BacklogAccounted, Counting, Removed
<1>6. ASSUME UNCHANGED <<dir, spooled, replayed>>, Counting' = Counting, Removed' = Removed
      PROVE  Balanced'
  BY <1>4, <1>6
<1>7. ASSUME NEW o \in Observers, Observe(o) PROVE Balanced'
  <2>1. UNCHANGED <<dir, spooled, replayed>>
    BY <1>7 DEF Observe, WalkList, WalkEnd, WalkFails, ObserveSpoolState, counters,
       surroundings
  <2>2. QED
    BY <1>1, <1>6, <1>7, <2>1, ObserveBacklog
<1>8. ASSUME NEW r \in Requests, Arrive(r) \/ Handler(r) PROVE Balanced'
  <2>1. CASE /\ r \notin dir /\ dir' = dir \cup {r} /\ spooled' = spooled
             /\ r \notin Counting /\ Counting' = Counting \cup {r}
             /\ Removed' = Removed /\ replayed' = replayed
    <3>1. /\ Cardinality(dir') = Cardinality(dir) + 1
          /\ Cardinality(Counting') = Cardinality(Counting) + 1
      BY <1>1, <2>1, BacklogFinite, OneMore
    <3>2. QED
      BY <1>2, <1>4, <1>3, <2>1, <3>1
  <2>2. CASE /\ r \in Counting /\ Counting' = Counting \ {r}
             /\ spooled' = spooled + 1 /\ dir' = dir
             /\ Removed' = Removed /\ replayed' = replayed
    <3>1. Cardinality(Counting') = Cardinality(Counting) - 1
      BY <1>1, <2>2, BacklogFinite, OneLess
    <3>2. QED
      BY <1>2, <1>4, <1>3, <2>2, <3>1
  <2>3. CASE /\ UNCHANGED <<dir, spooled, replayed>> /\ Counting' = Counting
             /\ Removed' = Removed
    BY <1>6, <2>3
  <2>4. QED
    BY <1>1, <1>8, <2>1, <2>2, <2>3, HandlerBacklog
<1>9. ASSUME Replay PROVE Balanced'
  <2>1. spooled' = spooled /\ Counting' = Counting
    BY <1>1, <1>9, ReplayElsewhere DEF Counting
  <2>2. ASSUME NEW f \in dir, dir' = dir \ {f}, Removed' = Removed + 1, replayed' = replayed
        PROVE  Balanced'
    <3>1. Cardinality(dir') = Cardinality(dir) - 1
      BY <1>1, <2>2, BacklogFinite, OneLess
    <3>2. QED
      BY <1>2, <1>4, <1>3, <2>1, <2>2, <3>1
  <2>3. CASE Removed = Removed' + 1 /\ replayed' = replayed + 1 /\ dir' = dir
    <3>1. Removed' \in Nat
      BY DEF Removed
    <3>2. QED
      BY <1>2, <1>4, <1>3, <2>1, <2>3, <3>1
  <2>4. CASE Removed' = Removed /\ UNCHANGED <<dir, replayed>>
    BY <1>6, <2>1, <2>4
  <2>5. QED
    BY <1>1, <1>9, <2>2, <2>3, <2>4, ReplayBacklog
<1>10. ASSUME Signal \/ SnapshotBegins \/ SnapshotEnds \/ UNCHANGED vars
       PROVE  Balanced'
  <2>1. UNCHANGED <<pc, after, dir, spooled, replayed>>
    BY <1>10 DEF Signal, SnapshotBegins, SnapshotEnds, vars, observerVars, surroundings,
       counters
  <2>2. Counting' = Counting /\ Removed' = Removed
    BY <2>1 DEF Counting, Removed
  <2>3. QED
    BY <1>6, <2>1, <2>2
<1>11. QED
  BY <1>5, <1>7, <1>8, <1>9, <1>10 DEF Next

\* The counters explain the backlog of the spool in every state, although the
\* replayer may republish a file before its handler has counted it (handler.go:164,
\* replayer.go:95-98).
THEOREM BacklogIsAccounted == Spec => []BacklogAccounted
<1>1. Init => BacklogInv
  BY TypeInit, BacklogInit DEF BacklogInv
<1>2. BacklogInv /\ [Next]_vars => BacklogInv'
  BY TypeStep, UnwrittenStep, BacklogStep DEF BacklogInv
<1>3. BacklogInv => BacklogAccounted
  BY DEF BacklogInv
<1>4. QED
  BY <1>1, <1>2, <1>3, PTL DEF Spec
=============================================================================
