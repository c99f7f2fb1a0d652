----------------------------- MODULE LogApiProofs -----------------------------
(***************************************************************************)
(* Proofs about the log API for any number of requests and records, any    *)
(* spool size, any number of slots and restarts.                           *)
(***************************************************************************)
EXTENDS LogApi, FiniteSetTheorems, TLAPS

USE LogApiAssumption DEF LogApiAssumption

-----------------------------------------------------------------------------
(* Slots: only acquire takes one, and only while one is free. *)

SlotBound == MaxInFlight # 0 => Cardinality(Active) <= MaxInFlight

LEMMA ActiveFinite == IsFiniteSet(Active) /\ Cardinality(Active) \in Nat
<1>1. Active \subseteq Requests
  BY DEF Active
<1>2. QED
  BY <1>1, FS_Subset, FS_CardinalityType

LEMMA FewerActive ==
  ASSUME SlotBound, Active' \subseteq Active PROVE SlotBound'
<1>1. Cardinality(Active') <= Cardinality(Active) /\ Cardinality(Active') \in Nat
  BY ActiveFinite, FS_Subset, FS_CardinalityType
<1>2. QED
  BY <1>1, ActiveFinite DEF SlotBound

LEMMA OneMoreActive ==
  ASSUME SlotBound, NEW x, MaxInFlight = 0 \/ Cardinality(Active) < MaxInFlight,
         Active' \subseteq Active \cup {x}
  PROVE  SlotBound'
<1>1. /\ IsFiniteSet(Active \cup {x})
      /\ Cardinality(Active \cup {x}) <= Cardinality(Active) + 1
      /\ Cardinality(Active \cup {x}) \in Nat
  <2>1. IsFiniteSet(Active) /\ Cardinality(Active) \in Nat
    BY ActiveFinite
  <2>2. /\ IsFiniteSet(Active \cup {x})
        /\ Cardinality(Active \cup {x}) =
             IF x \in Active THEN Cardinality(Active) ELSE Cardinality(Active) + 1
    BY <2>1, FS_AddElement
  <2>3. QED
    BY <2>1, <2>2
<1>2. Cardinality(Active') <= Cardinality(Active \cup {x}) /\ Cardinality(Active') \in Nat
  BY <1>1, FS_Subset, FS_CardinalityType
<1>3. QED
  BY <1>1, <1>2, ActiveFinite DEF SlotBound

-----------------------------------------------------------------------------
(* Types. *)

LEMMA TypeInit == Init => TypeOK
<1> SUFFICES ASSUME Init PROVE TypeOK
  OBVIOUS
<1>1. ctxDone \in BOOLEAN
  BY Zenon DEF Init
<1>2. Active = {}
  BY DEF Init, Active, ActivePcs
<1>3. Cardinality(Active) = 0
  BY <1>2, FS_EmptySet
<1>4. QED
  BY <1>1, <1>3 DEF Init, TypeOK, Answers

LEMMA HandlerType ==
  ASSUME TypeOK, NEW r \in Requests, Arrive(r) \/ Expire(r) \/ HandlerStep(r)
  PROVE  TypeOK'
<1>1. SlotBound
  BY DEF TypeOK, SlotBound
<1>2. CASE Arrive(r)
  <2>1. CASE HasSlot
    <3>1. Active' \subseteq Active \cup {r}
      BY <1>2 DEF Arrive, GoTo, Answer, Active, TypeOK
    <3>2. SlotBound'
      BY <1>1, <2>1, <3>1, OneMoreActive DEF HasSlot
    <3>3. QED
      BY <1>2, <2>1, <3>2 DEF SlotBound, Arrive, GoTo, TypeOK, ActivePcs, replayVars, envVars,
         diskVars, history
  <2>2. CASE ~HasSlot
    <3>1. Active' \subseteq Active
      BY <1>2, <2>2 DEF Arrive, Answer, Active, TypeOK, ActivePcs
    <3>2. SlotBound'
      BY <1>1, <3>1, FewerActive
    <3>3. QED
      BY <1>2, <2>2, <3>2 DEF SlotBound, Arrive, Answer, Answers, TypeOK, ActivePcs, replayVars,
         envVars, diskVars, history
  <2>3. QED
    BY <2>1, <2>2
<1>3. CASE Expire(r)
  <2>1. Active' = Active
    BY <1>3 DEF Expire, Active
  <2>2. SlotBound'
    BY <1>1, <2>1, FewerActive
  <2>3. QED
    BY <1>3, <2>2 DEF SlotBound, Expire, TypeOK, replayVars, envVars, diskVars, history
<1>4. CASE HandlerStep(r)
  <2>1. /\ pc[r] \in ActivePcs
        /\ \E step \in ActivePcs \cup {"done"} : pc' = [pc EXCEPT ![r] = step]
        /\ \/ answer' = answer
           \/ \E a \in Answers : answer' = [answer EXCEPT ![r] = a]
    BY <1>4 DEF HandlerStep, Validate, Publish, PublishFails, WriteExpired, WalkStart, WalkEnd,
       WriteTmp, Rename, WriteFails, GoTo, Answer, ActivePcs, Answers
  <2>2. Active' \subseteq Active
    BY <2>1 DEF Active, TypeOK
  <2>3. SlotBound'
    BY <1>1, <2>2, FewerActive
  <2>4. pc' \in [Requests -> {"new", "done"} \cup ActivePcs] /\ answer' \in [Requests -> Answers]
    BY <2>1 DEF TypeOK
  <2>5. /\ UNCHANGED <<expired, replayVars, envVars>>
        /\ seen' \in [Requests -> SUBSET Requests]
        /\ kafka' \subseteq Events /\ dir' \subseteq Requests
        /\ name' \in [Requests -> Nat] /\ lastName' \in Nat
        /\ raced' \subseteq Requests /\ diskFailed' \subseteq Requests
    BY <1>4 DEF HandlerStep, Validate, Publish, PublishFails, WriteExpired, WalkStart, WalkEnd,
       WriteTmp, Rename, WriteFails, TypeOK, diskVars, history
  <2>6. QED
    BY <2>3, <2>4, <2>5 DEF SlotBound, TypeOK, replayVars, envVars
<1>5. QED
  BY <1>2, <1>3, <1>4

LEMMA ReplayType ==
  ASSUME TypeOK, ReplayTick \/ ReplayStop \/ \E f \in Requests : ReplayStep(f)
  PROVE  TypeOK'
<1>1. /\ UNCHANGED <<handlerVars, envVars, history, name, lastName>>
      /\ rpc' \in {"idle", "next", "publish", "remove", "stopped"}
      /\ todo' \subseteq Requests /\ rfile' \subseteq Requests
      /\ kafka' \subseteq Events /\ dir' \subseteq Requests
  BY DEF ReplayTick, ReplayStop, ReplayStep, ReplayRead, ReplayReadFails, ReplayPublish,
     ReplayPublishFails, ReplayRemove, ReplayRemoveFails, GoOn, TypeOK, handlerVars, envVars,
     diskVars, history
<1>2. Active' = Active
  BY <1>1 DEF Active, handlerVars
<1>3. SlotBound'
  BY <1>2, FewerActive DEF TypeOK, SlotBound
<1>4. QED
  BY <1>1, <1>3 DEF SlotBound, TypeOK, handlerVars, envVars, history

LEMMA ProcessType ==
  ASSUME TypeOK, Signal \/ Restart \/ UNCHANGED vars PROVE TypeOK'
<1>1. Active' \subseteq Active
  BY DEF Signal, Restart, Active, handlerVars, vars, ActivePcs
<1>2. SlotBound'
  BY <1>1, FewerActive DEF TypeOK, SlotBound
<1>3. CASE Signal
  BY <1>2, <1>3 DEF SlotBound, Signal, TypeOK, handlerVars, replayVars, diskVars, history
<1>4. CASE Restart
  <2>1. ctxDone' \in BOOLEAN
    BY <1>4, Zenon DEF Restart
  <2>2. pc' \in [Requests -> {"new", "done"} \cup ActivePcs]
    BY <1>4 DEF Restart, TypeOK
  <2>3. QED
    BY <1>2, <1>4, <2>1, <2>2 DEF SlotBound, Restart, TypeOK, diskVars, history
<1>5. CASE UNCHANGED vars
  BY <1>2, <1>5 DEF SlotBound, TypeOK, vars, handlerVars, replayVars, envVars, diskVars, history
<1>6. QED
  BY <1>3, <1>4, <1>5

\* Every variable keeps its type, and no more handlers are at work than there are
\* slots, for every value of the constants.
THEOREM TypeCorrect == Spec => []TypeOK
<1>1. TypeOK /\ [Next]_vars => TypeOK'
  BY HandlerType, ReplayType, ProcessType DEF Next, Terminated
<1>2. QED
  BY <1>1, TypeInit, PTL DEF Spec

-----------------------------------------------------------------------------
(* Accepted records stay. *)

Stored == kafka \cup RecordsOf(dir)

\* A file is removed only after all of its records were published, and what was
\* accepted is stored.
RemoveInv == rpc = "remove" => RecordsOf(rfile) \subseteq kafka
AcceptedInv == RecordsOf(Accepted) \subseteq Stored

IInv == TypeOK /\ RemoveInv /\ AcceptedInv

LEMMA StoredGrows ==
  ASSUME IInv, [Next]_vars PROVE Stored \subseteq Stored'
<1> USE DEF Stored, RecordsOf
<1>1. ASSUME NEW r \in Requests, Arrive(r) \/ Expire(r) \/ HandlerStep(r)
      PROVE  kafka \subseteq kafka' /\ dir \subseteq dir'
  BY <1>1 DEF Arrive, Expire, HandlerStep, Validate, Publish, PublishFails, WriteExpired,
     WalkStart, WalkEnd, WriteTmp, Rename, WriteFails, diskVars
<1>2. ASSUME NEW f \in Requests, ReplayStep(f), ~ReplayRemove(f)
      PROVE  kafka \subseteq kafka' /\ dir \subseteq dir'
  BY <1>2 DEF ReplayStep, ReplayRead, ReplayReadFails, ReplayPublish, ReplayPublishFails,
     ReplayRemoveFails, diskVars
<1>3. ASSUME NEW f \in Requests, ReplayRemove(f) PROVE Stored \subseteq Stored'
  <2>1. EventsOf[f] \subseteq kafka
    BY <1>3 DEF ReplayRemove, IInv, RemoveInv
  <2>2. kafka' = kafka /\ dir' = dir \ {f}
    BY <1>3 DEF ReplayRemove
  <2>3. QED
    BY <2>1, <2>2
<1>4. CASE ReplayTick \/ ReplayStop \/ Signal \/ Restart \/ Terminated \/ UNCHANGED vars
  BY <1>4 DEF ReplayTick, ReplayStop, Signal, Restart, Terminated, vars, diskVars
<1>5. QED
  BY <1>1, <1>2, <1>3, <1>4 DEF Next

LEMMA RemoveStep ==
  ASSUME IInv, [Next]_vars PROVE RemoveInv'
<1> USE DEF IInv, RemoveInv, RecordsOf
<1>1. ASSUME NEW r \in Requests, Arrive(r) \/ Expire(r) \/ HandlerStep(r)
      PROVE  kafka \subseteq kafka' /\ UNCHANGED <<rpc, rfile>>
  BY <1>1 DEF Arrive, Expire, HandlerStep, Validate, Publish, PublishFails, WriteExpired,
     WalkStart, WalkEnd, WriteTmp, Rename, WriteFails, replayVars
<1>2. ASSUME NEW f \in Requests, ReplayStep(f), ~ReplayPublish(f) PROVE rpc' # "remove"
  BY <1>2 DEF ReplayStep, ReplayRead, ReplayReadFails, ReplayPublishFails, ReplayRemove,
     ReplayRemoveFails, GoOn
<1>3. ASSUME NEW f \in Requests, ReplayPublish(f) PROVE RemoveInv'
  BY <1>3 DEF ReplayPublish
<1>4. CASE ReplayTick \/ ReplayStop \/ Restart
  BY <1>4 DEF ReplayTick, ReplayStop, Restart, GoOn
<1>5. CASE Signal \/ Terminated \/ UNCHANGED vars
  BY <1>5 DEF Signal, Terminated, vars, replayVars
<1>6. QED
  BY <1>1, <1>2, <1>3, <1>4, <1>5 DEF Next

LEMMA AcceptedStep ==
  ASSUME IInv, [Next]_vars PROVE AcceptedInv'
<1>1. Stored \subseteq Stored'
  BY StoredGrows
<1>2. ASSUME answer' = answer PROVE AcceptedInv'
  BY <1>1, <1>2 DEF IInv, AcceptedInv, Accepted, RecordsOf
<1>3. ASSUME NEW r \in Requests, NEW a \in Answers, answer' = [answer EXCEPT ![r] = a],
             a = "202" => EventsOf[r] \subseteq Stored'
      PROVE  AcceptedInv'
  <2>1. \A x \in Requests : answer'[x] = "202" => EventsOf[x] \subseteq Stored'
    BY <1>1, <1>3 DEF IInv, TypeOK, AcceptedInv, Accepted, RecordsOf
  <2>2. QED
    BY <2>1 DEF AcceptedInv, Accepted, RecordsOf
<1>4. ASSUME NEW r \in Requests, Publish(r) PROVE AcceptedInv'
  <2>1. EventsOf[r] \subseteq Stored'
    BY <1>4 DEF Publish, Stored
  <2>2. QED
    BY <1>3, <1>4, <2>1 DEF Publish, Answer, Answers
<1>5. ASSUME NEW r \in Requests, Rename(r) PROVE AcceptedInv'
  <2>1. EventsOf[r] \subseteq Stored'
    BY <1>5 DEF Rename, Stored, RecordsOf
  <2>2. QED
    BY <1>3, <1>5, <2>1 DEF Rename, Answer, Answers
<1>6. ASSUME NEW r \in Requests, Arrive(r) \/ Expire(r) \/ HandlerStep(r),
             ~Publish(r), ~Rename(r)
      PROVE  AcceptedInv'
  <2>1. \/ answer' = answer
        \/ \E a \in Answers \ {"202"} : answer' = [answer EXCEPT ![r] = a]
    BY <1>6 DEF Arrive, Expire, HandlerStep, Validate, PublishFails, WriteExpired, WalkStart,
       WalkEnd, WriteTmp, WriteFails, GoTo, Answer, Answers
  <2>2. QED
    BY <1>2, <1>3, <2>1
<1>7. CASE \/ ReplayTick \/ ReplayStop \/ Signal \/ Restart \/ Terminated \/ UNCHANGED vars
           \/ \E f \in Requests : ReplayStep(f)
  BY <1>2, <1>7 DEF ReplayTick, ReplayStop, ReplayStep, ReplayRead, ReplayReadFails,
     ReplayPublish, ReplayPublishFails, ReplayRemove, ReplayRemoveFails, Signal, Restart,
     Terminated, vars, handlerVars
<1>8. QED
  BY <1>4, <1>5, <1>6, <1>7 DEF Next

LEMMA Invariance == Spec => []IInv
<1>1. Init => IInv
  BY TypeInit DEF Init, IInv, RemoveInv, AcceptedInv, Accepted, RecordsOf
<1>2. IInv /\ [Next]_vars => IInv'
  <2> SUFFICES ASSUME IInv, [Next]_vars PROVE IInv'
    OBVIOUS
  <2>1. TypeOK'
    BY HandlerType, ReplayType, ProcessType DEF Next, Terminated, IInv
  <2>2. QED
    BY <2>1, RemoveStep, AcceptedStep DEF IInv
<1>3. QED
  BY <1>1, <1>2, PTL DEF Spec

\* The log API implements the hand-over of Handoff: a record of a request that was
\* answered 202 is in Kafka or in a linked spool file from then on, through
\* failed publishes, concurrent handlers, the replayer and crashes.
THEOREM ApiHandsOver == Spec => HandsOver
<1>1. Init => Downstream!Init
  BY DEF Init, Downstream!Init, Accepted, RecordsOf
<1>2. IInv /\ IInv' /\ [Next]_vars => [Downstream!Next]_(Downstream!vars)
  <2> SUFFICES ASSUME IInv, IInv', [Next]_vars PROVE Downstream!Next
    BY DEF Downstream!vars
  <2>1. Stored \subseteq Stored'
    BY StoredGrows
  <2>2. Stored' \subseteq Events
    BY DEF IInv, TypeOK, Stored, RecordsOf
  <2>3. RecordsOf(Accepted)' \subseteq Stored'
    BY DEF IInv, AcceptedInv
  <2>4. QED
    BY <2>1, <2>2, <2>3 DEF Downstream!Next, Downstream!Store, Downstream!Acknowledge, Stored
<1>3. QED
  BY <1>1, <1>2, Invariance, PTL DEF Spec, HandsOver, Downstream!Spec

\* What a client relies on: a record that was answered with 202 once is in Kafka or in a
\* spool file in every later state, through passes of the replayer, errors and crashes
\* (docs/architecture.md:27-28).
THEOREM AcceptedIsKept ==
  ASSUME NEW e \in Events
  PROVE  Spec => []((e \in RecordsOf(Accepted)) => [](e \in Stored))
<1>1. IInv /\ [Next]_vars /\ (e \in Stored) => (e \in Stored)'
  BY StoredGrows
<1>2. IInv => ((e \in RecordsOf(Accepted)) => (e \in Stored))
  BY DEF IInv, AcceptedInv
<1>3. QED
  BY <1>1, <1>2, Invariance, PTL DEF Spec

-----------------------------------------------------------------------------
(* Bytes. *)

LEMMA BytesFinite ==
  ASSUME NEW S \in SUBSET Requests
  PROVE  IsFiniteSet(BytesOf(S)) /\ Bytes(S) \in Nat
<1> DEFINE file == [r \in S |-> {r} \X (1..Size[r])]
           files == {{r} \X (1..Size[r]) : r \in S}
<1>1. IsFiniteSet(S)
  BY FS_Subset
<1>2. file \in Surjection(S, files)
  BY DEF Surjection
<1>3. IsFiniteSet(files)
  BY <1>1, <1>2, FS_Surjection
<1>4. ASSUME NEW r \in S PROVE IsFiniteSet({r} \X (1..Size[r]))
  <2>1. Size[r] \in Int
    OBVIOUS
  <2>2. IsFiniteSet(1..Size[r])
    BY <2>1, FS_Interval
  <2>3. IsFiniteSet({r})
    BY FS_Singleton
  <2>4. QED
    BY <2>2, <2>3, FS_Product
<1>5. IsFiniteSet(BytesOf(S))
  BY <1>3, <1>4, FS_UNION DEF BytesOf
<1>6. QED
  BY <1>5, FS_CardinalityType DEF Bytes

LEMMA BytesMonotone ==
  ASSUME NEW T \in SUBSET Requests, NEW S \in SUBSET T
  PROVE  Bytes(S) <= Bytes(T)
<1>1. BytesOf(S) \subseteq BytesOf(T)
  BY DEF BytesOf
<1>2. QED
  BY <1>1, BytesFinite, FS_Subset DEF Bytes

LEMMA BytesOfOne ==
  ASSUME NEW r \in Requests PROVE Bytes({r}) = Size[r]
<1> DEFINE bytes == {r} \X (1..Size[r])
<1>1. BytesOf({r}) = bytes
  BY DEF BytesOf
<1>2. IsFiniteSet({r}) /\ Cardinality({r}) = 1
  BY FS_Singleton
<1>3. Size[r] \in Nat
  OBVIOUS
<1>4. IsFiniteSet(1..Size[r]) /\ Cardinality(1..Size[r]) = Size[r]
  BY <1>3, FS_Interval
<1>5. Cardinality(bytes) = Cardinality({r}) * Cardinality(1..Size[r])
  BY <1>2, <1>4, FS_Product, Zenon
<1> HIDE DEF bytes
<1>6. Bytes({r}) = Cardinality(bytes)
  BY <1>1 DEF Bytes
<1>7. QED
  BY <1>2, <1>3, <1>4, <1>5, <1>6

LEMMA BytesOfUnion ==
  ASSUME NEW S \in SUBSET Requests, NEW T \in SUBSET Requests
  PROVE  Bytes(S \cup T) <= Bytes(S) + Bytes(T)
<1>1. BytesOf(S \cup T) = BytesOf(S) \cup BytesOf(T)
  BY DEF BytesOf
<1>2. IsFiniteSet(BytesOf(S)) /\ IsFiniteSet(BytesOf(T))
  BY BytesFinite
<1>3. Cardinality(BytesOf(S) \cap BytesOf(T)) \in Nat
  BY <1>2, FS_Intersection, FS_CardinalityType
<1>4. Cardinality(BytesOf(S) \cup BytesOf(T)) =
        Cardinality(BytesOf(S)) + Cardinality(BytesOf(T))
          - Cardinality(BytesOf(S) \cap BytesOf(T))
  BY <1>2, FS_Union
<1>5. Bytes(S) \in Nat /\ Bytes(T) \in Nat
  BY BytesFinite
<1>6. Bytes(S \cup T) = Bytes(S) + Bytes(T) - Cardinality(BytesOf(S) \cap BytesOf(T))
  BY <1>1, <1>4, Zenon DEF Bytes
<1>7. QED
  BY <1>3, <1>5, <1>6

LEMMA BytesOfMany ==
  ASSUME NEW S \in SUBSET Requests, NEW m \in Nat, \A r \in S : Size[r] <= m
  PROVE  Bytes(S) <= Cardinality(S) * m
<1>1. BytesOf(S) \subseteq S \X (1..m)
  BY DEF BytesOf
<1>2. IsFiniteSet(S)
  BY FS_Subset
<1>3. IsFiniteSet(1..m) /\ Cardinality(1..m) = m
  BY FS_Interval
<1>4. IsFiniteSet(S \X (1..m)) /\ Cardinality(S \X (1..m)) = Cardinality(S) * m
  BY <1>2, <1>3, FS_Product
<1>5. QED
  BY <1>1, <1>4, FS_Subset DEF Bytes

-----------------------------------------------------------------------------
(* The spool's size. *)

\* Requests whose file is going to be linked, unless an operation fails: their
\* walk saw (or will report) a directory with room for them.
Pending ==
  {x \in Requests :
     \/ pc[x] \in {"write", "rename"}
     \/ pc[x] = "walk" /\ Bytes(seen[x]) + Size[x] <= MaxBytes}

Premise(m) ==
  raced = {} /\ MaxBytes > 0 /\ MaxInFlight > 0 /\ \A r \in Requests : Size[r] <= m

\* SpoolBound is not inductive: what the files in flight will add is missing.
SpoolInv ==
  \A m \in {Size[r] : r \in Requests} :
    Premise(m) => Bytes(dir \cup Pending) <= MaxBytes + (MaxInFlight - 1) * m

\* Most steps link no file that was not pending before.
LEMMA NoMorePending ==
  ASSUME TypeOK, TypeOK', SpoolInv,
         raced \subseteq raced', dir' \cup Pending' \subseteq dir \cup Pending
  PROVE  SpoolInv'
<1> SUFFICES ASSUME NEW m \in {Size[r] : r \in Requests}, Premise(m)'
             PROVE  Bytes(dir' \cup Pending') <= MaxBytes + (MaxInFlight - 1) * m
  BY DEF SpoolInv
<1>1. Premise(m)
  BY DEF Premise
<1>2. Bytes(dir \cup Pending) <= MaxBytes + (MaxInFlight - 1) * m
  BY <1>1 DEF SpoolInv
<1>3. dir \cup Pending \subseteq Requests
  BY DEF TypeOK, Pending
<1>4. Bytes(dir' \cup Pending') <= Bytes(dir \cup Pending)
  BY <1>3, BytesMonotone
<1>5. Bytes(dir' \cup Pending') \in Nat /\ Bytes(dir \cup Pending) \in Nat
  BY <1>3, BytesFinite
<1>6. m \in Nat
  OBVIOUS
<1>7. (MaxInFlight - 1) * m \in Int
  BY <1>6
<1>8. QED
  BY <1>2, <1>4, <1>5, <1>7

\* A walk starts: the files that are pending besides this one belong to the other
\* handlers in flight.
LEMMA WalkStartSpool ==
  ASSUME TypeOK, TypeOK', SpoolInv, NEW s \in Requests, WalkStart(s)
  PROVE  SpoolInv'
<1>1. raced' = raced /\ dir' = dir
  BY DEF WalkStart, history, diskVars
<1>2. CASE s \notin Pending'
  <2>1. Pending' \subseteq Pending
    BY <1>2 DEF WalkStart, Pending, GoTo, TypeOK
  <2>2. QED
    BY <1>1, <2>1, NoMorePending
<1>3. CASE s \in Pending'
  <2> SUFFICES ASSUME NEW m \in {Size[r] : r \in Requests}, Premise(m)'
               PROVE  Bytes(dir' \cup Pending') <= MaxBytes + (MaxInFlight - 1) * m
    BY DEF SpoolInv
  <2> DEFINE others == Pending' \ {s}
  <2>1. Bytes(dir) + Size[s] <= MaxBytes
    BY <1>3 DEF WalkStart, Pending, GoTo, TypeOK, Premise
  <2>2. others \subseteq Active \ {s} /\ s \in Active
    BY DEF WalkStart, Pending, GoTo, TypeOK, Active, ActivePcs
  <2>3. IsFiniteSet(Active \ {s}) /\ Cardinality(Active \ {s}) = Cardinality(Active) - 1
    BY <2>2, ActiveFinite, FS_RemoveElement
  <2>4. IsFiniteSet(others) /\ Cardinality(others) <= Cardinality(Active) - 1
    BY <2>2, <2>3, FS_Subset
  <2>5. Cardinality(others) \in Nat /\ Cardinality(Active) \in Nat
    BY <2>4, ActiveFinite, FS_CardinalityType
  <2>6. MaxInFlight # 0 /\ Cardinality(Active) <= MaxInFlight
    BY DEF Premise, TypeOK
  <2>7. Cardinality(others) <= MaxInFlight - 1
    BY <2>4, <2>5, <2>6
  <2>8. m \in Nat /\ \A r \in Requests : Size[r] <= m
    BY DEF Premise
  <2>9. others \subseteq Requests /\ dir \subseteq Requests
    BY DEF Pending, TypeOK
  <2>10. Bytes(others) <= Cardinality(others) * m
    BY <2>8, <2>9, BytesOfMany
  <2>11. Cardinality(others) * m <= (MaxInFlight - 1) * m
    BY <2>5, <2>7, <2>8, <2>6
  <2>12. Bytes(dir \cup {s}) <= Bytes(dir) + Size[s]
    BY <2>9, BytesOfOne, BytesOfUnion
  <2>13. Bytes((dir \cup {s}) \cup others) <= Bytes(dir \cup {s}) + Bytes(others)
    BY <2>9, BytesOfUnion
  <2>14. dir' \cup Pending' = (dir \cup {s}) \cup others
    BY <1>1, <1>3
  <2>15. /\ Bytes(dir) \in Nat /\ Bytes(dir \cup {s}) \in Nat /\ Bytes(others) \in Nat
         /\ Bytes((dir \cup {s}) \cup others) \in Nat
    BY <2>9, BytesFinite
  <2>16. Cardinality(others) * m \in Nat /\ (MaxInFlight - 1) * m \in Int
    BY <2>5, <2>8
  <2>17. Bytes(others) <= (MaxInFlight - 1) * m
    BY <2>10, <2>11, <2>15, <2>16
  <2> HIDE DEF others
  <2>18. Bytes((dir \cup {s}) \cup others) <= MaxBytes + (MaxInFlight - 1) * m
    BY <2>1, <2>12, <2>13, <2>15, <2>16, <2>17
  <2>19. QED
    BY <2>14, <2>18
<1>4. QED
  BY <1>2, <1>3

\* A walk ends: while no walk met a removed file, what it reports is what it saw.
LEMMA WalkEndSpool ==
  ASSUME TypeOK, TypeOK', SpoolInv, NEW r \in Requests, WalkEnd(r)
  PROVE  SpoolInv'
<1>1. PICK used \in WalkResults(seen[r]) :
        /\ IF OverCapacity(used, r) THEN Answer(r, "full") ELSE GoTo(r, "write")
        /\ raced' = IF used = Bytes(seen[r]) THEN raced ELSE raced \cup {r}
  BY DEF WalkEnd
<1>2. pc[r] = "walk" /\ seen' = [seen EXCEPT ![r] = {}] /\ dir' = dir
  BY DEF WalkEnd, diskVars
<1>3. CASE used # Bytes(seen[r])
  BY <1>1, <1>3 DEF SpoolInv, Premise
<1>4. CASE used = Bytes(seen[r])
  <2>1. Bytes(seen[r]) \in Nat
    BY BytesFinite DEF TypeOK
  <2>2. ASSUME NEW x \in Pending' PROVE x \in Pending
    <3>1. CASE x = r
      <4>1. pc'[r] = "write"
        BY <1>1, <3>1, <2>2 DEF Pending, Answer, GoTo, TypeOK
      <4>2. ~OverCapacity(used, r)
        BY <1>1, <4>1 DEF Answer, TypeOK
      <4>3. QED
        BY <1>2, <1>4, <2>1, <3>1, <4>2 DEF OverCapacity, Pending
    <3>2. CASE x # r
      <4>1. x \in Requests /\ pc'[x] = pc[x] /\ seen'[x] = seen[x]
        BY <1>1, <1>2, <2>2, <3>2 DEF Pending, Answer, GoTo, TypeOK
      <4>2. QED
        BY <2>2, <4>1 DEF Pending
    <3>3. QED
      BY <3>1, <3>2
  <2>3. QED
    BY <1>1, <1>2, <1>4, <2>2, NoMorePending
<1>5. QED
  BY <1>3, <1>4

LEMMA SpoolStep ==
  ASSUME TypeOK, TypeOK', SpoolInv, [Next]_vars PROVE SpoolInv'
<1>1. ASSUME NEW r \in Requests, WalkStart(r) PROVE SpoolInv'
  BY <1>1, WalkStartSpool
<1>2. ASSUME NEW r \in Requests, WalkEnd(r) PROVE SpoolInv'
  BY <1>2, WalkEndSpool
<1>3. ASSUME NEW r \in Requests, Rename(r) PROVE SpoolInv'
  <2>1. r \in Pending /\ dir' = dir \cup {r} /\ raced' = raced
    BY <1>3 DEF Rename, Pending, history
  <2>2. Pending' \subseteq Pending
    BY <1>3 DEF Rename, Answer, Pending, TypeOK
  <2>3. QED
    BY <2>1, <2>2, NoMorePending
<1>4. ASSUME NEW r \in Requests,
             \/ Arrive(r) \/ Expire(r) \/ Validate(r) \/ Publish(r) \/ PublishFails(r)
             \/ WriteExpired(r) \/ WriteTmp(r) \/ WriteFails(r)
      PROVE  SpoolInv'
  <2>1. dir' = dir /\ raced' = raced
    BY <1>4 DEF Arrive, Expire, Validate, Publish, PublishFails, WriteExpired, WriteTmp,
       WriteFails, diskVars, history
  <2>2. ASSUME NEW x \in Pending' PROVE x \in Pending
    BY <1>4, <2>2 DEF Arrive, Expire, Validate, Publish, PublishFails, WriteExpired, WriteTmp,
       WriteFails, GoTo, Answer, Pending, TypeOK
  <2>3. QED
    BY <2>1, <2>2, NoMorePending
<1>5. CASE ReplayTick \/ ReplayStop \/ Signal \/ Terminated \/ UNCHANGED vars
           \/ \E f \in Requests : ReplayStep(f)
  <2>1. dir' \subseteq dir /\ raced' = raced /\ UNCHANGED <<pc, seen>>
    BY <1>5 DEF ReplayTick, ReplayStop, ReplayStep, ReplayRead, ReplayReadFails,
       ReplayPublish, ReplayPublishFails, ReplayRemove, ReplayRemoveFails, Signal, Terminated,
       vars, handlerVars, diskVars, history
  <2>2. Pending' = Pending
    BY <2>1 DEF Pending
  <2>3. QED
    BY <2>1, <2>2, NoMorePending
<1>6. CASE Restart
  <2>1. dir' = dir /\ raced' = raced
    BY <1>6 DEF Restart, diskVars, history
  <2>2. Pending' = {}
    BY <1>6 DEF Restart, Pending, Active, ActivePcs, TypeOK
  <2>3. QED
    BY <2>1, <2>2, NoMorePending
<1>7. QED
  BY <1>1, <1>2, <1>3, <1>4, <1>5, <1>6 DEF Next, HandlerStep

\* The spool outgrows SpoolMaxBytes by at most one file for each other handler that
\* may be in flight, as long as no walk meets a file that was just removed.
THEOREM SpoolIsBounded == Spec => []SpoolBound
<1>1. Init => SpoolInv
  <2> SUFFICES ASSUME Init, NEW m \in {Size[r] : r \in Requests}, Premise(m)
               PROVE  Bytes(dir \cup Pending) <= MaxBytes + (MaxInFlight - 1) * m
    BY DEF SpoolInv
  <2>1. BytesOf(dir \cup Pending) = {}
    BY DEF Init, Pending, BytesOf
  <2>2. Bytes(dir \cup Pending) = 0
    BY <2>1, FS_EmptySet DEF Bytes
  <2>3. m \in Nat /\ MaxInFlight - 1 \in Nat
    BY DEF Premise
  <2>4. (MaxInFlight - 1) * m \in Nat
    BY <2>3
  <2>5. QED
    BY <2>2, <2>4
<1>2. TypeOK /\ TypeOK' /\ SpoolInv /\ [Next]_vars => SpoolInv'
  BY SpoolStep
<1>3. TypeOK /\ SpoolInv => SpoolBound
  <2> SUFFICES ASSUME TypeOK, SpoolInv, NEW m \in {Size[r] : r \in Requests}, Premise(m)
               PROVE  Bytes(dir) <= MaxBytes + (MaxInFlight - 1) * m
    BY DEF SpoolBound, Premise
  <2>1. Bytes(dir \cup Pending) <= MaxBytes + (MaxInFlight - 1) * m
    BY DEF SpoolInv
  <2>2. dir \cup Pending \subseteq Requests
    BY DEF TypeOK, Pending
  <2>3. Bytes(dir) <= Bytes(dir \cup Pending)
    BY <2>2, BytesMonotone
  <2>4. Bytes(dir) \in Nat /\ Bytes(dir \cup Pending) \in Nat /\ m \in Nat
    BY <2>2, BytesFinite
  <2>5. (MaxInFlight - 1) * m \in Int
    BY <2>4
  <2>6. QED
    BY <2>1, <2>3, <2>4, <2>5
<1>4. QED
  BY <1>1, <1>2, <1>3, TypeCorrect, PTL DEF Spec

-----------------------------------------------------------------------------
(* What finding 5 leaves of the promise. *)

\* Only files whose lines the scanner can hold are published.
ReadInv == rpc \in {"publish", "remove"} => \A f \in rfile : Body[f] # "long"

LEMMA ReadStep == ReadInv /\ [Next]_vars => ReadInv'
<1> SUFFICES ASSUME ReadInv, [Next]_vars PROVE ReadInv'
  OBVIOUS
<1>1. ASSUME NEW r \in Requests, Arrive(r) \/ Expire(r) \/ HandlerStep(r) PROVE ReadInv'
  <2>1. UNCHANGED <<rpc, rfile>>
    BY <1>1 DEF Arrive, Expire, HandlerStep, Validate, Publish, PublishFails, WriteExpired,
       WalkStart, WalkEnd, WriteTmp, Rename, WriteFails, replayVars
  <2>2. QED
    BY <2>1 DEF ReadInv
<1>2. ASSUME NEW f \in Requests, ReplayStep(f) PROVE ReadInv'
  BY <1>2 DEF ReadInv, ReplayStep, ReplayRead, ReplayReadFails, ReplayPublish,
     ReplayPublishFails, ReplayRemove, ReplayRemoveFails, GoOn
<1>3. CASE ReplayTick \/ ReplayStop \/ Restart
  BY <1>3 DEF ReadInv, ReplayTick, ReplayStop, Restart, GoOn
<1>4. CASE Signal \/ UNCHANGED vars
  BY <1>4 DEF ReadInv, Signal, vars, replayVars
<1>5. QED
  BY <1>1, <1>2, <1>3, <1>4 DEF Next, Terminated

\* A spool file with a line of more than 64 KiB never leaves the directory, however often
\* it is tried: its records stay in the spool, and so does the part of SpoolMaxBytes that it
\* takes up (writer.go:96-123, with the default buffer of bufio.Scanner).
THEOREM LongFilesStay ==
  Spec => [][\A f \in Requests : Body[f] = "long" /\ f \in dir => f \in dir']_vars
<1>1. Init => ReadInv
  BY DEF Init, ReadInv
<1>2. ReadInv /\ [Next]_vars
        => \A f \in Requests : Body[f] = "long" /\ f \in dir => f \in dir'
  <2> SUFFICES ASSUME ReadInv, [Next]_vars, NEW f \in Requests, Body[f] = "long", f \in dir
               PROVE  f \in dir'
    OBVIOUS
  <2>1. ASSUME NEW r \in Requests, Arrive(r) \/ Expire(r) \/ HandlerStep(r) PROVE f \in dir'
    BY <2>1 DEF Arrive, Expire, HandlerStep, Validate, Publish, PublishFails, WriteExpired,
       WalkStart, WalkEnd, WriteTmp, Rename, WriteFails, diskVars
  <2>2. ASSUME NEW g \in Requests, ReplayStep(g) PROVE f \in dir'
    BY <2>2 DEF ReadInv, ReplayStep, ReplayRead, ReplayReadFails, ReplayPublish,
       ReplayPublishFails, ReplayRemove, ReplayRemoveFails, diskVars
  <2>3. CASE ReplayTick \/ ReplayStop \/ Signal \/ Restart \/ UNCHANGED vars
    BY <2>3 DEF ReplayTick, ReplayStop, Signal, Restart, vars, diskVars
  <2>4. QED
    BY <2>1, <2>2, <2>3 DEF Next, Terminated
<1>3. QED
  BY <1>1, <1>2, ReadStep, PTL DEF Spec
=============================================================================
