--------------------------- MODULE DashboardProofs ---------------------------
(***************************************************************************)
(* Proofs about the live log stream for any records, any number of         *)
(* documents of each, any window and page length, and any number of        *)
(* connections.                                                            *)
(***************************************************************************)
EXTENDS Dashboard, FiniteSetTheorems, FunctionTheorems, SequenceTheorems, TLAPS

USE DashboardAssumption DEF DashboardAssumption

LEMMA ConstantsPositive ==
  /\ Second \in Nat /\ Second > 0 /\ Window \in Nat /\ Window > 0 /\ Span \in Nat
  /\ PageLines \in Nat /\ PageLines > 0 /\ MaxTime \in Nat /\ MaxCopies \in Nat
  /\ MaxConnections \in Nat
OBVIOUS

-----------------------------------------------------------------------------
(* Lines and documents. *)

\* A line is put on top: every other one moves down by one.
LEMMA PrependProperties ==
  ASSUME NEW k \in Keys, NEW s \in Seq(Keys)
  PROVE  /\ <<k>> \o s \in Seq(Keys)
         /\ Len(<<k>> \o s) = Len(s) + 1
         /\ (<<k>> \o s)[1] = k
         /\ \A n \in 2..(Len(s) + 1) : (<<k>> \o s)[n] = s[n - 1]
<1>1. <<k>> \in Seq(Keys) /\ Len(<<k>>) = 1 /\ <<k>>[1] = k
  OBVIOUS
<1>2. /\ <<k>> \o s \in Seq(Keys)
      /\ Len(<<k>> \o s) = 1 + Len(s)
      /\ \A n \in 1..(1 + Len(s)) : (<<k>> \o s)[n] = IF n <= 1 THEN <<k>>[n] ELSE s[n - 1]
  BY <1>1, ConcatProperties
<1>3. Len(s) \in Nat
  BY LenProperties
<1>4. QED
  BY <1>1, <1>2, <1>3

\* The page keeps the topmost lines, at most PageLines of them.
LEMMA ShownProperties ==
  ASSUME NEW s \in Seq(Keys)
  PROVE  /\ Shown(s) \in Seq(Keys)
         /\ Len(Shown(s)) <= PageLines
         /\ Len(Shown(s)) <= Len(s)
         /\ \A n \in 1..Len(Shown(s)) : Shown(s)[n] = s[n]
<1>1. Len(s) \in Nat /\ PageLines \in Nat /\ PageLines > 0
  BY LenProperties
<1>2. CASE Len(s) <= PageLines
  BY <1>1, <1>2 DEF Shown
<1>3. CASE ~(Len(s) <= PageLines)
  <2>1. Shown(s) = SubSeq(s, 1, PageLines)
    BY <1>3 DEF Shown
  <2>2. \A n \in 1..PageLines : s[n] \in Keys
    BY <1>1, <1>3, ElementOfSeq
  <2>3. /\ SubSeq(s, 1, PageLines) \in Seq(Keys)
        /\ Len(SubSeq(s, 1, PageLines)) = IF 1 <= PageLines THEN PageLines - 1 + 1 ELSE 0
        /\ \A n \in 1..(PageLines - 1 + 1) : SubSeq(s, 1, PageLines)[n] = s[1 + n - 1]
    BY <1>1, <2>2, SubSeqProperties
  <2>4. QED
    BY <1>1, <1>3, <2>1, <2>3
<1>4. QED
  BY <1>2, <1>3

LEMMA DocumentsFinite ==
  ASSUME NEW found \in [Keys -> Nat]
  PROVE  IsFiniteSet(Documents(found)) /\ Cardinality(Documents(found)) \in Nat
<1>1. IsFiniteSet(1..MaxCopies)
  BY FS_Interval
<1>2. IsFiniteSet(Keys \X (1..MaxCopies))
  BY <1>1, FS_Product
<1>3. IsFiniteSet(Documents(found))
  BY <1>2, FS_Subset DEF Documents
<1>4. QED
  BY <1>3, FS_CardinalityType

LEMMA FoundType ==
  ASSUME TypeOK, NEW time
  PROVE  /\ Found(time) \in [Keys -> 0..MaxCopies]
         /\ \A k \in Keys : Found(time)[k] = IF InRange(k, time) THEN docs[k] ELSE 0
BY DEF Found, TypeOK

\* An answer is a list of at most Window logs.
LEMMA AnswerType ==
  ASSUME TypeOK, NEW time, NEW answer \in Answers(time)
  PROVE  answer \in Seq(Keys) /\ Len(answer) \in Nat /\ Len(answer) <= Window
<1> DEFINE total == Cardinality(Documents(Found(time)))
           size == IF total < Window THEN total ELSE Window
<1>1. answer \in [1..size -> Keys]
  BY DEF Answers
<1>2. total \in Nat
  BY FoundType, DocumentsFinite
<1> HIDE DEF total
<1>3. size \in Nat /\ size <= Window
  BY <1>2
<1> HIDE DEF size
<1>4. QED
  BY <1>1, <1>3, SeqDef, LenProperties

-----------------------------------------------------------------------------
(* Types. *)

LEMMA TypeInit == Init => TypeOK
<1> SUFFICES ASSUME Init PROVE TypeOK
  OBVIOUS
<1>1. late \in BOOLEAN /\ cut \in BOOLEAN
  BY Zenon DEF Init
<1>2. <<>> \in Seq(Keys) /\ Len(<<>>) = 0
  BY EmptySeq
<1>3. QED
  BY <1>1, <1>2 DEF Init, TypeOK

LEMMA IndexType ==
  ASSUME TypeOK, Elapse \/ \E k \in Keys : Index(k) PROVE TypeOK'
<1>1. CASE Elapse
  <2>1. now \in Nat /\ MaxTime \in Nat /\ asked \in Nat /\ asked <= now
    BY ConstantsPositive DEF TypeOK
  <2>2. now' = now + 1 /\ now < MaxTime /\ asked' = asked
    BY <1>1 DEF Elapse, handlerVars
  <2>3. now' \in 0..MaxTime /\ asked' \in 0..now'
    BY <2>1, <2>2
  <2>4. QED
    BY <1>1, <2>3 DEF Elapse, TypeOK, handlerVars, loopVars, pageVars
<1>2. ASSUME NEW k \in Keys, Index(k) PROVE TypeOK'
  <2>1. docs' \in [Keys -> 0..MaxCopies]
    <3>1. docs \in [Keys -> 0..MaxCopies] /\ docs[k] < MaxCopies /\ MaxCopies \in Nat
      BY <1>2, ConstantsPositive DEF Index, TypeOK
    <3>2. docs[k] + 1 \in 0..MaxCopies
      BY <3>1
    <3>3. docs' = [docs EXCEPT ![k] = docs[k] + 1]
      BY <1>2 DEF Index
    <3>4. QED
      BY <3>1, <3>2, <3>3, Zenon
  <2>2. late' \in BOOLEAN
    BY <1>2, Zenon DEF Index
  <2>3. QED
    BY <1>2, <2>1, <2>2 DEF Index, TypeOK, handlerVars, loopVars, pageVars
<1>3. QED
  BY <1>1, <1>2

LEMMA HandlerType ==
  ASSUME TypeOK, StreamLogs PROVE TypeOK'
<1>1. CASE Tick
  BY <1>1 DEF Tick, TypeOK, loopVars, indexVars, pageVars
<1>2. CASE SearchAnswered
  <2>1. PICK answer \in Answers(asked) :
          hits' = answer /\ i' = Len(answer) /\ cut' = (cut \/ CutsTie(answer))
    BY <1>2 DEF SearchAnswered
  <2>2. cut' \in BOOLEAN
    BY <2>1, Zenon
  <2>3. answer \in Seq(Keys) /\ Len(answer) \in Nat /\ Len(answer) <= Window
    BY AnswerType
  <2>4. hits' \in Seq(Keys) /\ Len(hits') <= Window /\ i' \in 0..Len(hits')
    BY <2>1, <2>3
  <2>5. pc' = "loop" /\ asked' = 0 /\ UNCHANGED <<seen, indexVars, pageVars>> /\ pc = "search"
    BY <1>2 DEF SearchAnswered
  <2>6. QED
    BY <2>2, <2>4, <2>5 DEF TypeOK, indexVars, pageVars
<1>3. CASE SearchFails
  BY <1>3 DEF SearchFails, TypeOK, loopVars, indexVars, pageVars
<1>4. CASE WriteLog
  <2>1. Hit \in Keys
    BY <1>4, ElementOfSeq DEF WriteLog, Hit, TypeOK
  <2>2. seen' \subseteq Keys /\ view' \in Seq(Keys) /\ Len(view') <= PageLines
    <3>1. CASE IsNew
      <4>1. <<Hit>> \o view \in Seq(Keys)
        BY <2>1, PrependProperties DEF TypeOK
      <4>2. /\ Shown(<<Hit>> \o view) \in Seq(Keys)
            /\ Len(Shown(<<Hit>> \o view)) <= PageLines
        BY <4>1, ShownProperties
      <4>3. seen' = seen \cup {Hit} /\ view' = Shown(<<Hit>> \o view)
        BY <1>4, <3>1 DEF WriteLog
      <4>4. QED
        BY <2>1, <4>2, <4>3 DEF TypeOK
    <3>2. CASE ~IsNew
      BY <1>4, <3>2 DEF WriteLog, TypeOK
    <3>3. QED
      BY <3>1, <3>2
  <2>3. i' \in 0..Len(hits)
    BY <1>4 DEF WriteLog, TypeOK
  <2>4. QED
    BY <1>4, <2>2, <2>3 DEF WriteLog, TypeOK, indexVars
<1>5. CASE LoopEnds
  BY <1>5, EmptySeq DEF LoopEnds, TypeOK, indexVars, pageVars
<1>6. QED
  BY <1>1, <1>2, <1>3, <1>4, <1>5 DEF StreamLogs

LEMMA PageType ==
  ASSUME TypeOK, StartStream \/ Connect \/ Lose \/ StopStream \/ UNCHANGED vars
  PROVE  TypeOK'
<1>1. CASE StartStream
  BY <1>1 DEF StartStream, TypeOK, handlerVars, loopVars, indexVars
<1>2. CASE Connect
  BY <1>2 DEF Connect, TypeOK, handlerVars, loopVars, indexVars
<1>3. CASE Lose \/ StopStream
  <2>1. /\ pc' = "tick" /\ asked' = 0 /\ hits' = <<>> /\ i' = 0 /\ seen' = {}
        /\ stream' = "none" \/ (stream' = "connecting" /\ connections < MaxConnections)
        /\ UNCHANGED <<view, connections, cut, docs, now, late>>
    BY <1>3 DEF Lose, StopStream, HandlerEnds, indexVars
  <2>2. <<>> \in Seq(Keys) /\ Len(<<>>) = 0
    BY EmptySeq
  <2>3. hits' \in Seq(Keys) /\ Len(hits') <= Window /\ i' \in 0..Len(hits')
    BY <2>1, <2>2, ConstantsPositive
  <2>4. QED
    BY <2>1, <2>3 DEF TypeOK
<1>4. CASE UNCHANGED vars
  BY <1>4 DEF TypeOK, vars, handlerVars, loopVars, indexVars, pageVars
<1>5. QED
  BY <1>1, <1>2, <1>3, <1>4

\* Every variable keeps its type: the page never has more than PageLines lines, and
\* nothing of a handler outlives its connection.
THEOREM TypeCorrect == Spec => []TypeOK
<1>1. TypeOK /\ [Next]_vars => TypeOK'
  BY IndexType, HandlerType, PageType DEF Next
<1>2. QED
  BY <1>1, TypeInit, PTL DEF Spec

-----------------------------------------------------------------------------
(* Copies. *)

Positions(k, s) == {n \in 1..Len(s) : s[n] = k}

LEMMA PositionsFinite ==
  ASSUME NEW s \in Seq(Keys), NEW k
  PROVE  IsFiniteSet(Positions(k, s)) /\ Copies(k, s) = Cardinality(Positions(k, s))
<1>1. Len(s) \in Nat
  BY LenProperties
<1>2. IsFiniteSet(1..Len(s))
  BY <1>1, FS_Interval
<1>3. IsFiniteSet(Positions(k, s))
  BY <1>2, FS_Subset DEF Positions
<1>4. QED
  BY <1>3 DEF Copies, Positions

LEMMA CopiesType ==
  ASSUME NEW s \in Seq(Keys), NEW k PROVE Copies(k, s) \in Nat
BY PositionsFinite, FS_CardinalityType

\* A line more on top is a copy more of its own key only.
LEMMA CopiesPrepended ==
  ASSUME NEW s \in Seq(Keys), NEW k \in Keys, NEW j \in Keys
  PROVE  Copies(j, <<k>> \o s) <= Copies(j, s) + (IF j = k THEN 1 ELSE 0)
<1> DEFINE old == Positions(j, s)
           new == Positions(j, <<k>> \o s)
           moved == {n + 1 : n \in old}
           down == [n \in old |-> n + 1]
<1>1. IsFiniteSet(old) /\ Copies(j, s) = Cardinality(old) /\ Cardinality(old) \in Nat
  BY PositionsFinite, CopiesType
<1>2. down \in Surjection(old, moved)
  BY DEF Surjection
<1>3. IsFiniteSet(moved) /\ Cardinality(moved) <= Cardinality(old)
  BY <1>1, <1>2, FS_Surjection
<1>4. Cardinality(moved) \in Nat
  BY <1>3, FS_CardinalityType
<1>5. Len(s) \in Nat
  BY LenProperties
<1>6. ASSUME NEW n \in new, n # 1 PROVE n \in moved
  <2>1. n \in 2..(Len(s) + 1) /\ s[n - 1] = j
    BY <1>5, <1>6, PrependProperties DEF Positions
  <2>2. n - 1 \in old /\ n = (n - 1) + 1
    BY <1>5, <2>1 DEF Positions
  <2>3. QED
    BY <2>2
<1>7. j # k => new \subseteq moved
  BY <1>6, PrependProperties DEF Positions
<1>8. new \subseteq moved \cup {1}
  BY <1>6
<1>9. Copies(j, <<k>> \o s) = Cardinality(new)
  BY PrependProperties, PositionsFinite
<1> HIDE DEF old, new, moved, down
<1>10. CASE j = k
  <2>1. /\ IsFiniteSet(moved \cup {1})
        /\ Cardinality(moved \cup {1}) =
             IF 1 \in moved THEN Cardinality(moved) ELSE Cardinality(moved) + 1
    BY <1>3, FS_AddElement
  <2>2. Cardinality(moved \cup {1}) <= Cardinality(moved) + 1
        /\ Cardinality(moved \cup {1}) \in Nat
    BY <1>4, <2>1
  <2>3. Cardinality(new) <= Cardinality(moved \cup {1}) /\ IsFiniteSet(new)
    BY <1>8, <2>1, FS_Subset
  <2>4. Cardinality(new) \in Nat
    BY <2>3, FS_CardinalityType
  <2>5. QED
    BY <1>1, <1>3, <1>4, <1>9, <1>10, <2>2, <2>3, <2>4
<1>11. CASE j # k
  <2>1. Cardinality(new) <= Cardinality(moved) /\ IsFiniteSet(new)
    BY <1>3, <1>7, <1>11, FS_Subset
  <2>2. Cardinality(new) \in Nat
    BY <2>1, FS_CardinalityType
  <2>3. QED
    BY <1>1, <1>3, <1>4, <1>9, <1>11, <2>1, <2>2
<1>12. QED
  BY <1>10, <1>11

LEMMA CopiesShown ==
  ASSUME NEW s \in Seq(Keys), NEW k \in Keys
  PROVE  Copies(k, Shown(s)) <= Copies(k, s)
<1>1. Shown(s) \in Seq(Keys) /\ Len(s) \in Nat /\ Len(Shown(s)) \in Nat
  BY ShownProperties, LenProperties
<1>2. Positions(k, Shown(s)) \subseteq Positions(k, s)
  <2>1. ASSUME NEW n \in 1..Len(Shown(s)) PROVE n \in 1..Len(s) /\ Shown(s)[n] = s[n]
    <3>1. Len(Shown(s)) <= Len(s)
      BY ShownProperties
    <3>2. n \in 1..Len(s)
      BY <1>1, <3>1
    <3>3. QED
      BY <3>2, ShownProperties
  <2>2. QED
    BY <2>1 DEF Positions
<1>3. Cardinality(Positions(k, Shown(s))) <= Cardinality(Positions(k, s))
  BY <1>2, PositionsFinite, FS_Subset
<1>4. QED
  BY <1>1, <1>3, PositionsFinite

-----------------------------------------------------------------------------
(* Each record once for every connection. *)

\* Connections that may have shown k.
Chances(k) == IF stream = "open" /\ k \notin seen THEN connections - 1 ELSE connections

\* A key that was not sent on the open connection was shown by the earlier ones only.
ShownInv ==
  /\ stream = "open" => connections > 0
  /\ \A k \in Keys : Copies(k, view) <= Chances(k)

LEMMA ChancesType ==
  ASSUME TypeOK, NEW k \in Keys PROVE Chances(k) \in Int
BY DEF Chances, TypeOK

LEMMA WriteLogShown ==
  ASSUME TypeOK, ShownInv, WriteLog PROVE ShownInv'
<1>1. UNCHANGED <<stream, connections>> /\ stream = "open"
  BY DEF WriteLog, TypeOK
<1>2. CASE ~IsNew
  <2>1. UNCHANGED <<seen, view>>
    BY <1>2 DEF WriteLog
  <2>2. QED
    BY <1>1, <2>1 DEF ShownInv, Chances
<1>3. CASE IsNew
  <2>1. Hit \in Keys /\ Hit \notin seen
    <3>1. hits \in Seq(Keys) /\ Len(hits) \in Nat /\ i \in 0..Len(hits) /\ i > 0
      BY LenProperties DEF WriteLog, TypeOK
    <3>2. i \in 1..Len(hits)
      BY <3>1
    <3>3. hits[i] \in Keys
      BY <3>1, <3>2, ElementOfSeq
    <3>4. QED
      BY <1>3, <3>3 DEF Hit, IsNew
  <2>2. seen' = seen \cup {Hit} /\ view' = Shown(<<Hit>> \o view)
    BY <1>3 DEF WriteLog
  <2>3. ASSUME NEW j \in Keys PROVE Copies(j, view') <= Chances(j)'
    <3>1. view \in Seq(Keys) /\ <<Hit>> \o view \in Seq(Keys)
      BY <2>1, PrependProperties DEF TypeOK
    <3>2. Copies(j, view') <= Copies(j, <<Hit>> \o view)
      BY <2>2, <3>1, CopiesShown
    <3>3. Copies(j, <<Hit>> \o view) <= Copies(j, view) + (IF j = Hit THEN 1 ELSE 0)
      BY <2>1, <3>1, CopiesPrepended
    <3>4. Copies(j, view) <= Chances(j)
      BY DEF ShownInv
    <3>5. Chances(j)' = Chances(j) + (IF j = Hit THEN 1 ELSE 0)
      <4>1. connections \in Nat /\ connections' = connections
        BY <1>1 DEF TypeOK
      <4>2. j = Hit => Chances(j) = connections - 1 /\ Chances(j)' = connections
        BY <1>1, <2>1, <2>2 DEF Chances
      <4>3. j # Hit => Chances(j)' = Chances(j)
        BY <1>1, <2>2 DEF Chances
      <4>4. QED
        BY <4>1, <4>2, <4>3, ChancesType
    <3>6. view' \in Seq(Keys)
      BY <2>2, <3>1, ShownProperties
    <3>7. /\ Copies(j, view) \in Nat /\ Copies(j, view') \in Nat
          /\ Copies(j, <<Hit>> \o view) \in Nat /\ Chances(j) \in Int
      BY <3>1, <3>6, CopiesType, ChancesType
    <3>8. QED
      BY <3>2, <3>3, <3>4, <3>5, <3>7
  <2>4. QED
    BY <1>1, <2>3 DEF ShownInv
<1>4. QED
  BY <1>2, <1>3

LEMMA ShownStep ==
  ASSUME TypeOK, ShownInv, [Next]_vars PROVE ShownInv'
<1>1. CASE WriteLog
  BY <1>1, WriteLogShown
<1>2. CASE \/ Elapse \/ Tick \/ SearchAnswered \/ SearchFails \/ LoopEnds \/ UNCHANGED vars
           \/ \E k \in Keys : Index(k)
  <2>1. UNCHANGED <<stream, connections, seen, view>>
    BY <1>2 DEF Elapse, Tick, SearchAnswered, SearchFails, LoopEnds, Index, vars, handlerVars,
       pageVars
  <2>2. QED
    BY <2>1 DEF ShownInv, Chances
<1>3. CASE StartStream \/ Lose \/ StopStream
  <2>1. UNCHANGED <<view, connections>> /\ stream' # "open"
    BY <1>3 DEF StartStream, Lose, StopStream
  <2>2. ASSUME NEW k \in Keys PROVE Copies(k, view') <= Chances(k)'
    <3>1. Copies(k, view) <= Chances(k)
      BY DEF ShownInv
    <3>2. view \in Seq(Keys) /\ connections \in Nat
      BY DEF TypeOK
    <3>3. Copies(k, view) \in Nat
      BY <3>2, CopiesType
    <3>4. Copies(k, view') = Copies(k, view) /\ Chances(k)' = connections
      BY <2>1 DEF Chances
    <3>5. Chances(k) = connections \/ Chances(k) = connections - 1
      BY DEF Chances
    <3>6. QED
      BY <3>1, <3>2, <3>3, <3>4, <3>5
  <2>3. QED
    BY <2>1, <2>2 DEF ShownInv
<1>4. CASE Connect
  <2>1. /\ UNCHANGED view /\ stream = "connecting" /\ stream' = "open"
        /\ connections' = connections + 1 /\ seen' = {}
    BY <1>4 DEF Connect, TypeOK, handlerVars
  <2>2. ASSUME NEW k \in Keys PROVE Copies(k, view') <= Chances(k)'
    <3>1. Copies(k, view) <= Chances(k) /\ connections \in Nat
      BY DEF ShownInv, TypeOK
    <3>2. QED
      BY <2>1, <3>1 DEF Chances
  <2>3. QED
    BY <2>1, <2>2 DEF ShownInv, TypeOK
<1>5. QED
  BY <1>1, <1>2, <1>3, <1>4 DEF Next, StreamLogs

\* However polls overlap, whatever is indexed meanwhile, and wherever in the loop the
\* connection breaks: no record is shown more often than connections were opened.
THEOREM ShownOnce == Spec => []ShownOncePerConnection
<1>1. Init => ShownInv
  <2> SUFFICES ASSUME Init, NEW k \in Keys PROVE Copies(k, view) <= Chances(k)
    BY DEF Init, ShownInv
  <2>1. view = <<>> /\ connections = 0 /\ stream # "open"
    BY DEF Init
  <2>2. Len(<<>>) = 0
    BY EmptySeq
  <2>3. {n \in 1..Len(view) : view[n] = k} = {}
    BY <2>1, <2>2
  <2>4. Copies(k, view) = 0
    BY <2>3, FS_EmptySet DEF Copies
  <2>5. QED
    BY <2>1, <2>4 DEF Chances
<1>2. TypeOK /\ ShownInv /\ [Next]_vars => ShownInv'
  BY ShownStep
<1>3. TypeOK /\ ShownInv => ShownOncePerConnection
  <2> SUFFICES ASSUME TypeOK, ShownInv, NEW k \in Keys PROVE Copies(k, view) <= connections
    BY DEF ShownOncePerConnection
  <2>1. Copies(k, view) <= Chances(k)
    BY DEF ShownInv
  <2>2. Copies(k, view) \in Nat /\ connections \in Nat
    BY CopiesType DEF TypeOK
  <2>3. QED
    BY <2>1, <2>2 DEF Chances
<1>4. QED
  BY <1>1, <1>2, <1>3, TypeCorrect, PTL DEF Spec

-----------------------------------------------------------------------------
(* The clock. *)

LEMMA WholeProperties ==
  ASSUME NEW a \in Int, NEW b \in Int, a <= b
  PROVE  Whole(a) \in Int /\ Whole(a) <= a /\ Whole(a) <= Whole(b)
<1> DEFINE p == a \div Second
           q == b \div Second
           m == a % Second
           n == b % Second
<1>1. Second \in Int /\ Second > 0
  OBVIOUS
<1>2. /\ p \in Int /\ m \in 0..(Second - 1) /\ a = Second * p + m
      /\ q \in Int /\ n \in 0..(Second - 1) /\ b = Second * q + n
  BY <1>1
<1>3. Whole(a) = a - m /\ Whole(b) = b - n
  BY DEF Whole
<1> HIDE DEF p, q, m, n
<1>4. m \in Int /\ n \in Int /\ m >= 0 /\ n >= 0 /\ m < Second /\ n < Second
  BY <1>1, <1>2
<1>5. Second * p \in Int /\ Second * q \in Int
  BY <1>1, <1>2
<1>6. p <= q
  <2> SUFFICES ASSUME q < p PROVE FALSE
    BY <1>2
  <2>1. q + 1 <= p
    BY <1>2
  <2>2. Second * (q + 1) <= Second * p
    BY <1>1, <1>2, <2>1
  <2>3. Second * (q + 1) = Second * q + Second
    BY <1>1, <1>2
  <2>4. QED
    BY <1>1, <1>2, <1>4, <1>5, <2>2, <2>3
<1>7. Second * p <= Second * q
  BY <1>1, <1>2, <1>6
<1>8. QED
  BY <1>2, <1>3, <1>4, <1>5, <1>7

LEMMA SecondEndProperties ==
  ASSUME NEW a \in Int, NEW b \in Int, a <= b
  PROVE  SecondEnd(a) \in Int /\ SecondEnd(b) \in Int /\ SecondEnd(a) <= SecondEnd(b)
<1>1. Whole(a) \in Int /\ Whole(b) \in Int /\ Whole(a) <= Whole(b)
  BY WholeProperties
<1>2. Second \in Int
  OBVIOUS
<1>3. QED
  BY <1>1, <1>2 DEF SecondEnd

LEMMA WholeSpanBefore ==
  ASSUME NEW a \in Nat, NEW b \in Nat, a <= b
  PROVE  /\ Whole(a - Span) \in Int /\ Whole(b - Span) \in Int
         /\ Whole(a - Span) <= Whole(b - Span)
<1>1. Span \in Nat
  BY ConstantsPositive
<1>2. a - Span \in Int /\ b - Span \in Int /\ a - Span <= b - Span
  BY <1>1
<1>3. QED
  BY <1>2, WholeProperties

-----------------------------------------------------------------------------
(* The lines of an answer are documents. *)

CopiesOf(s) == [k \in Keys |-> Copies(k, s)]

LEMMA LenInterval ==
  ASSUME NEW s \in Seq(Keys)
  PROVE  IsFiniteSet(1..Len(s)) /\ Cardinality(1..Len(s)) = Len(s)
<1>1. Len(s) \in Nat
  BY LenProperties
<1>2. /\ IsFiniteSet(1..Len(s))
      /\ Cardinality(1..Len(s)) = IF 1 > Len(s) THEN 0 ELSE Len(s) - 1 + 1
  <2>1. Len(s) \in Int /\ 1 \in Int
    BY <1>1
  <2>2. QED
    BY <2>1, FS_Interval, Zenon
<1>3. QED
  BY <1>1, <1>2

\* A list has as many lines as documents: number the lines of each key.
LEMMA LinesAreDocuments ==
  ASSUME NEW s \in Seq(Keys), \A k \in Keys : Copies(k, s) <= MaxCopies
  PROVE  /\ IsFiniteSet(Documents(CopiesOf(s)))
         /\ Cardinality(Documents(CopiesOf(s))) = Len(s)
<1> DEFINE ranks(k) == Bijection(Positions(k, s), 1..Copies(k, s))
           rank == [k \in Keys |-> CHOOSE f : f \in ranks(k)]
           number == [n \in 1..Len(s) |-> <<s[n], rank[s[n]][n]>>]
           D == Documents(CopiesOf(s))
<1>1. ASSUME NEW k \in Keys PROVE rank[k] \in Bijection(Positions(k, s), 1..Copies(k, s))
  <2>1. ExistsBijection(1..Copies(k, s), Positions(k, s))
    BY PositionsFinite, FS_CardinalityType
  <2>2. ExistsBijection(Positions(k, s), 1..Copies(k, s))
    BY <2>1, Fun_ExistsBijSymmetric
  <2>3. ranks(k) # {}
    BY <2>2 DEF ExistsBijection
  <2>4. (CHOOSE f : f \in ranks(k)) \in ranks(k)
    BY <2>3
  <2>5. QED
    BY <2>4
<1> HIDE DEF rank
<1>2. ASSUME NEW k \in Keys
      PROVE  /\ rank[k] \in [Positions(k, s) -> 1..Copies(k, s)]
             /\ \A m, n \in Positions(k, s) : rank[k][m] = rank[k][n] => m = n
             /\ \A r \in 1..Copies(k, s) : \E n \in Positions(k, s) : rank[k][n] = r
  BY <1>1 DEF Bijection, Injection, Surjection, IsInjective
<1>3. ASSUME NEW n \in 1..Len(s)
      PROVE  s[n] \in Keys /\ n \in Positions(s[n], s) /\ rank[s[n]][n] \in 1..Copies(s[n], s)
  <2>1. s[n] \in Keys /\ n \in Positions(s[n], s)
    BY ElementOfSeq DEF Positions
  <2>2. QED
    BY <1>2, <2>1
<1>4. number \in [1..Len(s) -> D]
  <2>1. ASSUME NEW n \in 1..Len(s) PROVE <<s[n], rank[s[n]][n]>> \in D
    <3>1. rank[s[n]][n] \in 1..MaxCopies
      BY <1>3, CopiesType, ConstantsPositive
    <3>2. rank[s[n]][n] <= CopiesOf(s)[s[n]]
      BY <1>3, CopiesType DEF CopiesOf
    <3>3. QED
      BY <1>3, <3>1, <3>2 DEF Documents
  <2>2. QED
    BY <2>1
<1>5. ASSUME NEW m \in 1..Len(s), NEW n \in 1..Len(s), number[m] = number[n] PROVE m = n
  <2>1. s[m] = s[n] /\ rank[s[m]][m] = rank[s[n]][n]
    BY <1>5
  <2>2. m \in Positions(s[n], s) /\ n \in Positions(s[n], s) /\ s[n] \in Keys
    BY <1>3, <2>1
  <2>3. QED
    BY <1>2, <2>1, <2>2
<1>6. ASSUME NEW d \in D PROVE \E n \in 1..Len(s) : number[n] = d
  <2>1. d = <<d[1], d[2]>> /\ d[1] \in Keys /\ d[2] \in 1..Copies(d[1], s)
    BY CopiesType DEF Documents, CopiesOf
  <2>2. PICK n \in Positions(d[1], s) : rank[d[1]][n] = d[2]
    BY <1>2, <2>1
  <2>3. n \in 1..Len(s) /\ s[n] = d[1]
    BY DEF Positions
  <2>4. QED
    BY <2>1, <2>2, <2>3
<1> HIDE DEF number, D
<1>7. number \in Bijection(1..Len(s), D)
  BY <1>4, <1>5, <1>6, Fun_IsBij
<1>8. ExistsBijection(1..Len(s), D)
  BY <1>7 DEF ExistsBijection
<1>9. IsFiniteSet(D) /\ Cardinality(D) = Len(s)
  BY <1>8, LenInterval, FS_Bijection
<1>10. QED
  BY <1>9 DEF D

LEMMA AnswerProperties ==
  ASSUME TypeOK, NEW time, NEW answer \in Answers(time)
  PROVE  /\ \A m, n \in 1..Len(answer) : m < n => TimeOf[answer[m]] >= TimeOf[answer[n]]
         /\ \A k \in Keys : Copies(k, answer) <= Found(time)[k]
         /\ \A k \in Keys : Copies(k, answer) < Found(time)[k] =>
              \A n \in 1..Len(answer) : TimeOf[answer[n]] >= TimeOf[k]
         /\ \/ Len(answer) = Window
            \/ Len(answer) = Cardinality(Documents(Found(time)))
<1> DEFINE total == Cardinality(Documents(Found(time)))
           size == IF total < Window THEN total ELSE Window
<1>1. /\ answer \in [1..size -> Keys]
      /\ IsSorted(answer, NotOlder)
      /\ \A k \in Keys : Copies(k, answer) <= Found(time)[k]
      /\ \A k \in Keys : Copies(k, answer) < Found(time)[k] =>
           \A n \in 1..size : NotOlder(answer[n], k)
  BY DEF Answers
<1>2. total \in Nat
  BY FoundType, DocumentsFinite
<1> HIDE DEF total
<1>3. size \in Nat /\ (size = Window \/ size = total)
  BY <1>2, ConstantsPositive
<1> HIDE DEF size
<1>4. Len(answer) = size
  BY <1>1, <1>3, AnswerType, LenProperties
<1>5. QED
  BY <1>1, <1>3, <1>4 DEF IsSorted, NotOlder, total

LEMMA AnswerLines ==
  ASSUME TypeOK, NEW time, NEW answer \in Answers(time)
  PROVE  /\ answer \in Seq(Keys)
         /\ IsFiniteSet(Documents(CopiesOf(answer)))
         /\ Cardinality(Documents(CopiesOf(answer))) = Len(answer)
<1>1. answer \in Seq(Keys)
  BY AnswerType
<1>2. ASSUME NEW k \in Keys PROVE Copies(k, answer) <= MaxCopies
  <2>1. Copies(k, answer) <= Found(time)[k] /\ Copies(k, answer) \in Nat
    BY <1>1, AnswerProperties, CopiesType
  <2>2. Found(time)[k] \in 0..MaxCopies
    BY FoundType
  <2>3. QED
    BY <2>1, <2>2, ConstantsPositive
<1>3. QED
  BY <1>1, <1>2, LinesAreDocuments

-----------------------------------------------------------------------------
(* What a poll leaves out. *)

\* The documents that go before those of k in a poll of this time, when each key j
\* has count[j] documents.
NewerThan(k, count, time) ==
  {d \in Documents(count) : TimeOf[k] < TimeOf[d[1]] /\ TimeOf[d[1]] <= SecondEnd(time)}

Crowded(k, count, time) == Cardinality(NewerThan(k, count, time)) >= Window

LEMMA NewerFinite ==
  ASSUME NEW count \in [Keys -> Nat], NEW k, NEW time
  PROVE  /\ IsFiniteSet(NewerThan(k, count, time))
         /\ Cardinality(NewerThan(k, count, time)) \in Nat
<1>1. IsFiniteSet(Documents(count))
  BY DocumentsFinite
<1>2. IsFiniteSet(NewerThan(k, count, time))
  BY <1>1, FS_Subset DEF NewerThan
<1>3. QED
  BY <1>2, FS_CardinalityType

LEMMA DocsType ==
  ASSUME TypeOK PROVE docs \in [Keys -> Nat]
BY ConstantsPositive DEF TypeOK

\* Documents are only added, and time passes: what is crowded stays so.
LEMMA CrowdedStays ==
  ASSUME NEW c \in [Keys -> Nat], NEW d \in [Keys -> Nat], \A j \in Keys : c[j] <= d[j],
         NEW a \in Int, NEW b \in Int, a <= b, NEW k \in Keys, Crowded(k, c, a)
  PROVE  Crowded(k, d, b)
<1>1. SecondEnd(a) \in Int /\ SecondEnd(b) \in Int /\ SecondEnd(a) <= SecondEnd(b)
  BY SecondEndProperties
<1>2. NewerThan(k, c, a) \subseteq NewerThan(k, d, b)
  <2>1. ASSUME NEW e \in NewerThan(k, c, a) PROVE e \in NewerThan(k, d, b)
    <3>1. /\ e \in Keys \X (1..MaxCopies) /\ e[1] \in Keys /\ e[2] \in 1..MaxCopies
          /\ e[2] <= c[e[1]] /\ TimeOf[k] < TimeOf[e[1]] /\ TimeOf[e[1]] <= SecondEnd(a)
      BY DEF NewerThan, Documents
    <3>2. e[2] <= d[e[1]] /\ TimeOf[e[1]] <= SecondEnd(b)
      BY <1>1, <3>1, ConstantsPositive
    <3>3. QED
      BY <3>1, <3>2 DEF NewerThan, Documents
  <2>2. QED
    BY <2>1
<1>3. Cardinality(NewerThan(k, c, a)) <= Cardinality(NewerThan(k, d, b))
  BY <1>2, NewerFinite, FS_Subset
<1>4. QED
  BY <1>3, NewerFinite, ConstantsPositive DEF Crowded

\* An answer that leaves out a document it found is full.
LEMMA LeftOutOfFull ==
  ASSUME TypeOK, NEW time, NEW answer \in Answers(time), NEW k \in Keys,
         Copies(k, answer) < Found(time)[k]
  PROVE  Len(answer) = Window
<1> DEFINE lines == Documents(CopiesOf(answer))
           found == Documents(Found(time))
           d == <<k, Found(time)[k]>>
<1>1. IsFiniteSet(lines) /\ Cardinality(lines) = Len(answer)
  BY AnswerLines
<1>2. /\ Found(time) \in [Keys -> 0..MaxCopies]
      /\ \A j \in Keys : Copies(j, answer) <= Found(time)[j] /\ Copies(j, answer) \in Nat
  BY FoundType, AnswerProperties, AnswerLines, CopiesType
<1>3. IsFiniteSet(found) /\ Cardinality(found) \in Nat
  <2>1. Found(time) \in [Keys -> Nat]
    BY <1>2, ConstantsPositive
  <2>2. QED
    BY <2>1, DocumentsFinite
<1>4. d \in found
  BY <1>2, ConstantsPositive DEF Documents
<1>5. lines \subseteq found \ {d}
  <2>1. ASSUME NEW e \in lines PROVE e \in found /\ e # d
    <3>1. e[1] \in Keys /\ e[2] \in 1..MaxCopies /\ e[2] <= Copies(e[1], answer)
          /\ e \in Keys \X (1..MaxCopies)
      BY DEF Documents, CopiesOf
    <3>2. e[2] <= Found(time)[e[1]]
      BY <1>2, <3>1, ConstantsPositive
    <3>3. e # d
      BY <1>2, <3>1, ConstantsPositive
    <3>4. QED
      BY <3>1, <3>2, <3>3 DEF Documents
  <2>2. QED
    BY <2>1
<1> HIDE DEF lines, found, d
<1>6. IsFiniteSet(found \ {d}) /\ Cardinality(found \ {d}) = Cardinality(found) - 1
  BY <1>3, <1>4, FS_RemoveElement
<1>7. Cardinality(lines) <= Cardinality(found) - 1
  BY <1>5, <1>6, FS_Subset
<1>8. Len(answer) = Window \/ Len(answer) = Cardinality(found)
  BY AnswerProperties DEF found
<1>9. QED
  BY <1>1, <1>3, <1>7, <1>8

\* If Window newer documents are visible, k is in no answer.
LEMMA CrowdedOut ==
  ASSUME TypeOK, NEW time \in Nat, NEW answer \in Answers(time), NEW k \in Keys,
         Crowded(k, docs, time), Whole(time - Span) <= TimeOf[k]
  PROVE  \A n \in 1..Len(answer) : answer[n] # k
<1> SUFFICES ASSUME NEW n \in 1..Len(answer), answer[n] = k PROVE FALSE
  OBVIOUS
<1> DEFINE lines == Documents(CopiesOf(answer))
           newer == NewerThan(k, docs, time)
           d == <<k, 1>>
<1>1. /\ answer \in Seq(Keys)
      /\ IsFiniteSet(lines) /\ Cardinality(lines) = Len(answer)
  BY AnswerLines
<1>2. Copies(k, answer) \in Nat /\ Copies(k, answer) >= 1
  <2>1. n \in Positions(k, answer)
    BY DEF Positions
  <2>2. Cardinality(Positions(k, answer)) # 0
    BY <1>1, <2>1, PositionsFinite, FS_EmptySet
  <2>3. QED
    BY <1>1, <2>2, PositionsFinite, CopiesType
<1>3. \A j \in Keys : Copies(j, answer) <= Found(time)[j] /\ Copies(j, answer) \in Nat
                      /\ Found(time)[j] \in 0..MaxCopies
  BY <1>1, AnswerProperties, CopiesType, FoundType
<1>4. d \in lines
  <2>1. 1 \in 1..MaxCopies /\ 1 <= Copies(k, answer)
    BY <1>2, <1>3, ConstantsPositive
  <2>2. QED
    BY <2>1 DEF Documents, CopiesOf
<1>5. ASSUME NEW e \in newer PROVE e \in lines \ {d}
  <2>1. /\ e \in Keys \X (1..MaxCopies) /\ e[1] \in Keys /\ e[2] <= docs[e[1]]
        /\ TimeOf[k] < TimeOf[e[1]] /\ TimeOf[e[1]] <= SecondEnd(time)
    BY <1>5 DEF NewerThan, Documents
  <2>2. Whole(time - Span) \in Int /\ TimeOf[k] \in Nat /\ TimeOf[e[1]] \in Nat
    <3>1. time - Span \in Int /\ time - Span <= time - Span
      BY ConstantsPositive
    <3>2. QED
      BY <2>1, <3>1, WholeProperties
  <2>3. InRange(e[1], time)
    BY <2>1, <2>2 DEF InRange
  <2>4. Found(time)[e[1]] = docs[e[1]]
    BY <2>1, <2>3, FoundType
  <2>5. ~(TimeOf[answer[n]] >= TimeOf[e[1]])
    BY <2>1, <2>2
  <2>6. ~(Copies(e[1], answer) < Found(time)[e[1]])
    BY <2>1, <2>5, AnswerProperties
  <2>7. e[2] <= Copies(e[1], answer)
    BY <1>3, <2>1, <2>4, <2>6, ConstantsPositive
  <2>8. e \in lines
    BY <2>1, <2>7 DEF Documents, CopiesOf
  <2>9. QED
    BY <2>1, <2>2, <2>8
<1> HIDE DEF lines, newer, d
<1>6. IsFiniteSet(lines \ {d}) /\ Cardinality(lines \ {d}) = Cardinality(lines) - 1
  BY <1>1, <1>4, FS_RemoveElement
<1>7. Cardinality(newer) <= Cardinality(lines) - 1
  BY <1>5, <1>6, FS_Subset
<1>8. Cardinality(newer) >= Window
  BY DEF Crowded, newer
<1>9. Cardinality(newer) \in Nat /\ Len(answer) \in Nat /\ Len(answer) <= Window
  BY DocsType, NewerFinite, AnswerType DEF newer
<1>10. QED
  BY <1>1, <1>7, <1>8, <1>9, ConstantsPositive

\* A full answer of newer lines only shows as many newer documents.
LEMMA FullAnswerCrowds ==
  ASSUME TypeOK, NEW time \in Nat, NEW answer \in Answers(time), NEW k \in Keys,
         Len(answer) = Window, \A n \in 1..Len(answer) : TimeOf[k] < TimeOf[answer[n]]
  PROVE  Crowded(k, docs, time)
<1> DEFINE lines == Documents(CopiesOf(answer))
           newer == NewerThan(k, docs, time)
<1>1. /\ answer \in Seq(Keys)
      /\ IsFiniteSet(lines) /\ Cardinality(lines) = Window
  BY AnswerLines
<1>2. ASSUME NEW e \in lines PROVE e \in newer
  <2>1. /\ e \in Keys \X (1..MaxCopies) /\ e[1] \in Keys /\ e[2] \in 1..MaxCopies
        /\ e[2] <= Copies(e[1], answer)
    BY DEF Documents, CopiesOf
  <2>2. /\ Copies(e[1], answer) <= Found(time)[e[1]] /\ Copies(e[1], answer) \in Nat
        /\ Found(time)[e[1]] \in 0..MaxCopies
        /\ Found(time)[e[1]] = IF InRange(e[1], time) THEN docs[e[1]] ELSE 0
    BY <1>1, <2>1, AnswerProperties, CopiesType, FoundType
  <2>3. Copies(e[1], answer) > 0 /\ InRange(e[1], time) /\ e[2] <= docs[e[1]]
    BY <2>1, <2>2, ConstantsPositive
  <2>4. PICK n \in 1..Len(answer) : answer[n] = e[1]
    <3>1. Positions(e[1], answer) # {}
      <4>1. Cardinality(Positions(e[1], answer)) = Copies(e[1], answer)
        BY <1>1, PositionsFinite
      <4>2. Copies(e[1], answer) # 0
        BY <2>2, <2>3
      <4>3. QED
        BY <4>1, <4>2, FS_EmptySet
    <3>2. QED
      BY <3>1 DEF Positions
  <2>5. TimeOf[k] < TimeOf[e[1]] /\ TimeOf[e[1]] <= SecondEnd(time)
    BY <2>3, <2>4 DEF InRange
  <2>6. QED
    BY <2>1, <2>3, <2>5 DEF NewerThan, Documents
<1> HIDE DEF lines, newer
<1>3. Cardinality(lines) <= Cardinality(newer)
  <2>1. IsFiniteSet(newer)
    BY DocsType, NewerFinite DEF newer
  <2>2. QED
    BY <1>2, <2>1, FS_Subset
<1>4. QED
  BY <1>1, <1>3 DEF Crowded, newer

-----------------------------------------------------------------------------
(* The newest line on top. *)

\* The time the next answer is for, as far as it is known.
PollTime == IF pc = "search" THEN asked ELSE now

\* Keys that were sent on the open connection, or are in the rest of the loop.
Coming == seen \cup {hits[n] : n \in 1..i}

\* The executions NewestOnTop speaks of.
Straight == connections <= 1 /\ ~late /\ ~cut

ComingInv == \A k \in Coming : docs[k] > 0 /\ TimeOf[k] <= SecondEnd(PollTime)

\* The page shows what the first connection has sent, in order.
ViewInv ==
  Straight =>
    /\ connections = 0 => view = <<>>
    /\ \A m, n \in 1..Len(view) : m < n => TimeOf[view[m]] >= TimeOf[view[n]]
    /\ stream = "open" => connections > 0 /\ \A n \in 1..Len(view) : view[n] \in seen

\* What the loop has still to send is in order and newer than all that was sent.
HitsInv ==
  Straight /\ stream = "open" =>
    /\ \A m, n \in 1..Len(hits) : m < n => TimeOf[hits[m]] >= TimeOf[hits[n]]
    /\ \A n \in 1..i : hits[n] \notin seen =>
         \A j \in seen : TimeOf[j] <= TimeOf[hits[n]]

\* A visible record that was not sent is as new as all that was, or will never be in
\* an answer: too many newer ones are visible, or it is too old.
LeftInv ==
  Straight /\ stream = "open" =>
    \A k \in Keys \ Coming :
      docs[k] > 0 /\ Whole(PollTime - Span) <= TimeOf[k] =>
        Crowded(k, docs, PollTime) \/ \A j \in Coming : TimeOf[j] <= TimeOf[k]

OrderInv == TypeOK /\ ComingInv /\ ViewInv /\ HitsInv /\ LeftInv

LEMMA ComingType ==
  ASSUME TypeOK PROVE Coming \subseteq Keys
<1>1. ASSUME NEW n \in 1..i PROVE hits[n] \in Keys
  <2>1. n \in 1..Len(hits)
    BY LenProperties DEF TypeOK
  <2>2. QED
    BY <2>1, ElementOfSeq DEF TypeOK
<1>2. QED
  BY <1>1 DEF Coming, TypeOK

\* Before the answer comes, and after the loop, only what was sent is coming.
LEMMA ComingOutsideLoop ==
  ASSUME TypeOK, pc # "loop" PROVE Coming = seen
<1>1. i = 0
  BY EmptySeq DEF TypeOK
<1>2. QED
  BY <1>1 DEF Coming

LEMMA Growth ==
  ASSUME TypeOK, TypeOK', [Next]_vars
  PROVE  /\ PollTime \in Nat /\ PollTime' \in Nat /\ PollTime <= PollTime'
         /\ \A k \in Keys : docs[k] <= docs'[k]
         /\ Straight' => Straight
<1>1. PollTime \in Nat /\ PollTime' \in Nat
  BY DEF PollTime, TypeOK
<1>2. ASSUME NEW k \in Keys, Index(k)
      PROVE  /\ UNCHANGED <<pc, asked, now, connections, cut>>
             /\ docs' = [docs EXCEPT ![k] = @ + 1] /\ (late => late')
  BY <1>2 DEF Index, handlerVars, pageVars
<1>3. ASSUME NEW k \in Keys, Index(k) PROVE \A j \in Keys : docs[j] <= docs'[j]
  <2> SUFFICES ASSUME NEW j \in Keys PROVE docs[j] <= docs'[j]
    OBVIOUS
  <2>1. docs'[j] = IF j = k THEN docs[k] + 1 ELSE docs[j]
    BY <1>2, <1>3, DocsType
  <2>2. docs[j] \in Nat /\ docs[k] \in Nat
    BY DocsType
  <2>3. QED
    BY <2>1, <2>2
<1>4. CASE \E k \in Keys : Index(k)
  <2>1. PollTime' = PollTime
    BY <1>2, <1>4 DEF PollTime
  <2>2. Straight' => Straight
    BY <1>2, <1>4 DEF Straight
  <2>3. QED
    BY <1>1, <1>3, <1>4, <2>1, <2>2
<1>5. CASE Elapse \/ StreamLogs \/ StartStream \/ Connect \/ Lose \/ StopStream \/ UNCHANGED vars
  <2>1. docs' = docs /\ late' = late
    BY <1>5 DEF Elapse, StreamLogs, Tick, SearchAnswered, SearchFails, WriteLog, LoopEnds,
       StartStream, Connect, Lose, StopStream, vars, indexVars
  <2>2. PollTime <= PollTime'
    <3>1. now \in Nat /\ asked \in Nat /\ asked <= now
      BY DEF TypeOK
    <3>2. CASE Elapse
      <4>1. now' = now + 1 /\ UNCHANGED <<pc, asked>>
        BY <3>2 DEF Elapse, handlerVars
      <4>2. QED
        BY <3>1, <4>1 DEF PollTime
    <3>3. CASE Tick
      <4>1. pc = "tick" /\ pc' = "search" /\ asked' = now
        BY <3>3 DEF Tick
      <4>2. QED
        BY <3>1, <4>1 DEF PollTime
    <3>4. CASE SearchAnswered \/ SearchFails \/ LoopEnds \/ Lose \/ StopStream
      <4>1. now' = now /\ pc' # "search"
        BY <3>4 DEF SearchAnswered, SearchFails, LoopEnds, Lose, StopStream, HandlerEnds,
           indexVars
      <4>2. QED
        BY <3>1, <4>1 DEF PollTime
    <3>5. CASE WriteLog \/ StartStream \/ Connect \/ UNCHANGED vars
      <4>1. UNCHANGED <<now, pc, asked>>
        BY <3>5 DEF WriteLog, StartStream, Connect, vars, indexVars, handlerVars
      <4>2. QED
        BY <3>1, <4>1 DEF PollTime
    <3>6. QED
      BY <1>5, <3>2, <3>3, <3>4, <3>5 DEF StreamLogs
  <2>3. cut => cut'
    BY <1>5 DEF Elapse, StreamLogs, Tick, SearchAnswered, SearchFails, WriteLog, LoopEnds,
       StartStream, Connect, Lose, StopStream, vars, pageVars
  <2>4. connections' = connections \/ connections' = connections + 1
    BY <1>5 DEF Elapse, StreamLogs, Tick, SearchAnswered, SearchFails, WriteLog, LoopEnds,
       StartStream, Connect, Lose, StopStream, vars, pageVars
  <2>5. connections \in Nat
    BY DEF TypeOK
  <2>6. connections' <= 1 => connections <= 1
    BY <2>4, <2>5
  <2>7. Straight' => Straight
    BY <2>1, <2>3, <2>6 DEF Straight
  <2>8. \A k \in Keys : docs[k] <= docs'[k]
    BY <2>1, DocsType
  <2>9. QED
    BY <1>1, <2>2, <2>8, <2>7
<1>6. QED
  BY <1>4, <1>5 DEF Next

\* The parts of OrderInv while nothing is sent and the connection stays.
LEMMA ComingKept ==
  ASSUME TypeOK, TypeOK', [Next]_vars, ComingInv, Coming' \subseteq Coming
  PROVE  ComingInv'
<1> SUFFICES ASSUME NEW k \in Coming' PROVE docs'[k] > 0 /\ TimeOf[k] <= SecondEnd(PollTime')
  BY DEF ComingInv
<1>1. k \in Keys /\ docs[k] > 0 /\ TimeOf[k] <= SecondEnd(PollTime)
  BY ComingType DEF ComingInv
<1>2. docs[k] \in Nat /\ docs'[k] \in Nat
  BY <1>1, ConstantsPositive DEF TypeOK
<1>3. /\ SecondEnd(PollTime) \in Int /\ SecondEnd(PollTime') \in Int
      /\ SecondEnd(PollTime) <= SecondEnd(PollTime')
  BY Growth, SecondEndProperties
<1>4. QED
  BY <1>1, <1>2, <1>3, Growth

LEMMA LeftKept ==
  ASSUME TypeOK, TypeOK', [Next]_vars, LeftInv, stream = "open", Coming' = Coming,
         Straight' => \A k \in Keys : docs[k] = 0 /\ docs'[k] > 0 =>
                        \A j \in Coming : TimeOf[j] <= TimeOf[k]
  PROVE  LeftInv'
<1> SUFFICES ASSUME Straight', NEW k \in Keys \ Coming, docs'[k] > 0,
                    Whole(PollTime' - Span) <= TimeOf[k],
                    ~\A j \in Coming : TimeOf[j] <= TimeOf[k]
             PROVE  Crowded(k, docs', PollTime')
  BY DEF LeftInv
<1>1. PollTime \in Nat /\ PollTime' \in Nat /\ PollTime <= PollTime' /\ Straight
  BY Growth
<1>2. /\ docs \in [Keys -> Nat] /\ docs' \in [Keys -> Nat]
      /\ \A j \in Keys : docs[j] <= docs'[j]
  <2>1. docs' \in [Keys -> 0..MaxCopies]
    BY DEF TypeOK
  <2>2. docs' \in [Keys -> Nat]
    BY <2>1, ConstantsPositive
  <2>3. QED
    BY <2>2, DocsType, Growth
<1>3. docs[k] > 0
  BY <1>2
<1>4. Whole(PollTime - Span) <= TimeOf[k]
  <2>1. /\ Whole(PollTime - Span) \in Int /\ Whole(PollTime' - Span) \in Int
        /\ Whole(PollTime - Span) <= Whole(PollTime' - Span)
    BY <1>1, WholeSpanBefore
  <2>2. TimeOf[k] \in Int
    OBVIOUS
  <2>3. QED
    BY <2>1, <2>2
<1>5. Crowded(k, docs, PollTime)
  BY <1>1, <1>3, <1>4 DEF LeftInv
<1>6. QED
  BY <1>1, <1>2, <1>5, CrowdedStays

LEMMA OrderKept ==
  ASSUME OrderInv, TypeOK', [Next]_vars, stream = "open", stream' = "open", Coming' = Coming,
         UNCHANGED <<seen, view, connections>>,
         hits' = hits \/ hits' = <<>>, i' = i \/ i' = 0,
         Straight' => \A k \in Keys : docs[k] = 0 /\ docs'[k] > 0 =>
                        \A j \in Coming : TimeOf[j] <= TimeOf[k]
  PROVE  OrderInv'
<1>1. ComingInv'
  BY ComingKept DEF OrderInv
<1>2. ViewInv'
  BY Growth DEF OrderInv, ViewInv
<1>3. HitsInv'
  <2> SUFFICES ASSUME Straight' PROVE HitsInv'
    BY DEF HitsInv
  <2>1. Straight
    BY Growth DEF OrderInv
  <2>2. \A m, n \in 1..Len(hits') : m < n => TimeOf[hits'[m]] >= TimeOf[hits'[n]]
    <3>1. CASE hits' = hits
      BY <2>1, <3>1 DEF OrderInv, HitsInv
    <3>2. CASE hits' = <<>>
      BY <3>2, EmptySeq
    <3>3. QED
      BY <3>1, <3>2
  <2>3. \A n \in 1..i' : hits'[n] \notin seen => \A j \in seen : TimeOf[j] <= TimeOf[hits'[n]]
    <3>1. CASE i' = i /\ hits' = hits
      BY <2>1, <3>1 DEF OrderInv, HitsInv
    <3>2. CASE i' = 0
      BY <3>2
    <3>3. CASE hits' = <<>>
      BY <3>3, EmptySeq DEF TypeOK
    <3>4. QED
      BY <3>1, <3>2, <3>3
  <2>4. QED
    BY <2>2, <2>3 DEF HitsInv
<1>4. LeftInv'
  BY LeftKept DEF OrderInv
<1>5. QED
  BY <1>1, <1>2, <1>3, <1>4 DEF OrderInv

\* No connection is open after the step: only the view matters.
LEMMA OrderClosed ==
  ASSUME OrderInv, TypeOK', [Next]_vars, stream' # "open", Coming' \subseteq Coming,
         UNCHANGED <<view, connections>>
  PROVE  OrderInv'
<1>1. ComingInv'
  BY ComingKept DEF OrderInv
<1>2. ViewInv'
  BY Growth DEF OrderInv, ViewInv
<1>3. QED
  BY <1>1, <1>2 DEF OrderInv, HitsInv, LeftInv

LEMMA IndexOrder ==
  ASSUME OrderInv, TypeOK', NEW k \in Keys, Index(k) PROVE OrderInv'
<1> USE DEF OrderInv
<1>1. /\ UNCHANGED <<seen, view, connections, hits, i, stream, pc>>
      /\ docs' = [docs EXCEPT ![k] = @ + 1]
      /\ late' = (late \/ (docs[k] = 0 /\ \E j \in Keys : docs[j] > 0 /\ TimeOf[k] < TimeOf[j]))
  BY DEF Index, handlerVars, loopVars, pageVars
<1>2. [Next]_vars
  BY DEF Next
<1>3. Coming' = Coming
  BY <1>1 DEF Coming
<1>4. CASE stream # "open"
  BY <1>1, <1>2, <1>3, <1>4, OrderClosed
<1>5. CASE stream = "open"
  <2>1. ASSUME Straight', NEW j \in Keys, docs[j] = 0, docs'[j] > 0, NEW c \in Coming
        PROVE  TimeOf[c] <= TimeOf[j]
    <3>1. j = k
      BY <1>1, <2>1, DocsType
    <3>2. ~(docs[c] > 0 /\ TimeOf[k] < TimeOf[c])
      BY <1>1, <2>1, <3>1, ComingType DEF Straight
    <3>3. docs[c] > 0 /\ c \in Keys
      BY ComingType DEF ComingInv
    <3>4. TimeOf[c] \in Nat /\ TimeOf[k] \in Nat
      BY <3>3
    <3>5. QED
      BY <3>1, <3>2, <3>3, <3>4
  <2>2. QED
    BY <1>1, <1>2, <1>3, <1>5, <2>1, OrderKept
<1>6. QED
  BY <1>4, <1>5

\* An answer arrives: its unsent logs are no older than what was sent, and what it
\* leaves out is crowded by it.
LEMMA AnsweredOrder ==
  ASSUME OrderInv, TypeOK', SearchAnswered PROVE OrderInv'
<1> USE DEF OrderInv
<1>1. PICK answer \in Answers(asked) :
        hits' = answer /\ i' = Len(answer) /\ cut' = (cut \/ CutsTie(answer))
  BY DEF SearchAnswered
<1>2. /\ pc = "search" /\ pc' = "loop" /\ stream = "open" /\ stream' = "open"
      /\ UNCHANGED <<seen, docs, now, late, view, connections>>
  BY DEF SearchAnswered, TypeOK, indexVars, pageVars
<1>3. [Next]_vars
  BY DEF Next, StreamLogs
<1>4. /\ asked \in Nat /\ PollTime = asked /\ PollTime' \in Nat /\ asked <= PollTime'
      /\ Straight' => Straight
  BY <1>2, <1>3, Growth DEF PollTime, TypeOK
<1>5. answer \in Seq(Keys) /\ Len(answer) \in Nat
  BY AnswerType
<1>6. Coming = seen /\ Coming' = seen \cup {answer[n] : n \in 1..Len(answer)}
  BY <1>1, <1>2, ComingOutsideLoop DEF Coming
<1>7. ASSUME NEW n \in 1..Len(answer)
      PROVE  answer[n] \in Keys /\ docs[answer[n]] > 0 /\ InRange(answer[n], asked)
  <2>1. answer[n] \in Keys
    BY <1>5, ElementOfSeq
  <2>2. Copies(answer[n], answer) \in Nat /\ Copies(answer[n], answer) # 0
    <3>1. n \in Positions(answer[n], answer)
      BY DEF Positions
    <3>2. QED
      BY <1>5, <3>1, PositionsFinite, CopiesType, FS_EmptySet
  <2>3. /\ Copies(answer[n], answer) <= Found(asked)[answer[n]]
        /\ Found(asked)[answer[n]] = IF InRange(answer[n], asked) THEN docs[answer[n]] ELSE 0
        /\ docs[answer[n]] \in Nat
    BY <2>1, AnswerProperties, FoundType, DocsType
  <2>4. QED
    BY <2>1, <2>2, <2>3
<1>8. ComingInv'
  <2> SUFFICES ASSUME NEW k \in Coming' PROVE docs[k] > 0 /\ TimeOf[k] <= SecondEnd(PollTime')
    BY <1>2 DEF ComingInv
  <2>1. k \in Keys /\ docs[k] > 0 /\ TimeOf[k] <= SecondEnd(asked)
    BY <1>4, <1>6, <1>7, ComingType DEF ComingInv, InRange
  <2>2. /\ SecondEnd(asked) \in Int /\ SecondEnd(PollTime') \in Int
        /\ SecondEnd(asked) <= SecondEnd(PollTime')
    BY <1>4, SecondEndProperties
  <2>3. QED
    BY <2>1, <2>2
<1>9. ViewInv'
  BY <1>2, <1>4 DEF ViewInv
<1>10. HitsInv'
  <2> SUFFICES ASSUME Straight' PROVE HitsInv'
    BY DEF HitsInv
  <2>1. \A m, n \in 1..Len(answer) : m < n => TimeOf[answer[m]] >= TimeOf[answer[n]]
    BY AnswerProperties
  <2>2. ASSUME NEW n \in 1..Len(answer), answer[n] \notin seen, NEW j \in seen
        PROVE  TimeOf[j] <= TimeOf[answer[n]]
    <3>1. answer[n] \in Keys \ Coming /\ docs[answer[n]] > 0
      BY <1>6, <1>7, <2>2
    <3>2. Whole(asked - Span) <= TimeOf[answer[n]]
      BY <1>7 DEF InRange
    <3>3. \/ Crowded(answer[n], docs, asked)
          \/ \A c \in Coming : TimeOf[c] <= TimeOf[answer[n]]
      BY <1>2, <1>4, <3>1, <3>2 DEF LeftInv
    <3>4. ~Crowded(answer[n], docs, asked)
      BY <1>4, <3>1, <3>2, CrowdedOut
    <3>5. j \in Coming
      BY <1>6, <2>2
    <3>6. QED
      BY <3>3, <3>4, <3>5
  <2>3. QED
    BY <1>1, <1>2, <2>1, <2>2 DEF HitsInv
<1>11. LeftInv'
  <2> SUFFICES ASSUME Straight', NEW k \in Keys \ Coming', docs[k] > 0,
                      Whole(PollTime' - Span) <= TimeOf[k],
                      NEW j \in Coming', ~(TimeOf[j] <= TimeOf[k])
               PROVE  Crowded(k, docs, PollTime')
    BY <1>2 DEF LeftInv
  <2>1. TimeOf[k] \in Int /\ TimeOf[j] \in Int /\ k \in Keys
    <3>1. seen \subseteq Keys
      BY DEF TypeOK
    <3>2. Coming' \subseteq Keys
      BY <1>6, <1>7, <3>1, Zenon
    <3>3. k \in Keys /\ j \in Keys
      BY <3>2
    <3>4. QED
      BY <3>3
  <2>2. Whole(asked - Span) <= TimeOf[k]
    <3>1. /\ Whole(asked - Span) \in Int /\ Whole(PollTime' - Span) \in Int
          /\ Whole(asked - Span) <= Whole(PollTime' - Span)
      BY <1>4, WholeSpanBefore
    <3>2. QED
      BY <2>1, <3>1
  <2>3. TimeOf[k] <= SecondEnd(asked)
    <3>1. TimeOf[j] <= SecondEnd(asked)
      BY <1>4, <1>6, <1>7 DEF ComingInv, InRange
    <3>2. SecondEnd(asked) \in Int
      BY <1>4, SecondEndProperties
    <3>3. QED
      BY <2>1, <3>1, <3>2
  <2>4. Found(asked)[k] = docs[k] /\ docs[k] \in Nat
    BY <2>1, <2>2, <2>3, FoundType, DocsType DEF InRange
  <2>5. Copies(k, answer) = 0
    <3>1. Positions(k, answer) = {}
      BY <1>6 DEF Positions
    <3>2. QED
      BY <1>5, <3>1, PositionsFinite, FS_EmptySet
  <2>6. Len(answer) = Window /\ \A n \in 1..Len(answer) : TimeOf[answer[n]] >= TimeOf[k]
    BY <2>1, <2>4, <2>5, LeftOutOfFull, AnswerProperties
  <2>7. ASSUME NEW n \in 1..Len(answer) PROVE TimeOf[k] < TimeOf[answer[n]]
    <3>1. ~CutsTie(answer)
      BY <1>1, Zenon DEF Straight
    <3>2. Copies(answer[n], answer) > 0
      <4>1. n \in Positions(answer[n], answer)
        BY DEF Positions
      <4>2. Copies(answer[n], answer) \in Nat /\ Copies(answer[n], answer) # 0
        BY <1>5, <4>1, PositionsFinite, CopiesType, FS_EmptySet
      <4>3. QED
        BY <4>2
    <3>3. TimeOf[answer[n]] # TimeOf[k]
      BY <1>7, <2>1, <2>4, <2>5, <3>1, <3>2 DEF CutsTie
    <3>4. TimeOf[answer[n]] \in Nat
      BY <1>7
    <3>5. QED
      BY <2>1, <2>6, <3>3, <3>4
  <2>8. Crowded(k, docs, asked)
    BY <1>4, <2>1, <2>6, <2>7, FullAnswerCrowds
  <2>9. docs \in [Keys -> Nat] /\ \A l \in Keys : docs[l] <= docs[l]
    BY DocsType
  <2>10. QED
    BY <1>4, <2>1, <2>8, <2>9, CrowdedStays
<1>12. QED
  BY <1>8, <1>9, <1>10, <1>11

\* The loop's rest is the line it writes next and what it writes later.
LEMMA RestOfLoop ==
  ASSUME NEW s, NEW k \in Nat, k > 0
  PROVE  {s[n] : n \in 1..k} = {s[n] : n \in 1..(k - 1)} \cup {s[k]}
<1>1. k \in 1..k
  OBVIOUS
<1>2. ASSUME NEW n \in 1..k PROVE n \in 1..(k - 1) \/ n = k
  OBVIOUS
<1>3. ASSUME NEW n \in 1..(k - 1) PROVE n \in 1..k
  OBVIOUS
<1>4. QED
  BY <1>1, <1>2, <1>3, Zenon

\* A line put in front of the page moves the others down by one.
LEMMA PutInFront ==
  ASSUME NEW s \in Seq(Keys), NEW k \in Keys
  PROVE  /\ <<k>> \o s \in Seq(Keys) /\ Len(<<k>> \o s) = Len(s) + 1
         /\ (<<k>> \o s)[1] = k
         /\ \A n \in 2..(Len(s) + 1) : (<<k>> \o s)[n] = s[n - 1]
         /\ Len(s) \in Nat
  BY PrependProperties, LenProperties

LEMMA MovedDown ==
  ASSUME NEW len \in Nat, NEW n \in 1..(len + 1), n # 1
  PROVE  n \in 2..(len + 1) /\ n - 1 \in 1..len
  OBVIOUS

\* A line is written: it is the oldest of the loop's rest, and no older than any line
\* that was written before.
LEMMA WriteLogOrder ==
  ASSUME OrderInv, TypeOK', WriteLog PROVE OrderInv'
<1> USE DEF OrderInv
<1>1. /\ pc = "loop" /\ i > 0 /\ i' = i - 1 /\ stream = "open" /\ stream' = "open"
      /\ UNCHANGED <<pc, asked, hits, connections, docs, now, late, cut>>
  BY DEF WriteLog, TypeOK, indexVars
<1>2. Hit = hits[i] /\ i \in 1..Len(hits) /\ Hit \in Keys /\ Len(hits) \in Nat
  BY <1>1, ElementOfSeq, LenProperties DEF Hit, TypeOK
<1>3. [Next]_vars
  BY DEF Next, StreamLogs
<1>4. seen' = seen \cup {Hit}
  BY DEF WriteLog, IsNew
<1>5. Coming' = Coming
  <2>1. i \in Nat /\ i > 0
    BY <1>1, <1>2
  <2>2. {hits[n] : n \in 1..i} = {hits[n] : n \in 1..(i - 1)} \cup {hits[i]}
    BY <2>1, RestOfLoop
  <2>3. QED
    BY <1>1, <1>2, <1>4, <2>2 DEF Coming
<1>6. ComingInv'
  BY <1>3, <1>5, ComingKept
<1>7. LeftInv'
  BY <1>1, <1>3, <1>5, LeftKept
<1>8. Straight' => Straight
  BY <1>1 DEF Straight
<1>9. HitsInv'
  <2> SUFFICES ASSUME Straight', NEW n \in 1..(i - 1), hits[n] \notin seen', NEW j \in seen'
               PROVE  TimeOf[j] <= TimeOf[hits[n]]
    BY <1>1, <1>8 DEF HitsInv
  <2>1. n \in 1..i /\ n < i /\ n \in 1..Len(hits) /\ hits[n] \notin seen
    BY <1>1, <1>2, <1>4
  <2>2. CASE j \in seen
    BY <1>1, <1>8, <2>1, <2>2 DEF HitsInv
  <2>3. CASE j = Hit
    <3>1. TimeOf[hits[n]] >= TimeOf[hits[i]]
      BY <1>1, <1>2, <1>8, <2>1 DEF HitsInv
    <3>2. hits[n] \in Keys
      BY <2>1, ElementOfSeq DEF TypeOK
    <3>3. TimeOf[hits[n]] \in Nat /\ TimeOf[hits[i]] \in Nat
      BY <1>2, <3>2
    <3>4. QED
      BY <1>2, <2>3, <3>1, <3>3
  <2>4. QED
    BY <1>4, <2>2, <2>3
<1>10. ViewInv'
  <2> SUFFICES ASSUME Straight' PROVE ViewInv'
    BY DEF ViewInv
  <2>1. /\ connections = 0 => view = <<>>
        /\ \A m, n \in 1..Len(view) : m < n => TimeOf[view[m]] >= TimeOf[view[n]]
        /\ \A n \in 1..Len(view) : view[n] \in seen
    BY <1>1, <1>8 DEF ViewInv
  <2>2. CASE ~IsNew
    <3>1. view' = view
      BY <2>2 DEF WriteLog
    <3>2. /\ connections' = connections /\ stream = "open" /\ connections > 0
          /\ \A n \in 1..Len(view) : view[n] \in seen'
      BY <1>1, <1>4, <1>8, <2>1 DEF ViewInv
    <3>3. QED
      BY <2>1, <3>1, <3>2 DEF ViewInv
  <2>3. CASE IsNew
    <3> DEFINE lines == <<Hit>> \o view
    <3>1. view' = Shown(lines) /\ Hit \notin seen
      BY <2>3 DEF WriteLog, IsNew
    <3>2. /\ lines \in Seq(Keys) /\ Len(lines) = Len(view) + 1 /\ lines[1] = Hit
          /\ \A n \in 2..(Len(view) + 1) : lines[n] = view[n - 1]
          /\ Len(view) \in Nat
      <4>1. view \in Seq(Keys) /\ Hit \in Keys
        BY <1>2 DEF TypeOK
      <4>2. QED
        BY <4>1, PutInFront
    <3> HIDE DEF lines
    <3>3. \A j \in seen : TimeOf[j] <= TimeOf[Hit]
      BY <1>1, <1>2, <1>8, <3>1 DEF HitsInv
    <3>4. ASSUME NEW n \in 1..Len(lines)
          PROVE  lines[n] \in seen' /\ (n > 1 => lines[n] = view[n - 1] /\ n - 1 \in 1..Len(view))
      <4>1. CASE n = 1
        BY <1>4, <3>2, <4>1
      <4>2. CASE n # 1
        <5>1. Len(lines) = Len(view) + 1 /\ Len(view) \in Nat
          BY <3>2
        <5>2. n \in 2..(Len(view) + 1) /\ n - 1 \in 1..Len(view)
          BY <4>2, <5>1, MovedDown
        <5>3. QED
          BY <1>4, <2>1, <3>2, <5>2
      <4>3. QED
        BY <4>1, <4>2
    <3>5. ASSUME NEW m \in 1..Len(lines), NEW n \in 1..Len(lines), m < n
          PROVE  TimeOf[lines[m]] >= TimeOf[lines[n]]
      <4>1. n - 1 \in 1..Len(view) /\ lines[n] = view[n - 1]
        <5>1. Len(lines) \in Nat
          BY <3>2
        <5>2. n > 1
          BY <3>5, <5>1
        <5>3. QED
          BY <3>4, <5>2
      <4>2. CASE m = 1
        <5>1. lines[n] \in seen
          BY <2>1, <4>1
        <5>2. TimeOf[lines[n]] <= TimeOf[Hit]
          BY <3>3, <5>1
        <5>3. TimeOf[lines[n]] \in Nat /\ TimeOf[Hit] \in Nat
          BY <1>2, <5>1 DEF TypeOK
        <5>4. QED
          BY <3>2, <4>2, <5>2, <5>3
      <4>3. CASE m # 1
        <5>1. Len(lines) \in Nat
          BY <3>2
        <5>2. m > 1 /\ m - 1 < n - 1
          BY <3>5, <4>3, <5>1
        <5>3. m - 1 \in 1..Len(view) /\ lines[m] = view[m - 1]
          BY <3>4, <5>2
        <5>4. QED
          BY <2>1, <4>1, <5>2, <5>3
      <4>4. QED
        BY <4>2, <4>3
    <3>6. /\ Len(view') \in Nat /\ Len(view') <= Len(lines)
          /\ \A n \in 1..Len(view') : view'[n] = lines[n]
      BY <3>1, <3>2, ShownProperties, LenProperties
    <3>7. \A n \in 1..Len(view') : view'[n] \in seen'
      BY <3>2, <3>4, <3>6
    <3>8. \A m, n \in 1..Len(view') : m < n => TimeOf[view'[m]] >= TimeOf[view'[n]]
      <4> SUFFICES ASSUME NEW m \in 1..Len(view'), NEW n \in 1..Len(view'), m < n
                   PROVE  TimeOf[view'[m]] >= TimeOf[view'[n]]
        OBVIOUS
      <4>1. m \in 1..Len(lines) /\ n \in 1..Len(lines)
        BY <3>2, <3>6
      <4>2. view'[m] = lines[m] /\ view'[n] = lines[n]
        BY <3>6
      <4>3. QED
        BY <3>5, <4>1, <4>2
    <3>9. connections' = connections /\ connections > 0
      BY <1>1, <1>8 DEF ViewInv
    <3>10. QED
      BY <3>7, <3>8, <3>9 DEF ViewInv
  <2>4. QED
    BY <2>2, <2>3
<1>11. QED
  BY <1>6, <1>7, <1>9, <1>10

LEMMA OrderStep ==
  ASSUME OrderInv, TypeOK', [Next]_vars PROVE OrderInv'
<1>1. CASE WriteLog
  BY <1>1, WriteLogOrder
<1>2. CASE SearchAnswered
  BY <1>2, AnsweredOrder
<1>3. CASE \E k \in Keys : Index(k)
  BY <1>3, IndexOrder
<1>4. CASE Elapse \/ Tick \/ SearchFails \/ LoopEnds \/ UNCHANGED vars
  <2>1. /\ UNCHANGED <<seen, view, connections, stream, docs, i>>
        /\ hits' = hits \/ (hits' = <<>> /\ i = 0)
    BY <1>4 DEF Elapse, Tick, SearchFails, LoopEnds, vars, indexVars, handlerVars, loopVars,
       pageVars
  <2>2. Coming' = Coming
    BY <2>1 DEF Coming
  <2>3. CASE stream = "open"
    BY <2>1, <2>2, <2>3, OrderKept
  <2>4. CASE stream # "open"
    BY <2>1, <2>2, <2>4, OrderClosed
  <2>5. QED
    BY <2>3, <2>4
<1>5. CASE StartStream \/ Lose \/ StopStream
  <2>1. UNCHANGED <<view, connections>> /\ stream' # "open"
    BY <1>5 DEF StartStream, Lose, StopStream
  <2>2. Coming' \subseteq Coming
    BY <1>5 DEF StartStream, Lose, StopStream, HandlerEnds, handlerVars, loopVars, Coming
  <2>3. QED
    BY <2>1, <2>2, OrderClosed
<1>6. CASE Connect
  <2>1. /\ UNCHANGED <<view, seen, hits, i, docs, late, cut>> /\ stream = "connecting"
        /\ connections' = connections + 1 /\ pc # "loop" /\ seen = {} /\ connections \in Nat
    BY <1>6 DEF Connect, indexVars, handlerVars, loopVars, OrderInv, TypeOK
  <2>2. Coming = {} /\ Coming' = {}
    <3>1. Coming = {}
      BY <2>1, ComingOutsideLoop DEF OrderInv
    <3>2. QED
      BY <2>1, <3>1 DEF Coming
  <2>3. ComingInv' /\ LeftInv'
    BY <2>2 DEF ComingInv, LeftInv
  <2>4. HitsInv'
    <3>1. hits = <<>> /\ i = 0
      BY <2>1, EmptySeq DEF OrderInv, TypeOK
    <3>2. QED
      BY <2>1, <3>1, EmptySeq DEF HitsInv
  <2>5. ViewInv'
    <3>1. ASSUME Straight' PROVE view = <<>>
      BY <2>1, <3>1 DEF Straight, OrderInv, ViewInv
    <3>2. QED
      BY <2>1, <3>1, EmptySeq DEF ViewInv
  <2>6. QED
    BY <2>3, <2>4, <2>5 DEF OrderInv
<1>7. QED
  BY <1>1, <1>2, <1>3, <1>4, <1>5, <1>6 DEF Next, StreamLogs

\* On the first connection the page is sorted, the newest line on top, through any
\* number of overlapping polls, failed searches and records indexed meanwhile, unless
\* a record became visible after a newer one or a full answer had to choose between
\* records of one time.
THEOREM NewestIsOnTop == Spec => []NewestOnTop
<1>1. Init => OrderInv
  <2> SUFFICES ASSUME Init PROVE OrderInv
    OBVIOUS
  <2>1. TypeOK
    BY TypeInit
  <2>2. stream # "open" /\ view = <<>> /\ seen = {} /\ pc # "loop"
    BY DEF Init
  <2>3. Coming = {}
    BY <2>1, <2>2, ComingOutsideLoop
  <2>4. QED
    BY <2>1, <2>2, <2>3, EmptySeq DEF OrderInv, ComingInv, ViewInv, HitsInv, LeftInv
<1>2. OrderInv /\ TypeOK' /\ [Next]_vars => OrderInv'
  BY OrderStep
<1>3. OrderInv => NewestOnTop
  BY DEF OrderInv, ViewInv, Straight, NewestOnTop
<1>4. QED
  BY <1>1, <1>2, <1>3, TypeCorrect, PTL DEF Spec
=============================================================================
