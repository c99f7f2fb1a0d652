------------------------------- MODULE Dashboard -------------------------------
(***************************************************************************)
(* The live log stream: streamLogs of internal/dashboard, the query it     *)
(* sends to Elasticsearch every two seconds, and the page of web/dashboard *)
(* that shows what the stream sends.                                       *)
(*                                                                         *)
(* The worker adds documents meanwhile, in any order, and a record that is *)
(* redelivered or replayed becomes another document.  Elasticsearch fails, *)
(* connections break and the browser opens new ones.                       *)
(***************************************************************************)
EXTENDS Integers, FiniteSets, SequencesExt

CONSTANTS
  Keys,            \* what tells log records apart: timestamp and raw line
  TimeOf,          \* key -> its @timestamp, in units of the clock
  Second,          \* units of the clock in a second
  Window,          \* how many logs a poll asks for: 25
  Span,            \* how far back a poll looks: ten minutes
  PageLines,       \* lines the page keeps: 100
  MaxTime,         \* bound: how far the model's clock counts
  MaxCopies,       \* bound: documents of one record
  MaxConnections   \* bound: connections the page opens

ASSUME DashboardAssumption ==
  /\ IsFiniteSet(Keys)
  /\ TimeOf \in [Keys -> Nat]
  /\ {Second, Window, Span, PageLines, MaxTime, MaxCopies, MaxConnections} \subseteq Nat \ {0}

VARIABLES
  \* Elasticsearch and the clock
  docs,          \* key -> number of documents a search can see
  now,
  \* the handler of the open connection
  pc,            \* waiting for the ticker or for Elasticsearch, or in the loop
  asked,         \* the time the running query was made for
  hits,          \* the logs of its answer, the loop's range
  i,             \* how many of them the loop still has to look at
  seen,          \* the keys sent on this connection
  \* the page
  stream,        \* its EventSource: none, connecting or open
  view,          \* the lines it shows, the topmost first
  connections,   \* connections opened so far
  \* history, read by properties only
  late,          \* a record became visible after a newer one
  cut            \* an answer ended between two records of the same time

indexVars == <<docs, now, late>>
loopVars == <<hits, i>>
handlerVars == <<pc, asked, loopVars, seen>>
pageVars == <<stream, view, connections>>
vars == <<indexVars, handlerVars, pageVars, cut>>

TypeOK ==
  /\ docs \in [Keys -> 0..MaxCopies]
  /\ now \in 0..MaxTime
  /\ pc \in {"tick", "search", "loop"}
  /\ asked \in 0..now
  /\ pc # "search" => asked = 0
  /\ hits \in Seq(Keys) /\ Len(hits) <= Window
  /\ i \in 0..Len(hits)
  /\ pc # "loop" => hits = <<>>
  /\ seen \subseteq Keys
  /\ stream \in {"none", "connecting", "open"}
  /\ view \in Seq(Keys) /\ Len(view) <= PageLines
  /\ connections \in 0..MaxConnections
  /\ stream = "connecting" => connections < MaxConnections
  /\ late \in BOOLEAN /\ cut \in BOOLEAN
  \* The handler runs only while its connection is there.
  /\ stream # "open" => pc = "tick" /\ seen = {}

Init ==
  /\ docs = [k \in Keys |-> 0] /\ now = 0 /\ late = FALSE
  /\ pc = "tick" /\ asked = 0 /\ hits = <<>> /\ i = 0 /\ seen = {}
  /\ stream = "none" /\ view = <<>> /\ connections = 0 /\ cut = FALSE

-----------------------------------------------------------------------------
(* The worker and the clock. *)

\* A document becomes visible to searches, the first of its record or a copy.
Index(k) ==
  /\ docs[k] < MaxCopies
  /\ docs' = [docs EXCEPT ![k] = @ + 1]
  /\ late' = (late \/ (docs[k] = 0 /\ \E j \in Keys : docs[j] > 0 /\ TimeOf[k] < TimeOf[j]))
  /\ UNCHANGED <<now, handlerVars, pageVars, cut>>

Elapse ==
  /\ now < MaxTime
  /\ now' = now + 1
  /\ UNCHANGED <<docs, late, handlerVars, pageVars, cut>>

-----------------------------------------------------------------------------
(* The query. *)

\* time.RFC3339 has no fraction of a second.
Whole(time) == time - (time % Second)

\* To Elasticsearch an upper bound without a fraction is the end of its second.
SecondEnd(time) == Whole(time) + Second - 1

\* rangeQuery includes both bounds.
InRange(k, time) == Whole(time - Span) <= TimeOf[k] /\ TimeOf[k] <= SecondEnd(time)

Found(time) == [k \in Keys |-> IF InRange(k, time) THEN docs[k] ELSE 0]

\* A document is a key and its number among the documents of that key.
Documents(found) == {d \in Keys \X (1..MaxCopies) : d[2] <= found[d[1]]}

\* Mutant of NotOlder: sorted the other way round.
NotOlderAscending(j, k) == TimeOf[j] <= TimeOf[k]

NotOlder(j, k) == TimeOf[j] >= TimeOf[k]

Copies(k, s) == Cardinality({n \in 1..Len(s) : s[n] = k})

\* The answers: as many documents as were found and asked for, the newest first,
\* and none left out that is newer than the last one.  An index that does not
\* exist (404) is an empty answer.
Answers(time) ==
  LET found == Found(time)
      total == Cardinality(Documents(found))
      size  == IF total < Window THEN total ELSE Window
  IN  {s \in [1..size -> Keys] :
         /\ IsSorted(s, NotOlder)
         /\ \A k \in Keys : Copies(k, s) <= found[k]
         /\ \A k \in Keys : Copies(k, s) < found[k] =>
              \A n \in 1..size : NotOlder(s[n], k)}

-----------------------------------------------------------------------------
(* The handler. *)

\* Mutant of Shown: the page keeps every line.
ShownUncut(lines) == lines

\* prependLog removes lines from the bottom until there are PageLines.
Shown(lines) == IF Len(lines) <= PageLines THEN lines ELSE SubSeq(lines, 1, PageLines)

\* The ticker fires, and the query is made for this moment.
Tick ==
  /\ stream = "open" /\ pc = "tick"
  /\ pc' = "search" /\ asked' = now
  /\ UNCHANGED <<loopVars, seen, indexVars, pageVars, cut>>

\* A record is left out, and one of the same second is not: which of them is up to
\* Elasticsearch, in each answer anew.
CutsTie(answer) ==
  \E j, k \in Keys :
    TimeOf[j] = TimeOf[k] /\ Copies(j, answer) > 0 /\ Copies(k, answer) = 0 /\ Found(asked)[k] > 0

SearchAnswered ==
  /\ pc = "search"
  /\ pc' = "loop" /\ asked' = 0
  /\ UNCHANGED <<seen, indexVars, pageVars>>
  /\ \E answer \in Answers(asked) :
       /\ hits' = answer /\ i' = Len(answer)
       /\ cut' = (cut \/ CutsTie(answer))

\* An error event is written and the loop goes on with the next tick.
SearchFails ==
  /\ pc = "search"
  /\ pc' = "tick" /\ asked' = 0
  /\ UNCHANGED <<loopVars, seen, indexVars, pageVars, cut>>

\* Mutant of Hit: the loop runs from the first hit to the last.
HitFromFirst == hits[Len(hits) + 1 - i]

\* The loop runs from the last hit to the first.
Hit == hits[i]

\* Mutant of IsNew: the key is not looked up.
IsNewAlways == TRUE

IsNew == Hit \notin seen

\* One round of the loop: the page puts each line it is sent on top.  What a broken
\* connection keeps from the page counts as not yet written: it is forgotten with
\* `seen'.
WriteLog ==
  /\ pc = "loop" /\ i > 0
  /\ i' = i - 1
  /\ IF IsNew
     THEN seen' = seen \cup {Hit} /\ view' = Shown(<<Hit>> \o view)
     ELSE UNCHANGED <<seen, view>>
  /\ UNCHANGED <<pc, asked, hits, stream, connections, indexVars, cut>>

\* The loop is done and the lines are flushed.
LoopEnds ==
  /\ pc = "loop" /\ i = 0
  /\ pc' = "tick" /\ hits' = <<>>
  /\ UNCHANGED <<asked, i, seen, indexVars, pageVars, cut>>

-----------------------------------------------------------------------------
(* The page and its connection. *)

\* The real-time page is opened; what it showed before is still there.
StartStream ==
  /\ stream = "none" /\ connections < MaxConnections
  /\ stream' = "connecting"
  /\ UNCHANGED <<view, connections, cut, indexVars, handlerVars>>

\* A handler starts, with an empty `seen' of its own.
Connect ==
  /\ stream = "connecting"
  /\ stream' = "open"
  /\ connections' = connections + 1
  /\ UNCHANGED <<view, cut, indexVars, handlerVars>>

\* The handler's context is done; whatever it still writes reaches nobody.
HandlerEnds ==
  pc' = "tick" /\ asked' = 0 /\ hits' = <<>> /\ i' = 0 /\ seen' = {}

\* The connection breaks, or the dashboard restarts: the browser connects again.
Lose ==
  /\ stream = "open" /\ connections < MaxConnections
  /\ stream' = "connecting"
  /\ HandlerEnds
  /\ UNCHANGED <<view, connections, cut, indexVars>>

\* The user turns to another page.
StopStream ==
  /\ stream # "none"
  /\ stream' = "none"
  /\ HandlerEnds
  /\ UNCHANGED <<view, connections, cut, indexVars>>

StreamLogs == Tick \/ SearchAnswered \/ SearchFails \/ WriteLog \/ LoopEnds

Next ==
  \/ (\E k \in Keys : Index(k)) \/ Elapse
  \/ StreamLogs
  \/ StartStream \/ Connect \/ Lose \/ StopStream

Spec == Init /\ [][Next]_vars

\* The ticker ticks, a search ends within the client's five seconds, an outage of
\* Elasticsearch does not last, and the browser connects.
FairSpec == Spec /\ WF_vars(StreamLogs) /\ SF_vars(SearchAnswered) /\ WF_vars(Connect)

-----------------------------------------------------------------------------
(* What the page shows. *)

\* Polls overlap by almost ten minutes, and a record may have several documents:
\* each is shown at most once for every connection that was opened.
ShownOncePerConnection == \A k \in Keys : Copies(k, view) <= connections

\* requirements/implementation-plan.md:264, "Real-time logs page that streams newest
\* logs as they are processed": on one connection the page is sorted, the newest
\* line on top, unless a record became visible after a newer one, or an answer had
\* to choose between records of the same second.
NewestOnTop ==
  connections <= 1 /\ ~late /\ ~cut =>
    \A m, n \in 1..Len(view) : m < n => TimeOf[view[m]] >= TimeOf[view[n]]

\* k is among the logs a poll returns, whichever way equal times are sorted.
InWindow(k) ==
  /\ docs[k] > 0 /\ InRange(k, now)
  /\ Cardinality({d \in Documents(Found(now)) : d[1] # k /\ TimeOf[d[1]] >= TimeOf[k]}) < Window

\* A record that stays among the newest ones is shown in the end, whatever fails:
\* README.md:262, "watch newly indexed logs stream into the UI".
NewestStreamed ==
  \A k \in Keys : <>[](InWindow(k) /\ stream # "none") => <>(k \in seen)
=============================================================================
