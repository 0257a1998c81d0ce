--------------------------- MODULE CrawlRun_proofs ---------------------------
(***************************************************************************)
(* A crawl, for any worklist, pool, quota and faults: its first ending     *)
(* stands, its counters add up, and what it loses of the reserve is        *)
(* bounded by its pool.                                                    *)
(*                                                                         *)
(* finished is what keeps the loop and the shutdown handler from writing   *)
(* two endings: it is set in the step that starts the first put, so at     *)
(* most one put is ever under way, and none once an ending is durable.  Of *)
(* a process that is gone nothing needs to be said: it writes no more.     *)
(*                                                                         *)
(* What GitHub is asked for is proved about here as well: the pacing of    *)
(* the search client, and the windows a search is cut into.                *)
(***************************************************************************)
EXTENDS CrawlRun, SearchClient, SearchWindows, FiniteSetTheorems, SequenceTheorems, TLAPS

IsEnding(d) == d.outcome \in Endings

(* A put holds an ending, and there is one writer of it.                   *)
OneEnding ==
  /\ \A by, other \in Writers : Put(by) /\ Put(other) => by = other
  /\ \A by \in Writers : Put(by) => finished /\ IsEnding(ending[by]) /\ ~IsEnding(doc)
  /\ ~finished => ~IsEnding(doc)
  /\ phase = "open" => ~finished

EndingInv ==
  /\ finished \in BOOLEAN
  /\ ending = [by \in Writers |-> ending[by]]
  /\ Alive => OneEnding

LEMMA EndingInit == CrawlInit => EndingInv
<1> SUFFICES ASSUME CrawlInit PROVE EndingInv
  OBVIOUS
<1>1. finished = FALSE /\ ending = [by \in Writers |-> NoDoc] /\ doc = NoDoc
  BY DEF CrawlInit
<1>2. ~IsEnding(NoDoc)
  BY DEF IsEnding, NoDoc, Endings
<1>3. \A by \in Writers : ~Put(by)
  BY <1>1 DEF Put
<1> QED
  BY <1>1, <1>2, <1>3 DEF EndingInv, OneEnding

(* The first caller of finishRun is the only one that starts a put.        *)
LEMMA FinishRunOnce ==
  ASSUME EndingInv, Alive, NEW by \in Writers, NEW outcome \in Endings,
         finishRun(by, outcome), phase' # "open"
  PROVE  EndingInv'
<1>1. CASE finished
  BY <1>1 DEF finishRun, EndingInv, OneEnding, Put, IsEnding, Alive
<1>2. CASE ~finished
  <2> DEFINE final == [outcome |-> outcome, counters |-> counters]
  <2>1. ending' = [ending EXCEPT ![by] = final] /\ finished' /\ doc' = doc
    BY <1>2 DEF finishRun
  <2>2. \A w \in Writers : ~Put(w)
    BY <1>2 DEF EndingInv, OneEnding
  <2>3. \A w \in Writers : ending'[w] # NoDoc => w = by /\ ending'[w] = final
    BY <2>1, <2>2 DEF Put, EndingInv
  <2>4. IsEnding(final) /\ ~IsEnding(doc)
    BY <1>2 DEF IsEnding, EndingInv, OneEnding
  <2> QED
    BY <2>1, <2>3, <2>4 DEF EndingInv, OneEnding, Put, IsEnding
<1> QED
  BY <1>1, <1>2 DEF EndingInv

(* A step that writes no document and finishes nothing.                    *)
LEMMA RecordKept ==
  ASSUME EndingInv, UNCHANGED record, phase' = "open" => phase = "open",
         Alive' => Alive
  PROVE  EndingInv'
BY DEF EndingInv, OneEnding, Put, IsEnding, record

LEMMA EndingStep ==
  ASSUME EndingInv, [CrawlNext]_crawling
  PROVE  /\ EndingInv'
         /\ IsEnding(doc) => doc' = doc
<1>1. CASE UNCHANGED crawling
  BY <1>1, RecordKept DEF crawling, record, Alive
<1>2. CASE OpenRun
  BY <1>2 DEF OpenRun, EndingInv, OneEnding, Put, IsEnding, Alive, Endings
<1>3. CASE OpenRunFails \/ Worklist \/ WorklistFails \/ Exit
  BY <1>3, RecordKept DEF OpenRunFails, Worklist, WorklistFails, Exit, record, Alive
<1>4. CASE Complete
  BY <1>4, FinishRunOnce DEF Complete, Writers, Endings, Alive, finishRun
<1>5. CASE Abort
  BY <1>5, FinishRunOnce DEF Abort, Writers, Endings, Alive, finishRun
<1>6. ASSUME NEW by \in Writers, Lands(by)
      PROVE  EndingInv' /\ (IsEnding(doc) => doc' = doc)
  BY <1>6 DEF Lands, EndingInv, OneEnding, Put, IsEnding, Alive
<1>7. ASSUME NEW by \in Writers, LandsNot(by)
      PROVE  EndingInv' /\ (IsEnding(doc) => doc' = doc)
  BY <1>7 DEF LandsNot, EndingInv, OneEnding, Put, IsEnding, Alive
<1>8. ASSUME NEW i \in List, Fetch(i)
      PROVE  EndingInv' /\ (IsEnding(doc) => doc' = doc)
  <2>1. UNCHANGED record /\ phase' = phase
    BY <1>8 DEF Fetch, Begin, Served, Serve, NotFound, NotModified, Refused, FetchFails, Report
  <2> QED
    BY <2>1, RecordKept DEF record, Alive
<1>9. CASE NewHour
  BY <1>9, RecordKept DEF NewHour, record, Alive
<1>10. ASSUME Alive, CutShort
       PROVE  EndingInv' /\ (IsEnding(doc) => doc' = doc)
  BY <1>10 DEF CutShort, EndingInv, OneEnding, Put, IsEnding, Alive
<1>11. CASE Signal
  <2>1. CASE finished
    BY <1>10, <1>11, <2>1 DEF Signal
  <2>2. CASE ~finished
    BY <1>11, <2>2, FinishRunOnce DEF Signal, Writers, Endings, finishRun
  <2> QED
    BY <2>1, <2>2
<1>12. CASE Kill
  BY <1>10, <1>12 DEF Kill
<1> QED
  BY <1>1, <1>2, <1>3, <1>4, <1>5, <1>6, <1>7, <1>8, <1>9, <1>11, <1>12
     DEF CrawlNext, Run

(* No ending a run has recorded is replaced by another, although the loop  *)
(* goes on while the shutdown handler writes its own (store.ts:61-65).     *)
THEOREM EndingsStand == CrawlSpec => FirstEndingStands
<1>1. EndingInv /\ [CrawlNext]_crawling => [IsEnding(doc) => doc' = doc]_doc
  BY EndingStep
<1>2. EndingInv /\ [CrawlNext]_crawling => EndingInv'
  BY EndingStep
<1>3. [IsEnding(doc) => doc' = doc]_doc => [doc.outcome \in Endings => doc' = doc]_doc
  BY DEF IsEnding
<1> QED
  BY <1>1, <1>2, <1>3, EndingInit, PTL DEF CrawlSpec, FirstEndingStands

-----------------------------------------------------------------------------
(***************************************************************************)
(* The counters of the run.  A repository is counted as seen when it       *)
(* begins and as settled when its fetch has a result, and is in the pool   *)
(* between the two.                                                        *)
(***************************************************************************)
Busy == {i \in List : task[i].at \in {"ask", "answered"}}
Begun == {i \in List : task[i].at # "queued"}

CountInv ==
  /\ counters.repos_seen = counters.repos_settled + Cardinality(Busy)
  /\ Cardinality(Active) <= PoolSize
  /\ counters.repos_seen <= Cardinality(Begun)
  /\ IF stopped THEN counters.rate_limited = 1
     ELSE counters.rate_limited = 0 /\ counters.repos_seen = Cardinality(Begun)
  /\ phase \in {"open", "worklist", "failed"} => Begun = {} /\ ~stopped

(* What a document says, in the store or on its way there.                 *)
AddsUp(d) ==
  d # NoDoc =>
     LET c == d.counters
     IN CASE d.outcome = "complete" ->
              c.repos_settled = c.repos_seen /\ (c.repos_seen = Items \/ c.rate_limited = 1)
         [] d.outcome = "interrupted" -> c.repos_seen - c.repos_settled \in 0..PoolSize
         [] OTHER -> c = emptyCounters

DocsInv == AddsUp(doc) /\ \A by \in Writers : AddsUp(ending[by])

(* Answers whose point the governor has not heard of, of the reserve; and  *)
(* answers that would let the crawl go on, if they were the last.          *)
Counted == {i \in List : task[i].at = "answered" /\ task[i].hour = github.hour
                         /\ task[i].left < Reserve}
Stale == {i \in List : task[i].at = "answered"
                       /\ ~(task[i].hour = github.hour /\ task[i].left <= Reserve)}

PointsInv ==
  /\ \A i \in List : task[i].asked < Requests /\ task[i].hour <= github.hour
  /\ over + github.left <= Budget
  /\ Cardinality(Counted) <= over
  /\ github.left >= Reserve => over = 0

RunInv == CrawlTypeOK /\ CountInv /\ DocsInv /\ PointsInv

LEMMA ListSize == IsFiniteSet(List) /\ Cardinality(List) = Items
BY RunAssumption, FS_Interval DEF List

LEMMA CountersAre ==
  Counters = [repos_seen : 0..Items, repos_settled : 0..Items, rate_limited : 0..Items]
BY DEF Counters, emptyCounters

(* One member more, or one less.                                           *)
LEMMA OneMore ==
  ASSUME NEW S \in SUBSET List, NEW i \in List, i \notin S
  PROVE  Cardinality(S \cup {i}) = Cardinality(S) + 1 /\ Cardinality(S) \in 0..Items - 1
<1>1. IsFiniteSet(S) /\ Cardinality(S) <= Items /\ Cardinality(S) \in Nat
  BY ListSize, FS_Subset, FS_CardinalityType
<1>2. Cardinality(S \cup {i}) = Cardinality(S) + 1
  BY <1>1, FS_AddElement
<1>3. Cardinality(S \cup {i}) <= Items
  BY ListSize, FS_Subset, S \cup {i} \subseteq List
<1> QED
  BY <1>1, <1>2, <1>3, RunAssumption

LEMMA OneLess ==
  ASSUME NEW S \in SUBSET List, NEW i \in S
  PROVE  Cardinality(S \ {i}) = Cardinality(S) - 1 /\ Cardinality(S) \in 1..Items
<1> DEFINE rest == S \ {i}
<1>1. Cardinality(rest \cup {i}) = Cardinality(rest) + 1 /\ Cardinality(rest) \in 0..Items - 1
  BY OneMore
<1>2. rest \cup {i} = S
  OBVIOUS
<1> HIDE DEF rest
<1>3. Cardinality(S) = Cardinality(rest) + 1
  BY <1>1, <1>2
<1>4. Cardinality(S) - 1 = Cardinality(rest) /\ Cardinality(S) \in 1..Items
  BY <1>1, <1>3, RunAssumption
<1> QED
  BY <1>4 DEF rest

LEMMA SizeIsNat ==
  ASSUME NEW S \in SUBSET List
  PROVE  Cardinality(S) \in 0..Items /\ (Cardinality(S) = 0 <=> S = {})
BY ListSize, FS_Subset, FS_CardinalityType, FS_EmptySet, RunAssumption

TaskType == [at : {"queued", "ask", "answered", "report", "over"},
             asked : 0..Requests, attempt : 0..Attempts,
             left : 0..Budget, hour : 0..MaxHour]

(* What a fetch step does to its item, and to the sets the item is in.     *)
Turns(i, t) == task' = [task EXCEPT ![i] = t]

LEMMA Turned ==
  ASSUME CrawlTypeOK, NEW i \in List, NEW t \in TaskType, Turns(i, t)
  PROVE  /\ task' \in [List -> TaskType] /\ task'[i] = t
         /\ \A j \in List \ {i} : task'[j] = task[j]
         /\ Busy' = IF t.at \in {"ask", "answered"} THEN Busy \cup {i} ELSE Busy \ {i}
         /\ Active' = IF t.at \in {"ask", "answered", "report"} THEN Active \cup {i}
                      ELSE Active \ {i}
         /\ Begun' = IF t.at # "queued" THEN Begun \cup {i} ELSE Begun \ {i}
<1>1. /\ task' \in [List -> TaskType] /\ task'[i] = t
      /\ \A j \in List \ {i} : task'[j] = task[j]
  BY DEF CrawlTypeOK, TaskType, Turns
<1>2. Busy' = IF t.at \in {"ask", "answered"} THEN Busy \cup {i} ELSE Busy \ {i}
  BY <1>1 DEF Busy
<1>3. Active' = IF t.at \in {"ask", "answered", "report"} THEN Active \cup {i}
                ELSE Active \ {i}
  BY <1>1 DEF Active
<1>4. Begun' = IF t.at # "queued" THEN Begun \cup {i} ELSE Begun \ {i}
  BY <1>1 DEF Begun
<1> QED
  BY <1>1, <1>2, <1>3, <1>4

FreshAs(at, asked) == [at |-> at, asked |-> asked, attempt |-> 0, left |-> 0, hour |-> 0]

LEMMA FreshType ==
  ASSUME NEW at \in {"queued", "ask", "answered", "report", "over"}, NEW asked \in 0..Requests
  PROVE  /\ FreshAs(at, asked) \in TaskType
         /\ FreshAs(at, asked).at = at /\ FreshAs(at, asked).asked = asked
         /\ FreshAs(at, asked).hour = 0
<1>1. {Items, PoolSize, Requests, Budget, MaxHour, Attempts, Reserve, MaxFaults} \subseteq Nat
      /\ Requests > 0 /\ PoolSize > 0 /\ Items > 0
  BY RunAssumption
<1>2. 0 \in 0..Requests /\ 0 \in 0..Attempts /\ 0 \in 0..Budget /\ 0 \in 0..MaxHour
  BY <1>1
<1> QED
  BY <1>2 DEF TaskType, Fresh, FreshAs

LEMMA SettleTurns ==
  ASSUME NEW i, NEW at, Settle(i, at)
  PROVE  Turns(i, FreshAs(at, 0))
<1>1. [Fresh EXCEPT !.at = at] = FreshAs(at, 0)
  BY DEF Fresh, FreshAs
<1> QED
  BY <1>1 DEF Settle, Turns

(* The counters stay within the worklist.                                  *)
LEMMA CountersWithin ==
  ASSUME counters' = [counters EXCEPT !.repos_seen = counters'.repos_seen,
                                      !.repos_settled = counters'.repos_settled,
                                      !.rate_limited = counters'.rate_limited],
         CrawlTypeOK, counters'.repos_seen \in Int, counters'.repos_settled \in Nat,
         CountInv'
  PROVE  counters' \in Counters
<1>1. Cardinality(Busy)' \in 0..Items /\ Cardinality(Begun)' \in 0..Items
  BY SizeIsNat DEF Busy, Begun
<1>2. /\ counters'.repos_seen \in 0..Items /\ counters'.repos_settled \in 0..Items
      /\ counters'.rate_limited \in 0..Items
  BY <1>1, RunAssumption DEF CountInv
<1> QED
  BY <1>2, CountersAre DEF CrawlTypeOK

(* A repository that begins.                                               *)
LEMMA BeginCounts ==
  ASSUME RunInv, NEW i \in List, Begin(i)
  PROVE  CountInv' /\ counters' \in Counters
<1>1. PICK at \in {"over", "ask"} :
        Turns(i, [task[i] EXCEPT !.at = at]) /\ at = IF stopped' THEN "over" ELSE "ask"
  BY DEF Begin, Turns
<1> DEFINE t == [task[i] EXCEPT !.at = at]
<1>2. t \in TaskType /\ t.at = at
  BY DEF RunInv, CrawlTypeOK, TaskType
<1>3. /\ Busy' = IF at = "ask" THEN Busy \cup {i} ELSE Busy \ {i}
      /\ Active' = IF at = "ask" THEN Active \cup {i} ELSE Active \ {i}
      /\ Begun' = Begun \cup {i}
  BY <1>1, <1>2, Turned DEF RunInv
<1>4. i \notin Busy /\ i \notin Active /\ i \notin Begun /\ phase = "crawl" /\ phase' = phase
      /\ Cardinality(Active) < PoolSize
  BY DEF Begin, MayBegin, Busy, Active, Begun
<1>5. /\ Cardinality(Begun') = Cardinality(Begun) + 1
      /\ Cardinality(Busy \cup {i}) = Cardinality(Busy) + 1
      /\ Cardinality(Active \cup {i}) = Cardinality(Active) + 1
      /\ {Cardinality(Begun), Cardinality(Busy), Cardinality(Active)} \subseteq 0..Items
  BY <1>3, <1>4, OneMore, SizeIsNat DEF Busy, Active, Begun
<1>6. /\ counters.repos_seen \in 0..Items /\ counters.repos_settled \in 0..Items
      /\ counters.rate_limited \in 0..Items /\ CountInv
  BY CountersAre DEF RunInv, CrawlTypeOK
<1>7. /\ counters'.repos_seen = IF stopped' THEN counters.repos_seen
                                ELSE counters.repos_seen + 1
      /\ counters'.repos_settled = counters.repos_settled
      /\ counters'.rate_limited = IF stopped' /\ ~stopped THEN counters.rate_limited + 1
                                  ELSE counters.rate_limited
      /\ counters' = [counters EXCEPT !.repos_seen = counters'.repos_seen,
                                      !.repos_settled = counters'.repos_settled,
                                      !.rate_limited = counters'.rate_limited]
      /\ stopped => stopped'
  BY CountersAre DEF Begin, RunInv, CrawlTypeOK
<1>8. Cardinality(Busy') = (IF at = "ask" THEN Cardinality(Busy) + 1 ELSE Cardinality(Busy))
      /\ Cardinality(Active') <= PoolSize
  <2>1. at # "ask" => Busy' = Busy /\ Active' = Active
    BY <1>3, <1>4
  <2> QED
    BY <2>1, <1>3, <1>4, <1>5, RunAssumption
<1>9. CountInv'
  BY <1>1, <1>4, <1>5, <1>6, <1>7, <1>8 DEF CountInv
<1> QED
  BY <1>6, <1>7, <1>9, CountersWithin DEF RunInv

(* A repository whose fetch has a result.                                  *)
LEMMA SettleCounts ==
  ASSUME RunInv, NEW i \in Busy, NEW at \in {"over", "report"}, Settle(i, at),
         UNCHANGED <<phase, stopped>>
  PROVE  CountInv' /\ counters' \in Counters /\ Turns(i, FreshAs(at, 0))
<1> DEFINE t == FreshAs(at, 0)
<1>1. i \in List /\ i \in Busy /\ i \in Active /\ i \in Begun
  BY DEF Busy, Active, Begun
<1>2. t \in TaskType /\ t.at = at /\ Turns(i, t)
  <2>1. 0 \in 0..Requests
    BY RunAssumption
  <2> QED
    BY <2>1, FreshType, SettleTurns
<1>3. /\ Busy' = Busy \ {i} /\ Begun' = Begun
      /\ Active' = Active \/ Active' = Active \ {i}
  <2> HIDE DEF t
  <2>1. /\ Busy' = IF t.at \in {"ask", "answered"} THEN Busy \cup {i} ELSE Busy \ {i}
        /\ Active' = IF t.at \in {"ask", "answered", "report"} THEN Active \cup {i}
                     ELSE Active \ {i}
        /\ Begun' = IF t.at # "queued" THEN Begun \cup {i} ELSE Begun \ {i}
    BY <1>1, <1>2, Turned DEF RunInv
  <2> QED
    BY <1>1, <1>2, <2>1
<1>4. /\ Cardinality(Busy') = Cardinality(Busy) - 1 /\ Cardinality(Busy) \in 1..Items
      /\ Cardinality(Begun) \in 0..Items
  BY <1>1, <1>3, OneLess, SizeIsNat DEF Busy, Begun
<1>5. Cardinality(Active') <= PoolSize
  <2>1. Cardinality(Active) \in 1..Items /\ Cardinality(Active \ {i}) = Cardinality(Active) - 1
    BY <1>1, OneLess DEF Active
  <2> QED
    BY <2>1, <1>3, RunAssumption DEF RunInv, CountInv
<1>6. /\ counters.repos_seen \in 0..Items /\ counters.repos_settled \in 0..Items
      /\ counters.rate_limited \in 0..Items /\ CountInv
  BY CountersAre DEF RunInv, CrawlTypeOK
<1>7. /\ counters'.repos_seen = counters.repos_seen
      /\ counters'.repos_settled = counters.repos_settled + 1
      /\ counters'.rate_limited = counters.rate_limited
      /\ counters' = [counters EXCEPT !.repos_seen = counters'.repos_seen,
                                      !.repos_settled = counters'.repos_settled,
                                      !.rate_limited = counters'.rate_limited]
  BY CountersAre DEF Settle, RunInv, CrawlTypeOK
<1>8. CountInv'
  BY <1>3, <1>4, <1>5, <1>6, <1>7 DEF CountInv
<1> QED
  BY <1>2, <1>6, <1>7, <1>8, CountersWithin DEF RunInv

(* A repository that stays in the pool, or leaves it when it was counted.  *)
LEMMA KeepsCounts ==
  ASSUME RunInv, NEW i \in List, NEW t \in TaskType, Turns(i, t),
         \/ task[i].at \in {"ask", "answered"} /\ t.at \in {"ask", "answered"}
         \/ task[i].at = "report" /\ t.at = "over",
         UNCHANGED <<phase, stopped, counters>>
  PROVE  CountInv'
<1>1. Busy' = Busy /\ Begun' = Begun
  BY Turned DEF RunInv, Busy, Begun
<1>2. Active' = Active \/ (i \in Active /\ Active' = Active \ {i})
  BY Turned DEF RunInv, Active
<1>3. Cardinality(Active') <= PoolSize
  <2>1. CASE Active' = Active
    BY <2>1 DEF RunInv, CountInv
  <2>2. CASE i \in Active /\ Active' = Active \ {i}
    <3>1. Cardinality(Active \ {i}) = Cardinality(Active) - 1 /\ Cardinality(Active) \in 1..Items
      BY <2>2, OneLess DEF Active
    <3> QED
      BY <2>2, <3>1, RunAssumption DEF RunInv, CountInv
  <2> QED
    BY <1>2, <2>1, <2>2
<1> QED
  BY <1>1, <1>3 DEF RunInv, CountInv

(* The next request, or the result after the last.                         *)
LEMMA ProceedCounts ==
  ASSUME RunInv, NEW i \in Busy, Proceed(i), UNCHANGED <<phase, stopped>>
  PROVE  /\ CountInv' /\ counters' \in Counters
         /\ \E t \in TaskType :
              /\ Turns(i, t) /\ t.asked < Requests /\ t.hour = 0
              /\ t.at = "over" \/ (t.at = "ask" /\ t.asked = task[i].asked + 1)
<1>1. i \in List /\ task[i].at \in {"ask", "answered"} /\ task[i].asked < Requests
      /\ task[i].asked \in 0..Requests /\ Requests \in Nat \ {0}
  BY RunAssumption DEF RunInv, CrawlTypeOK, PointsInv, Busy
<1>2. CASE task[i].asked + 1 = Requests
  <2>1. Settle(i, "over")
    BY <1>2 DEF Proceed
  <2>2. CountInv' /\ counters' \in Counters /\ Turns(i, FreshAs("over", 0))
    BY <2>1, SettleCounts
  <2> DEFINE t == FreshAs("over", 0)
  <2>3. t \in TaskType /\ t.at = "over" /\ t.asked < Requests /\ t.hour = 0
    BY <1>1, FreshType
  <2> HIDE DEF t
  <2> QED
    BY <2>2, <2>3 DEF t
<1>3. CASE task[i].asked + 1 # Requests
  <2> DEFINE t == FreshAs("ask", task[i].asked + 1)
  <2>1. Turns(i, t) /\ UNCHANGED counters
    BY <1>3 DEF Proceed, Turns, Fresh, FreshAs
  <2>2. task[i].asked + 1 \in 0..Requests /\ task[i].asked + 1 < Requests
    BY <1>1, <1>3
  <2>3. t \in TaskType /\ t.at = "ask" /\ t.asked = task[i].asked + 1 /\ t.hour = 0
    BY <2>2, FreshType
  <2> HIDE DEF t
  <2>4. CountInv'
    BY <1>1, <2>1, <2>3, KeepsCounts
  <2> QED
    BY <2>1, <2>2, <2>3, <2>4 DEF RunInv, CrawlTypeOK
<1> QED
  BY <1>2, <1>3

(* What an item is after a fetch step: it has not asked all its requests,  *)
(* and an answer is what moves it to the next.                             *)
Follows(i, t) ==
  /\ t.asked < Requests /\ t.hour \in {0, task[i].hour, github.hour}
  /\ t.at = "answered" => Serve(i)
  /\ i \in Busy /\ t.at \in {"ask", "answered"} =>
       t.asked = IF task[i].at = "answered" THEN task[i].asked + 1 ELSE task[i].asked

LEMMA FetchCounts ==
  ASSUME RunInv, NEW i \in List, Fetch(i)
  PROVE  /\ CountInv' /\ counters' \in Counters
         /\ \E t \in TaskType : Turns(i, t) /\ Follows(i, t)
<1> DEFINE Goal == /\ CountInv' /\ counters' \in Counters
                   /\ \E t \in TaskType : Turns(i, t) /\ Follows(i, t)
<1>1. task[i] \in TaskType /\ task[i].asked < Requests /\ Requests \in Nat \ {0}
      /\ counters \in Counters
  BY RunAssumption DEF RunInv, CrawlTypeOK, PointsInv, TaskType
<1>0. ASSUME NEW t \in TaskType, Turns(i, t), Follows(i, t), CountInv', counters' \in Counters
      PROVE  Goal
  BY <1>0
<1> SUFFICES Goal
  OBVIOUS
<1> HIDE DEF Goal
<1>2. ASSUME NEW at \in {"over", "report"}, Settle(i, at), i \in Busy, UNCHANGED <<phase, stopped>>
      PROVE  Goal
  <2>1. CountInv' /\ counters' \in Counters /\ Turns(i, FreshAs(at, 0))
    BY <1>2, SettleCounts
  <2> DEFINE t == FreshAs(at, 0)
  <2>2. t \in TaskType /\ Follows(i, t)
    BY <1>1, FreshType DEF Follows
  <2> HIDE DEF t
  <2> QED
    BY <1>0, <2>1, <2>2 DEF t
<1>3. ASSUME task[i].at = "answered", Proceed(i), i \in Busy, UNCHANGED <<phase, stopped>>
      PROVE  Goal
  BY <1>3, ProceedCounts DEF Goal, Follows
<1>4. CASE Begin(i)
  <2>1. PICK at \in {"over", "ask"} : Turns(i, [task[i] EXCEPT !.at = at])
    BY <1>4 DEF Begin, Turns
  <2>2. [task[i] EXCEPT !.at = at] \in TaskType /\ [task[i] EXCEPT !.at = at].at = at
        /\ Follows(i, [task[i] EXCEPT !.at = at])
    BY <1>1, <1>4 DEF TaskType, Follows, Begin, MayBegin, Busy
  <2>3. CountInv' /\ counters' \in Counters
    BY <1>4, BeginCounts
  <2> QED
    BY <1>0, <1>1, <2>1, <2>2, <2>3
<1>5. CASE Serve(i)
  <2> DEFINE t == [task[i] EXCEPT !.at = "answered", !.left = github.left - 1,
                                  !.hour = github.hour]
  <2>1. github.left \in 0..Budget /\ github.left - 1 \in 0..Budget /\ github.hour \in 0..MaxHour
    BY <1>5, RunAssumption DEF Serve, RunInv, CrawlTypeOK
  <2>2. t \in TaskType /\ t.at = "answered" /\ t.asked = task[i].asked /\ t.hour = github.hour
    BY <1>1, <2>1 DEF TaskType
  <2>3. Turns(i, t) /\ task[i].at = "ask" /\ UNCHANGED <<phase, counters, stopped>>
    BY <1>5 DEF Serve, Turns, RunInv, CrawlTypeOK
  <2> HIDE DEF t
  <2>4. CountInv'
    BY <2>2, <2>3, KeepsCounts
  <2>5. Follows(i, t)
    BY <1>1, <1>5, <2>2, <2>3 DEF Follows
  <2> QED
    BY <1>0, <1>1, <2>2, <2>3, <2>4, <2>5
<1>6. CASE Served(i)
  BY <1>2, <1>3, <1>6 DEF Served, Busy
<1>7. CASE NotFound(i)
  BY <1>2, <1>3, <1>7 DEF NotFound, Busy
<1>8. CASE NotModified(i)
  BY <1>2, <1>8 DEF NotModified, Busy
<1>9. CASE FetchFails(i)
  BY <1>2, <1>9 DEF FetchFails, Busy
<1>10. CASE Refused(i)
  <2> DEFINE t == [task[i] EXCEPT !.attempt = @ + 1]
  <2>1. task[i].attempt + 1 \in 0..Attempts /\ task[i].at = "ask"
        /\ UNCHANGED <<phase, counters, stopped>>
    BY <1>1, <1>10, RunAssumption DEF Refused, TaskType
  <2>2. Turns(i, t) /\ t \in TaskType /\ t.at = "ask" /\ t.asked = task[i].asked
        /\ t.hour = task[i].hour
    BY <1>1, <1>10, <2>1 DEF Refused, Turns, TaskType, RunInv, CrawlTypeOK
  <2> HIDE DEF t
  <2>3. CountInv'
    BY <2>1, <2>2, KeepsCounts
  <2>4. Follows(i, t)
    BY <1>1, <2>1, <2>2 DEF Follows
  <2> QED
    BY <1>0, <1>1, <2>1, <2>2, <2>3, <2>4
<1>11. CASE Report(i)
  <2> DEFINE t == [task[i] EXCEPT !.at = "over"]
  <2>1. Turns(i, t) /\ t \in TaskType /\ t.at = "over" /\ t.asked = task[i].asked
        /\ t.hour = task[i].hour
        /\ task[i].at = "report" /\ UNCHANGED <<phase, counters, stopped>>
    BY <1>1, <1>11 DEF Report, Turns, TaskType
  <2> HIDE DEF t
  <2>2. CountInv'
    BY <2>1, KeepsCounts
  <2>3. Follows(i, t)
    BY <1>1, <2>1 DEF Follows
  <2> QED
    BY <1>0, <1>1, <2>1, <2>2, <2>3
<1> QED
  BY <1>4, <1>5, <1>6, <1>7, <1>8, <1>9, <1>10, <1>11 DEF Fetch, Goal

-----------------------------------------------------------------------------
(***************************************************************************)
(* The points of the reserve.                                              *)
(***************************************************************************)

(* What a fetch step does to them: nothing, as long as no answer is heard; *)
(* an answer that is heard, or one that is not; or a point that is served. *)
PointsKept(i) == task[i].at # "answered" /\ UNCHANGED <<over, governor>>
PointHeard(i) ==
  /\ task[i].at = "answered" /\ UNCHANGED over
  /\ governor' = [left |-> task[i].left, hour |-> task[i].hour]
PointMissed(i) == task[i].at = "answered" /\ Unheard(i) /\ UNCHANGED governor

LEMMA FetchPointKinds ==
  ASSUME NEW i \in List, Fetch(i), ~Serve(i)
  PROVE  UNCHANGED github /\ (PointsKept(i) \/ PointHeard(i) \/ PointMissed(i))
<1>1. CASE Begin(i)
  BY <1>1 DEF Begin, MayBegin, PointsKept, PointHeard
<1>2. CASE Served(i)
  BY <1>2 DEF Served, PointHeard
<1>3. CASE NotFound(i)
  BY <1>3 DEF NotFound, PointMissed
<1>4. CASE NotModified(i) \/ Refused(i) \/ Report(i)
  BY <1>4 DEF NotModified, Refused, Report, PointsKept, PointHeard
<1>5. CASE FetchFails(i)
  BY <1>5 DEF FetchFails, PointsKept, PointHeard, PointMissed
<1> QED
  BY <1>1, <1>2, <1>3, <1>4, <1>5 DEF Fetch

LEMMA NotServed ==
  ASSUME RunInv, NEW i \in List, NEW t \in TaskType, Turns(i, t), t.at # "answered",
         UNCHANGED github
  PROVE  Counted' = Counted \ {i} /\ Stale' = Stale \ {i}
<1>1. task'[i] = t /\ \A j \in List \ {i} : task'[j] = task[j]
  BY Turned DEF RunInv
<1> QED
  BY <1>1 DEF Counted, Stale

LEMMA WhenServed ==
  ASSUME RunInv, NEW i \in List, NEW t \in TaskType, Turns(i, t), Serve(i)
  PROVE  /\ github.left \in 1..Budget /\ github'.left = github.left - 1
         /\ github'.hour = github.hour /\ github.hour \in 0..MaxHour
         /\ github' \in [left : 0..Budget, hour : 0..MaxHour]
         /\ task[i].at = "ask"
         /\ Counted' = IF github.left <= Reserve THEN Counted \cup {i} ELSE Counted
         /\ Stale' = IF github.left - 1 <= Reserve THEN Stale ELSE Stale \cup {i}
         /\ i \notin Counted /\ i \notin Stale
<1>1. /\ github.left \in 1..Budget /\ github'.left = github.left - 1
      /\ github'.hour = github.hour /\ github.hour \in 0..MaxHour
      /\ github' \in [left : 0..Budget, hour : 0..MaxHour]
      /\ Reserve \in Nat /\ Budget \in Nat
  BY RunAssumption DEF Serve, RunInv, CrawlTypeOK
<1>2. task'[i] = t /\ \A j \in List \ {i} : task'[j] = task[j]
  BY Turned DEF RunInv
<1>3. t.at = "answered" /\ t.left = github.left - 1 /\ t.hour = github.hour /\ task[i].at = "ask"
  <2>1. task'[i] = [task[i] EXCEPT !.at = "answered", !.left = github.left - 1,
                                   !.hour = github.hour]
    BY DEF Serve, RunInv, CrawlTypeOK
  <2>2. task[i] \in TaskType
    BY DEF RunInv, CrawlTypeOK, TaskType
  <2> QED
    BY <1>2, <2>1, <2>2 DEF TaskType, Serve
<1>4. (t.left < Reserve <=> github.left <= Reserve) /\ i \notin Counted /\ i \notin Stale
  BY <1>1, <1>3 DEF Counted, Stale
<1>5. Counted' = IF github.left <= Reserve THEN Counted \cup {i} ELSE Counted
  BY <1>1, <1>2, <1>3, <1>4 DEF Counted
<1>6. Stale' = IF github.left - 1 <= Reserve THEN Stale ELSE Stale \cup {i}
  BY <1>1, <1>2, <1>3, <1>4 DEF Stale
<1> QED
  BY <1>1, <1>3, <1>4, <1>5, <1>6

(* Points are taken one at a time, and an answer was served before it is   *)
(* lost.                                                                   *)
LEMMA FetchPoints ==
  ASSUME RunInv, NEW i \in List, Fetch(i)
  PROVE  /\ PointsInv' /\ over' \in 0..Budget
         /\ {governor', github'} \subseteq [left : 0..Budget, hour : 0..MaxHour]
<1>1. PICK t \in TaskType : Turns(i, t) /\ Follows(i, t)
  BY FetchCounts
<1>2. \A j \in List : task'[j].asked < Requests /\ task'[j].hour <= github'.hour
  <2>1. task'[i] = t /\ \A j \in List \ {i} : task'[j] = task[j]
    BY <1>1, Turned DEF RunInv
  <2>2. github'.hour = github.hour
    BY <1>1, FetchPointKinds, WhenServed
  <2>3. github.hour \in 0..MaxHour
    BY DEF RunInv, CrawlTypeOK
  <2>4. t.hour <= github.hour /\ t.asked < Requests
    BY <1>1, <2>3, RunAssumption DEF RunInv, PointsInv, Follows
  <2> QED
    BY <2>1, <2>2, <2>4 DEF RunInv, PointsInv
<1>3. /\ over + github.left <= Budget /\ Cardinality(Counted) <= over
      /\ github.left >= Reserve => over = 0
      /\ over \in 0..Budget /\ github.left \in 0..Budget
      /\ Cardinality(Counted) \in 0..Items
      /\ Budget \in Nat /\ Reserve \in Nat /\ Items \in Nat
      /\ {governor, github} \subseteq [left : 0..Budget, hour : 0..MaxHour]
      /\ task[i] \in TaskType
  BY SizeIsNat, RunAssumption DEF RunInv, CrawlTypeOK, PointsInv, Counted, TaskType
<1>4. CASE Serve(i)
  <2>1. /\ github.left \in 1..Budget /\ github'.left = github.left - 1
        /\ github' \in [left : 0..Budget, hour : 0..MaxHour]
        /\ Counted' = IF github.left <= Reserve THEN Counted \cup {i} ELSE Counted
        /\ i \notin Counted
    BY <1>1, <1>4, WhenServed
  <2>2. Cardinality(Counted \cup {i}) = Cardinality(Counted) + 1
    BY <2>1, OneMore DEF Counted
  <2>3. over' = (IF github.left <= Reserve THEN over + 1 ELSE over) /\ governor' = governor
    BY <1>4 DEF Serve
  <2>4. Cardinality(Counted') <= over'
    BY <1>3, <2>1, <2>2, <2>3
  <2>5. over' + github'.left <= Budget /\ over' \in 0..Budget
    BY <1>3, <2>1, <2>3
  <2>6. github'.left >= Reserve => over' = 0
    BY <1>3, <2>1, <2>3
  <2> QED
    BY <1>2, <1>3, <2>1, <2>3, <2>4, <2>5, <2>6 DEF PointsInv
<1>5. CASE ~Serve(i)
  <2>1. UNCHANGED github /\ (PointsKept(i) \/ PointHeard(i) \/ PointMissed(i))
    BY <1>5, FetchPointKinds
  <2>2. Counted' = Counted \ {i}
    BY <1>1, <1>5, <2>1, NotServed DEF Follows
  <2>3. i \in Counted => Cardinality(Counted \ {i}) = Cardinality(Counted) - 1
                         /\ Cardinality(Counted) \in 1..Items
    BY OneLess DEF Counted
  <2>4. i \notin Counted => Counted' = Counted
    BY <2>2
  <2>5. over' = over \/ (i \in Counted /\ over' = over - 1)
    BY <2>1 DEF PointsKept, PointHeard, PointMissed, Unheard, Counted
  <2>6. governor' \in [left : 0..Budget, hour : 0..MaxHour]
    BY <1>3, <2>1 DEF PointsKept, PointHeard, PointMissed, TaskType
  <2>7. Cardinality(Counted') <= over' /\ over' \in 0..Budget
        /\ over' + github.left <= Budget /\ (github.left >= Reserve => over' = 0)
    <3>1. CASE i \in Counted
      BY <1>3, <2>2, <2>3, <2>5, <3>1
    <3>2. CASE i \notin Counted
      BY <1>3, <2>4, <2>5, <3>2
    <3> QED
      BY <3>1, <3>2
  <2> QED
    BY <1>2, <1>3, <2>1, <2>6, <2>7 DEF PointsInv
<1> QED
  BY <1>4, <1>5

-----------------------------------------------------------------------------
(***************************************************************************)
(* The steps of the run.                                                   *)
(***************************************************************************)
LEMMA FetchKeeps ==
  ASSUME RunInv, NEW i \in List, Fetch(i)
  PROVE  RunInv'
<1>1. CountInv' /\ counters' \in Counters
  BY FetchCounts
<1>2. task' \in [List -> TaskType]
  <2>1. PICK t \in TaskType : Turns(i, t)
    BY FetchCounts
  <2> QED
    BY <2>1, Turned DEF RunInv
<1>3. /\ PointsInv' /\ over' \in 0..Budget
      /\ {governor', github'} \subseteq [left : 0..Budget, hour : 0..MaxHour]
  BY FetchPoints
<1>4. UNCHANGED <<phase, record, handler>> /\ stopped' \in BOOLEAN
      /\ (UNCHANGED faults \/ Fault)
  BY DEF Fetch, Begin, Serve, Served, NotFound, NotModified, Refused, FetchFails, Report,
         RunInv, CrawlTypeOK
<1>5. faults' \in 0..MaxFaults
  BY <1>4, RunAssumption DEF Fault, RunInv, CrawlTypeOK
<1>6. DocsInv'
  BY <1>4 DEF RunInv, DocsInv, AddsUp, record
<1> QED
  BY <1>1, <1>2, <1>3, <1>4, <1>5, <1>6 DEF RunInv, CrawlTypeOK, TaskType, record

(* A step that leaves the fetches alone.                                   *)
LEMMA FetchingKept ==
  ASSUME RunInv, UNCHANGED fetching,
         phase' \in {"open", "worklist", "failed"} => phase \in {"open", "worklist", "failed"}
  PROVE  CountInv' /\ PointsInv'
BY DEF RunInv, CountInv, PointsInv, Busy, Begun, Active, Counted, fetching

LEMMA NothingCounted ==
  ASSUME RunInv, phase \in {"open", "worklist", "failed"}
  PROVE  counters = emptyCounters
<1>1. Begun = {} /\ Busy = {} /\ ~stopped
  BY DEF RunInv, CountInv, Begun, Busy
<1>2. Cardinality(Begun) = 0 /\ Cardinality(Busy) = 0
  BY <1>1, FS_EmptySet
<1>3. counters.repos_seen = 0 /\ counters.repos_settled = 0 /\ counters.rate_limited = 0
  BY <1>1, <1>2, CountersAre DEF RunInv, CountInv, CrawlTypeOK
<1> QED
  BY <1>3, CountersAre DEF RunInv, CrawlTypeOK, emptyCounters

Final(outcome) == [outcome |-> outcome, counters |-> counters]

LEMMA EndingAdds ==
  ASSUME RunInv, NEW by \in Writers, NEW outcome \in Endings, finishRun(by, outcome),
         AddsUp(Final(outcome))
  PROVE  DocsInv' /\ ending' \in [Writers -> Docs] /\ doc' \in Docs /\ finished' \in BOOLEAN
<1>1. Final(outcome) \in Docs
  BY DEF Final, Docs, RunInv, CrawlTypeOK
<1>2. \/ UNCHANGED ending
      \/ ending' = [ending EXCEPT ![by] = Final(outcome)]
  BY DEF finishRun, Final
<1>3. finished' \in BOOLEAN /\ doc' = doc
  BY DEF finishRun
<1>4. ending \in [Writers -> Docs] /\ AddsUp(doc) /\ \A w \in Writers : AddsUp(ending[w])
  BY DEF RunInv, CrawlTypeOK, DocsInv
<1>5. ending' \in [Writers -> Docs]
      /\ \A w \in Writers : ending'[w] = ending[w] \/ ending'[w] = Final(outcome)
  BY <1>1, <1>2, <1>4
<1>7. DocsInv'
  BY <1>3, <1>4, <1>5 DEF DocsInv, AddsUp
<1> QED
  BY <1>3, <1>4, <1>5, <1>7 DEF RunInv, CrawlTypeOK

(* A complete run has met its whole worklist, or a stop.                   *)
LEMMA CompleteAdds ==
  ASSUME RunInv, AllOver
  PROVE  AddsUp(Final("complete"))
<1>1. Busy = {} /\ Begun = List
  BY DEF AllOver, Busy, Begun
<1>2. Cardinality(Busy) = 0 /\ Cardinality(Begun) = Items
  BY <1>1, FS_EmptySet, ListSize
<1>3. counters \in [repos_seen : 0..Items, repos_settled : 0..Items, rate_limited : 0..Items]
      /\ CountInv
  BY CountersAre DEF RunInv, CrawlTypeOK
<1>4. /\ counters.repos_settled = counters.repos_seen
      /\ counters.repos_seen = Items \/ counters.rate_limited = 1
  BY <1>2, <1>3 DEF CountInv
<1> QED
  BY <1>4 DEF AddsUp, Final

(* An interrupted one all but what its pool holds.                         *)
LEMMA InterruptedAdds ==
  ASSUME RunInv
  PROVE  AddsUp(Final("interrupted"))
<1>1. Busy \subseteq Active /\ IsFiniteSet(Active)
  BY ListSize, FS_Subset DEF Busy, Active
<1>2. Cardinality(Busy) <= Cardinality(Active)
  BY <1>1, FS_Subset
<1>3. Cardinality(Busy) \in 0..Items /\ Cardinality(Active) \in 0..Items
      /\ Cardinality(Active) <= PoolSize
      /\ counters.repos_seen = counters.repos_settled + Cardinality(Busy)
  BY SizeIsNat DEF RunInv, CountInv, Busy, Active
<1>4. counters \in [repos_seen : 0..Items, repos_settled : 0..Items, rate_limited : 0..Items]
  BY CountersAre DEF RunInv, CrawlTypeOK
<1>5. counters.repos_seen - counters.repos_settled \in 0..PoolSize
  BY <1>2, <1>3, <1>4, RunAssumption
<1> QED
  BY <1>5 DEF AddsUp, Final

LEMMA CutShortKeeps ==
  ASSUME RunInv, Alive, CutShort, handler' \in {"none", "signalled", "killed"}
  PROVE  RunInv'
<1>1. \A i \in List : task'[i] = Fresh
  BY DEF CutShort, Memory
<1>2. {Items, PoolSize, Requests, Budget, MaxHour, Attempts, Reserve, MaxFaults} \subseteq Nat
      /\ Requests > 0 /\ PoolSize > 0 /\ Items > 0 /\ MaxHour > 0
  BY RunAssumption
<1>3. task' \in [List -> TaskType]
  <2>1. Fresh \in TaskType /\ Fresh.asked = 0 /\ Fresh.at = "queued"
    BY <1>2 DEF Fresh, TaskType
  <2> QED
    BY <2>1 DEF CutShort, Memory
<1>4. Busy' = {} /\ Begun' = {} /\ Active' = {} /\ Counted' = {}
  BY <1>1 DEF Busy, Begun, Active, Counted, Fresh
<1>5. counters' = emptyCounters /\ stopped' = FALSE /\ over' = 0 /\ phase' = "gone"
      /\ governor' = [left |-> Budget, hour |-> 0] /\ UNCHANGED <<github, finished, ending, faults>>
  BY DEF CutShort, Memory
<1>6. /\ counters'.repos_seen = 0 /\ counters'.repos_settled = 0 /\ counters'.rate_limited = 0
      /\ counters' \in Counters
  BY <1>2, <1>5, CountersAre DEF emptyCounters
<1>7. Cardinality({}) = 0
  BY FS_EmptySet
<1>8. CountInv'
  BY <1>2, <1>4, <1>5, <1>6, <1>7 DEF CountInv
<1>9. PointsInv'
  <2>1. github \in [left : 0..Budget, hour : 0..MaxHour]
    BY DEF RunInv, CrawlTypeOK
  <2>2. \A i \in List : task'[i].asked < Requests /\ task'[i].hour <= github.hour
    BY <1>1, <1>2, <2>1 DEF Fresh
  <2> QED
    BY <1>2, <1>4, <1>5, <1>7, <2>1, <2>2 DEF PointsInv
<1>10. doc' = doc \/ \E by \in Writers : doc' = ending[by]
  BY DEF CutShort
<1>11. DocsInv' /\ doc' \in Docs
  BY <1>5, <1>10 DEF DocsInv, AddsUp, RunInv, CrawlTypeOK
<1>12. governor' \in [left : 0..Budget, hour : 0..MaxHour]
  BY <1>2, <1>5
<1>13. over' \in 0..Budget
  <2>1. 0 \in 0..Budget
    BY <1>2
  <2> QED
    BY <1>5, <2>1
<1>14. CrawlTypeOK'
  BY <1>3, <1>5, <1>6, <1>11, <1>12, <1>13 DEF RunInv, CrawlTypeOK, TaskType
<1> QED
  BY <1>8, <1>9, <1>11, <1>14 DEF RunInv

LEMMA RunKeeps ==
  ASSUME RunInv, Run
  PROVE  RunInv'
<1> USE DEF fetching, record
<1>0. faults \in 0..MaxFaults /\ (Fault => faults' \in 0..MaxFaults)
  BY RunAssumption DEF Fault, RunInv, CrawlTypeOK
<1>1. CASE OpenRun
  <2>1. counters = emptyCounters /\ counters \in Counters
    BY <1>1, NothingCounted DEF OpenRun, RunInv, CrawlTypeOK
  <2>2. CountInv' /\ PointsInv'
    BY <1>1, FetchingKept DEF OpenRun
  <2>3. doc' \in Docs /\ AddsUp(doc')
    BY <1>1, <2>1 DEF OpenRun, Docs, AddsUp
  <2>4. DocsInv'
    BY <1>1, <2>3 DEF OpenRun, DocsInv, RunInv, AddsUp
  <2> QED
    BY <1>1, <2>2, <2>3, <2>4 DEF OpenRun, RunInv, CrawlTypeOK
<1>2. CASE OpenRunFails \/ Worklist \/ WorklistFails \/ Exit
  <2>1. CountInv' /\ PointsInv'
    BY <1>2, FetchingKept DEF OpenRunFails, Worklist, WorklistFails, Exit
  <2>2. DocsInv'
    BY <1>2 DEF OpenRunFails, Worklist, WorklistFails, Exit, RunInv, DocsInv, AddsUp
  <2> QED
    BY <1>0, <1>2, <2>1, <2>2
       DEF OpenRunFails, Worklist, WorklistFails, Exit, RunInv, CrawlTypeOK
<1>3. CASE Complete
  <2>1. DocsInv' /\ ending' \in [Writers -> Docs] /\ doc' \in Docs /\ finished' \in BOOLEAN
    BY <1>3, CompleteAdds, EndingAdds DEF Complete, Writers, Endings
  <2>2. CountInv' /\ PointsInv'
    BY <1>3, FetchingKept DEF Complete
  <2> QED
    BY <1>3, <2>1, <2>2 DEF Complete, RunInv, CrawlTypeOK
<1>4. CASE Abort
  <2>1. AddsUp(Final("failed"))
    BY <1>4, NothingCounted DEF Abort, AddsUp, Final
  <2>2. DocsInv' /\ ending' \in [Writers -> Docs] /\ doc' \in Docs /\ finished' \in BOOLEAN
    BY <1>4, <2>1, EndingAdds DEF Abort, Writers, Endings
  <2>3. CountInv' /\ PointsInv'
    BY <1>4, FetchingKept DEF Abort
  <2> QED
    BY <1>4, <2>2, <2>3 DEF Abort, RunInv, CrawlTypeOK
<1>5. ASSUME NEW by \in Writers, Lands(by) \/ LandsNot(by)
      PROVE  RunInv'
  <2>1. /\ doc' \in {doc, ending[by]} /\ ending' = [ending EXCEPT ![by] = NoDoc]
        /\ phase' \in {phase, "gone"} /\ UNCHANGED <<fetching, finished, handler>>
        /\ faults' \in 0..MaxFaults
    BY <1>0, <1>5 DEF Lands, LandsNot
  <2>2. NoDoc \in Docs /\ AddsUp(NoDoc)
    BY DEF Docs, AddsUp
  <2>3. doc' \in Docs /\ ending' \in [Writers -> Docs]
        /\ \A w \in Writers : ending'[w] \in {ending[w], NoDoc}
    BY <2>1, <2>2 DEF RunInv, CrawlTypeOK
  <2>4. DocsInv'
    BY <2>1, <2>2, <2>3 DEF RunInv, DocsInv, AddsUp
  <2>5. CountInv' /\ PointsInv'
    BY <2>1, FetchingKept
  <2> QED
    BY <2>1, <2>3, <2>4, <2>5 DEF RunInv, CrawlTypeOK
<1> QED
  BY <1>1, <1>2, <1>3, <1>4, <1>5 DEF Run

LEMMA RunInvStep ==
  ASSUME RunInv, [CrawlNext]_crawling
  PROVE  RunInv'
<1>1. CASE Run
  BY <1>1, RunKeeps
<1>2. ASSUME NEW i \in List, Fetch(i)
      PROVE  RunInv'
  BY <1>2, FetchKeeps
<1>3. CASE NewHour
  <2>1. /\ github' = [left |-> Budget, hour |-> github.hour + 1] /\ over' = 0
        /\ UNCHANGED <<phase, task, counters, stopped, governor, record, handler, faults>>
        /\ github.hour \in 0..MaxHour /\ github.hour < MaxHour
    BY <1>3 DEF NewHour, RunInv, CrawlTypeOK
  <2>2. /\ github' \in [left : 0..Budget, hour : 0..MaxHour] /\ over' \in 0..Budget
        /\ over' + github'.left <= Budget
    BY <2>1, RunAssumption
  <2>3. \A i \in List : task[i].hour <= github.hour /\ task[i].hour \in 0..MaxHour
                         /\ task[i].asked < Requests
    BY DEF RunInv, PointsInv, CrawlTypeOK
  <2>4. Counted' = {} /\ \A i \in List : task[i].hour <= github'.hour
    BY <2>1, <2>3 DEF Counted
  <2>5. PointsInv'
    BY <2>1, <2>2, <2>3, <2>4, FS_EmptySet, RunAssumption DEF PointsInv
  <2>6. CountInv' /\ DocsInv'
    BY <2>1 DEF RunInv, CountInv, DocsInv, AddsUp, Busy, Begun, Active, record
  <2> QED
    BY <2>1, <2>2, <2>5, <2>6 DEF RunInv, CrawlTypeOK, record
<1>4. CASE Signal
  <2>1. CASE finished
    BY <1>4, <2>1, CutShortKeeps DEF Signal
  <2>2. CASE ~finished
    <3>1. finishRun("handler", "interrupted") /\ UNCHANGED <<phase, fetching, faults>>
          /\ handler' = "signalled"
      BY <1>4, <2>2 DEF Signal
    <3>2. DocsInv' /\ ending' \in [Writers -> Docs] /\ doc' \in Docs /\ finished' \in BOOLEAN
      BY <3>1, InterruptedAdds, EndingAdds DEF Writers, Endings
    <3>3. CountInv' /\ PointsInv'
      BY <3>1, FetchingKept
    <3> QED
      BY <3>1, <3>2, <3>3 DEF RunInv, CrawlTypeOK, fetching
  <2> QED
    BY <2>1, <2>2
<1>5. CASE Kill
  BY <1>5, CutShortKeeps DEF Kill
<1>6. CASE UNCHANGED crawling
  <2>1. CountInv' /\ PointsInv'
    BY <1>6, FetchingKept DEF crawling
  <2> QED
    BY <1>6, <2>1 DEF crawling, fetching, record, RunInv, CrawlTypeOK, DocsInv, AddsUp
<1> QED
  BY <1>1, <1>2, <1>3, <1>4, <1>5, <1>6 DEF CrawlNext

LEMMA RunInvInit == CrawlInit => RunInv
<1> SUFFICES ASSUME CrawlInit PROVE RunInv
  OBVIOUS
<1>1. task = [i \in List |-> Fresh] /\ counters = emptyCounters /\ stopped = FALSE
      /\ governor = [left |-> Budget, hour |-> 0]
  BY DEF CrawlInit, Memory
<1>2. {Items, PoolSize, Requests, Budget, MaxHour, Attempts, Reserve, MaxFaults} \subseteq Nat
      /\ Requests > 0 /\ PoolSize > 0 /\ Items > 0 /\ MaxHour > 0
  BY RunAssumption
<1>3. Fresh \in TaskType /\ Fresh.asked = 0 /\ Fresh.at = "queued" /\ Fresh.hour = 0
  BY <1>2 DEF Fresh, TaskType
<1>4. task \in [List -> TaskType] /\ \A i \in List : task[i] = Fresh
  BY <1>1, <1>3
<1>5. Busy = {} /\ Begun = {} /\ Active = {} /\ Counted = {}
  BY <1>3, <1>4 DEF Busy, Begun, Active, Counted
<1>6. /\ counters.repos_seen = 0 /\ counters.repos_settled = 0 /\ counters.rate_limited = 0
      /\ counters \in Counters
  BY <1>1, <1>2, CountersAre DEF emptyCounters
<1>7. CountInv
  BY <1>1, <1>2, <1>5, <1>6, FS_EmptySet DEF CountInv
<1>8. /\ github \in [left : 0..Budget, hour : 0..MaxHour] /\ github.hour = 1
      /\ governor \in [left : 0..Budget, hour : 0..MaxHour]
  <2>1. PICK left \in Starts : github = [left |-> left, hour |-> 1]
    BY DEF CrawlInit
  <2>2. left \in 0..Budget
    BY RunAssumption
  <2> QED
    BY <1>1, <1>2, <2>1, <2>2
<1>9. PointsInv
  <2>1. over = 0 /\ Cardinality(Counted) = 0
    BY <1>5, FS_EmptySet DEF CrawlInit
  <2> QED
    BY <1>2, <1>3, <1>4, <1>8, <2>1 DEF PointsInv
<1>10. DocsInv
  BY DEF CrawlInit, DocsInv, AddsUp
<1>11. NoDoc \in Docs
  BY DEF Docs
<1>12. over \in 0..Budget /\ faults \in 0..MaxFaults
  <2>1. 0 \in 0..Budget /\ 0 \in 0..MaxFaults
    BY <1>2
  <2> QED
    BY <2>1 DEF CrawlInit
<1>13. ending \in [Writers -> Docs] /\ doc \in Docs
  BY <1>11 DEF CrawlInit
<1>14. CrawlTypeOK
  <2>1. /\ phase = "open" /\ stopped = FALSE /\ finished = FALSE /\ handler = "none"
    BY <1>1 DEF CrawlInit
  <2> QED
    BY <1>4, <1>6, <1>8, <1>12, <1>13, <2>1 DEF CrawlTypeOK, TaskType
<1> QED
  BY <1>7, <1>9, <1>10, <1>14 DEF RunInv

(* The counters of a run document add up, whatever the tasks of the pool   *)
(* do while it is written: a complete run accounts for its worklist or for *)
(* one stop, an interrupted one for all but what its pool holds, and a     *)
(* failed one fetched nothing (crawler/index.ts, store.ts).                *)
THEOREM RecordsAddUp == CrawlSpec => []RecordAddsUp
<1>1. RunInv => RecordAddsUp
  BY DEF RunInv, RecordAddsUp, DocsInv, AddsUp
<1> QED
  BY <1>1, RunInvInit, RunInvStep, PTL DEF CrawlSpec

-----------------------------------------------------------------------------
(***************************************************************************)
(* How much of the reserve an hour loses.  A stale answer still to come    *)
(* may let a repository begin in each place that is free when it is heard, *)
(* so that s of them are worth a place each, one more for each place that  *)
(* the others leave.  Until the governor knows that the budget has run     *)
(* out every place is worth a repository; once it knows, only the requests *)
(* that remain of those in the pool are left.                              *)
(***************************************************************************)
Fetches == Busy \ Stale
Tickets == {r \in Fetches \X (1..Requests) : task[r[1]].asked < r[2]}

Heard == over - Cardinality(Counted)
Openings(s) == Requests * (s * (2 * PoolSize - s + 1))
Whole == Requests * (PoolSize * (PoolSize + 1))
Room == IF exhausted THEN Cardinality(Tickets) ELSE Requests * (PoolSize - Cardinality(Stale))

LossInv == 2 * Heard + Openings(Cardinality(Stale)) + 2 * Room <= Whole

LEMMA OneOpeningLess ==
  ASSUME NEW s \in 1..PoolSize
  PROVE  /\ Openings(s) = Openings(s - 1) + 2 * (Requests * (PoolSize - (s - 1)))
         /\ Requests * (PoolSize - (s - 1)) = Requests * (PoolSize - s) + Requests
         /\ Requests * (PoolSize - s) \in Nat
         /\ Openings(s) \in Nat /\ Openings(s - 1) \in Nat /\ Requests \in Nat
<1>1. PoolSize \in Nat /\ Requests \in Nat /\ s \in Nat /\ s >= 1 /\ s <= PoolSize
  BY RunAssumption
<1>2. s * (2 * PoolSize - s + 1) = (s - 1) * (2 * PoolSize - (s - 1) + 1) + 2 * (PoolSize - (s - 1))
  BY <1>1
<1>3. (s * (2 * PoolSize - s + 1)) \in Nat /\ (s - 1) * (2 * PoolSize - (s - 1) + 1) \in Nat
      /\ PoolSize - s \in Nat
  <2>1. \A a, b \in Nat : a * b \in Nat
    OBVIOUS
  <2>2. 2 * PoolSize - s + 1 \in Nat /\ 2 * PoolSize - (s - 1) + 1 \in Nat /\ s - 1 \in Nat
        /\ PoolSize - s \in Nat
    BY <1>1
  <2> QED
    BY <1>1, <2>1, <2>2
<1>4. \A a, b, c \in Nat : Requests * (a + 2 * b) = Requests * a + 2 * (Requests * b)
                           /\ Requests * (c + 1) = Requests * c + Requests /\ Requests * a \in Nat
  BY <1>1
<1>5. PoolSize - (s - 1) = (PoolSize - s) + 1 /\ PoolSize - (s - 1) \in Nat
  BY <1>1, <1>3
<1> QED
  BY <1>1, <1>2, <1>3, <1>4, <1>5 DEF Openings

(* Nothing heard: the bound holds whatever is on its way.                  *)
LEMMA Slack ==
  ASSUME NEW s \in 0..PoolSize
  PROVE  Openings(s) + 2 * (Requests * (PoolSize - s)) <= Whole
<1>1. PoolSize \in Nat /\ Requests \in Nat /\ s \in Nat /\ s <= PoolSize
  BY RunAssumption
<1> DEFINE d == PoolSize - s
<1>2. d \in Nat /\ s = PoolSize - d
  BY <1>1
<1>3. d * (d - 1) >= 0
  <2>1. CASE d = 0
    BY <2>1
  <2>2. CASE d > 0
    <3>1. d - 1 \in Nat
      BY <1>2, <2>2
    <3>2. \A a, b \in Nat : a * b >= 0
      OBVIOUS
    <3> QED
      BY <1>2, <3>1, <3>2
  <2> QED
    BY <1>2, <2>1, <2>2
<1>4. PoolSize * (PoolSize + 1) = s * (2 * PoolSize - s + 1) + 2 * (PoolSize - s) + d * (d - 1)
  BY <1>1
<1>5. s * (2 * PoolSize - s + 1) + 2 * (PoolSize - s) <= PoolSize * (PoolSize + 1)
  BY <1>1, <1>3, <1>4
<1>6. \A a, b, c \in Int : a + 2 * b <= c => Requests * a + 2 * (Requests * b) <= Requests * c
  <2>1. \A x, y \in Int : x <= y => Requests * x <= Requests * y
    BY <1>1
  <2>2. \A a, b \in Int : Requests * (a + 2 * b) = Requests * a + 2 * (Requests * b)
    BY <1>1
  <2> QED
    BY <2>1, <2>2
<1> QED
  BY <1>1, <1>5, <1>6 DEF Openings, Whole

(* Sizes of the pool's parts.                                              *)
LEMMA PoolParts ==
  ASSUME RunInv
  PROVE  /\ Cardinality(Stale) \in 0..PoolSize
         /\ Cardinality(Fetches) \in 0..PoolSize - Cardinality(Stale)
         /\ Counted \subseteq Fetches /\ IsFiniteSet(Fetches)
<1>1. Stale \subseteq Busy /\ Busy \subseteq Active /\ IsFiniteSet(Active)
  BY ListSize, FS_Subset DEF Stale, Busy, Active
<1>2. IsFiniteSet(Busy) /\ Cardinality(Busy) <= Cardinality(Active)
  BY <1>1, FS_Subset
<1>3. IsFiniteSet(Stale) /\ IsFiniteSet(Fetches)
  BY <1>1, <1>2, FS_Subset DEF Fetches
<1>4. Cardinality(Stale \cup Fetches)
        = Cardinality(Stale) + Cardinality(Fetches) - Cardinality(Stale \cap Fetches)
  BY <1>3, FS_Union
<1>5. Stale \cup Fetches = Busy /\ Stale \cap Fetches = {}
  BY <1>1 DEF Fetches
<1>6. {Cardinality(Stale), Cardinality(Fetches), Cardinality(Busy), Cardinality(Active)} \subseteq Nat
  BY <1>1, <1>2, <1>3, FS_CardinalityType
<1>7. Cardinality(Busy) = Cardinality(Stale) + Cardinality(Fetches)
  BY <1>4, <1>5, <1>6, FS_EmptySet
<1>8. Cardinality(Active) <= PoolSize /\ PoolSize \in Nat
  BY RunAssumption DEF RunInv, CountInv
<1>9. Counted \subseteq Fetches
  <2>1. \A i \in List : task[i].left \in 0..Budget
    BY DEF RunInv, CrawlTypeOK
  <2> QED
    BY <2>1, RunAssumption DEF Counted, Fetches, Busy, Stale
<1> QED
  BY <1>2, <1>3, <1>6, <1>7, <1>8, <1>9

LEMMA TicketCount ==
  ASSUME RunInv
  PROVE  /\ IsFiniteSet(Tickets) /\ Cardinality(Tickets) \in Nat
         /\ Cardinality(Counted) <= Cardinality(Tickets)
         /\ Cardinality(Tickets) <= Requests * (PoolSize - Cardinality(Stale))
         /\ Cardinality(Counted) \in Nat
<1>1. /\ Cardinality(Stale) \in 0..PoolSize
      /\ Cardinality(Fetches) \in 0..PoolSize - Cardinality(Stale)
      /\ Counted \subseteq Fetches /\ IsFiniteSet(Fetches)
      /\ PoolSize \in Nat /\ Requests \in Nat /\ Requests > 0
  BY PoolParts, RunAssumption
<1>2. IsFiniteSet(1..Requests) /\ Cardinality(1..Requests) = Requests
  BY RunAssumption, FS_Interval
<1>3. IsFiniteSet(Fetches \X (1..Requests))
      /\ Cardinality(Fetches \X (1..Requests)) = Cardinality(Fetches) * Requests
  BY <1>1, <1>2, FS_Product
<1>4. Tickets \in SUBSET (Fetches \X (1..Requests))
  BY DEF Tickets
<1>5. IsFiniteSet(Tickets) /\ Cardinality(Tickets) \in Nat
      /\ Cardinality(Tickets) <= Cardinality(Fetches) * Requests
  BY <1>3, <1>4, FS_Subset, FS_CardinalityType
<1>6. Cardinality(Fetches) * Requests <= Requests * (PoolSize - Cardinality(Stale))
  <2>1. \A x, y \in Nat : x <= y => x * Requests <= Requests * y
    BY <1>1
  <2> QED
    BY <1>1, <2>1
<1>7. Cardinality(Counted) <= Cardinality(Tickets)
  <2> DEFINE next == [i \in Counted |-> <<i, task[i].asked + 1>>]
  <2>1. \A i \in Counted : <<i, task[i].asked + 1>> \in Tickets
    <3>1. \A i \in Counted : i \in Fetches /\ task[i].asked \in 0..Requests /\ task[i].asked < Requests
      BY <1>1 DEF RunInv, CrawlTypeOK, PointsInv, Counted
    <3>2. \A i \in Counted : <<i, task[i].asked + 1>> \in Fetches \X (1..Requests)
                             /\ task[i].asked < task[i].asked + 1
      BY <1>1, <3>1
    <3> QED
      BY <3>2 DEF Tickets
  <2>2. next \in [Counted -> Tickets]
    BY <2>1
  <2>3. \A i, j \in Counted : next[i] = next[j] => i = j
    OBVIOUS
  <2> HIDE DEF next
  <2>4. next \in Injection(Counted, Tickets)
    BY <2>2, <2>3 DEF Injection, IsInjective
  <2> QED
    BY <1>5, <2>4, FS_Injection
<1>8. Cardinality(Counted) \in Nat
  BY <1>1, FS_Subset, FS_CardinalityType
<1> QED
  BY <1>1, <1>5, <1>6, <1>7, <1>8

(* The invariant bounds what is lost.                                      *)
LEMMA LossBounds == RunInv /\ LossInv => OverspendBounded
<1> SUFFICES ASSUME RunInv, LossInv PROVE OverspendBounded
  OBVIOUS
<1> DEFINE s == Cardinality(Stale)
           c == Cardinality(Counted)
<1>1. /\ s \in 0..PoolSize /\ c \in Nat /\ over \in Nat
      /\ c <= Cardinality(Tickets) /\ Cardinality(Tickets) \in Nat
      /\ Cardinality(Tickets) <= Requests * (PoolSize - s)
      /\ PoolSize \in Nat /\ Requests \in Nat
  BY TicketCount, PoolParts, RunAssumption DEF RunInv, CrawlTypeOK
<1>2. c <= Room /\ Room \in Nat
  <2>1. Requests * (PoolSize - s) \in Nat
    <3>1. PoolSize - s \in Nat /\ \A x, y \in Nat : x * y \in Nat
      BY <1>1
    <3> QED
      BY <1>1, <3>1
  <2> QED
    BY <1>1, <2>1 DEF Room
<1>3. Openings(s) \in Nat
  <2>1. 2 * PoolSize - s + 1 \in Nat /\ \A x, y \in Nat : x * y \in Nat
    BY <1>1
  <2> QED
    BY <1>1, <2>1 DEF Openings
<1>4. 2 * over <= Whole
  <2>1. 2 * (over - c) + Openings(s) + 2 * Room <= Whole
    BY DEF LossInv, Heard
  <2>2. Whole \in Int
    BY <1>1 DEF Whole
  <2> HIDE DEF s, c
  <2> QED
    BY <1>1, <1>2, <1>3, <2>1, <2>2
<1>5. Whole = Requests * PoolSize * (PoolSize + 1)
  BY <1>1 DEF Whole
<1> QED
  BY <1>4, <1>5 DEF OverspendBounded

(* Nothing is lost before the reserve is touched.                          *)
LEMMA NothingLost == RunInv /\ over = 0 => LossInv
<1> SUFFICES ASSUME RunInv, over = 0 PROVE LossInv
  OBVIOUS
<1> DEFINE s == Cardinality(Stale)
           open == Requests * (PoolSize - s)
<1>1. /\ s \in 0..PoolSize /\ Cardinality(Counted) \in Nat
      /\ Cardinality(Tickets) \in Nat /\ Cardinality(Tickets) <= open
      /\ PoolSize \in Nat /\ Requests \in Nat
  BY TicketCount, PoolParts, RunAssumption
<1>2. Openings(s) + 2 * open <= Whole
  BY <1>1, Slack
<1>3. Room <= open /\ Room \in Int /\ open \in Int
  BY <1>1 DEF Room
<1>4. Openings(s) \in Int /\ Whole \in Int /\ Heard \in Int /\ Heard <= 0
  BY <1>1 DEF Openings, Whole, Heard
<1> HIDE DEF s, open
<1>5. 2 * Heard + Openings(s) + 2 * Room <= Whole
  BY <1>2, <1>3, <1>4
<1> QED
  BY <1>5 DEF LossInv, s

(* How a fetch step changes the tickets: it adds none, unless a stale      *)
(* answer makes room.                                                      *)
LEMMA TicketsKept ==
  ASSUME RunInv, NEW i \in List, Fetch(i), NEW t \in TaskType, Turns(i, t), Follows(i, t),
         i \notin Stale, exhausted \/ i \in Busy, Serve(i) => github.left <= Reserve
  PROVE  /\ Tickets' \subseteq Tickets /\ Stale' = Stale
         /\ task[i].at = "answered" => <<i, task[i].asked + 1>> \in Tickets \ Tickets'
<1>1. task'[i] = t /\ \A j \in List \ {i} : task'[j] = task[j]
  BY Turned DEF RunInv
<1>2. Stale' = Stale
  <2>1. CASE Serve(i)
    <3>1. github.left \in 1..Budget /\ github.left <= Reserve
      BY <2>1, WhenServed
    <3>2. github.left - 1 <= Reserve
      BY <3>1, RunAssumption
    <3> QED
      BY <2>1, <3>2, WhenServed
  <2>2. CASE ~Serve(i)
    <3>1. Stale' = Stale \ {i}
      BY <2>2, FetchPointKinds, NotServed DEF Follows
    <3> QED
      BY <3>1
  <2> QED
    BY <2>1, <2>2
<1>3. i \in Busy \/ t.at \notin {"ask", "answered"}
  <2>1. CASE i \notin Busy
    <3>1. Begin(i) \/ Report(i)
      BY <2>1 DEF Fetch, Serve, Served, NotFound, NotModified, Refused, FetchFails, Busy
    <3>2. Begin(i) => stopped'
      BY <2>1 DEF Begin
    <3>3. task' = [task EXCEPT ![i].at = "over"]
      BY <3>1, <3>2 DEF Begin, Report
    <3>4. task[i] \in TaskType /\ task \in [List -> TaskType]
      BY DEF RunInv, CrawlTypeOK, TaskType
    <3>5. task'[i].at = "over"
      BY <3>3, <3>4 DEF TaskType
    <3> QED
      BY <1>1, <3>5
  <2> QED
    BY <2>1
<1>4. task[i].asked \in 0..Requests /\ task[i].asked < Requests /\ t.asked \in 0..Requests
      /\ Requests \in Nat
  BY RunAssumption DEF RunInv, CrawlTypeOK, PointsInv, TaskType
<1>5. Busy' = IF t.at \in {"ask", "answered"} THEN Busy \cup {i} ELSE Busy \ {i}
  BY Turned DEF RunInv
<1>6. t.at \in {"ask", "answered"} =>
        t.asked = IF task[i].at = "answered" THEN task[i].asked + 1 ELSE task[i].asked
  BY <1>3 DEF Follows
<1>7. Fetches' \subseteq Fetches
  BY <1>2, <1>3, <1>5 DEF Fetches
<1>8. ASSUME NEW r \in Tickets'
      PROVE  r \in Tickets /\ (r[1] = i /\ task[i].at = "answered" => r[2] > task[i].asked + 1)
  <2>1. r \in Fetches \X (1..Requests) /\ task'[r[1]].asked < r[2] /\ r[1] \in Busy'
    BY <1>7 DEF Tickets, Fetches
  <2>2. CASE r[1] = i
    <3>1. t.at \in {"ask", "answered"} /\ t.asked < r[2] /\ r[2] \in 1..Requests
      BY <1>1, <1>5, <2>1, <2>2
    <3> QED
      BY <1>4, <1>6, <2>1, <2>2, <3>1 DEF Tickets
  <2>3. CASE r[1] # i
    <3>1. r[1] \in List
      BY <2>1 DEF Fetches, Busy
    <3> QED
      BY <1>1, <2>1, <2>3, <3>1 DEF Tickets
  <2> QED
    BY <2>2, <2>3
<1>9. task[i].at = "answered" => <<i, task[i].asked + 1>> \in Tickets
  <2>1. task[i].asked + 1 \in 1..Requests /\ task[i].asked < task[i].asked + 1
    BY <1>4
  <2> QED
    BY <2>1 DEF Tickets, Fetches, Busy
<1>10. task[i].at = "answered" => <<i, task[i].asked + 1>> \notin Tickets'
  BY <1>4, <1>8
<1> QED
  BY <1>2, <1>8, <1>9, <1>10

(* A stale answer that is over leaves its place, for at most one           *)
(* repository.                                                             *)
LEMMA StaleAnswer ==
  ASSUME RunInv, NEW i \in Stale, NEW t \in TaskType, Turns(i, t), t.at # "answered",
         UNCHANGED github
  PROVE  /\ Cardinality(Stale') = Cardinality(Stale) - 1 /\ Cardinality(Stale) \in 1..PoolSize
         /\ Counted' = Counted
         /\ Cardinality(Tickets') \in Nat
         /\ Cardinality(Tickets') <= Cardinality(Tickets) + Requests
<1>1. i \in List /\ i \notin Counted
  <2>1. \A j \in List : task[j].left \in 0..Budget
    BY DEF RunInv, CrawlTypeOK
  <2> QED
    BY <2>1, RunAssumption DEF Stale, Counted
<1>2. Stale' = Stale \ {i} /\ Counted' = Counted
  BY <1>1, NotServed
<1>3. Cardinality(Stale') = Cardinality(Stale) - 1 /\ Cardinality(Stale) \in 1..PoolSize
  BY <1>2, OneLess, PoolParts DEF Stale
<1>4. task'[i] = t /\ \A j \in List \ {i} : task'[j] = task[j]
  BY <1>1, Turned DEF RunInv
<1>5. Busy' \ {i} = Busy \ {i}
  BY <1>4 DEF Busy
<1> DEFINE more == {i} \X (1..Requests)
<1>6. Tickets' \subseteq Tickets \cup more
  <2> SUFFICES ASSUME NEW r \in Tickets', r[1] # i PROVE r \in Tickets
    BY DEF Tickets
  <2>1. r \in Fetches' \X (1..Requests) /\ task'[r[1]].asked < r[2]
    BY DEF Tickets
  <2>2. r[1] \in Fetches /\ r[1] \in List
    BY <1>2, <1>5, <2>1 DEF Fetches, Busy
  <2> QED
    BY <1>4, <2>1, <2>2 DEF Tickets
<1>7. IsFiniteSet(more) /\ Cardinality(more) = Requests
  <2>1. Requests \in Nat \ {0}
    BY RunAssumption
  <2>2. IsFiniteSet({i}) /\ Cardinality({i}) = 1
    BY FS_Singleton
  <2>3. IsFiniteSet(1..Requests) /\ Cardinality(1..Requests) = Requests
    <3>1. 1 \in Int /\ Requests \in Int /\ ~(1 > Requests) /\ Requests - 1 + 1 = Requests
      BY <2>1
    <3>2. IsFiniteSet(1..Requests) /\ Cardinality(1..Requests) = Requests - 1 + 1
      BY <3>1, FS_Interval
    <3> QED BY <3>1, <3>2
  <2>4. IsFiniteSet(more) /\ Cardinality(more) = Cardinality({i}) * Cardinality(1..Requests)
    <3> HIDE DEF more
    <3>1. more = {i} \X (1..Requests)
      BY DEF more
    <3> QED BY <2>2, <2>3, <3>1, FS_Product
  <2> HIDE DEF more
  <2> QED
    BY <2>1, <2>2, <2>3, <2>4
<1>8. IsFiniteSet(Tickets) /\ Cardinality(Tickets) \in Nat
  BY TicketCount
<1> HIDE DEF more
<1>9. /\ IsFiniteSet(Tickets \cup more)
      /\ Cardinality(Tickets \cup more)
           = Cardinality(Tickets) + Cardinality(more) - Cardinality(Tickets \cap more)
  BY <1>7, <1>8, FS_Union
<1>10. IsFiniteSet(Tickets \cap more) /\ Cardinality(Tickets \cap more) \in Nat
  <2>1. IsFiniteSet(Tickets \cap more)
    BY <1>7, FS_Subset
  <2> QED
    BY <2>1, FS_CardinalityType
<1>11. Cardinality(Tickets') \in Nat /\ Cardinality(Tickets') <= Cardinality(Tickets \cup more)
  BY <1>6, <1>9, FS_Subset, FS_CardinalityType
<1>12. Cardinality(Tickets \cup more) \in Nat
  BY <1>9, FS_CardinalityType
<1> QED
  BY <1>2, <1>3, <1>7, <1>8, <1>9, <1>10, <1>11, <1>12, RunAssumption

(* Fresh answers use up what is left, stale ones what they were worth.     *)
LEMMA FetchLoss ==
  ASSUME RunInv, LossInv, RunInv', NEW i \in List, Fetch(i), over' # 0
  PROVE  LossInv'
<1> DEFINE s == Cardinality(Stale)
           c == Cardinality(Counted)
           n == Cardinality(Tickets)
           open == Requests * (PoolSize - s)
<1>1. PICK t \in TaskType : Turns(i, t) /\ Follows(i, t)
  BY FetchCounts
<1>2. /\ s \in 0..PoolSize /\ c \in Nat /\ n \in Nat /\ n <= open /\ IsFiniteSet(Tickets)
      /\ PoolSize \in Nat /\ Requests \in Nat /\ open \in Nat
      /\ over \in Int /\ over' \in Int
  <2>1. s \in 0..PoolSize /\ PoolSize \in Nat /\ Requests \in Nat
    BY PoolParts, RunAssumption
  <2>2. PoolSize - s \in Nat /\ \A x, y \in Nat : x * y \in Nat
    BY <2>1
  <2> QED
    BY <2>1, <2>2, TicketCount DEF RunInv, CrawlTypeOK
<1>3. Room = IF exhausted THEN n ELSE open
  BY DEF Room
<1>4. Openings(s) \in Int /\ Whole \in Int
  BY <1>2 DEF Openings, Whole
<1>5. 2 * (over - c) + Openings(s) + 2 * Room <= Whole
  BY DEF LossInv, Heard
<1> HIDE DEF s, c, n, open
<1>6. ASSUME Stale' = Stale, Tickets' \subseteq Tickets, exhausted' = exhausted,
             over' - Cardinality(Counted') = over - c
      PROVE  LossInv'
  <2>1. Cardinality(Tickets') <= n /\ Cardinality(Tickets') \in Nat
    BY <1>2, <1>6, FS_Subset, FS_CardinalityType DEF n
  <2>2. Room' = IF exhausted THEN Cardinality(Tickets') ELSE open
    BY <1>6 DEF Room, open, s
  <2>3. Room' <= Room /\ Room' \in Int /\ Room \in Int
    BY <1>2, <1>3, <2>1, <2>2
  <2>4. 2 * (over' - Cardinality(Counted')) + Openings(s) + 2 * Room' <= Whole
    BY <1>2, <1>4, <1>5, <1>6, <2>3
  <2> QED
    BY <1>6, <2>4 DEF LossInv, Heard, Openings, Whole, s
<1>7. CASE Serve(i)
  <2>1. /\ github.left \in 1..Budget /\ github'.hour = github.hour /\ task[i].at = "ask"
        /\ Counted' = IF github.left <= Reserve THEN Counted \cup {i} ELSE Counted
        /\ i \notin Counted /\ i \notin Stale
    BY <1>1, <1>7, WhenServed
  <2>2. over' = (IF github.left <= Reserve THEN over + 1 ELSE over) /\ UNCHANGED governor
    BY <1>7 DEF Serve
  <2>3. github.left <= Reserve
    BY <2>1, <2>2, RunAssumption DEF RunInv, PointsInv
  <2>4. Tickets' \subseteq Tickets /\ Stale' = Stale
    BY <1>1, <2>1, <2>3, TicketsKept DEF Busy
  <2>5. Cardinality(Counted') = c + 1
    BY <2>1, <2>3, OneMore DEF Counted, c
  <2>6. exhausted' = exhausted
    BY <2>1, <2>2 DEF exhausted
  <2>7. over' - Cardinality(Counted') = over - c
    BY <1>2, <2>2, <2>3, <2>5
  <2> QED
    BY <1>6, <2>4, <2>6, <2>7
<1>8. CASE ~Serve(i)
  <2>1. UNCHANGED github /\ (PointsKept(i) \/ PointHeard(i) \/ PointMissed(i))
    BY <1>8, FetchPointKinds
  <2>2. t.at # "answered" /\ Counted' = Counted \ {i} /\ Stale' = Stale \ {i}
    BY <1>1, <1>8, <2>1, NotServed DEF Follows
  <2>3. i \in Counted => Cardinality(Counted \ {i}) = c - 1
    BY OneLess DEF Counted, c
  <2>4. task[i].left \in 0..Budget
    BY DEF RunInv, CrawlTypeOK
  <2>5. CASE PointsKept(i) /\ (exhausted \/ i \in Busy)
    <3>1. i \notin Stale /\ i \notin Counted /\ over' = over /\ exhausted' = exhausted
      BY <2>1, <2>5 DEF PointsKept, Stale, Counted, exhausted
    <3>2. Tickets' \subseteq Tickets
      BY <1>1, <1>8, <2>5, <3>1, TicketsKept
    <3> QED
      BY <1>6, <2>2, <3>1, <3>2 DEF c
  <2>6. CASE PointsKept(i) /\ ~exhausted
    <3>1. i \notin Stale /\ i \notin Counted /\ over' = over /\ exhausted' = exhausted
      BY <2>1, <2>6 DEF PointsKept, Stale, Counted, exhausted
    <3>2. Room' = open /\ Room = open /\ Stale' = Stale /\ Counted' = Counted
      BY <1>3, <2>2, <2>6, <3>1 DEF Room, open, s
    <3> QED
      BY <1>5, <3>1, <3>2 DEF LossInv, Heard, Openings, Whole, s, c
  <2>7. CASE PointHeard(i) /\ i \notin Stale
    <3>1. task[i].at = "answered" /\ task[i].hour = github.hour /\ task[i].left <= Reserve
          /\ over' = over
      BY <2>7 DEF PointHeard, Stale
    <3>2. exhausted'
      BY <2>1, <2>7, <3>1 DEF PointHeard, exhausted
    <3>3. <<i, task[i].asked + 1>> \in Tickets \ Tickets' /\ Tickets' \subseteq Tickets
          /\ Stale' = Stale
      BY <1>1, <1>8, <2>7, <3>1, TicketsKept DEF Busy
    <3>4. Cardinality(Tickets') <= n - 1 /\ Cardinality(Tickets') \in Nat
      <4> DEFINE rest == Tickets \ {<<i, task[i].asked + 1>>}
      <4>1. IsFiniteSet(rest) /\ Cardinality(rest) = n - 1
        BY <1>2, <3>3, FS_RemoveElement DEF n
      <4>2. Tickets' \subseteq rest
        BY <3>3
      <4> QED
        BY <4>1, <4>2, FS_Subset, FS_CardinalityType
    <3>5. Room' = Cardinality(Tickets')
      BY <3>2 DEF Room
    <3>6. over' - Cardinality(Counted') <= over - c + 1 /\ Cardinality(Counted') \in Int
      <4>1. CASE i \in Counted
        BY <1>2, <2>2, <2>3, <3>1, <4>1
      <4>2. CASE i \notin Counted
        <5>1. Counted' = Counted
          BY <2>2, <4>2
        <5> QED
          BY <1>2, <3>1, <5>1 DEF c
      <4> QED
        BY <4>1, <4>2
    <3>7. Room' <= Room - 1 /\ Room' \in Int /\ Room \in Int
      BY <1>2, <1>3, <3>4, <3>5
    <3>8. 2 * (over' - Cardinality(Counted')) + Openings(s) + 2 * Room' <= Whole
      BY <1>2, <1>4, <1>5, <3>6, <3>7
    <3> QED
      BY <3>3, <3>8 DEF LossInv, Heard, Openings, Whole, s
  <2>8. CASE (PointHeard(i) \/ PointMissed(i)) /\ i \in Stale
    <3>1. /\ Cardinality(Stale') = s - 1 /\ s \in 1..PoolSize
          /\ Counted' = Counted
          /\ Cardinality(Tickets') \in Nat
          /\ Cardinality(Tickets') <= n + Requests
      BY <1>1, <2>1, <2>2, <2>8, StaleAnswer DEF s, n
    <3>2. /\ Openings(s) = Openings(s - 1) + 2 * (Requests * (PoolSize - (s - 1)))
          /\ Requests * (PoolSize - (s - 1)) = open + Requests
          /\ Openings(s - 1) \in Nat
      BY <3>1, OneOpeningLess DEF open
    <3>3. over' = over
      BY <2>1, <2>4, <2>8, RunAssumption DEF PointHeard, PointMissed, Unheard, Stale
    <3>4. CASE PointHeard(i)
      <4>1. ~exhausted'
        BY <2>1, <2>8, <3>4 DEF PointHeard, exhausted, Stale
      <4>2. Room' = Requests * (PoolSize - (s - 1))
        BY <3>1, <4>1 DEF Room
      <4>3. Room \in Nat
        BY <1>2, <1>3
      <4>4. 2 * (over' - c) + Openings(s - 1) + 2 * Room' <= Whole
        BY <1>2, <1>4, <1>5, <3>2, <3>3, <4>2, <4>3
      <4> QED
        BY <3>1, <4>4 DEF LossInv, Heard, Openings, Whole, c
    <3>5. CASE PointMissed(i)
      <4>1. exhausted' = exhausted
        BY <2>1, <3>5 DEF PointMissed, exhausted
      <4>2. Room' = IF exhausted THEN Cardinality(Tickets') ELSE open + Requests
        BY <3>1, <3>2, <4>1 DEF Room
      <4>3. Room' <= Room + Requests /\ Room' \in Int /\ Room \in Int
        BY <1>2, <1>3, <3>1, <4>2
      <4>4. 2 * (over' - c) + Openings(s - 1) + 2 * Room' <= Whole
        BY <1>2, <1>4, <1>5, <3>2, <3>3, <4>3
      <4> QED
        BY <3>1, <4>4 DEF LossInv, Heard, Openings, Whole, c
    <3> QED
      BY <2>8, <3>4, <3>5
  <2>9. CASE PointMissed(i) /\ i \notin Stale
    <3>1. exhausted' = exhausted /\ task[i].at = "answered" /\ i \in Busy
      BY <2>1, <2>9 DEF PointMissed, exhausted, Busy
    <3>2. Tickets' \subseteq Tickets /\ Stale' = Stale
      BY <1>1, <1>8, <2>9, <3>1, TicketsKept
    <3>3. over' - Cardinality(Counted') = over - c
      <4>1. CASE i \in Counted
        <5>1. over' = over - 1
          BY <2>9, <4>1 DEF PointMissed, Unheard, Counted
        <5> QED
          BY <1>2, <2>2, <2>3, <4>1, <5>1
      <4>2. CASE i \notin Counted
        <5>1. over' = over /\ Counted' = Counted
          BY <2>2, <2>9, <4>2 DEF PointMissed, Unheard, Counted
        <5> QED
          BY <5>1 DEF c
      <4> QED
        BY <4>1, <4>2
    <3> QED
      BY <1>6, <3>1, <3>2, <3>3
  <2> QED
    BY <2>1, <2>5, <2>6, <2>7, <2>8, <2>9
<1> QED
  BY <1>7, <1>8

LEMMA LossInvStep ==
  ASSUME RunInv, RunInv', LossInv, [CrawlNext]_crawling
  PROVE  LossInv' \/ over' = 0
<1>1. ASSUME NEW i \in List, Fetch(i)
      PROVE  LossInv' \/ over' = 0
  BY <1>1, FetchLoss
<1>2. CASE Run \/ UNCHANGED crawling \/ (Signal /\ ~finished)
  <2>1. UNCHANGED fetching
    BY <1>2 DEF Run, OpenRun, OpenRunFails, Worklist, WorklistFails, Complete, Abort, Exit,
                Lands, LandsNot, Signal, crawling
  <2> QED
    BY <2>1 DEF fetching, LossInv, Heard, Room, Tickets, Fetches, Busy, Stale, Counted, exhausted,
                Openings, Whole
<1>3. CASE NewHour \/ Kill \/ (Signal /\ finished)
  BY <1>3 DEF NewHour, Kill, Signal, CutShort
<1> QED
  BY <1>1, <1>2, <1>3 DEF CrawlNext

(* An hour loses of the reserve at most what a pool can hold, and what     *)
(* each older answer lets begin again, in any order of answers, 404s and   *)
(* hours (quota.ts, crawler/index.ts).                                     *)
THEOREM ReserveIsKept == CrawlSpec => []OverspendBounded
<1>1. CrawlInit => RunInv /\ LossInv
  <2>1. CrawlInit => over = 0
    BY DEF CrawlInit
  <2> QED
    BY <2>1, RunInvInit, NothingLost
<1>2. RunInv /\ LossInv /\ [CrawlNext]_crawling => (RunInv /\ LossInv)'
  <2>1. RunInv /\ LossInv /\ [CrawlNext]_crawling => RunInv' /\ (LossInv' \/ over' = 0)
    BY RunInvStep, LossInvStep
  <2>2. (RunInv /\ over = 0 => LossInv)'
    BY NothingLost, PTL
  <2> QED
    BY <2>1, <2>2
<1>3. RunInv /\ LossInv => OverspendBounded
  BY LossBounds
<1> QED
  BY <1>1, <1>2, <1>3, PTL DEF CrawlSpec

-----------------------------------------------------------------------------
(***************************************************************************)
(* The search client, for any number of calls, any times and any headers:  *)
(* no request leaves too soon.                                             *)
(***************************************************************************)
ClientSpec == ClientInit /\ [][ClientNext]_client

ClientTypeOK ==
  /\ gate \in Nat /\ alarm \in Nat /\ quiet \in Nat /\ since \in Nat
  /\ pc \in [Callers -> {"idle", "queued", "asleep", "inflight", "backoff", "ended"}]

(* The gate of the pacer covers the penalties and what is left of the last *)
(* interval, whatever the call that sleeps was told to wait.               *)
GateCovers == quiet =< gate /\ MinInterval =< gate + since

Paced == ClientTypeOK /\ GateCovers

LEMMA PacedInit == ClientInit => Paced
BY TimesAssumption DEF ClientInit, Paced, ClientTypeOK, GateCovers

LEMMA ThrottleWaits ==
  ASSUME NEW retryAfter \in Headers, NEW reset \in Headers
  PROVE  ThrottleWait(retryAfter, reset) \in Nat
BY TimesAssumption DEF ThrottleWait, Smaller

(* A turn is taken only when the gate is open. *)
LEMMA TurnIsTimely ==
  ASSUME Paced, NEW c \in Callers, TakeTurn(c), UNCHANGED quiet
  PROVE  /\ Paced'
         /\ \A d \in Callers : pc'[d] = "inflight" /\ pc[d] # "inflight" =>
              quiet = 0 /\ since >= MinInterval
<1>1. CASE gate > 0
  BY <1>1 DEF TakeTurn, Paced, ClientTypeOK, GateCovers
<1>2. CASE ~(gate > 0)
  BY <1>2, TimesAssumption DEF TakeTurn, Paced, ClientTypeOK, GateCovers
<1>3. QED
  BY <1>1, <1>2

(* Every other step leaves the gate or raises it, or lets time pass. *)
LEMMA PacedStep ==
  Paced /\ [ClientNext]_client =>
    /\ Paced'
    /\ \A c \in Callers : pc'[c] = "inflight" /\ pc[c] # "inflight" =>
         quiet = 0 /\ since >= MinInterval
<1> SUFFICES ASSUME Paced, [ClientNext]_client
             PROVE  /\ Paced'
                    /\ \A c \in Callers : pc'[c] = "inflight" /\ pc[c] # "inflight" =>
                         quiet = 0 /\ since >= MinInterval
  OBVIOUS
<1>0. /\ MinInterval \in Nat \ {0}
      /\ gate \in Nat /\ alarm \in Nat /\ quiet \in Nat /\ since \in Nat
      /\ pc \in [Callers -> {"idle", "queued", "asleep", "inflight", "backoff", "ended"}]
      /\ quiet =< gate /\ MinInterval =< gate + since
  BY TimesAssumption DEF Paced, ClientTypeOK, GateCovers
<1> USE DEF Paced, ClientTypeOK, GateCovers
<1>1. CASE Tick
  BY <1>0, <1>1 DEF Tick, Less, Smaller
<1>2. ASSUME NEW c \in Callers, Turn(c) \/ Wake(c)
      PROVE  /\ Paced'
             /\ \A d \in Callers : pc'[d] = "inflight" /\ pc[d] # "inflight" =>
                  quiet = 0 /\ since >= MinInterval
  BY <1>2, TurnIsTimely DEF Turn, Wake
<1>3. ASSUME NEW c \in Callers, Page(c) \/ Answered(c) \/ Transient(c) \/ Resume(c)
      PROVE  /\ Paced'
             /\ \A d \in Callers : pc'[d] = "inflight" => pc[d] = "inflight"
  BY <1>0, <1>3 DEF Page, Answered, Transient, Resume, Wait, End
<1>4. ASSUME NEW c \in Callers, Throttled(c)
      PROVE  /\ Paced'
             /\ \A d \in Callers : pc'[d] = "inflight" => pc[d] = "inflight"
  <2>1. PICK ms \in Nat : gate' = Larger(gate, ms) /\ quiet' = Larger(quiet, ms)
    BY <1>4, ThrottleWaits DEF Throttled, Penalise
  <2>2. UNCHANGED <<alarm, since>>
    BY <1>4 DEF Throttled
  <2>3. /\ pc' \in [Callers -> {"idle", "queued", "asleep", "inflight", "backoff", "ended"}]
        /\ \A d \in Callers : pc'[d] = "inflight" => pc[d] = "inflight"
    BY <1>0, <1>4 DEF Throttled, AfterThrottle, Wait, End
  <2>4. QED
    BY <1>0, <2>1, <2>2, <2>3 DEF Larger
<1>5. CASE UNCHANGED client
  BY <1>0, <1>5 DEF client, pacer, calls
<1>6. QED
  BY <1>1, <1>2, <1>3, <1>4, <1>5 DEF ClientNext, Answer, Tick

(* NoRequestTooSoon, for every instance (RatePacer.waitTurn, penalise).     *)
THEOREM RequestsAreTimely == ClientSpec => NoRequestTooSoon
<1>1. Paced /\ [ClientNext]_client
        => [\A c \in Callers : pc'[c] = "inflight" /\ pc[c] # "inflight" =>
              quiet = 0 /\ since >= MinInterval]_client
  BY PacedStep
<1>2. Paced /\ [ClientNext]_client => Paced'
  BY PacedStep
<1>3. QED
  BY PacedInit, <1>1, <1>2, PTL DEF ClientSpec, NoRequestTooSoon

-----------------------------------------------------------------------------
(* The windows of the search: what follows is of SearchWindows alone.      *)

YearsOfGithub == {y \in Nat : y >= GITHUB_EPOCH_YEAR}
EarlyYears == [kind |-> "years", from |-> GITHUB_EPOCH_YEAR, to |-> EARLY_YEARS_END]
YearWindows == [kind : {"year"}, year : YearsOfGithub]
QuarterWindows == [kind : {"quarter"}, year : YearsOfGithub, quarter : 1..4]
MonthWindows == [kind : {"month"}, year : YearsOfGithub, month : 1..12]
DayWindows == [kind : {"day"}, date : YearsOfGithub \X (1..12) \X (1..31)]
Ranges == {Always, EarlyYears} \cup YearWindows \cup QuarterWindows \cup MonthWindows \cup DayWindows
Windows == [stars : Range(STAR_BANDS), created : Ranges]

Level == [always |-> 1, years |-> 2, year |-> 3, quarter |-> 4, month |-> 5, day |-> 6]
LevelOf(w) == Level[w.created.kind]

WindowsTypeOK ==
  /\ repo \in Repositories /\ year \in Years /\ total \in Totals
  /\ trail \in Seq(Windows) /\ Len(trail) > 0

(* The windows of a trail are each a part of the one before, and the       *)
(* repository is in the last.                                              *)
TrailInv ==
  /\ Holds(Last, repo)
  /\ \A i \in 1..(Len(trail) - 1) : LevelOf(trail[i]) < LevelOf(Last)

WindowsInv == WindowsTypeOK /\ TrailInv
-----------------------------------------------------------------------------
(* The calendar: where the years and the months begin.                     *)
LeapDay(y) == IF Leap(y) THEN 1 ELSE 0

LEMMA YearLengths ==
  ASSUME NEW y \in Nat
  PROVE  /\ DayFromYear(y) \in Int
         /\ DayFromYear(y + 1) = DayFromYear(y) + 365 + LeapDay(y)
<1>1. (y - 1968) \div 4 = (y - 1969) \div 4 + (IF y % 4 = 0 THEN 1 ELSE 0)
  OBVIOUS
<1>2. (y - 1900) \div 100 = (y - 1901) \div 100 + (IF y % 100 = 0 THEN 1 ELSE 0)
  OBVIOUS
<1>3. (y - 1600) \div 400 = (y - 1601) \div 400 + (IF y % 400 = 0 THEN 1 ELSE 0)
  OBVIOUS
<1>4. (y % 400 = 0 => y % 100 = 0) /\ (y % 100 = 0 => y % 4 = 0)
  OBVIOUS
<1>5. DayFromYear(y) \in Int
  BY DEF DayFromYear
<1>6. DayFromYear(y + 1) = 365 * (y - 1970) + 365 + (y - 1968) \div 4 - (y - 1900) \div 100 + (y - 1600) \div 400
  BY DEF DayFromYear
<1>7. LeapDay(y) = (IF y % 4 = 0 THEN 1 ELSE 0) - (IF y % 100 = 0 THEN 1 ELSE 0)
                   + (IF y % 400 = 0 THEN 1 ELSE 0)
  BY <1>4 DEF LeapDay, Leap
<1> QED BY <1>1, <1>2, <1>3, <1>5, <1>6, <1>7 DEF DayFromYear

LEMMA MonthStarts ==
  /\ MonthStart[1] = 0 /\ MonthStart[2] = 31 /\ MonthStart[3] = 59 /\ MonthStart[4] = 90
  /\ MonthStart[5] = 120 /\ MonthStart[6] = 151 /\ MonthStart[7] = 181 /\ MonthStart[8] = 212
  /\ MonthStart[9] = 243 /\ MonthStart[10] = 273 /\ MonthStart[11] = 304 /\ MonthStart[12] = 334
BY DEF MonthStart

Start(y, m) ==
  IF m = 13 THEN DayFromYear(y + 1)
  ELSE DayFromYear(y) + MonthStart[m] + (IF m > 2 THEN LeapDay(y) ELSE 0)

LEMMA FirstsOfMonths ==
  ASSUME NEW y \in Nat
  PROVE  /\ DayFromYear(y) \in Int /\ LeapDay(y) \in {0, 1}
         /\ Start(y, 1) = DayFromYear(y) /\ Start(y, 2) = DayFromYear(y) + 31
         /\ Start(y, 3) = DayFromYear(y) + 59 + LeapDay(y)
         /\ Start(y, 4) = DayFromYear(y) + 90 + LeapDay(y)
         /\ Start(y, 5) = DayFromYear(y) + 120 + LeapDay(y)
         /\ Start(y, 6) = DayFromYear(y) + 151 + LeapDay(y)
         /\ Start(y, 7) = DayFromYear(y) + 181 + LeapDay(y)
         /\ Start(y, 8) = DayFromYear(y) + 212 + LeapDay(y)
         /\ Start(y, 9) = DayFromYear(y) + 243 + LeapDay(y)
         /\ Start(y, 10) = DayFromYear(y) + 273 + LeapDay(y)
         /\ Start(y, 11) = DayFromYear(y) + 304 + LeapDay(y)
         /\ Start(y, 12) = DayFromYear(y) + 334 + LeapDay(y)
         /\ Start(y, 13) = DayFromYear(y) + 365 + LeapDay(y)
         /\ Start(y, 13) = DayFromYear(y + 1)
<1>1. DayFromYear(y) \in Int /\ LeapDay(y) \in {0, 1}
  BY YearLengths DEF LeapDay
<1> QED BY <1>1, YearLengths, MonthStarts DEF Start

LEMMA StartIsDay == ASSUME NEW y \in Nat, NEW m \in 1..13 PROVE Start(y, m) \in Int
<1>1. DayFromYear(y) \in Int /\ LeapDay(y) \in {0, 1} /\ DayFromYear(y + 1) \in Int
  BY FirstsOfMonths, YearLengths
<1>2. \A k \in 1..12 : MonthStart[k] \in Int
  BY MonthStarts
<1> QED BY <1>1, <1>2 DEF Start

LEMMA DayIs ==
  ASSUME NEW y \in Nat, NEW m \in 1..12, NEW d \in Int
  PROVE  Day(y, m, d) = Start(y, m) + d - 1
<1>1. (m - 1) \div 12 = 0 /\ (m - 1) % 12 = m - 1
  OBVIOUS
<1>2. y + 0 = y /\ (m - 1) + 1 = m /\ (m - 1 > 1 <=> m > 2)
  OBVIOUS
<1>3. UTC(y, m - 1, d) = DayFromYear(y) + MonthStart[m] + (IF m > 2 /\ Leap(y) THEN 1 ELSE 0) + d - 1
  BY <1>1, <1>2 DEF UTC
<1> QED BY <1>3 DEF Start, Day, LeapDay

LEMMA MonthLengths ==
  ASSUME NEW y \in Nat, NEW m \in 1..12
  PROVE  daysInMonth(y, m) = Start(y, m + 1) - Start(y, m)
<1>0. Start(y, m) \in Int /\ Start(y, m + 1) \in Int /\ DayFromYear(y) \in Int /\ DayFromYear(y + 1) \in Int
  BY StartIsDay, FirstsOfMonths, YearLengths
<1>1. UTC(y, m - 1, 1) = Start(y, m)
  BY DayIs, <1>0 DEF Day
<1>2. UTC(y, m, 0) = Start(y, m + 1) - 1
  <2>1. CASE m < 12
    <3>1. m \div 12 = 0 /\ m % 12 = m /\ y + 0 = y /\ (m > 1 <=> m + 1 > 2)
      BY <2>1
    <3>2. UTC(y, m, 0) = DayFromYear(y) + MonthStart[m + 1] + (IF m > 1 /\ Leap(y) THEN 1 ELSE 0) + 0 - 1
      BY <3>1 DEF UTC
    <3>3. MonthStart[m + 1] \in Int
      BY <2>1, MonthStarts
    <3> QED BY <1>0, <2>1, <3>1, <3>2, <3>3 DEF Start, LeapDay
  <2>2. CASE m = 12
    <3>1. 12 \div 12 = 1 /\ 12 % 12 = 0
      OBVIOUS
    <3>2. UTC(y, 12, 0) = DayFromYear(y + 1) + MonthStart[1] + 0 + 0 - 1
      BY <3>1 DEF UTC
    <3>3. Start(y, 13) = DayFromYear(y + 1)
      BY FirstsOfMonths
    <3> QED BY <1>0, <2>2, <3>2, <3>3, MonthStarts
  <2> QED BY <2>1, <2>2
<1> QED BY <1>0, <1>1, <1>2 DEF daysInMonth

LEMMA MonthsHaveDays ==
  ASSUME NEW y \in Nat, NEW m \in 1..12
  PROVE  daysInMonth(y, m) \in 28..31
<1>1. m \in {1, 2, 3, 4} \/ m \in {5, 6, 7, 8} \/ m \in {9, 10, 11, 12}
  OBVIOUS
<1>2. Start(y, m + 1) - Start(y, m) \in 28..31
  <2>1. CASE m \in {1, 2, 3, 4}
    BY <2>1, FirstsOfMonths
  <2>2. CASE m \in {5, 6, 7, 8}
    BY <2>2, FirstsOfMonths
  <2>3. CASE m \in {9, 10, 11, 12}
    BY <2>3, FirstsOfMonths
  <2> QED BY <1>1, <2>1, <2>2, <2>3
<1> QED BY <1>2, MonthLengths

(* The first and the last day of each kind of range.                       *)
LEMMA YearRange ==
  ASSUME NEW y \in Nat
  PROVE  Day(y, 1, 1) = Start(y, 1) /\ Day(y, 12, 31) = Start(y, 13) - 1
<1>1. Day(y, 1, 1) = Start(y, 1) + 1 - 1 /\ Day(y, 12, 31) = Start(y, 12) + 31 - 1
  BY DayIs
<1> QED BY <1>1, FirstsOfMonths

LEMMA MonthRange ==
  ASSUME NEW y \in Nat, NEW m \in 1..12
  PROVE  Day(y, m, 1) = Start(y, m) /\ Day(y, m, daysInMonth(y, m)) = Start(y, m + 1) - 1
<1>1. Start(y, m) \in Int /\ Start(y, m + 1) \in Int /\ daysInMonth(y, m) = Start(y, m + 1) - Start(y, m)
  BY StartIsDay, MonthLengths
<1>2. Day(y, m, 1) = Start(y, m) + 1 - 1
      /\ Day(y, m, daysInMonth(y, m)) = Start(y, m) + daysInMonth(y, m) - 1
  BY <1>1, DayIs
<1> QED BY <1>1, <1>2

LEMMA KindsDiffer ==
  /\ Always.kind = "always"
  /\ EarlyYears.kind = "years" /\ EarlyYears.from = 2008 /\ EarlyYears.to = 2013
BY DEF Always, EarlyYears, GITHUB_EPOCH_YEAR, EARLY_YEARS_END

LEMMA EarlyRange == createdRange(EarlyYears) = <<Start(2008, 1), Start(2013, 13) - 1>>
<1>1. createdRange(EarlyYears) = <<Day(2008, 1, 1), Day(2013, 12, 31)>>
  BY KindsDiffer DEF createdRange
<1> QED BY <1>1, YearRange

LEMMA YearWindowRange ==
  ASSUME NEW c \in YearWindows
  PROVE  c.year \in Nat /\ createdRange(c) = <<Start(c.year, 1), Start(c.year, 13) - 1>>
<1>1. c.kind = "year" /\ c.year \in Nat
  BY DEF YearWindows, YearsOfGithub
<1>2. createdRange(c) = <<Day(c.year, 1, 1), Day(c.year, 12, 31)>>
  BY <1>1 DEF createdRange
<1> QED BY <1>1, <1>2, YearRange

LEMMA QuarterWindowRange ==
  ASSUME NEW c \in QuarterWindows
  PROVE  /\ c.year \in Nat /\ c.quarter \in 1..4
         /\ createdRange(c) = <<Start(c.year, 3 * c.quarter - 2), Start(c.year, 3 * c.quarter + 1) - 1>>
<1>1. c.kind = "quarter" /\ c.year \in Nat /\ c.quarter \in 1..4
  BY DEF QuarterWindows, YearsOfGithub
<1>2. PICK first \in 1..12, last \in 1..12 :
        first = (c.quarter - 1) * 3 + 1 /\ last = first + 2
  BY <1>1
<1>3. createdRange(c) = <<Day(c.year, first, 1), Day(c.year, last, daysInMonth(c.year, last))>>
  BY <1>1, <1>2 DEF createdRange
<1>4. createdRange(c) = <<Start(c.year, first), Start(c.year, last + 1) - 1>>
  BY <1>1, <1>3, MonthRange
<1>5. first = 3 * c.quarter - 2 /\ last + 1 = 3 * c.quarter + 1
  BY <1>1, <1>2
<1> QED BY <1>1, <1>4, <1>5

LEMMA MonthWindowRange ==
  ASSUME NEW c \in MonthWindows
  PROVE  /\ c.year \in Nat /\ c.month \in 1..12
         /\ createdRange(c) = <<Start(c.year, c.month), Start(c.year, c.month + 1) - 1>>
<1>1. c.kind = "month" /\ c.year \in Nat /\ c.month \in 1..12
  BY DEF MonthWindows, YearsOfGithub
<1>2. createdRange(c) = <<Day(c.year, c.month, 1), Day(c.year, c.month, daysInMonth(c.year, c.month))>>
  BY <1>1 DEF createdRange
<1> QED BY <1>1, <1>2, MonthRange

LEMMA DayWindowRange ==
  ASSUME NEW c \in DayWindows
  PROVE  /\ c.date[1] \in Nat /\ c.date[2] \in 1..12 /\ c.date[3] \in 1..31
         /\ createdRange(c) = <<Start(c.date[1], c.date[2]) + c.date[3] - 1>>
<1>1. c.kind = "day" /\ c.date[1] \in Nat /\ c.date[2] \in 1..12 /\ c.date[3] \in 1..31
  BY DEF DayWindows, YearsOfGithub
<1>2. createdRange(c) = <<Day(c.date[1], c.date[2], c.date[3])>>
  BY <1>1 DEF createdRange
<1>3. PICK y \in Nat, m \in 1..12, d \in 1..31 : y = c.date[1] /\ m = c.date[2] /\ d = c.date[3]
  BY <1>1
<1>4. Day(y, m, d) = Start(y, m) + d - 1
  BY DayIs
<1> QED BY <1>2, <1>3, <1>4

(* A range ends where or after it begins, and how long it is tells at what *)
(* level it is.                                                            *)
FirstDay(c) == createdRange(c)[1]
LastDay(c) == createdRange(c)[Len(createdRange(c))]
Spans(c, n, shortest, longest) ==
  Len(createdRange(c)) = n /\ FirstDay(c) \in Int /\ LastDay(c) \in Int
    /\ LastDay(c) - FirstDay(c) \in shortest..longest

LEMMA EarlySpan == Spans(EarlyYears, 2, 2000, 3000)
<1>1. Start(2008, 1) = DayFromYear(2008) /\ Start(2013, 13) = DayFromYear(2014)
  BY FirstsOfMonths
<1>2. DayFromYear(2014) - 1 - DayFromYear(2008) = 2191 /\ DayFromYear(2014) \in Int /\ DayFromYear(2008) \in Int
  BY DEF DayFromYear
<1> QED BY <1>1, <1>2, EarlyRange DEF Spans, FirstDay, LastDay

LEMMA YearSpan == ASSUME NEW c \in YearWindows PROVE Spans(c, 2, 364, 365)
<1>1. PICK a \in Int, b \in Int : a = Start(c.year, 1) /\ b = Start(c.year, 13)
  BY YearWindowRange, StartIsDay
<1>2. b - 1 - a \in 364..365
  BY <1>1, YearWindowRange, FirstsOfMonths
<1>3. createdRange(c) = <<a, b - 1>>
  BY <1>1, YearWindowRange
<1> QED BY <1>2, <1>3 DEF Spans, FirstDay, LastDay

LEMMA QuarterSpan == ASSUME NEW c \in QuarterWindows PROVE Spans(c, 2, 89, 91)
<1>1. c.year \in Nat /\ c.quarter \in 1..4
  BY QuarterWindowRange
<1>2. PICK a \in Int, b \in Int : a = Start(c.year, 3 * c.quarter - 2) /\ b = Start(c.year, 3 * c.quarter + 1)
  BY <1>1, StartIsDay
<1>3. b - 1 - a \in 89..91
  <2>1. \/ a = Start(c.year, 1) /\ b = Start(c.year, 4)
        \/ a = Start(c.year, 4) /\ b = Start(c.year, 7)
        \/ a = Start(c.year, 7) /\ b = Start(c.year, 10)
        \/ a = Start(c.year, 10) /\ b = Start(c.year, 13)
    BY <1>1, <1>2
  <2> QED BY <1>1, <2>1, FirstsOfMonths
<1>4. createdRange(c) = <<a, b - 1>>
  BY <1>2, QuarterWindowRange
<1> QED BY <1>3, <1>4 DEF Spans, FirstDay, LastDay

LEMMA MonthSpan == ASSUME NEW c \in MonthWindows PROVE Spans(c, 2, 27, 30)
<1>1. c.year \in Nat /\ c.month \in 1..12
  BY MonthWindowRange
<1>2. PICK a \in Int, b \in Int : a = Start(c.year, c.month) /\ b = Start(c.year, c.month + 1)
  BY <1>1, StartIsDay
<1>3. b - 1 - a \in 27..30
  BY <1>1, <1>2, MonthsHaveDays, MonthLengths
<1>4. createdRange(c) = <<a, b - 1>>
  BY <1>2, MonthWindowRange
<1> QED BY <1>3, <1>4 DEF Spans, FirstDay, LastDay

LEMMA DaySpan == ASSUME NEW c \in DayWindows PROVE Spans(c, 1, 0, 0)
<1>1. c.date[1] \in Nat /\ c.date[2] \in 1..12 /\ c.date[3] \in 1..31
  BY DayWindowRange
<1>2. PICK a \in Int : a = Start(c.date[1], c.date[2]) + c.date[3] - 1
  BY <1>1, StartIsDay
<1>3. createdRange(c) = <<a>>
  BY <1>2, DayWindowRange
<1> QED BY <1>3 DEF Spans, FirstDay, LastDay

-----------------------------------------------------------------------------
(* The parts a range is cut into.                                          *)
Parts(c, y) == Range(splitCreated(c, y))
YearsBetween(a, b) == {[kind |-> "year", year |-> y] : y \in a..b}

LEMMA FunctionIsSequence ==
  ASSUME NEW n \in Nat, NEW S, NEW f \in [1..n -> S]
  PROVE  f \in Seq(S) /\ Range(f) = {f[i] : i \in 1..n}
BY SeqDef DEF Range

LEMMA YearsFromAre ==
  ASSUME NEW a \in Nat, NEW b \in Nat, a <= b
  PROVE  YearsFrom(a, b) \in Seq(YearsBetween(a, b)) /\ Range(YearsFrom(a, b)) = YearsBetween(a, b)
<1>1. PICK n \in Nat : n = b - a + 1
  OBVIOUS
<1> DEFINE f == [i \in 1..n |-> [kind |-> "year", year |-> a + i - 1]]
<1>2. YearsFrom(a, b) = f
  BY <1>1 DEF YearsFrom
<1>3. \A i \in 1..n : a + i - 1 \in a..b /\ f[i] \in YearsBetween(a, b)
  BY <1>1 DEF YearsBetween
<1>4. f \in [1..n -> YearsBetween(a, b)]
  BY <1>3
<1>5. ASSUME NEW y \in a..b PROVE \E i \in 1..n : f[i] = [kind |-> "year", year |-> y]
  <2>1. y - a + 1 \in 1..n /\ a + (y - a + 1) - 1 = y
    BY <1>1
  <2>2. f[y - a + 1] = [kind |-> "year", year |-> y]
    BY <2>1
  <2> QED BY <2>1, <2>2
<1>6. {f[i] : i \in 1..n} = YearsBetween(a, b)
  BY <1>3, <1>5 DEF YearsBetween
<1>7. f \in Seq(YearsBetween(a, b)) /\ Range(f) = {f[i] : i \in 1..n}
  <2>1. PICK g : g = f
    OBVIOUS
  <2>2. g \in [1..n -> YearsBetween(a, b)]
    BY <1>4, <2>1
  <2>3. g \in Seq(YearsBetween(a, b)) /\ Range(g) = {g[i] : i \in 1..n}
    BY <2>2, FunctionIsSequence
  <2> QED BY <2>1, <2>3
<1> HIDE DEF f
<1> QED BY <1>2, <1>6, <1>7

LEMMA YearsAreRanges ==
  ASSUME NEW a \in YearsOfGithub, NEW b \in Nat
  PROVE  YearsBetween(a, b) \subseteq YearWindows /\ YearWindows \subseteq Ranges
BY DEF YearsBetween, YearWindows, YearsOfGithub, GITHUB_EPOCH_YEAR, Ranges

LEMMA AlwaysParts ==
  ASSUME NEW y \in Nat, y > EARLY_YEARS_END
  PROVE  /\ splitCreated(Always, y) \in Seq(Ranges)
         /\ Parts(Always, y) = {EarlyYears} \cup YearsBetween(2014, y)
<1>1. splitCreated(Always, y) = <<EarlyYears>> \o YearsFrom(2014, y)
  BY KindsDiffer DEF splitCreated, EarlyYears, EARLY_YEARS_END
<1>2. PICK a \in Nat : a = 2014 /\ a <= y
  BY DEF EARLY_YEARS_END
<1>3. PICK s : s = YearsFrom(a, y)
  OBVIOUS
<1>4. s \in Seq(YearsBetween(a, y)) /\ Range(s) = YearsBetween(a, y)
  BY <1>2, <1>3, YearsFromAre
<1>5. YearsBetween(a, y) \subseteq Ranges /\ EarlyYears \in Ranges
  <2>1. a \in YearsOfGithub
    BY <1>2 DEF YearsOfGithub, GITHUB_EPOCH_YEAR
  <2> QED BY <2>1, YearsAreRanges DEF Ranges
<1> DEFINE t == <<EarlyYears>> \o s
<1>6. s \in Seq(Ranges) /\ <<EarlyYears>> \in Seq(Ranges)
  BY <1>4, <1>5, SeqMonotonic
<1>7. t \in Seq(Ranges)
  BY <1>6
<1>8. /\ Len(s) \in Nat /\ DOMAIN t = 1..(Len(s) + 1)
      /\ t[1] = EarlyYears /\ \A i \in 1..Len(s) : t[i + 1] = s[i]
  BY <1>6
<1> HIDE DEF t
<1>9. Range(t) = {EarlyYears} \cup Range(s)
  <2>1. Range(t) = {t[i] : i \in 1..(Len(s) + 1)} /\ Range(s) = {s[i] : i \in 1..Len(s)}
    BY <1>6, <1>8 DEF Range
  <2>2. Range(t) \subseteq {EarlyYears} \cup Range(s)
    <3> SUFFICES ASSUME NEW i \in 1..(Len(s) + 1) PROVE t[i] \in {EarlyYears} \cup Range(s)
      BY <2>1
    <3>1. CASE i = 1
      BY <1>8, <3>1
    <3>2. CASE i # 1
      <4>1. PICK j \in 1..Len(s) : i = j + 1
        BY <1>8, <3>2
      <4>2. t[i] = s[j]
        BY <1>8, <4>1
      <4> QED BY <2>1, <4>2
    <3> QED BY <3>1, <3>2
  <2>3. EarlyYears \in Range(t)
    <3>1. 1 \in 1..(Len(s) + 1)
      BY <1>8
    <3> QED BY <1>8, <2>1, <3>1
  <2>4. ASSUME NEW i \in 1..Len(s) PROVE s[i] \in Range(t)
    <3>1. i + 1 \in 1..(Len(s) + 1)
      BY <1>8
    <3> QED BY <1>8, <2>1, <3>1
  <2> QED BY <2>1, <2>2, <2>3, <2>4
<1>10. splitCreated(Always, y) = t
  BY <1>1, <1>2, <1>3 DEF t
<1> QED BY <1>2, <1>4, <1>7, <1>9, <1>10 DEF Parts

LEMMA EarlyParts ==
  ASSUME NEW y
  PROVE  /\ splitCreated(EarlyYears, y) \in Seq(Ranges)
         /\ Parts(EarlyYears, y) = YearsBetween(2008, 2013)
<1>1. splitCreated(EarlyYears, y) = YearsFrom(2008, 2013)
  BY KindsDiffer DEF splitCreated
<1>2. PICK a \in Nat, b \in Nat : a = 2008 /\ b = 2013 /\ a <= b
  OBVIOUS
<1>3. YearsFrom(a, b) \in Seq(YearsBetween(a, b)) /\ Range(YearsFrom(a, b)) = YearsBetween(a, b)
  BY <1>2, YearsFromAre
<1>4. YearsBetween(a, b) \subseteq Ranges
  <2>1. a \in YearsOfGithub
    BY <1>2 DEF YearsOfGithub, GITHUB_EPOCH_YEAR
  <2> QED BY <2>1, YearsAreRanges
<1>5. YearsFrom(a, b) \in Seq(Ranges)
  BY <1>3, <1>4, SeqMonotonic
<1> QED BY <1>1, <1>2, <1>3, <1>5 DEF Parts

LEMMA YearParts ==
  ASSUME NEW c \in YearWindows, NEW y
  PROVE  /\ splitCreated(c, y) \in Seq(Ranges)
         /\ Parts(c, y) = {[kind |-> "quarter", year |-> c.year, quarter |-> q] : q \in 1..4}
<1>1. c.kind = "year" /\ c.year \in YearsOfGithub
  BY DEF YearWindows
<1> DEFINE f == [q \in 1..4 |-> [kind |-> "quarter", year |-> c.year, quarter |-> q]]
<1>2. splitCreated(c, y) = f
  BY <1>1 DEF splitCreated
<1>3. f \in [1..4 -> Ranges]
  BY <1>1 DEF Ranges, QuarterWindows
<1>4. Range(f) = {[kind |-> "quarter", year |-> c.year, quarter |-> q] : q \in 1..4}
  BY DEF Range
<1> HIDE DEF f
<1> QED BY <1>2, <1>3, <1>4, FunctionIsSequence DEF Parts

LEMMA QuarterParts ==
  ASSUME NEW c \in QuarterWindows, NEW y
  PROVE  /\ splitCreated(c, y) \in Seq(Ranges)
         /\ Parts(c, y) = {[kind |-> "month", year |-> c.year, month |-> (c.quarter - 1) * 3 + i] : i \in 1..3}
<1>1. c.kind = "quarter" /\ c.year \in YearsOfGithub /\ c.quarter \in 1..4
  BY DEF QuarterWindows
<1> DEFINE f == [i \in 1..3 |-> [kind |-> "month", year |-> c.year, month |-> (c.quarter - 1) * 3 + i]]
<1>2. splitCreated(c, y) = f
  BY <1>1 DEF splitCreated
<1>3. f \in [1..3 -> Ranges]
  <2>1. \A i \in 1..3 : (c.quarter - 1) * 3 + i \in 1..12
    BY <1>1
  <2> QED BY <1>1, <2>1 DEF Ranges, MonthWindows
<1>4. Range(f) = {[kind |-> "month", year |-> c.year, month |-> (c.quarter - 1) * 3 + i] : i \in 1..3}
  BY DEF Range
<1> HIDE DEF f
<1> QED BY <1>2, <1>3, <1>4, FunctionIsSequence DEF Parts

LEMMA MonthParts ==
  ASSUME NEW c \in MonthWindows, NEW y
  PROVE  /\ splitCreated(c, y) \in Seq(Ranges)
         /\ daysInMonth(c.year, c.month) \in 28..31
         /\ Parts(c, y) = {[kind |-> "day", date |-> <<c.year, c.month, d>>] :
                             d \in 1..daysInMonth(c.year, c.month)}
<1>1. c.kind = "month" /\ c.year \in YearsOfGithub /\ c.month \in 1..12
  BY DEF MonthWindows
<1>2. PICK n \in Nat : n = daysInMonth(c.year, c.month) /\ n \in 28..31
  BY MonthWindowRange, MonthsHaveDays
<1> DEFINE f == [d \in 1..n |-> [kind |-> "day", date |-> <<c.year, c.month, d>>]]
<1>3. splitCreated(c, y) = f
  BY <1>1, <1>2 DEF splitCreated
<1>4. f \in [1..n -> Ranges]
  <2>1. \A d \in 1..n : d \in 1..31
    BY <1>2
  <2> QED BY <1>1, <2>1 DEF Ranges, DayWindows
<1>5. Range(f) = {[kind |-> "day", date |-> <<c.year, c.month, d>>] : d \in 1..n}
  BY DEF Range
<1> HIDE DEF f
<1> QED BY <1>2, <1>3, <1>4, <1>5, FunctionIsSequence DEF Parts

LEMMA DayParts ==
  ASSUME NEW c \in DayWindows, NEW y
  PROVE  splitCreated(c, y) = <<>> /\ splitCreated(c, y) \in Seq(Ranges)
<1>1. c.kind = "day"
  BY DEF DayWindows
<1> QED BY <1>1 DEF splitCreated

-----------------------------------------------------------------------------
(* Every day is in one part.                                               *)
Within(c, day) == FirstDay(c) <= day /\ day <= LastDay(c)

(* A year begins within two days of where the mean Gregorian year puts it. *)
LEMMA MeanYear ==
  ASSUME NEW k \in Int
  PROVE  /\ DayFromYear(k + 1970) \in Int
         /\ 146097 * k - 506 <= 400 * DayFromYear(k + 1970)
         /\ 400 * DayFromYear(k + 1970) <= 146097 * k + 589
<1>1. PICK a \in Int : a = (k + 1) \div 4 /\ 4 * a <= k + 1 /\ k + 1 <= 4 * a + 3
  OBVIOUS
<1>2. PICK b \in Int : b = (k + 69) \div 100 /\ 100 * b <= k + 69 /\ k + 69 <= 100 * b + 99
  OBVIOUS
<1>3. PICK c \in Int : c = (k + 369) \div 400 /\ 400 * c <= k + 369 /\ k + 369 <= 400 * c + 399
  OBVIOUS
<1>4. /\ k + 1970 - 1970 = k /\ k + 1970 - 1969 = k + 1
      /\ k + 1970 - 1901 = k + 69 /\ k + 1970 - 1601 = k + 369
  OBVIOUS
<1>5. DayFromYear(k + 1970) = 365 * k + a - b + c
  BY <1>1, <1>2, <1>3, <1>4 DEF DayFromYear
<1> QED BY <1>1, <1>2, <1>3, <1>5

LEMMA YearsInOrder ==
  ASSUME NEW y \in Nat, NEW z \in Nat, y < z
  PROVE  DayFromYear(y + 1) \in Int /\ DayFromYear(z) \in Int /\ DayFromYear(y + 1) <= DayFromYear(z)
<1>1. PICK j \in Int, k \in Int : j = y + 1 - 1970 /\ k = z - 1970 /\ j <= k
  OBVIOUS
<1>2. DayFromYear(j + 1970) \in Int /\ 400 * DayFromYear(j + 1970) <= 146097 * j + 589
  BY MeanYear
<1>3. DayFromYear(k + 1970) \in Int /\ 146097 * k - 506 <= 400 * DayFromYear(k + 1970)
  BY MeanYear
<1>4. j + 1970 = y + 1 /\ k + 1970 = z
  BY <1>1
<1>5. CASE j = k
  BY <1>2, <1>4, <1>5
<1>6. CASE j < k
  BY <1>2, <1>3, <1>4, <1>6
<1> QED BY <1>1, <1>5, <1>6

(* Some year holds a given day.                                            *)
LEMMA SomeYear ==
  ASSUME NEW day \in Int, NEW a \in Nat, NEW b \in Nat, a <= b,
         DayFromYear(a) <= day, day < DayFromYear(b + 1)
  PROVE  \E y \in a..b : DayFromYear(y) <= day /\ day < DayFromYear(y + 1)
<1>1. PICK k \in Int : 146097 * k <= 400 * day /\ 400 * day <= 146097 * k + 146096
  <2>1. PICK n \in Int : n = 400 * day
    OBVIOUS
  <2>2. \A m \in Int : 146097 * (m \div 146097) <= m /\ m <= 146097 * (m \div 146097) + 146096
    OBVIOUS
  <2>3. PICK q \in Int : q = n \div 146097
    OBVIOUS
  <2>4. 146097 * q <= n /\ n <= 146097 * q + 146096
    BY <2>2, <2>3
  <2> QED BY <2>1, <2>4
<1>2. PICK y0 \in Int, y1 \in Int, y2 \in Int, y3 \in Int :
        y0 = k - 1 + 1970 /\ y1 = k + 1970 /\ y2 = k + 1 + 1970 /\ y3 = k + 2 + 1970
  OBVIOUS
<1>3. /\ DayFromYear(y0) \in Int /\ DayFromYear(y1) \in Int
      /\ DayFromYear(y2) \in Int /\ DayFromYear(y3) \in Int
      /\ 400 * DayFromYear(y0) <= 146097 * (k - 1) + 589
      /\ 146097 * (k + 2) - 506 <= 400 * DayFromYear(y3)
  BY <1>2, MeanYear
<1>4. DayFromYear(y0) <= day /\ day < DayFromYear(y3)
  BY <1>1, <1>3
<1>5. y0 + 1 = y1 /\ y1 + 1 = y2 /\ y2 + 1 = y3
  BY <1>2
<1>6. PICK y \in {y0, y1, y2} : DayFromYear(y) <= day /\ day < DayFromYear(y + 1)
  <2>1. CASE day < DayFromYear(y1)
    BY <1>4, <1>5, <2>1
  <2>2. CASE DayFromYear(y1) <= day /\ day < DayFromYear(y2)
    BY <1>5, <2>2
  <2>3. CASE DayFromYear(y2) <= day
    BY <1>4, <1>5, <2>3
  <2> QED BY <1>3, <2>1, <2>2, <2>3
<1>7. y \in Int
  BY <1>2, <1>6
<1>8. a <= y
  <2> SUFFICES ASSUME y < a PROVE FALSE
    BY <1>7
  <2>1. DayFromYear(y + 1) <= DayFromYear(a) /\ DayFromYear(a) \in Int
    <3>1. PICK j \in Int, l \in Int : j = y + 1 - 1970 /\ l = a - 1970 /\ j <= l
      BY <1>7
    <3>2. DayFromYear(j + 1970) \in Int /\ 400 * DayFromYear(j + 1970) <= 146097 * j + 589
      BY MeanYear
    <3>3. DayFromYear(l + 1970) \in Int /\ 146097 * l - 506 <= 400 * DayFromYear(l + 1970)
      BY MeanYear
    <3>4. j + 1970 = y + 1 /\ l + 1970 = a
      BY <3>1, <1>7
    <3>5. CASE j = l
      BY <3>2, <3>4, <3>5
    <3>6. CASE j < l
      BY <3>2, <3>3, <3>4, <3>6
    <3> QED BY <3>1, <3>5, <3>6
  <2>2. DayFromYear(y + 1) \in Int
    BY <1>3, <1>5, <1>6
  <2> QED BY <1>6, <2>1, <2>2
<1>9. y <= b
  <2> SUFFICES ASSUME b < y PROVE FALSE
    BY <1>7
  <2>1. y \in Nat
    BY <1>7
  <2>2. DayFromYear(b + 1) <= DayFromYear(y) /\ DayFromYear(y) \in Int /\ DayFromYear(b + 1) \in Int
    BY <2>1, YearsInOrder
  <2> QED BY <1>6, <2>2
<1> QED BY <1>6, <1>7, <1>8, <1>9

(* The days that each kind of range holds.                                 *)
LEMMA WithinEarly ==
  ASSUME NEW day \in Int
  PROVE  Within(EarlyYears, day) <=> (DayFromYear(2008) <= day /\ day < DayFromYear(2014))
<1>1. PICK a \in Int, b \in Int : a = Start(2008, 1) /\ b = Start(2013, 13)
  BY StartIsDay
<1>2. a = DayFromYear(2008) /\ b = DayFromYear(2014)
  BY <1>1, FirstsOfMonths
<1>3. FirstDay(EarlyYears) = a /\ LastDay(EarlyYears) = b - 1
  BY <1>1, EarlyRange DEF FirstDay, LastDay
<1> QED BY <1>2, <1>3 DEF Within

LEMMA WithinYear ==
  ASSUME NEW c \in YearWindows, NEW day \in Int
  PROVE  Within(c, day) <=> (DayFromYear(c.year) <= day /\ day < DayFromYear(c.year + 1))
<1>1. PICK a \in Int, b \in Int : a = Start(c.year, 1) /\ b = Start(c.year, 13)
  BY YearWindowRange, StartIsDay
<1>2. a = DayFromYear(c.year) /\ b = DayFromYear(c.year + 1)
  <2>1. PICK y \in Nat : y = c.year
    BY YearWindowRange
  <2>2. Start(y, 1) = DayFromYear(y) /\ Start(y, 13) = DayFromYear(y + 1)
    BY FirstsOfMonths
  <2> QED BY <1>1, <2>1, <2>2
<1>3. createdRange(c) = <<a, b - 1>>
  BY <1>1, YearWindowRange
<1>4. FirstDay(c) = a /\ LastDay(c) = b - 1
  BY <1>3 DEF FirstDay, LastDay
<1> QED BY <1>2, <1>4 DEF Within

LEMMA WithinQuarter ==
  ASSUME NEW c \in QuarterWindows, NEW day \in Int
  PROVE  Within(c, day) <=> (Start(c.year, 3 * c.quarter - 2) <= day /\ day < Start(c.year, 3 * c.quarter + 1))
<1>1. c.year \in Nat /\ c.quarter \in 1..4
  BY QuarterWindowRange
<1>2. PICK a \in Int, b \in Int : a = Start(c.year, 3 * c.quarter - 2) /\ b = Start(c.year, 3 * c.quarter + 1)
  BY <1>1, StartIsDay
<1>3. createdRange(c) = <<a, b - 1>>
  BY <1>2, QuarterWindowRange
<1>4. FirstDay(c) = a /\ LastDay(c) = b - 1
  BY <1>3 DEF FirstDay, LastDay
<1> QED BY <1>2, <1>4 DEF Within

LEMMA WithinMonth ==
  ASSUME NEW c \in MonthWindows, NEW day \in Int
  PROVE  Within(c, day) <=> (Start(c.year, c.month) <= day /\ day < Start(c.year, c.month + 1))
<1>1. c.year \in Nat /\ c.month \in 1..12
  BY MonthWindowRange
<1>2. PICK a \in Int, b \in Int : a = Start(c.year, c.month) /\ b = Start(c.year, c.month + 1)
  BY <1>1, StartIsDay
<1>3. createdRange(c) = <<a, b - 1>>
  BY <1>2, MonthWindowRange
<1>4. FirstDay(c) = a /\ LastDay(c) = b - 1
  BY <1>3 DEF FirstDay, LastDay
<1> QED BY <1>2, <1>4 DEF Within

LEMMA WithinDay ==
  ASSUME NEW c \in DayWindows, NEW day \in Int
  PROVE  Within(c, day) <=> day = Start(c.date[1], c.date[2]) + c.date[3] - 1
<1>1. c.date[1] \in Nat /\ c.date[2] \in 1..12 /\ c.date[3] \in 1..31
  BY DayWindowRange
<1>2. PICK a \in Int : a = Start(c.date[1], c.date[2]) + c.date[3] - 1
  BY <1>1, StartIsDay
<1>3. createdRange(c) = <<a>>
  BY <1>2, DayWindowRange
<1>4. FirstDay(c) = a /\ LastDay(c) = a
  BY <1>3 DEF FirstDay, LastDay
<1> QED BY <1>2, <1>4 DEF Within

LEMMA YearMember ==
  ASSUME NEW a, NEW b, NEW c \in YearsBetween(a, b)
  PROVE  c.year \in a..b /\ c = [kind |-> "year", year |-> c.year]
BY DEF YearsBetween

LEMMA YearWithin ==
  ASSUME NEW day \in Int, NEW a \in YearsOfGithub, NEW b \in Nat, a <= b,
         DayFromYear(a) <= day, day < DayFromYear(b + 1)
  PROVE  \E c \in YearsBetween(a, b) : Within(c, day)
<1>1. a \in Nat
  BY DEF YearsOfGithub
<1>2. PICK y \in a..b : DayFromYear(y) <= day /\ day < DayFromYear(y + 1)
  BY <1>1, SomeYear
<1>3. PICK c : c = [kind |-> "year", year |-> y]
  OBVIOUS
<1>4. c \in YearsBetween(a, b) /\ c.year = y
  BY <1>3 DEF YearsBetween
<1>5. c \in YearWindows
  BY <1>4, YearsAreRanges
<1>6. Within(c, day)
  BY <1>2, <1>4, <1>5, WithinYear
<1> QED BY <1>4, <1>6

LEMMA YearsApart ==
  ASSUME NEW day \in Int, NEW c \in YearWindows, NEW d \in YearWindows,
         Within(c, day), Within(d, day)
  PROVE  c = d
<1>1. /\ c.year \in Nat /\ d.year \in Nat
      /\ c = [kind |-> "year", year |-> c.year] /\ d = [kind |-> "year", year |-> d.year]
  BY DEF YearWindows, YearsOfGithub
<1>2. PICK y \in Nat, z \in Nat : y = c.year /\ z = d.year
  BY <1>1
<1>3. /\ DayFromYear(y) <= day /\ day < DayFromYear(y + 1)
      /\ DayFromYear(z) <= day /\ day < DayFromYear(z + 1)
  BY <1>2, WithinYear
<1>4. ~(y < z)
  <2> SUFFICES ASSUME y < z PROVE FALSE
    OBVIOUS
  <2>1. DayFromYear(y + 1) \in Int /\ DayFromYear(z) \in Int /\ DayFromYear(y + 1) <= DayFromYear(z)
    BY YearsInOrder
  <2> QED BY <1>3, <2>1
<1>5. ~(z < y)
  <2> SUFFICES ASSUME z < y PROVE FALSE
    OBVIOUS
  <2>1. DayFromYear(z + 1) \in Int /\ DayFromYear(y) \in Int /\ DayFromYear(z + 1) <= DayFromYear(y)
    BY YearsInOrder
  <2> QED BY <1>3, <2>1
<1>6. y = z
  BY <1>4, <1>5
<1> QED BY <1>1, <1>2, <1>6

(* What a range covers: itself, and for the range with no dates, which has *)
(* no end, the days from GitHub's first to the last of the current year.   *)
Covers(c, y, day) ==
  IF c = Always THEN DayFromYear(GITHUB_EPOCH_YEAR) <= day /\ day < DayFromYear(y + 1)
  ELSE Within(c, day)

LEMMA AlwaysTiles ==
  ASSUME NEW y \in Nat, y > EARLY_YEARS_END, NEW day \in Int,
         DayFromYear(2008) <= day, day < DayFromYear(y + 1)
  PROVE  \E p \in Parts(Always, y) : Within(p, day)
<1>1. Parts(Always, y) = {EarlyYears} \cup YearsBetween(2014, y)
  BY AlwaysParts
<1>2. PICK a \in YearsOfGithub : a = 2014 /\ a <= y
  BY DEF YearsOfGithub, GITHUB_EPOCH_YEAR, EARLY_YEARS_END
<1>3. DayFromYear(2014) \in Int
  BY FirstsOfMonths
<1>4. CASE day < DayFromYear(2014)
  BY <1>1, <1>4, WithinEarly
<1>5. CASE DayFromYear(2014) <= day
  <2>1. \E c \in YearsBetween(a, y) : Within(c, day)
    BY <1>2, <1>5, YearWithin
  <2> QED BY <1>1, <1>2, <2>1
<1> QED BY <1>3, <1>4, <1>5

LEMMA AlwaysApart ==
  ASSUME NEW y \in Nat, y > EARLY_YEARS_END, NEW day \in Int,
         NEW p \in Parts(Always, y), NEW q \in Parts(Always, y), Within(p, day), Within(q, day)
  PROVE  p = q
<1>1. Parts(Always, y) = {EarlyYears} \cup YearsBetween(2014, y)
  BY AlwaysParts
<1>2. PICK a \in YearsOfGithub : a = 2014 /\ a <= y /\ a > 2013
  BY DEF YearsOfGithub, GITHUB_EPOCH_YEAR, EARLY_YEARS_END
<1>3. YearsBetween(a, y) \subseteq YearWindows
  BY <1>2, YearsAreRanges
<1>4. ASSUME NEW c \in YearsBetween(a, y), Within(c, day), Within(EarlyYears, day) PROVE FALSE
  <2>1. PICK z \in Nat, b \in Nat : z = c.year /\ b = 2013 /\ b < z
    BY <1>2, YearMember
  <2>2. DayFromYear(z) <= day /\ day < DayFromYear(z + 1)
    BY <1>3, <1>4, <2>1, WithinYear
  <2>3. DayFromYear(b + 1) \in Int /\ DayFromYear(z) \in Int /\ DayFromYear(b + 1) <= DayFromYear(z)
    BY <2>1, YearsInOrder
  <2>4. day < DayFromYear(b + 1)
    BY <1>4, <2>1, WithinEarly
  <2> QED BY <2>2, <2>3, <2>4
<1> QED BY <1>1, <1>2, <1>3, <1>4, YearsApart

LEMMA EarlyTiles ==
  ASSUME NEW y, NEW day \in Int, Within(EarlyYears, day)
  PROVE  \E p \in Parts(EarlyYears, y) : Within(p, day)
<1>1. PICK a \in YearsOfGithub, b \in Nat : a = 2008 /\ b = 2013 /\ a <= b
  BY DEF YearsOfGithub, GITHUB_EPOCH_YEAR
<1>2. DayFromYear(a) <= day /\ day < DayFromYear(b + 1)
  BY <1>1, WithinEarly
<1>3. \E c \in YearsBetween(a, b) : Within(c, day)
  BY <1>1, <1>2, YearWithin
<1> QED BY <1>1, <1>3, EarlyParts

LEMMA EarlyApart ==
  ASSUME NEW y, NEW day \in Int,
         NEW p \in Parts(EarlyYears, y), NEW q \in Parts(EarlyYears, y), Within(p, day), Within(q, day)
  PROVE  p = q
<1>1. PICK a \in YearsOfGithub, b \in Nat : a = 2008 /\ b = 2013
  BY DEF YearsOfGithub, GITHUB_EPOCH_YEAR
<1>2. Parts(EarlyYears, y) \subseteq YearWindows
  BY <1>1, EarlyParts, YearsAreRanges
<1> QED BY <1>2, YearsApart

(* The member of a set of parts, by its index.                             *)
QuarterOf(y, q) == [kind |-> "quarter", year |-> y, quarter |-> q]
MonthOf(y, m) == [kind |-> "month", year |-> y, month |-> m]
DayOf(y, m, d) == [kind |-> "day", date |-> <<y, m, d>>]

LEMMA QuarterHolds ==
  ASSUME NEW y \in YearsOfGithub, NEW q \in 1..4, NEW day \in Int
  PROVE  Within(QuarterOf(y, q), day) <=> (Start(y, 3 * q - 2) <= day /\ day < Start(y, 3 * q + 1))
<1>1. PICK c : c = QuarterOf(y, q)
  OBVIOUS
<1>2. c \in QuarterWindows /\ c.year = y /\ c.quarter = q
  BY <1>1 DEF QuarterOf, QuarterWindows
<1> QED BY <1>1, <1>2, WithinQuarter

LEMMA MonthHolds ==
  ASSUME NEW y \in YearsOfGithub, NEW m \in 1..12, NEW day \in Int
  PROVE  Within(MonthOf(y, m), day) <=> (Start(y, m) <= day /\ day < Start(y, m + 1))
<1>1. PICK c : c = MonthOf(y, m)
  OBVIOUS
<1>2. c \in MonthWindows /\ c.year = y /\ c.month = m
  BY <1>1 DEF MonthOf, MonthWindows
<1> QED BY <1>1, <1>2, WithinMonth

LEMMA DayHolds ==
  ASSUME NEW y \in YearsOfGithub, NEW m \in 1..12, NEW d \in 1..31, NEW day \in Int
  PROVE  Within(DayOf(y, m, d), day) <=> day = Start(y, m) + d - 1
<1>1. PICK c : c = DayOf(y, m, d)
  OBVIOUS
<1>2. c \in DayWindows /\ c.date[1] = y /\ c.date[2] = m /\ c.date[3] = d
  BY <1>1 DEF DayOf, DayWindows
<1> QED BY <1>1, <1>2, WithinDay

LEMMA YearPartsAre ==
  ASSUME NEW c \in YearWindows, NEW y
  PROVE  c.year \in YearsOfGithub /\ Parts(c, y) = {QuarterOf(c.year, q) : q \in 1..4}
BY YearParts DEF QuarterOf, YearWindows

LEMMA QuarterPartsAre ==
  ASSUME NEW c \in QuarterWindows, NEW y
  PROVE  /\ c.year \in YearsOfGithub /\ c.quarter \in 1..4
         /\ Parts(c, y) = {MonthOf(c.year, (c.quarter - 1) * 3 + i) : i \in 1..3}
BY QuarterParts DEF MonthOf, QuarterWindows

LEMMA MonthPartsAre ==
  ASSUME NEW c \in MonthWindows, NEW y
  PROVE  /\ c.year \in YearsOfGithub /\ c.month \in 1..12
         /\ daysInMonth(c.year, c.month) \in 28..31
         /\ Parts(c, y) = {DayOf(c.year, c.month, d) : d \in 1..daysInMonth(c.year, c.month)}
BY MonthParts DEF DayOf, MonthWindows

LEMMA YearTiles ==
  ASSUME NEW c \in YearWindows, NEW y, NEW day \in Int, Within(c, day)
  PROVE  \E p \in Parts(c, y) : Within(p, day)
<1>1. PICK z \in YearsOfGithub : z = c.year /\ Parts(c, y) = {QuarterOf(z, q) : q \in 1..4}
  BY YearPartsAre
<1>2. z \in Nat
  BY DEF YearsOfGithub
<1>3. Start(z, 1) <= day /\ day < Start(z, 13)
  BY <1>1, <1>2, FirstsOfMonths, WithinYear
<1>4. Start(z, 1) \in Int /\ Start(z, 4) \in Int /\ Start(z, 7) \in Int /\ Start(z, 10) \in Int /\ Start(z, 13) \in Int
  BY <1>2, StartIsDay
<1>5. PICK q \in 1..4 : Start(z, 3 * q - 2) <= day /\ day < Start(z, 3 * q + 1)
  <2>1. CASE day < Start(z, 4)
    BY <1>3, <2>1
  <2>2. CASE Start(z, 4) <= day /\ day < Start(z, 7)
    BY <2>2
  <2>3. CASE Start(z, 7) <= day /\ day < Start(z, 10)
    BY <2>3
  <2>4. CASE Start(z, 10) <= day
    BY <1>3, <2>4
  <2> QED BY <1>4, <2>1, <2>2, <2>3, <2>4
<1> QED BY <1>1, <1>5, QuarterHolds

LEMMA YearApart ==
  ASSUME NEW c \in YearWindows, NEW y, NEW day \in Int,
         NEW p \in Parts(c, y), NEW q \in Parts(c, y), Within(p, day), Within(q, day)
  PROVE  p = q
<1>1. PICK z \in YearsOfGithub : z = c.year /\ Parts(c, y) = {QuarterOf(z, i) : i \in 1..4}
  BY YearPartsAre
<1>2. z \in Nat
  BY DEF YearsOfGithub
<1>3. PICK i \in 1..4, j \in 1..4 : p = QuarterOf(z, i) /\ q = QuarterOf(z, j)
  BY <1>1
<1>4. /\ Start(z, 3 * i - 2) <= day /\ day < Start(z, 3 * i + 1)
      /\ Start(z, 3 * j - 2) <= day /\ day < Start(z, 3 * j + 1)
  BY <1>3, QuarterHolds
<1>5. i = j
  <2>0. PICK a \in Int, l \in {0, 1} : a = DayFromYear(z) /\ l = LeapDay(z)
    BY <1>2, FirstsOfMonths
  <2>1. /\ a + 90 + l = Start(z, 4) /\ a + 181 + l = Start(z, 7)
        /\ a + 273 + l = Start(z, 10) /\ a + 365 + l = Start(z, 13) /\ a = Start(z, 1)
    BY <1>2, <2>0, FirstsOfMonths
  <2>2. \A k \in 1..4 : Start(z, 3 * k - 2) <= day /\ day < Start(z, 3 * k + 1) =>
          \/ k = 1 /\ a <= day /\ day < a + 90 + l
          \/ k = 2 /\ a + 90 + l <= day /\ day < a + 181 + l
          \/ k = 3 /\ a + 181 + l <= day /\ day < a + 273 + l
          \/ k = 4 /\ a + 273 + l <= day /\ day < a + 365 + l
    <3> SUFFICES ASSUME NEW k \in 1..4, Start(z, 3 * k - 2) <= day, day < Start(z, 3 * k + 1)
                 PROVE  \/ k = 1 /\ a <= day /\ day < a + 90 + l
                        \/ k = 2 /\ a + 90 + l <= day /\ day < a + 181 + l
                        \/ k = 3 /\ a + 181 + l <= day /\ day < a + 273 + l
                        \/ k = 4 /\ a + 273 + l <= day /\ day < a + 365 + l
      OBVIOUS
    <3>1. k = 1 \/ k = 2 \/ k = 3 \/ k = 4
      OBVIOUS
    <3> QED BY <2>1, <3>1
  <2> QED BY <1>4, <2>1, <2>2
<1> QED BY <1>3, <1>5

LEMMA QuarterTiles ==
  ASSUME NEW c \in QuarterWindows, NEW y, NEW day \in Int, Within(c, day)
  PROVE  \E p \in Parts(c, y) : Within(p, day)
<1>1. PICK z \in YearsOfGithub, q \in 1..4 : z = c.year /\ q = c.quarter
  BY QuarterPartsAre
<1>2. z \in Nat
  BY DEF YearsOfGithub
<1>3. PICK m \in 1..10 : m = 3 * q - 2
  OBVIOUS
<1>4. m + 3 = 3 * q + 1 /\ \A i \in 1..3 : (q - 1) * 3 + i = m + i - 1
  BY <1>3
<1>5. Start(z, m) <= day /\ day < Start(z, m + 3)
  BY <1>1, <1>3, <1>4, WithinQuarter
<1>6. PICK i \in 1..3 : Start(z, m + i - 1) <= day /\ day < Start(z, m + i)
  <2>1. Start(z, m) \in Int /\ Start(z, m + 1) \in Int /\ Start(z, m + 2) \in Int /\ Start(z, m + 3) \in Int
    BY <1>2, StartIsDay
  <2>2. m + 1 - 1 = m /\ m + 2 - 1 = m + 1 /\ m + 3 - 1 = m + 2
    OBVIOUS
  <2>3. CASE day < Start(z, m + 1)
    BY <1>5, <2>2, <2>3
  <2>4. CASE Start(z, m + 1) <= day /\ day < Start(z, m + 2)
    BY <2>2, <2>4
  <2>5. CASE Start(z, m + 2) <= day
    BY <1>5, <2>2, <2>5
  <2> QED BY <2>1, <2>3, <2>4, <2>5
<1>7. PICK k \in 1..12 : k = m + i - 1 /\ k + 1 = m + i /\ k = (q - 1) * 3 + i
  BY <1>4
<1>8. Within(MonthOf(z, k), day)
  BY <1>6, <1>7, MonthHolds
<1>9. MonthOf(z, k) \in Parts(c, y)
  BY <1>1, <1>7, QuarterPartsAre
<1> QED BY <1>8, <1>9

LEMMA MonthsApart ==
  ASSUME NEW z \in YearsOfGithub, NEW m \in 1..12, NEW n \in 1..12, NEW day \in Int,
         Within(MonthOf(z, m), day), Within(MonthOf(z, n), day)
  PROVE  m = n
<1>1. z \in Nat
  BY DEF YearsOfGithub
<1>2. /\ Start(z, m) <= day /\ day < Start(z, m + 1)
      /\ Start(z, n) <= day /\ day < Start(z, n + 1)
  BY MonthHolds
<1>3. \A i \in 1..12, j \in 1..12 : i < j => Start(z, i + 1) <= Start(z, j)
  <2> SUFFICES ASSUME NEW i \in 1..12, NEW j \in 1..12, i < j PROVE Start(z, i + 1) <= Start(z, j)
    OBVIOUS
  <2>1. PICK k \in 2..12 : k = i + 1 /\ k <= j
    OBVIOUS
  <2>2. PICK a \in Int, l \in {0, 1} : a = DayFromYear(z) /\ l = LeapDay(z)
    BY <1>1, FirstsOfMonths
  <2>3. \A h \in 2..12 : Start(z, h) = a + MonthStart[h] + (IF h > 2 THEN l ELSE 0)
    BY <2>2 DEF Start
  <2>4. MonthStart[k] \in Int /\ MonthStart[j] \in Int /\ MonthStart[k] <= MonthStart[j]
    <3>1. \/ k = 2 \/ k = 3 \/ k = 4 \/ k = 5 \/ k = 6 \/ k = 7
          \/ k = 8 \/ k = 9 \/ k = 10 \/ k = 11 \/ k = 12
      OBVIOUS
    <3>2. \/ j = 2 \/ j = 3 \/ j = 4 \/ j = 5 \/ j = 6 \/ j = 7
          \/ j = 8 \/ j = 9 \/ j = 10 \/ j = 11 \/ j = 12
      BY <2>1
    <3> QED BY <2>1, <3>1, <3>2, MonthStarts
  <2>5. Start(z, k) = a + MonthStart[k] + (IF k > 2 THEN l ELSE 0)
        /\ Start(z, j) = a + MonthStart[j] + (IF j > 2 THEN l ELSE 0)
    BY <2>1, <2>3
  <2> QED BY <2>1, <2>2, <2>4, <2>5
<1>4. Start(z, m) \in Int /\ Start(z, m + 1) \in Int /\ Start(z, n) \in Int /\ Start(z, n + 1) \in Int
  BY <1>1, StartIsDay
<1> QED BY <1>2, <1>3, <1>4

LEMMA QuarterApart ==
  ASSUME NEW c \in QuarterWindows, NEW y, NEW day \in Int,
         NEW p \in Parts(c, y), NEW q \in Parts(c, y), Within(p, day), Within(q, day)
  PROVE  p = q
<1>1. PICK z \in YearsOfGithub, k \in 1..4 : z = c.year /\ k = c.quarter
  BY QuarterPartsAre
<1>2. \A i \in 1..3 : (k - 1) * 3 + i \in 1..12
  OBVIOUS
<1>3. Parts(c, y) = {MonthOf(z, (k - 1) * 3 + i) : i \in 1..3}
  BY <1>1, QuarterPartsAre
<1>4. PICK i \in 1..3, j \in 1..3 : p = MonthOf(z, (k - 1) * 3 + i) /\ q = MonthOf(z, (k - 1) * 3 + j)
  BY <1>3
<1>5. PICK m \in 1..12, n \in 1..12 : m = (k - 1) * 3 + i /\ n = (k - 1) * 3 + j
  BY <1>2
<1>6. p = MonthOf(z, m) /\ q = MonthOf(z, n)
  BY <1>4, <1>5
<1>7. m = n
  BY <1>6, MonthsApart
<1> QED BY <1>6, <1>7

LEMMA MonthTiles ==
  ASSUME NEW c \in MonthWindows, NEW y, NEW day \in Int, Within(c, day)
  PROVE  \E p \in Parts(c, y) : Within(p, day)
<1>1. PICK z \in YearsOfGithub, m \in 1..12, n \in 28..31 :
        z = c.year /\ m = c.month /\ n = daysInMonth(z, m)
  BY MonthPartsAre
<1>2. z \in Nat
  BY DEF YearsOfGithub
<1>3. PICK a \in Int : a = Start(z, m) /\ Start(z, m + 1) = a + n
  BY <1>1, <1>2, StartIsDay, MonthLengths
<1>4. a <= day /\ day < a + n
  BY <1>1, <1>3, WithinMonth
<1>5. PICK d \in 1..n : d = day - a + 1
  BY <1>4
<1>6. Within(DayOf(z, m, d), day)
  <2>1. d \in 1..31 /\ day = a + d - 1
    BY <1>5
  <2> QED BY <1>3, <2>1, DayHolds
<1>7. Parts(c, y) = {DayOf(z, m, i) : i \in 1..n}
  BY <1>1, MonthPartsAre
<1>8. DayOf(z, m, d) \in Parts(c, y)
  BY <1>5, <1>7
<1> QED BY <1>6, <1>8

LEMMA MonthApart ==
  ASSUME NEW c \in MonthWindows, NEW y, NEW day \in Int,
         NEW p \in Parts(c, y), NEW q \in Parts(c, y), Within(p, day), Within(q, day)
  PROVE  p = q
<1>1. PICK z \in YearsOfGithub, m \in 1..12, n \in 28..31 :
        z = c.year /\ m = c.month /\ n = daysInMonth(z, m)
  BY MonthPartsAre
<1>2. PICK i \in 1..n, j \in 1..n : p = DayOf(z, m, i) /\ q = DayOf(z, m, j)
  <2>1. Parts(c, y) = {DayOf(z, m, i) : i \in 1..n}
    BY <1>1, MonthPartsAre
  <2> QED BY <2>1
<1>3. z \in Nat
  BY DEF YearsOfGithub
<1>4. PICK a \in Int : a = Start(z, m)
  BY <1>3, StartIsDay
<1>5. i \in 1..31 /\ j \in 1..31
  OBVIOUS
<1>6. day = a + i - 1 /\ day = a + j - 1
  BY <1>2, <1>4, <1>5, DayHolds
<1> QED BY <1>2, <1>6

(* How long a range is tells at what level of the tree it is.              *)
LevelOfRange(range) ==
  LET span == range[Len(range)] - range[1]
  IN  IF Len(range) = 1 THEN 6
      ELSE IF span >= 2000 THEN 2
      ELSE IF span >= 364 THEN 3
      ELSE IF span >= 89 THEN 4
      ELSE 5

LEMMA LevelsOf ==
  ASSUME NEW c
  PROVE  /\ c = Always => Level[c.kind] = 1
         /\ c = EarlyYears => Level[c.kind] = 2
         /\ c \in YearWindows => Level[c.kind] = 3
         /\ c \in QuarterWindows => Level[c.kind] = 4
         /\ c \in MonthWindows => Level[c.kind] = 5
         /\ c \in DayWindows => Level[c.kind] = 6
<1>1. /\ Level["always"] = 1 /\ Level["years"] = 2 /\ Level["year"] = 3
      /\ Level["quarter"] = 4 /\ Level["month"] = 5 /\ Level["day"] = 6
  BY DEF Level
<1>2. /\ c = Always => c.kind = "always"
      /\ c = EarlyYears => c.kind = "years"
      /\ c \in YearWindows => c.kind = "year"
      /\ c \in QuarterWindows => c.kind = "quarter"
      /\ c \in MonthWindows => c.kind = "month"
      /\ c \in DayWindows => c.kind = "day"
  BY KindsDiffer DEF YearWindows, QuarterWindows, MonthWindows, DayWindows
<1> QED BY <1>1, <1>2

LEMMA RangeKinds ==
  ASSUME NEW c \in Ranges
  PROVE  \/ c = Always
         \/ c = EarlyYears
         \/ c \in YearWindows
         \/ c \in QuarterWindows
         \/ c \in MonthWindows
         \/ c \in DayWindows
BY DEF Ranges

LEMMA DatedRanges ==
  ASSUME NEW c \in Ranges, c # Always
  PROVE  /\ FirstDay(c) \in Int /\ LastDay(c) \in Int /\ FirstDay(c) <= LastDay(c)
         /\ Level[c.kind] = LevelOfRange(createdRange(c))
<1>1. CASE c = EarlyYears
  BY <1>1, EarlySpan, LevelsOf DEF Spans, FirstDay, LastDay, LevelOfRange
<1>2. CASE c \in YearWindows
  BY <1>2, YearSpan, LevelsOf DEF Spans, FirstDay, LastDay, LevelOfRange
<1>3. CASE c \in QuarterWindows
  BY <1>3, QuarterSpan, LevelsOf DEF Spans, FirstDay, LastDay, LevelOfRange
<1>4. CASE c \in MonthWindows
  BY <1>4, MonthSpan, LevelsOf DEF Spans, FirstDay, LastDay, LevelOfRange
<1>5. CASE c \in DayWindows
  BY <1>5, DaySpan, LevelsOf DEF Spans, FirstDay, LastDay, LevelOfRange
<1> QED BY <1>1, <1>2, <1>3, <1>4, <1>5, RangeKinds

(* A part is further down the tree than what it is cut from.               *)
LEMMA PartsAreBelow ==
  ASSUME NEW c \in Ranges, NEW y \in Nat, y > EARLY_YEARS_END, NEW p \in Parts(c, y)
  PROVE  p \in Ranges /\ p # Always /\ Level[c.kind] < Level[p.kind] /\ c \notin DayWindows
<1>1. CASE c = Always
  <2>1. PICK a \in YearsOfGithub : a = 2014
    BY DEF YearsOfGithub, GITHUB_EPOCH_YEAR
  <2>2. p = EarlyYears \/ p \in YearWindows
    BY <1>1, <2>1, AlwaysParts, YearsAreRanges
  <2> QED BY <1>1, <2>2, LevelsOf DEF Ranges
<1>2. CASE c = EarlyYears
  <2>1. PICK a \in YearsOfGithub, b \in Nat : a = 2008 /\ b = 2013
    BY DEF YearsOfGithub, GITHUB_EPOCH_YEAR
  <2>2. p \in YearWindows
    BY <1>2, <2>1, EarlyParts, YearsAreRanges
  <2> QED BY <1>2, <2>2, LevelsOf DEF Ranges
<1>3. CASE c \in YearWindows
  <2>1. p \in QuarterWindows
    BY <1>3, YearPartsAre DEF QuarterOf, QuarterWindows
  <2> QED BY <1>3, <2>1, LevelsOf DEF Ranges
<1>4. CASE c \in QuarterWindows
  <2>1. p \in MonthWindows
    <3>1. PICK i \in 1..3 : p = MonthOf(c.year, (c.quarter - 1) * 3 + i)
      BY <1>4, QuarterPartsAre
    <3>2. c.year \in YearsOfGithub /\ (c.quarter - 1) * 3 + i \in 1..12
      BY <1>4, QuarterPartsAre
    <3> QED BY <3>1, <3>2 DEF MonthOf, MonthWindows
  <2> QED BY <1>4, <2>1, LevelsOf DEF Ranges
<1>5. CASE c \in MonthWindows
  <2>1. p \in DayWindows
    <3>1. PICK n \in 28..31 : n = daysInMonth(c.year, c.month)
      BY <1>5, MonthPartsAre
    <3>2. PICK d \in 1..n : p = DayOf(c.year, c.month, d)
      <4>1. Parts(c, y) = {DayOf(c.year, c.month, d) : d \in 1..n}
        BY <1>5, <3>1, MonthPartsAre
      <4> QED BY <4>1
    <3>3. c.year \in YearsOfGithub /\ c.month \in 1..12 /\ d \in 1..31
      BY <1>5, MonthPartsAre
    <3> QED BY <3>2, <3>3 DEF DayOf, DayWindows
  <2> QED BY <1>5, <2>1, LevelsOf DEF Ranges
<1>6. CASE c \in DayWindows
  <2>1. splitCreated(c, y) = <<>>
    BY <1>6, DayParts
  <2> QED BY <2>1 DEF Parts, Range
<1> QED BY <1>1, <1>2, <1>3, <1>4, <1>5, <1>6, RangeKinds

(* The parts of a range cover it, and no day is in two of them.            *)
LEMMA PartsTile ==
  ASSUME NEW c \in Ranges, c \notin DayWindows, NEW y \in Nat, y > EARLY_YEARS_END,
         NEW day \in Int, Covers(c, y, day)
  PROVE  \E p \in Parts(c, y) : Within(p, day)
<1>1. CASE c = Always
  <2>1. DayFromYear(2008) <= day /\ day < DayFromYear(y + 1)
    BY <1>1 DEF Covers, GITHUB_EPOCH_YEAR
  <2> QED BY <1>1, <2>1, AlwaysTiles
<1>2. c # Always => Within(c, day)
  BY DEF Covers
<1>3. CASE c = EarlyYears
  BY <1>2, <1>3, EarlyTiles, KindsDiffer
<1>4. CASE c \in YearWindows
  BY <1>2, <1>4, YearTiles, LevelsOf
<1>5. CASE c \in QuarterWindows
  BY <1>2, <1>5, QuarterTiles, LevelsOf
<1>6. CASE c \in MonthWindows
  BY <1>2, <1>6, MonthTiles, LevelsOf
<1> QED BY <1>1, <1>3, <1>4, <1>5, <1>6, RangeKinds

LEMMA PartsApart ==
  ASSUME NEW c \in Ranges, NEW y \in Nat, y > EARLY_YEARS_END, NEW day \in Int,
         NEW p \in Parts(c, y), NEW q \in Parts(c, y), Within(p, day), Within(q, day)
  PROVE  p = q
<1>1. c \notin DayWindows
  BY PartsAreBelow
<1>2. CASE c = Always
  BY <1>2, AlwaysApart
<1>3. CASE c = EarlyYears
  BY <1>3, EarlyApart
<1>4. CASE c \in YearWindows
  BY <1>4, YearApart
<1>5. CASE c \in QuarterWindows
  BY <1>5, QuarterApart
<1>6. CASE c \in MonthWindows
  BY <1>6, MonthApart
<1> QED BY <1>1, <1>2, <1>3, <1>4, <1>5, <1>6, RangeKinds

(* Only a day has no parts.                                                *)
LEMMA OnlyDaysAreWhole ==
  ASSUME NEW c \in Ranges, c \notin DayWindows, NEW y \in Nat, y > EARLY_YEARS_END
  PROVE  Parts(c, y) # {}
<1>1. PICK day \in Int : Covers(c, y, day)
  <2>1. CASE c = Always
    <3>1. PICK e \in Nat : e = GITHUB_EPOCH_YEAR /\ e < y
      BY DEF GITHUB_EPOCH_YEAR, EARLY_YEARS_END
    <3>2. DayFromYear(e) \in Int /\ DayFromYear(y) \in Int /\ DayFromYear(e + 1) <= DayFromYear(y)
          /\ DayFromYear(e + 1) = DayFromYear(e) + 365 + LeapDay(e)
          /\ DayFromYear(y + 1) = DayFromYear(y) + 365 + LeapDay(y)
          /\ LeapDay(e) \in {0, 1} /\ LeapDay(y) \in {0, 1}
      BY <3>1, YearsInOrder, YearLengths, FirstsOfMonths
    <3> QED BY <2>1, <3>1, <3>2 DEF Covers
  <2>2. CASE c # Always
    BY <2>2, DatedRanges DEF Covers, Within
  <2> QED BY <2>1, <2>2
<1> QED BY <1>1, PartsTile

-----------------------------------------------------------------------------
(* The windows.                                                            *)
Cut(w, p) == [w EXCEPT !.created = p]
InBand(w, r) == r.stars >= w.stars.lo /\ (w.stars.hi = Unbounded \/ r.stars <= w.stars.hi)

LEMMA CutIs ==
  ASSUME NEW w \in Windows, NEW p \in Ranges
  PROVE  /\ Cut(w, p) \in Windows /\ Cut(w, p).stars = w.stars /\ Cut(w, p).created = p
         /\ w.created \in Ranges
BY DEF Cut, Windows

LEMMA SplitWindows ==
  ASSUME NEW w \in Windows, NEW y \in Nat, y > EARLY_YEARS_END
  PROVE  /\ split(w, y) \in Seq(Windows)
         /\ Range(split(w, y)) = {Cut(w, p) : p \in Parts(w.created, y)}
         /\ IsFiniteSet(Range(split(w, y)))
         /\ split(w, y) = <<>> <=> w.created \in DayWindows
<1>1. PICK c \in Ranges : c = w.created
  BY CutIs DEF Windows
<1>2. PICK s \in Seq(Ranges) : s = splitCreated(c, y)
  <2>1. CASE c = Always
    BY <2>1, AlwaysParts
  <2>2. CASE c = EarlyYears
    BY <2>2, EarlyParts
  <2> QED BY <2>1, <2>2, RangeKinds, YearParts, QuarterParts, MonthParts, DayParts
<1>3. PICK n \in Nat : n = Len(s) /\ DOMAIN s = 1..n
  BY <1>2
<1>4. PICK f : f = [i \in 1..n |-> Cut(w, s[i])]
  OBVIOUS
<1>5. split(w, y) = f
  BY <1>1, <1>2, <1>3, <1>4 DEF split, Cut
<1>6. \A i \in 1..n : s[i] \in Ranges
  BY <1>3
<1>7. f \in [1..n -> Windows]
  BY <1>4, <1>6, CutIs
<1>8. f \in Seq(Windows) /\ Range(f) = {f[i] : i \in 1..n}
  BY <1>7, FunctionIsSequence
<1>9. Parts(c, y) = {s[i] : i \in 1..n}
  BY <1>2, <1>3 DEF Parts, Range
<1>10. Range(f) = {Cut(w, p) : p \in Parts(c, y)}
  BY <1>4, <1>8, <1>9
<1>11. IsFiniteSet(Range(f))
  <2>1. IsFiniteSet(1..n)
    BY FS_Interval
  <2>2. f \in Surjection(1..n, Range(f))
    BY <1>7, <1>8 DEF Surjection
  <2> QED BY <2>1, <2>2, FS_Surjection
<1>12. f = <<>> <=> c \in DayWindows
  <2>1. f = <<>> <=> n = 0
    BY <1>7, <1>8
  <2>2. c \in DayWindows => n = 0
    BY <1>2, <1>3, DayParts
  <2>3. n = 0 => Parts(c, y) = {}
    BY <1>9
  <2> QED BY <2>1, <2>2, <2>3, OnlyDaysAreWhole
<1> QED BY <1>1, <1>5, <1>8, <1>10, <1>11, <1>12

LEMMA HoldsCut ==
  ASSUME NEW w \in Windows, NEW p \in Ranges, p # Always, NEW r
  PROVE  Holds(Cut(w, p), r) <=> (InBand(w, r) /\ Within(p, r.created))
BY CutIs DEF Holds, InBand, Within, FirstDay, LastDay

LEMMA HoldsIs ==
  ASSUME NEW w \in Windows, NEW r
  PROVE  Holds(w, r) <=> (InBand(w, r) /\ (w.created # Always => Within(w.created, r.created)))
BY DEF Holds, InBand, Within, FirstDay, LastDay

(* No window has the query of one further up or down the tree.             *)
LEMMA QueriesOfLevels ==
  ASSUME NEW v \in Windows, NEW w \in Windows, LevelOf(v) < LevelOf(w)
  PROVE  queryOf(v) # queryOf(w)
<1>1. v.created \in Ranges /\ w.created \in Ranges
  BY DEF Windows
<1>2. v.created # Always \/ w.created # Always
  BY LevelsOf DEF LevelOf
<1>3. CASE v.created = Always \/ w.created = Always
  BY <1>2, <1>3 DEF queryOf
<1>4. CASE v.created # Always /\ w.created # Always
  <2>1. createdRange(v.created) # createdRange(w.created)
    <3>1. Level[v.created.kind] = LevelOfRange(createdRange(v.created))
          /\ Level[w.created.kind] = LevelOfRange(createdRange(w.created))
      BY <1>1, <1>4, DatedRanges
    <3>2. Level[v.created.kind] \in Nat /\ Level[w.created.kind] \in Nat
      BY <1>1, RangeKinds, LevelsOf
    <3> QED BY <3>1, <3>2 DEF LevelOf
  <2> QED BY <1>4, <2>1 DEF queryOf
<1> QED BY <1>3, <1>4

-----------------------------------------------------------------------------
(* The inductive invariant.                                                *)
LEMMA InitialWindows ==
  /\ Range(initialWindows) = {[stars |-> b, created |-> Always] : b \in Range(STAR_BANDS)}
  /\ Range(initialWindows) \subseteq Windows
<1>1. Range(initialWindows) = {[stars |-> b, created |-> Always] : b \in Range(STAR_BANDS)}
  <2>1. STAR_BANDS \in Seq(Range(STAR_BANDS)) /\ Len(STAR_BANDS) = 13 /\ DOMAIN STAR_BANDS = 1..13
    BY DEF STAR_BANDS, Range
  <2>2. initialWindows = [i \in 1..13 |-> [stars |-> STAR_BANDS[i], created |-> Always]]
    BY <2>1 DEF initialWindows
  <2> QED BY <2>1, <2>2 DEF Range
<1>2. Always \in Ranges
  BY DEF Ranges
<1> QED BY <1>1, <1>2 DEF Windows

LEMMA LastIsWindow ==
  ASSUME WindowsTypeOK
  PROVE  /\ Last \in Windows /\ Last.created \in Ranges
         /\ year \in Nat /\ year > EARLY_YEARS_END /\ total \in Nat
         /\ repo.stars \in Nat /\ repo.created \in Int
         /\ Len(trail) \in Nat /\ \A i \in 1..Len(trail) : trail[i] \in Windows
<1>1. Last \in Windows /\ Len(trail) \in Nat /\ \A i \in 1..Len(trail) : trail[i] \in Windows
  BY DEF WindowsTypeOK, Last
<1>2. repo.stars \in Nat /\ repo.created \in Int
  BY RepositoriesAssumption DEF WindowsTypeOK
<1>3. year \in Nat /\ year > EARLY_YEARS_END /\ total \in Nat
  BY ClockAssumption DEF WindowsTypeOK
<1>4. Last.created \in Ranges
  BY <1>1 DEF Windows
<1> QED BY <1>1, <1>2, <1>3, <1>4

(* The parts that a plan opens.                                            *)
LEMMA ChildrenAre ==
  ASSUME WindowsTypeOK, NEW w \in Range(Plan.children)
  PROVE  /\ Plan.children = split(Last, year)
         /\ w \in Windows /\ LevelOf(Last) < LevelOf(w)
         /\ \E p \in Parts(Last.created, year) : p \in Ranges /\ p # Always /\ w = Cut(Last, p)
<1>1. PICK y \in Nat : y = year /\ y > EARLY_YEARS_END
  BY LastIsWindow
<1>2. PICK v \in Windows : v = Last /\ v.created \in Ranges
  BY LastIsWindow
<1>3. Plan.children = split(v, y)
  <2>1. Plan.children \in {<<>>, split(v, y)}
    BY <1>1, <1>2 DEF Plan, planWindow
  <2>2. Range(<<>>) = {}
    BY DEF Range
  <2> QED BY <2>1, <2>2
<1>4. PICK p \in Parts(v.created, y) : w = Cut(v, p)
  BY <1>1, <1>3, SplitWindows
<1>5. p \in Ranges /\ p # Always /\ Level[v.created.kind] < Level[p.kind]
  BY <1>1, <1>2, PartsAreBelow
<1>6. w \in Windows /\ w.created = p
  BY <1>4, <1>5, CutIs
<1> QED BY <1>1, <1>2, <1>3, <1>4, <1>5, <1>6 DEF LevelOf

LEMMA WindowsInit == Init => WindowsInv
<1> SUFFICES ASSUME Init PROVE WindowsInv
  OBVIOUS
<1>1. PICK w \in Range(initialWindows) : Holds(w, repo) /\ trail = <<w>>
  BY DEF Init
<1>2. w \in Windows
  BY InitialWindows
<1>3. Len(trail) = 1 /\ Last = w /\ trail \in Seq(Windows)
  BY <1>1, <1>2 DEF Last
<1> QED BY <1>1, <1>3 DEF Init, WindowsInv, WindowsTypeOK, TrailInv

LEMMA DescendKeeps == ASSUME WindowsInv, Descend PROVE WindowsInv'
<1> USE DEF WindowsInv
<1>1. PICK w \in Range(Plan.children) : Holds(w, repo) /\ trail' = Append(trail, w)
  BY DEF Descend
<1>2. w \in Windows /\ LevelOf(Last) < LevelOf(w)
  BY ChildrenAre
<1>3. total' \in Totals /\ repo' = repo /\ year' = year
  BY DEF Descend
<1>4. PICK n \in Nat : n = Len(trail) /\ n > 0 /\ trail \in Seq(Windows)
  BY DEF WindowsTypeOK
<1>5. /\ trail' \in Seq(Windows) /\ Len(trail') = n + 1 /\ trail'[n + 1] = w
      /\ \A i \in 1..n : trail'[i] = trail[i]
  BY <1>1, <1>2, <1>4
<1>6. Last' = w
  BY <1>5 DEF Last
<1>7. \A v \in Windows : LevelOf(v) \in Nat
  BY RangeKinds, LevelsOf DEF LevelOf, Windows
<1>8. ASSUME NEW i \in 1..n PROVE LevelOf(trail[i]) < LevelOf(w)
  <2>1. trail[i] \in Windows /\ Last \in Windows
    BY <1>4, LastIsWindow
  <2>2. i = n \/ i \in 1..(n - 1)
    BY <1>4
  <2>3. i = n => trail[i] = Last
    BY <1>4 DEF Last
  <2>4. i \in 1..(n - 1) => LevelOf(trail[i]) < LevelOf(Last)
    BY <1>4 DEF TrailInv
  <2> QED BY <1>2, <1>7, <2>1, <2>2, <2>3, <2>4
<1>9. WindowsTypeOK'
  BY <1>3, <1>5 DEF WindowsTypeOK
<1>10. TrailInv'
  <2>1. \A i \in 1..((n + 1) - 1) : LevelOf(trail'[i]) < LevelOf(w)
    BY <1>5, <1>8
  <2>2. LevelOf(Last)' = LevelOf(w)
    BY <1>6 DEF LevelOf
  <2> QED BY <1>1, <1>3, <1>5, <1>6, <2>1, <2>2 DEF TrailInv, LevelOf, Holds
<1> QED BY <1>9, <1>10

LEMMA NewYearKeeps == ASSUME WindowsInv, NewYear PROVE WindowsInv'
BY DEF WindowsInv, WindowsTypeOK, TrailInv, NewYear, Last, Holds, LevelOf

LEMMA WindowsInductive == WindowsInv /\ [Next]_vars => WindowsInv'
<1>1. WindowsInv /\ UNCHANGED vars => WindowsInv'
  BY DEF vars, WindowsInv, WindowsTypeOK, TrailInv, Last, Holds, LevelOf
<1> QED BY <1>1, DescendKeeps, NewYearKeeps DEF Next

(* The windows a repository is followed through are windows of the tree,   *)
(* each further down it than the one before.                               *)
THEOREM TrailsDescend == Spec => []WindowsInv
BY WindowsInit, WindowsInductive, PTL DEF Spec

-----------------------------------------------------------------------------
(* What a plan fetches, and what it gives up.                              *)
LEMMA Pages ==
  ASSUME NEW n \in Nat
  PROVE  /\ pagesFor(Least(n, MAX_RESULTS_PER_QUERY), PER_PAGE) \in 1..10
         /\ n <= 1000 => pagesFor(Least(n, MAX_RESULTS_PER_QUERY), PER_PAGE) * 100 >= n
         /\ n > 1000 => pagesFor(Least(n, MAX_RESULTS_PER_QUERY), PER_PAGE) = 10
<1>1. PICK m \in Nat : m = Least(n, MAX_RESULTS_PER_QUERY) /\ m <= 1000 /\ (n <= 1000 => m = n) /\ (n > 1000 => m = 1000)
  BY DEF Least, MAX_RESULTS_PER_QUERY
<1>2. PICK k \in Nat : k = (m + 100 - 1) \div 100 /\ 100 * k <= m + 99 /\ m <= 100 * k
  BY <1>1
<1>3. 1000 \div 100 = 10
  OBVIOUS
<1>4. pagesFor(m, PER_PAGE) = AtLeastOne(Least(k, 10))
  BY <1>2, <1>3 DEF pagesFor, PER_PAGE, MAX_RESULTS_PER_QUERY
<1> QED BY <1>1, <1>2, <1>4 DEF AtLeastOne, Least

LEMMA PlanIs ==
  ASSUME WindowsTypeOK
  PROVE  /\ total <= 1000 => Plan.children = <<>> /\ ~Plan.truncated
         /\ total > 1000 => /\ Plan.children = split(Last, year)
                            /\ Plan.truncated <=> Plan.children = <<>>
         /\ Plan.lastPage = IF Plan.children # <<>> THEN 1
                            ELSE pagesFor(Least(total, MAX_RESULTS_PER_QUERY), PER_PAGE)
<1>1. PICK kids : kids = IF total <= 1000 THEN <<>> ELSE split(Last, year)
  OBVIOUS
<1>2. PICK pages : pages = IF kids # <<>> THEN 1
                           ELSE pagesFor(Least(total, MAX_RESULTS_PER_QUERY), PER_PAGE)
  OBVIOUS
<1>3. Plan = [lastPage |-> pages, children |-> kids, truncated |-> ~(total <= 1000) /\ kids = <<>>]
  BY <1>1, <1>2 DEF Plan, planWindow, MAX_RESULTS_PER_QUERY
<1>4. Plan.children = kids /\ Plan.lastPage = pages
  BY <1>3
<1>5. Plan.truncated = (~(total <= 1000) /\ kids = <<>>)
  BY <1>3, Zenon
<1>6. total > 1000 <=> ~(total <= 1000)
  BY LastIsWindow
<1> QED BY <1>1, <1>2, <1>4, <1>5, <1>6

LEMMA InvImpliesPlan == WindowsInv => PlanLosesOnlyADay
<1> SUFFICES ASSUME WindowsInv PROVE PlanLosesOnlyADay
  OBVIOUS
<1> USE DEF WindowsInv
<1>1. PICK n \in Nat : n = total
  BY LastIsWindow
<1>2. PICK k \in 1..10 :
        /\ k = pagesFor(Least(n, MAX_RESULTS_PER_QUERY), PER_PAGE)
        /\ n <= 1000 => k * 100 >= n
        /\ n > 1000 => k = 10
  BY Pages
<1>3. Plan.lastPage = IF Plan.children # <<>> THEN 1 ELSE k
  BY <1>1, <1>2, PlanIs
<1>4. Plan.lastPage * PER_PAGE <= MAX_RESULTS_PER_QUERY
  BY <1>3 DEF PER_PAGE, MAX_RESULTS_PER_QUERY
<1>5. Plan.children = <<>> /\ ~Plan.truncated => Plan.lastPage * PER_PAGE >= total
  <2>1. Plan.children = <<>> /\ ~Plan.truncated => n <= 1000
    BY <1>1, PlanIs
  <2> QED BY <1>1, <1>2, <1>3, <2>1 DEF PER_PAGE
<1>6. ASSUME Plan.truncated
      PROVE  /\ Plan.lastPage * PER_PAGE = MAX_RESULTS_PER_QUERY
             /\ createdRange(Last.created) = <<repo.created>>
  <2>1. n > 1000
    BY <1>1, <1>6, PlanIs
  <2>2. Plan.children = <<>> /\ split(Last, year) = <<>>
    BY <1>1, <1>6, <2>1, PlanIs
  <2>3. Plan.lastPage * PER_PAGE = MAX_RESULTS_PER_QUERY
    BY <1>2, <1>3, <2>1, <2>2 DEF PER_PAGE, MAX_RESULTS_PER_QUERY
  <2>4. PICK w \in Windows : w = Last /\ w.created \in DayWindows
    <3>1. PICK y \in Nat, w \in Windows : y = year /\ y > EARLY_YEARS_END /\ w = Last
      BY LastIsWindow
    <3> QED BY <2>2, <3>1, SplitWindows
  <2>5. Within(w.created, repo.created) /\ repo.created \in Int
    <3>1. Holds(w, repo)
      BY <2>4 DEF TrailInv
    <3>2. w.created # Always
      BY <2>4, LevelsOf
    <3> QED BY <3>1, <3>2, HoldsIs, LastIsWindow
  <2>6. createdRange(w.created) = <<repo.created>>
    <3>1. PICK a \in Int : createdRange(w.created) = <<a>>
      <4>1. PICK y \in Nat, m \in 1..12, d \in 1..31 :
              y = w.created.date[1] /\ m = w.created.date[2] /\ d = w.created.date[3]
        BY <2>4, DayWindowRange
      <4>2. Start(y, m) \in Int
        BY StartIsDay
      <4> QED BY <2>4, <4>1, <4>2, DayWindowRange
    <3>2. FirstDay(w.created) = a /\ LastDay(w.created) = a
      BY <3>1 DEF FirstDay, LastDay
    <3> QED BY <2>5, <3>1, <3>2 DEF Within
  <2> QED BY <2>3, <2>4, <2>6
<1> QED BY <1>4, <1>5, <1>6 DEF PlanLosesOnlyADay

(* No plan asks for a page GitHub refuses, a window that fits is fetched   *)
(* whole, and only a single day is ever cut short.                         *)
THEOREM PlansLoseOnlyADay == Spec => []PlanLosesOnlyADay
BY TrailsDescend, InvImpliesPlan, PTL

-----------------------------------------------------------------------------
(* Resuming in a later year.                                               *)
LEMMA LaterYearsAddParts ==
  ASSUME NEW c \in Ranges, NEW y \in Nat, y > EARLY_YEARS_END
  PROVE  Parts(c, y) \subseteq Parts(c, y + 1)
<1>1. CASE c = Always
  <2>1. PICK z \in Nat : z = y + 1 /\ z > EARLY_YEARS_END
    BY DEF EARLY_YEARS_END
  <2>2. /\ Parts(c, y) = {EarlyYears} \cup YearsBetween(2014, y)
        /\ Parts(c, z) = {EarlyYears} \cup YearsBetween(2014, z)
    BY <1>1, <2>1, AlwaysParts
  <2>3. YearsBetween(2014, y) \subseteq YearsBetween(2014, z)
    BY <2>1 DEF YearsBetween
  <2> QED BY <2>1, <2>2, <2>3
<1>2. CASE c # Always
  <2>1. splitCreated(c, y) = splitCreated(c, y + 1)
    <3>1. c.kind \in {"years", "year", "quarter", "month", "day"}
      BY <1>2, RangeKinds, KindsDiffer DEF YearWindows, QuarterWindows, MonthWindows, DayWindows
    <3>2. CASE c.kind = "years"
      BY <3>2 DEF splitCreated
    <3>3. CASE c.kind = "year"
      BY <3>3 DEF splitCreated
    <3>4. CASE c.kind = "quarter"
      BY <3>4 DEF splitCreated
    <3>5. CASE c.kind = "month"
      BY <3>5 DEF splitCreated
    <3>6. CASE c.kind = "day"
      BY <3>6 DEF splitCreated
    <3> QED BY <3>1, <3>2, <3>3, <3>4, <3>5, <3>6
  <2> QED BY <2>1 DEF Parts
<1> QED BY <1>1, <1>2

(* A resumed sweep finds every window it left where it left it: a later    *)
(* year adds windows to the tree and moves none.                           *)
THEOREM ResumesKeepWindows == Spec => ResumeKeepsWindows
<1>1. ASSUME WindowsInv, NewYear, NEW i \in 1..Len(trail)
      PROVE  Range(split(trail[i], year)) \subseteq Range(split(trail[i], year'))
  <2>1. PICK w \in Windows, y \in Nat, z \in Nat :
          w = trail[i] /\ y = year /\ z = year' /\ z = y + 1 /\ y > EARLY_YEARS_END /\ z > EARLY_YEARS_END
    BY <1>1, LastIsWindow DEF WindowsInv, NewYear, EARLY_YEARS_END
  <2>2. Parts(w.created, y) \subseteq Parts(w.created, z)
    BY <2>1, LaterYearsAddParts DEF Windows
  <2>3. /\ Range(split(w, y)) = {Cut(w, p) : p \in Parts(w.created, y)}
        /\ Range(split(w, z)) = {Cut(w, p) : p \in Parts(w.created, z)}
    BY <2>1, SplitWindows
  <2> QED BY <2>1, <2>2, <2>3
<1>2. WindowsInv /\ [Next]_vars =>
        [\A i \in 1..Len(trail) : Range(split(trail[i], year)) \subseteq Range(split(trail[i], year'))]_year
  BY <1>1 DEF Next, Descend, vars
<1> QED BY <1>2, TrailsDescend, PTL DEF Spec, ResumeKeepsWindows

-----------------------------------------------------------------------------
(* One window on every level.                                              *)
LEMMA Bands ==
  /\ STAR_BANDS[1].lo = 5001 /\ STAR_BANDS[1].hi = Unbounded
  /\ STAR_BANDS[2].lo = 1000 /\ STAR_BANDS[2].hi = 5000
  /\ STAR_BANDS[3].lo = 500 /\ STAR_BANDS[3].hi = 999
  /\ STAR_BANDS[4].lo = 200 /\ STAR_BANDS[4].hi = 499
  /\ STAR_BANDS[5].lo = 100 /\ STAR_BANDS[5].hi = 199
  /\ STAR_BANDS[6].lo = 50 /\ STAR_BANDS[6].hi = 99
  /\ STAR_BANDS[7].lo = 20 /\ STAR_BANDS[7].hi = 49
  /\ STAR_BANDS[8].lo = 10 /\ STAR_BANDS[8].hi = 19
  /\ STAR_BANDS[9].lo = 5 /\ STAR_BANDS[9].hi = 9
  /\ STAR_BANDS[10].lo = 3 /\ STAR_BANDS[10].hi = 4
  /\ STAR_BANDS[11].lo = 2 /\ STAR_BANDS[11].hi = 2
  /\ STAR_BANDS[12].lo = 1 /\ STAR_BANDS[12].hi = 1
  /\ STAR_BANDS[13].lo = 0 /\ STAR_BANDS[13].hi = 0
BY DEF STAR_BANDS

(* The bands follow one another from 0 upward.                             *)
LEMMA BandsTouch ==
  ASSUME NEW i \in 1..13
  PROVE  /\ STAR_BANDS[i].lo \in Nat
         /\ STAR_BANDS[i].hi = Unbounded <=> i = 1
         /\ i > 1 => STAR_BANDS[i].hi \in Nat /\ STAR_BANDS[i].lo <= STAR_BANDS[i].hi
                       /\ STAR_BANDS[i - 1].lo = STAR_BANDS[i].hi + 1
<1>1. i \in {1, 2, 3, 4} \/ i \in {5, 6, 7, 8} \/ i \in {9, 10, 11, 12, 13}
  OBVIOUS
<1>2. CASE i \in {1, 2, 3, 4}
  BY <1>2, Bands DEF Unbounded
<1>3. CASE i \in {5, 6, 7, 8}
  BY <1>3, Bands DEF Unbounded
<1>4. CASE i \in {9, 10, 11, 12, 13}
  BY <1>4, Bands DEF Unbounded
<1> QED BY <1>1, <1>2, <1>3, <1>4

BandHolds(i, n) == n >= STAR_BANDS[i].lo /\ (STAR_BANDS[i].hi = Unbounded \/ n <= STAR_BANDS[i].hi)

LEMMA OneBand ==
  ASSUME NEW n \in Nat
  PROVE  \E i \in 1..13 : \A j \in 1..13 : BandHolds(j, n) <=> j = i
<1>1. \A j \in 1..13 : BandHolds(j, n) <=>
        \/ j = 1 /\ n >= 5001
        \/ j = 2 /\ n \in 1000..5000
        \/ j = 3 /\ n \in 500..999
        \/ j = 4 /\ n \in 200..499
        \/ j = 5 /\ n \in 100..199
        \/ j = 6 /\ n \in 50..99
        \/ j = 7 /\ n \in 20..49
        \/ j = 8 /\ n \in 10..19
        \/ j = 9 /\ n \in 5..9
        \/ j = 10 /\ n \in 3..4
        \/ j = 11 /\ n = 2
        \/ j = 12 /\ n = 1
        \/ j = 13 /\ n = 0
  BY Bands DEF BandHolds, Unbounded
<1> QED BY <1>1

LEMMA OneIs == ASSUME NEW S, NEW x, S = {x} PROVE Only(S)
BY FS_Singleton DEF Only

LEMMA InvImpliesOneBand ==
  WindowsInv => Only({w \in Range(initialWindows) : Holds(w, repo)})
<1> SUFFICES ASSUME WindowsInv PROVE Only({w \in Range(initialWindows) : Holds(w, repo)})
  OBVIOUS
<1>1. PICK n \in Nat : n = repo.stars
  BY LastIsWindow DEF WindowsInv
<1>2. PICK i \in 1..13 : \A j \in 1..13 : BandHolds(j, n) <=> j = i
  BY OneBand
<1>3. Range(STAR_BANDS) = {STAR_BANDS[j] : j \in 1..13}
  BY DEF STAR_BANDS, Range
<1> DEFINE WindowOf(j) == [stars |-> STAR_BANDS[j], created |-> Always]
<1>4. Range(initialWindows) = {WindowOf(j) : j \in 1..13}
  BY <1>3, InitialWindows
<1>5. ASSUME NEW j \in 1..13 PROVE Holds(WindowOf(j), repo) <=> BandHolds(j, n)
  <2>1. WindowOf(j) \in Windows
    BY <1>4, InitialWindows
  <2>2. WindowOf(j).created = Always /\ WindowOf(j).stars = STAR_BANDS[j]
    OBVIOUS
  <2>3. InBand(WindowOf(j), repo) <=> BandHolds(j, n)
    BY <1>1, <2>2 DEF InBand, BandHolds
  <2> HIDE DEF WindowOf
  <2> QED BY <2>1, <2>2, <2>3, HoldsIs
<1> HIDE DEF WindowOf
<1>6. {w \in Range(initialWindows) : Holds(w, repo)} = {WindowOf(i)}
  BY <1>2, <1>4, <1>5
<1> QED BY <1>6, OneIs

LEMMA InvImpliesOnePart ==
  WindowsInv /\ Reachable /\ Plan.children # <<>> =>
    Only({w \in Range(Plan.children) : Holds(w, repo)})
<1> SUFFICES ASSUME WindowsInv, Reachable, Plan.children # <<>>
             PROVE  Only({w \in Range(Plan.children) : Holds(w, repo)})
  OBVIOUS
<1> USE DEF WindowsInv
<1>1. PICK y \in Nat, v \in Windows, day \in Int :
        y = year /\ y > EARLY_YEARS_END /\ v = Last /\ day = repo.created
  BY LastIsWindow
<1>2. PICK c \in Ranges : c = v.created
  BY DEF Windows
<1>3. Plan.children = split(v, y)
  BY <1>1, PlanIs, LastIsWindow
<1>4. InBand(v, repo) /\ (c # Always => Within(c, day))
  BY <1>1, <1>2, HoldsIs DEF TrailInv
<1>5. Covers(c, y, day)
  <2>1. CASE c = Always
    <3>1. PICK e \in Nat : e = GITHUB_EPOCH_YEAR
      BY DEF GITHUB_EPOCH_YEAR
    <3>2. Day(e, 1, 1) <= day /\ day <= Day(y, 12, 31)
      BY <1>1, <3>1 DEF Reachable
    <3>3. /\ Day(e, 1, 1) = DayFromYear(e) /\ DayFromYear(e) \in Int
          /\ Day(y, 12, 31) = DayFromYear(y + 1) - 1 /\ DayFromYear(y + 1) \in Int
      <4>1. Day(e, 1, 1) = Start(e, 1) /\ Day(y, 12, 31) = Start(y, 13) - 1
        BY YearRange
      <4>2. Start(e, 1) = DayFromYear(e) /\ Start(y, 13) = DayFromYear(y + 1)
        BY FirstsOfMonths
      <4>3. DayFromYear(e) \in Int /\ Start(y, 13) \in Int
        BY StartIsDay, FirstsOfMonths
      <4> QED BY <4>1, <4>2, <4>3
    <3> QED BY <2>1, <3>1, <3>2, <3>3 DEF Covers
  <2>2. CASE c # Always
    BY <1>4, <2>2 DEF Covers
  <2> QED BY <2>1, <2>2
<1>6. c \notin DayWindows
  BY <1>1, <1>2, <1>3, SplitWindows
<1>7. PICK p \in Parts(c, y) : Within(p, day)
  BY <1>1, <1>5, <1>6, PartsTile
<1>8. Range(split(v, y)) = {Cut(v, q) : q \in Parts(c, y)}
  BY <1>1, <1>2, SplitWindows
<1>9. ASSUME NEW q \in Parts(c, y) PROVE Holds(Cut(v, q), repo) <=> q = p
  <2>1. q \in Ranges /\ q # Always
    BY <1>1, PartsAreBelow
  <2>2. Holds(Cut(v, q), repo) <=> Within(q, day)
    BY <1>1, <1>4, <2>1, HoldsCut
  <2>3. Within(q, day) => q = p
    BY <1>1, <1>7, PartsApart
  <2> QED BY <1>7, <2>2, <2>3
<1>10. {w \in Range(Plan.children) : Holds(w, repo)} = {Cut(v, p)}
  BY <1>3, <1>8, <1>9
<1> QED BY <1>10, OneIs

LEMMA InvImpliesQueriesIdentify == WindowsInv => QueriesIdentify
<1> SUFFICES ASSUME WindowsInv PROVE QueriesIdentify
  OBVIOUS
<1> USE DEF WindowsInv
<1>1. PICK S : S = Range(Plan.children)
  OBVIOUS
<1>2. PICK y \in Nat, v \in Windows : y = year /\ y > EARLY_YEARS_END /\ v = Last
  BY LastIsWindow
<1>3. PICK c \in Ranges : c = v.created
  BY DEF Windows
<1>4. IsFiniteSet(S)
  <2>1. IsFiniteSet(Range(split(v, y)))
    BY <1>2, SplitWindows
  <2>2. Range(<<>>) = {}
    BY DEF Range
  <2>3. Plan.children = <<>> \/ Plan.children = split(v, y)
    BY <1>2, PlanIs, LastIsWindow
  <2> QED BY <1>1, <2>1, <2>2, <2>3, FS_EmptySet
<1>5. ASSUME NEW w \in S
      PROVE  w \in Windows /\ LevelOf(Last) < LevelOf(w)
             /\ \E p \in Parts(c, y) : p \in Ranges /\ p # Always /\ w = Cut(v, p)
  BY <1>1, <1>2, <1>3, ChildrenAre
<1>6. ASSUME NEW u \in S, NEW w \in S, queryOf(u) = queryOf(w) PROVE u = w
  <2>1. PICK p \in Parts(c, y), q \in Parts(c, y) :
          p \in Ranges /\ p # Always /\ u = Cut(v, p) /\ q \in Ranges /\ q # Always /\ w = Cut(v, q)
    BY <1>5
  <2>2. u.created = p /\ w.created = q
    BY <2>1, CutIs
  <2>3. createdRange(p) = createdRange(q)
    BY <1>6, <2>1, <2>2 DEF queryOf
  <2>4. PICK day \in Int : day = FirstDay(p) /\ Within(p, day)
    BY <2>1, DatedRanges DEF Within
  <2>5. Within(q, day)
    BY <2>3, <2>4 DEF Within, FirstDay, LastDay
  <2>6. p = q
    BY <1>2, <2>4, <2>5, PartsApart
  <2> QED BY <2>1, <2>6
<1>7. Cardinality({queryOf(w) : w \in S}) = Cardinality(S)
  <2> DEFINE T == {queryOf(w) : w \in S}
             f == [w \in S |-> queryOf(w)]
  <2>1. f \in Surjection(S, T)
    BY DEF Surjection
  <2>2. f \in Injection(S, T)
    <3>1. f \in [S -> T]
      OBVIOUS
    <3>2. \A u, w \in S : f[u] = f[w] => u = w
      BY <1>6
    <3> HIDE DEF f, T
    <3> QED BY <3>1, <3>2 DEF Injection, IsInjective
  <2> HIDE DEF T, f
  <2>3. Cardinality(T) = Cardinality(S)
    BY <1>4, <2>1, <2>2, FS_Surjection
  <2> QED BY <2>3 DEF T
<1>8. ASSUME NEW w \in S, NEW i \in 1..Len(trail) PROVE queryOf(w) # queryOf(trail[i])
  <2>1. w \in Windows /\ LevelOf(Last) < LevelOf(w)
    BY <1>5
  <2>2. PICK u \in Windows : u = trail[i] /\ (u = Last \/ LevelOf(u) < LevelOf(Last))
    <3>1. i = Len(trail) \/ i \in 1..(Len(trail) - 1)
      BY LastIsWindow
    <3> QED BY <3>1, LastIsWindow DEF TrailInv, Last
  <2>3. LevelOf(u) < LevelOf(w)
    <3>1. \A x \in Windows : LevelOf(x) \in Nat
      BY RangeKinds, LevelsOf DEF LevelOf, Windows
    <3>2. LevelOf(u) \in Nat /\ LevelOf(Last) \in Nat /\ LevelOf(w) \in Nat
      BY <1>2, <2>1, <3>1
    <3>3. LevelOf(u) = LevelOf(Last) \/ LevelOf(u) < LevelOf(Last)
      BY <2>2
    <3> QED BY <2>1, <3>2, <3>3
  <2> QED BY <2>1, <2>2, <2>3, QueriesOfLevels
<1> QED BY <1>1, <1>7, <1>8 DEF QueriesIdentify

(* Nothing falls between two windows and nothing is in two: a repository   *)
(* is in one star band and in one part of every window that is split, leap *)
(* years included, and no two windows it could be looked for in share a    *)
(* query.                                                                  *)
THEOREM WindowsTileTheSearch == Spec => []WindowsPartition
<1>1. WindowsInv => WindowsPartition
  BY InvImpliesOneBand, InvImpliesOnePart, InvImpliesQueriesIdentify
     DEF WindowsPartition, OneWindowPerLevel
<1> QED BY <1>1, TrailsDescend, PTL

=============================================================================
