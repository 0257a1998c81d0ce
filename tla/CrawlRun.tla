------------------------------ MODULE CrawlRun ------------------------------
(***************************************************************************)
(* One run of the crawler (crawler/index.ts): a pool of tasks over a       *)
(* worklist, the quota governor its responses feed (packages/github), the  *)
(* run document whose first ending wins (crawler/store/store.ts), and the  *)
(* shutdown handler.  What a fetch does to the cache is FetchRepo.         *)
(***************************************************************************)
EXTENDS Integers, FiniteSets

CONSTANTS
  Items,        \* length of the worklist
  PoolSize,  \* CONCURRENCY of the pool
  Requests,     \* requests that fetch one repository
  Attempts,     \* retries of a refused request (5 in the code)
  Budget,       \* points GitHub gives per hour (5000 in the code)
  Reserve,      \* those of them that are not the crawler's: Budget * (1 - share)
  Starts,       \* points that may be left when the run begins
  MaxHour,      \* bound: last rate-limit hour
  MaxFaults     \* bound: requests and writes that fail

ASSUME RunAssumption ==
  /\ {Items, PoolSize, Requests, Budget, MaxHour} \subseteq Nat \ {0}
  /\ {Attempts, Reserve, MaxFaults} \subseteq Nat
  /\ Starts \subseteq 0..Budget

VARIABLES
  phase,     \* runCrawler
  task,      \* the queued function of each item
  counters,  \* CrawlCounters, mutated in place
  stopped,   \* has a task found the quota exhausted?
  governor,  \* the last header QuotaGovernor observed
  github,    \* what GitHub counts
  finished,  \* CrawlHistoryStore.finished
  ending,   \* puts of the run document under way, the loop's and the handler's
  doc,       \* the run document in crawl_history
  handler,   \* the shutdown handler
  faults,    \* failures so far
  over       \* points of the reserve taken this hour, but for unheard ones (ghost)

fetching == <<task, counters, stopped, governor, github, over>>
record   == <<finished, ending, doc>>
crawling == <<phase, fetching, record, handler, faults>>

List == 1..Items
NoDoc == [outcome |-> "none"]
Writers == {"loop", "handler"}
Endings == {"complete", "failed", "interrupted"}

Fresh == [at |-> "queued", asked |-> 0, attempt |-> 0, left |-> 0, hour |-> 0]
Active == {i \in List : task[i].at \in {"ask", "answered", "report"}}
AllOver == \A i \in List : task[i].at = "over"

(* repos_fetched, _unchanged, _skipped and _failed are one counter.        *)
emptyCounters == [repos_seen |-> 0, repos_settled |-> 0, rate_limited |-> 0]

(* Of a process that has begun nothing.  A governor that has observed      *)
(* nothing takes its reset to have passed.                                 *)
Memory(tasks, counts, stop, observed) ==
  /\ tasks = [i \in List |-> Fresh]
  /\ counts = emptyCounters
  /\ stop = FALSE
  /\ observed = [left |-> Budget, hour |-> 0]

(* A run may find part of this hour's points spent.                        *)
CrawlInit ==
  /\ phase = "open"
  /\ Memory(task, counters, stopped, governor)
  /\ \E left \in Starts : github = [left |-> left, hour |-> 1]
  /\ finished = FALSE
  /\ ending = [by \in Writers |-> NoDoc]
  /\ doc = NoDoc
  /\ handler = "none"
  /\ faults = 0
  /\ over = 0

Alive == phase # "gone"
Fault == faults < MaxFaults /\ faults' = faults + 1

-----------------------------------------------------------------------------
(* open writes 'running' and waits; then the handler is installed and the  *)
(* worklist built, which may fail.                                         *)
OpenRun ==
  /\ phase = "open"
  /\ doc' = [outcome |-> "running", counters |-> counters]
  /\ phase' = "worklist"
  /\ UNCHANGED <<fetching, finished, ending, handler, faults>>

OpenRunFails ==
  /\ phase = "open"
  /\ Fault
  /\ phase' = "gone"
  /\ UNCHANGED <<fetching, record, handler>>

Worklist ==
  /\ phase = "worklist"
  /\ phase' = "crawl"
  /\ UNCHANGED <<fetching, record, handler, faults>>

WorklistFails ==
  /\ phase = "worklist"
  /\ Fault
  /\ phase' = "failed"
  /\ UNCHANGED <<fetching, record, handler>>

-----------------------------------------------------------------------------
(* Mutant of exhausted: the share is forgotten.                            *)
spent == governor.left = 0 /\ governor.hour = github.hour

exhausted == governor.left <= Reserve /\ governor.hour = github.hour

(* The pool starts the next item when a place is free.                     *)
MayBegin(i) ==
  /\ Alive /\ phase = "crawl"
  /\ task[i].at = "queued" /\ \A j \in 1..i - 1 : task[j].at # "queued"
  /\ Cardinality(Active) < PoolSize

(* Mutant of Begin: the stop is not remembered.                            *)
BeginUnstopped(i) ==
  /\ MayBegin(i)
  /\ task' = [task EXCEPT ![i].at = IF exhausted THEN "over" ELSE "ask"]
  /\ counters' = IF exhausted THEN [counters EXCEPT !.rate_limited = @ + 1]
                              ELSE [counters EXCEPT !.repos_seen = @ + 1]
  /\ UNCHANGED <<phase, stopped, governor, github, over, record, handler, faults>>

Begin(i) ==
  /\ MayBegin(i)
  /\ stopped' = (stopped \/ exhausted)
  /\ task' = [task EXCEPT ![i].at = IF stopped' THEN "over" ELSE "ask"]
  /\ counters' = IF stopped THEN counters
                 ELSE IF exhausted THEN [counters EXCEPT !.rate_limited = @ + 1]
                 ELSE [counters EXCEPT !.repos_seen = @ + 1]
  /\ UNCHANGED <<phase, governor, github, over, record, handler, faults>>

(* GitHub serves a request and takes a point; the headers of its answer    *)
(* are on their way.                                                       *)
Serve(i) ==
  /\ Alive /\ task[i].at = "ask" /\ github.left > 0
  /\ github' = [github EXCEPT !.left = @ - 1]
  /\ over' = IF github.left <= Reserve THEN over + 1 ELSE over
  /\ task' = [task EXCEPT ![i].at = "answered", ![i].left = github.left - 1,
                          ![i].hour = github.hour]
  /\ UNCHANGED <<phase, counters, stopped, governor, record, handler, faults>>

(* The fetch of an item has a result, and its place in the pool is free.   *)
Settle(i, at) ==
  /\ task' = [task EXCEPT ![i] = [Fresh EXCEPT !.at = at]]
  /\ counters' = [counters EXCEPT !.repos_settled = @ + 1]

(* The next request follows, unless this was the last.                     *)
Proceed(i) ==
  IF task[i].asked + 1 = Requests THEN Settle(i, "over")
  ELSE /\ task' = [task EXCEPT ![i] = [Fresh EXCEPT !.at = "ask", !.asked = task[i].asked + 1]]
       /\ UNCHANGED counters

(* A 200: its headers are observed, in the order of the answers.  The      *)
(* document, the first request, may say that the repository is skipped;    *)
(* what is written to the cache may fail.                                  *)
Served(i) ==
  /\ Alive /\ task[i].at = "answered"
  /\ governor' = [left |-> task[i].left, hour |-> task[i].hour]
  /\ \/ Proceed(i) /\ UNCHANGED faults
     \/ task[i].asked = 0 /\ Settle(i, "over") /\ UNCHANGED faults
     \/ Settle(i, "report") /\ Fault
  /\ UNCHANGED <<phase, stopped, github, over, record, handler>>

(* The governor does not hear of this point.                               *)
Unheard(i) ==
  over' = IF task[i].hour = github.hour /\ task[i].left < Reserve THEN over - 1 ELSE over

(* A 404 costs its point, and a 304 costs none; the client observes        *)
(* neither, since Octokit throws them.                                     *)
NotFound(i) ==
  /\ Alive /\ task[i].at = "answered"
  /\ IF task[i].asked = 0 THEN Settle(i, "over") ELSE Proceed(i)
  /\ Unheard(i)
  /\ UNCHANGED <<phase, stopped, governor, github, record, handler, faults>>

NotModified(i) ==
  /\ Alive /\ task[i].at = "ask" /\ task[i].asked = 0 /\ github.left > 0
  /\ Settle(i, "over")
  /\ UNCHANGED <<phase, stopped, governor, github, over, record, handler, faults>>

(* Mutant of Refused: attempts are not counted.                            *)
RefusedForEver(i) ==
  /\ Alive /\ task[i].at = "ask" /\ github.left = 0 /\ task[i].attempt < Attempts
  /\ UNCHANGED crawling

(* No points are left: the request is refused, and repeated after a while, *)
(* a few times.  A refusal is not observed either.                         *)
Refused(i) ==
  /\ Alive /\ task[i].at = "ask" /\ github.left = 0 /\ task[i].attempt < Attempts
  /\ task' = [task EXCEPT ![i].attempt = @ + 1]
  /\ UNCHANGED <<phase, counters, stopped, governor, github, over, record, handler, faults>>

(* An error in the fetch, or an answer that is lost: counted at once, then *)
(* reported.                                                               *)
FetchFails(i) ==
  /\ Alive
  /\ \/ /\ task[i].at = "ask"
        /\ (github.left = 0 /\ task[i].attempt = Attempts /\ UNCHANGED faults) \/ Fault
        /\ UNCHANGED over
     \/ /\ task[i].at = "answered"
        /\ Fault
        /\ Unheard(i)
  /\ Settle(i, "report")
  /\ UNCHANGED <<phase, stopped, governor, github, record, handler>>

(* RepoFailed is appended; when that fails too, nothing is left to do.     *)
Report(i) ==
  /\ Alive /\ task[i].at = "report"
  /\ task' = [task EXCEPT ![i].at = "over"]
  /\ UNCHANGED faults \/ Fault
  /\ UNCHANGED <<phase, counters, stopped, governor, github, over, record, handler>>

(* A new hour of quota begins.                                             *)
NewHour ==
  /\ Alive /\ github.hour < MaxHour
  /\ github' = [left |-> Budget, hour |-> github.hour + 1]
  /\ over' = 0
  /\ UNCHANGED <<phase, task, counters, stopped, governor, record, handler, faults>>

-----------------------------------------------------------------------------
(* Mutant of finishRun: every caller writes its ending.                    *)
finishRunAlways(by, outcome) ==
  /\ ending' = [ending EXCEPT ![by] = [outcome |-> outcome, counters |-> counters]]
  /\ finished' = TRUE
  /\ UNCHANGED doc

(* The first caller writes the ending, with the counters of that moment;   *)
(* for the others there is nothing to do, and nothing to wait for.         *)
finishRun(by, outcome) ==
  /\ IF finished THEN UNCHANGED ending
     ELSE ending' = [ending EXCEPT ![by] = [outcome |-> outcome, counters |-> counters]]
  /\ finished' = TRUE
  /\ UNCHANGED doc

(* queue.onIdle, or the error of the worklist.                             *)
Complete ==
  /\ phase = "crawl" /\ AllOver
  /\ finishRun("loop", "complete")
  /\ phase' = "ending"
  /\ UNCHANGED <<fetching, handler, faults>>

Abort ==
  /\ phase = "failed"
  /\ finishRun("loop", "failed")
  /\ phase' = "ending"
  /\ UNCHANGED <<fetching, handler, faults>>

Put(by) == ending[by] # NoDoc

(* A put settles.  The handler exits after its own.                        *)
Lands(by) ==
  /\ Alive /\ Put(by)
  /\ doc' = ending[by]
  /\ ending' = [ending EXCEPT ![by] = NoDoc]
  /\ phase' = IF by = "handler" THEN "gone" ELSE phase
  /\ UNCHANGED <<fetching, finished, handler, faults>>

(* The loop's error leads to finishRun('failed'), which is not the first;  *)
(* the handler's is logged.                                                *)
LandsNot(by) ==
  /\ Alive /\ Put(by)
  /\ Fault
  /\ ending' = [ending EXCEPT ![by] = NoDoc]
  /\ phase' = IF by = "handler" THEN "gone" ELSE phase
  /\ UNCHANGED <<fetching, finished, doc, handler>>

(* runCrawler has returned, and nothing keeps the process up.              *)
Exit ==
  /\ phase = "ending" /\ \A by \in Writers : ~Put(by)
  /\ phase' = "gone"
  /\ UNCHANGED <<fetching, record, handler, faults>>

(* The process ends, and its memory with it, with puts under way: each has *)
(* reached the store or not.                                               *)
CutShort ==
  /\ phase' = "gone"
  /\ doc' \in {doc} \cup {ending[by] : by \in {b \in Writers : Put(b)}}
  /\ Memory(task', counters', stopped', governor')
  /\ over' = 0
  /\ UNCHANGED <<github, finished, ending, faults>>

(* The first signal.  With an ending written already, or being written,    *)
(* the handler has nothing to flush and exits at once.                     *)
Signal ==
  /\ Alive /\ phase # "open" /\ handler = "none"
  /\ handler' = "signalled"
  /\ IF finished THEN CutShort
     ELSE /\ finishRun("handler", "interrupted")
          /\ UNCHANGED <<phase, fetching, faults>>

(* SIGKILL, a signal before the handler is there, or one after its grace.  *)
Kill ==
  /\ Alive
  /\ handler' = "killed"
  /\ CutShort

Fetch(i) ==
  Begin(i) \/ Serve(i) \/ Served(i) \/ NotFound(i) \/ NotModified(i) \/ Refused(i)
    \/ FetchFails(i) \/ Report(i)

Run ==
  \/ OpenRun \/ OpenRunFails \/ Worklist \/ WorklistFails \/ Complete \/ Abort \/ Exit
  \/ \E by \in Writers : Lands(by) \/ LandsNot(by)

CrawlNext == Run \/ (\E i \in List : Fetch(i)) \/ NewHour \/ Signal \/ Kill

CrawlSpec == CrawlInit /\ [][CrawlNext]_crawling

-----------------------------------------------------------------------------
Counters == [DOMAIN emptyCounters -> 0..Items]
Docs == {NoDoc} \cup [outcome : Endings \cup {"running"}, counters : Counters]

CrawlTypeOK ==
  /\ phase \in {"open", "worklist", "crawl", "failed", "ending", "gone"}
  /\ task \in [List -> [at : {"queued", "ask", "answered", "report", "over"},
                        asked : 0..Requests, attempt : 0..Attempts,
                        left : 0..Budget, hour : 0..MaxHour]]
  /\ counters \in Counters
  /\ stopped \in BOOLEAN /\ finished \in BOOLEAN
  /\ {governor, github} \subseteq [left : 0..Budget, hour : 0..MaxHour]
  /\ doc \in Docs /\ ending \in [Writers -> Docs]
  /\ handler \in {"none", "signalled", "killed"}
  /\ faults \in 0..MaxFaults
  /\ over \in 0..Budget

(* A run that was interrupted did not later complete: once an ending is    *)
(* durable no other replaces it, although the loop goes on while the       *)
(* handler writes (store.ts, finished).                                    *)
FirstEndingStands == [][doc.outcome \in Endings => doc' = doc]_doc

(* The durable counters add up, although tasks change them while the       *)
(* document is written: a complete run accounts for its whole worklist or  *)
(* for one quota stop, an interrupted one for all but what its pool held,  *)
(* and only a run that fetched nothing has failed.                         *)
RecordAddsUp ==
  /\ CrawlTypeOK
  /\ doc # NoDoc =>
     LET c == doc.counters
     IN CASE doc.outcome = "complete" ->
              c.repos_settled = c.repos_seen /\ (c.repos_seen = Items \/ c.rate_limited = 1)
         [] doc.outcome = "interrupted" -> c.repos_seen - c.repos_settled \in 0..PoolSize
         [] OTHER -> c = emptyCounters

(* The governor hears of a point when the answer comes, in the order of    *)
(* the answers, and never of a 404.  What an hour loses of the reserve is  *)
(* bounded by the pool all the same: when the budget runs out each place   *)
(* may hold a repository, and an older answer that is heard then lets a    *)
(* repository begin in each place that is free.  With one older answer     *)
(* less each time, that is a repository, then two, up to a whole pool;     *)
(* 404s and lost answers come on top.                                      *)
OverspendBounded == 2 * over <= Requests * PoolSize * (PoolSize + 1)

(* A run that has opened ends.                                             *)
RunEnds == phase = "worklist" ~> phase = "gone"

=============================================================================
