------------------------------ MODULE Analyzer -------------------------------
(***************************************************************************)
(* runAnalyzer (analyzer/index.ts): the journal loop, and the two modes an *)
(* operator asks for by name, --repo and --min-confidence, which read no   *)
(* event and move no checkpoint.  All three share analyzeOne and the       *)
(* outcome events.  The crawler appears as far as the analyzer depends on  *)
(* it: artifacts, then RepoFetched, then _fetch.json, several repositories *)
(* at a time.                                                              *)
(*                                                                         *)
(* The content of a repository is a version number that only grows; its    *)
(* content hash is the version.                                            *)
(***************************************************************************)
EXTENDS Integers, FiniteSets

CONSTANTS
  Repos,
  Modes,       \* what an operator may ask for: "sweep" (--min-confidence), "direct" (--repo)
  Frail,       \* processes that may be killed or have a write refused
  Sure,        \* bound: what classifications may be, confident (TRUE) or not
  MaxVersion,  \* bound: versions a repository goes through
  MaxFaults,   \* bound: refused writes and failed analyses
  Overlap, Operator, IdsPerMs, Entropy, MaxClock   \* see Journal

ASSUME AnalyzerBoundsAssumption ==
  /\ MaxVersion \in Nat \ {0} /\ MaxFaults \in Nat
  /\ Sure \subseteq BOOLEAN /\ Modes \subseteq {"sweep", "direct"}
  /\ Repos # {}
ASSUME AnalyzerJournalAssumption ==
  /\ IdsPerMs \in Nat \ {0} /\ MaxClock \in Nat \ {0}
  /\ Entropy \subseteq 0..IdsPerMs - 1
  /\ Overlap \in BOOLEAN /\ Operator \in BOOLEAN

Crawler   == "crawler"
Worker    == "analyzer"     \* the journal loop
Assistant == "assistant"    \* a run of the analyzer in one of Modes
Procs     == {Crawler, Worker, Assistant}
Versions  == 1..MaxVersion

VARIABLES
  clock, journal, checkpoint, running, minted, writing,
  pc, after, days, keys, current, said, handled, owed,   \* see Journal
  cached,    \* version whose artifacts are under repos/, 0 if never crawled
  meta,      \* content_hash in _fetch.json, 0 if there is none
  analysis,  \* analysis/<repo>.json, or NoAnalysis
  crawl,     \* what the crawler is doing with each repository
  task,      \* the repository each analyzer process is on
  todo,      \* repositories the assistant still has to look at
  mode,      \* what the assistant was asked for
  dropped,   \* repositories whose analysis on disk the assistant put, and
             \* ended before it announced it (ghost)
  told,      \* has the analysis on disk been announced? (ghost)
  faults

journalVars == <<clock, journal, checkpoint, running, minted, writing,
                 pc, after, days, keys, current, said, handled, owed>>
corpusVars  == <<cached, meta, crawl>>
workVars    == <<analysis, told, task>>
sideVars    == <<todo, mode, dropped>>
vars        == <<journalVars, corpusVars, workVars, sideVars, faults>>

(* Events, by what the analyzer can tell apart.                            *)
Bodies ==
       [type : {"fetched"}, repo : Repos, hash : Versions, changed : BOOLEAN]
  \cup [type : {"analyzed"}, repo : Repos, hash : Versions]
  \cup [type : {"skipped", "failed"}, repo : Repos]

J == INSTANCE Journal WITH Consumer <- Worker, Concurrency <- 2, MsPerDay <- MaxClock + 1

NoAnalysis == [hash |-> 0, body |-> 0, sure |-> TRUE]
Analyses   == [hash : Versions, body : Versions, sure : BOOLEAN]

NoTask == [step |-> "none", repo |-> CHOOSE r \in Repos : TRUE, hash |-> 0, body |-> 0]
NoCrawl == [step |-> "none", version |-> 0, changed |-> FALSE]

Outcome(t) ==
  IF t.step = "tell" THEN [type |-> "analyzed", repo |-> t.repo, hash |-> t.hash]
                     ELSE [type |-> IF t.step = "skip" THEN "skipped" ELSE "failed",
                           repo |-> t.repo]

Begun(r, hash) == [step |-> "load", repo |-> r, hash |-> hash, body |-> 0]

Init ==
  /\ J!Init
  /\ cached = [r \in Repos |-> 0]
  /\ meta = [r \in Repos |-> 0]
  /\ analysis = [r \in Repos |-> NoAnalysis]
  /\ crawl = [r \in Repos |-> NoCrawl]
  /\ task = [p \in {Worker, Assistant} |-> NoTask]
  /\ todo = {}
  /\ mode = "none"
  /\ dropped = {}
  /\ told = [r \in Repos |-> TRUE]
  /\ faults = 0

-----------------------------------------------------------------------------
(* The crawler, as fetch.ts orders it.                                     *)
StartCrawler == J!Start(Crawler) /\ UNCHANGED <<corpusVars, workVars, sideVars, faults>>

(* Artifacts of the version GitHub serves; an unchanged one is a 304.      *)
WriteArtifacts(r) ==
  /\ Crawler \in running
  /\ crawl[r].step = "none"
  /\ \E v \in Versions :
       /\ v >= cached[r]
       /\ cached' = [cached EXCEPT ![r] = v]
       /\ crawl' = [crawl EXCEPT ![r] =
                      [step |-> "written", version |-> v, changed |-> meta[r] # v]]
  /\ UNCHANGED <<journalVars, meta, workVars, sideVars, faults>>

AnnounceFetch(r) ==
  /\ crawl[r].step = "written"
  /\ J!Append(Crawler, [type |-> "fetched", repo |-> r,
                        hash |-> crawl[r].version, changed |-> crawl[r].changed])
  /\ crawl' = [crawl EXCEPT ![r].step = "sent"]
  /\ UNCHANGED <<cached, meta, workVars, sideVars, faults>>

FetchLands == \E e \in writing[Crawler] :
  /\ J!Land(Crawler, e)
  /\ crawl' = [crawl EXCEPT ![e.body.repo].step = "landed"]
  /\ UNCHANGED <<cached, meta, workVars, sideVars, faults>>

(* _fetch.json is written only when something was fetched.                 *)
SaveFetch(r) ==
  /\ crawl[r].step = "landed"
  /\ meta' = [meta EXCEPT ![r] = crawl[r].version]
  /\ crawl' = [crawl EXCEPT ![r] = NoCrawl]
  /\ UNCHANGED <<journalVars, cached, workVars, sideVars, faults>>

-----------------------------------------------------------------------------
(* The journal loop.                                                       *)
StartWorker == J!Start(Worker) /\ UNCHANGED <<corpusVars, workVars, sideVars, faults>>

WalkJournal ==
  /\ J!Open \/ J!ListDay \/ J!Advance \/ J!Finish
  /\ UNCHANGED <<corpusVars, workVars, sideVars, faults>>

(* Mutant of TakeEvent: a repository analyzed once is not looked at again. *)
TakeNewReposOnly ==
  /\ J!Yield
  /\ \E e \in journal :
       /\ e.id = current'
       /\ task' = [task EXCEPT ![Worker] =
                     IF e.body.type = "fetched" /\ analysis[e.body.repo] = NoAnalysis
                       THEN Begun(e.body.repo, e.body.hash) ELSE NoTask]
  /\ UNCHANGED <<corpusVars, analysis, told, sideVars, faults>>

(* An event that is not a changed RepoFetched needs nothing.               *)
TakeEvent ==
  /\ J!Yield
  /\ \E e \in journal :
       /\ e.id = current'
       /\ task' = [task EXCEPT ![Worker] =
                     IF e.body.type = "fetched" /\ e.body.changed
                       THEN Begun(e.body.repo, e.body.hash) ELSE NoTask]
  /\ UNCHANGED <<corpusVars, analysis, told, sideVars, faults>>

(* Mutant of EventDone: the loop goes on without awaiting the outcome.     *)
EventDoneUnawaited ==
  /\ task[Worker].step \in {"none", "tell", "skip", "fail", "ended"}
  /\ J!Handle
  /\ task' = [task EXCEPT ![Worker] = NoTask]
  /\ UNCHANGED <<corpusVars, analysis, told, sideVars, faults>>

EventDone ==
  /\ task[Worker].step \in {"none", "ended"}
  /\ J!Handle
  /\ task' = [task EXCEPT ![Worker] = NoTask]
  /\ UNCHANGED <<corpusVars, analysis, told, sideVars, faults>>

-----------------------------------------------------------------------------
(* --repo and --min-confidence.                                            *)
StartAssistant ==
  /\ J!Start(Assistant)
  /\ \/ /\ "sweep" \in Modes /\ mode' = "sweep"
        /\ todo' = {r \in Repos : analysis[r] # NoAnalysis}
     \/ /\ "direct" \in Modes /\ mode' = "direct"
        /\ \E r \in Repos : todo' = {r}
  /\ UNCHANGED <<corpusVars, workVars, dropped, faults>>

(* The sweep re-analyzes what is below the threshold, under the hash the   *)
(* analysis already has; --repo takes the hash of _fetch.json, if any.     *)
PickRepo(r) ==
  /\ Assistant \in running
  /\ r \in todo /\ task[Assistant].step \in {"none", "ended"}
  /\ todo' = todo \ {r}
  /\ LET hash == IF mode = "sweep" THEN analysis[r].hash ELSE meta[r]
         wanted == IF mode = "sweep" THEN ~analysis[r].sure ELSE meta[r] # 0
     IN task' = [task EXCEPT ![Assistant] = IF wanted THEN Begun(r, hash) ELSE NoTask]
  /\ UNCHANGED <<journalVars, corpusVars, analysis, told, mode, dropped, faults>>

AssistantEnds ==
  /\ Assistant \in running
  /\ todo = {} /\ task[Assistant].step \in {"none", "ended"}
  /\ mode # "over"
  /\ mode' = "over"
  /\ task' = [task EXCEPT ![Assistant] = NoTask]
  /\ UNCHANGED <<journalVars, corpusVars, analysis, told, todo, dropped, faults>>

-----------------------------------------------------------------------------
(* analyzeOne and the outcome, for either process.  loadArtifacts and the  *)
(* three passes, up to a validated analysis.                               *)
Load(p) ==
  /\ task[p].step = "load"
  /\ LET r == task[p].repo
     IN task' = [task EXCEPT ![p].step = IF cached[r] = 0 THEN "skip" ELSE "put",
                             ![p].body = cached[r]]
  /\ UNCHANGED <<journalVars, corpusVars, analysis, told, sideVars, faults>>

(* An unreadable artifact, a classification that throws, a refused write.  *)
WorkFails(p) ==
  /\ p \in Frail /\ faults < MaxFaults
  /\ task[p].step \in {"load", "put"}
  /\ task' = [task EXCEPT ![p].step = "fail"]
  /\ faults' = faults + 1
  /\ UNCHANGED <<journalVars, corpusVars, analysis, told, sideVars>>

(* Whether the classification reaches the threshold is not the cache's.    *)
PutAnalysis(p) ==
  /\ task[p].step = "put"
  /\ \E sure \in Sure :
       analysis' = [analysis EXCEPT ![task[p].repo] =
                      [hash |-> task[p].hash, body |-> task[p].body, sure |-> sure]]
  /\ told' = [told EXCEPT ![task[p].repo] = FALSE]
  /\ task' = [task EXCEPT ![p].step = "tell"]
  /\ dropped' = dropped \ {task[p].repo}
  /\ UNCHANGED <<journalVars, corpusVars, todo, mode, faults>>

AppendOutcome(p) ==
  /\ task[p].step \in {"tell", "skip", "fail"} /\ writing[p] = {}
  /\ J!Append(p, Outcome(task[p]))
  /\ UNCHANGED <<corpusVars, workVars, sideVars, faults>>

OutcomeLands(p) == \E e \in writing[p] :
  /\ J!Land(p, e)
  /\ told' = IF task[p].step = "tell" THEN [told EXCEPT ![task[p].repo] = TRUE] ELSE told
  /\ task' = [task EXCEPT ![p].step = "ended"]
  /\ UNCHANGED <<corpusVars, analysis, sideVars, faults>>

(* Mutant of OutcomeRefused: a refused outcome is logged and forgotten.     *)
OutcomeForgotten(p) == \E e \in writing[p] :
  /\ p \in Frail /\ faults < MaxFaults
  /\ J!Refuse(p, e)
  /\ task' = [task EXCEPT ![p].step = "ended"]
  /\ faults' = faults + 1
  /\ UNCHANGED <<corpusVars, analysis, told, sideVars>>

(* The analysis an assistant that ends here leaves unannounced: no event   *)
(* brings it back to it, as the checkpoint brings the loop back.           *)
Untold(p) ==
  IF p = Assistant /\ task[Assistant].step = "tell" THEN {task[Assistant].repo} ELSE {}

(* A refused RepoSkipped is a failure of the item, recorded as one; any    *)
(* other refused outcome is thrown out of runAnalyzer.                     *)
OutcomeRefused(p) == \E e \in writing[p] :
  /\ p \in Frail /\ faults < MaxFaults
  /\ J!Refuse(p, e)
  /\ task' = [task EXCEPT ![p].step = IF @ = "skip" THEN "fail" ELSE "thrown"]
  /\ dropped' = dropped \cup Untold(p)
  /\ faults' = faults + 1
  /\ UNCHANGED <<corpusVars, analysis, told, todo, mode>>

-----------------------------------------------------------------------------
(* A process may leave once its work is over or an error left it; before,  *)
(* only by being killed.                                                   *)
Over(p) ==
  CASE p = Crawler   -> \A r \in Repos : crawl[r].step = "none"
    [] p = Worker    -> pc = "done" \/ task[p].step = "thrown"
    [] p = Assistant -> mode = "over" \/ task[p].step = "thrown"

Leave(p) ==
  /\ Over(p) \/ p \in Frail
  /\ J!Stop(p)
  /\ crawl' = IF p = Crawler THEN [r \in Repos |-> NoCrawl] ELSE crawl
  /\ task' = IF p = Crawler THEN task ELSE [task EXCEPT ![p] = NoTask]
  /\ todo' = IF p = Assistant THEN {} ELSE todo
  /\ mode' = IF p = Assistant THEN "none" ELSE mode
  /\ dropped' = dropped \cup Untold(p)
  /\ UNCHANGED <<cached, meta, analysis, told, faults>>

ResetCheckpoint == J!Reset /\ UNCHANGED <<corpusVars, workVars, sideVars, faults>>

Analyze(p) ==
  Load(p) \/ WorkFails(p) \/ PutAnalysis(p)
    \/ AppendOutcome(p) \/ OutcomeLands(p) \/ OutcomeRefused(p)

Next ==
  \/ StartCrawler \/ StartWorker \/ StartAssistant
  \/ \E r \in Repos : WriteArtifacts(r) \/ AnnounceFetch(r) \/ SaveFetch(r) \/ PickRepo(r)
  \/ FetchLands
  \/ WalkJournal \/ TakeEvent \/ EventDone \/ AssistantEnds
  \/ \E p \in {Worker, Assistant} : Analyze(p)
  \/ \E p \in Procs : Leave(p)
  \/ ResetCheckpoint

Spec == Init /\ [][Next]_vars

-----------------------------------------------------------------------------
TypeOK ==
  /\ J!TypeOK
  /\ cached \in [Repos -> 0..MaxVersion] /\ meta \in [Repos -> 0..MaxVersion]
  /\ analysis \in [Repos -> Analyses \cup {NoAnalysis}]
  /\ crawl \in [Repos -> [step : {"none", "written", "sent", "landed"},
                          version : 0..MaxVersion, changed : BOOLEAN]]
  /\ task \in [{Worker, Assistant} ->
                 [step : {"none", "load", "put", "tell", "skip", "fail", "ended", "thrown"},
                  repo : Repos, hash : 0..MaxVersion, body : 0..MaxVersion]]
  /\ todo \subseteq Repos /\ mode \in {"none", "sweep", "direct", "over"}
  /\ dropped \subseteq Repos
  /\ told \in [Repos -> BOOLEAN]
  /\ faults \in 0..MaxFaults

Changes(r) == {e \in journal : e.body.type = "fetched" /\ e.body.repo = r /\ e.body.changed}
Outcomes(r) == {e \in journal : e.body.type \in {"analyzed", "skipped", "failed"} /\ e.body.repo = r}

(* Every change behind the checkpoint has been answered in the journal:    *)
(* by its own RepoAnalyzed, or by a skip or a failure that came after it   *)
(* (index.ts:277-279), whatever was killed or refused in between.          *)
EveryChangeAnswered ==
  /\ TypeOK
  /\ \A r \in Repos : \A e \in Changes(r) : e.id <= checkpoint =>
       \E o \in Outcomes(r) :
         o.id > e.id /\ (o.body.type = "analyzed" => o.body.hash = e.body.hash)

(* The last thing the journal says of r is that analyzing it failed.       *)
LastFailed(r) ==
  \E o \in Outcomes(r) :
    o.body.type = "failed" /\ \A e \in Changes(r) : e.id < o.id

(* When the loop has run to the end, every analysis on disk has been       *)
(* announced, so a reader of the journal alone, as the projector is, knows *)
(* of it, whatever was killed or refused between the put (index.ts:129)    *)
(* and the append (:240, :248), unless the last attempt failed and the     *)
(* journal says that.  The exception is the one the code has: an analysis  *)
(* that a --repo or a --min-confidence put and did not live to announce,   *)
(* and that nobody has replaced since: to those two, "Every worker is safe *)
(* to kill at any moment" (workers README, 322) does not extend.           *)
CaughtUpMeansTold ==
  pc = "done" => \A r \in Repos : told[r] \/ LastFailed(r) \/ r \in dropped

(* When the loop has run to the end, the analysis of a repository is made  *)
(* from artifacts at least as new as the last change announced, unless     *)
(* analyzing it failed.                                                    *)
LatestChangeAnalyzed ==
  pc = "done" => \A r \in Repos : \A e \in Changes(r) :
    analysis[r].body >= e.body.hash \/ LastFailed(r)

=============================================================================
