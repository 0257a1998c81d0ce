--------------------------- MODULE Analyzer_proofs ---------------------------
(***************************************************************************)
(* What TLAPS proves of Analyzer: whatever is killed or refused, every     *)
(* change behind the checkpoint is answered in the journal, and when the   *)
(* loop has run to the end the analyses are announced and made from the    *)
(* latest artifacts.  The journal's part of the argument is                *)
(* Journal_proofs, instantiated as Analyzer instantiates Journal.          *)
(***************************************************************************)
EXTENDS Analyzer, FiniteSetTheorems, TLAPS

JP == INSTANCE Journal_proofs
        WITH Consumer <- Worker, Concurrency <- 2, MsPerDay <- MaxClock + 1

(* Stages take turns, and checkpoints are reset between them.              *)
InTurn == Overlap = FALSE /\ Operator = FALSE

Analyzers == {Worker, Assistant}

IsFetch(e)  == e.body.type = "fetched"
IsChange(e) == e.body.type = "fetched" /\ e.body.changed

(* An analyzer works under a hash, on artifacts there are.                 *)
TaskTypes ==
  /\ task \in [{Worker, Assistant} ->
                 [step : {"none", "load", "put", "tell", "skip", "fail", "ended", "thrown"},
                  repo : Repos, hash : 0..MaxVersion, body : 0..MaxVersion]]
  /\ \A p \in Analyzers :
       /\ task[p].step \in {"load", "put", "tell"} => task[p].hash \in Versions
       /\ task[p].step = "put" => task[p].body \in Versions

(* Only what has been fetched is announced, analyzed and told.             *)
TypeInv ==
  /\ TypeOK /\ TaskTypes
  /\ \A r \in Repos : crawl[r].step = "written" => crawl[r].version \in Versions

Answered(e) ==
  \E o \in Outcomes(e.body.repo) :
    o.id > e.id /\ (o.body.type = "analyzed" => o.body.hash = e.body.hash)

(* What the worker's task says of the event it is handling: it is on the   *)
(* event's repository and hash, or there is nothing to do for it.          *)
TaskOf(e) ==
  IF IsChange(e)
    THEN /\ task[Worker].step # "none"
         /\ task[Worker].repo = e.body.repo /\ task[Worker].hash = e.body.hash
    ELSE task[Worker].step = "none"

(* An analyzer works while it runs, the worker on its current event, and   *)
(* what it has in flight is the outcome of its task; the crawler writes    *)
(* nothing but fetches.                                                    *)
WorkInv ==
  /\ pc # "handle" => task[Worker].step = "none"
  /\ pc = "handle" => \A e \in journal : e.id = current => TaskOf(e)
  /\ Assistant \notin running => task[Assistant].step = "none"
  /\ mode = "over" => todo = {} /\ task[Assistant].step = "none"
  /\ \A p \in Analyzers : \A o \in writing[p] :
       /\ task[p].step \in {"tell", "skip", "fail"} /\ o.body = Outcome(task[p])
       /\ \A other \in writing[p] : other = o
  /\ \A o \in writing[Crawler] : IsFetch(o)

(* Every change handled has been answered, the current one as soon as its  *)
(* outcome has landed.                                                     *)
AnswerInv ==
  /\ \A e \in journal : IsChange(e) /\ e.id \in handled => Answered(e)
  /\ pc = "handle" /\ task[Worker].step = "ended" =>
       \A e \in journal : IsChange(e) /\ e.id = current => Answered(e)

(* Artifacts are at least as new as what has been announced, and an        *)
(* analysis under way is made from the newest.                             *)
FreshInv ==
  /\ \A e \in journal : IsFetch(e) => e.body.hash <= cached[e.body.repo]
  /\ \A e \in writing[Crawler] : e.body.hash <= cached[e.body.repo]
  /\ \A r \in Repos : crawl[r].step = "written" => crawl[r].version <= cached[r]
  /\ \A p \in Analyzers :
       /\ task[p].step = "put" => task[p].body = cached[task[p].repo]
       /\ task[p].step = "tell" => analysis[task[p].repo].body = cached[task[p].repo]
  /\ task[Worker].step # "skip"

(* Every fetch the worker's read may have to get to is owed.               *)
BacklogInv ==
  pc \in {"list", "handle", "advance", "done"} =>
    \A e \in journal : IsFetch(e) => e.id <= after \/ e.id \in owed

Pending(r) == \E e \in Changes(r) : e.id > checkpoint

Fresh(r) == \A e \in Changes(r) : analysis[r].body >= e.body.hash

Telling(r) == task[Assistant].step = "tell" /\ task[Assistant].repo = r

(* What is not pending is analyzed and announced, or has failed: the       *)
(* assistant alone may have an analysis that it has not announced yet, or  *)
(* that it dropped.                                                        *)
SettledInv ==
  /\ \A r \in Repos :
       \/ Pending(r)
       \/ LastFailed(r)
       \/ Fresh(r) /\ (told[r] \/ Telling(r) \/ r \in dropped)
  /\ pc = "advance" \/ (pc = "handle" /\ task[Worker].step = "ended") =>
       \A e \in journal : IsChange(e) /\ e.id = current =>
         LastFailed(e.body.repo) \/ (told[e.body.repo] /\ Fresh(e.body.repo))

-----------------------------------------------------------------------------
(* The journal's assumptions hold of the journal of Analyzer.              *)
LEMMA JournalAssumed ==
  /\ Worker \in Procs /\ JP!IsFiniteSet(Procs)
  /\ IdsPerMs \in Nat \ {0} /\ MaxClock + 1 \in Nat \ {0} /\ 2 \in Nat \ {0}
  /\ MaxClock \in Nat \ {0}
  /\ Entropy \subseteq 0..IdsPerMs - 1
  /\ Overlap \in BOOLEAN /\ Operator \in BOOLEAN
<1>1. IsFiniteSet({} \cup {Crawler}) /\ IsFiniteSet(({} \cup {Crawler}) \cup {Worker})
  BY FS_EmptySet, FS_AddElement
<1>2. IsFiniteSet((({} \cup {Crawler}) \cup {Worker}) \cup {Assistant})
  BY <1>1, FS_AddElement
<1>3. Procs = (({} \cup {Crawler}) \cup {Worker}) \cup {Assistant}
  BY DEF Procs
<1>4. JP!IsFiniteSet(Procs)
  BY <1>2, <1>3 DEF IsFiniteSet, JP!IsFiniteSet
<1> QED BY <1>4, AnalyzerJournalAssumption DEF Procs

(* One journal: what Analyzer calls J is what Journal_proofs is about.     *)
LEMMA SameJournal ==
  /\ J!Init => JP!Init
  /\ J!TypeOK = JP!TypeOK
  /\ \A p \in Procs : /\ J!Start(p) = JP!Start(p) /\ J!Stop(p) = JP!Stop(p)
                      /\ \A e \in writing[p] : /\ J!Land(p, e) = JP!Land(p, e)
                                              /\ J!Refuse(p, e) = JP!Refuse(p, e)
                      /\ \A body \in Bodies : J!Append(p, body) => JP!Append(p, body)
  /\ J!Open = JP!Open /\ J!ListDay = JP!ListDay /\ J!Yield = JP!Yield
  /\ J!Handle = JP!Handle /\ J!Advance = JP!Advance /\ J!Finish = JP!Finish
  /\ J!Reset = JP!Reset
<1> USE DEF J!ghosts, JP!ghosts, J!reader, JP!reader
<1>1. J!Init => JP!Init
  BY DEF J!Init, JP!Init, J!NoId, JP!NoId
<1>2. J!TypeOK = JP!TypeOK
  BY DEF J!TypeOK, JP!TypeOK, J!Events, JP!Events
<1>3. ASSUME NEW p \in Procs
      PROVE  J!Start(p) = JP!Start(p) /\ J!Stop(p) = JP!Stop(p)
  BY DEF J!Start, JP!Start, J!Stop, JP!Stop, J!NoId, JP!NoId
<1>4. ASSUME NEW p \in Procs, NEW e \in writing[p]
      PROVE  J!Land(p, e) = JP!Land(p, e) /\ J!Refuse(p, e) = JP!Refuse(p, e)
  BY DEF J!Land, JP!Land, J!Refuse, JP!Refuse
<1>5. ASSUME NEW p \in Procs, NEW body \in Bodies
      PROVE  J!Append(p, body) => JP!Append(p, body)
  <2>1. J!Landed = JP!Landed /\ J!Flying = JP!Flying
    BY DEF J!Landed, JP!Landed, J!Flying, JP!Flying
  <2>2. J!NextIds(p) = JP!NextIds(p)
    BY <2>1 DEF J!NextIds, JP!NextIds, J!IdsOf, JP!IdsOf, J!MsOf, JP!MsOf
  <2>3. J!MayAppend(p) = JP!MayAppend(p) /\ J!Day(clock) = JP!Day(clock)
    BY DEF J!MayAppend, JP!MayAppend, J!Day, JP!Day, J!Cardinality, JP!Cardinality
  <2>4. ASSUME J!Append(p, body) PROVE JP!Append(p, body)
    <3>1. /\ JP!MayAppend(p)
          /\ \E id \in JP!NextIds(p) :
               /\ minted' = [minted EXCEPT ![p] = id]
               /\ writing' = [writing EXCEPT ![p] =
                                @ \cup {[id |-> id, day |-> JP!Day(clock), body |-> body]}]
          /\ said' = IF p = Worker THEN said + 1 ELSE said
          /\ UNCHANGED <<clock, journal, checkpoint, running, pc, after, days, keys, current>>
          /\ UNCHANGED <<handled, owed>>
      BY <2>2, <2>3, <2>4 DEF J!Append, J!ghosts
    <3> QED BY <3>1 DEF JP!Append, JP!ghosts
  <2> QED BY <2>4
<1>6. J!Open = JP!Open /\ J!ListDay = JP!ListDay /\ J!Finish = JP!Finish
  BY DEF J!Open, JP!Open, J!ListDay, JP!ListDay, J!Finish, JP!Finish,
         J!NoId, JP!NoId, J!MsOf, JP!MsOf, J!Landed, JP!Landed, J!Day, JP!Day
<1>7. J!Yield = JP!Yield /\ J!Handle = JP!Handle /\ J!Advance = JP!Advance
  BY DEF J!Yield, JP!Yield, J!Handle, JP!Handle, J!Advance, JP!Advance, J!NoId, JP!NoId
<1>8. J!Reset = JP!Reset
  BY DEF J!Reset, JP!Reset, J!NoId, JP!NoId
<1> QED BY <1>1, <1>2, <1>3, <1>4, <1>5, <1>6, <1>7, <1>8

(* Every step of Analyzer is one step of the journal, or leaves it alone:  *)
(* the processes and the worker append bodies the journal knows.           *)
LEMMA JournalMoves ==
  ASSUME TypeInv, [Next]_vars PROVE [JP!Next]_(JP!vars)
<1>0. Worker \in Procs /\ Assistant \in Procs /\ Crawler \in Procs /\ Analyzers \subseteq Procs
  BY DEF Procs, Analyzers
<1>a. ASSUME UNCHANGED journalVars PROVE UNCHANGED JP!vars
  BY <1>a DEF journalVars, JP!vars, JP!reader, JP!ghosts
<1>1. CASE StartCrawler \/ StartWorker \/ StartAssistant
  BY <1>0, <1>1, SameJournal DEF StartCrawler, StartWorker, StartAssistant, JP!Next
<1>2. ASSUME NEW r \in Repos, WriteArtifacts(r) \/ SaveFetch(r) \/ PickRepo(r)
      PROVE  UNCHANGED JP!vars
  BY <1>2, <1>a DEF WriteArtifacts, SaveFetch, PickRepo
<1>3. ASSUME NEW r \in Repos, AnnounceFetch(r) PROVE JP!Next
  <2> DEFINE body == [type |-> "fetched", repo |-> r,
                      hash |-> crawl[r].version, changed |-> crawl[r].changed]
  <2>1. crawl[r].step = "written" /\ J!Append(Crawler, body)
    BY <1>3 DEF AnnounceFetch
  <2>2. crawl[r].version \in Versions /\ crawl[r].changed \in BOOLEAN
    BY <2>1 DEF TypeInv, TypeOK
  <2>3. body \in Bodies
    BY <2>2 DEF Bodies
  <2> QED BY <1>0, <2>1, <2>3, SameJournal DEF JP!Next
<1>4. CASE FetchLands
  BY <1>0, <1>4, SameJournal DEF FetchLands, JP!Next
<1>5. CASE WalkJournal
  BY <1>5, SameJournal DEF WalkJournal, JP!Next, JP!Read
<1>6. CASE TakeEvent
  BY <1>6, SameJournal DEF TakeEvent, JP!Next, JP!Read
<1>7. CASE EventDone
  BY <1>7, SameJournal DEF EventDone, JP!Next, JP!Read
<1>8. CASE AssistantEnds
  BY <1>8, <1>a DEF AssistantEnds
<1>9. ASSUME NEW p \in Analyzers, Load(p) \/ WorkFails(p) \/ PutAnalysis(p)
      PROVE  UNCHANGED JP!vars
  BY <1>9, <1>a DEF Load, WorkFails, PutAnalysis
<1>10. ASSUME NEW p \in Analyzers, AppendOutcome(p) PROVE JP!Next
  <2>1. task[p].step \in {"tell", "skip", "fail"} /\ J!Append(p, Outcome(task[p]))
    BY <1>10 DEF AppendOutcome
  <2>2. task[p].repo \in Repos /\ (task[p].step = "tell" => task[p].hash \in Versions)
    BY DEF TypeInv, TypeOK, TaskTypes, Analyzers
  <2>3. Outcome(task[p]) \in Bodies
    BY <2>1, <2>2 DEF Outcome, Bodies
  <2> QED BY <1>0, <2>1, <2>3, SameJournal DEF JP!Next
<1>11. ASSUME NEW p \in Analyzers, OutcomeLands(p) \/ OutcomeRefused(p) PROVE JP!Next
  BY <1>0, <1>11, SameJournal DEF OutcomeLands, OutcomeRefused, JP!Next
<1>12. ASSUME NEW p \in Procs, Leave(p) PROVE JP!Next
  BY <1>12, SameJournal DEF Leave, JP!Next
<1>13. CASE ResetCheckpoint
  BY <1>13, SameJournal DEF ResetCheckpoint, JP!Next
<1>14. CASE UNCHANGED vars
  BY <1>14, <1>a DEF vars
<1> QED
  BY <1>1, <1>2, <1>3, <1>4, <1>5, <1>6, <1>7, <1>8, <1>9, <1>10, <1>11, <1>12, <1>13, <1>14
  DEF Next, Analyze, Analyzers

(* The journal keeps its types.                                            *)
LEMMA JournalTypes ==
  ASSUME TypeInv, [Next]_vars PROVE J!TypeOK /\ J!TypeOK'
<1>1. JP!TypeOK /\ (JP!TypeOK => J!TypeOK)
  BY SameJournal DEF TypeInv, TypeOK
<1>2. JP!TypeOK'
  BY <1>1, JournalMoves, JP!TypeStep, JournalAssumed
<1>3. JP!TypeOK' => J!TypeOK'
  BY DEF J!TypeOK, JP!TypeOK, J!Events, JP!Events
<1> QED BY <1>1, <1>2, <1>3

-----------------------------------------------------------------------------
LEMMA NoTaskType ==
  NoTask \in [step : {"none"}, repo : Repos, hash : {0}, body : {0}]
BY AnalyzerBoundsAssumption DEF NoTask

(* Every variable keeps its type, and nothing is taken up without a hash.  *)
LEMMA TypeStep ==
  ASSUME TypeInv, [Next]_vars PROVE TypeInv'
<1> USE DEF TypeInv, TypeOK, Analyzers, TaskTypes
<1>0. /\ J!TypeOK' /\ MaxVersion \in Nat /\ MaxFaults \in Nat /\ 0 \in 0..MaxVersion
      /\ \A v \in Versions : v \in 0..MaxVersion
  BY JournalTypes, AnalyzerBoundsAssumption DEF Versions
<1>1. ASSUME UNCHANGED <<corpusVars, workVars, sideVars, faults>> PROVE TypeInv'
  BY <1>0, <1>1 DEF corpusVars, workVars, sideVars
<1>2. CASE StartAssistant
  BY <1>0, <1>2 DEF StartAssistant, corpusVars, workVars
<1>3. ASSUME NEW r \in Repos, WriteArtifacts(r) PROVE TypeInv'
  <2>1. PICK v \in Versions :
          /\ cached' = [cached EXCEPT ![r] = v]
          /\ crawl' = [crawl EXCEPT ![r] =
                         [step |-> "written", version |-> v, changed |-> meta[r] # v]]
    BY <1>3 DEF WriteArtifacts
  <2> QED BY <1>0, <1>3, <2>1 DEF WriteArtifacts, workVars, sideVars
<1>4. ASSUME NEW r \in Repos, AnnounceFetch(r) PROVE TypeInv'
  BY <1>0, <1>4 DEF AnnounceFetch, workVars, sideVars
<1>5. CASE FetchLands
  <2>1. PICK e \in writing[Crawler] :
          /\ crawl' = [crawl EXCEPT ![e.body.repo].step = "landed"]
          /\ UNCHANGED <<cached, meta, workVars, sideVars, faults>>
    BY <1>5 DEF FetchLands
  <2> DEFINE x == e.body.repo
  <2> HIDE DEF x
  <2>4. crawl' = [r \in Repos |-> IF r = x THEN [crawl[r] EXCEPT !.step = "landed"] ELSE crawl[r]]
    BY <2>1 DEF x
  <2>2. crawl' \in [Repos -> [step : {"none", "written", "sent", "landed"},
                              version : 0..MaxVersion, changed : BOOLEAN]]
    BY <2>4
  <2>3. \A r \in Repos : crawl'[r].step = "written" => crawl'[r].version \in Versions
    BY <2>4
  <2> QED BY <1>0, <2>1, <2>2, <2>3 DEF workVars, sideVars
<1>6. ASSUME NEW r \in Repos, SaveFetch(r) PROVE TypeInv'
  BY <1>0, <1>6 DEF SaveFetch, workVars, sideVars, NoCrawl
<1>7. ASSUME NEW r \in Repos, PickRepo(r) PROVE TypeInv'
  <2> DEFINE hash   == IF mode = "sweep" THEN analysis[r].hash ELSE meta[r]
             wanted == IF mode = "sweep" THEN ~analysis[r].sure ELSE meta[r] # 0
  <2>1. /\ todo' = todo \ {r}
        /\ task' = [task EXCEPT ![Assistant] = IF wanted THEN Begun(r, hash) ELSE NoTask]
        /\ UNCHANGED <<corpusVars, analysis, told, mode, dropped, faults>>
    BY <1>7 DEF PickRepo
  <2>2. wanted => hash \in Versions
    <3>1. CASE mode = "sweep"
      BY <3>1 DEF NoAnalysis, Analyses
    <3>2. CASE mode # "sweep"
      BY <3>2, <1>0 DEF Versions
    <3> QED BY <3>1, <3>2
  <2>3. wanted => Begun(r, hash) \in [step : {"load"}, repo : Repos, hash : Versions, body : {0}]
    BY <2>2 DEF Begun
  <2> HIDE DEF wanted, hash
  <2> QED BY <1>0, <2>1, <2>3, NoTaskType DEF corpusVars
<1>8. CASE TakeEvent
  <2>1. PICK e \in journal :
          /\ task' = [task EXCEPT ![Worker] =
                        IF e.body.type = "fetched" /\ e.body.changed
                          THEN Begun(e.body.repo, e.body.hash) ELSE NoTask]
          /\ UNCHANGED <<corpusVars, analysis, told, sideVars, faults>>
    BY <1>8 DEF TakeEvent
  <2>2. e.body \in Bodies
    BY DEF J!TypeOK, J!Events
  <2>3. IsFetch(e) => Begun(e.body.repo, e.body.hash)
                        \in [step : {"load"}, repo : Repos, hash : Versions, body : {0}]
    BY <2>2 DEF Bodies, Begun, IsFetch
  <2> QED BY <1>0, <2>1, <2>3, NoTaskType DEF IsFetch, corpusVars, sideVars
<1>9. CASE EventDone
  BY <1>0, <1>9, NoTaskType DEF EventDone, corpusVars, sideVars
<1>10. CASE AssistantEnds
  BY <1>0, <1>10, NoTaskType DEF AssistantEnds, corpusVars
<1>11. ASSUME NEW p \in Analyzers, Load(p) PROVE TypeInv'
  <2>1. task[p].repo \in Repos /\ cached[task[p].repo] \in 0..MaxVersion
    BY DEF Analyzers
  <2>2. cached[task[p].repo] # 0 => cached[task[p].repo] \in Versions
    BY <1>0, <2>1 DEF Versions
  <2> QED BY <1>0, <1>11, <2>1, <2>2 DEF Load, corpusVars, sideVars
<1>12. ASSUME NEW p \in Analyzers, WorkFails(p) PROVE TypeInv'
  <2>1. faults' \in 0..MaxFaults
    BY <1>0, <1>12 DEF WorkFails
  <2>2. task' = [task EXCEPT ![p].step = "fail"]
    BY <1>12 DEF WorkFails
  <2>3. TaskTypes'
    BY <2>2
  <2> QED BY <1>0, <1>12, <2>1, <2>3 DEF WorkFails, corpusVars, sideVars
<1>13. ASSUME NEW p \in Analyzers, PutAnalysis(p) PROVE TypeInv'
  <2>1. PICK sure \in Sure :
          analysis' = [analysis EXCEPT ![task[p].repo] =
                         [hash |-> task[p].hash, body |-> task[p].body, sure |-> sure]]
    BY <1>13 DEF PutAnalysis
  <2>2. [hash |-> task[p].hash, body |-> task[p].body, sure |-> sure] \in Analyses
    BY <1>13, AnalyzerBoundsAssumption DEF PutAnalysis, Analyses
  <2>3. analysis' \in [Repos -> Analyses \cup {NoAnalysis}]
    BY <2>1, <2>2
  <2>4. told' \in [Repos -> BOOLEAN]
    BY <1>13 DEF PutAnalysis
  <2>5. task' = [task EXCEPT ![p].step = "tell"] /\ task[p].hash \in Versions
    BY <1>13 DEF PutAnalysis
  <2>6. TaskTypes'
    BY <2>5
  <2> QED BY <1>0, <1>13, <2>3, <2>4, <2>6 DEF PutAnalysis, corpusVars, sideVars
<1>14. ASSUME NEW p \in Analyzers, OutcomeLands(p) PROVE TypeInv'
  <2>1. told' \in [Repos -> BOOLEAN]
    BY <1>14 DEF OutcomeLands
  <2>2. task' = [task EXCEPT ![p].step = "ended"]
    BY <1>14 DEF OutcomeLands
  <2>3. TaskTypes'
    BY <2>2
  <2> QED BY <1>0, <1>14, <2>1, <2>3 DEF OutcomeLands, corpusVars, sideVars
<1>15. ASSUME NEW p \in Analyzers, OutcomeRefused(p) PROVE TypeInv'
  <2>1. faults' \in 0..MaxFaults
    BY <1>0, <1>15 DEF OutcomeRefused
  <2>2. task' = [task EXCEPT ![p].step = IF @ = "skip" THEN "fail" ELSE "thrown"]
    BY <1>15 DEF OutcomeRefused
  <2>3. TaskTypes'
    BY <2>2
  <2>4. dropped' \subseteq Repos
    BY <1>15 DEF OutcomeRefused, Untold, Analyzers
  <2> QED BY <1>0, <1>15, <2>1, <2>3, <2>4 DEF OutcomeRefused, corpusVars
<1>16. ASSUME NEW p \in Procs, Leave(p) PROVE TypeInv'
  <2>1. crawl' \in [Repos -> [step : {"none", "written", "sent", "landed"},
                              version : 0..MaxVersion, changed : BOOLEAN]]
        /\ \A r \in Repos : crawl'[r].step = "written" => crawl'[r].version \in Versions
    BY <1>0, <1>16 DEF Leave, NoCrawl
  <2>2. TaskTypes'
    BY <1>0, <1>16, NoTaskType DEF Leave
  <2>3. /\ todo' \subseteq Repos /\ mode' \in {"none", "sweep", "direct", "over"}
        /\ dropped' \subseteq Repos
    BY <1>16 DEF Leave, Untold, Analyzers
  <2> QED BY <1>0, <1>16, <2>1, <2>2, <2>3 DEF Leave
<1>17. CASE UNCHANGED vars
  BY <1>1, <1>17 DEF vars
<1> QED
  BY <1>1, <1>2, <1>3, <1>4, <1>5, <1>6, <1>7, <1>8, <1>9, <1>10, <1>11, <1>12, <1>13, <1>14,
     <1>15, <1>16, <1>17
  DEF Next, Analyze, StartCrawler, StartWorker, WalkJournal, AppendOutcome, ResetCheckpoint

-----------------------------------------------------------------------------
(* The journal's invariants hold of the journal of Analyzer.               *)
LEMMA FullStep ==
  ASSUME InTurn, TypeInv, JP!FullInv, [Next]_vars PROVE JP!FullInv'
BY JournalMoves, JP!FullInvStep, JournalAssumed DEF InTurn, JP!InTurn

(* What the journal's invariants say of the processes, events and ids.     *)
LEMMA JournalFacts ==
  ASSUME TypeInv, JP!FullInv
  PROVE  /\ pc = "idle" <=> Worker \notin running
         /\ \A p, q \in running : p = q
         /\ \A p \in Procs : p \notin running => writing[p] = {}
         /\ pc \in {"handle", "advance"} => \E e \in journal : e.id = current
         /\ \A e, f \in journal : e.id = f.id => e = f
         /\ \A p \in Procs : \A e \in writing[p], f \in journal : e.id # f.id
         /\ running \subseteq Procs
         /\ \A e \in journal : e.id \in Nat /\ e.body \in Bodies
         /\ \A p \in Procs : \A e \in writing[p] : e.id \in Nat /\ e.body \in Bodies
         /\ writing \in [Procs -> SUBSET J!Events]
<1>1. JP!TypeOK /\ JP!TurnInv /\ JP!ListInv /\ JP!UniqueInv
  BY DEF JP!FullInv, JP!SkipInv
<1>2. /\ running \subseteq Procs
      /\ journal \subseteq J!Events /\ writing \in [Procs -> SUBSET J!Events]
  BY DEF TypeInv, TypeOK, J!TypeOK
<1>3. /\ pc = "idle" <=> Worker \notin running
      /\ \A p, q \in running : p = q
      /\ \A p \in Procs : p \notin running => writing[p] = {}
  BY <1>1 DEF JP!TurnInv
<1>4. /\ pc \in {"handle", "advance"} => \E e \in journal : e.id = current
      /\ \A e, f \in journal : e.id = f.id => e = f
      /\ \A p \in Procs : \A e \in writing[p], f \in journal : e.id # f.id
  BY <1>1 DEF JP!ListInv, JP!UniqueInv, JP!Yielded, JP!Landed
<1> QED BY <1>2, <1>3, <1>4 DEF J!Events

(* An analyzer's task is that of its event, and its writes are the task's. *)
LEMMA WorkStep ==
  ASSUME TypeInv, TypeInv', JP!FullInv, WorkInv, [Next]_vars PROVE WorkInv'
<1> USE DEF Analyzers, J!reader, J!ghosts
<1>0. /\ Worker \in Procs /\ Assistant \in Procs /\ Crawler \in Procs
      /\ Worker # Assistant /\ Worker # Crawler /\ Crawler # Assistant
      /\ NoTask.step = "none"
      /\ task \in [{Worker, Assistant} ->
                 [step : {"none", "load", "put", "tell", "skip", "fail", "ended", "thrown"},
                  repo : Repos, hash : 0..MaxVersion, body : 0..MaxVersion]]
  BY DEF Procs, Worker, Assistant, Crawler, NoTask, TypeInv, TypeOK
<1>a. writing \in [Procs -> SUBSET J!Events]
  BY JournalFacts
<1>1. ASSUME UNCHANGED <<pc, current, journal, writing, task, todo, mode, running>> PROVE WorkInv'
  BY <1>1 DEF WorkInv, TaskOf, IsChange, IsFetch
<1>2. CASE StartCrawler \/ StartWorker
  <2>1. /\ pc' \in {pc, "open"} /\ running \subseteq running'
        /\ UNCHANGED <<current, journal, writing, task, todo, mode>>
        /\ pc' = "open" => pc = "idle" \/ pc = "open"
    BY <1>0, <1>2, JournalFacts
    DEF StartCrawler, StartWorker, J!Start, workVars, sideVars
  <2> QED BY <2>1 DEF WorkInv, TaskOf, IsChange, IsFetch
<1>3. CASE StartAssistant
  BY <1>0, <1>3 DEF StartAssistant, J!Start, workVars, WorkInv, TaskOf, IsChange, IsFetch
<1>4. ASSUME NEW r \in Repos, WriteArtifacts(r) \/ SaveFetch(r) PROVE WorkInv'
  BY <1>1, <1>4 DEF WriteArtifacts, SaveFetch, journalVars, workVars, sideVars
<1>5. ASSUME NEW r \in Repos, AnnounceFetch(r) PROVE WorkInv'
  <2>1. /\ \A p \in Analyzers : writing'[p] = writing[p]
        /\ \A o \in writing'[Crawler] : o \in writing[Crawler] \/ IsFetch(o)
    BY <1>0, <1>5, <1>a DEF AnnounceFetch, J!Append, IsFetch
  <2>2. UNCHANGED <<pc, current, journal, task, todo, mode, running>>
    BY <1>5 DEF AnnounceFetch, J!Append, workVars, sideVars
  <2> QED BY <2>1, <2>2 DEF WorkInv, TaskOf, IsChange, IsFetch
<1>6. CASE FetchLands
  <2>1. PICK e \in writing[Crawler] : J!Land(Crawler, e)
    BY <1>6 DEF FetchLands
  <2>2. /\ \A p \in Analyzers : writing'[p] = writing[p]
        /\ writing'[Crawler] \subseteq writing[Crawler]
        /\ journal' = journal \cup {e}
    BY <1>0, <1>a, <2>1 DEF J!Land
  <2>3. UNCHANGED <<pc, current, task, todo, mode, running>>
    BY <1>6, <2>1 DEF FetchLands, J!Land, workVars, sideVars
  <2>4. pc = "handle" => e.id # current
    BY <1>0, JournalFacts
  <2> QED BY <2>2, <2>3, <2>4 DEF WorkInv, TaskOf, IsChange, IsFetch
<1>7. ASSUME NEW r \in Repos, PickRepo(r) PROVE WorkInv'
  <2>1. writing[Assistant] = {} /\ task'[Worker] = task[Worker] /\ mode # "over"
    BY <1>0, <1>7 DEF PickRepo, WorkInv
  <2>2. UNCHANGED <<pc, current, journal, writing, mode, running>> /\ Assistant \in running
    BY <1>7 DEF PickRepo, journalVars
  <2> QED BY <2>1, <2>2 DEF WorkInv, TaskOf, IsChange, IsFetch
<1>8. CASE WalkJournal
  <2>1. /\ pc # "handle" /\ pc' # "handle"
        /\ UNCHANGED <<journal, writing, task, todo, mode, running>>
    BY <1>8 DEF WalkJournal, J!Open, J!ListDay, J!Advance, J!Finish, workVars, sideVars
  <2> QED BY <2>1 DEF WorkInv, IsFetch
<1>9. CASE TakeEvent
  <2>1. PICK e \in journal :
          /\ e.id = current'
          /\ task' = [task EXCEPT ![Worker] =
                        IF e.body.type = "fetched" /\ e.body.changed
                          THEN Begun(e.body.repo, e.body.hash) ELSE NoTask]
    BY <1>9 DEF TakeEvent
  <2>2. /\ pc = "list" /\ pc' = "handle"
        /\ UNCHANGED <<journal, writing, todo, mode, running>>
    BY <1>9 DEF TakeEvent, J!Yield, sideVars
  <2>3. TaskOf(e)'
    BY <1>0, <2>1 DEF TaskOf, Begun, IsChange
  <2>4. \A f \in journal' : f.id = current' => f = e
    BY <2>1, <2>2, JournalFacts
  <2>5. writing[Worker] = {} /\ task'[Assistant] = task[Assistant]
    BY <1>0, <2>1, <2>2 DEF WorkInv
  <2> QED BY <2>2, <2>3, <2>4, <2>5 DEF WorkInv, IsFetch
<1>10. CASE EventDone
  <2>1. /\ task' = [task EXCEPT ![Worker] = NoTask] /\ pc' = "advance" /\ writing[Worker] = {}
        /\ UNCHANGED <<journal, writing, todo, mode, running>>
    BY <1>10 DEF EventDone, J!Handle, sideVars
  <2> QED BY <1>0, <2>1 DEF WorkInv, IsFetch
<1>11. CASE AssistantEnds
  <2>1. writing[Assistant] = {} /\ task'[Worker] = task[Worker] /\ task'[Assistant] = NoTask
    BY <1>0, <1>11 DEF AssistantEnds, WorkInv
  <2>2. UNCHANGED <<pc, current, journal, writing, todo, running>> /\ todo = {}
    BY <1>11 DEF AssistantEnds, journalVars
  <2> QED BY <1>0, <2>1, <2>2 DEF WorkInv, TaskOf, IsChange, IsFetch
<1>12. ASSUME NEW p \in Analyzers, Load(p) \/ WorkFails(p) \/ PutAnalysis(p) PROVE WorkInv'
  <2>1. /\ task[p].step \in {"load", "put"} /\ task'[p].step # "none"
        /\ task'[p].repo = task[p].repo /\ task'[p].hash = task[p].hash
        /\ \A q \in Analyzers : q # p => task'[q] = task[q]
    BY <1>0, <1>12 DEF Load, WorkFails, PutAnalysis
  <2>2. UNCHANGED <<pc, current, journal, writing, todo, mode, running>>
    BY <1>12 DEF Load, WorkFails, PutAnalysis, journalVars, sideVars
  <2>3. writing[p] = {}
    BY <2>1 DEF WorkInv
  <2> QED BY <1>0, <2>1, <2>2, <2>3 DEF WorkInv, TaskOf, IsChange, IsFetch
<1>13. ASSUME NEW p \in Analyzers, AppendOutcome(p) PROVE WorkInv'
  <2>1. /\ task[p].step \in {"tell", "skip", "fail"} /\ writing[p] = {}
        /\ \E id \in J!NextIds(p) :
             writing' = [writing EXCEPT ![p] =
               @ \cup {[id |-> id, day |-> J!Day(clock), body |-> Outcome(task[p])]}]
    BY <1>13 DEF AppendOutcome, J!Append
  <2>2. UNCHANGED <<pc, current, journal, task, todo, mode, running>>
    BY <1>13 DEF AppendOutcome, J!Append, workVars, sideVars
  <2>3. /\ \A q \in Procs : q # p => writing'[q] = writing[q]
        /\ \A o \in writing'[p] : o.body = Outcome(task[p]) /\ \A f \in writing'[p] : f = o
    BY <1>0, <1>a, <2>1
  <2> QED BY <1>0, <2>1, <2>2, <2>3 DEF WorkInv, TaskOf, IsChange, IsFetch
<1>14. ASSUME NEW p \in Analyzers, OutcomeLands(p) \/ OutcomeRefused(p) PROVE WorkInv'
  <2>1. PICK o \in writing[p] :
          /\ J!Land(p, o) \/ J!Refuse(p, o)
          /\ task' = [task EXCEPT ![p].step = "ended"]
             \/ task' = [task EXCEPT ![p].step = IF @ = "skip" THEN "fail" ELSE "thrown"]
          /\ UNCHANGED <<todo, mode>>
    BY <1>14 DEF OutcomeLands, OutcomeRefused, sideVars
  <2>2. /\ writing' = [writing EXCEPT ![p] = @ \ {o}]
        /\ journal' \subseteq journal \cup {o}
        /\ UNCHANGED <<pc, current, todo, mode, running>>
    BY <2>1 DEF J!Land, J!Refuse, sideVars
  <2>3. writing'[p] = {} /\ \A q \in Procs : q # p => writing'[q] = writing[q]
    BY <1>0, <1>a, <2>1, <2>2 DEF WorkInv
  <2>4. /\ task[p].step \in {"tell", "skip", "fail"} /\ task'[p].step # "none"
        /\ task'[p].repo = task[p].repo /\ task'[p].hash = task[p].hash
        /\ \A q \in Analyzers : q # p => task'[q] = task[q]
    BY <1>0, <2>1 DEF WorkInv
  <2>5. pc = "handle" => o.id # current
    BY <1>0, <2>1, JournalFacts
  <2> QED BY <1>0, <2>2, <2>3, <2>4, <2>5 DEF WorkInv, TaskOf, IsChange, IsFetch
<1>15. ASSUME NEW p \in Procs, Leave(p) PROVE WorkInv'
  <2>1. /\ running' = running \ {p} /\ writing' = [writing EXCEPT ![p] = {}]
        /\ journal' = journal
        /\ task' = IF p = Crawler THEN task ELSE [task EXCEPT ![p] = NoTask]
        /\ todo' = IF p = Assistant THEN {} ELSE todo
        /\ mode' = IF p = Assistant THEN "none" ELSE mode
        /\ IF p = Worker THEN pc' = "idle" ELSE UNCHANGED <<pc, current>>
    BY <1>15 DEF Leave, J!Stop
  <2>2. writing'[p] = {} /\ \A q \in Procs : q # p => writing'[q] = writing[q]
    BY <1>a, <2>1
  <2>3. CASE p = Worker
    BY <1>0, <2>1, <2>2, <2>3 DEF WorkInv, IsFetch
  <2>4. CASE p = Assistant
    BY <1>0, <2>1, <2>2, <2>4 DEF WorkInv, TaskOf, IsChange, IsFetch
  <2>5. CASE p = Crawler
    BY <1>0, <2>1, <2>2, <2>5 DEF WorkInv, TaskOf, IsChange, IsFetch
  <2> QED BY <2>3, <2>4, <2>5 DEF Procs
<1>16. CASE ResetCheckpoint
  BY <1>1, <1>16 DEF ResetCheckpoint, J!Reset, workVars, sideVars
<1>17. CASE UNCHANGED vars
  BY <1>1, <1>17 DEF vars, journalVars, workVars, sideVars
<1> QED
  BY <1>2, <1>3, <1>4, <1>5, <1>6, <1>7, <1>8, <1>9, <1>10, <1>11, <1>12, <1>13, <1>14,
     <1>15, <1>16, <1>17
  DEF Next, Analyze

(* Every change that has been handled is answered.                         *)
LEMMA AnswerStep ==
  ASSUME InTurn, TypeInv, TypeInv', JP!FullInv, WorkInv, AnswerInv, [Next]_vars PROVE AnswerInv'
<1> USE DEF Analyzers, J!reader, J!ghosts
<1>0. /\ Worker \in Procs /\ Assistant \in Procs /\ Crawler \in Procs
      /\ Worker # Assistant /\ Worker # Crawler /\ Crawler # Assistant
      /\ NoTask.step = "none"
      /\ task \in [{Worker, Assistant} ->
                 [step : {"none", "load", "put", "tell", "skip", "fail", "ended", "thrown"},
                  repo : Repos, hash : 0..MaxVersion, body : 0..MaxVersion]]
  BY DEF Procs, Worker, Assistant, Crawler, NoTask, TypeInv, TypeOK
<1>a. writing \in [Procs -> SUBSET J!Events] /\ handled \subseteq {e.id : e \in journal}
  BY JournalFacts DEF JP!FullInv, JP!UniqueInv, JP!Landed
<1>b. ASSUME journal \subseteq journal', NEW e \in journal, Answered(e) PROVE Answered(e)'
  BY <1>b DEF Answered, Outcomes
<1>1. ASSUME UNCHANGED <<journal, handled>>,
             pc' # "handle" \/ task'[Worker].step # "ended"
             \/ UNCHANGED <<pc, current, task>>
      PROVE  AnswerInv'
  BY <1>1 DEF AnswerInv, Answered, Outcomes, IsChange, IsFetch
<1>2. CASE StartCrawler \/ StartWorker \/ StartAssistant
  <2>1. UNCHANGED <<journal, handled, current, task>> /\ pc' \in {pc, "open"}
    BY <1>2 DEF StartCrawler, StartWorker, StartAssistant, J!Start, workVars
  <2> QED BY <2>1, <1>1
<1>3. ASSUME NEW r \in Repos, WriteArtifacts(r) \/ SaveFetch(r) \/ AnnounceFetch(r) \/ PickRepo(r)
      PROVE  AnswerInv'
  <2>1. /\ UNCHANGED <<journal, handled, current, pc>>
        /\ task'[Worker] = task[Worker]
    BY <1>0, <1>3
    DEF WriteArtifacts, SaveFetch, AnnounceFetch, PickRepo, J!Append, journalVars, workVars
  <2> QED BY <2>1 DEF AnswerInv, Answered, Outcomes, IsChange, IsFetch
<1>4. ASSUME NEW p \in Procs, NEW o \in writing[p], journal' = journal \cup {o},
             UNCHANGED <<handled, current, pc>>,
             o.body = Outcome(task[Worker]) \/ task'[Worker] = task[Worker],
             pc = "handle" /\ task'[Worker].step = "ended" /\ task[Worker].step # "ended" =>
               \A e \in journal : IsChange(e) /\ e.id = current => Answered(e)'
      PROVE  AnswerInv'
  <2>1. o.id \notin {e.id : e \in journal} /\ (pc = "handle" => o.id # current)
    BY JournalFacts
  <2>2. \A e \in journal' : e.id \in handled \/ (pc = "handle" /\ e.id = current) => e \in journal
    BY <1>4, <1>a, <2>1
  <2>3. ASSUME NEW e \in journal', IsChange(e), e.id \in handled' PROVE Answered(e)'
    BY <1>4, <1>b, <2>2, <2>3 DEF AnswerInv
  <2>4. ASSUME NEW e \in journal', IsChange(e), e.id = current',
               pc' = "handle", task'[Worker].step = "ended"
        PROVE  Answered(e)'
    <3>1. e \in journal
      BY <1>4, <2>2, <2>4
    <3>2. CASE task[Worker].step = "ended"
      BY <1>4, <1>b, <2>4, <3>1, <3>2 DEF AnswerInv
    <3>3. CASE task[Worker].step # "ended"
      BY <1>4, <2>4, <3>1, <3>3
    <3> QED BY <3>2, <3>3
  <2> QED BY <2>3, <2>4 DEF AnswerInv, IsChange
<1>5. CASE FetchLands
  <2>1. PICK e \in writing[Crawler] : J!Land(Crawler, e)
    BY <1>5 DEF FetchLands
  <2>2. journal' = journal \cup {e} /\ UNCHANGED <<handled, current, pc, task>>
    BY <1>5, <2>1 DEF FetchLands, J!Land, workVars
  <2> QED BY <1>0, <1>4, <2>2
<1>6. CASE WalkJournal
  <2>1. UNCHANGED <<journal, handled>> /\ pc' # "handle"
    BY <1>6 DEF WalkJournal, J!Open, J!ListDay, J!Advance, J!Finish
  <2> QED BY <1>1, <2>1
<1>7. CASE TakeEvent
  <2>1. UNCHANGED <<journal, handled>> /\ task'[Worker].step # "ended"
    BY <1>0, <1>7 DEF TakeEvent, J!Yield, Begun
  <2> QED BY <1>1, <2>1
<1>8. CASE EventDone
  <2>1. /\ pc = "handle" /\ pc' = "advance" /\ journal' = journal
        /\ handled' = handled \cup {current} /\ task[Worker].step \in {"none", "ended"}
    BY <1>8 DEF EventDone, J!Handle
  <2>2. ASSUME NEW e \in journal, IsChange(e), e.id = current PROVE Answered(e)
    BY <2>1, <2>2 DEF WorkInv, TaskOf, AnswerInv
  <2> QED BY <1>b, <2>1, <2>2 DEF AnswerInv, IsChange
<1>9. CASE AssistantEnds
  <2>1. UNCHANGED <<journal, handled, pc, current>> /\ task'[Worker] = task[Worker]
    BY <1>0, <1>9 DEF AssistantEnds, journalVars
  <2> QED BY <2>1 DEF AnswerInv, Answered, Outcomes, IsChange, IsFetch
<1>10. ASSUME NEW p \in Analyzers, Load(p) \/ WorkFails(p) \/ PutAnalysis(p) PROVE AnswerInv'
  <2>1. /\ UNCHANGED <<journal, handled, pc, current>>
        /\ task'[Worker].step # "ended" \/ task'[Worker] = task[Worker]
    BY <1>0, <1>10 DEF Load, WorkFails, PutAnalysis, journalVars
  <2> QED BY <2>1 DEF AnswerInv, Answered, Outcomes, IsChange, IsFetch
<1>11. ASSUME NEW p \in Analyzers, AppendOutcome(p) PROVE AnswerInv'
  BY <1>1, <1>11 DEF AppendOutcome, J!Append, workVars
<1>12. ASSUME NEW p \in Analyzers, OutcomeLands(p) PROVE AnswerInv'
  <2>1. PICK o \in writing[p] : J!Land(p, o) /\ task' = [task EXCEPT ![p].step = "ended"]
    BY <1>12 DEF OutcomeLands
  <2>2. journal' = journal \cup {o} /\ UNCHANGED <<handled, current, pc>>
    BY <2>1 DEF J!Land
  <2>3. p = Worker \/ task'[Worker] = task[Worker]
    BY <1>0, <2>1
  <2>4. ASSUME p = Worker, NEW e \in journal, IsChange(e), e.id = current, pc = "handle"
        PROVE  Answered(e)'
    <3>1. /\ task[Worker].repo = e.body.repo /\ task[Worker].hash = e.body.hash
          /\ task[Worker].step \in {"tell", "skip", "fail"} /\ o.body = Outcome(task[Worker])
      BY <2>1, <2>4 DEF WorkInv, TaskOf
    <3>2. o.id > e.id
      <4>1. Worker \in running
        BY <2>4, JournalFacts
      <4>2. \A x \in journal : x.id < o.id
        BY <2>1, <2>4, <4>1 DEF JP!FullInv, JP!SkipInv, JP!OutcomeInv
      <4> QED BY <1>0, <4>2, JournalFacts
    <3>3. /\ o.body.type \in {"analyzed", "skipped", "failed"} /\ o.body.repo = e.body.repo
          /\ o.body.type = "analyzed" => o.body.hash = e.body.hash
      BY <3>1 DEF Outcome
    <3>4. o \in journal'
      BY <2>2
    <3> QED BY <3>2, <3>3, <3>4 DEF Answered, Outcomes
  <2> QED BY <1>0, <1>4, <2>1, <2>2, <2>3, <2>4 DEF WorkInv
<1>13. ASSUME NEW p \in Analyzers, OutcomeRefused(p) PROVE AnswerInv'
  <2>1. /\ UNCHANGED <<journal, handled, pc, current>>
        /\ task'[Worker].step # "ended" \/ task'[Worker] = task[Worker]
    BY <1>0, <1>13 DEF OutcomeRefused, J!Refuse
  <2> QED BY <2>1 DEF AnswerInv, Answered, Outcomes, IsChange, IsFetch
<1>14. ASSUME NEW p \in Procs, Leave(p) PROVE AnswerInv'
  <2>1. /\ UNCHANGED <<journal, handled>>
        /\ pc' = "idle" \/ (UNCHANGED <<pc, current>> /\ task'[Worker] = task[Worker])
    BY <1>0, <1>14 DEF Leave, J!Stop
  <2> QED BY <2>1 DEF AnswerInv, Answered, Outcomes, IsChange, IsFetch
<1>15. CASE ResetCheckpoint
  <2>1. handled' = {} /\ UNCHANGED <<journal, pc, current, task>>
    BY <1>15 DEF ResetCheckpoint, J!Reset, workVars
  <2> QED BY <2>1 DEF AnswerInv, Answered, Outcomes, IsChange, IsFetch
<1>16. CASE UNCHANGED vars
  BY <1>1, <1>16 DEF vars, journalVars, workVars
<1> QED
  BY <1>2, <1>3, <1>5, <1>6, <1>7, <1>8, <1>9, <1>10, <1>11, <1>12, <1>13, <1>14, <1>15, <1>16
  DEF Next, Analyze

-----------------------------------------------------------------------------
(* A process works only while it runs, and one at a time.                  *)
LEMMA OneAtWork ==
  ASSUME TypeInv, JP!FullInv, WorkInv
  PROVE  /\ task[Worker].step # "none" => pc = "handle" /\ Worker \in running
         /\ task[Assistant].step # "none" => Assistant \in running /\ pc = "idle"
         /\ Crawler \in running => pc = "idle"
         /\ Crawler \in running => \A p \in Analyzers : task[p].step = "none"
         /\ \A p, q \in Analyzers : p # q /\ task[p].step # "none" => task[q].step = "none"
<1>1. Worker # Assistant /\ Worker # Crawler /\ Crawler # Assistant
  BY DEF Worker, Assistant, Crawler
<1> QED BY <1>1, JournalFacts DEF WorkInv, Analyzers

(* Where the ids in flight stand.                                          *)
LEMMA FlightFacts ==
  ASSUME TypeInv, JP!FullInv
  PROVE  /\ checkpoint \in Nat /\ current \in Nat /\ after \in Nat
         /\ \A e \in writing[Crawler] : Crawler \in running /\ e.id > checkpoint
         /\ \A o \in writing[Worker], x \in journal : x.id < o.id
         /\ pc \in {"handle", "advance"} => checkpoint < current
<1>0. Crawler \in Procs /\ Worker \in Procs /\ Crawler # Worker
  BY DEF Procs, Crawler, Worker
<1>1. /\ JP!TypeOK /\ JP!TurnInv /\ JP!WriterInv /\ JP!OutcomeInv /\ JP!CursorInv
  BY DEF JP!FullInv, JP!SkipInv
<1>2. checkpoint \in Nat /\ current \in Nat /\ after \in Nat
  BY <1>1 DEF JP!TypeOK
<1>3. \A e \in writing[Crawler] : Crawler \in running /\ e.id > checkpoint
  BY <1>0, <1>1 DEF JP!TurnInv, JP!WriterInv
<1>4. \A o \in writing[Worker], x \in journal : x.id < o.id
  BY <1>0, <1>1 DEF JP!TurnInv, JP!OutcomeInv
<1>5. pc \in {"handle", "advance"} => checkpoint < current
  BY <1>1 DEF JP!CursorInv, JP!Yielded
<1> QED BY <1>2, <1>3, <1>4, <1>5

(* Announcements are never ahead of the artifacts, and an analysis is made *)
(* from artifacts that stay the newest until it is told.                   *)
LEMMA FreshStep ==
  ASSUME TypeInv, TypeInv', JP!FullInv, WorkInv, FreshInv, [Next]_vars PROVE FreshInv'
<1> USE DEF Analyzers, J!reader, J!ghosts
<1>0. /\ Worker \in Procs /\ Assistant \in Procs /\ Crawler \in Procs
      /\ Worker # Assistant /\ Worker # Crawler /\ Crawler # Assistant
      /\ NoTask.step = "none" /\ NoCrawl.step = "none"
      /\ task \in [{Worker, Assistant} ->
                 [step : {"none", "load", "put", "tell", "skip", "fail", "ended", "thrown"},
                  repo : Repos, hash : 0..MaxVersion, body : 0..MaxVersion]]
      /\ cached \in [Repos -> 0..MaxVersion] /\ MaxVersion \in Nat
  BY AnalyzerBoundsAssumption
  DEF Procs, Worker, Assistant, Crawler, NoTask, NoCrawl, TypeInv, TypeOK
<1>a. /\ writing \in [Procs -> SUBSET J!Events]
      /\ \A e \in journal : e.body \in Bodies
      /\ \A p \in Procs : \A e \in writing[p] : e.body \in Bodies
  BY JournalFacts
<1>b. \A body \in Bodies : body.type = "fetched" => body.repo \in Repos /\ body.hash \in Versions
  BY DEF Bodies
<1>c. /\ crawl \in [Repos -> [step : {"none", "written", "sent", "landed"},
                              version : 0..MaxVersion, changed : BOOLEAN]]
      /\ analysis \in [Repos -> Analyses \cup {NoAnalysis}]
  BY DEF TypeInv, TypeOK
<1>1. ASSUME UNCHANGED <<journal, cached, analysis>>,
             \A p \in Analyzers : task'[p] = task[p] \/ task'[p].step \notin {"put", "tell", "skip"},
             writing'[Crawler] \subseteq writing[Crawler],
             \A r \in Repos : crawl'[r] = crawl[r] \/ crawl'[r].step # "written"
      PROVE  FreshInv'
  BY <1>1 DEF FreshInv, IsFetch
<1>2. CASE StartCrawler \/ StartWorker \/ StartAssistant \/ WalkJournal \/ ResetCheckpoint
  <2>1. UNCHANGED <<journal, writing, corpusVars, analysis, task>>
    BY <1>2
    DEF StartCrawler, StartWorker, StartAssistant, WalkJournal, ResetCheckpoint, J!Start,
        J!Open, J!ListDay, J!Advance, J!Finish, J!Reset, workVars
  <2> QED BY <2>1, <1>1 DEF corpusVars
<1>3. ASSUME NEW r \in Repos, WriteArtifacts(r) PROVE FreshInv'
  <2>1. PICK v \in Versions :
          /\ v >= cached[r] /\ cached' = [cached EXCEPT ![r] = v]
          /\ crawl' = [crawl EXCEPT ![r] =
                         [step |-> "written", version |-> v, changed |-> meta[r] # v]]
    BY <1>3 DEF WriteArtifacts
  <2>2. UNCHANGED <<journal, writing, analysis, task>>
    BY <1>3 DEF WriteArtifacts, journalVars, workVars
  <2>3. /\ \A s \in Repos : cached[s] <= cached'[s] /\ cached[s] \in Nat /\ cached'[s] \in Nat
        /\ \A s \in Repos : crawl'[s].step = "written" =>
             (s = r /\ crawl'[s].version = v /\ cached'[s] = v) \/ crawl'[s] = crawl[s]
        /\ v <= v
    BY <1>0, <1>c, <2>1 DEF Versions
  <2>4. \A p \in Analyzers : task[p].step = "none"
    BY <1>3, OneAtWork DEF WriteArtifacts
  <2>5. \A e \in journal : IsFetch(e) => e.body.hash <= cached'[e.body.repo]
    <3>1. \A e \in journal : IsFetch(e) => e.body.repo \in Repos /\ e.body.hash \in Nat
      BY <1>a, <1>b DEF IsFetch, Versions
    <3> QED BY <2>3, <3>1 DEF FreshInv
  <2>6. \A e \in writing[Crawler] : e.body.hash <= cached'[e.body.repo]
    <3>1. \A e \in writing[Crawler] : e.body.repo \in Repos /\ e.body.hash \in Nat
      BY <1>0, <1>a, <1>b DEF IsFetch, Versions, WorkInv
    <3> QED BY <2>3, <3>1 DEF FreshInv
  <2>7. \A s \in Repos : crawl'[s].step = "written" => crawl'[s].version <= cached'[s]
    <3>1. \A s \in Repos : crawl[s].version \in Nat
      BY <1>0, <1>c
    <3> QED BY <2>3, <3>1 DEF FreshInv
  <2> QED BY <2>2, <2>4, <2>5, <2>6, <2>7 DEF FreshInv, IsFetch
<1>4. ASSUME NEW r \in Repos, AnnounceFetch(r) PROVE FreshInv'
  <2>1. crawl[r].step = "written" /\ UNCHANGED <<journal, cached, analysis, task>>
    BY <1>4 DEF AnnounceFetch, J!Append, workVars
  <2>2. \A o \in writing'[Crawler] :
          o \in writing[Crawler] \/ (o.body.repo = r /\ o.body.hash = crawl[r].version)
    BY <1>0, <1>4, <1>a DEF AnnounceFetch, J!Append
  <2>3. \A s \in Repos : crawl'[s] = crawl[s] \/ crawl'[s].step # "written"
    BY <1>4, <1>c DEF AnnounceFetch
  <2> QED BY <2>1, <2>2, <2>3 DEF FreshInv, IsFetch
<1>5. CASE FetchLands
  <2>1. PICK e \in writing[Crawler] :
          J!Land(Crawler, e) /\ crawl' = [crawl EXCEPT ![e.body.repo].step = "landed"]
    BY <1>5 DEF FetchLands
  <2>2. /\ journal' = journal \cup {e} /\ writing'[Crawler] \subseteq writing[Crawler]
        /\ UNCHANGED <<cached, analysis, task>>
    BY <1>0, <1>5, <1>a, <2>1 DEF FetchLands, J!Land, workVars
  <2>3. \A s \in Repos : crawl'[s] = crawl[s] \/ crawl'[s].step # "written"
    BY <1>c, <2>1
  <2> QED BY <2>1, <2>2, <2>3 DEF FreshInv, IsFetch
<1>6. ASSUME NEW r \in Repos, SaveFetch(r) \/ PickRepo(r) PROVE FreshInv'
  <2>1. UNCHANGED <<journal, cached, analysis, writing>>
    BY <1>6 DEF SaveFetch, PickRepo, journalVars, corpusVars, workVars
  <2>2. \A s \in Repos : crawl'[s] = crawl[s] \/ crawl'[s].step # "written"
    BY <1>0, <1>6, <1>c DEF SaveFetch, PickRepo, corpusVars
  <2>3. \A p \in Analyzers :
          task'[p] = task[p] \/ task'[p].step \notin {"put", "tell", "skip"}
    BY <1>0, <1>6 DEF SaveFetch, PickRepo, workVars, Begun
  <2> QED BY <1>1, <2>1, <2>2, <2>3
<1>7. CASE TakeEvent \/ EventDone \/ AssistantEnds
  <2>1. UNCHANGED <<journal, cached, analysis, writing, crawl>>
    BY <1>7 DEF TakeEvent, EventDone, AssistantEnds, J!Yield, J!Handle, journalVars, corpusVars
  <2>2. \A p \in Analyzers :
          task'[p] = task[p] \/ task'[p].step \notin {"put", "tell", "skip"}
    BY <1>0, <1>7 DEF TakeEvent, EventDone, AssistantEnds, Begun
  <2> QED BY <1>1, <2>1, <2>2
<1>8. ASSUME NEW p \in Analyzers, Load(p) PROVE FreshInv'
  <2>1. UNCHANGED <<journal, cached, analysis, writing, crawl>>
    BY <1>8 DEF Load, journalVars, corpusVars
  <2>2. /\ task[p].step = "load" /\ task[p].repo \in Repos
        /\ task' = [task EXCEPT ![p].step = IF cached[task[p].repo] = 0 THEN "skip" ELSE "put",
                                ![p].body = cached[task[p].repo]]
    BY <1>0, <1>8 DEF Load
  <2>3. ASSUME p = Worker PROVE cached[task[p].repo] # 0
    <3>1. pc = "handle"
      BY <2>2, <2>3, OneAtWork
    <3>2. PICK e \in journal : e.id = current
      BY <3>1, JournalFacts
    <3>3. IsFetch(e) /\ e.body.repo = task[p].repo
      BY <2>2, <2>3, <3>1, <3>2 DEF WorkInv, TaskOf, IsChange, IsFetch
    <3>4. e.body.hash \in Versions /\ e.body.hash <= cached[task[p].repo]
      BY <1>a, <1>b, <3>3 DEF FreshInv, IsFetch
    <3> QED BY <3>4 DEF Versions
  <2>4. /\ \A q \in Analyzers : q # p => task'[q] = task[q]
        /\ task'[p].repo = task[p].repo /\ task'[p].step \in {"skip", "put"}
        /\ task'[p].body = cached[task[p].repo]
        /\ p = Worker => task'[p].step = "put"
    BY <1>0, <2>2, <2>3
  <2> QED BY <1>0, <2>1, <2>4 DEF FreshInv, IsFetch
<1>9. ASSUME NEW p \in Analyzers, WorkFails(p) \/ OutcomeRefused(p) PROVE FreshInv'
  <2>1. UNCHANGED <<journal, cached, analysis, crawl>> /\ writing'[Crawler] \subseteq writing[Crawler]
    BY <1>0, <1>9, <1>a DEF WorkFails, OutcomeRefused, J!Refuse, journalVars, corpusVars
  <2>2. \A q \in Analyzers :
          task'[q] = task[q] \/ task'[q].step \notin {"put", "tell", "skip"}
    BY <1>0, <1>9 DEF WorkFails, OutcomeRefused
  <2> QED BY <1>1, <2>1, <2>2
<1>10. ASSUME NEW p \in Analyzers, PutAnalysis(p) PROVE FreshInv'
  <2>1. /\ UNCHANGED <<journal, cached, writing, crawl>>
        /\ task[p].step = "put" /\ task' = [task EXCEPT ![p].step = "tell"]
        /\ analysis'[task[p].repo].body = task[p].body
    BY <1>0, <1>10, <1>c DEF PutAnalysis, journalVars, corpusVars
  <2>2. /\ \A q \in Analyzers : q # p => task'[q].step = "none"
        /\ task'[p].step = "tell" /\ task'[p].repo = task[p].repo
    BY <1>0, <2>1, OneAtWork
  <2> QED BY <1>0, <2>1, <2>2 DEF FreshInv, IsFetch
<1>11. ASSUME NEW p \in Analyzers, AppendOutcome(p) PROVE FreshInv'
  <2>1. UNCHANGED <<journal, cached, analysis, crawl, task>> /\ writing'[Crawler] = writing[Crawler]
    BY <1>0, <1>11, <1>a DEF AppendOutcome, J!Append, corpusVars, workVars
  <2> QED BY <1>1, <2>1
<1>12. ASSUME NEW p \in Analyzers, OutcomeLands(p) PROVE FreshInv'
  <2>1. PICK o \in writing[p] : J!Land(p, o) /\ task' = [task EXCEPT ![p].step = "ended"]
    BY <1>12 DEF OutcomeLands
  <2>2. /\ journal' = journal \cup {o} /\ writing'[Crawler] = writing[Crawler]
        /\ UNCHANGED <<cached, analysis, crawl>>
    BY <1>0, <1>12, <1>a, <2>1 DEF OutcomeLands, J!Land, corpusVars
  <2>3. ~IsFetch(o)
    BY <2>1 DEF WorkInv, Outcome, IsFetch
  <2>4. \A q \in Analyzers :
          task'[q] = task[q] \/ task'[q].step = "ended"
    BY <1>0, <2>1
  <2> QED BY <2>2, <2>3, <2>4 DEF FreshInv, IsFetch
<1>13. ASSUME NEW p \in Procs, Leave(p) PROVE FreshInv'
  <2>1. UNCHANGED <<journal, cached, analysis>> /\ writing'[Crawler] \subseteq writing[Crawler]
    BY <1>0, <1>13, <1>a DEF Leave, J!Stop
  <2>2. \A q \in Analyzers : task'[q] = task[q] \/ task'[q].step = "none"
    BY <1>0, <1>13 DEF Leave
  <2>3. \A s \in Repos : crawl'[s] = crawl[s] \/ crawl'[s].step = "none"
    BY <1>0, <1>13 DEF Leave
  <2> QED BY <1>1, <2>1, <2>2, <2>3
<1>14. CASE UNCHANGED vars
  BY <1>1, <1>14 DEF vars, journalVars, corpusVars, workVars
<1> QED
  BY <1>2, <1>3, <1>4, <1>5, <1>6, <1>7, <1>8, <1>9, <1>10, <1>11, <1>12, <1>13, <1>14
  DEF Next, Analyze

(* No fetch lands while the worker reads.                                  *)
LEMMA BacklogStep ==
  ASSUME TypeInv, TypeInv', JP!FullInv, WorkInv, BacklogInv, [Next]_vars PROVE BacklogInv'
<1> USE DEF Analyzers, J!reader, J!ghosts
<1>0. /\ Worker \in Procs /\ Assistant \in Procs /\ Crawler \in Procs
      /\ Worker # Assistant /\ Worker # Crawler /\ Crawler # Assistant
  BY DEF Procs, Worker, Assistant, Crawler
<1>1. ASSUME \A e \in journal' : IsFetch(e) => e \in journal,
             pc' \in {"idle", "open"} \/ UNCHANGED <<after, owed>>,
             pc' \in {"idle", "open"} \/ pc \in {"list", "handle", "advance", "done"}
      PROVE  BacklogInv'
  BY <1>1 DEF BacklogInv, IsFetch
<1>2. CASE StartCrawler \/ StartWorker \/ StartAssistant
  BY <1>1, <1>2, JournalFacts DEF StartCrawler, StartWorker, StartAssistant, J!Start,
    BacklogInv, IsFetch
<1>3. ASSUME NEW r \in Repos, WriteArtifacts(r) \/ SaveFetch(r) \/ AnnounceFetch(r) \/ PickRepo(r)
      PROVE  BacklogInv'
  <2>1. UNCHANGED <<journal, pc, after, owed>>
    BY <1>3 DEF WriteArtifacts, SaveFetch, AnnounceFetch, PickRepo, J!Append, journalVars
  <2> QED BY <2>1 DEF BacklogInv, IsFetch
<1>4. CASE FetchLands
  <2>1. PICK e \in writing[Crawler] : J!Land(Crawler, e)
    BY <1>4 DEF FetchLands
  <2>2. pc = "idle" /\ pc' = pc
    BY <2>1, FlightFacts, OneAtWork DEF J!Land
  <2> QED BY <2>2 DEF BacklogInv
<1>5. CASE WalkJournal
  <2>1. CASE J!Open
    <3>1. /\ journal' = journal /\ after' = checkpoint
          /\ owed' = {i \in {e.id : e \in journal} : i > checkpoint}
      BY <2>1 DEF J!Open, J!Landed
    <3>2. \A e \in journal : e.id <= checkpoint \/ e.id > checkpoint
      BY JournalFacts, FlightFacts
    <3> QED BY <3>1, <3>2 DEF BacklogInv
  <2>2. CASE J!ListDay \/ J!Advance \/ J!Finish
    BY <1>1, <2>2 DEF J!ListDay, J!Advance, J!Finish
  <2> QED BY <1>5, <2>1, <2>2 DEF WalkJournal
<1>6. CASE TakeEvent \/ EventDone \/ AssistantEnds
  <2>1. /\ UNCHANGED <<journal, after, owed>>
        /\ pc' = pc \/ pc \in {"list", "handle"}
    BY <1>6 DEF TakeEvent, EventDone, AssistantEnds, J!Yield, J!Handle, journalVars
  <2> QED BY <2>1 DEF BacklogInv, IsFetch
<1>7. ASSUME NEW p \in Analyzers, Analyze(p) PROVE BacklogInv'
  <2>1. UNCHANGED <<pc, after, owed>>
    BY <1>7 DEF Analyze, Load, WorkFails, PutAnalysis, AppendOutcome, OutcomeLands, OutcomeRefused,
                J!Append, J!Land, J!Refuse, journalVars
  <2>2. \A e \in journal' : IsFetch(e) => e \in journal
    <3>1. CASE OutcomeLands(p)
      <4>1. PICK o \in writing[p] : journal' = journal \cup {o}
        BY <3>1 DEF OutcomeLands, J!Land
      <4> QED BY <4>1 DEF WorkInv, Outcome, IsFetch
    <3>2. CASE ~OutcomeLands(p)
      BY <1>7, <3>2 DEF Analyze, Load, WorkFails, PutAnalysis, AppendOutcome, OutcomeRefused,
                        J!Append, J!Refuse, journalVars
    <3> QED BY <3>1, <3>2
  <2> QED BY <2>1, <2>2 DEF BacklogInv
<1>8. ASSUME NEW p \in Procs, Leave(p) PROVE BacklogInv'
  <2>1. journal' = journal /\ (pc' = "idle" \/ UNCHANGED <<pc, after, owed>>)
    BY <1>8 DEF Leave, J!Stop
  <2> QED BY <2>1 DEF BacklogInv, IsFetch
<1>9. CASE ResetCheckpoint
  BY <1>9 DEF ResetCheckpoint, J!Reset, BacklogInv, IsFetch
<1>10. CASE UNCHANGED vars
  BY <1>10 DEF vars, journalVars, BacklogInv, IsFetch
<1> QED
  BY <1>2, <1>3, <1>4, <1>5, <1>6, <1>7, <1>8, <1>9, <1>10 DEF Next

(* What the read has still to get to is past the current event; at its end *)
(* there is nothing.                                                       *)
LEMMA Behind ==
  ASSUME TypeInv, JP!FullInv, BacklogInv, NEW e \in journal, IsFetch(e), checkpoint < e.id
  PROVE  /\ pc = "advance" => e.id = current \/ current < e.id
         /\ pc # "done"
<1>0. /\ JP!TypeOK /\ JP!ListInv /\ JP!CursorInv /\ JP!OwedInv
      /\ checkpoint \in Nat /\ current \in Nat /\ after \in Nat /\ e.id \in Nat
  BY JournalFacts, FlightFacts DEF JP!FullInv, JP!SkipInv
<1>1. ASSUME pc \in {"advance", "done"}
      PROVE  e.id \in owed
  <2>1. after <= checkpoint
    BY <1>0, <1>1 DEF JP!CursorInv, JP!Reading
  <2>2. ~(e.id <= after)
    BY <1>0, <2>1
  <2> QED BY <1>1, <2>2 DEF BacklogInv
<1>2. ASSUME pc = "advance", e.id # current PROVE current < e.id
  <2>1. JP!ToList(e.id)
    BY <1>0, <1>1, <1>2 DEF JP!OwedInv, JP!Reading
  <2>2. CASE e.id \in keys
    BY <1>0, <1>2, <2>2 DEF JP!ListInv, JP!Yielded
  <2>3. CASE JP!Day(JP!MsOf(e.id)) \in days
    <3>1. JP!Day(JP!MsOf(current)) < JP!Day(JP!MsOf(e.id))
      BY <1>0, <1>2, <2>3 DEF JP!ListInv, JP!Yielded
    <3> QED BY <1>0, <3>1, JP!DayOrder, JournalAssumed
  <2> QED BY <2>1, <2>2, <2>3 DEF JP!ToList
<1>3. pc # "done"
  BY <1>0, <1>1 DEF JP!OwedInv, JP!CursorInv, JP!ToList, JP!Reading, JP!Yielded
<1> QED BY <1>2, <1>3

(* An event that is not a fetch changes nothing of what has been fetched,  *)
(* and failures stay.                                                      *)
LEMMA OutcomeAdds ==
  ASSUME NEW o, journal' = journal \cup {o}, ~IsFetch(o), NEW r
  PROVE  /\ Changes(r)' = Changes(r)
         /\ LastFailed(r) => LastFailed(r)'
         /\ UNCHANGED checkpoint => (Pending(r) => Pending(r)')
         /\ UNCHANGED analysis => (Fresh(r) => Fresh(r)')
<1>1. Changes(r)' = Changes(r)
  BY DEF Changes, IsFetch
<1>2. Outcomes(r) \subseteq Outcomes(r)'
  BY DEF Outcomes
<1> QED BY <1>1, <1>2 DEF LastFailed, Pending, Fresh

(* What is not pending is analyzed and told, or has failed.                *)
LEMMA SettledStep ==
  ASSUME InTurn, TypeInv, TypeInv', JP!FullInv, WorkInv, FreshInv, BacklogInv, SettledInv,
         [Next]_vars
  PROVE  SettledInv'
<1> USE DEF Analyzers, J!reader, J!ghosts
<1>0. /\ Worker \in Procs /\ Assistant \in Procs /\ Crawler \in Procs
      /\ Worker # Assistant /\ Worker # Crawler /\ Crawler # Assistant
      /\ NoTask.step = "none"
      /\ task \in [{Worker, Assistant} ->
                 [step : {"none", "load", "put", "tell", "skip", "fail", "ended", "thrown"},
                  repo : Repos, hash : 0..MaxVersion, body : 0..MaxVersion]]
      /\ analysis \in [Repos -> Analyses \cup {NoAnalysis}]
      /\ told \in [Repos -> BOOLEAN]
      /\ cached \in [Repos -> 0..MaxVersion]
  BY DEF Procs, Worker, Assistant, Crawler, NoTask, TypeInv, TypeOK
<1>a. /\ checkpoint \in Nat /\ current \in Nat
      /\ \A e \in journal : e.id \in Nat /\ e.body \in Bodies
  BY JournalFacts, FlightFacts
<1>b. \A body \in Bodies : body.type = "fetched" => body.repo \in Repos /\ body.hash \in Versions
  BY DEF Bodies
<1> DEFINE Deciding == pc = "advance" \/ (pc = "handle" /\ task[Worker].step = "ended")
(* Steps that neither land, nor put, nor move the checkpoint.              *)
<1>1. ASSUME UNCHANGED <<journal, checkpoint, analysis, told>>,
             dropped \subseteq dropped',
             \A r \in Repos : Telling(r) => Telling(r)' \/ r \in dropped',
             Deciding' => Deciding /\ UNCHANGED current
      PROVE  SettledInv'
  <2>1. \A r \in Repos : /\ Pending(r)' = Pending(r) /\ LastFailed(r)' = LastFailed(r)
                         /\ Fresh(r)' = Fresh(r)
    BY <1>1 DEF Pending, LastFailed, Fresh, Changes, Outcomes
  <2>2. ASSUME Deciding', NEW e \in journal', IsChange(e), e.id = current'
        PROVE  LastFailed(e.body.repo)' \/ (told'[e.body.repo] /\ Fresh(e.body.repo)')
    <3>1. e.body.repo \in Repos
      BY <1>1, <1>a, <1>b, <2>2 DEF IsChange
    <3> QED BY <1>1, <2>1, <2>2, <3>1 DEF SettledInv
  <2> QED BY <1>1, <2>1, <2>2 DEF SettledInv, IsChange
<1>2. CASE StartCrawler \/ StartWorker \/ StartAssistant
  <2>1. /\ UNCHANGED <<journal, checkpoint, analysis, told, dropped, task, current>>
        /\ pc' \in {pc, "open"}
    BY <1>2 DEF StartCrawler, StartWorker, StartAssistant, J!Start, workVars, sideVars
  <2> QED BY <1>1, <2>1 DEF Telling
<1>3. ASSUME NEW r \in Repos, WriteArtifacts(r) \/ SaveFetch(r) \/ AnnounceFetch(r) PROVE SettledInv'
  <2>1. UNCHANGED <<journal, checkpoint, analysis, told, dropped, task, current, pc>>
    BY <1>3 DEF WriteArtifacts, SaveFetch, AnnounceFetch, J!Append, journalVars, workVars, sideVars
  <2> QED BY <1>1, <2>1 DEF Telling
<1>4. ASSUME NEW r \in Repos, PickRepo(r) PROVE SettledInv'
  <2>1. /\ UNCHANGED <<journal, checkpoint, analysis, told, dropped, current, pc>>
        /\ task[Assistant].step # "tell" /\ task'[Worker] = task[Worker]
    BY <1>0, <1>4 DEF PickRepo, journalVars
  <2> QED BY <1>1, <2>1 DEF Telling
<1>5. CASE FetchLands
  <2>1. PICK e \in writing[Crawler] : J!Land(Crawler, e)
    BY <1>5 DEF FetchLands
  <2>2. /\ journal' = journal \cup {e} /\ IsFetch(e) /\ e.id > checkpoint
        /\ UNCHANGED <<checkpoint, analysis, told, dropped, task, pc>>
    BY <1>5, <2>1, FlightFacts DEF FetchLands, J!Land, workVars, sideVars, WorkInv
  <2>3. pc = "idle"
    BY <2>1, FlightFacts, OneAtWork
  <2>4. ASSUME NEW r \in Repos, ~Pending(r)'
        PROVE  Changes(r)' = Changes(r) /\ Outcomes(r)' = Outcomes(r)
    <3>1. e \notin Changes(r)'
      BY <2>2, <2>4 DEF Pending
    <3>2. e \notin Outcomes(r)'
      BY <2>2 DEF Outcomes, IsFetch
    <3> QED BY <2>2, <3>1, <3>2 DEF Changes, Outcomes
  <2>5. ASSUME NEW r \in Repos, ~Pending(r)'
        PROVE  \/ LastFailed(r)'
               \/ Fresh(r)' /\ (told'[r] \/ Telling(r)' \/ r \in dropped')
    <3>1. Changes(r)' = Changes(r) /\ Outcomes(r)' = Outcomes(r)
      BY <2>4, <2>5
    <3>2. ~Pending(r)
      BY <2>2, <2>5, <3>1 DEF Pending
    <3>3. LastFailed(r) => LastFailed(r)'
      BY <3>1 DEF LastFailed
    <3>4. (Fresh(r) => Fresh(r)') /\ (Telling(r) => Telling(r)')
      BY <2>2, <3>1 DEF Fresh, Telling
    <3>5. LastFailed(r) \/ (Fresh(r) /\ (told[r] \/ Telling(r) \/ r \in dropped))
      BY <3>2 DEF SettledInv
    <3>6. told' = told /\ dropped' = dropped
      BY <2>2
    <3> QED BY <3>3, <3>4, <3>5, <3>6
  <2> QED BY <2>2, <2>3, <2>5 DEF SettledInv
<1>6. CASE WalkJournal /\ ~J!Advance
  <2>1. /\ UNCHANGED <<journal, checkpoint, analysis, told, dropped, task>>
        /\ pc' \in {"list", "done"}
    BY <1>6 DEF WalkJournal, J!Open, J!ListDay, J!Finish, workVars, sideVars
  <2> QED BY <1>1, <2>1 DEF Telling
<1>7. CASE WalkJournal /\ J!Advance
  <2>1. /\ pc = "advance" /\ pc' = "list" /\ checkpoint' = current
        /\ UNCHANGED <<journal, analysis, told, dropped, task>>
    BY <1>7 DEF WalkJournal, J!Advance, J!Open, J!ListDay, J!Finish, workVars, sideVars
  <2>2. \A r \in Repos : /\ LastFailed(r)' = LastFailed(r) /\ Fresh(r)' = Fresh(r)
                         /\ Telling(r)' = Telling(r)
    BY <2>1 DEF LastFailed, Fresh, Changes, Outcomes, Telling
  <2>3. ASSUME NEW r \in Repos, Pending(r), ~Pending(r)'
        PROVE  LastFailed(r) \/ (told[r] /\ Fresh(r))
    <3>1. PICK e \in Changes(r) : e.id > checkpoint
      BY <2>3 DEF Pending
    <3>2. e \in journal /\ IsFetch(e) /\ IsChange(e) /\ e.body.repo = r
      BY <3>1 DEF Changes, IsFetch, IsChange
    <3>3. ~(current < e.id)
      BY <1>a, <2>1, <2>3, <3>1, <3>2 DEF Pending, Changes
    <3>4. e.id = current
      BY <1>a, <2>1, <3>1, <3>2, <3>3, Behind
    <3> QED BY <2>1, <3>2, <3>4 DEF SettledInv
  <2> QED BY <2>1, <2>2, <2>3 DEF SettledInv
<1>8. CASE TakeEvent
  <2>1. /\ UNCHANGED <<journal, checkpoint, analysis, told, dropped>>
        /\ task'[Assistant] = task[Assistant]
        /\ pc' = "handle" /\ task'[Worker].step # "ended"
    BY <1>0, <1>8 DEF TakeEvent, J!Yield, Begun, sideVars
  <2> QED BY <1>1, <2>1 DEF Telling
<1>9. CASE EventDone
  <2>1. /\ UNCHANGED <<journal, checkpoint, analysis, told, dropped, current>>
        /\ task'[Assistant] = task[Assistant]
        /\ pc = "handle" /\ pc' = "advance" /\ task[Worker].step \in {"none", "ended"}
    BY <1>0, <1>9 DEF EventDone, J!Handle, sideVars
  <2>2. CASE task[Worker].step = "ended"
    BY <1>1, <2>1, <2>2 DEF Telling
  <2>3. CASE task[Worker].step = "none"
    <3>1. \A e \in journal : ~(IsChange(e) /\ e.id = current)
      BY <2>1, <2>3 DEF WorkInv, TaskOf
    <3>2. \A r \in Repos : /\ Pending(r)' = Pending(r) /\ LastFailed(r)' = LastFailed(r)
                           /\ Fresh(r)' = Fresh(r) /\ Telling(r)' = Telling(r)
      BY <2>1 DEF Pending, LastFailed, Fresh, Changes, Outcomes, Telling
    <3> QED BY <2>1, <3>1, <3>2 DEF SettledInv, IsChange
  <2> QED BY <2>1, <2>2, <2>3
<1>10. CASE AssistantEnds
  <2>1. /\ UNCHANGED <<journal, checkpoint, analysis, told, dropped, current, pc>>
        /\ task[Assistant].step # "tell" /\ task'[Worker] = task[Worker]
    BY <1>0, <1>10 DEF AssistantEnds, journalVars
  <2> QED BY <1>1, <2>1 DEF Telling
<1>11. ASSUME NEW p \in Analyzers, Load(p) \/ WorkFails(p) PROVE SettledInv'
  <2>1. /\ UNCHANGED <<journal, checkpoint, analysis, told, dropped, current, pc>>
        /\ task[p].step \in {"load", "put"} /\ task'[p].step \in {"skip", "put", "fail"}
        /\ \A q \in Analyzers : q # p => task'[q] = task[q]
    BY <1>0, <1>11 DEF Load, WorkFails, journalVars, sideVars
  <2> QED BY <1>0, <1>1, <2>1 DEF Telling
<1>12. ASSUME NEW p \in Analyzers, PutAnalysis(p) PROVE SettledInv'
  <2>1. /\ UNCHANGED <<journal, checkpoint, current, pc>>
        /\ task[p].step = "put" /\ task[p].repo \in Repos
        /\ task' = [task EXCEPT ![p].step = "tell"]
        /\ told' = [told EXCEPT ![task[p].repo] = FALSE]
        /\ dropped' = dropped \ {task[p].repo}
        /\ analysis'[task[p].repo].body = task[p].body
        /\ \A r \in Repos : r # task[p].repo => analysis'[r] = analysis[r]
    BY <1>0, <1>12 DEF PutAnalysis, journalVars
  <2>2. task[Assistant].step # "tell"
    BY <1>0, <2>1, OneAtWork
  <2>3. \A r \in Repos : /\ Pending(r)' = Pending(r) /\ LastFailed(r)' = LastFailed(r)
                         /\ Changes(r)' = Changes(r)
    BY <2>1 DEF Pending, LastFailed, Changes, Outcomes
  <2>4. ASSUME NEW r \in Repos, r # task[p].repo
        PROVE  \/ Pending(r)' \/ LastFailed(r)'
               \/ Fresh(r)' /\ (told'[r] \/ Telling(r)' \/ r \in dropped')
    <3>1. Fresh(r) => Fresh(r)'
      BY <2>1, <2>3, <2>4 DEF Fresh
    <3>2. told'[r] = told[r] /\ ~Telling(r) /\ (r \in dropped => r \in dropped')
      BY <1>0, <2>1, <2>2, <2>4 DEF Telling
    <3> QED BY <2>3, <3>1, <3>2 DEF SettledInv
  <2>5. CASE p = Worker
    <3>1. pc = "handle" /\ task'[Worker].step = "tell"
      BY <1>0, <2>1, <2>5, OneAtWork
    <3>2. PICK e \in journal : e.id = current
      BY <3>1, JournalFacts
    <3>3. e \in Changes(task[p].repo)
      BY <2>1, <2>5, <3>1, <3>2 DEF WorkInv, TaskOf, IsChange, Changes
    <3>4. Pending(task[p].repo)
      BY <1>a, <3>1, <3>2, <3>3, FlightFacts DEF Pending
    <3>5. ~Deciding'
      BY <2>1, <3>1
    <3> QED BY <2>3, <2>4, <3>4, <3>5 DEF SettledInv
  <2>6. CASE p = Assistant
    <3>1. pc = "idle"
      BY <2>1, <2>6, OneAtWork
    <3>2. Telling(task[p].repo)'
      BY <1>0, <2>1, <2>6 DEF Telling
    <3>3. Fresh(task[p].repo)'
      <4>1. ASSUME NEW e \in Changes(task[p].repo) PROVE task[p].body >= e.body.hash
        <5>1. e \in journal /\ IsFetch(e) /\ e.body.repo = task[p].repo
          BY DEF Changes, IsFetch
        <5>2. e.body.hash <= cached[task[p].repo]
          BY <5>1 DEF FreshInv
        <5>3. task[p].body = cached[task[p].repo]
          BY <2>1 DEF FreshInv
        <5>4. cached[task[p].repo] \in 0..MaxVersion /\ e.body.hash \in Versions
          BY <1>0, <1>a, <1>b, <2>1, <5>1 DEF IsFetch
        <5> QED BY <5>2, <5>3, <5>4 DEF Versions
      <4>2. (task[p].repo)' = task[p].repo
        BY <1>0, <2>1
      <4> QED BY <2>1, <2>3, <4>1, <4>2 DEF Fresh
    <3>4. (task[p].repo)' = task[p].repo
      BY <1>0, <2>1
    <3> QED BY <2>1, <2>4, <3>1, <3>2, <3>3, <3>4 DEF SettledInv
  <2> QED BY <2>5, <2>6
<1>13. ASSUME NEW p \in Analyzers, AppendOutcome(p) PROVE SettledInv'
  <2>1. UNCHANGED <<journal, checkpoint, analysis, told, dropped, task, current, pc>>
    BY <1>13 DEF AppendOutcome, J!Append, workVars, sideVars
  <2> QED BY <1>1, <2>1 DEF Telling
<1>14. ASSUME NEW p \in Analyzers, OutcomeLands(p) PROVE SettledInv'
  <2>1. PICK o \in writing[p] :
          /\ J!Land(p, o)
          /\ told' = IF task[p].step = "tell" THEN [told EXCEPT ![task[p].repo] = TRUE] ELSE told
          /\ task' = [task EXCEPT ![p].step = "ended"]
    BY <1>14 DEF OutcomeLands
  <2>2. /\ journal' = journal \cup {o} /\ UNCHANGED <<checkpoint, analysis, dropped, current, pc>>
        /\ task[p].step \in {"tell", "skip", "fail"} /\ o.body = Outcome(task[p])
        /\ task[p].repo \in Repos
    BY <1>0, <1>14, <2>1 DEF OutcomeLands, J!Land, sideVars, WorkInv
  <2>3. ~IsFetch(o)
    BY <2>2 DEF Outcome, IsFetch
  <2>4. ASSUME NEW r \in Repos
        PROVE  \/ Pending(r)' \/ LastFailed(r)'
               \/ Fresh(r)' /\ (told'[r] \/ Telling(r)' \/ r \in dropped')
    <3>1. Telling(r) => told'[r] \/ Telling(r)'
      BY <1>0, <2>1 DEF Telling
    <3>2. told[r] => told'[r]
      BY <1>0, <2>1
    <3> QED BY <2>2, <2>3, <3>1, <3>2, OutcomeAdds DEF SettledInv
  <2>5. ASSUME Deciding', NEW e \in journal', IsChange(e), e.id = current'
        PROVE  LastFailed(e.body.repo)' \/ (told'[e.body.repo] /\ Fresh(e.body.repo)')
    <3>1. pc \in {"handle", "advance"} /\ p = Worker /\ pc = "handle"
      BY <1>0, <2>2, <2>5, OneAtWork
    <3>2. e \in journal /\ e.id = current /\ e # o
      BY <2>2, <2>3, <2>5 DEF IsChange, IsFetch
    <3>3. task[p].repo = e.body.repo
      BY <2>5, <3>1, <3>2 DEF WorkInv, TaskOf
    <3>4. CASE task[p].step = "tell"
      <4>1. told'[e.body.repo]
        BY <1>0, <2>1, <2>2, <3>3, <3>4
      <4>2. ASSUME NEW f \in Changes(e.body.repo) PROVE analysis[e.body.repo].body >= f.body.hash
        <5>1. f \in journal /\ IsFetch(f) /\ f.body.repo = e.body.repo
          BY DEF Changes, IsFetch
        <5>2. f.body.hash <= cached[e.body.repo] /\ analysis[e.body.repo].body = cached[e.body.repo]
          BY <3>3, <3>4, <5>1 DEF FreshInv
        <5>3. cached[e.body.repo] \in 0..MaxVersion /\ f.body.hash \in Versions
          BY <1>0, <1>a, <1>b, <2>2, <3>3, <5>1 DEF IsFetch
        <5> QED BY <5>2, <5>3 DEF Versions
      <4>3. Fresh(e.body.repo)'
        BY <2>2, <2>3, <4>2, OutcomeAdds DEF Fresh
      <4> QED BY <4>1, <4>3
    <3>5. CASE task[p].step = "fail"
      <4>1. o.body.type = "failed" /\ o.body.repo = e.body.repo
        BY <2>2, <3>3, <3>5 DEF Outcome
      <4>2. \A x \in journal : x.id < o.id
        BY <2>1, <3>1, FlightFacts
      <4>3. o \in Outcomes(e.body.repo)'
        BY <2>2, <4>1 DEF Outcomes
      <4>4. \A f \in Changes(e.body.repo)' : f.id < o.id
        BY <2>2, <2>3, <4>2, OutcomeAdds DEF Changes
      <4> QED BY <4>1, <4>3, <4>4 DEF LastFailed
    <3>6. task[p].step # "skip"
      BY <3>1 DEF FreshInv
    <3> QED BY <2>2, <3>4, <3>5, <3>6
  <2> QED BY <2>4, <2>5 DEF SettledInv
<1>15. ASSUME NEW p \in Analyzers, OutcomeRefused(p) PROVE SettledInv'
  <2>1. /\ UNCHANGED <<journal, checkpoint, analysis, told, current, pc>>
        /\ dropped' = dropped \cup Untold(p)
        /\ task'[p].step # "ended" /\ \A q \in Analyzers : q # p => task'[q] = task[q]
    BY <1>0, <1>15 DEF OutcomeRefused, J!Refuse
  <2>2. ASSUME NEW r \in Repos, Telling(r) PROVE Telling(r)' \/ r \in dropped'
    BY <1>0, <2>1, <2>2 DEF Telling, Untold
  <2> QED BY <1>1, <2>1, <2>2
<1>16. ASSUME NEW p \in Procs, Leave(p) PROVE SettledInv'
  <2>1. /\ UNCHANGED <<journal, checkpoint, analysis, told>>
        /\ dropped' = dropped \cup Untold(p)
        /\ task' = IF p = Crawler THEN task ELSE [task EXCEPT ![p] = NoTask]
        /\ IF p = Worker THEN pc' = "idle" ELSE UNCHANGED <<pc, current>>
    BY <1>16 DEF Leave, J!Stop
  <2>2. ASSUME p = Assistant, NEW r \in Repos, Telling(r) PROVE r \in dropped'
    BY <2>1, <2>2 DEF Untold, Telling
  <2>3. CASE p = Worker
    BY <1>0, <1>1, <2>1, <2>3 DEF Telling
  <2>4. CASE p = Assistant
    BY <1>0, <1>1, <2>1, <2>2, <2>4
  <2>5. CASE p = Crawler
    BY <1>0, <1>1, <2>1, <2>5 DEF Telling
  <2> QED BY <2>3, <2>4, <2>5 DEF Procs
<1>17. CASE ResetCheckpoint
  <2>1. /\ checkpoint' = 0 /\ UNCHANGED <<journal, analysis, told, dropped, task, current, pc>>
        /\ running = {}
    BY <1>17 DEF ResetCheckpoint, J!Reset, J!NoId, workVars, sideVars, InTurn
  <2>2. pc = "idle"
    BY <2>1, JournalFacts
  <2>3. \A r \in Repos : /\ Pending(r) => Pending(r)'
                         /\ LastFailed(r)' = LastFailed(r)
                         /\ Fresh(r)' = Fresh(r) /\ Telling(r)' = Telling(r)
    BY <1>a, <2>1 DEF Pending, LastFailed, Fresh, Changes, Outcomes, Telling
  <2> QED BY <2>1, <2>2, <2>3 DEF SettledInv
<1>18. CASE UNCHANGED vars
  BY <1>1, <1>18 DEF vars, journalVars, workVars, sideVars, Telling
<1> QED
  BY <1>2, <1>3, <1>4, <1>5, <1>6, <1>7, <1>8, <1>9, <1>10, <1>11, <1>12, <1>13, <1>14,
     <1>15, <1>16, <1>17, <1>18
  DEF Next, Analyze

-----------------------------------------------------------------------------
AnalyzerInv ==
  /\ TypeInv /\ JP!FullInv
  /\ WorkInv /\ AnswerInv /\ FreshInv /\ BacklogInv /\ SettledInv

(* Nothing has been fetched, analyzed or appended.                         *)
LEMMA InitAnalyzer == Init => AnalyzerInv
<1> SUFFICES ASSUME Init PROVE AnalyzerInv
  OBVIOUS
<1>0. /\ Worker \in Procs /\ Assistant \in Procs /\ Crawler \in Procs /\ Worker # Assistant
      /\ MaxVersion \in Nat /\ MaxFaults \in Nat
  BY AnalyzerBoundsAssumption DEF Procs, Worker, Assistant, Crawler
<1>1. JP!FullInv
  BY SameJournal, JP!InitFull, JournalAssumed DEF Init
<1>2. TypeInv
  <2>1. J!TypeOK
    BY <1>1, SameJournal DEF JP!FullInv, JP!SkipInv
  <2>2. TaskTypes /\ task \in [{Worker, Assistant} -> {NoTask}]
    BY <1>0, NoTaskType DEF Init, TaskTypes, Analyzers
  <2> QED BY <1>0, <2>1, <2>2 DEF Init, TypeInv, TypeOK, TaskTypes, NoCrawl
<1>3. /\ journal = {} /\ running = {} /\ pc = "idle" /\ handled = {} /\ mode = "none"
      /\ \A p \in Procs : writing[p] = {}
      /\ \A p \in Analyzers : task[p].step = "none"
      /\ \A r \in Repos : crawl[r].step = "none" /\ told[r]
  BY DEF Init, J!Init, Analyzers, NoTask, NoCrawl
<1>4. WorkInv /\ AnswerInv /\ FreshInv /\ BacklogInv
  BY <1>0, <1>3 DEF WorkInv, AnswerInv, FreshInv, BacklogInv, Analyzers
<1>5. SettledInv
  BY <1>3 DEF SettledInv, Fresh, Changes
<1> QED BY <1>1, <1>2, <1>4, <1>5 DEF AnalyzerInv

LEMMA AnalyzerInvStep ==
  ASSUME InTurn, AnalyzerInv, [Next]_vars PROVE AnalyzerInv'
<1>1. TypeInv' /\ JP!FullInv'
  BY TypeStep, FullStep DEF AnalyzerInv
<1>2. WorkInv' /\ AnswerInv' /\ FreshInv' /\ BacklogInv' /\ SettledInv'
  BY <1>1, WorkStep, AnswerStep, FreshStep, BacklogStep, SettledStep DEF AnalyzerInv
<1> QED BY <1>1, <1>2 DEF AnalyzerInv

(* What holds at every step says the three properties.                     *)
LEMMA AnalyzerPromises ==
  ASSUME AnalyzerInv
  PROVE  /\ EveryChangeAnswered
         /\ CaughtUpMeansTold
         /\ LatestChangeAnalyzed
<1>1. EveryChangeAnswered
  <2>1. TypeOK /\ JP!NothingSkipped
    BY DEF AnalyzerInv, TypeInv, JP!FullInv, JP!SkipInv
  <2>2. ASSUME NEW r \in Repos, NEW e \in Changes(r), e.id <= checkpoint PROVE Answered(e)
    <3>1. e \in journal /\ IsChange(e)
      BY DEF Changes, IsChange
    <3>2. e.id \in handled
      BY <2>1, <2>2, <3>1 DEF JP!NothingSkipped
    <3> QED BY <3>1, <3>2 DEF AnalyzerInv, AnswerInv
  <2>3. \A r \in Repos : \A e \in Changes(r) : e.body.repo = r
    BY DEF Changes
  <2> QED BY <2>1, <2>2, <2>3 DEF EveryChangeAnswered, Answered
<1>2. ASSUME pc = "done", NEW r \in Repos PROVE ~Pending(r) /\ ~Telling(r)
  <2>1. ~Pending(r)
    BY <1>2, Behind DEF AnalyzerInv, Pending, Changes, IsFetch
  <2>2. task[Assistant].step = "none"
    BY <1>2, OneAtWork DEF AnalyzerInv, TypeInv, TypeOK
  <2> QED BY <2>1, <2>2 DEF Telling
<1>3. CaughtUpMeansTold
  BY <1>2 DEF AnalyzerInv, SettledInv, CaughtUpMeansTold
<1>4. LatestChangeAnalyzed
  BY <1>2 DEF AnalyzerInv, SettledInv, Fresh, LatestChangeAnalyzed
<1> QED BY <1>1, <1>3, <1>4

(* Every variable of the analyzer, its crawler and their journal keeps its *)
(* type, whatever overlaps, is killed or is refused: an analysis is always *)
(* made under the hash of a version that has been fetched.                 *)
THEOREM AnalyzerTypeCorrect == Spec => []TypeOK
<1>1. Init => TypeInv
  BY InitAnalyzer DEF AnalyzerInv
<1>2. TypeInv /\ [Next]_vars => TypeInv'
  BY TypeStep
<1>3. TypeInv => TypeOK
  BY DEF TypeInv
<1> QED BY <1>1, <1>2, <1>3, PTL DEF Spec

(* Every change behind the analyzer's checkpoint has been answered in the  *)
(* journal after it, by its own RepoAnalyzed or by a skip or a failure,    *)
(* for any number of repositories and versions and whatever is killed or   *)
(* refused, when stages take turns (index.ts:267-279).                     *)
THEOREM ChangesAreAnswered ==
  ASSUME InTurn PROVE Spec => []EveryChangeAnswered
<1>1. Init => AnalyzerInv
  BY InitAnalyzer
<1>2. AnalyzerInv /\ [Next]_vars => AnalyzerInv'
  BY AnalyzerInvStep
<1>3. AnalyzerInv => EveryChangeAnswered
  BY AnalyzerPromises
<1> QED BY <1>1, <1>2, <1>3, PTL DEF Spec

(* When the loop has run to the end, every analysis on disk has been       *)
(* announced, or the journal says that the last attempt failed, whatever   *)
(* is killed or refused between a put (index.ts:129) and its append (:240, *)
(* :248): but for an analysis that a run of --repo or --min-confidence put *)
(* last and did not live to announce, which no checkpoint brings back.     *)
THEOREM CaughtUpIsTold ==
  ASSUME InTurn PROVE Spec => []CaughtUpMeansTold
<1>1. Init => AnalyzerInv
  BY InitAnalyzer
<1>2. AnalyzerInv /\ [Next]_vars => AnalyzerInv'
  BY AnalyzerInvStep
<1>3. AnalyzerInv => CaughtUpMeansTold
  BY AnalyzerPromises
<1> QED BY <1>1, <1>2, <1>3, PTL DEF Spec

(* When the loop has run to the end, every analysis is made from artifacts *)
(* at least as new as the last change announced, or analyzing it failed,   *)
(* even if the operator's run is killed.                                   *)
THEOREM LatestIsAnalyzed ==
  ASSUME InTurn PROVE Spec => []LatestChangeAnalyzed
<1>1. Init => AnalyzerInv
  BY InitAnalyzer
<1>2. AnalyzerInv /\ [Next]_vars => AnalyzerInv'
  BY AnalyzerInvStep
<1>3. AnalyzerInv => LatestChangeAnalyzed
  BY AnalyzerPromises
<1> QED BY <1>1, <1>2, <1>3, PTL DEF Spec

=============================================================================
