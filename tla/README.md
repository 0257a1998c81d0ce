# Verification of keco

keco enumerates GitHub for Kubernetes tooling, crawls and caches what it finds, classifies it and
projects it to a search index. This directory holds TLA+ models of the parts of that pipeline in
which order, failure and restarts matter, the TLC runs that check them on small instances, and
TLAPS proofs of what matters most. Paths are relative to the repository's root.

## Inventory

| Component | State it keeps | Operations | Talks to |
|---|---|---|---|
| Discovery sweep, `apps/workers/src/discovery` | three collections (`discovery_repos`, `discovery_state`, `discovery_runs`); in memory the queue, the known hashes, unwritten documents, the flush chain | `open`, `beginSweep`, the window loop, `record`, `windowCompleted`, `flush`, `finishRun` | collection store, search client, shutdown |
| Search windows, `discovery/windows.ts`, `plan.ts` | none | `initialWindows`, `split`, `queryOf`, `planWindow` | discovery |
| Shutdown, `lib/shutdown.ts` | time of the first signal | the signal handler | discovery, crawler |
| Collection store, `lib/data-store*.ts`, `cli/data-store.ts` | documents; Meilisearch's pending tasks | `put`, `get`, `list`, `count`, `remove` | discovery, crawler |
| Reset, `discovery/explore.ts` | none of its own | `countDiscovery`, `planReset`, `applyReset` | collection store, operator |
| Crawler, `crawler/` | run history, quota seen, counters | worklist, bounded pool, `fetchRepo`, `updateIcon` | cache, journal, GitHub |
| Object cache and journal, `packages/cache` | keys, day buckets of events, checkpoints | `put`, `list`; `append`, `read`, `advance`, `reset` | every worker |
| Analyzer, `analyzer/`, `replay/` | analyses, its checkpoint | journal loop, single repository, confidence sweep, checkpoint reset | cache, journal, signal providers |
| Analysis rules, `packages/analyze` | none | `analyzeRepo`: rules, signals, the model | signal providers |
| Signal providers, `packages/signals` | cached envelopes, a memo per process | `fetch`, `lookupLandscape` | cache |
| GitHub client, `packages/github` | pacing, quota seen | `page`, `conditional`, `observe`, `ownsShard` | discovery, crawler |
| Read model, `packages/search`, `read-model/` | indexes and their settings | `index create`, `index seed`, `applySettings` | Meilisearch |
| Portal, `apps/web` | the URL; in memory what a page shows and what it has asked for | search, filters, suggestions, the page of a tool | Meilisearch, API |
| Projector, API, PHP backend | see PROJECT.json | stubs, or handlers without state | |

What is hard in it: an unattended sweep of hours that is killed at any moment and resumed from two
documents written one after the other; a signal handler that flushes while the loop goes on; failed
writes that must neither lose a batch nor stop a later flush; a store that accepts a write long before
it makes it; several worker processes around one journal without locks; conditional requests whose
ETags are stored apart from the artifacts they describe; answers that reach a page in an order of
their own. `PROJECT.json` lists each hazard at its line and the properties that guard it.

What makes each correct, in a sentence:

* discovery: what the resume point no longer asks for is in the corpus, and what it asks for is all
  that is missing;
* windows: they partition the repositories, and a query names one window for ever;
* store: a durable write confirms every earlier one;
* crawler: the last crawl's artifacts, event and `_fetch.json` agree, and the first ending of a run
  is its ending;
* journal: a consumer that advances has handled every event it leaves behind;
* analyzer: every change that was fetched is analysed or recorded as failed;
* cache: a key holds an old value or a new one, never a part;
* search client: no page asked for too early, no throttle retried for ever;
* reset: what it leaves when it is cut can still be found and cleared;
* analysis: what was guessed, or could not be asked, is said so in the document;
* icon: `icon.json` and the files beside it are of one image;
* read model: a command that ends well has done what it says;
* portal: a page shows what its URL asks for, and a suggestion leads somewhere.

## Modules

| Module | Models | Composes |
|---|---|---|
| `Discovery` | `runDiscovery`, `DiscoveryStore`, `createShutdown`, `FsDataStore` as they use it | refines `SweepLedger` |
| `SweepLedger` | the promise of a sweep, abstractly: a corpus, and what the sweep still owes it | |
| `SearchWindows` | `windows.ts`, `plan.ts`: operators, and a walk down the tree of windows | |
| `SearchClient` | `packages/github/src/search.ts`: pages behind one pacer | |
| `MeiliStore` | `MeilisearchDataStore.put` and `drain` under the flush of `DiscoveryStore` | |
| `StoreReads` | `list` of the three stores, and the worklist a crawl takes from it | |
| `Explore` | `kecoctl discovery reset` beside sweeps | |
| `FsStorage` | `packages/cache/src/adapters/fs.ts` | refines `Register` |
| `Register` | the promise of `Storage`: one atomic value per key | |
| `Journal` | `packages/cache/src/journal.ts`, the processes that append, one consumer | |
| `Analyzer` | `runAnalyzer` in its three modes, `replay --reset-checkpoint`, the crawler as it writes to the cache | `INSTANCE Journal` |
| `AnalyzeRepo` | `analyzeRepo` with its three passes, the signal providers and their cache | |
| `FetchRepo` | `fetchRepo` for one repository | |
| `Icon` | `updateIcon` for one repository | |
| `CrawlRun` | one run of `crawler/index.ts`: pool, quota, run document, shutdown | |
| `ReadModel` | `index create`, `index seed`, `search:settings` over Meilisearch's tasks | |
| `Portal` | the search page and the tool page in a browser | `EXTENDS ReadModel` |
| `Spelling` | `spelling.ts`: edit distance, corrections, what a query may have meant | |

| Instance | Extends |
|---|---|
| `MCDiscovery` | `Discovery` |
| `MCAnalyzer` | `Analyzer`, `AnalyzeRepo` |
| `MCGithubSearch` | `SearchWindows`, `SearchClient` |
| `MCStores` | `MeiliStore`, `StoreReads`, `Explore` |
| `MCCrawler` | `Journal`, `FsStorage`, `CrawlRun` |
| `MCFetchRepo` | `FetchRepo`, `Icon` |
| `MCReadSide` | `Portal` (and `ReadModel`), `Spelling` |

Where an instance has several modules without common state, a variable `part` says which of them a
behaviour follows, and the others stay in one initial state. A violation in one part is a violation of
the run, and no other part's behaviours are restricted: the run asks the questions of each, not of a
product. `Portal` and `ReadModel` do share state, the indexes: `MCReadSide` follows commands alone, and
a reader beside the commands that touch the index he reads, without a fault, since to him documents come
and go. Theorems are in modules named `*_proofs`, for `Discovery`, `Journal`, `Analyzer`, `AnalyzeRepo`,
`CrawlRun` (and `SearchClient` and `SearchWindows`), `FetchRepo` (and `Icon`); `Stores_proofs` is for
`MeiliStore`, `StoreReads`, `FsStorage` and `Explore`, `ReadSide_proofs` for `Portal` and `ReadModel`.

In all of them one action is the code between two awaits that do I/O. An await that settles in the
microtask queue (`recordAll`, the flush chain's `then`) cannot be interleaved with a continuation
that waits for I/O, so it is not a step boundary.

### Discovery

| Variables | In the code |
|---|---|
| `corpus`, `saved`, `history` | the three collections; `saved` is the resume point of the one query modelled |
| `pc` | the await at which `runDiscovery` is: opening (`wipe`, `open`, `register`), `loop`, a flush of the loop (`flush`), of `finally` after the loop (`final`) or after an exception (`rescue`), `finish`, `ended` |
| `work`, `known`, `seen`, `buffer`, `since`, `opened` | `store.state`, `known`, `seenThisRun`, `pendingRepos`, `windowsSinceFlush`, `openedWith` |
| `page`, `stopped` | the page about to be asked of the window at the head, the `--limit` stop |
| `turns`, `write`, `batch`, `unwritten`, `snap` | the callers waiting on `flushing`, and `writeAll` in progress |
| `stamp` | the run document the loop, or the handler, is writing |
| `handler` | the shutdown handler: flushing, stamping, exiting |
| `github`, `run`, `faults` | the world; a payload is a version number that only grows |
| `asOf`, `mine` | ghosts: what GitHub held when a run read its clock, windows a process completed |
| `left`, `refused` | ghosts: runs that ended by themselves and by whom, loop or handler; runs and whose write was refused |

A signal before `installShutdown`, or a second one after the grace period, is a `Kill`; one inside
the grace period does nothing. A page of results is a set of repositories, constant per window:
`Pages[w]` is what GitHub serves, `Matches[w]` what the window covers, and the two differ only where
GitHub's cap or a subdivision makes them. `WindowsAssumption` and `CoverAssumption` say what the
proofs need of windows; `SearchWindows` shows that the real ones satisfy it. `Children[w]` is
constant although `split` uses the year of the current run: `ResumeKeepsWindows` shows that a later
year only adds windows.

Abstracted: counters of pages, drops and outcomes (but not `windows_completed`), the text of
documents, a state document that fails its schema (the code treats it as none), a failing `remove`
or load while opening (the same as a kill there), batches of 1000 (each document lands or fails by
itself, as in `FsDataStore`).

`SkipCompleted` is the guard at `discovery/index.ts:111`, which skips a window that was completed
before. The windows of `windows.ts` never enqueue one query twice (`WindowsPartition`), so the instance
of `discovery_signals` makes up a subdivision that does.

The loop is not waiting while the handler flushes: it records pages and completes windows between any
two steps of that flush.

### SearchWindows

A state is one repository and the windows that hold it, from its star band down to the window being
planned. `Descend` is what the sweep does with a window over the cap; `NewYear` a resume in a later
year. Dates are day numbers computed as `Date.UTC` does. The text of a query is the tuple of its
parts; the two ends of a range stand for their ISO dates.

### SearchClient

Instants are relative to now, so the state stays finite without a bound on time: `gate` is what is
left until `nextAllowedAt`, `alarm` what is left of the sleep of the call whose turn it is, `pause`
of a backoff. `queue` is the promise chain of `RatePacer`. A timer may be noticed late, never early. A
throttled call joins the queue again (`AfterThrottle`); one that failed transiently sleeps outside it
and then joins. `quiet` and `since` are ghosts, the longest penalty still running and the time since
the last request. Parsing of pages is left out; a page of malformed items ends the call as an error
does.

### MeiliStore

`tasks` is the server's queue, a task's uid its place in it; `pendingTaskUids` is the handle's list.
Two callers share the handle. One is the flush, which puts slices of the corpus and then, durably, the
resume point; flushes of the loop and of the shutdown handler come one after the other, on the chain
of `DiscoveryStore.flush`. The loop waits for its own and goes on recording during the handler's
(`Record`, `Signal`; `pc["stamp"]` says how far the handler is). The other caller is the handler's
`finishRun`, durable as well, beside whatever the loop does by then. `sent` is a request not yet answered,
`draining` what a durable put waits for. A task may fail on the server, a wait may time out
(`TASK_TIMEOUT_MS`), a request may be refused whether or not the server took it, the process may be
killed and another open while tasks of the first still land. A repository is a window of its own.
Ghosts: `reported`, `orphaned`, `earlier`, and `raced`, what the loop recorded during a flush of the
handler.

### StoreReads

A behaviour is one `list` over any small collection with any query, in the memory store at once, in
the filesystem store key by key while another process touches documents, in Meilisearch page by
page. `Taken` is the take loop of `buildWorklist` over the list; which shard owns a name is given.
`reposUnderOrg` (`worklist.ts:116`) has no such loop, and does not remove duplicates. The sorts of the
three stores are said by what they give: the row with `n - 1` others before it is the `n`th.

### Explore

What a keyword has is the set of windows whose repositories are there, its state document and
whether it has a history. Sweeps are summarised (`Discovery` has them in full): every window finds
repositories of its own. `PlanReset`, `Decline`, `NextPlan`, `RemoveRepo`, `RemoveState`, `RemoveRuns`
are the command; a kill or a refused removal leaves it where it is. `excused` (ghost) holds the
keywords that lost their state document to one of two races, named below.

### FsStorage and Register

`put` is `mkdir`, the creation of a temporary file, its content, the rename, and the removal of the
temporary file when one of these fails; `delete` is `rm`. The steps of several calls, in one process
or several, interleave, fail, and are killed, which leaves the temporary file (`litter`). `get` and
`has` change nothing and read one file; `list` is taken at one moment and leaves temporary files out.
`Register` is what the callers assume: each call takes effect at one moment between its beginning and
its answer, or not at all when it fails.

### Journal

An event has its id when `append` is called (`Append`) and can be read when its write has landed
(`Land`), any number of steps later, or never (`Refuse`, `Stop`). An id is a number: the millisecond
of the call times `IdsPerMs`, plus an offset; `minted` is what each process's `monotonicFactory`
remembers, and two processes know nothing of each other's. The consumer fixes its day buckets when a
read begins (`Open`), lists one at a time (`ListDay`), and handles and checkpoints one event at a
time (`Yield`, `Handle`, `Advance`); it appends outcomes to the journal it is reading.

`Overlap` says whether a process may start while another runs, `Operator` whether a checkpoint may
be reset meanwhile. A reset under a running consumer is overwritten by its next `advance`. With
both FALSE the stages take turns.

Taken from how processes start and clocks run, not from the code: starting a process takes longer
than a millisecond, the clock does not step back, and the entropy of two processes never collides.
Left out: the options `from`, `until` and `limit` of `read`, several consumers (their checkpoints are
separate keys), and a file that is no event, which blocks a consumer until it is removed: `append`
writes none.

### Analyzer

`Analyzer` instantiates `Journal` with three processes: `"crawler"`, `"analyzer"` (the journal loop) and
`"assistant"` (a run with `--repo` or `--min-confidence`). Each action is one of `Journal` together with
what the analyzer does in that step, so the loop, the sweep and the direct mode share `analyzeOne` as
`Load`, `PutAnalysis`, `AppendOutcome`, and failures at each. `task` is the repository a process is on,
`todo` and `mode` what the assistant still has to do; `cached`, `meta` and `analysis` are the object
cache. `told` and `dropped` are ghosts: whether the analysis on disk has been announced, and whether it
is one that a named mode put and did not live to announce, or was refused to. The content of a
repository is a version, its hash is the version. Whether a classification is confident is free. Left
out: the passes themselves and the signal providers (`AnalyzeRepo`), `--limit`, and the projector that
will read what is announced.

### AnalyzeRepo

A repository is the set of facts the patterns of the rules look for, with its topics, owner, licence
class and the ages of its dates; how a pattern finds its fact in text is left out. `KindRules` is the
table of the code in its order. Time passes in days between analyses, and a process may end at any
moment. `cache` holds the envelopes; `memoized` is the index that `lookupLandscape` keeps in memory.
`result` is what each provider's `fetch` has come to, and the order in which providers are asked is
the code's. A provider answers with a body its schema accepts, with one it rejects, with a refusal, or
not at all. The model's verdicts are what `LlmVerdict` accepts.

### FetchRepo

Each change on GitHub is a revision. What a part of the repository says is the revision that gave it
that content, and stands for its ETag as well; the ETag of the repository document is the revision
itself, since `pushed_at` is in the document. `disk` is `repos/**`, `meta` is `_fetch.json`, `crawl`
is `fetchRepo` in progress for each crawler, `heard` (ghost) the last change announced.

`Change` is a push, a star, new settings, or a README that goes for the first time; `Revert` makes a
part say again what it said before, and a README that goes again is such a part: the ghost `bare`
remembers that it has been gone. Two things confuse crawls, content that comes back and two crawls at a
time; the ghosts `alone` and `muddle` remember them until a crawl over a `_fetch.json` older than
`REFRESH_AFTER_DAYS`, which uses no ETag, has run alone and announced a change. Manifests are not
modelled, releases behave as the tree does but are not in the hash, and icons are the business of
`updateIcon`.

### Icon

What a URL serves is a revision; an image is a URL and a revision, which stands for its bytes, for
what is derived from them and for its ETag. `Candidate` is `resolveIconCandidate`: a committed logo,
the first image of the README that fits and is not in a row of badges, the owner's avatar. `update`
is `updateIcon` in progress, of a crawl and of `kecoctl repo icon`, which prefers what the cache has.
Each write may be refused and each await be the last. `alone`, `still` and the ghosts `past`, `last`,
`mixed` say when nothing else could have mixed the files of two images.

### CrawlRun

`task` is the state of each item in the pool; `governor` is the last rate-limit header observed and
`github` what GitHub really counts, over several hours. `finished` is the flag of
`CrawlHistoryStore`, set before the document is written; `ending` are the puts under way, the loop's
and the handler's, each of which may land or not when the process goes (`CutShort`). Four counters
(`fetched`, `unchanged`, `skipped`, `failed`) are one, `repos_settled`. `over` (ghost) counts the
points of the reserve taken in this hour by requests whose cost the governor heard of.

### ReadModel

A command is a list of tasks, each enqueued and waited for before the next (`todo`, `waiting`). The
server runs the tasks of everybody in the order it got them; one may fail, and a command may be killed
or give up while its task is queued. `checked` tells `awaitTask`, which throws when a task failed, from
a bare `waitTask()`, which does not; the first request of `search:settings` for each index may be
refused or time out and is passed over (`PassOver`). Operators take turns. `createRebuildIndex` and
`promote` have no caller. Of the three indexes `search:settings` goes through, only `tools` is modelled,
the one that something reads: `repos_state` and `traces` take no part in any other command.

### Portal

A page is a set of effects. What the reader does changes the URL and React commits a frame of it; then
the effects keyed on what changed clean up, which cancels their requests, and run again. On the page
of a tool the two are steps of their own (`due` holds the effects not yet run): React paints between
them when a link is followed (`Follow`, then `Effects`) or a document arrives, and a mounted page keeps
its state, since its `Route` has no key. Only a step of the history (`Return`) is committed and has its
effects in one task. On the search page they are one step, because what it shows comes with answers
only. The portal opens at the search page, at a tool that was rendered before (`bootstrap`), which is
shown at once, or at one that has to be fetched. A cancelled request still comes back, in any order. The
index answers with the documents it has when it answers, and `ReadModel` changes them meanwhile.
`timer` is the debounce; `searches`, `verifications`, `fetches` and `asides` are the requests of each
effect; `results`, `suggestions`, `tool`, `related` and `readme` are what is shown. A hit is a document;
pages of hits, facet counts, focus, keyboard, the categories and the home page with its links are left
out.

### Spelling

`editDistance` is the code's matrix, row by row with its early exit, as folds; `suggestQueries` the
corrections and then the single words. A behaviour types a query, so that every short query is
checked against `Ball`, a definition of nearness by edits that knows no matrix.

## Runs

| Run | Instance | Shows |
|---|---|---|
| `discovery_crash` | a window that splits and one that does not, 2 repositories with 2 payloads, 3 processes, 1 fault | `CorpusAheadOfState`, `CompleteMeansCaptured`, `KeepsLedger`, `RunCountsOwnWindows` under kills anywhere |
| `discovery_signals` | 5 windows two levels deep, one enqueued twice, a truncated day, `--limit 4`, signals, `--fresh`, kills, 2 processes, 2 faults, fairness | `NoWindowDropped`, `EveryExitIsStamped`, `NextSweepHeals`, `EveryRunEnds` |
| `github_search` | every day of the months around new years 2008, 2014, 2026 and leap day 2024; star counts at every edge; totals 0, 101, 1000, 1001 | `WindowsPartition`, `PlanLosesOnlyADay`, `ResumeKeepsWindows` |
| | 3 calls of `page`, an interval of 2, waits of 1 to 5, 2 retries, fairness | `NoRequestTooSoon`, `EveryPageEnds` |
| `stores` | 2 repositories put one at a time, 4 tasks, 1 failure, 1 kill, a signal at any moment | `NothingForgotten`, `StateFollowsCorpus`, `DurableConfirmsEarlier` |
| | collections of 3 ids, 2 groups, 3 ranks, limits 0 to 4, pages of 2, 1 document touched, 2 shards | `ReadsAgree` |
| | 2 keywords of 2 windows, 2 sweeps, 1 reset, 2 cuts, `--fresh` | `NothingStranded` |
| `crawler` | a crawler with two appends in flight, then an analyzer that appends, in turn, killed anywhere; 5 milliseconds, days of 2; fairness | `NothingSkipped`, `DrainsBacklog`, `ReadEnds` |
| | 2 calls on 2 keys and 2 values | `IsARegister` |
| | 4 repositories, a pool of 2, 2 requests each, one retry, 2 hours, 1 fault, fairness | `RecordAddsUp`, `OverspendBounded`, `FirstEndingStands`, `RunEnds` |
| `fetch_repo` | 2 crawls, 3 revisions, confused at most twice by a second crawl | `ArtifactsAgree`, `ChangesAreAnnounced`, `RefreshHeals` |
| | 2 updates, 2 sizes, 4 things to choose from, 2 revisions of an image, 2 changes | `IconsAgree` |
| `analyzer` | crawler, journal loop and both named modes in turn, any of them killed anywhere, 1 repository, 2 versions, 1 fault | `EveryChangeAnswered`, `CaughtUpMeansTold`, `LatestChangeAnalyzed` |
| | every pair of facts, every case of the derived families, 2 providers that live 2 days and 1 | `ParseSucceeds`, `AnalysisOwnsUp`, `OneRequestPerTtl` |
| `read_side` | 2 documents, batches of 1, 2 collections, 3 faults | `CommandsMeanIt` |
| | documents that come and go; 3 queries, 1 value, 1 request under way beside the last | `PagesFollowUrl`, `OffersAreProven` |
| | up to 9 letters of 2, in one word or two, 5 words of the taxonomy, 4 candidates | `CorrectionsAreNearest` |
| `discovery_signal_race` | one process, one signal, no fault | violation of `CorpusAheadOfState` |
| `first_frame` | a reader alone, an index nobody changes | violation of `EveryFrameFollowsUrl` |
| `suggestion_offer` | one family of two values, an index nobody changes | violation of `OffersLeadSomewhere` |
| `reset_recovery` | as in `stores`, without `--fresh` | violation of `NextSweepRerecords` |

Three properties say several things at once, where the code promises them together:
`WindowsPartition` that one window per level holds a repository and that a query names one window;
`ReadsAgree` that a list is what was asked for and that worklists of shards share it out;
`AnalysisOwnsUp` that doubt is flagged and that providers that failed are reported, as far as they are.

### Bounds

* `Discovery`: `MaxRuns`, `MaxFaults` and `MaxPayload` bound processes, failures and versions. Three
  processes are one that begins a sweep, one that resumes it and one that begins the next over its
  corpus, the shortest history in which an error of the first can be taken for progress by the third.
  One fault reaches each failure path; the one inside `finally` needs two, which `discovery_signals`
  has. Its limit is met by the last window of a sweep over an empty corpus, so that the first process
  can complete what it began, or lose part of it to a signal in its last window, and the second begin
  anew and complete, which is what `NextSweepHeals` is about; over a whole corpus the second stops at
  the limit with windows pending. Two payloads tell a stale document from a fresh one. `FlushWindows` is
  2 for the code's 25, and a flush by the 30-second interval may come after any window.
* `SearchClient`: three calls are one asleep at the head, one behind it and one in flight whose answer
  moves the gate; waits below, at and above floor and ceiling.
* `MeiliStore`: four tasks are two slices of the corpus, the resume point and the run document, with one
  failure and a process after a kill; the second repository is the one that races the handler. The
  proofs lift the bounds.
* `StoreReads`: three ids are a full page and a rest; limits on both sides of a page and of the
  collection; rank 0 is a missing field.
* `Explore`: a sweep that leaves a state, a reset, a sweep that resumes; two cuts let a sweep and a
  reset be cut in one history.
* `FsStorage`: two calls and two keys have every overlap of two; the proof lifts it.
* `Journal`: `MaxClock` 5 with `MsPerDay` 2 gives three day buckets; `IdsPerMs` 2 and both offsets in
  `Entropy` let two ids of one millisecond follow each other and a fresh one fall before or after
  another process's.
* `Analyzer`: one repository, since nothing relates two but the pool, which `Concurrency` 2 in
  `Journal` stands for; two versions tell a stale analysis from a fresh one; a clock of 6 admits four
  or five processes in turn, enough for a crawl, a failure, a sweep and a loop after it.
* `AnalyzeRepo`: every rule needs at most two facts. The landscape, which is asked first and
  memoised, and one other provider; lives of 2 days and 1 put one day before, at and after expiry.
* `FetchRepo`: three revisions are a first content, a change, and a change back or a second one.
  `MaxMuddle` 2 stops a second crawl from beginning beside another only once crawls have been
  confused twice without being mended; reverts are bounded by the revisions.
* `Icon`: two changes are an image and its return; once two updates have mixed their files, no third
  begins beside another until one alone has mended it.
* `CrawlRun`: the budget (9, of which 7 are reserved) lets the pool begin within it and run out of it
  in the middle of a repository; `Starts` {0, 8} are a spent hour and one almost whole; two hours let
  an answer of the last arrive in the next.
* `ReadModel`: three faults are a task that fails in each of two commands and a kill.
* `Portal`: documents come and go by clear and add, so no fault is needed. One request beside the last
  is a stale answer before and after the right one; the three queries are none, one without results and
  one that it may have meant.
* `Spelling`: words of 8 letters have the tolerance 2, and 9 letters are one too many for one of them.

`CHECK_DEADLOCK FALSE` stands where the system really stops: a store nobody sweeps again, processes
that have all ended, a clock at its bound, a list that is over, a repository without further
revisions.

### Fairness

Only that awaited I/O settles, one way or the other, and that time passes. `Discovery!FairSpec`: weak
fairness of the opening and ending steps, of the loop and of the flush. `MCCrawler!MCSpec`: of the
consumer's loop and of its own appends (`Read`, `Settles`), of the crawl's loop (`Run`) and of each task
(`Fetch`). `SearchClient!ClientFairness`: of the clock, of timers and of answers; a request is aborted
after its time limit. Starting, signalling, killing, asking for another page, an hour's end and an
operator are never obliged, and a fault is never obliged because each action that can fail can also
succeed. The other modules state no liveness.

## What the runs found

Four properties that the repository states and the code does not keep; each run gives the trace.

* **A signal can leave progress ahead of the corpus** (`discovery_signal_race`). `writeAll` takes its
  batch, waits for the corpus put and then serialises the state. When the caller is the shutdown
  handler the loop is not waiting: it records a page, completes its window, and the state document
  lists that window while its repositories are in a buffer that `process.exit` discards. The next
  run resumes past them; they return with the next sweep (`NextSweepHeals`).
* **The first frame after a link shows the tool before** (`first_frame`). The page is not remounted, as
  `bootstrap.ts:34` supposes, and says that it is loading only in an effect after the frame.
* **A suggestion can lead to an empty page** (`suggestion_offer`). Suggestions are proven under the
  filters of the URL; when a filter changes, those proven under the old ones stay on screen, with the
  old empty results, until a new verification answers. Once the page is quiet all is well
  (`OffersAreProven`).
* **A reset that is cut can hide repositories from the next sweep** (`reset_recovery`). It removes
  repositories before the state, so that what is left can be found; but if the sweep it interrupts
  was under way, its state lists completed windows, and the next sweep resumes after them. The sweep
  that begins anew after that records them again.

Some properties hold only with an exception, which their comments name; the models reach each.

Discovery and its store:

* `--fresh` deletes corpus first and resume point second. Killed in between, the next ordinary run
  resumes a sweep whose corpus is gone: hence `Quiet` in the proof and `Fresh = FALSE` in
  `discovery_crash`.
* A rejected flush leaves `runDiscovery` by an exception with the run still `running`:
  `EveryExitIsStamped` excepts a run that ended by loop or handler when the same one was refused a
  write; failed windows, and a flush that the other one was refused, are no excuse. `store.ts:315` says
  that `finishRun` is called on every path, and that a run left `running` was killed. In the crawler, a
  `finishRun('complete')` whose write fails is followed by a `finishRun('failed')` that does nothing,
  with the same effect; and a signal during the last write of `finishRun` finds nothing to do and exits
  with that write under way.
* `openedWith` is taken before `beginSweep` resets the counters, so the run after a finished sweep
  reports a difference of two sweeps, which can be negative: `RunCountsOwnWindows` excepts that run.
* A corpus task that was accepted and then fails on the server is thrown by the put of the *state*,
  outside the `try` that puts a batch back (`store.ts:280-304`), while the state may be written:
  `StateFollowsCorpus` excepts such tasks (`Lost`), and the repositories that the loop recorded during a
  flush of the handler (`raced`), which is the first finding above seen from the server. A durable put
  may find that the other caller is already waiting for an earlier task: `DurableConfirmsEarlier` says
  so.
* `explore.ts:30-34` has a keyword listed from the moment its first sweep opens. `open` writes the run
  document, and the state appears with the first flush: a first flush cut after the corpus leaves
  repositories that no reset lists. So does a sweep that writes beside a reset. These two are
  `excused` in `NothingStranded`; there is no third.

Journal and analyzer:

* Two processes around one journal skip events: an id is given before the write lands and is monotone
  in one process only, so an event can land behind a checkpoint that another has moved, or in a day
  already listed. With `Overlap = TRUE` TLC finds it. One stage after another, none is skipped.
* `CaughtUpMeansTold` excepts an analysis that a named mode put last and did not announce (`dropped`).
  `--repo` and `--min-confidence` write an analysis and then announce it, and no checkpoint has them
  repeat what was cut in between; the next sweep reads that analysis, finds it confident and passes
  over it. So not every worker is "safe to kill at any moment" (`apps/workers/README.md:322`). The loop's
  own are announced whatever is killed, since its checkpoint makes it repeat the event.
* The analyzer's checkpoint passes an analysis that failed; it is tried again when the content
  changes: `LastFailed`.
* A failure with status 0, or a body that the schema rejected, is cached, and comes back as null and not
  partial for the rest of its life (`provider.ts:55`; a fresh one by another condition, :67), where
  `provider.ts:12` and `signals.ts:18-19` want failures told. `FailureIsReported` excepts it, and holds of
  what was asked now and of what was refused then; what is excepted is not counted among the signals
  used, but for the landscape. `cncf-landscape.ts:119-121` has the next call ask the network again; the
  failure stays in the cache for a week.
* The landscape's memo has no expiry within a process. `controller-runtime` without `cmd/` is
  `in-your-code`, since the libraries are looked at before the kind.

Crawler:

* Content that comes back. A change from A to B is announced, the crawler dies before `_fetch.json`, and
  the repository returns to A (no README is such an A too): the next crawl compares A with
  `_fetch.json`, says `changed: false`, and the analysis stays that of B, also after the monthly refresh
  (`fetch.ts:196`, where :18-21 and :43-45 promise otherwise). `ChangesAreAnnounced` and the two
  properties beside it except content that came back.
* A README that has gone from its repository stays in `readme.md` (`fetch.ts:235`), while the hash knows
  that it has gone: `Agree` excepts it.
* Icons. `icon.ts:136-139` has the description absent while files are written; on an update the old one
  is still there. Cut in between, with the earlier image then back at its URL, the server answers
  "not modified" and the files of one image are described as the other, until there is a third. A
  failing update can blank the icon that another has just written. `mixed` excepts both from
  `IconsAgree`. A refused write makes `updateIcon` throw, which `fetch.ts:187` says it never does.
* `PQueue` begins eight tasks at once, so it is not so that the first seven have reported when the
  eighth starts (`crawler/index.ts:86-87`); and headers of 304, 404 and refusals are never observed
  (`github/src/index.ts:47-63`, where `quota.ts:18` says every response's), so a run begun on a spent
  hour fails each repository rather than stopping. The reserve can lose
  `Requests * PoolSize * (PoolSize + 1) / 2` points to tasks already begun, 144 for the code's 8 tasks
  and 4 requests, and unheard ones on top: each answer from before the reserve that is heard late lets
  a repository begin in each place that is free by then.

Read side:

* `ensure` does not look at the outcome of its tasks (`cli/data-store.ts:132,136`), so `index create` ends
  well although a collection has no settings; a later one mends it. `CommandsMeanIt` speaks of runs
  in which no task failed, and of `tools` not at all: `index create` killed before the settings leaves
  an index that `index seed` accepts, and whose settings later creates refuse without `--force` once it
  has documents.
* After a search that failed, the old hits stay beside the error: `PagesFollowUrl` excepts it, and the one
  frame after a link between tools. `getTool` gives every failure as "not
  found". A request for the list of categories that is cancelled when the empty state goes is not
  repeated. A suggestion keeps the page number of the search it replaces.

## Proofs

`Discovery_proofs` proves, for any windows, repositories, runs, payloads and faults:

* `TypeCorrect`: `Spec => []TypeOK`. The invariant adds who may be waiting for whom: the loop's call
  is in the flush chain exactly while `pc` is at a flush, the handler's exactly while it flushes.
  Without it the chain could grow and `Head(turns)` could be anyone's.
* `NoWindowIsDropped`: `Spec => []NoWindowDropped`, signals and `--fresh` included. The invariant
  must speak of finished windows as well as of repositories, because a window met a second time is
  skipped: `Traced` says that for every completed window each of its repositories is accounted for
  by a window at least as deep. Children are strictly deeper than their parent (`CoverAssumption`),
  so a window accounted for only by itself is impossible.
* `CorpusIsAheadOfState`: `Spec => []CorpusAheadOfState`, assuming `Quiet`: no signal, no `--fresh`;
  with either the property is false. The invariant follows a payload on its way: clocks and payloads
  only grow (`ClockInv`), what is known is in the corpus or in a buffer (`RecordInv`), fetched pages
  of the current window are recorded as recently as the sweep (`PageInv`), hence so is every
  completed window (`CaptureInv`); and the loop records nothing while it waits for a flush
  (`QuietInv`), so the state is serialised when nothing is missing.
* `CompletionIsHonest`: `CompleteMeansCaptured`, and `LedgerIsKept`: every behaviour is one of
  `SweepLedger`, both assuming `Quiet`. While the loop waits for its flush the state document is its
  progress, the progress advances from what is durable, and the ending is decided by what has just
  become durable (`LedgerInv`). A repository that the progress does not owe was in a window that was
  served whole (`OwedOrCaptured`: `Traced` finds the window, `CaptureInv` says what is known of it), so
  it is struck off when the corpus has it.
* `SweepsHeal`: `NextSweepHeals`, signals and `--fresh` included. The record and page invariants do
  not need `Quiet`; what does is that the corpus is ahead of the state all the time. That the last
  flush leaves nothing in the buffer (`FlushedInv`) is enough for a sweep that one process began and
  ended.
* `ExitsAreStamped`: `Spec => []EveryExitIsStamped`, signals and failed windows included. What either of
  loop and handler is about to write is an ending, and one that ends the process without having been
  refused a write has written it, or the other has before (`StampInv`): a flush the one was refused does
  not keep the other from its own.
* `RunsCountTheirOwn`: `RunCountsOwnWindows`. The windows completed are those of this process beside
  those it opened with, if it did not begin the sweep (`OwnInv`).

`Journal_proofs` proves, for any processes, appends in flight, days, entropy and clock bound:

* `JournalTypeCorrect`: `Spec => []TypeOK`, whatever overlaps and whoever resets.
* `NoEventIsSkipped`: `Spec => []NothingSkipped`, assuming `InTurn`: processes take turns and
  checkpoints are reset between them; without the first the property is false. The argument is about
  where an event can be when the consumer passes it. One process runs at a time (`TurnInv`). Ids are
  of the past or the present millisecond and filed under their own day (`StampInv`). A writer
  started after the millisecond of every id the checkpoint can have, so what it has in flight is past
  the checkpoint (`WriterInv`); the consumer's own outcomes come after all that it can have listed
  (`OutcomeInv`). The listing is in order, by day and within a day (`ListInv`). So each landed event
  is handled, or this read still gets to it, or it lies past all that this read will see (`ReadInv`);
  when the checkpoint moves to an event, every earlier one is handled.
* `ReadDrainsBacklog`: `Spec => []DrainsBacklog`, assuming only that nobody resets checkpoints. What a
  read owes is what had landed past the checkpoint when it began; it lists a day at a time, in order,
  and an owed event is on the list of its day, which landed events do not leave.

`Analyzer_proofs`, for any repositories, versions, kills and refusals, cites the invariants of
`Journal_proofs` for the journal it instantiates: a step of `Analyzer` is a step of `Journal` or leaves
the journal alone (`JournalMoves`).

* `AnalyzerTypeCorrect`: `Spec => []TypeOK`, whatever overlaps.
* `ChangesAreAnswered`: `[]EveryChangeAnswered`, assuming `InTurn`. The worker's task is on the event it
  is handling (`WorkInv`), and what it appends has an id after that event's, because the event had
  landed when the id was drawn; so a handled change has its answer (`AnswerInv`), and the checkpoint
  has passed only handled events.
* `CaughtUpIsTold` and `LatestIsAnalyzed`, assuming `InTurn` and nothing of who may be killed. A
  repository has a change past the checkpoint, or its last analysis failed, or it is of the newest
  artifacts and announced, or of a named mode that was cut before it announced (`SettledInv`); the
  analysis is made from the newest because the crawler announces what it has already written
  (`FreshInv`). When the loop has run to its end nothing is past the checkpoint (`BacklogInv`, with
  `ReadDrainsBacklog`).

`Stores_proofs`, of `MeiliStore`, for any repositories, batches, tasks, failures and kills:

* `MeiliTypeCorrect`: `Spec => []TypeOK`; uids are places in a queue that only grows.
* `NoWriteIsForgotten`: `Spec => []NothingForgotten`. A task leaves `sent` for `pendingTaskUids` or
  `draining`, and these for `reported`; only a caller that waits has tasks to wait for
  (`DrainedByWaiters`).
* `ResumePointFollows`: `Spec => []StateFollowsCorpus`. Every repository the process has seen is in the
  corpus, in a task, still to be put, or recorded during a flush of the handler (`SeenAccounted`,
  `FlushPhase`), which the statement excepts; a state task comes after the
  corpus tasks of what it lists (`StateTasksFollow`); tasks settle in their order (`SettledInOrder`);
  what succeeded has landed (`SucceededLanded`, `SavedLanded`).
* `DurableIsDurable`: `Spec => DurableConfirmsEarlier`: what was handed over before has succeeded, or a
  caller was told of its loss, or the other one is still waiting for it. What had been handed over
  before a durable put stays handed over (`EarlierHandedOver`); it is forgotten by nobody
  (`NothingForgotten`), and what the call itself drains has settled without failing when it resolves.

Of `StoreReads`, for any collection, query, page size, changes beside a list and number of shards (it is
assumed that ids and ranks are finitely many numbers and that each name has its shard,
`ReadsAssumption`):

* `ListReadsAgree`: `ListSpec => []ReadsAgree`. In a finite set with a strict order each element has as
  many others before it as its rank says, and every rank is taken (`RankRange`, `RankMonotone`,
  `RankOnto`), so a sort loses no row and repeats none (`SortedRows`), and a beginning of it is what a
  limit asks for (`PrefixServes`). What Meilisearch has yielded so far is such a beginning, and a page
  continues it unless it is whole (`PagedInv`). What the filesystem store has read has smaller ids than
  what it has still to read, and a match that nobody touched is in one of the two (`ListedInv`).
  Worklists need no more than that `out` is a list of rows: of a name found twice the first place
  counts (`LeastNatural`), it has fewer places before it than the limit, and of any places at most
  `limit` have (`FirstOnes`). The proof showed that a case distinction in `Place` had overlapping
  cases.

`CrawlRun_proofs`, for any pool, worklist, quota and faults:

* `EndingsStand`: `FirstEndingStands`. `finished` is set in the step that begins the first put of an
  ending, so there is one writer (`OneEnding`).
* `RecordsAddUp`: `CrawlSpec => []RecordAddsUp`. Seen less settled is the size of the pool, which is at
  most `PoolSize`, and the stop counts once (`CountInv`); a document keeps what held when its put
  began (`DocsInv`).
* `ReserveIsKept`: `CrawlSpec => []OverspendBounded`. What the governor has heard of, what each older
  answer may still let begin, and what the pool can still ask sum up to no more than at the start
  (`LossInv`). The proof corrected the bound: `s` older answers are worth a repository in each place
  they leave one after another, so the bound is quadratic in the pool.

It proves also, of `SearchWindows`, for any repositories, years after 2013 and totals (of a repository
it is assumed that its stars are a natural number and its creation day a number,
`RepositoriesAssumption`). The invariant (`TrailInv`) is that the last window of a trail
holds the repository, and that each window is further down the tree than those before.

* `WindowsTileTheSearch`: `[]WindowsPartition`. A month is as long as from its first to the first of
  the next (`MonthLengths`), and a year as the next one's beginning less its own (`YearLengths`), so
  the parts of a range follow one another (`PartsTile`, `PartsApart`). That some year holds a day
  needs no induction: a year begins within two days of where the mean Gregorian year puts it
  (`MeanYear`), which leaves three to look at (`SomeYear`). Queries differ between levels because
  ranges differ in length (`DatedRanges`), and on one level because no day is in two of them.
* `PlansLoseOnlyADay`: `[]PlanLosesOnlyADay`. Only a day has no parts (`OnlyDaysAreWhole`), and the
  repository in it tells which day it is.
* `ResumesKeepWindows`: `ResumeKeepsWindows`. Only the range without dates is cut by the current year,
  and a later one adds to it (`LaterYearsAddParts`).

`FetchRepo_proofs`, for any crawlers, revisions, changes and deaths. The invariant (`FetchInv`, which a
run with two crawlers also checked before the proof) is about the crawls that nothing has confused or
that use no ETag (`Sure`); without confusion every crawl is alone, and a crawl that is alone has no
other beside it (`AloneInv`). Nobody knows of a revision still to come (`PastInv`), so what a crawl has
learnt of a part is what GitHub serves as long as its revision is the latest (`AnswerInv`); what it has
written is what it hashes (`WrittenInv`). Of `_fetch.json`: an ETag in it is of the file on disk or of
content that is gone for good, and a change announced and not recorded is not taken back (`MetaInv`).

* `ArtifactsAreOfOneContent`: `ArtifactsAgree`; `AnnouncementsMatch`: `ChangesAreAnnounced`. A crawl that
  saves speaks of what it has itself learnt, written and hashed (`SaveRecords`). A 304 to the document
  says that the revision recorded is the latest, and then `MetaInv` tells what is on disk and announced.
* `OldCachesHeal`: `RefreshHeals`. A crawl that uses no ETag reads nothing of the confusion before it;
  the document never answers it with a 304.

`MetaInv` failed at first for a README that goes a second time, which the model had taken for new
content. It is content that comes back, as much as any other, and now counts as such.

It proves also, of `Icon`, for any updaters, sizes, offers, revisions, kills and refusals:

* `IconsAreOfOneImage`: `IconsAgree`. While nothing is mixed the files are of the image `icon.json`
  describes, as long as no other image has been asked for since (`FilesInv`). A conditional request
  that is answered by a 304 asks for that image, which is either the last one asked for, and then the
  files are whole, or one that has come back, and then it is mixed. An update that is alone has the
  image asked for last and has written what it says (`WorkInv`).

`AnalyzeRepo_proofs`, for any repositories, providers, times to live, answers and verdicts. The rules are
those of the code; of a repository it is assumed that its dates are integers or missing, of a verdict
what `LlmVerdict` accepts (`ReposAssumption`, `VerdictsAssumption`).

* `AskedOncePerTtl`: `OneRequestPerTtl`. A provider asked within its time to live is being asked, or its
  answer, a failure being one, is cached and no older (`TtlInv`). A restart forgets the request that was
  under way, and then nobody knows that it was made.
* `OwnsUp`: `[]AnalysisOwnsUp`, with the exception of `FailureIsReported`. What a result says of the
  envelope it was made of (`HeardInv`) lasts until the next analysis, because the index of the landscape
  in memory is emptied before it is asked for again. A classification that is not in doubt is that of
  the first rule that fires, which has 70 per cent.
* `EveryAnalysisParses`: `[]ParseSucceeds`. Of four domains the last to be named would have three
  others before it, however long and repetitive the topics are (`NoFourth`, `AtMostThree`).

`ReadSide_proofs`, of `Portal`, for any queries, filters, corpus and number of requests under way. Its
specification (`PortalSpec`) constrains the variables of the portal only, so nothing is assumed of
the index: it may change between any two steps.

* `PagesAreOfTheirUrl`: `PagesFollowUrl`. A search that was not cancelled is of the URL, and there is
  one, or one to come, or its answer is on screen, or it failed (`SearchInv`). On the page of a tool
  each claim is that the effect which makes it true is due, or that it is true: a document under way is
  of the tool in the URL, what is on screen is of that tool unless it is loading, and what was fetched
  with a document is of the one on screen (`ToolInv`).
* `OffersWereProven`: `OffersAreProven`. Unless a verification of the URL is under way, what is offered
  was proven under its filters (`OfferInv`).

And of `ReadModel`, for any corpus, batch size, collections, failing tasks and kills:

* `CommandsDoTheirWork`: `CommandsMeanIt`. What a command waits for is the last task of the queue, so
  that nothing is ahead of it any more when it is done, whatever earlier commands left there
  (`CommandInv`). While a seed runs, each document is in a batch still to be done, or it is there and no
  clear is queued (`SeedInv`); while an `index create` runs in which nothing failed, each collection has
  its settings or is still to be given them (`CreateInv`). The batches cover the corpus whatever the
  last one leaves over (`SeedTasksCover`).

The others need one idea each.

* `RequestsAreTimely` (`CrawlRun_proofs`): `NoRequestTooSoon`. The gate is never less than what is
  left of a penalty or of the interval (`GateCovers`), whatever a sleeping call was told to wait, and a
  call that wakes looks at the gate again.
* `StorageIsARegister` (`Stores_proofs`): every behaviour of `FsStorage` is one of `Register`. A
  temporary file about to be renamed is whole (`WholeAtRename`); each step of a call maps to a step of
  the register or to none (`StepRefines`).
* `NoResetStrands` (`Stores_proofs`): `[]NothingStranded`. What a reset still has to remove covers what
  there is (`DoomCovers`), and repositories without a state belong to a keyword in its first flush or
  excused (`StateOrExcuse`).

The assumptions are those the modules state of their constants, which TLC evaluates on every run.
The bounds (`MaxClock`, `MaxRuns`, `MaxTasks`, ...) are constants of the specifications, and the theorems
hold for every value of them.

Only model-checked: liveness, which is beyond the proof system; and `Spelling` whole, where an edit
distance is computed by recursion over the words, which the provers cannot follow for every input.

## What could follow

`FetchRepo`, `Journal` and `Analyzer` composed, with the promise that the last content fetched is
analysed and announced: `Analyzer` has the crawler in summary now.

## Not modelled

* Scoring, the taxonomy, package identity and install commands, the choice of a README and of
  manifests, the listings of `explore`: they transform one record and keep no state.
* The projector: a stub that writes nothing. `createRebuildIndex` and `promote`: no caller.
* The routes of the API other than that of icons, which only read; the home page, the categories, the
  keyboard and the rendering of the portal.
* The PHP backend: a journal and checkpoints that only its unit tests call.
* Terminal output, parsing of arguments, wiring.

`PROJECT.json` gives the reason for each component, and for the hazards that no property covers.
