------------------------------ MODULE Discovery ------------------------------
(***************************************************************************)
(* The discovery sweep: runDiscovery (discovery/index.ts) over             *)
(* DiscoveryStore (discovery/store/store.ts), with the shutdown handler of *)
(* lib/shutdown.ts running beside it, a collection store whose writes land *)
(* or fail one at a time (FsDataStore), and a GitHub whose repositories    *)
(* keep changing.                                                          *)
(*                                                                         *)
(* One atomic step is the code between two I/O awaits: microtask-only      *)
(* awaits (recordAll, the flush chain) cannot be interleaved with another  *)
(* continuation that needs I/O.  A process may be killed between any two   *)
(* steps and a later one resumes from what had landed.                     *)
(***************************************************************************)
EXTENDS Integers, Sequences, FiniteSets, Functions

CONSTANTS
  Repos,         \* repositories the query matches
  Windows,       \* search windows, identified by queryOf(window)
  Roots,         \* initialWindows(query), a sequence
  Children,      \* Children[w]: split(w, now), a sequence, empty at the day floor
  Depth,         \* Depth[w]: how fine the creation range of w is
  Matches,       \* Matches[w]: every repository inside w
  Pages,         \* Pages[w]: the pages GitHub will serve for w (at most ten)
  Crowded,       \* windows whose total_count is over MAX_RESULTS_PER_QUERY
  Limit,         \* --limit, or NoLimit
  NoLimit, NoState, NoRun,   \* no limit, no state document, no run document
  FlushWindows,  \* FLUSH_WINDOW_COUNT
  Signals,       \* may SIGINT or SIGTERM arrive?
  Fresh,         \* may a run be started with --fresh?
  MaxRuns,       \* bound: processes started
  MaxFaults,     \* bound: failed requests and failed writes
  MaxPayload     \* bound: versions a repository goes through

(* planWindow: a window over the cap is subdivided; at the day floor it is *)
(* paginated as far as GitHub goes and the rest is lost (truncated).       *)
Kids(w)      == IF w \in Crowded THEN Children[w] ELSE <<>>
Splits(w)    == Kids(w) # <<>>
Truncated(w) == w \in Crowded /\ Children[w] = <<>>
LastPage(w)  == IF Splits(w) THEN 1 ELSE Len(Pages[w])
Fetched(w)   == UNION {Pages[w][p] : p \in 1..LastPage(w)}

InScope == UNION {Matches[w] : w \in Range(Roots)}

ASSUME BoundsAssumption ==
  /\ MaxRuns \in Nat /\ MaxFaults \in Nat /\ MaxPayload \in Nat \ {0}
  /\ FlushWindows \in Nat \ {0}
  /\ Signals \in BOOLEAN /\ Fresh \in BOOLEAN
  /\ Limit \in Nat \/ Limit = NoLimit

(* The documents of the three collections.                                 *)
Docs     == Repos \X (1..MaxPayload)
Progress == [pending : Seq(Windows), done : SUBSET Windows, failed : SUBSET Windows,
             started_at : 0..MaxRuns]
RunDocs  == [outcome : {"running", "complete", "failed", "interrupted"},
             windows_completed : Int, own : Nat]

ASSUME SentinelAssumption == NoState \notin Progress /\ NoRun \notin RunDocs

(* What windows.ts guarantees of its windows: see SearchWindows.           *)
ASSUME WindowsAssumption ==
  /\ IsFiniteSet(Repos) /\ IsFiniteSet(Windows)
  /\ Crowded \subseteq Windows
  /\ Roots \in Seq(Windows)
  /\ Children \in [Windows -> Seq(Windows)]
  /\ Matches \in [Windows -> SUBSET Repos]
  /\ Pages \in [Windows -> Seq(SUBSET Repos)]
  /\ Depth \in [Windows -> Nat]
  /\ \A w \in Windows : Pages[w] # <<>>

(* split covers its window with strictly finer ones; a window under the    *)
(* cap is served whole; a page of w holds repositories of w.               *)
ASSUME CoverAssumption ==
  /\ \A w \in Windows : Fetched(w) \subseteq Matches[w]
  /\ \A w \in Windows \ Crowded : Matches[w] \subseteq Fetched(w)
  /\ \A w \in Windows : \A k \in Range(Kids(w)) :
       Depth[k] > Depth[w] /\ Matches[k] \subseteq Matches[w]
  /\ \A w \in Windows : Splits(w) =>
       Matches[w] \subseteq UNION {Matches[k] : k \in Range(Kids(w))}

VARIABLES
  \* the collections, which outlive every process
  corpus,     \* discovery_repos: the payload recorded for each repository, 0 if none
  saved,      \* discovery_state: the resume point, or NoState
  history,    \* discovery_runs: one document per run, or NoRun
  \* the main loop
  pc,
  work,       \* store.state (pending_windows aliased by queue)
  known,      \* store.known: payload hash by repository, 0 if absent
  seen,       \* store.seenThisRun
  buffer,     \* store.pendingRepos: documents <<repo, payload>> not yet written
  page,       \* page about to be fetched for the window at the head of the queue
  since,      \* store.windowsSinceFlush
  stopped,    \* the --limit was reached
  opened,     \* store.openedWith.windowsCompleted
  stamp,      \* run document each of the two writers has in flight, or NoRun
  \* the flush chain and the write in progress
  turns,      \* whose flush() calls are queued on store.flushing
  write,      \* which collection writeAll is writing
  batch,      \* documents writeAll took from pendingRepos
  unwritten,  \* those of them not landed yet
  snap,       \* the state document being written
  \* the shutdown handler
  handler,
  \* the world
  run,        \* number of processes started; the current run's id
  github,     \* payload GitHub holds for each repository
  asOf,       \* asOf[i]: github at the instant run i read its clock (ghost)
  mine,       \* windows this process completed (ghost)
  left,       \* <<run, who>>: processes that ended on their own, neither killed nor
              \* aborted, and which of loop and handler ended them (ghost)
  refused,    \* <<run, who>>: those of whom a write was refused (ghost)
  faults

store   == <<corpus, saved, history>>
memory  == <<work, known, seen, buffer, page, since, stopped, opened, mine>>
flusher == <<turns, write, batch, unwritten, snap>>
world   == <<run, github, asOf, left>>
vars    == <<store, pc, memory, stamp, flusher, handler, world, faults, refused>>

NoWork == [pending |-> <<>>, done |-> {}, failed |-> {}, started_at |-> 0]

Process == {"loop", "handler"}

Running == pc # "down"
(* Past installShutdown and before the last await of runDiscovery settles. *)
Sweeping == pc \in {"loop", "flush", "final", "rescue", "finish"}

LimitReached(k) ==
  /\ Limit # NoLimit
  /\ Cardinality({r \in Repos : k[r] # 0}) >= Limit

RunDoc(outcome) ==
  [outcome |-> outcome,
   windows_completed |-> Cardinality(work.done) - opened,
   own |-> Cardinality(mine)]

-----------------------------------------------------------------------------
Init ==
  /\ corpus = [r \in Repos |-> 0]
  /\ saved = NoState
  /\ history = [i \in 1..MaxRuns |-> NoRun]
  /\ pc = "down"
  /\ work = NoWork
  /\ known = [r \in Repos |-> 0]
  /\ seen = {} /\ buffer = {} /\ mine = {}
  /\ page = 1 /\ since = 0 /\ stopped = FALSE /\ opened = 0
  /\ stamp = [p \in Process |-> NoRun]
  /\ turns = <<>> /\ write = "idle" /\ batch = {} /\ unwritten = {} /\ snap = NoWork
  /\ handler = "idle"
  /\ run = 0
  /\ github = [r \in Repos |-> 1]
  /\ asOf = [i \in 1..MaxRuns |-> [r \in Repos |-> 0]]
  /\ left = {} /\ refused = {}
  /\ faults = 0

(* The process is gone and nothing it held in memory survives.             *)
Gone ==
  /\ pc' = "down"
  /\ work' = NoWork
  /\ known' = [r \in Repos |-> 0]
  /\ seen' = {} /\ buffer' = {} /\ mine' = {}
  /\ page' = 1 /\ since' = 0 /\ stopped' = FALSE /\ opened' = 0
  /\ stamp' = [p \in Process |-> NoRun]
  /\ turns' = <<>> /\ write' = "idle" /\ batch' = {} /\ unwritten' = {} /\ snap' = NoWork
  /\ handler' = "idle"

Fault == faults < MaxFaults /\ faults' = faults + 1

(* A write of one of the two is refused. *)
Refuses(who) == Fault /\ refused' = refused \union {<<run, who>>}

-----------------------------------------------------------------------------
(* Opening: runDiscovery up to installShutdown, DiscoveryStore.open.       *)

Start ==
  /\ pc = "down" /\ run < MaxRuns
  /\ run' = run + 1
  /\ asOf' = [asOf EXCEPT ![run + 1] = github]
  /\ \/ Fresh /\ pc' = "wipe"
     \/ pc' = "open"
  /\ UNCHANGED <<store, memory, stamp, flusher, handler, github, left, faults, refused>>

(* --fresh: the corpus of this query is removed document by document...    *)
RemoveRepo ==
  /\ pc = "wipe"
  /\ \E r \in Repos :
       /\ corpus[r] # 0
       /\ corpus' = [corpus EXCEPT ![r] = 0]
  /\ UNCHANGED <<saved, history, pc, memory, stamp, flusher, handler, world, faults, refused>>

(* ... and then the resume point.                                          *)
RemoveState ==
  /\ pc = "wipe"
  /\ \A r \in Repos : corpus[r] = 0
  /\ saved' = NoState
  /\ pc' = "open"
  /\ UNCHANGED <<corpus, history, memory, stamp, flusher, handler, world, faults, refused>>

(* Mutant of Open: what the sweep had done before counts as this run's.    *)
OpenWithoutBaseline ==
  /\ pc = "open"
  /\ work' = IF saved = NoState THEN NoWork ELSE saved
  /\ known' = IF saved = NoState THEN [r \in Repos |-> 0] ELSE corpus
  /\ opened' = 0
  /\ stamp' = [stamp EXCEPT !["loop"] =
                 [outcome |-> "running", windows_completed |-> 0, own |-> 0]]
  /\ pc' = "register"
  /\ UNCHANGED <<store, seen, buffer, page, since, stopped, mine, flusher, handler,
                 world, faults, refused>>

(* The corpus is loaded only beside a valid state; openedWith is captured  *)
(* and the 'running' document is built before beginSweep.                  *)
Open ==
  /\ pc = "open"
  /\ work' = IF saved = NoState THEN NoWork ELSE saved
  /\ known' = IF saved = NoState THEN [r \in Repos |-> 0] ELSE corpus
  /\ opened' = Cardinality(work'.done)
  /\ stamp' = [stamp EXCEPT !["loop"] =
                 [outcome |-> "running", windows_completed |-> 0, own |-> 0]]
  /\ pc' = "register"
  /\ UNCHANGED <<store, seen, buffer, page, since, stopped, mine, flusher, handler,
                 world, faults, refused>>

(* Mutant of Register: beginSweep keeps what the sweep before completed.     *)
RegisterKeepsCompleted ==
  /\ pc = "register"
  /\ history' = [history EXCEPT ![run] = stamp["loop"]]
  /\ work' = IF work.pending # <<>> THEN work
             ELSE [work EXCEPT !.pending = Roots, !.failed = {}, !.started_at = run]
  /\ stamp' = [stamp EXCEPT !["loop"] = NoRun]
  /\ pc' = "loop"
  /\ UNCHANGED <<corpus, saved, known, seen, buffer, page, since, stopped, opened, mine,
                 flusher, handler, world, faults, refused>>

(* writeRun('running') lands; beginSweep; installShutdown.                 *)
Register ==
  /\ pc = "register"
  /\ history' = [history EXCEPT ![run] = stamp["loop"]]
  /\ work' = IF work.pending # <<>> THEN work
             ELSE [pending |-> Roots, done |-> {}, failed |-> {}, started_at |-> run]
  /\ stamp' = [stamp EXCEPT !["loop"] = NoRun]
  /\ pc' = "loop"
  /\ UNCHANGED <<corpus, saved, known, seen, buffer, page, since, stopped, opened, mine,
                 flusher, handler, world, faults, refused>>

RegisterFails ==
  /\ pc = "register"
  /\ Refuses("loop")
  /\ stamp' = [stamp EXCEPT !["loop"] = NoRun]
  /\ pc' = "ended"
  /\ UNCHANGED <<store, memory, flusher, handler, world>>

-----------------------------------------------------------------------------
(* The loop.                                                               *)

(* Mutant of RecordAll: a repository once recorded is never refreshed.     *)
RecordAllOnce(items) ==
  LET new == {r \in items \ seen : known[r] = 0}
  IN  /\ known' = [r \in Repos |-> IF r \in new THEN github[r] ELSE known[r]]
      /\ buffer' = buffer \union {<<r, github[r]>> : r \in new}
      /\ seen' = seen \union items

(* DiscoveryStore.record over one page of results.                         *)
RecordAll(items) ==
  LET new == {r \in items \ seen : known[r] # github[r]}
  IN  /\ known' = [r \in Repos |-> IF r \in new THEN github[r] ELSE known[r]]
      /\ buffer' = buffer \union {<<r, github[r]>> : r \in new}
      /\ seen' = seen \union items

(* windowCompleted after queue.shift(): 25 windows force a flush, 30       *)
(* seconds may; without one the limit is tested and the loop goes round.   *)
WindowCompleted ==
  /\ page' = 1
  /\ since' = since + 1
  /\ \/ /\ pc' = "flush"
        /\ turns' = Append(turns, "loop")
        /\ UNCHANGED stopped
     \/ /\ since + 1 < FlushWindows
        /\ pc' = "loop"
        /\ stopped' = LimitReached(known')
        /\ UNCHANGED turns

InLoop == pc = "loop" /\ work.pending # <<>> /\ ~stopped

(* A window subdivision enqueued twice, or done before an interruption.    *)
SkipCompleted ==
  /\ InLoop
  /\ Head(work.pending) \in work.done
  /\ work' = [work EXCEPT !.pending = Tail(@)]
  /\ UNCHANGED <<known, seen, buffer, mine>>
  /\ WindowCompleted
  /\ UNCHANGED <<store, stamp, opened, write, batch, unwritten, snap, handler,
                 world, faults, refused>>

(* Mutant of CompleteWindow: the window is completed without its children. *)
CompleteWithoutKids(w) ==
  /\ work' = [work EXCEPT !.pending = Tail(@), !.done = @ \union {w}]
  /\ mine' = mine \union {w}
  /\ WindowCompleted

(* A page of the window at the head arrives; its results are recorded.     *)
(* After the last one the children are pushed, the window is completed and *)
(* only then shifted off the queue.                                        *)
CompleteWindow(w) ==
  /\ work' = [work EXCEPT !.pending = Tail(@ \o Kids(w)), !.done = @ \union {w}]
  /\ mine' = mine \union {w}
  /\ WindowCompleted

FetchPage ==
  /\ InLoop
  /\ LET w == Head(work.pending)
     IN  /\ w \notin work.done
         /\ RecordAll(Pages[w][page])
         /\ \/ /\ page < LastPage(w)
               /\ page' = page + 1
               /\ UNCHANGED <<pc, work, since, stopped, turns, mine>>
            \/ /\ page = LastPage(w)
               /\ CompleteWindow(w)
  /\ UNCHANGED <<store, stamp, opened, write, batch, unwritten, snap, handler,
                 world, faults, refused>>

(* Mutant of FetchFails: the window is dropped and not reported.           *)
FetchFailsSilently ==
  /\ InLoop
  /\ Head(work.pending) \notin work.done
  /\ Fault
  /\ work' = [work EXCEPT !.pending = Tail(@)]
  /\ UNCHANGED <<known, seen, buffer, mine>>
  /\ WindowCompleted
  /\ UNCHANGED <<store, stamp, opened, write, batch, unwritten, snap, handler, world, refused>>

(* search.page gives up: the window is recorded as failed and dropped.     *)
FetchFails ==
  /\ InLoop
  /\ Head(work.pending) \notin work.done
  /\ Fault
  /\ work' = [work EXCEPT !.pending = Tail(@), !.failed = @ \union {Head(work.pending)}]
  /\ UNCHANGED <<known, seen, buffer, mine>>
  /\ WindowCompleted
  /\ UNCHANGED <<store, stamp, opened, write, batch, unwritten, snap, handler, world, refused>>

(* The queue is drained, or the limit stops it: the flush of `finally`.    *)
LeaveLoop ==
  /\ pc = "loop" /\ (work.pending = <<>> \/ stopped)
  /\ pc' = "final"
  /\ turns' = Append(turns, "loop")
  /\ UNCHANGED <<store, memory, stamp, write, batch, unwritten, snap, handler,
                 world, faults, refused>>

-----------------------------------------------------------------------------
(* flush() and writeAll: one at a time, in the order they were called.     *)

Outcome == IF work.failed # {} THEN "failed" ELSE "complete"

(* Mutant of Resolve: a sweep with failed windows returns unstamped.        *)
ResolveFailedUnstamped ==
  IF Head(turns) = "handler"
  THEN /\ handler' = "finish"
       /\ stamp' = [stamp EXCEPT !["handler"] = RunDoc("interrupted")]
       /\ turns' = Tail(turns)
       /\ UNCHANGED <<pc, stopped>>
  ELSE /\ pc' = CASE pc = "flush"  -> "loop"
                  [] pc = "final"  -> IF Outcome = "failed" THEN "ended" ELSE "finish"
                  [] pc = "rescue" -> "ended"
       /\ stamp' = IF pc = "final" /\ Outcome = "complete"
                   THEN [stamp EXCEPT !["loop"] = RunDoc(Outcome)] ELSE stamp
       /\ stopped' = IF pc = "flush" THEN LimitReached(known) ELSE stopped
       /\ turns' = Tail(turns)
       /\ UNCHANGED handler

(* What the caller of the flush at the head of the chain does next.        *)
Resolve ==
  IF Head(turns) = "handler"
  THEN /\ handler' = "finish"
       /\ stamp' = [stamp EXCEPT !["handler"] = RunDoc("interrupted")]
       /\ turns' = Tail(turns)
       /\ UNCHANGED <<pc, stopped>>
  ELSE /\ pc' = CASE pc = "flush"  -> "loop"
                  [] pc = "final"  -> "finish"
                  [] pc = "rescue" -> "ended"
       /\ stamp' = IF pc = "final" THEN [stamp EXCEPT !["loop"] = RunDoc(Outcome)] ELSE stamp
       /\ stopped' = IF pc = "flush" THEN LimitReached(known) ELSE stopped
       /\ turns' = Tail(turns)
       /\ UNCHANGED handler

(* Mutant of Reject: a failed flush poisons the chain for the one behind   *)
(* it, which never runs.                                                   *)
RejectPoisons ==
  IF Head(turns) = "handler"
  THEN /\ handler' = "exit"
       /\ turns' = Tail(turns)
       /\ UNCHANGED pc
  ELSE /\ IF pc = "flush" THEN pc' = "rescue" ELSE pc' = "ended"
       /\ turns' = Tail(turns)
       /\ UNCHANGED handler

(* A rejected flush: the handler logs it and exits; in the loop it throws  *)
(* out of the try, `finally` flushes once more, and the error goes on.     *)
Reject ==
  IF Head(turns) = "handler"
  THEN /\ handler' = "exit"
       /\ turns' = Tail(turns)
       /\ UNCHANGED pc
  ELSE /\ IF pc = "flush"
          THEN pc' = "rescue" /\ turns' = Append(Tail(turns), "loop")
          ELSE pc' = "ended" /\ turns' = Tail(turns)
       /\ UNCHANGED handler

(* pendingRepos is taken; with nothing to write the state goes first.      *)
BeginWrite ==
  /\ write = "idle" /\ turns # <<>>
  /\ batch' = buffer /\ unwritten' = buffer /\ buffer' = {}
  /\ IF buffer = {} THEN write' = "state" /\ snap' = work
                    ELSE write' = "corpus" /\ UNCHANGED snap
  /\ UNCHANGED <<store, pc, work, known, seen, page, since, stopped, opened, mine, stamp, turns,
                 handler, world, faults, refused>>

(* A document lands; after the last the state is serialised as it is now.  *)
WriteRepo ==
  /\ write = "corpus"
  /\ \E d \in unwritten :
       /\ corpus' = [corpus EXCEPT ![d[1]] = d[2]]
       /\ unwritten' = unwritten \ {d}
  /\ IF unwritten' = {} THEN write' = "state" /\ snap' = work
                        ELSE UNCHANGED <<write, snap>>
  /\ UNCHANGED <<saved, history, pc, memory, stamp, turns, batch, handler,
                 world, faults, refused>>

(* Mutant of WriteRepoFails: the batch is lost.                            *)
WriteRepoLosesBatch ==
  /\ write = "corpus"
  /\ Refuses(Head(turns))
  /\ buffer' = buffer
  /\ batch' = {} /\ unwritten' = {} /\ write' = "idle"
  /\ Reject
  /\ UNCHANGED <<store, work, known, seen, page, since, stopped, opened, mine, stamp, snap,
                 world>>

(* The whole batch goes back in front of pendingRepos.                     *)
WriteRepoFails ==
  /\ write = "corpus"
  /\ Refuses(Head(turns))
  /\ buffer' = batch \union buffer
  /\ batch' = {} /\ unwritten' = {} /\ write' = "idle"
  /\ Reject
  /\ UNCHANGED <<store, work, known, seen, page, since, stopped, opened, mine, stamp, snap,
                 world>>

WriteState ==
  /\ write = "state"
  /\ saved' = snap
  /\ since' = 0
  /\ batch' = {} /\ write' = "idle" /\ snap' = NoWork
  /\ Resolve
  /\ UNCHANGED <<corpus, history, work, known, seen, buffer, page, opened, mine, unwritten,
                 world, faults, refused>>

WriteStateFails ==
  /\ write = "state"
  /\ Refuses(Head(turns))
  /\ batch' = {} /\ write' = "idle" /\ snap' = NoWork
  /\ Reject
  /\ UNCHANGED <<store, memory, stamp, unwritten, world>>

-----------------------------------------------------------------------------
(* Endings.                                                                *)

FinishRun ==
  /\ pc = "finish"
  /\ history' = [history EXCEPT ![run] = stamp["loop"]]
  /\ stamp' = [stamp EXCEPT !["loop"] = NoRun]
  /\ pc' = "ended"
  /\ UNCHANGED <<corpus, saved, memory, flusher, handler, world, faults, refused>>

FinishRunFails ==
  /\ pc = "finish"
  /\ Refuses("loop")
  /\ stamp' = [stamp EXCEPT !["loop"] = NoRun]
  /\ pc' = "ended"
  /\ UNCHANGED <<store, memory, flusher, handler, world>>

(* The first signal: flush, finishRun('interrupted'), exit.                *)
Signal ==
  /\ Signals /\ Sweeping /\ handler = "idle"
  /\ handler' = "flush"
  /\ turns' = Append(turns, "handler")
  /\ UNCHANGED <<store, pc, memory, stamp, write, batch, unwritten, snap, world, faults, refused>>

Interrupt ==
  /\ handler = "finish"
  /\ history' = [history EXCEPT ![run] = stamp["handler"]]
  /\ stamp' = [stamp EXCEPT !["handler"] = NoRun]
  /\ handler' = "exit"
  /\ UNCHANGED <<corpus, saved, pc, memory, flusher, world, faults, refused>>

InterruptFails ==
  /\ handler = "finish"
  /\ Refuses("handler")
  /\ stamp' = [stamp EXCEPT !["handler"] = NoRun]
  /\ handler' = "exit"
  /\ UNCHANGED <<store, pc, memory, flusher, world>>

(* process.exit in the handler, or an event loop with nothing left to do.  *)
Exit ==
  /\ \/ handler = "exit" /\ left' = left \union {<<run, "handler">>}
     \/ pc = "ended" /\ handler = "idle" /\ left' = left \union {<<run, "loop">>}
  /\ Gone
  /\ UNCHANGED <<store, run, github, asOf, faults, refused>>

(* SIGKILL, power loss, or a second signal past the grace period: nothing  *)
(* more of this process happens.                                           *)
Kill ==
  /\ Running
  /\ Gone
  /\ UNCHANGED <<store, world, faults, refused>>

(* A repository's payload changes on GitHub.                               *)
Push ==
  /\ \E r \in Repos :
       /\ github[r] < MaxPayload
       /\ github' = [github EXCEPT ![r] = @ + 1]
  /\ UNCHANGED <<store, pc, memory, stamp, flusher, handler, run, asOf, left, faults, refused>>

-----------------------------------------------------------------------------
OpenStep  == RemoveRepo \/ RemoveState \/ Open \/ Register \/ RegisterFails
LoopStep  == SkipCompleted \/ FetchPage \/ FetchFails \/ LeaveLoop
FlushStep == BeginWrite \/ WriteRepo \/ WriteRepoFails \/ WriteState \/ WriteStateFails
EndStep   == FinishRun \/ FinishRunFails \/ Interrupt \/ InterruptFails \/ Exit

Next == Start \/ OpenStep \/ LoopStep \/ FlushStep \/ EndStep \/ Signal \/ Kill \/ Push

Spec == Init /\ [][Next]_vars

(* Every request and every write settles one way or the other; nothing     *)
(* obliges anyone to start a run, to signal it or to kill it.              *)
FairSpec == Spec /\ WF_vars(OpenStep \/ EndStep) /\ WF_vars(LoopStep) /\ WF_vars(FlushStep)

-----------------------------------------------------------------------------
(* Properties.                                                             *)

(* Each of the two users of store.flushing has at most one call in it.     *)
Chains == {<<>>, <<"loop">>, <<"handler">>, <<"loop", "handler">>, <<"handler", "loop">>}

TypeOK ==
  /\ corpus \in [Repos -> 0..MaxPayload]
  /\ saved \in Progress \union {NoState}
  /\ history \in [1..MaxRuns -> RunDocs \union {NoRun}]
  /\ pc \in {"down", "wipe", "open", "register", "loop", "flush", "final", "rescue", "finish",
             "ended"}
  /\ work \in Progress
  /\ known \in [Repos -> 0..MaxPayload]
  /\ seen \subseteq Repos
  /\ buffer \subseteq Docs /\ batch \subseteq Docs /\ unwritten \subseteq batch
  /\ page \in Nat \ {0} /\ since \in Nat /\ stopped \in BOOLEAN /\ opened \in Nat
  /\ stamp \in [Process -> RunDocs \union {NoRun}]
  /\ turns \in Chains
  /\ write \in {"idle", "corpus", "state"}
  /\ snap \in Progress
  /\ handler \in {"idle", "flush", "finish", "exit"}
  /\ run \in 0..MaxRuns
  /\ github \in [Repos -> 1..MaxPayload]
  /\ asOf \in [1..MaxRuns -> [Repos -> 0..MaxPayload]]
  /\ mine \subseteq Windows
  /\ left \subseteq (1..MaxRuns) \X Process
  /\ refused \subseteq (1..MaxRuns) \X Process
  /\ faults \in 0..MaxFaults

(* The windows through which a resume point accounts for a repository: one *)
(* still to be swept, one reported as failed, one finished and not split.  *)
Live(s)     == (Range(s.pending) \ s.done) \union s.failed
Accounts(s) == Live(s) \union {w \in s.done : ~Splits(w)}

(* What a resume point still owes the corpus: the repositories of live     *)
(* windows, and those of a day over the cap, which GitHub will not serve.  *)
Owed(s) == UNION {Matches[w] : w \in Live(s) \union {v \in s.done : Truncated(v)}}

(* Every repository the query matches is in a window that the durable      *)
(* resume point lists as pending, failed or completed, at whichever await  *)
(* the flush or the kill came: the loop peeks at its queue and shifts only *)
(* after the children are pushed (index.ts, "Peek, do not shift").         *)
NoWindowDropped ==
  saved # NoState => InScope \subseteq UNION {Matches[w] : w \in Accounts(saved)}

(* completed_windows never becomes durable ahead of the repositories those *)
(* windows served: the corpus holds each of them with a payload at least   *)
(* as recent as the sweep (store.ts, writeAll).                            *)
CorpusAheadOfState ==
  saved # NoState =>
    \A w \in saved.done : \A r \in Fetched(w) :
      corpus[r] >= asOf[saved.started_at][r]

(* When a run of a sweep that was resumed any number of times is stamped   *)
(* 'complete' with nothing pending, no window failed in any of those runs  *)
(* and every repository GitHub would serve is in the corpus: the scheduled *)
(* sweep that exits 0 hands the crawler a complete corpus.                 *)
Completes == Running /\ history'[run] # history[run] /\ history'[run].outcome = "complete"

CompleteMeansCaptured ==
  [][Completes /\ work.pending = <<>> =>
       /\ work.failed = {}
       /\ \A r \in InScope \ Owed(work) : corpus[r] >= asOf[work.started_at][r]]_history

(* Even with interruptions and --fresh around it, a sweep begun and        *)
(* completed by one uninterrupted process captures everything: what an     *)
(* earlier one lost comes back ("self-heals on the next sweep").           *)
NextSweepHeals ==
  [][Completes /\ work.pending = <<>> /\ work.started_at = run =>
       \A r \in InScope \ Owed(work) : corpus[r] >= asOf[run][r]]_history

(* A process that ends by itself leaves its run stamped with its ending,   *)
(* with failed windows or without ("Called on every path out of            *)
(* runDiscovery - normal completion, a failed-window exit, and the         *)
(* shutdown handler", store.ts), unless a write was refused to the one     *)
(* that ended it: a flush of the loop that rejects must not keep the       *)
(* handler from flushing and stamping, nor one of the handler the loop.    *)
(* The exception is the one the code has, whatever the comment says: a      *)
(* rejected flush in `finally` (index.ts:174) keeps finishRun from running. *)
EveryExitIsStamped ==
  \A end \in left \ refused : history[end[1]] # NoRun /\ history[end[1]].outcome # "running"

(* A run document counts the windows its own process completed, however    *)
(* many processes a sweep had before ("Run-scoped, never sweep-scoped:     *)
(* these count only this process"), unless it begins a new sweep over a    *)
(* finished one: openedWith is then a count of the finished sweep.         *)
RunCountsOwnWindows ==
  [][/\ Running /\ history'[run] # history[run]
     /\ work.started_at = run => opened = 0
     => history'[run].windows_completed = history'[run].own]_history

(* A sweep that is not killed ends: neither the flush chain shared by the  *)
(* loop and the handler nor a failing write leaves a process waiting.      *)
EveryRunEnds == Running ~> ~Running

(* The promise of SweepLedger, read off the two collections.               *)
Ledger == INSTANCE SweepLedger WITH
  Scope    <- InScope,
  captured <- corpus,
  owed     <- IF saved = NoState THEN InScope ELSE Owed(saved),
  sweep    <- IF saved = NoState THEN 0 ELSE saved.started_at,
  floor    <- IF saved = NoState THEN [r \in Repos |-> 0] ELSE asOf[saved.started_at]

KeepsLedger == Ledger!Spec
=============================================================================
