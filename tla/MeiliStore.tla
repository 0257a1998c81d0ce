----------------------------- MODULE MeiliStore -----------------------------
(***************************************************************************)
(* DiscoveryStore.flush over MeilisearchDataStore                          *)
(* (apps/workers/src/cli/data-store.ts).                                   *)
(*                                                                         *)
(* Meilisearch answers a write with a task: the document is accepted, not  *)
(* written.  The handle remembers the tasks it has not heard of, and a     *)
(* durable put waits for all of them.  Two callers share the handle.  One  *)
(* is the flush, which writes the corpus and then, durably, the resume      *)
(* point, one flush at a time, for the loop or for the shutdown handler.    *)
(* The loop waits for its own flush; it goes on recording during the        *)
(* handler's.  The other caller is the handler's stamp of the run, durable  *)
(* too, beside whatever the loop is doing by then; a loop that ends of      *)
(* itself makes the same two calls with nothing beside them.  A task may    *)
(* fail on the server, a wait may time out while its tasks are still        *)
(* queued, and the process may be killed with tasks under way that land     *)
(* when the next one has already read the collections.                      *)
(*                                                                         *)
(* A repository is a window of its own: recording it completes it.         *)
(***************************************************************************)
EXTENDS Naturals, FiniteSets, Sequences

CONSTANTS
  Repos,
  WriteBatch,    \* DiscoveryStore.WRITE_BATCH
  MaxTasks, MaxFailures, MaxKills   \* bounds

ASSUME BatchAssumption == WriteBatch \in Nat \ {0}

VARIABLES
  tasks,         \* the server's queue; a task's uid is its place in it
  corpus,        \* discovery_repos
  saved,         \* discovery_state: no document, or the one that says what is completed
  pendingTaskUids,
  pc,            \* where each caller is; the stamp's place is the handler's
  sent,          \* the task of the put each caller has under way
  draining,      \* the tasks each caller waits for
  known, completed, pendingRepos,   \* the DiscoveryStore
  batch, left,   \* writeAll's batch, and what of it is still to be put
  reported,      \* ghost: tasks whose loss a caller was told of
  orphaned,      \* ghost: tasks of a process that was killed
  earlier,       \* ghost: tasks whose puts had resolved when the last put of a caller was made
  raced,         \* ghost: repositories the loop recorded during a flush of the handler
  kills

server == <<tasks, corpus, saved>>
store  == <<known, completed, pendingRepos, batch, left>>
ghosts == <<reported, orphaned, earlier, raced, kills>>
vars   == <<server, pendingTaskUids, pc, sent, draining, store, ghosts>>

Callers == {"flush", "stamp"}
Uids == 1..Len(tasks)
Statuses == {"enqueued", "succeeded", "failed"}
Places == {"closed", "opening", "idle", "signalled", "flushing", "corpus", "state", "run", "wait",
           "done"}
TaskSet == [kind : {"repos", "state", "run"}, docs : SUBSET Repos, status : Statuses]

TypeOK ==
  /\ tasks \in Seq(TaskSet)
  /\ corpus \in SUBSET Repos
  /\ saved \in SUBSET SUBSET Repos
  /\ pendingTaskUids \in SUBSET Uids
  /\ pc \in [Callers -> Places]
  /\ sent \in [Callers -> SUBSET Uids] /\ draining \in [Callers -> SUBSET Uids]
  /\ known \subseteq Repos /\ completed \subseteq Repos
  /\ pendingRepos \subseteq Repos /\ batch \subseteq Repos /\ left \subseteq Repos
  /\ reported \subseteq Uids /\ orphaned \subseteq Uids
  /\ earlier \in [Callers -> SUBSET Uids]
  /\ raced \subseteq Repos
  /\ kills \in Nat

Init ==
  /\ tasks = <<>> /\ corpus = {} /\ saved = {}
  /\ pendingTaskUids = {}
  /\ pc = [c \in Callers |-> "closed"]
  /\ sent = [c \in Callers |-> {}] /\ draining = [c \in Callers |-> {}]
  /\ known = {} /\ completed = {} /\ pendingRepos = {} /\ batch = {} /\ left = {}
  /\ reported = {} /\ orphaned = {} /\ raced = {} /\ kills = 0
  /\ earlier = [c \in Callers |-> {}]

-----------------------------------------------------------------------------
(* The server takes tasks in the order of their uids.  A failed task leaves *)
(* the index as it was.                                                     *)

Enqueue(kind, docs) ==
  tasks' = Append(tasks, [kind |-> kind, docs |-> docs, status |-> "enqueued"])

Settled(u) == tasks[u].status # "enqueued"
Failed == {u \in Uids : tasks[u].status = "failed"}
Lost == UNION {tasks[u].docs : u \in {v \in Failed : tasks[v].kind = "repos"}}

Next1st == {u \in Uids : ~Settled(u) /\ \A v \in 1..(u - 1) : Settled(v)}

Succeed == \E u \in Next1st :
  /\ tasks' = [tasks EXCEPT ![u].status = "succeeded"]
  /\ corpus' = IF tasks[u].kind = "repos" THEN corpus \cup tasks[u].docs ELSE corpus
  /\ saved' = IF tasks[u].kind = "state" THEN {tasks[u].docs} ELSE saved
  /\ UNCHANGED <<pendingTaskUids, pc, sent, draining, store, ghosts>>

Fail == \E u \in Next1st :
  /\ Cardinality(Failed) < MaxFailures
  /\ tasks' = [tasks EXCEPT ![u].status = "failed"]
  /\ UNCHANGED <<corpus, saved, pendingTaskUids, pc, sent, draining, store, ghosts>>

-----------------------------------------------------------------------------
(* MeilisearchDataStore.put: updateDocuments is sent, and when it answers   *)
(* the task is remembered.  A durable put goes on to drain in the same turn. *)

Send(c, kind, docs) ==
  /\ sent[c] = {} /\ Len(tasks) < MaxTasks
  /\ Enqueue(kind, docs)
  /\ sent' = [sent EXCEPT ![c] = {Len(tasks) + 1}]
  /\ earlier' = [earlier EXCEPT ![c] = Uids \ UNION {sent[d] : d \in Callers}]
  /\ UNCHANGED <<corpus, saved, pendingTaskUids, pc, draining, store, reported, orphaned,
                 raced, kills>>

Answered(c) == /\ sent[c] # {}
               /\ sent' = [sent EXCEPT ![c] = {}]

\* Mutant of Drain: waits for the newest task alone.
DrainNewest(c) ==
  /\ draining' = [draining EXCEPT ![c] = sent[c]]
  /\ pendingTaskUids' = {}

Drain(c) ==
  /\ draining' = [draining EXCEPT ![c] = pendingTaskUids \cup sent[c]]
  /\ pendingTaskUids' = {}

PutDurably(c) ==
  /\ pc[c] \in {"state", "run"}
  /\ Answered(c)
  /\ Drain(c)
  /\ pc' = [pc EXCEPT ![c] = "wait"]
  /\ UNCHANGED <<server, store, ghosts>>

(* A put of the state or of the run is over, refused or not.  The handler   *)
(* stamps the run once its flush resolves, and exits when one rejects; the  *)
(* loop goes on from its flush, or, after an error, into its finally.       *)
Over(c, refused) ==
  pc' = IF c = "stamp" THEN [pc EXCEPT !["stamp"] = "done"]
        ELSE [pc EXCEPT !["flush"] = "idle",
                        !["stamp"] = IF @ # "flushing" THEN @
                                     ELSE IF refused THEN "done" ELSE "run"]

(* waitForTasks has seen the end of every task: a failed one is thrown. *)
Settle(c) ==
  /\ pc[c] = "wait"
  /\ \A u \in draining[c] : Settled(u)
  /\ reported' = reported \cup (draining[c] \cap Failed)
  /\ draining' = [draining EXCEPT ![c] = {}]
  /\ Over(c, draining[c] \cap Failed # {})
  /\ UNCHANGED <<server, pendingTaskUids, sent, store, orphaned, earlier, raced, kills>>

(* TASK_TIMEOUT_MS is over first: what was waited for is forgotten. *)
\* Mutant of Timeout: the tasks are dropped and nobody is told.
TimeoutSilently(c) ==
  /\ pc[c] = "wait"
  /\ \E u \in draining[c] : ~Settled(u)
  /\ draining' = [draining EXCEPT ![c] = {}]
  /\ Over(c, TRUE)
  /\ UNCHANGED <<server, pendingTaskUids, sent, store, ghosts>>

Timeout(c) ==
  /\ pc[c] = "wait"
  /\ \E u \in draining[c] : ~Settled(u)
  /\ reported' = reported \cup draining[c]
  /\ draining' = [draining EXCEPT ![c] = {}]
  /\ Over(c, TRUE)
  /\ UNCHANGED <<server, pendingTaskUids, sent, store, orphaned, earlier, raced, kills>>

-----------------------------------------------------------------------------
(* The process: it opens, records, flushes whenever it likes, is killed.    *)

(* DiscoveryStore.open reads the resume point, and then the corpus; a       *)
(* finished sweep begins again with every window.                           *)
OpenState ==
  /\ pc["flush"] = "closed"
  /\ completed' = IF saved = {Repos} THEN {} ELSE UNION saved
  /\ pc' = [pc EXCEPT !["flush"] = IF saved = {} THEN "idle" ELSE "opening",
                      !["stamp"] = "idle"]
  /\ UNCHANGED <<server, pendingTaskUids, sent, draining, known, pendingRepos, batch, left, ghosts>>

OpenCorpus ==
  /\ pc["flush"] = "opening"
  /\ known' = corpus
  /\ pc' = [pc EXCEPT !["flush"] = "idle"]
  /\ UNCHANGED <<server, pendingTaskUids, sent, draining, completed, pendingRepos, batch, left,
                 ghosts>>

(* The loop waits for its own flush, not for the handler's. *)
Record(r) ==
  /\ pc["flush"] = "idle" \/ pc["stamp"] = "flushing"
  /\ r \notin completed
  /\ completed' = completed \cup {r}
  /\ known' = known \cup {r}
  /\ pendingRepos' = pendingRepos \cup ({r} \ known)
  /\ raced' = IF pc["stamp"] = "flushing" THEN raced \cup {r} ELSE raced
  /\ UNCHANGED <<server, pendingTaskUids, pc, sent, draining, batch, left, reported, orphaned,
                 earlier, kills>>

Signal ==
  /\ pc["stamp"] = "idle" /\ pc["flush"] # "opening"
  /\ pc' = [pc EXCEPT !["stamp"] = "signalled"]
  /\ UNCHANGED <<server, pendingTaskUids, sent, draining, store, ghosts>>

(* The chain gives the turn to the loop, or to the handler once. *)
BeginFlush ==
  /\ pc["flush"] = "idle"
  /\ Len(tasks) < MaxTasks
  /\ batch' = pendingRepos /\ left' = pendingRepos
  /\ pendingRepos' = {}
  /\ \E handler \in {pc["stamp"], "flushing"} :
       /\ handler = "flushing" => pc["stamp"] = "signalled"
       /\ pc' = [pc EXCEPT !["flush"] = IF pendingRepos = {} THEN "state" ELSE "corpus",
                           !["stamp"] = handler]
  /\ UNCHANGED <<server, pendingTaskUids, sent, draining, known, completed, ghosts>>

Slices == {slice \in SUBSET left :
             \/ Cardinality(slice) = WriteBatch
             \/ slice = left /\ Cardinality(left) < WriteBatch}

PutCorpus ==
  /\ pc["flush"] = "corpus"
  /\ \E slice \in Slices : Send("flush", "repos", slice)

CorpusTaken ==
  /\ pc["flush"] = "corpus"
  /\ Answered("flush")
  /\ pendingTaskUids' = pendingTaskUids \cup sent["flush"]
  /\ left' = left \ UNION {tasks[u].docs : u \in sent["flush"]}
  /\ batch' = IF left' = {} THEN {} ELSE batch
  /\ pc' = [pc EXCEPT !["flush"] = IF left' = {} THEN "state" ELSE "corpus"]
  /\ UNCHANGED <<server, draining, known, completed, pendingRepos, ghosts>>

(* The request fails, whether or not the server had taken it: the put       *)
(* rejects, and the batch goes back.                                        *)
Refused(c) == /\ reported' = reported \cup sent[c]
              /\ sent' = [sent EXCEPT ![c] = {}]

\* Mutant of CorpusRefused: the error is logged and the flush goes on.
CorpusRefusedQuietly ==
  /\ pc["flush"] = "corpus"
  /\ Refused("flush")
  /\ pc' = [pc EXCEPT !["flush"] = "state"]
  /\ UNCHANGED <<server, pendingTaskUids, draining, store, orphaned, earlier, raced, kills>>

CorpusRefused ==
  /\ pc["flush"] = "corpus"
  /\ Refused("flush")
  /\ pendingRepos' = batch \cup pendingRepos
  /\ batch' = {} /\ left' = {}
  /\ Over("flush", TRUE)
  /\ UNCHANGED <<server, pendingTaskUids, draining, known, completed, orphaned, earlier,
                 raced, kills>>

PutState == pc["flush"] = "state" /\ Send("flush", "state", completed)

(* finishRun, in the shutdown handler: beside whatever the loop is doing. *)
PutRun == pc["stamp"] = "run" /\ Send("stamp", "run", {})

DurableRefused(c) ==
  /\ pc[c] \in {"state", "run"}
  /\ Refused(c)
  /\ Over(c, TRUE)
  /\ UNCHANGED <<server, pendingTaskUids, draining, store, orphaned, earlier, raced, kills>>

(* What the process knows of, or is being told of. *)
Watched == pendingTaskUids \cup UNION {sent[c] \cup draining[c] : c \in Callers}

(* The process ends: killed, or by the handler's exit.  The tasks it has     *)
(* sent stay in the queue.                                                  *)
Kill ==
  /\ pc["flush"] # "closed"
  /\ kills < MaxKills
  /\ kills' = kills + 1
  /\ orphaned' = orphaned \cup Watched
  /\ pendingTaskUids' = {}
  /\ sent' = [c \in Callers |-> {}] /\ draining' = [c \in Callers |-> {}]
  /\ earlier' = [c \in Callers |-> {}]
  /\ pc' = [c \in Callers |-> "closed"]
  /\ known' = {} /\ completed' = {} /\ pendingRepos' = {} /\ batch' = {} /\ left' = {}
  /\ UNCHANGED <<server, reported, raced>>

Next ==
  \/ Succeed \/ Fail
  \/ OpenState \/ OpenCorpus
  \/ /\ pc["stamp"] # "done"
     /\ \/ Signal \/ \E r \in Repos : Record(r)
        \/ BeginFlush \/ PutCorpus \/ CorpusTaken \/ CorpusRefused
        \/ PutState \/ PutRun
        \/ \E c \in Callers : PutDurably(c) \/ DurableRefused(c) \/ Settle(c) \/ Timeout(c)
  \/ Kill

Spec == Init /\ [][Next]_vars

-----------------------------------------------------------------------------
(* No write is forgotten: a task that has not succeeded is remembered by   *)
(* the handle, answered or waited for by a caller, was thrown at one, or    *)
(* belongs to a process that was killed (drain hands its tasks over before  *)
(* it waits for them).                                                      *)
NothingForgotten ==
  \A u \in Uids : tasks[u].status = "succeeded" \/ u \in Watched \cup reported \cup orphaned

(* The resume point claims no repository that is not in the corpus, but    *)
(* for those whose own task failed on the server, and those the loop       *)
(* recorded during a flush of the shutdown handler, whose state document    *)
(* may list them ahead of the corpus (writeAll takes the batch first and    *)
(* serialises the state last; the server keeps the order of the puts).      *)
StateFollowsCorpus == UNION saved \subseteq corpus \cup Lost \cup raced

(* The promise of a durable put, as two callers get it: when it resolves,  *)
(* every write through the handle that had resolved before is in its        *)
(* collection, unless a caller was told of it or the other one is still     *)
(* waiting for it (PutOptions.durable, drain).                              *)
Resolves(c) == /\ pc[c] = "wait" /\ pc'[c] \in {"idle", "done"}
               /\ draining[c] \cap reported' = {}

DurableConfirmsEarlier ==
  [][\A c \in Callers : Resolves(c) =>
       \A u \in earlier[c] : \/ tasks[u].status = "succeeded"
                             \/ u \in reported \cup orphaned
                             \/ \E d \in Callers \ {c} : u \in draining[d]]_vars
=============================================================================
