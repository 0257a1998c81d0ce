--------------------------- MODULE Stores_proofs ----------------------------
(***************************************************************************)
(* What TLAPS proves of the stores: of MeiliStore that no write is         *)
(* forgotten and that the resume point follows the corpus; of Explore that *)
(* no interrupted reset strands repositories; of FsStorage that it is the  *)
(* register its callers assume.                                            *)
(***************************************************************************)
EXTENDS MeiliStore, Explore, FsStorage, StoreReads, FiniteSetTheorems, SequenceTheorems,
  WellFoundedInduction, TLAPS

-----------------------------------------------------------------------------
(* MeiliStore, for any set of repositories, any batch and any number of    *)
(* tasks, failures and kills.  Every repository the process has seen is in *)
(* the corpus, in a task, or still to be put; a state task comes after the *)
(* corpus tasks of what it lists; tasks settle in their order.             *)

InTask(r, u) == tasks[u].kind = "repos" /\ r \in tasks[u].docs
Put(r) == r \in corpus \/ \E u \in Uids : InTask(r, u)

SucceededLanded ==
  \A u \in Uids : tasks[u].status = "succeeded" => \A r \in Repos : InTask(r, u) => r \in corpus

SettledInOrder == \A u \in Uids : \A v \in Uids : v < u /\ Settled(u) => Settled(v)

StateTasksFollow ==
  \A u \in Uids : tasks[u].kind = "state" =>
    \A r \in tasks[u].docs : r \in corpus \cup raced \/ \E v \in Uids : v < u /\ InTask(r, v)

SavedLanded ==
  \A s \in saved : \A r \in s :
    r \in corpus \cup raced \/ \E u \in Uids : tasks[u].status = "failed" /\ InTask(r, u)

SeenAccounted ==
  \A r \in known \cup completed : Put(r) \/ r \in pendingRepos \/ r \in left \/ r \in raced

FlushPhase ==
  /\ left \subseteq batch
  /\ pc["flush"] \in {"corpus", "state"} => pendingRepos \subseteq raced
  /\ pc["flush"] # "corpus" => left = {}
  /\ pc["flush"] \notin {"corpus", "state"} => sent["flush"] = {}
  /\ pc["flush"] = "corpus" => \A u \in sent["flush"] : tasks[u].kind = "repos"
  /\ pc["stamp"] # "run" => sent["stamp"] = {}

(* Only a caller that waits has tasks to wait for; callers open together.   *)
DrainedByWaiters ==
  /\ \A c \in Callers : pc[c] # "wait" => draining[c] = {}
  /\ pc["flush"] = "closed" => pc["stamp"] = "closed"

CorpusFirst == /\ SucceededLanded /\ SettledInOrder /\ StateTasksFollow
               /\ SavedLanded /\ SeenAccounted /\ FlushPhase

-----------------------------------------------------------------------------
(* The queue *)

LEMMA Appended ==
  ASSUME TypeOK, NEW kind \in {"repos", "state", "run"}, NEW payload \in SUBSET Repos,
         Enqueue(kind, payload)
  PROVE  /\ tasks' \in Seq(TaskSet)
         /\ Len(tasks) + 1 \in Nat /\ Len(tasks) + 1 \notin Uids
         /\ Uids' = Uids \cup {Len(tasks) + 1}
         /\ \A u \in Uids : tasks'[u] = tasks[u] /\ u < Len(tasks) + 1
         /\ tasks'[Len(tasks) + 1] = [kind |-> kind, docs |-> payload, status |-> "enqueued"]
BY DEF TypeOK, Enqueue, Uids, TaskSet, Statuses

LEMMA QueueTyped == ASSUME TypeOK, NEW u \in Uids PROVE tasks[u] \in TaskSet
BY ElementOfSeq DEF TypeOK, Uids

LEMMA Settling ==
  ASSUME TypeOK, NEW u \in Uids, NEW status \in Statuses,
         tasks' = [tasks EXCEPT ![u].status = status]
  PROVE  /\ tasks' \in Seq(TaskSet)
         /\ Uids' = Uids
         /\ \A v \in Uids : /\ tasks'[v].kind = tasks[v].kind
                            /\ tasks'[v].docs = tasks[v].docs
                            /\ tasks'[v].status = IF v = u THEN status ELSE tasks[v].status
<1> DEFINE t == [tasks[u] EXCEPT !.status = status]
<1>1. tasks[u] \in TaskSet
  BY QueueTyped
<1>2. /\ t \in TaskSet
      /\ t.kind = tasks[u].kind /\ t.docs = tasks[u].docs /\ t.status = status
  BY <1>1 DEF TaskSet
<1>3. tasks \in Seq(TaskSet) /\ Uids = 1..Len(tasks)
  BY DEF TypeOK, Uids
<1>4. tasks' = [tasks EXCEPT ![u] = t]
  OBVIOUS
<1> HIDE DEF t
<1>5. /\ tasks' \in Seq(TaskSet)
      /\ Len(tasks') = Len(tasks)
      /\ \A v \in 1..Len(tasks) : tasks'[v] = IF v = u THEN t ELSE tasks[v]
  BY <1>2, <1>3, <1>4, ExceptSeq
<1>6. QED
  BY <1>2, <1>3, <1>5 DEF Uids

LEMMA UidsAreNaturals == ASSUME TypeOK PROVE Uids \subseteq Nat
BY DEF TypeOK, Uids

LEMMA QueueUnchanged == ASSUME tasks' = tasks PROVE Uids' = Uids
BY DEF Uids

-----------------------------------------------------------------------------
(* Types *)

LEMMA TypeInit == Init => TypeOK
BY DEF Init, TypeOK, Uids, Callers, Places, Statuses

LEMMA TypeStep == TypeOK /\ [Next]_vars => TypeOK'
<1> SUFFICES ASSUME TypeOK, [Next]_vars PROVE TypeOK'
  OBVIOUS
<1> USE DEF Callers, Places
<1>1. CASE Succeed
  <2>1. PICK u \in Next1st :
          /\ tasks' = [tasks EXCEPT ![u].status = "succeeded"]
          /\ corpus' = IF tasks[u].kind = "repos" THEN corpus \cup tasks[u].docs ELSE corpus
          /\ saved' = IF tasks[u].kind = "state" THEN {tasks[u].docs} ELSE saved
    BY <1>1 DEF Succeed
  <2>2. u \in Uids /\ tasks[u] \in TaskSet
    BY <2>1, QueueTyped DEF Next1st
  <2>3. tasks' \in Seq(TaskSet) /\ Uids' = Uids
    BY <2>1, <2>2, Settling DEF Statuses
  <2>4. corpus' \in SUBSET Repos /\ saved' \in SUBSET SUBSET Repos
    BY <2>1, <2>2 DEF TypeOK, TaskSet
  <2>5. QED
    BY <1>1, <2>3, <2>4 DEF Succeed, TypeOK, TaskSet, store, ghosts
<1>2. CASE Fail
  <2>1. PICK u \in Next1st : tasks' = [tasks EXCEPT ![u].status = "failed"]
    BY <1>2 DEF Fail
  <2>2. tasks' \in Seq(TaskSet) /\ Uids' = Uids
    BY <2>1, Settling DEF Statuses, Next1st
  <2>3. QED
    BY <1>2, <2>2 DEF Fail, TypeOK, TaskSet, store, ghosts
<1>3. ASSUME NEW c \in Callers, NEW kind \in {"repos", "state", "run"}, NEW payload \in SUBSET Repos,
             Send(c, kind, payload)
      PROVE  TypeOK'
  <2>1. tasks' \in Seq(TaskSet) /\ Uids' = Uids \cup {Len(tasks) + 1}
    BY <1>3, Appended DEF Send
  <2>2. sent' \in [Callers -> SUBSET Uids'] /\ earlier' \in [Callers -> SUBSET Uids']
    BY <1>3, <2>1 DEF Send, TypeOK
  <2>3. QED
    BY <1>3, <2>1, <2>2 DEF Send, TypeOK, TaskSet, store
<1>4. CASE PutCorpus
  BY <1>3, <1>4 DEF PutCorpus, Slices, TypeOK
<1>5. CASE PutState \/ PutRun
  BY <1>3, <1>5 DEF PutState, PutRun, TypeOK
<1>6. CASE OpenState
  <2>1. completed' \subseteq Repos
    BY <1>6 DEF OpenState, TypeOK
  <2>2. QED
    BY <1>6, <2>1, QueueUnchanged DEF OpenState, TypeOK, server, ghosts
<1>7. CASE OpenCorpus
  BY <1>7, QueueUnchanged DEF OpenCorpus, TypeOK, server, ghosts
<1>8. ASSUME NEW r \in Repos, Record(r) PROVE TypeOK'
  BY <1>8, QueueUnchanged DEF Record, TypeOK, server, ghosts
<1>9. CASE BeginFlush
  BY <1>9, QueueUnchanged DEF BeginFlush, TypeOK, server, ghosts
<1>10. CASE CorpusTaken
  BY <1>10, QueueUnchanged DEF CorpusTaken, Answered, TypeOK, server, ghosts
<1>11. CASE CorpusRefused
  BY <1>11, QueueUnchanged DEF CorpusRefused, Refused, TypeOK, server, Over
<1>12. CASE Signal
  BY <1>12, QueueUnchanged DEF Signal, TypeOK, server, store, ghosts
<1>13. ASSUME NEW c \in Callers, PutDurably(c) PROVE TypeOK'
  BY <1>13, QueueUnchanged DEF PutDurably, Answered, Drain, TypeOK, server, store, ghosts
<1>14. ASSUME NEW c \in Callers, DurableRefused(c) PROVE TypeOK'
  BY <1>14, QueueUnchanged DEF DurableRefused, Refused, TypeOK, server, store, Over
<1>15. ASSUME NEW c \in Callers, Settle(c) \/ Timeout(c) PROVE TypeOK'
  BY <1>15, QueueUnchanged DEF Settle, Timeout, Over, TypeOK, server, store
<1>16. CASE Kill
  <2>1. orphaned' \subseteq Uids
    BY <1>16 DEF Kill, Watched, TypeOK
  <2>2. QED
    BY <1>16, <2>1, QueueUnchanged DEF Kill, TypeOK, server
<1>17. CASE UNCHANGED vars
  BY <1>17, QueueUnchanged DEF vars, TypeOK, server, store, ghosts
<1>18. QED
  BY <1>1, <1>2, <1>4, <1>5, <1>6, <1>7, <1>8, <1>9, <1>10, <1>11, <1>12, <1>13, <1>14, <1>15,
     <1>16, <1>17 DEF Next

(* Every variable keeps its type, ids of tasks being places in the queue    *)
(* (MeilisearchDataStore, DiscoveryStore).                                  *)
THEOREM MeiliTypeCorrect == Spec => []TypeOK
BY TypeInit, TypeStep, PTL DEF Spec

-----------------------------------------------------------------------------
(* No write is forgotten *)

(* A task stays known when its caller still has it or hands it over. *)
LEMMA Handed ==
  ASSUME TypeOK, NothingForgotten, tasks' = tasks,
         Watched \cup reported \cup orphaned
           \subseteq Watched' \cup reported' \cup orphaned' \cup
                     {u \in Uids : tasks[u].status = "succeeded"}
  PROVE  NothingForgotten'
BY QueueUnchanged DEF NothingForgotten

LEMMA DrainedStep == TypeOK /\ DrainedByWaiters /\ [Next]_vars => DrainedByWaiters'
<1> SUFFICES ASSUME TypeOK, DrainedByWaiters, [Next]_vars PROVE DrainedByWaiters'
  OBVIOUS
<1>0. /\ draining \in [Callers -> SUBSET Uids]
      /\ pc \in [Callers -> Places]
  BY DEF TypeOK
<1> USE DEF DrainedByWaiters, Callers, Places
<1>1. CASE UNCHANGED <<pc, draining>>
  BY <1>1
<1>2. CASE Succeed \/ Fail \/ PutCorpus \/ PutState \/ PutRun \/ (\E r \in Repos : Record(r))
  BY <1>1, <1>2 DEF Succeed, Fail, PutCorpus, PutState, PutRun, Send, Record
<1>3. CASE OpenState \/ OpenCorpus \/ BeginFlush \/ CorpusTaken \/ CorpusRefused \/ Signal
  BY <1>0, <1>3 DEF OpenState, OpenCorpus, BeginFlush, CorpusTaken, CorpusRefused, Signal, Over
<1>4. ASSUME NEW c \in Callers, PutDurably(c) \/ DurableRefused(c) \/ Settle(c) \/ Timeout(c)
      PROVE  DrainedByWaiters'
  BY <1>0, <1>4 DEF PutDurably, DurableRefused, Drain, Settle, Timeout, Over
<1>5. CASE Kill
  BY <1>5 DEF Kill
<1>6. QED
  BY <1>1, <1>2, <1>3, <1>4, <1>5 DEF Next, vars

LEMMA ForgottenStep ==
  TypeOK /\ DrainedByWaiters /\ NothingForgotten /\ [Next]_vars => NothingForgotten'
<1> SUFFICES ASSUME TypeOK, DrainedByWaiters, NothingForgotten, [Next]_vars
             PROVE  NothingForgotten'
  OBVIOUS
<1> USE DEF Callers, Places
<1>0. /\ sent \in [Callers -> SUBSET Uids]
      /\ draining \in [Callers -> SUBSET Uids]
  BY DEF TypeOK
<1>1. ASSUME NEW u \in Uids, NEW status \in Statuses, tasks' = [tasks EXCEPT ![u].status = status],
             status = "succeeded" \/ tasks[u].status # "succeeded",
             UNCHANGED <<pendingTaskUids, sent, draining, reported, orphaned>>
      PROVE  NothingForgotten'
  <2>1. UNCHANGED <<pendingTaskUids, sent, draining>>
    BY <1>1
  <2>2. Watched' = Watched
    BY <2>1 DEF Watched
  <2>3. /\ Uids' = Uids
        /\ \A v \in Uids : tasks'[v].status = IF v = u THEN status ELSE tasks[v].status
    BY <1>1, Settling
  <2>4. reported' = reported /\ orphaned' = orphaned
    BY <1>1
  <2>5. status = "succeeded" \/ tasks[u].status # "succeeded"
    BY <1>1
  <2>6. QED
    BY <2>2, <2>3, <2>4, <2>5 DEF NothingForgotten
<1>2. CASE Succeed
  BY <1>1, <1>2 DEF Succeed, Next1st, Statuses, ghosts
<1>3. CASE Fail
  BY <1>1, <1>3 DEF Fail, Next1st, Settled, Statuses, ghosts
<1>4. ASSUME NEW c \in Callers, NEW kind \in {"repos", "state", "run"}, NEW payload \in SUBSET Repos,
             Send(c, kind, payload)
      PROVE  NothingForgotten'
  <2>1. /\ Uids' = Uids \cup {Len(tasks) + 1}
        /\ \A u \in Uids : tasks'[u] = tasks[u]
    BY <1>4, Appended DEF Send
  <2>2. Watched' = Watched \cup {Len(tasks) + 1}
    BY <1>0, <1>4 DEF Send, Watched
  <2>3. reported' = reported /\ orphaned' = orphaned
    BY <1>4 DEF Send
  <2>4. QED
    BY <2>1, <2>2, <2>3 DEF NothingForgotten
<1>5. CASE PutCorpus \/ PutState \/ PutRun
  BY <1>4, <1>5 DEF PutCorpus, PutState, PutRun, Slices, TypeOK
<1>6. CASE CorpusTaken
  <2>1. Watched \subseteq Watched'
    BY <1>0, <1>6 DEF CorpusTaken, Answered, Watched
  <2>2. QED
    BY <1>6, <2>1, Handed DEF CorpusTaken, server, ghosts
<1>7. ASSUME NEW c \in Callers, Refused(c),
             UNCHANGED <<tasks, pendingTaskUids, draining, orphaned>>
      PROVE  NothingForgotten'
  <2>1. Watched \cup reported \subseteq Watched' \cup reported'
    BY <1>0, <1>7 DEF Refused, Watched
  <2>2. QED
    BY <1>7, <2>1, Handed
<1>8. CASE CorpusRefused
  BY <1>7, <1>8 DEF CorpusRefused, server
<1>9. ASSUME NEW c \in Callers, DurableRefused(c) PROVE NothingForgotten'
  BY <1>7, <1>9 DEF DurableRefused, server
<1>10. ASSUME NEW c \in Callers, PutDurably(c) PROVE NothingForgotten'
  <2>1. draining[c] = {}
    BY <1>10 DEF PutDurably, DrainedByWaiters
  <2>2. Watched \subseteq Watched'
    BY <1>0, <1>10, <2>1 DEF PutDurably, Answered, Drain, Watched
  <2>3. QED
    BY <1>10, <2>2, Handed DEF PutDurably, server, ghosts
<1>11. ASSUME NEW c \in Callers, Timeout(c) PROVE NothingForgotten'
  <2>1. Watched \cup reported \subseteq Watched' \cup reported'
    BY <1>0, <1>11 DEF Timeout, Watched
  <2>2. QED
    BY <1>11, <2>1, Handed DEF Timeout, server
<1>12. ASSUME NEW c \in Callers, Settle(c) PROVE NothingForgotten'
  <2>1. \A u \in draining[c] : u \in reported' \/ tasks[u].status = "succeeded"
    <3> SUFFICES ASSUME NEW u \in draining[c]
                 PROVE  u \in reported' \/ tasks[u].status = "succeeded"
      OBVIOUS
    <3>1. u \in Uids /\ tasks[u] \in TaskSet
      BY <1>0, QueueTyped
    <3>2. QED
      BY <1>12, <3>1 DEF Settle, Settled, Failed, TaskSet, Statuses
  <2>2. Watched \cup reported \subseteq Watched' \cup reported' \cup draining[c]
    BY <1>0, <1>12 DEF Settle, Watched
  <2>3. draining[c] \subseteq Uids
    BY <1>0
  <2>4. QED
    BY <1>12, <2>1, <2>2, <2>3, Handed DEF Settle, server
<1>13. CASE Kill
  BY <1>13, Handed DEF Kill, server
<1>14. CASE OpenState \/ OpenCorpus \/ BeginFlush \/ Signal \/ (\E r \in Repos : Record(r))
            \/ UNCHANGED vars
  <2>1. UNCHANGED <<tasks, pendingTaskUids, sent, draining, reported, orphaned>>
    BY <1>14 DEF OpenState, OpenCorpus, BeginFlush, Signal, Record, vars, server, ghosts
  <2>2. QED
    BY <2>1, Handed DEF Watched
<1>15. QED
  BY <1>2, <1>3, <1>5, <1>6, <1>8, <1>9, <1>10, <1>11, <1>12, <1>13, <1>14 DEF Next

(* NothingForgotten, for every instance (MeilisearchDataStore.put, drain).  *)
THEOREM NoWriteIsForgotten == Spec => []NothingForgotten
<1>1. Init => TypeOK /\ DrainedByWaiters /\ NothingForgotten
  BY TypeInit DEF Init, DrainedByWaiters, NothingForgotten, Uids, Callers
<1>2. TypeOK /\ DrainedByWaiters /\ NothingForgotten /\ [Next]_vars
        => (TypeOK /\ DrainedByWaiters /\ NothingForgotten)'
  BY TypeStep, DrainedStep, ForgottenStep
<1>3. QED
  BY <1>1, <1>2, PTL DEF Spec

-----------------------------------------------------------------------------
(* The resume point follows the corpus *)

(* A task settles: the queue keeps what it holds, and the corpus grows. *)
LEMMA CorpusSettles ==
  ASSUME TypeOK, CorpusFirst, NEW u \in Next1st, NEW status \in {"succeeded", "failed"},
         tasks' = [tasks EXCEPT ![u].status = status],
         corpus' = IF tasks[u].kind = "repos" /\ status = "succeeded"
                   THEN corpus \cup tasks[u].docs ELSE corpus,
         saved' = IF tasks[u].kind = "state" /\ status = "succeeded"
                  THEN {tasks[u].docs} ELSE saved,
         UNCHANGED <<pc, sent, store, raced>>
  PROVE  CorpusFirst'
<1>1. /\ u \in Uids /\ ~Settled(u)
      /\ \A v \in Uids : v < u => Settled(v)
  BY DEF Next1st, Uids, TypeOK
<1>2. /\ Uids' = Uids
      /\ \A v \in Uids : /\ tasks'[v].kind = tasks[v].kind
                         /\ tasks'[v].docs = tasks[v].docs
                         /\ tasks'[v].status = IF v = u THEN status ELSE tasks[v].status
  <2>1. status \in Statuses
    BY DEF Statuses
  <2>2. QED
    BY <1>1, <2>1, Settling
<1>3. /\ \A v \in Uids : \A r \in Repos : InTask(r, v)' <=> InTask(r, v)
      /\ \A v \in Uids : Settled(v)' <=> Settled(v) \/ v = u
      /\ corpus \subseteq corpus'
  BY <1>2 DEF InTask, Settled
<1>4. /\ Uids \subseteq Nat
      /\ \A v \in Uids : tasks[v] \in TaskSet
      /\ known \cup completed \subseteq Repos
  BY UidsAreNaturals, QueueTyped DEF TypeOK
<1>5. SucceededLanded'
  <2> SUFFICES ASSUME NEW v \in Uids, tasks'[v].status = "succeeded",
                      NEW r \in Repos, InTask(r, v)
               PROVE  r \in corpus'
    BY <1>2, <1>3 DEF SucceededLanded
  <2>1. CASE v = u
    BY <1>2, <2>1 DEF InTask
  <2>2. CASE v # u
    BY <1>2, <1>3, <2>2 DEF CorpusFirst, SucceededLanded
  <2>3. QED
    BY <2>1, <2>2
<1>6. SettledInOrder'
  BY <1>1, <1>2, <1>3 DEF CorpusFirst, SettledInOrder
<1>7. StateTasksFollow'
  <2> SUFFICES ASSUME NEW v \in Uids, tasks[v].kind = "state", NEW r \in tasks[v].docs
               PROVE  r \in corpus' \cup raced \/ \E w \in Uids : w < v /\ InTask(r, w)'
    BY <1>2 DEF StateTasksFollow
  <2>1. r \in Repos
    BY <1>4 DEF TaskSet
  <2>2. r \in corpus \cup raced \/ \E w \in Uids : w < v /\ InTask(r, w)
    BY DEF CorpusFirst, StateTasksFollow
  <2>3. QED
    BY <1>3, <2>1, <2>2
<1>8. SavedLanded'
  <2> SUFFICES ASSUME NEW s \in saved', NEW r \in s
               PROVE  \/ r \in corpus' \cup raced
                      \/ \E v \in Uids : tasks'[v].status = "failed" /\ InTask(r, v)'
    BY <1>2 DEF SavedLanded
  <2>1. CASE s \in saved
    <3>1. r \in Repos
      BY <2>1 DEF TypeOK
    <3>2. r \in corpus \cup raced \/ \E v \in Uids : tasks[v].status = "failed" /\ InTask(r, v)
      BY <2>1 DEF CorpusFirst, SavedLanded
    <3>3. \A v \in Uids : tasks[v].status = "failed" => tasks'[v].status = "failed"
      BY <1>1, <1>2 DEF Settled
    <3>4. QED
      BY <1>3, <3>1, <3>2, <3>3
  <2>2. CASE tasks[u].kind = "state" /\ status = "succeeded" /\ s = tasks[u].docs
    <3>1. r \in Repos
      BY <1>1, <1>4, <2>2 DEF TaskSet
    <3>2. r \in corpus \cup raced \/ \E v \in Uids : v < u /\ InTask(r, v)
      BY <1>1, <2>2 DEF CorpusFirst, StateTasksFollow
    <3>3. ASSUME NEW v \in Uids, v < u, InTask(r, v)
          PROVE  r \in corpus \/ (tasks[v].status = "failed" /\ v # u)
      <4>1. Settled(v) /\ v # u
        BY <1>1, <3>3
      <4>2. tasks[v].status \in {"succeeded", "failed"}
        BY <1>4, <4>1 DEF Settled, TaskSet, Statuses
      <4>3. QED
        BY <3>1, <3>3, <4>1, <4>2 DEF CorpusFirst, SucceededLanded
    <3>4. QED
      BY <1>2, <1>3, <3>1, <3>2, <3>3
  <2>3. QED
    BY <2>1, <2>2
<1>9. SeenAccounted'
  <2>1. \A r \in Repos : Put(r) => Put(r)'
    BY <1>2, <1>3 DEF Put
  <2>2. QED
    BY <1>4, <2>1 DEF CorpusFirst, SeenAccounted, store
<1>10. FlushPhase'
  <2>1. sent["flush"] \subseteq Uids
    BY DEF TypeOK, Callers
  <2>2. QED
    BY <1>2, <2>1 DEF CorpusFirst, FlushPhase, store
<1>11. QED
  BY <1>5, <1>6, <1>7, <1>8, <1>9, <1>10 DEF CorpusFirst

(* A task joins the queue. *)
LEMMA CorpusSent ==
  ASSUME TypeOK, CorpusFirst, NEW c \in Callers, NEW kind \in {"repos", "state", "run"},
         NEW payload \in SUBSET Repos, Send(c, kind, payload),
         c = "flush" => \/ pc["flush"] = "state"
                        \/ pc["flush"] = "corpus" /\ kind = "repos",
         c = "stamp" => pc["stamp"] = "run",
         kind = "state" => \A r \in payload : Put(r) \/ r \in raced
  PROVE  CorpusFirst'
<1>1. PICK n \in Nat :
        /\ n = Len(tasks) + 1 /\ n \notin Uids
        /\ Uids' = Uids \cup {n}
        /\ \A u \in Uids : tasks'[u] = tasks[u] /\ u < n
        /\ tasks'[n] = [kind |-> kind, docs |-> payload, status |-> "enqueued"]
  BY Appended DEF Send
<1>2. UNCHANGED <<corpus, saved, pc, store, raced>>
  BY DEF Send
<1>3. /\ Uids \subseteq Nat
      /\ \A u \in Uids : tasks[u] \in TaskSet
      /\ known \cup completed \subseteq Repos
  BY UidsAreNaturals, QueueTyped DEF TypeOK
<1>4. /\ \A u \in Uids : \A r \in Repos : InTask(r, u)' <=> InTask(r, u)
      /\ \A u \in Uids : Settled(u)' <=> Settled(u)
      /\ ~Settled(n)'
  BY <1>1 DEF InTask, Settled
<1>5. SucceededLanded'
  BY <1>1, <1>2, <1>4 DEF CorpusFirst, SucceededLanded
<1>6. SettledInOrder'
  <2> SUFFICES ASSUME NEW u \in Uids', NEW v \in Uids', v < u, Settled(u)'
      PROVE  Settled(v)'
      BY DEF SettledInOrder
  <2>1. u \in Uids /\ Settled(u)
    BY <1>1, <1>4
  <2>2. v \in Uids
    <3>1. v \in Uids \cup {n} /\ u \in Nat /\ u < n
      BY <1>1, <1>3, <2>1
    <3>2. v # n
      BY <3>1
    <3> QED BY <3>1, <3>2
  <2>3. Settled(v)
    BY <2>1, <2>2 DEF CorpusFirst, SettledInOrder
  <2> QED BY <1>4, <2>2, <2>3
<1>7. StateTasksFollow'
  <2> SUFFICES ASSUME NEW u \in Uids', tasks'[u].kind = "state", NEW r \in tasks'[u].docs
               PROVE  r \in corpus \cup raced \/ \E v \in Uids : v < u /\ InTask(r, v)'
    BY <1>1, <1>2 DEF StateTasksFollow
  <2>1. CASE u \in Uids
    <3>1. r \in Repos /\ r \in tasks[u].docs /\ tasks[u].kind = "state"
      BY <1>1, <1>3, <2>1 DEF TaskSet
    <3>2. QED
      BY <1>4, <2>1, <3>1 DEF CorpusFirst, StateTasksFollow
  <2>2. CASE u = n
    <3>1. r \in Repos /\ (Put(r) \/ r \in raced)
      BY <1>1, <2>2
    <3>2. QED
      BY <1>1, <1>4, <2>2, <3>1 DEF Put
  <2>3. QED
    BY <1>1, <2>1, <2>2
<1>8. SavedLanded'
  <2>1. UNION saved \subseteq Repos
    BY DEF TypeOK
  <2>2. \A u \in Uids : tasks'[u].status = tasks[u].status
    BY <1>1
  <2>3. QED
    BY <1>1, <1>2, <1>4, <2>1, <2>2 DEF CorpusFirst, SavedLanded
<1>9. SeenAccounted'
  <2>1. \A r \in Repos : Put(r) => Put(r)'
    BY <1>1, <1>2, <1>4 DEF Put
  <2>2. QED
    BY <1>2, <1>3, <2>1 DEF CorpusFirst, SeenAccounted, store
<1>10. FlushPhase'
  <2>1. /\ sent \in [Callers -> SUBSET Uids] /\ sent' = [sent EXCEPT ![c] = {n}]
    BY <1>1 DEF TypeOK, Send
  <2>2. \A u \in Uids : tasks'[u].kind = tasks[u].kind
    BY <1>1
  <2>3. tasks'[n].kind = kind
    BY <1>1
  <2>4. QED
    BY <1>2, <2>1, <2>2, <2>3 DEF CorpusFirst, FlushPhase, Callers, store
<1>11. QED
  BY <1>5, <1>6, <1>7, <1>8, <1>9, <1>10 DEF CorpusFirst

(* The server and what the process has seen stand still. *)
LEMMA CorpusStands ==
  ASSUME TypeOK, CorpusFirst, UNCHANGED server, raced \subseteq raced'
  PROVE  /\ SucceededLanded' /\ SettledInOrder' /\ StateTasksFollow' /\ SavedLanded'
         /\ \A r \in Repos : Put(r)' <=> Put(r)
<1>1. UNCHANGED <<tasks, corpus, saved>> /\ Uids' = Uids
  BY QueueUnchanged DEF server
<1>2. QED
  BY <1>1 DEF CorpusFirst, SucceededLanded, SettledInOrder, StateTasksFollow, SavedLanded, Put,
              InTask, Settled

LEMMA CorpusStep == TypeOK /\ DrainedByWaiters /\ CorpusFirst /\ [Next]_vars => CorpusFirst'
<1> SUFFICES ASSUME TypeOK, DrainedByWaiters, CorpusFirst, [Next]_vars PROVE CorpusFirst'
  OBVIOUS
<1>0. /\ pc \in [Callers -> Places]
      /\ sent \in [Callers -> SUBSET Uids]
      /\ known \subseteq Repos /\ completed \subseteq Repos
      /\ SeenAccounted /\ FlushPhase
  BY DEF TypeOK, CorpusFirst
<1> USE DEF Callers, Places
<1>1. CASE Succeed
  <2>1. PICK u \in Next1st :
          /\ tasks' = [tasks EXCEPT ![u].status = "succeeded"]
          /\ corpus' = IF tasks[u].kind = "repos" THEN corpus \cup tasks[u].docs ELSE corpus
          /\ saved' = IF tasks[u].kind = "state" THEN {tasks[u].docs} ELSE saved
    BY <1>1 DEF Succeed
  <2>2. UNCHANGED <<pc, sent, store, raced>>
    BY <1>1 DEF Succeed, ghosts
  <2>3. QED
    BY <2>1, <2>2, CorpusSettles
<1>2. CASE Fail
  <2>1. PICK u \in Next1st : tasks' = [tasks EXCEPT ![u].status = "failed"]
    BY <1>2 DEF Fail
  <2>2. UNCHANGED <<corpus, saved, pc, sent, store, raced>>
    BY <1>2 DEF Fail, ghosts
  <2>3. QED
    BY <2>1, <2>2, CorpusSettles
<1>3. CASE PutCorpus
  <2>1. PICK slice \in SUBSET Repos : Send("flush", "repos", slice)
    BY <1>3 DEF PutCorpus, Slices, TypeOK
  <2>2. QED
    BY <1>3, <2>1, CorpusSent DEF PutCorpus
<1>4. CASE PutState
  <2>1. \A r \in completed : Put(r) \/ r \in raced
    BY <1>0, <1>4 DEF PutState, SeenAccounted, FlushPhase
  <2>2. QED
    BY <1>0, <1>4, <2>1, CorpusSent DEF PutState
<1>5. CASE PutRun
  BY <1>5, CorpusSent DEF PutRun
<1>6. ASSUME UNCHANGED server, raced \subseteq raced', SeenAccounted', FlushPhase' PROVE CorpusFirst'
  BY <1>6, CorpusStands DEF CorpusFirst
<1>7. ASSUME UNCHANGED <<server, known, completed>>, raced' = raced,
             pendingRepos \cup left \subseteq pendingRepos' \cup left' \cup {r \in Repos : Put(r)}
      PROVE  SeenAccounted'
  BY <1>0, <1>7, CorpusStands DEF SeenAccounted
<1>8. CASE OpenState
  <2>1. completed' \subseteq UNION saved
    BY <1>8 DEF OpenState
  <2>2. \A r \in UNION saved : r \in Repos /\ (Put(r) \/ r \in raced)
    BY DEF CorpusFirst, SavedLanded, Put, TypeOK
  <2>3. SeenAccounted'
    BY <1>0, <1>8, <2>1, <2>2, CorpusStands DEF OpenState, SeenAccounted, ghosts
  <2>4. FlushPhase'
    BY <1>0, <1>8 DEF OpenState, FlushPhase, DrainedByWaiters, server
  <2>5. QED
    BY <1>6, <1>8, <2>3, <2>4 DEF OpenState, ghosts
<1>9. CASE OpenCorpus
  <2>1. \A r \in corpus : r \in Repos /\ Put(r)
    BY DEF Put, TypeOK
  <2>2. SeenAccounted'
    BY <1>0, <1>9, <2>1, CorpusStands DEF OpenCorpus, SeenAccounted, ghosts
  <2>3. FlushPhase'
    BY <1>0, <1>9 DEF OpenCorpus, FlushPhase, server
  <2>4. QED
    BY <1>6, <1>9, <2>2, <2>3 DEF OpenCorpus, ghosts
<1>10. ASSUME NEW r \in Repos, Record(r) PROVE CorpusFirst'
  <2>1. SeenAccounted'
    BY <1>0, <1>10, CorpusStands DEF Record, SeenAccounted
  <2>2. FlushPhase'
    BY <1>0, <1>10 DEF Record, FlushPhase, server
  <2>3. QED
    BY <1>6, <1>10, <2>1, <2>2 DEF Record
<1>11. CASE BeginFlush
  <2>1. SeenAccounted'
    BY <1>0, <1>7, <1>11 DEF BeginFlush, FlushPhase, ghosts
  <2>2. FlushPhase'
    BY <1>0, <1>11 DEF BeginFlush, FlushPhase, server
  <2>3. QED
    BY <1>6, <1>11, <2>1, <2>2 DEF BeginFlush, ghosts
<1>12. CASE CorpusTaken
  <2>1. \A r \in left : r \in left' \/ (r \in Repos /\ Put(r))
    <3>1. \A u \in sent["flush"] : u \in Uids /\ tasks[u].kind = "repos"
      BY <1>0, <1>12 DEF CorpusTaken, FlushPhase
    <3>2. \A r \in left : r \in left' \/ \E u \in sent["flush"] : r \in tasks[u].docs
      <4>1. left' = left \ UNION {tasks[u].docs : u \in sent["flush"]}
        BY <1>12 DEF CorpusTaken
      <4>2. QED
        BY <4>1
    <3>3. left \subseteq Repos
      BY DEF TypeOK
    <3>4. QED
      <4> SUFFICES ASSUME NEW r \in left, r \notin left' PROVE r \in Repos /\ Put(r)
        OBVIOUS
      <4>1. PICK u \in sent["flush"] : r \in tasks[u].docs
        BY <3>2
      <4>2. u \in Uids /\ tasks[u].kind = "repos"
        BY <3>1
      <4>3. QED
        BY <3>3, <4>1, <4>2 DEF Put, InTask
  <2>2. SeenAccounted'
    BY <1>7, <1>12, <2>1 DEF CorpusTaken, ghosts
  <2>3. FlushPhase'
    BY <1>0, <1>12 DEF CorpusTaken, Answered, FlushPhase, server, ghosts
  <2>4. QED
    BY <1>6, <1>12, <2>2, <2>3 DEF CorpusTaken, ghosts
<1>13. CASE CorpusRefused
  <2>1. SeenAccounted'
    BY <1>0, <1>7, <1>13 DEF CorpusRefused, FlushPhase
  <2>2. FlushPhase'
    BY <1>0, <1>13 DEF CorpusRefused, Refused, Over, FlushPhase, server
  <2>3. QED
    BY <1>6, <1>13, <2>1, <2>2 DEF CorpusRefused
<1>14. CASE Signal
  <2>1. SeenAccounted' /\ FlushPhase'
    BY <1>0, <1>7, <1>14 DEF Signal, FlushPhase, server, store, ghosts
  <2>2. QED
    BY <1>6, <1>14, <2>1 DEF Signal, ghosts
<1>15. ASSUME NEW c \in Callers, PutDurably(c) \/ DurableRefused(c) \/ Settle(c) \/ Timeout(c)
       PROVE  CorpusFirst'
  <2>1. UNCHANGED <<server, store, raced>>
    BY <1>15 DEF PutDurably, DurableRefused, Settle, Timeout, ghosts
  <2>2. SeenAccounted'
    BY <1>7, <2>1 DEF store
  <2>3. FlushPhase'
    BY <1>0, <1>15, <2>1 DEF PutDurably, Answered, DurableRefused, Refused, Settle, Timeout,
                             Over, FlushPhase, server, store
  <2>4. QED
    BY <1>6, <2>1, <2>2, <2>3
<1>16. CASE Kill
  <2>1. SeenAccounted' /\ FlushPhase'
    BY <1>16 DEF Kill, SeenAccounted, FlushPhase
  <2>2. QED
    BY <1>6, <1>16, <2>1 DEF Kill
<1>17. CASE UNCHANGED vars
  <2>1. SeenAccounted' /\ FlushPhase'
    BY <1>0, <1>7, <1>17 DEF vars, FlushPhase, server, store, ghosts
  <2>2. QED
    BY <1>6, <1>17, <2>1 DEF vars, ghosts
<1>18. QED
  BY <1>1, <1>2, <1>3, <1>4, <1>5, <1>8, <1>9, <1>10, <1>11, <1>12, <1>13, <1>14, <1>15, <1>16,
     <1>17 DEF Next

(* StateFollowsCorpus, for every instance: writeAll puts the resume point    *)
(* last, and a batch that was refused goes back (DiscoveryStore.writeAll).   *)
(* What the loop records while the handler flushes is excepted: the state is *)
(* serialised after the corpus batches were taken, and lists that too.       *)
THEOREM ResumePointFollows == Spec => []StateFollowsCorpus
<1>1. Init => TypeOK /\ DrainedByWaiters /\ CorpusFirst
  BY TypeInit DEF Init, DrainedByWaiters, CorpusFirst, SucceededLanded, SettledInOrder, StateTasksFollow,
                  SavedLanded, SeenAccounted, FlushPhase, Uids, Callers
<1>2. TypeOK /\ DrainedByWaiters /\ CorpusFirst /\ [Next]_vars
        => (TypeOK /\ DrainedByWaiters /\ CorpusFirst)'
  BY TypeStep, DrainedStep, CorpusStep
<1>3. TypeOK /\ CorpusFirst => StateFollowsCorpus
  BY DEF CorpusFirst, SavedLanded, StateFollowsCorpus, Lost, Failed, InTask
<1>4. QED
  BY <1>1, <1>2, <1>3, PTL DEF Spec

-----------------------------------------------------------------------------
(* What a durable put confirms *)

(* A task whose put had resolved is not in flight again, and the one who    *)
(* waits has taken it over from the handle.                                 *)
EarlierHandedOver ==
  /\ \A c \in Callers : \A d \in Callers : earlier[c] \cap sent[d] = {}
  /\ \A c \in Callers : pc[c] = "wait" => earlier[c] \cap pendingTaskUids = {}

(* A step that puts no task in flight and gives the handle none to remember. *)
LEMMA HandedOverStands ==
  ASSUME EarlierHandedOver, \A c \in Callers : earlier'[c] \subseteq earlier[c],
         \A c \in Callers : sent'[c] \subseteq sent[c],
         pendingTaskUids' \subseteq pendingTaskUids,
         \A c \in Callers : pc'[c] = "wait" => pc[c] = "wait" \/ pendingTaskUids' = {}
  PROVE  EarlierHandedOver'
BY DEF EarlierHandedOver

LEMMA HandedOverStep == TypeOK /\ EarlierHandedOver /\ [Next]_vars => EarlierHandedOver'
<1> SUFFICES ASSUME TypeOK, EarlierHandedOver, [Next]_vars PROVE EarlierHandedOver'
  OBVIOUS
<1>0. /\ pc \in [Callers -> Places]
      /\ sent \in [Callers -> SUBSET Uids] /\ earlier \in [Callers -> SUBSET Uids]
      /\ pendingTaskUids \in SUBSET Uids
      /\ "flush" \in Callers /\ "stamp" \in Callers
  BY DEF TypeOK, Callers
<1>1. CASE Succeed \/ Fail
  BY <1>1, HandedOverStands DEF Succeed, Fail, ghosts
<1>2. CASE OpenState \/ OpenCorpus \/ BeginFlush \/ Signal \/ (\E r \in Repos : Record(r))
  <2>1. /\ UNCHANGED <<earlier, sent, pendingTaskUids>>
        /\ \A c \in Callers : pc'[c] = "wait" => pc[c] = "wait"
    BY <1>0, <1>2 DEF OpenState, OpenCorpus, BeginFlush, Signal, Record, ghosts, Places
  <2>2. QED
    BY <2>1, HandedOverStands
<1>3. ASSUME NEW c \in Callers, NEW kind \in {"repos", "state", "run"}, NEW payload \in SUBSET Repos,
             Send(c, kind, payload), pc[c] # "wait"
      PROVE  EarlierHandedOver'
  <2>1. PICK n \in Nat : /\ n \notin Uids /\ sent' = [sent EXCEPT ![c] = {n}]
    BY <1>3, Appended DEF Send
  <2>2. /\ earlier' = [earlier EXCEPT ![c] = Uids \ UNION {sent[d] : d \in Callers}]
        /\ UNCHANGED <<pc, pendingTaskUids>> /\ sent[c] = {}
    BY <1>3 DEF Send
  <2>3. ASSUME NEW a \in Callers, NEW b \in Callers PROVE earlier'[a] \cap sent'[b] = {}
    <3>1. earlier'[a] \subseteq Uids
      BY <1>0, <2>2
    <3>2. CASE b = c
      BY <1>0, <2>1, <3>1, <3>2
    <3>3. CASE b # c
      <4>1. sent'[b] = sent[b]
        BY <1>0, <2>1, <3>3
      <4>2. CASE a = c
        <5>1. earlier'[a] = Uids \ UNION {sent[d] : d \in Callers}
          BY <1>0, <2>2, <4>2
        <5>2. QED
          BY <4>1, <5>1
      <4>3. CASE a # c
        BY <1>0, <2>2, <4>1, <4>3 DEF EarlierHandedOver
      <4>4. QED
        BY <4>2, <4>3
    <3>4. QED
      BY <3>2, <3>3
  <2>4. ASSUME NEW a \in Callers, pc'[a] = "wait" PROVE earlier'[a] \cap pendingTaskUids' = {}
    <3>1. a # c /\ pc[a] = "wait"
      BY <1>3, <2>2, <2>4
    <3>2. earlier'[a] = earlier[a]
      BY <1>0, <2>2, <3>1
    <3>3. QED
      BY <2>2, <3>1, <3>2 DEF EarlierHandedOver
  <2>5. QED
    BY <2>3, <2>4 DEF EarlierHandedOver
<1>4. CASE PutCorpus
  <2>1. PICK slice \in SUBSET Repos : Send("flush", "repos", slice)
    BY <1>4 DEF PutCorpus, Slices, TypeOK
  <2>2. QED
    BY <1>0, <1>3, <1>4, <2>1 DEF PutCorpus
<1>5. CASE PutState \/ PutRun
  BY <1>0, <1>3, <1>5 DEF PutState, PutRun, TypeOK
<1>6. CASE CorpusTaken
  <2>1. /\ pendingTaskUids' = pendingTaskUids \cup sent["flush"] /\ earlier' = earlier
        /\ sent' = [sent EXCEPT !["flush"] = {}]
        /\ \A c \in Callers : pc'[c] = "wait" => pc[c] = "wait"
    BY <1>0, <1>6 DEF CorpusTaken, Answered, ghosts
  <2>2. \A c \in Callers : sent'[c] \subseteq sent[c]
    BY <1>0, <2>1
  <2>3. QED
    BY <1>0, <2>1, <2>2 DEF EarlierHandedOver
<1>7. CASE CorpusRefused
  <2>1. /\ UNCHANGED <<earlier, pendingTaskUids>> /\ \A c \in Callers : sent'[c] \subseteq sent[c]
        /\ \A c \in Callers : pc'[c] = "wait" => pc[c] = "wait"
    BY <1>0, <1>7 DEF CorpusRefused, Refused, Over
  <2>2. QED
    BY <2>1, HandedOverStands
<1>8. ASSUME NEW c \in Callers, PutDurably(c) PROVE EarlierHandedOver'
  <2>1. /\ earlier' = earlier /\ pendingTaskUids' = {} /\ \A d \in Callers : sent'[d] \subseteq sent[d]
    BY <1>0, <1>8 DEF PutDurably, Answered, Drain, ghosts
  <2>2. QED
    BY <2>1, HandedOverStands
<1>9. ASSUME NEW c \in Callers, DurableRefused(c) \/ Settle(c) \/ Timeout(c)
      PROVE  EarlierHandedOver'
  <2>1. /\ UNCHANGED <<earlier, pendingTaskUids>> /\ \A d \in Callers : sent'[d] \subseteq sent[d]
        /\ \A d \in Callers : pc'[d] = "wait" => pc[d] = "wait"
    BY <1>0, <1>9 DEF DurableRefused, Refused, Settle, Timeout, Over
  <2>2. QED
    BY <2>1, HandedOverStands
<1>10. CASE Kill
  BY <1>10, HandedOverStands DEF Kill
<1>11. CASE UNCHANGED vars
  BY <1>11, HandedOverStands DEF vars, ghosts
<1>12. QED
  BY <1>1, <1>2, <1>4, <1>5, <1>6, <1>7, <1>8, <1>9, <1>10, <1>11 DEF Next

(* A durable put resolves in the step that sees the end of its tasks, or    *)
(* gives up on one of them.                                                 *)
LEMMA ResolvesBySettling ==
  ASSUME TypeOK, DrainedByWaiters, [Next]_vars, NEW c \in Callers, Resolves(c)
  PROVE  Settle(c)
<1>0. /\ pc \in [Callers -> Places]
      /\ pc[c] = "wait" /\ pc'[c] \in {"idle", "done"} /\ "flush" \in Callers
      /\ draining[c] \subseteq Uids
  BY DEF TypeOK, Resolves, Callers
<1>1. ~Timeout(c)
  BY DEF Timeout, Resolves
<1>2. CASE OpenState
  <2>1. pc["flush"] = "closed" /\ pc["stamp"] = "closed"
    BY <1>2 DEF OpenState, DrainedByWaiters
  <2>2. QED
    BY <1>0, <2>1 DEF Callers
<1>3. CASE Succeed \/ Fail \/ UNCHANGED vars \/ (\E r \in Repos : Record(r))
  BY <1>0, <1>3 DEF Succeed, Fail, vars, Record
<1>4. CASE OpenCorpus \/ BeginFlush \/ CorpusTaken \/ CorpusRefused \/ Signal
  BY <1>0, <1>4 DEF OpenCorpus, BeginFlush, CorpusTaken, CorpusRefused, Signal, Callers, Over
<1>5. CASE PutCorpus \/ PutState \/ PutRun
  BY <1>0, <1>5 DEF PutCorpus, PutState, PutRun, Send
<1>6. ASSUME NEW d \in Callers, PutDurably(d) \/ DurableRefused(d) PROVE FALSE
  BY <1>0, <1>6 DEF PutDurably, DurableRefused, Over, Callers
<1>7. ASSUME NEW d \in Callers, Settle(d) \/ Timeout(d) PROVE d = c
  BY <1>0, <1>7 DEF Settle, Timeout, Over, Callers
<1>8. CASE Kill
  BY <1>0, <1>8 DEF Kill
<1>9. QED
  BY <1>1, <1>2, <1>3, <1>4, <1>5, <1>6, <1>7, <1>8 DEF Next

(* When a durable put resolves, every write whose put had resolved before   *)
(* it was made has succeeded, unless a caller was told of its loss, it was  *)
(* left by a process that was killed, or the other caller is still waiting  *)
(* for it: with any number of tasks, failures, timeouts and kills           *)
(* (PutOptions.durable, MeilisearchDataStore.drain).                        *)
THEOREM DurableIsDurable == Spec => DurableConfirmsEarlier
<1> DEFINE Confirms == \A c \in Callers : Resolves(c) =>
                         \A u \in earlier[c] :
                           \/ tasks[u].status = "succeeded"
                           \/ u \in reported \cup orphaned
                           \/ \E d \in Callers \ {c} : u \in draining[d]
<1> DEFINE Inv == TypeOK /\ DrainedByWaiters /\ NothingForgotten /\ EarlierHandedOver
<1>1. Init => Inv
  BY TypeInit DEF Init, DrainedByWaiters, NothingForgotten, EarlierHandedOver, Uids, Callers
<1>2. Inv /\ [Next]_vars => Inv'
  BY TypeStep, DrainedStep, ForgottenStep, HandedOverStep
<1>3. Inv /\ [Next]_vars => Confirms
  <2> SUFFICES ASSUME Inv, [Next]_vars, NEW c \in Callers, Resolves(c), NEW u \in earlier[c],
                      u \notin reported \cup orphaned,
                      \A d \in Callers \ {c} : u \notin draining[d]
               PROVE  tasks[u].status = "succeeded"
    OBVIOUS
  <2>1. Settle(c) /\ pc[c] = "wait"
    BY ResolvesBySettling DEF Resolves
  <2>2. u \in Uids /\ u \notin pendingTaskUids /\ \A d \in Callers : u \notin sent[d]
    BY <2>1 DEF EarlierHandedOver, TypeOK
  <2>3. tasks[u].status = "succeeded" \/ u \in draining[c]
    BY <2>2 DEF NothingForgotten, Watched
  <2>4. CASE u \in draining[c]
    <3>1. Settled(u) /\ u \notin Failed
      BY <2>1, <2>4 DEF Settle, Resolves
    <3>2. tasks[u] \in TaskSet
      BY <2>2, QueueTyped
    <3>3. QED
      BY <2>2, <3>1, <3>2 DEF Settled, Failed, TaskSet, Statuses
  <2>5. QED
    BY <2>3, <2>4
<1> HIDE DEF Inv, Confirms
<1>4. Spec => [][Confirms]_vars
  BY <1>1, <1>2, <1>3, PTL DEF Spec
<1>5. QED
  BY <1>4 DEF DurableConfirmsEarlier, Confirms

-----------------------------------------------------------------------------
(***************************************************************************)
(* No interrupted reset strands repositories, for any keywords, windows,   *)
(* and any number of sweeps, resets and kills.                             *)
(*                                                                         *)
(* What a reset still has to remove covers what there is, unless a sweep   *)
(* wrote beside it; and repositories without a state document belong to a  *)
(* keyword that is in its first flush, or was lost in a known race.        *)
(***************************************************************************)

States == [pending : SUBSET Windows, completed : SUBSET Windows]

ExploreTypeOK ==
  /\ reposOf \in [Keywords -> SUBSET Windows]
  /\ stateOf \in [Keywords -> States \union {None}]
  /\ sweep \in [Keywords -> [at : {"off", "wipe", "load", "sweeping", "flush", "ended"},
                             known : SUBSET Windows, pending : SUBSET Windows,
                             completed : SUBSET Windows, buffer : SUBSET Windows]]
  /\ reset \in [at : {"off", "asked", "next", "repos", "runs"}, plans : SUBSET Keywords,
                runs : BOOLEAN, doomed : SUBSET Windows, slug : Keywords \union {None}]
  /\ reset.at \in {"repos", "runs"} => reset.slug \in Keywords
  /\ excused \subseteq Keywords

DoomCovers ==
  \A q \in Keywords : reset.at = "repos" /\ reset.slug = q =>
    reposOf[q] \subseteq reset.doomed \/ q \in excused

StateOrExcuse ==
  \A q \in Keywords : reposOf[q] # {} /\ stateOf[q] = None /\ sweep[q].at # "flush" =>
    q \in excused

ExploreInv == ExploreTypeOK /\ DoomCovers /\ StateOrExcuse

LEMMA ExploreInitInv == ExploreInit => ExploreInv
<1> SUFFICES ASSUME ExploreInit PROVE ExploreInv
  OBVIOUS
<1> USE DEF ExploreInit
<1>1. ExploreTypeOK
  BY DEF ExploreTypeOK, Off, NoReset
<1>2. DoomCovers /\ StateOrExcuse
  BY DEF DoomCovers, StateOrExcuse, NoReset
<1> QED
  BY <1>1, <1>2 DEF ExploreInv

-----------------------------------------------------------------------------
LEMMA SweepStep ==
  ASSUME ExploreInv, NEW q \in Keywords,
         \/ \E fresh \in BOOLEAN : OpenSweep(q, fresh)
         \/ WipeRepo(q) \/ WipeState(q) \/ LoadSweep(q) \/ SweepWindow(q)
         \/ FlushSweep(q) \/ FlushRepos(q) \/ FlushState(q) \/ KillSweep(q)
  PROVE  ExploreInv'
<1> USE DEF ExploreInv, ExploreTypeOK
<1>1. ASSUME NEW fresh \in BOOLEAN, OpenSweep(q, fresh)
      PROVE  ExploreInv'
  BY <1>1 DEF OpenSweep, Off, collections, DoomCovers, StateOrExcuse
<1>2. CASE WipeRepo(q)
  BY <1>2 DEF WipeRepo, DoomCovers, StateOrExcuse
<1>3. CASE WipeState(q)
  BY <1>3 DEF WipeState, DoomCovers, StateOrExcuse
<1>4. CASE LoadSweep(q)
  <2>1. ExploreTypeOK'
    BY <1>4 DEF LoadSweep, States
  <2>2. DoomCovers' /\ StateOrExcuse'
    BY <1>4 DEF LoadSweep, DoomCovers, StateOrExcuse
  <2> QED
    BY <2>1, <2>2
<1>5. CASE SweepWindow(q)
  BY <1>5 DEF SweepWindow, collections, DoomCovers, StateOrExcuse
<1>6. CASE FlushSweep(q)
  BY <1>6 DEF FlushSweep, collections, DoomCovers, StateOrExcuse
<1>7. CASE FlushRepos(q)
  BY <1>7 DEF FlushRepos, Resetting, DoomCovers, StateOrExcuse
<1>8. CASE FlushState(q)
  <2>1. ExploreTypeOK'
    BY <1>8 DEF FlushState, States
  <2>2. stateOf'[q] # None
    BY <1>8, NoneAssumption DEF FlushState, States
  <2>3. DoomCovers' /\ StateOrExcuse'
    BY <1>8, <2>2 DEF FlushState, Resetting, DoomCovers, StateOrExcuse
  <2> QED
    BY <2>1, <2>3
<1>9. CASE KillSweep(q)
  BY <1>9 DEF KillSweep, Off, collections, DoomCovers, StateOrExcuse
<1> QED
  BY <1>1, <1>2, <1>3, <1>4, <1>5, <1>6, <1>7, <1>8, <1>9

LEMMA ResetStep ==
  ASSUME ExploreInv,
         \/ \E target \in {{q} : q \in Keywords} \union {Keywords}, includeRuns \in BOOLEAN :
              PlanReset(target, includeRuns)
         \/ Decline \/ NextPlan \/ RemoveRepo \/ RemoveState \/ RemoveRuns \/ CutReset
  PROVE  ExploreInv'
<1> USE DEF ExploreInv, ExploreTypeOK
<1>1. ASSUME NEW target \in SUBSET Keywords, NEW includeRuns \in BOOLEAN,
             PlanReset(target, includeRuns)
      PROVE  ExploreInv'
  BY <1>1 DEF PlanReset, NoReset, collections, DoomCovers, StateOrExcuse
<1>2. CASE Decline
  BY <1>2 DEF Decline, NoReset, collections, DoomCovers, StateOrExcuse
<1>3. CASE NextPlan
  <2>1. UNCHANGED <<reposOf, stateOf, sweep, excused>>
    BY <1>3 DEF NextPlan, collections
  <2>2. CASE reset' = NoReset
    BY <2>1, <2>2 DEF NoReset, DoomCovers, StateOrExcuse
  <2>3. ASSUME NEW q \in Keywords,
               reset' = [reset EXCEPT !.at = "repos", !.plans = @ \ {q}, !.slug = q,
                                      !.doomed = reposOf[q]]
        PROVE  ExploreInv'
    <3>1. reset' = [at |-> "repos", plans |-> reset.plans \ {q}, runs |-> reset.runs,
                    doomed |-> reposOf[q], slug |-> q]
      BY <2>3
    <3> QED
      BY <2>1, <3>1 DEF DoomCovers, StateOrExcuse
  <2> QED
    BY <1>3, <2>2, <2>3 DEF NextPlan
<1>4. CASE RemoveRepo
  BY <1>4, NoneAssumption DEF RemoveRepo, DoomCovers, StateOrExcuse
<1>5. CASE RemoveState
  BY <1>5 DEF RemoveState, DoomCovers, StateOrExcuse
<1>6. CASE RemoveRuns
  BY <1>6 DEF RemoveRuns, DoomCovers, StateOrExcuse
<1>7. CASE CutReset
  BY <1>7 DEF CutReset, NoReset, collections, DoomCovers, StateOrExcuse
<1> QED
  BY <1>1, <1>2, <1>3, <1>4, <1>5, <1>6, <1>7

LEMMA ExploreStep == ExploreInv /\ [ExploreNext]_explore => ExploreInv'
<1> SUFFICES ASSUME ExploreInv, [ExploreNext]_explore PROVE ExploreInv'
  OBVIOUS
<1>1. CASE UNCHANGED explore
  BY <1>1 DEF explore, collections, ExploreInv, ExploreTypeOK, DoomCovers, StateOrExcuse
<1>2. CASE ExploreNext
  BY <1>2, SweepStep, ResetStep DEF ExploreNext
<1> QED
  BY <1>1, <1>2

(* Neither an interrupted reset nor an interrupted --fresh leaves          *)
(* repositories no state document names (explore.ts:188-191).              *)
THEOREM NoResetStrands == ExploreSpec => []NothingStranded
<1>1. ExploreInv => NothingStranded
  BY DEF ExploreInv, StateOrExcuse, NothingStranded
<1> QED
  BY <1>1, ExploreInitInv, ExploreStep, PTL DEF ExploreSpec

-----------------------------------------------------------------------------
(***************************************************************************)
(* FsStorage implements the register its callers assume.                   *)
(*                                                                         *)
(* What makes a rename take effect is that the temporary file is whole by  *)
(* then: it holds the body of the call that renames it, whatever the other *)
(* calls did to the key meanwhile.                                         *)
(***************************************************************************)

Contents == Values \union {Absent}

Steps == {"mkdir", "create", "write", "rename", "undo", "rm"}

FsTypeOK ==
  /\ file \in [Keys -> Contents]
  /\ temp \in [Clients -> Contents \union {Torn}]
  /\ fsCall \in [Clients -> {AtRest} \union [at : {"done"}]
                              \union [at : Steps, key : Keys, body : Contents]]

(* A temporary file about to be renamed is whole.                          *)
WholeAtRename == \A c \in Clients : fsCall[c].at = "rename" => temp[c] = fsCall[c].body

(* A delete is under way with no body to write.                            *)
DeletesAbsent == \A c \in Clients : fsCall[c].at = "rm" => fsCall[c].body = Absent

FsInv == FsTypeOK /\ WholeAtRename /\ DeletesAbsent

-----------------------------------------------------------------------------
(* list names the keys that hold a value, whatever temporary files lie     *)
(* beside them.                                                            *)
LEMMA ListedKeys == Listed = {k \in Keys : file[k] # Absent}
<1>1. ASSUME NEW k \in Keys, file[k] # Absent
      PROVE  k \in Listed
  <2>1. Entry(k, FALSE) \in Directory
    BY <1>1 DEF Directory
  <2>2. ~Entry(k, FALSE).temporary /\ Entry(k, FALSE).key = k
    BY DEF Entry
  <2> QED
    BY <2>1, <2>2 DEF Listed
<1>2. ASSUME NEW e \in Directory, ~e.temporary
      PROVE  e.key \in {k \in Keys : file[k] # Absent}
  BY <1>2 DEF Directory, Entry
<1> QED
  BY <1>1, <1>2 DEF Listed

LEMMA FsInit_Inv == FsInit => FsInv
  BY DEF FsInit, FsInv, FsTypeOK, WholeAtRename, DeletesAbsent, Contents, AtRest

LEMMA FsStep_Inv ==
  ASSUME FsInv, [FsNext]_storage
  PROVE  FsInv'
<1> USE DEF FsInv, FsTypeOK, WholeAtRename, DeletesAbsent, Contents, Steps, AtRest
<1>1. CASE UNCHANGED storage
  BY <1>1 DEF storage
<1>2. ASSUME NEW c \in Clients, NEW k \in Keys, NEW body \in Values, FsPut(c, k, body)
      PROVE  FsInv'
  BY <1>2 DEF FsPut
<1>3. ASSUME NEW c \in Clients, Mkdir(c)
      PROVE  FsInv'
  BY <1>3 DEF Mkdir, Goto
<1>4. ASSUME NEW c \in Clients, MkdirFails(c) \/ RmFails(c) \/ FsReturn(c)
      PROVE  FsInv'
  BY <1>4 DEF MkdirFails, RmFails, FsReturn, Rest
<1>5. ASSUME NEW c \in Clients, CreateTemp(c)
      PROVE  FsInv'
  BY <1>5 DEF CreateTemp, Goto
<1>6. ASSUME NEW c \in Clients, WriteTemp(c)
      PROVE  FsInv'
  BY <1>6 DEF WriteTemp, Goto
<1>7. ASSUME NEW c \in Clients, Rename(c)
      PROVE  FsInv'
  BY <1>7 DEF Rename
<1>8. ASSUME NEW c \in Clients, PutFails(c)
      PROVE  FsInv'
  BY <1>8 DEF PutFails, Goto
<1>9. ASSUME NEW c \in Clients, Undo(c)
      PROVE  FsInv'
  BY <1>9 DEF Undo, Rest
<1>10. ASSUME NEW c \in Clients, NEW k \in Keys, FsDelete(c, k)
       PROVE  FsInv'
  BY <1>10 DEF FsDelete
<1>11. ASSUME NEW c \in Clients, Rm(c)
       PROVE  FsInv'
  BY <1>11 DEF Rm
<1>12. ASSUME NEW c \in Clients, FsKill(c)
       PROVE  FsInv'
  BY <1>12 DEF FsKill, Rest
<1> QED
  BY <1>1, <1>2, <1>3, <1>4, <1>5, <1>6, <1>7, <1>8, <1>9, <1>10, <1>11, <1>12 DEF FsNext

-----------------------------------------------------------------------------
(* Every step of a call is a step of the register, or one it does not see. *)

Names(v) == {k \in Keys : v[k] # Absent}

LEMMA NamesAfter == Listed = Names(file) /\ Listed' = Names(file')
<1>1. Listed = Names(file)
  BY ListedKeys DEF Names
<1>2. (Listed = {k \in Keys : file[k] # Absent})'
  BY ListedKeys, PTL
<1> QED
  BY <1>1, <1>2 DEF Names

(* The register sees of a step of one call what it sees of that call.      *)
LEMMA OneCall ==
  ASSUME NEW c \in Clients, NEW step, DOMAIN fsCall = Clients,
         fsCall' = [fsCall EXCEPT ![c] = step]
  PROVE  [d \in Clients |-> SeenAs(fsCall'[d])]
           = [[d \in Clients |-> SeenAs(fsCall[d])] EXCEPT ![c] = SeenAs(step)]
<1>1. \A d \in Clients : fsCall'[d] = IF d = c THEN step ELSE fsCall[d]
  OBVIOUS
<1> QED
  BY <1>1

(* What each step leaves behind is seen as. *)
LEMMA SeenSteps ==
  /\ SeenAs(AtRest) = [at |-> "idle"]
  /\ SeenAs([at |-> "done"]) = [at |-> "took"]
  /\ \A at \in Steps, k \in Keys, body \in Contents :
       SeenAs([at |-> at, key |-> k, body |-> body]) = [at |-> "asked", key |-> k, body |-> body]
BY DEF SeenAs, AtRest, Steps

LEMMA StepRefines == FsInv /\ [FsNext]_storage => [R!RegisterNext]_(R!register)
<1> SUFFICES ASSUME FsInv, [FsNext]_storage
             PROVE  [R!RegisterNext]_(R!register)
  OBVIOUS
<1> USE DEF FsInv, FsTypeOK
<1> DEFINE seen == [d \in Clients |-> SeenAs(fsCall[d])]
           after == [d \in Clients |-> SeenAs(fsCall'[d])]
<1>1. CASE UNCHANGED storage
  BY <1>1, NamesAfter DEF storage, R!register
<1>2. ASSUME NEW c \in Clients, NEW k \in Keys, NEW body \in Contents,
             FsPut(c, k, body) \/ (body = Absent /\ FsDelete(c, k))
      PROVE  R!Ask(c, k, body)
  <2>1. PICK at \in Steps : fsCall' = [fsCall EXCEPT ![c] = [at |-> at, key |-> k, body |-> body]]
    <3>1. CASE FsPut(c, k, body)
      BY <3>1 DEF FsPut, Steps
    <3>2. CASE body = Absent /\ FsDelete(c, k)
      BY <3>2 DEF FsDelete, Steps
    <3> QED
      BY <1>2, <3>1, <3>2
  <2>2. after = [seen EXCEPT ![c] = [at |-> "asked", key |-> k, body |-> body]]
    <3>1. SeenAs([at |-> at, key |-> k, body |-> body])
            = [at |-> "asked", key |-> k, body |-> body]
      BY SeenSteps
    <3> QED
      BY <2>1, <3>1, OneCall
  <2>3. seen[c] = [at |-> "idle"] /\ UNCHANGED file
    BY <1>2, SeenSteps DEF FsPut, FsDelete
  <2> QED
    BY <2>2, <2>3, NamesAfter DEF R!Ask, R!Idle
<1>3. ASSUME NEW c \in Clients,
             Mkdir(c) \/ CreateTemp(c) \/ WriteTemp(c) \/ PutFails(c)
      PROVE  UNCHANGED R!register
  <2>1. PICK step : fsCall' = [fsCall EXCEPT ![c] = step] /\ SeenAs(step) = SeenAs(fsCall[c])
    <3>1. PICK at \in Steps : fsCall' = [fsCall EXCEPT ![c].at = at] /\ fsCall[c].at \in Steps
      BY <1>3 DEF Mkdir, CreateTemp, WriteTemp, PutFails, Goto, Steps
    <3>2. PICK k \in Keys, body \in Contents, old \in Steps :
            fsCall[c] = [at |-> old, key |-> k, body |-> body]
      BY <3>1 DEF Steps, AtRest
    <3> DEFINE step == [at |-> at, key |-> k, body |-> body]
    <3>3. [fsCall[c] EXCEPT !.at = at] = step
      BY <3>2
    <3>4. fsCall' = [fsCall EXCEPT ![c] = step]
      BY <3>1, <3>3
    <3>5. SeenAs(step) = SeenAs(fsCall[c])
      BY <3>2, SeenSteps
    <3> QED
      BY <3>4, <3>5
  <2>2. after = seen
    BY <2>1, OneCall
  <2>3. UNCHANGED file
    BY <1>3 DEF Mkdir, CreateTemp, WriteTemp, PutFails
  <2> QED
    BY <2>2, <2>3, NamesAfter DEF R!register
<1>4. ASSUME NEW c \in Clients, Rest(c), UNCHANGED file, fsCall[c] # AtRest
      PROVE  R!Return(c) \/ R!Refuse(c)
  <2>1. after = [seen EXCEPT ![c] = [at |-> "idle"]]
    BY <1>4, OneCall, SeenSteps DEF Rest
  <2>2. seen[c].at \in {"took", "asked"}
    <3>1. CASE fsCall[c] \in [at : {"done"}]
      BY <3>1 DEF SeenAs
    <3>2. CASE fsCall[c] \in [at : Steps, key : Keys, body : Contents]
      BY <3>2 DEF SeenAs, Steps
    <3> QED
      BY <1>4, <3>1, <3>2
  <2> QED
    BY <1>4, <2>1, <2>2, NamesAfter DEF R!Return, R!Refuse, R!Idle
<1>5. ASSUME NEW c \in Clients, Rename(c) \/ Rm(c)
      PROVE  R!TakeEffect(c)
  <2>1. PICK k \in Keys, body \in Contents, at \in Steps :
          fsCall[c] = [at |-> at, key |-> k, body |-> body]
    BY <1>5 DEF Rename, Rm, Steps, AtRest
  <2>2. file' = [file EXCEPT ![k] = body]
    <3>1. fsCall[c].key = k /\ fsCall[c].body = body
      BY <2>1
    <3>2. CASE Rename(c)
      <4>1. fsCall[c].at = "rename" /\ file' = [file EXCEPT ![fsCall[c].key] = temp[c]]
        BY <3>2 DEF Rename
      <4>2. temp[c] = body
        BY <3>1, <4>1 DEF WholeAtRename
      <4> QED
        BY <3>1, <4>1, <4>2
    <3>3. CASE Rm(c)
      <4>1. fsCall[c].at = "rm" /\ file' = [file EXCEPT ![fsCall[c].key] = Absent]
        BY <3>3 DEF Rm
      <4>2. body = Absent
        BY <3>1, <4>1 DEF DeletesAbsent
      <4> QED
        BY <3>1, <4>1, <4>2
    <3> QED
      BY <1>5, <3>2, <3>3
  <2>3. after = [seen EXCEPT ![c] = [at |-> "took"]]
    BY <1>5, OneCall, SeenSteps DEF Rename, Rm
  <2>4. seen[c] = [at |-> "asked", key |-> k, body |-> body]
    BY <2>1, SeenSteps
  <2> QED
    <3>1. seen[c].at = "asked" /\ seen[c].key = k /\ seen[c].body = body
      BY <2>4
    <3>2. file' = [file EXCEPT ![seen[c].key] = seen[c].body]
      BY <2>2, <3>1
    <3>3. Listed' = R!Holding(file')
      BY NamesAfter DEF R!Holding, Names
    <3> QED
      BY <2>3, <3>1, <3>2, <3>3 DEF R!TakeEffect
<1> QED
  <2>1. ASSUME NEW c \in Clients,
               MkdirFails(c) \/ Undo(c) \/ RmFails(c) \/ FsReturn(c) \/ FsKill(c)
        PROVE  R!Return(c) \/ R!Refuse(c)
    <3>1. Rest(c) /\ UNCHANGED file /\ fsCall[c] # AtRest
      BY <2>1 DEF MkdirFails, Undo, RmFails, FsReturn, FsKill, AtRest
    <3> QED
      BY <3>1, <1>4
  <2> QED
    BY <1>1, <1>2, <1>3, <1>5, <2>1 DEF FsNext, R!RegisterNext, Contents

(* The storage is the register its callers may assume (fs.ts:23-35): every *)
(* behaviour of FsStorage, with any number of calls, keys and values, is a *)
(* behaviour of Register.                                                  *)
THEOREM StorageIsARegister == FsSpec => IsARegister
<1>1. FsInit => FsInv
  BY FsInit_Inv
<1>2. FsInv /\ [FsNext]_storage => FsInv'
  BY FsStep_Inv
<1>3. FsInit => R!RegisterInit
  <2>1. FsInit => Listed = {}
    BY ListedKeys DEF FsInit
  <2> QED
    BY <2>1, SeenSteps DEF FsInit, R!RegisterInit, R!Idle
<1> QED
  BY <1>1, <1>2, <1>3, StepRefines, PTL DEF FsSpec, IsARegister, R!RegisterSpec

-----------------------------------------------------------------------------
(* StoreReads: what is read, for any collection, query and page size.      *)
Rows == [id : Ids, doc : Documents]
IdsOf(s) == {s[n].id : n \in DOMAIN s}
Distinct(s) == \A m, n \in DOMAIN s : m # n => s[m].id # s[n].id
Ascending(s) == \A m, n \in DOMAIN s : m < n => s[m].id < s[n].id

ReadsTypeOK ==
  /\ backend \in {"memory", "fs", "meili"} /\ query \in Queries /\ docs \in Collections
  /\ phase \in {"start", "reading", "done"}
  /\ keys \in Seq(Ids) /\ rows \in Seq(Rows) /\ out \in Seq(Rows) /\ touched \subseteq Ids

(* What the filesystem store has read of the keys it listed. *)
ReadRows == IF query.sort = "none" THEN out ELSE rows

StartInv == phase = "start" => keys = <<>> /\ rows = <<>> /\ out = <<>> /\ touched = {}

ListedInv ==
  backend = "fs" /\ phase = "reading" =>
    /\ \A m, n \in DOMAIN keys : m < n => keys[m] < keys[n]
    /\ IF query.sort = "none" THEN rows = <<>> ELSE out = <<>>
    /\ Ascending(ReadRows)
    /\ \A n \in DOMAIN ReadRows, k \in DOMAIN keys : ReadRows[n].id < keys[k]
    /\ \A n \in DOMAIN ReadRows : ReadRows[n].id \notin touched =>
         ReadRows[n].id \in Matching /\ ReadRows[n].doc = docs[ReadRows[n].id]
    /\ Matching \ touched \subseteq IdsOf(ReadRows) \cup {keys[k] : k \in DOMAIN keys}
    /\ query.limit # 0 => Len(out) < query.limit

PagedInv ==
  /\ backend # "fs" => touched = {}
  /\ backend = "memory" => phase # "reading"
  /\ backend = "meili" /\ phase = "reading" =>
       /\ Len(out) <= Cardinality(Matching)
       /\ query.limit # 0 => Len(out) <= query.limit
       /\ out = SubSeq(SortRows(InOrder(Matching)), 1, Len(out))

ReadsInv == ReadsTypeOK /\ StartInv /\ ListedInv /\ PagedInv /\ ListAgrees

-----------------------------------------------------------------------------
(* Ranking the elements of a finite set by a strict total order.           *)
Below(D, less, x) == {y \in D : <<y, x>> \in less}
StrictOrder(D, less) ==
  /\ \A x \in D : <<x, x>> \notin less
  /\ \A x, y, z \in D : <<x, y>> \in less /\ <<y, z>> \in less => <<x, z>> \in less
  /\ \A x, y \in D : x # y => <<x, y>> \in less \/ <<y, x>> \in less

LEMMA RankRange ==
  ASSUME NEW D, IsFiniteSet(D), NEW less, StrictOrder(D, less), NEW x \in D
  PROVE  Cardinality(Below(D, less, x)) \in 0..(Cardinality(D) - 1)
<1>1. Below(D, less, x) \in SUBSET D /\ x \notin Below(D, less, x) BY DEF Below, StrictOrder
<1>2. Cardinality(Below(D, less, x)) <= Cardinality(D) /\ IsFiniteSet(Below(D, less, x))
      /\ (Cardinality(D) = Cardinality(Below(D, less, x)) => D = Below(D, less, x))
      BY <1>1, FS_Subset
<1>3. Cardinality(D) \in Nat /\ Cardinality(Below(D, less, x)) \in Nat BY <1>2, FS_CardinalityType
<1>. QED BY <1>1, <1>2, <1>3

LEMMA RankMonotone ==
  ASSUME NEW D, IsFiniteSet(D), NEW less, StrictOrder(D, less),
         NEW x \in D, NEW y \in D, <<x, y>> \in less
  PROVE  Cardinality(Below(D, less, x)) < Cardinality(Below(D, less, y))
<1>1. Below(D, less, x) \in SUBSET Below(D, less, y) BY DEF Below, StrictOrder
<1>2. x \in Below(D, less, y) /\ x \notin Below(D, less, x) BY DEF Below, StrictOrder
<1>3. IsFiniteSet(Below(D, less, y))
  <2>1. Below(D, less, y) \in SUBSET D BY DEF Below
  <2>. QED BY <2>1, FS_Subset
<1>4. Cardinality(Below(D, less, x)) <= Cardinality(Below(D, less, y)) /\ IsFiniteSet(Below(D, less, x))
      /\ (Cardinality(Below(D, less, y)) = Cardinality(Below(D, less, x)) => Below(D, less, y) = Below(D, less, x))
      BY <1>1, <1>3, FS_Subset
<1>5. Cardinality(Below(D, less, x)) \in Nat /\ Cardinality(Below(D, less, y)) \in Nat
      BY <1>3, <1>4, FS_CardinalityType
<1>. QED BY <1>2, <1>4, <1>5

(* Every rank is the rank of one element, and of one only. *)
LEMMA RankOnto ==
  ASSUME NEW D, IsFiniteSet(D), NEW less, StrictOrder(D, less), NEW n \in 1..Cardinality(D)
  PROVE  \E x \in D : Cardinality(Below(D, less, x)) = n - 1
<1>. DEFINE c == Cardinality(D)
            f == [x \in D |-> Cardinality(Below(D, less, x)) + 1]
<1>1. c \in Nat BY FS_CardinalityType
<1>2. ASSUME NEW x \in D PROVE f[x] \in 1..c /\ f[x] = Cardinality(Below(D, less, x)) + 1
  <2>1. Cardinality(Below(D, less, x)) \in 0..(c - 1) BY RankRange
  <2>. QED BY <1>1, <2>1
<1>3. ASSUME NEW x \in D, NEW y \in D, x # y PROVE f[x] # f[y]
  <2>1. Cardinality(Below(D, less, x)) \in 0..(c - 1) /\ Cardinality(Below(D, less, y)) \in 0..(c - 1)
        BY RankRange
  <2>2. CASE <<x, y>> \in less BY <1>1, <2>1, <2>2, RankMonotone
  <2>3. CASE <<y, x>> \in less BY <1>1, <2>1, <2>3, RankMonotone
  <2>. QED BY <1>3, <2>2, <2>3 DEF StrictOrder
<1>4. f \in [D -> 1..c] BY <1>2
<1>5. f \in Injection(D, 1..c)
  <2>. HIDE DEF f
  <2>. QED BY <1>3, <1>4 DEF Injection, IsInjective
<1>6. IsFiniteSet(1..c) /\ Cardinality(1..c) = c BY <1>1, FS_Interval
<1>7. f \in Surjection(D, 1..c)
  <2>. HIDE DEF f
  <2>. QED BY <1>5, <1>6, FS_Injection
<1>8. PICK x \in D : f[x] = n
  <2>. HIDE DEF f
  <2>. QED BY <1>7 DEF Surjection
<1>9. Cardinality(Below(D, less, x)) \in 0..(c - 1) BY RankRange
<1>. QED BY <1>1, <1>2, <1>8, <1>9

(* A nonempty set of naturals has a least one. *)
LEMMA LeastNatural ==
  ASSUME NEW T \in SUBSET Nat, T # {}
  PROVE  \E x \in T : \A y \in T : x <= y
<1>1. PICK x \in T : \A y \in T : ~(<<y, x>> \in OpToRel(<, Nat)) BY NatLessThanWellFounded, WFMin, Zenon
<1>2. ASSUME NEW y \in T PROVE x <= y
  <2>1. ~(<<y, x>> \in OpToRel(<, Nat)) BY <1>1, Zenon
  <2>2. <<y, x>> \in Nat \X Nat OBVIOUS
  <2>3. ~(y < x) BY <2>1, <2>2, Zenon DEF OpToRel
  <2>. QED BY <2>3
<1>. QED BY <1>2


-----------------------------------------------------------------------------
(* The order asked for is the order of the places, and of the ids within a *)
(* place.                                                                  *)
LEMMA PlaceType ==
  ASSUME query \in Queries, NEW doc \in Documents
  PROVE  Place(doc) \in Nat
<1>1. Cardinality(Ranks) \in Nat /\ doc.rank \in Ranks
      BY ReadsAssumption, FS_CardinalityType DEF ReadsAssumption, Documents
<1>2. doc.rank \in 0..(Cardinality(Ranks) - 1) BY <1>1, ReadsAssumption DEF ReadsAssumption
<1>3. query.sort \in {"none", "asc", "desc"} BY DEF Queries
<1>4. CASE query.sort = "none" BY <1>4 DEF Place
<1>5. CASE query.sort # "none" /\ doc.rank = 0 BY <1>1, <1>3, <1>5 DEF Place
<1>6. CASE query.sort = "asc" /\ doc.rank # 0 BY <1>1, <1>2, <1>6 DEF Place
<1>7. CASE query.sort = "desc" /\ doc.rank # 0 BY <1>1, <1>2, <1>7 DEF Place
<1>. QED BY <1>3, <1>4, <1>5, <1>6, <1>7

LEMMA PlaceOrders ==
  ASSUME query \in Queries, NEW x \in Rows, NEW y \in Rows
  PROVE  Before(x.doc, y.doc) <=> Place(x.doc) < Place(y.doc)
<1>1. /\ Cardinality(Ranks) \in Nat /\ x.doc.rank \in Ranks /\ y.doc.rank \in Ranks
      /\ query.sort \in {"none", "asc", "desc"}
      BY ReadsAssumption, FS_CardinalityType DEF ReadsAssumption, Documents, Rows, Queries
<1>2. x.doc.rank \in 0..(Cardinality(Ranks) - 1) /\ y.doc.rank \in 0..(Cardinality(Ranks) - 1)
      BY <1>1, ReadsAssumption DEF ReadsAssumption
<1>3. CASE query.sort = "none" BY <1>3 DEF Place, Before
<1>4. CASE query.sort = "asc"
  <2>1. Place(x.doc) = IF x.doc.rank = 0 THEN Cardinality(Ranks) ELSE x.doc.rank BY <1>4 DEF Place
  <2>2. Place(y.doc) = IF y.doc.rank = 0 THEN Cardinality(Ranks) ELSE y.doc.rank BY <1>4 DEF Place
  <2>3. Before(x.doc, y.doc) <=> x.doc.rank # 0 /\ (y.doc.rank = 0 \/ x.doc.rank < y.doc.rank)
        BY <1>4 DEF Before
  <2>. QED BY <1>1, <1>2, <2>1, <2>2, <2>3
<1>5. CASE query.sort = "desc"
  <2>1. Place(x.doc) = IF x.doc.rank = 0 THEN Cardinality(Ranks) ELSE Cardinality(Ranks) - x.doc.rank
        BY <1>5 DEF Place
  <2>2. Place(y.doc) = IF y.doc.rank = 0 THEN Cardinality(Ranks) ELSE Cardinality(Ranks) - y.doc.rank
        BY <1>5 DEF Place
  <2>3. Before(x.doc, y.doc) <=> x.doc.rank # 0 /\ (y.doc.rank = 0 \/ x.doc.rank > y.doc.rank)
        BY <1>5 DEF Before
  <2>. QED BY <1>1, <1>2, <2>1, <2>2, <2>3
<1>. QED BY <1>1, <1>3, <1>4, <1>5

LEMMA RowTypes ==
  ASSUME NEW x \in Rows
  PROVE  x.id \in Ids /\ x.id \in Nat /\ x.doc \in Documents
BY ReadsAssumption DEF Rows, ReadsAssumption

LEMMA PrecedesPlace ==
  ASSUME query \in Queries, NEW x \in Rows, NEW y \in Rows
  PROVE  /\ Place(x.doc) \in Nat /\ Place(y.doc) \in Nat /\ x.id \in Nat /\ y.id \in Nat
         /\ Precedes(x, y) <=>
              (Place(x.doc) < Place(y.doc) \/ (x.id < y.id /\ Place(x.doc) <= Place(y.doc)))
<1>1. Place(x.doc) \in Nat /\ Place(y.doc) \in Nat /\ x.id \in Nat /\ y.id \in Nat
      BY RowTypes, PlaceType
<1>2. (Before(x.doc, y.doc) <=> Place(x.doc) < Place(y.doc))
      /\ (Before(y.doc, x.doc) <=> Place(y.doc) < Place(x.doc)) BY PlaceOrders
<1>. QED BY <1>1, <1>2 DEF Precedes

(* Which gives a strict order, total on rows of different ids. *)
PrecedesIn(s) == {p \in (DOMAIN s) \X (DOMAIN s) : Precedes(s[p[1]], s[p[2]])}

LEMMA PrecedesOrders ==
  ASSUME query \in Queries, NEW s \in Seq(Rows), Distinct(s)
  PROVE  /\ StrictOrder(DOMAIN s, PrecedesIn(s))
         /\ IsFiniteSet(DOMAIN s) /\ Cardinality(DOMAIN s) = Len(s)
         /\ DOMAIN s = 1..Len(s) /\ Len(s) \in Nat
         /\ \A k \in DOMAIN s :
              Below(DOMAIN s, PrecedesIn(s), k) = {j \in DOMAIN s : Precedes(s[j], s[k])}
<1>1. DOMAIN s = 1..Len(s) /\ Len(s) \in Nat BY LenProperties
<1>2. IsFiniteSet(DOMAIN s) /\ Cardinality(DOMAIN s) = Len(s) BY <1>1, FS_Interval
<1>3. \A j, k \in DOMAIN s : <<j, k>> \in PrecedesIn(s) <=> Precedes(s[j], s[k]) BY DEF PrecedesIn
<1>4. \A k \in DOMAIN s : s[k] \in Rows BY <1>1, ElementOfSeq
<1>5. ASSUME NEW j \in DOMAIN s, NEW k \in DOMAIN s
      PROVE  /\ Place(s[j].doc) \in Nat /\ Place(s[k].doc) \in Nat /\ s[j].id \in Nat /\ s[k].id \in Nat
             /\ Precedes(s[j], s[k]) <=> (Place(s[j].doc) < Place(s[k].doc)
                  \/ (s[j].id < s[k].id /\ Place(s[j].doc) <= Place(s[k].doc)))
      BY <1>4, PrecedesPlace
<1>6. StrictOrder(DOMAIN s, PrecedesIn(s))
  <2>1. ASSUME NEW k \in DOMAIN s PROVE <<k, k>> \notin PrecedesIn(s) BY <1>3, <1>5
  <2>2. ASSUME NEW i \in DOMAIN s, NEW j \in DOMAIN s, NEW k \in DOMAIN s,
               <<i, j>> \in PrecedesIn(s), <<j, k>> \in PrecedesIn(s)
        PROVE  <<i, k>> \in PrecedesIn(s)
    <3>1. Precedes(s[i], s[j]) /\ Precedes(s[j], s[k]) BY <1>3, <2>2
    <3>2. /\ Place(s[i].doc) \in Nat /\ Place(s[j].doc) \in Nat /\ Place(s[k].doc) \in Nat
          /\ s[i].id \in Nat /\ s[j].id \in Nat /\ s[k].id \in Nat
          BY <1>5
    <3>3. Place(s[i].doc) < Place(s[j].doc) \/ (s[i].id < s[j].id /\ Place(s[i].doc) <= Place(s[j].doc))
          BY <1>5, <3>1
    <3>4. Place(s[j].doc) < Place(s[k].doc) \/ (s[j].id < s[k].id /\ Place(s[j].doc) <= Place(s[k].doc))
          BY <1>5, <3>1
    <3>5. Place(s[i].doc) < Place(s[k].doc) \/ (s[i].id < s[k].id /\ Place(s[i].doc) <= Place(s[k].doc))
          BY <3>2, <3>3, <3>4
    <3>6. Precedes(s[i], s[k]) BY <1>5, <3>5
    <3>. QED BY <1>3, <3>6
  <2>3. ASSUME NEW j \in DOMAIN s, NEW k \in DOMAIN s, j # k
        PROVE  <<j, k>> \in PrecedesIn(s) \/ <<k, j>> \in PrecedesIn(s)
    <3>1. s[j].id # s[k].id BY <2>3 DEF Distinct
    <3>. QED BY <1>3, <1>5, <3>1
  <2>. QED BY <2>1, <2>2, <2>3 DEF StrictOrder
<1>7. \A k \in DOMAIN s :
        Below(DOMAIN s, PrecedesIn(s), k) = {j \in DOMAIN s : Precedes(s[j], s[k])}
      BY <1>3 DEF Below
<1>. QED BY <1>1, <1>2, <1>6, <1>7

(* SortRows gives every row once, each after the rows that precede it.     *)
LEMMA SortedRows ==
  ASSUME query \in Queries, NEW s \in Seq(Rows), Distinct(s), NEW t, t = SortRows(s)
  PROVE  /\ t \in Seq(Rows) /\ Len(t) = Len(s) /\ Distinct(t)
         /\ \A n \in DOMAIN t : \E k \in DOMAIN s : t[n] = s[k]
         /\ \A k \in DOMAIN s : \E n \in DOMAIN t : t[n] = s[k]
         /\ \A m, n \in DOMAIN t : m < n => Place(t[m].doc) <= Place(t[n].doc)
<1>. DEFINE D == DOMAIN s
            less == PrecedesIn(s)
            rank(k) == Cardinality(Below(D, less, k))
            at(n) == CHOOSE k \in D : Cardinality({j \in D : Precedes(s[j], s[k])}) = n - 1
<1>1. /\ StrictOrder(D, less) /\ IsFiniteSet(D) /\ Cardinality(D) = Len(s)
      /\ D = 1..Len(s) /\ Len(s) \in Nat
      /\ \A k \in D : Below(D, less, k) = {j \in D : Precedes(s[j], s[k])}
      BY PrecedesOrders
<1>2. \A k \in D : s[k] \in Rows BY <1>1, ElementOfSeq
<1>3. ASSUME NEW n \in D PROVE at(n) \in D /\ rank(at(n)) = n - 1
  <2>1. \E k \in D : Cardinality(Below(D, less, k)) = n - 1 BY <1>1, RankOnto
  <2>2. \E k \in D : Cardinality({j \in D : Precedes(s[j], s[k])}) = n - 1 BY <1>1, <2>1
  <2>3. at(n) \in D /\ Cardinality({j \in D : Precedes(s[j], s[at(n)])}) = n - 1 BY <2>2
  <2>. QED BY <1>1, <2>3
<1>4. t = [n \in D |-> s[at(n)]] BY DEF SortRows
<1>. HIDE DEF at
<1>5. t \in [1..Len(s) -> Rows] BY <1>1, <1>2, <1>3, <1>4
<1>6. t \in Seq(Rows) /\ Len(t) = Len(s) /\ DOMAIN t = D BY <1>1, <1>5, SeqDef, LenProperties
<1>7. \A n \in DOMAIN t : at(n) \in D /\ t[n] = s[at(n)] BY <1>3, <1>4, <1>6
<1>8. ASSUME NEW m \in D, NEW n \in D, m < n
      PROVE  <<at(m), at(n)>> \in less
  <2>1. at(m) \in D /\ at(n) \in D /\ rank(at(m)) = m - 1 /\ rank(at(n)) = n - 1 BY <1>3
  <2>2. at(m) # at(n) BY <1>1, <1>8, <2>1
  <2>3. CASE <<at(n), at(m)>> \in less
    <3>1. rank(at(n)) < rank(at(m)) BY <1>1, <2>1, <2>3, RankMonotone
    <3>. QED BY <1>1, <1>8, <2>1, <3>1
  <2>. QED BY <1>1, <2>1, <2>2, <2>3 DEF StrictOrder
<1>9. ASSUME NEW m \in D, NEW n \in D, m < n
      PROVE  Place(t[m].doc) <= Place(t[n].doc) /\ t[m].id # t[n].id
  <2>1. <<at(m), at(n)>> \in less /\ at(m) \in D /\ at(n) \in D BY <1>3, <1>8, <1>9
  <2>2. Precedes(s[at(m)], s[at(n)]) BY <2>1 DEF PrecedesIn
  <2>3. s[at(m)] \in Rows /\ s[at(n)] \in Rows BY <1>2, <2>1
  <2>4. Place(s[at(m)].doc) <= Place(s[at(n)].doc) BY <2>2, <2>3, PrecedesPlace
  <2>5. at(m) # at(n) BY <1>1, <2>1 DEF StrictOrder
  <2>6. s[at(m)].id # s[at(n)].id BY <2>1, <2>5 DEF Distinct
  <2>. QED BY <1>6, <1>7, <2>4, <2>6
<1>10. Distinct(t) BY <1>1, <1>6, <1>9 DEF Distinct
<1>11. ASSUME NEW k \in D PROVE \E n \in D : t[n] = s[k]
  <2>1. rank(k) \in 0..(Len(s) - 1) BY <1>1, RankRange
  <2>. DEFINE n == rank(k) + 1
  <2>2. n \in D /\ rank(k) = n - 1 BY <1>1, <2>1
  <2>3. at(n) \in D /\ rank(at(n)) = n - 1 BY <1>3, <2>2
  <2>4. at(n) = k
    <3>1. CASE <<at(n), k>> \in less
      <4>1. rank(at(n)) < rank(k) BY <1>1, <2>3, <3>1, RankMonotone
      <4>. QED BY <2>1, <2>2, <2>3, <4>1
    <3>2. CASE <<k, at(n)>> \in less
      <4>1. rank(k) < rank(at(n)) BY <1>1, <2>3, <3>2, RankMonotone
      <4>. QED BY <2>1, <2>2, <2>3, <4>1
    <3>. QED BY <1>1, <2>3, <3>1, <3>2 DEF StrictOrder
  <2>. QED BY <1>6, <1>7, <2>2, <2>4
<1>. QED BY <1>6, <1>7, <1>9, <1>10, <1>11

-----------------------------------------------------------------------------
(* The rows of a collection, in the order of its keys.                     *)
LEMMA CollectionRows ==
  ASSUME docs \in Collections
  PROVE  /\ DOMAIN docs \subseteq Ids /\ IsFiniteSet(DOMAIN docs)
         /\ \A i \in DOMAIN docs : docs[i] \in Documents /\ Row(i) \in Rows /\ i \in Nat
<1>1. PICK present \in SUBSET Ids : docs \in [present -> Documents] BY DEF Collections
<1>2. DOMAIN docs \in SUBSET Ids /\ \A i \in DOMAIN docs : docs[i] \in Documents BY <1>1
<1>3. IsFiniteSet(DOMAIN docs) BY <1>2, ReadsAssumption, FS_Subset DEF ReadsAssumption
<1>. QED BY <1>2, <1>3, ReadsAssumption DEF Rows, Row, ReadsAssumption

LEMMA InOrderRows ==
  ASSUME docs \in Collections, NEW ids \in SUBSET DOMAIN docs, NEW t, t = InOrder(ids)
  PROVE  /\ t \in Seq(Rows) /\ Len(t) = Cardinality(ids) /\ Cardinality(ids) \in Nat
         /\ Ascending(t) /\ IdsOf(t) = ids
         /\ \A n \in DOMAIN t : t[n].doc = docs[t[n].id]
<1>. DEFINE less == {p \in ids \X ids : p[1] < p[2]}
            rank(i) == Cardinality(Below(ids, less, i))
            at(n) == CHOOSE i \in ids : Cardinality({j \in ids : j < i}) = n - 1
            c == Cardinality(ids)
<1>1. IsFiniteSet(ids) /\ \A i \in ids : i \in Nat /\ Row(i) \in Rows BY CollectionRows, FS_Subset
<1>2. c \in Nat BY <1>1, FS_CardinalityType
<1>3. \A i, j \in ids : <<i, j>> \in less <=> i < j OBVIOUS
<1>4. StrictOrder(ids, less)
  <2>1. ASSUME NEW i \in ids, NEW j \in ids, NEW k \in ids, <<i, j>> \in less, <<j, k>> \in less
        PROVE  <<i, k>> \in less
    <3>1. i \in Nat /\ j \in Nat /\ k \in Nat /\ i < j /\ j < k BY <1>1, <1>3, <2>1
    <3>. QED BY <1>3, <3>1
  <2>2. ASSUME NEW i \in ids, NEW j \in ids, i # j PROVE <<i, j>> \in less \/ <<j, i>> \in less
    <3>1. i \in Nat /\ j \in Nat BY <1>1
    <3>. QED BY <1>3, <2>2, <3>1
  <2>3. ASSUME NEW i \in ids PROVE <<i, i>> \notin less BY <1>1, <1>3
  <2>. HIDE DEF less
  <2>. QED BY <2>1, <2>2, <2>3 DEF StrictOrder
<1>5. \A i \in ids : Below(ids, less, i) = {j \in ids : j < i} BY <1>3 DEF Below
<1>. HIDE DEF less
<1>6. ASSUME NEW n \in 1..c PROVE at(n) \in ids /\ rank(at(n)) = n - 1
  <2>1. \E i \in ids : Cardinality(Below(ids, less, i)) = n - 1 BY <1>1, <1>4, RankOnto
  <2>2. \E i \in ids : Cardinality({j \in ids : j < i}) = n - 1 BY <1>5, <2>1
  <2>3. at(n) \in ids /\ Cardinality({j \in ids : j < at(n)}) = n - 1 BY <2>2
  <2>. QED BY <1>5, <2>3
<1>7. t = [n \in 1..c |-> Row(at(n))] BY DEF InOrder
<1>. HIDE DEF at
<1>8. t \in [1..c -> Rows] BY <1>1, <1>6, <1>7
<1>9. t \in Seq(Rows) /\ Len(t) = c /\ DOMAIN t = 1..c BY <1>2, <1>8, SeqDef, LenProperties
<1>10. \A n \in 1..c : t[n].id = at(n) /\ t[n].doc = docs[at(n)] BY <1>7 DEF Row
<1>11. Ascending(t)
  <2>1. ASSUME NEW m \in 1..c, NEW n \in 1..c, m < n PROVE at(m) < at(n)
    <3>1. at(m) \in ids /\ at(n) \in ids /\ rank(at(m)) = m - 1 /\ rank(at(n)) = n - 1 BY <1>6
    <3>2. at(m) # at(n) BY <1>2, <2>1, <3>1
    <3>3. CASE <<at(n), at(m)>> \in less
      <4>1. rank(at(n)) < rank(at(m)) BY <1>1, <1>4, <3>1, <3>3, RankMonotone
      <4>. QED BY <1>2, <2>1, <3>1, <4>1
    <3>. QED BY <1>3, <1>4, <3>1, <3>2, <3>3 DEF StrictOrder
  <2>. QED BY <1>9, <1>10, <2>1 DEF Ascending
<1>12. ASSUME NEW i \in ids PROVE \E n \in 1..c : at(n) = i
  <2>1. rank(i) \in 0..(c - 1) BY <1>1, <1>4, RankRange
  <2>. DEFINE n == rank(i) + 1
  <2>2. n \in 1..c /\ rank(i) = n - 1 BY <1>2, <2>1
  <2>3. at(n) \in ids /\ rank(at(n)) = n - 1 BY <1>6, <2>2
  <2>4. at(n) = i
    <3>1. CASE <<at(n), i>> \in less
      <4>1. rank(at(n)) < rank(i) BY <1>1, <1>4, <2>3, <3>1, RankMonotone
      <4>. QED BY <2>1, <2>2, <2>3, <4>1
    <3>2. CASE <<i, at(n)>> \in less
      <4>1. rank(i) < rank(at(n)) BY <1>1, <1>4, <2>3, <3>2, RankMonotone
      <4>. QED BY <2>1, <2>2, <2>3, <4>1
    <3>. QED BY <1>4, <2>3, <3>1, <3>2 DEF StrictOrder
  <2>. QED BY <2>2, <2>4
<1>13. IdsOf(t) = ids BY <1>6, <1>9, <1>10, <1>12 DEF IdsOf
<1>. QED BY <1>2, <1>9, <1>10, <1>11, <1>13

LEMMA AscendingDistinct ==
  ASSUME NEW s \in Seq(Rows), Ascending(s)
  PROVE  Distinct(s)
<1>1. DOMAIN s = 1..Len(s) /\ Len(s) \in Nat BY LenProperties
<1>2. \A n \in DOMAIN s : s[n].id \in Nat BY <1>1, ElementOfSeq, RowTypes
<1>. SUFFICES ASSUME NEW m \in DOMAIN s, NEW n \in DOMAIN s, m # n PROVE s[m].id # s[n].id
     BY DEF Distinct
<1>3. CASE m < n BY <1>2, <1>3 DEF Ascending
<1>4. CASE n < m BY <1>2, <1>4 DEF Ascending
<1>. QED BY <1>1, <1>3, <1>4

(* As many ids as rows, when no two rows have the same. *)
LEMMA DistinctCardinality ==
  ASSUME NEW s \in Seq(Rows), Distinct(s)
  PROVE  IsFiniteSet(IdsOf(s)) /\ Cardinality(IdsOf(s)) = Len(s) /\ Len(s) \in Nat
<1>. DEFINE f == [n \in DOMAIN s |-> s[n].id]
<1>1. DOMAIN s = 1..Len(s) /\ Len(s) \in Nat BY LenProperties
<1>2. IsFiniteSet(DOMAIN s) /\ Cardinality(DOMAIN s) = Len(s) BY <1>1, FS_Interval
<1>3. f \in [DOMAIN s -> IdsOf(s)] BY DEF IdsOf
<1>4. \A m, n \in DOMAIN s : m # n => f[m] # f[n] BY DEF Distinct
<1>5. \A i \in IdsOf(s) : \E n \in DOMAIN s : f[n] = i BY DEF IdsOf
<1>6. f \in Bijection(DOMAIN s, IdsOf(s))
  <2>. HIDE DEF f
  <2>. QED BY <1>3, <1>4, <1>5 DEF Bijection, Injection, Surjection, IsInjective
<1>. QED BY <1>1, <1>2, <1>6, FS_Bijection DEF ExistsBijection

-----------------------------------------------------------------------------
(* What a store may yield for the query it was asked: Undisturbed, of any  *)
(* sequence of rows.                                                       *)
Serves(u) ==
  /\ IdsOf(u) \subseteq Matching
  /\ Len(u) = (IF query.limit = 0 \/ Cardinality(Matching) < query.limit
               THEN Cardinality(Matching) ELSE query.limit)
  /\ \A n \in DOMAIN u : u[n].doc = docs[u[n].id]
  /\ \A m, n \in DOMAIN u : m < n => Place(u[m].doc) =< Place(u[n].doc)
  /\ \A i \in Matching \ IdsOf(u) : \A n \in DOMAIN u : Place(u[n].doc) =< Place(docs[i])

(* Every match, in the order asked for. *)
Sorted(t) ==
  /\ t \in Seq(Rows) /\ Distinct(t) /\ IdsOf(t) = Matching
  /\ \A n \in DOMAIN t : t[n].doc = docs[t[n].id]
  /\ \A m, n \in DOMAIN t : m < n => Place(t[m].doc) =< Place(t[n].doc)

LEMMA MatchingFinite ==
  ASSUME docs \in Collections
  PROVE  Matching \subseteq DOMAIN docs /\ IsFiniteSet(Matching) /\ Cardinality(Matching) \in Nat
<1>1. Matching \in SUBSET DOMAIN docs BY DEF Matching
<1>. QED BY <1>1, CollectionRows, FS_Subset, FS_CardinalityType

LEMMA SortRowsSorted ==
  ASSUME query \in Queries, NEW s \in Seq(Rows), Distinct(s), IdsOf(s) = Matching,
         \A n \in DOMAIN s : s[n].doc = docs[s[n].id]
  PROVE  Sorted(SortRows(s)) /\ Len(SortRows(s)) = Len(s)
<1>. DEFINE t == SortRows(s)
<1>1. /\ t \in Seq(Rows) /\ Len(t) = Len(s) /\ Distinct(t)
      /\ \A n \in DOMAIN t : \E k \in DOMAIN s : t[n] = s[k]
      /\ \A k \in DOMAIN s : \E n \in DOMAIN t : t[n] = s[k]
      /\ \A m, n \in DOMAIN t : m < n => Place(t[m].doc) <= Place(t[n].doc)
      BY SortedRows
<1>. HIDE DEF t
<1>2. IdsOf(t) = IdsOf(s) BY <1>1 DEF IdsOf
<1>3. \A n \in DOMAIN t : t[n].doc = docs[t[n].id] BY <1>1
<1>. QED BY <1>1, <1>2, <1>3 DEF Sorted, t

(* The whole of that list, or its beginning, serves. *)
LEMMA PrefixServes ==
  ASSUME query \in Queries, docs \in Collections, NEW t, Sorted(t),
         NEW u \in Seq(Rows), \A n \in DOMAIN u : n \in DOMAIN t /\ u[n] = t[n],
         Len(u) = (IF query.limit = 0 \/ Len(t) =< query.limit THEN Len(t) ELSE query.limit)
  PROVE  Serves(u) /\ Distinct(u)
<1>1. query.limit \in Nat BY ReadsAssumption DEF Queries, ReadsAssumption
<1>2. DOMAIN u = 1..Len(u) /\ Len(u) \in Nat BY LenProperties
<1>3. t \in Seq(Rows) BY DEF Sorted
<1>4. DOMAIN t = 1..Len(t) /\ Len(t) \in Nat BY <1>3, LenProperties
<1>5. Cardinality(Matching) = Len(t) BY <1>3, DistinctCardinality DEF Sorted
<1>6. Distinct(u) BY DEF Distinct, Sorted
<1>7. IdsOf(u) \subseteq Matching BY DEF IdsOf, Sorted
<1>8. Len(u) = (IF query.limit = 0 \/ Cardinality(Matching) < query.limit
               THEN Cardinality(Matching) ELSE query.limit)
      BY <1>1, <1>4, <1>5
<1>9. /\ \A n \in DOMAIN u : u[n].doc = docs[u[n].id]
      /\ \A m, n \in DOMAIN u : m < n => Place(u[m].doc) =< Place(u[n].doc)
      BY DEF Sorted
<1>10. ASSUME NEW i \in Matching \ IdsOf(u), NEW n \in DOMAIN u
       PROVE  Place(u[n].doc) =< Place(docs[i])
  <2>1. PICK k \in DOMAIN t : t[k].id = i BY DEF Sorted, IdsOf
  <2>2. k \notin DOMAIN u BY <1>10, <2>1 DEF IdsOf
  <2>3. n < k BY <1>2, <1>4, <2>1, <2>2
  <2>4. Place(t[n].doc) =< Place(t[k].doc) BY <2>1, <2>3 DEF Sorted
  <2>5. t[k].doc = docs[i] BY <2>1 DEF Sorted
  <2>. QED BY <2>4, <2>5
<1>. QED BY <1>6, <1>7, <1>8, <1>9, <1>10 DEF Serves

LEMMA LimitedPrefix ==
  ASSUME query \in Queries, NEW t \in Seq(Rows), NEW u, u = Limited(t)
  PROVE  /\ u \in Seq(Rows) /\ \A n \in DOMAIN u : n \in DOMAIN t /\ u[n] = t[n]
         /\ Len(u) = (IF query.limit = 0 \/ Len(t) =< query.limit THEN Len(t) ELSE query.limit)
<1>1. query.limit \in Nat BY ReadsAssumption DEF Queries, ReadsAssumption
<1>2. DOMAIN t = 1..Len(t) /\ Len(t) \in Nat BY LenProperties
<1>3. CASE query.limit = 0 \/ Len(t) =< query.limit BY <1>3 DEF Limited
<1>4. CASE ~(query.limit = 0 \/ Len(t) =< query.limit)
  <2>1. u = SubSeq(t, 1, query.limit) BY <1>4 DEF Limited
  <2>2. \A n \in 1..query.limit : n \in DOMAIN t /\ t[n] \in Rows BY <1>1, <1>2, <1>4, ElementOfSeq
  <2>3. /\ u \in Seq(Rows) /\ Len(u) = query.limit
        /\ \A n \in 1..query.limit : u[n] = t[n]
    <3>1. /\ SubSeq(t, 1, query.limit) \in Seq(Rows)
          /\ Len(SubSeq(t, 1, query.limit)) = IF 1 <= query.limit THEN query.limit - 1 + 1 ELSE 0
          /\ \A n \in 1..(query.limit - 1 + 1) : SubSeq(t, 1, query.limit)[n] = t[1 + n - 1]
          BY <1>1, <2>2, SubSeqProperties
    <3>. QED BY <1>1, <1>4, <2>1, <3>1
  <2>4. DOMAIN u = 1..query.limit BY <2>3, LenProperties
  <2>. QED BY <1>4, <2>2, <2>3, <2>4
<1>. QED BY <1>3, <1>4

(* Without a sort any matches serve, as long as there are enough of them. *)
LEMMA UnsortedServes ==
  ASSUME query \in Queries, query.sort = "none", NEW u \in Seq(Rows), IdsOf(u) \subseteq Matching,
         \A n \in DOMAIN u : u[n].doc = docs[u[n].id],
         Len(u) = (IF query.limit = 0 \/ Cardinality(Matching) < query.limit
                   THEN Cardinality(Matching) ELSE query.limit)
  PROVE  Serves(u)
<1>1. \A doc : Place(doc) = 0 BY DEF Place
<1>. QED BY <1>1 DEF Serves

-----------------------------------------------------------------------------
(* The worklists of the shards, whatever was yielded. *)
LEMMA NamesWithin ==
  ASSUME NEW T, IsFiniteSet(T), NEW g
  PROVE  /\ IsFiniteSet({g[n] : n \in T})
         /\ Cardinality({g[n] : n \in T}) <= Cardinality(T)
<1>. DEFINE f == [n \in T |-> g[n]]
            U == {g[n] : n \in T}
<1>1. f \in [T -> U] /\ \A v \in U : \E n \in T : f[n] = v OBVIOUS
<1>2. f \in Surjection(T, U)
  <2>. HIDE DEF f, U
  <2>. QED BY <1>1 DEF Surjection
<1>. QED BY <1>2, FS_Surjection

(* Of a finite set of numbers, no more than limit have fewer than limit below. *)
LEMMA FirstOnes ==
  ASSUME NEW M \in SUBSET Nat, IsFiniteSet(M), NEW limit \in Nat,
         NEW T, T = {m \in M : Cardinality({k \in M : k < m}) < limit}
  PROVE  IsFiniteSet(T) /\ Cardinality(T) <= limit
<1>. DEFINE less == {p \in M \X M : p[1] < p[2]}
            f == [m \in T |-> Cardinality({k \in M : k < m}) + 1]
<1>1. \A i, j \in M : <<i, j>> \in less <=> i < j OBVIOUS
<1>2. StrictOrder(M, less)
  <2>1. ASSUME NEW i \in M, NEW j \in M, NEW k \in M, <<i, j>> \in less, <<j, k>> \in less
        PROVE  <<i, k>> \in less
    <3>1. i \in Nat /\ j \in Nat /\ k \in Nat /\ i < j /\ j < k BY <1>1, <2>1
    <3>. QED BY <1>1, <3>1
  <2>2. ASSUME NEW i \in M, NEW j \in M, i # j PROVE <<i, j>> \in less \/ <<j, i>> \in less
    <3>1. i \in Nat /\ j \in Nat OBVIOUS
    <3>. QED BY <1>1, <2>2, <3>1
  <2>3. ASSUME NEW i \in M PROVE <<i, i>> \notin less BY <1>1
  <2>. HIDE DEF less
  <2>. QED BY <2>1, <2>2, <2>3 DEF StrictOrder
<1>3. \A m \in M : Below(M, less, m) = {k \in M : k < m} BY <1>1 DEF Below
<1>. HIDE DEF less
<1>4. ASSUME NEW m \in T PROVE f[m] \in 1..limit /\ f[m] = Cardinality(Below(M, less, m)) + 1 /\ m \in M
  <2>1. m \in M /\ Cardinality({k \in M : k < m}) < limit OBVIOUS
  <2>2. Cardinality(Below(M, less, m)) \in 0..(Cardinality(M) - 1) BY <1>2, <2>1, RankRange
  <2>3. f[m] = Cardinality(Below(M, less, m)) + 1 BY <1>3, <2>1
  <2>4. Cardinality(Below(M, less, m)) < limit BY <1>3, <2>1
  <2>. QED BY <2>1, <2>2, <2>3, <2>4
<1>5. ASSUME NEW m \in T, NEW n \in T, m # n PROVE f[m] # f[n]
  <2>1. m \in M /\ n \in M /\ f[m] = Cardinality(Below(M, less, m)) + 1
        /\ f[n] = Cardinality(Below(M, less, n)) + 1 BY <1>4
  <2>2. Cardinality(Below(M, less, m)) \in 0..(Cardinality(M) - 1)
        /\ Cardinality(Below(M, less, n)) \in 0..(Cardinality(M) - 1) BY <1>2, <2>1, RankRange
  <2>3. CASE <<m, n>> \in less
    <3>1. Cardinality(Below(M, less, m)) < Cardinality(Below(M, less, n)) BY <1>2, <2>1, <2>3, RankMonotone
    <3>. QED BY <2>1, <2>2, <3>1
  <2>4. CASE <<n, m>> \in less
    <3>1. Cardinality(Below(M, less, n)) < Cardinality(Below(M, less, m)) BY <1>2, <2>1, <2>4, RankMonotone
    <3>. QED BY <2>1, <2>2, <3>1
  <2>. QED BY <1>2, <1>5, <2>1, <2>3, <2>4 DEF StrictOrder
<1>6. f \in [T -> 1..limit] BY <1>4
<1>. HIDE DEF f
<1>7. f \in Injection(T, 1..limit) BY <1>5, <1>6 DEF Injection, IsInjective
<1>8. IsFiniteSet(1..limit) /\ Cardinality(1..limit) = limit BY FS_Interval
<1>. QED BY <1>7, <1>8, FS_Injection

(* At least as many numbers below m as are in any set of numbers below m. *)
LEMMA FewBelow ==
  ASSUME NEW m \in Nat \ {0}, NEW T \in SUBSET (1..(m - 1))
  PROVE  Cardinality(T) < m
<1>1. IsFiniteSet(1..(m - 1)) /\ Cardinality(1..(m - 1)) = m - 1 BY FS_Interval
<1>2. IsFiniteSet(T) /\ Cardinality(T) <= m - 1 BY <1>1, FS_Subset
<1>. QED BY <1>2, FS_CardinalityType

(* The places a shard takes from, as Taken has them. *)
Fresh(s, n) ==
  /\ ShardOf[NameOf[out[n].id]] = s
  /\ \A m \in 1..(n - 1) : NameOf[out[m].id] # NameOf[out[n].id]
Mine(s) == {n \in DOMAIN out : Fresh(s, n)}
First(s, limit) == {m \in Mine(s) : Cardinality({k \in Mine(s) : k < m}) < limit}

LEMMA TakenIs ==
  ASSUME NEW s, NEW limit
  PROVE  Taken(s, limit) = {NameOf[out[n].id] : n \in First(s, limit)}
BY DEF Taken, First, Mine, Fresh

LEMMA Worklists ==
  ASSUME out \in Seq(Rows)
  PROVE  WorklistsCover
<1>1. DOMAIN out = 1..Len(out) /\ Len(out) \in Nat BY LenProperties
<1>. SUFFICES ASSUME NEW limit \in Limits
     PROVE  /\ \A s \in 0..(Shards - 1) : Cardinality(Taken(s, limit)) =< limit
            /\ \A n \in DOMAIN out : n =< limit =>
                 \E s \in 0..(Shards - 1) : NameOf[out[n].id] \in Taken(s, limit)
     BY DEF WorklistsCover
<1>2. limit \in Nat BY ReadsAssumption DEF ReadsAssumption
<1>3. \A s : Mine(s) \subseteq Nat /\ Mine(s) \subseteq DOMAIN out /\ IsFiniteSet(Mine(s))
  <2>1. IsFiniteSet(DOMAIN out) BY <1>1, FS_Interval
  <2>2. \A s : Mine(s) \in SUBSET DOMAIN out BY DEF Mine
  <2>. QED BY <1>1, <2>1, <2>2, FS_Subset
<1>4. ASSUME NEW s \in 0..(Shards - 1) PROVE Cardinality(Taken(s, limit)) =< limit
  <2>. DEFINE T == First(s, limit)
              g == [n \in T |-> NameOf[out[n].id]]
  <2>1. IsFiniteSet(T) /\ Cardinality(T) <= limit
    <3>. HIDE DEF T
    <3>1. T = {m \in Mine(s) : Cardinality({k \in Mine(s) : k < m}) < limit} BY DEF T, First
    <3>. QED BY <1>2, <1>3, <3>1, FirstOnes
  <2>2. Taken(s, limit) = {g[n] : n \in T} BY TakenIs
  <2>. HIDE DEF g, T
  <2>3. Cardinality({g[n] : n \in T}) <= Cardinality(T) BY <2>1, NamesWithin
  <2>4. Cardinality(T) \in Nat BY <2>1, FS_CardinalityType
  <2>5. IsFiniteSet({g[n] : n \in T}) BY <2>1, NamesWithin
  <2>6. Cardinality({g[n] : n \in T}) \in Nat BY <2>5, FS_CardinalityType
  <2>. QED BY <1>2, <2>1, <2>2, <2>3, <2>4, <2>6
<1>5. ASSUME NEW n \in DOMAIN out, n =< limit
      PROVE  \E s \in 0..(Shards - 1) : NameOf[out[n].id] \in Taken(s, limit)
  <2>. DEFINE name == NameOf[out[n].id]
              Same == {m \in DOMAIN out : NameOf[out[m].id] = name}
  <2>1. n \in Same /\ Same \subseteq Nat BY <1>1
  <2>2. PICK m \in Same : \A k \in Same : m <= k BY <2>1, LeastNatural
  <2>3. m \in DOMAIN out /\ NameOf[out[m].id] = name /\ m <= n /\ m \in Nat \ {0} BY <1>1, <2>1, <2>2
  <2>4. out[n] \in Rows BY <1>1, ElementOfSeq
  <2>5. out[n].id \in Ids BY <2>4, RowTypes
  <2>6. ShardOf[name] \in 0..(Shards - 1) BY <2>5, ReadsAssumption DEF ReadsAssumption
  <2>. DEFINE s == ShardOf[name]
  <2>7. \A k \in 1..(m - 1) : NameOf[out[k].id] # NameOf[out[m].id]
    <3>. SUFFICES ASSUME NEW k \in 1..(m - 1), NameOf[out[k].id] = name PROVE FALSE BY <2>3
    <3>1. k \in DOMAIN out BY <1>1, <2>3
    <3>. QED BY <2>2, <2>3, <3>1
  <2>8. m \in Mine(s) BY <2>3, <2>7 DEF Mine, Fresh
  <2>9. Cardinality({k \in Mine(s) : k < m}) < limit
    <3>1. {k \in Mine(s) : k < m} \in SUBSET (1..(m - 1)) BY <1>1, <1>3, <2>3
    <3>2. Cardinality({k \in Mine(s) : k < m}) < m BY <2>3, <3>1, FewBelow
    <3>3. Cardinality({k \in Mine(s) : k < m}) \in Nat
      <4>1. IsFiniteSet(1..(m - 1)) BY <2>3, FS_Interval
      <4>. QED BY <3>1, <4>1, FS_Subset, FS_CardinalityType
    <3>. QED BY <1>1, <1>2, <1>5, <2>3, <3>2, <3>3
  <2>10. m \in First(s, limit) BY <2>8, <2>9 DEF First
  <2>11. name \in Taken(s, limit) BY <2>3, <2>10, TakenIs
  <2>. QED BY <2>6, <2>11
<1>. QED BY <1>4, <1>5

-----------------------------------------------------------------------------
(* How a list ends: ListAgrees, of the collection as it is then. *)
AgreesOn(u, changed) ==
  /\ Cardinality(IdsOf(u)) = Len(u)
  /\ changed = {} => Serves(u)
  /\ IdsOf(u) \ changed \subseteq Matching
  /\ query.limit = 0 => Matching \ changed \subseteq IdsOf(u)

LEMMA ServesAgrees ==
  ASSUME docs \in Collections, NEW u \in Seq(Rows), Distinct(u), Serves(u)
  PROVE  AgreesOn(u, {})
<1>1. Cardinality(IdsOf(u)) = Len(u) BY DistinctCardinality
<1>2. IdsOf(u) \in SUBSET Matching BY DEF Serves
<1>3. ASSUME query.limit = 0 PROVE Matching \subseteq IdsOf(u)
  <2>1. Len(u) = Cardinality(Matching) BY <1>3 DEF Serves
  <2>. QED BY <1>1, <1>2, <2>1, MatchingFinite, FS_Subset
<1>. QED BY <1>1, <1>2, <1>3 DEF AgreesOn

Still == backend' = backend /\ query' = query /\ docs' = docs

LEMMA EndAgrees ==
  ASSUME Still, touched' = touched, AgreesOn(out', touched)
  PROVE  ListAgrees'
<1>1. Matching' = Matching BY DEF Still, Matching, MatchesWhere
<1>2. Yielded' = IdsOf(out') BY DEF Yielded, IdsOf
<1>3. touched = {} => Undisturbed'
  <2>. SUFFICES ASSUME touched = {} PROVE Undisturbed' OBVIOUS
  <2>1. Serves(out') BY DEF AgreesOn
  <2>2. \A d : Place(d)' = Place(d) BY DEF Place, Still
  <2>. QED BY <1>1, <1>2, <2>1, <2>2 DEF Serves, Undisturbed, Still
<1>4. query' = query BY DEF Still
<1>. QED BY <1>1, <1>2, <1>3, <1>4 DEF ListAgrees, AgreesOn

(* A step that ends the list keeps the invariant when what it has yielded agrees. *)
LEMMA EndKeeps ==
  ASSUME ReadsInv, Still, touched' = touched, phase' = "done", keys' \in Seq(Ids), rows' \in Seq(Rows),
         out' \in Seq(Rows), AgreesOn(out', touched)
  PROVE  ReadsInv'
<1>1. ListAgrees' BY EndAgrees
<1>2. ReadsTypeOK' BY DEF ReadsInv, ReadsTypeOK, Still
<1>3. StartInv' /\ ListedInv' BY DEF StartInv, ListedInv
<1>4. PagedInv' BY DEF PagedInv, ReadsInv, Still
<1>. QED BY <1>1, <1>2, <1>3, <1>4 DEF ReadsInv

(* What the in-memory store sorts, and Meilisearch keeps sorted. *)
LEMMA AllSorted ==
  ASSUME query \in Queries, docs \in Collections
  PROVE  /\ Sorted(SortRows(InOrder(Matching)))
         /\ Len(SortRows(InOrder(Matching))) = Cardinality(Matching)
<1>. DEFINE s == InOrder(Matching)
<1>1. Matching \in SUBSET DOMAIN docs BY MatchingFinite
<1>2. /\ s \in Seq(Rows) /\ Len(s) = Cardinality(Matching) /\ Ascending(s) /\ IdsOf(s) = Matching
      /\ \A n \in DOMAIN s : s[n].doc = docs[s[n].id]
      BY <1>1, InOrderRows
<1>3. Distinct(s) BY <1>2, AscendingDistinct
<1>. HIDE DEF s
<1>4. Sorted(SortRows(s)) /\ Len(SortRows(s)) = Len(s) BY <1>2, <1>3, SortRowsSorted
<1>. QED BY <1>2, <1>4 DEF s

LEMMA MemoryKeeps ==
  ASSUME ReadsInv, ListMemory
  PROVE  ReadsInv'
<1>. DEFINE t == SortRows(InOrder(Matching))
<1>1. /\ query \in Queries /\ docs \in Collections /\ keys \in Seq(Ids) /\ rows \in Seq(Rows)
      BY DEF ReadsInv, ReadsTypeOK
<1>2. touched = {} BY DEF ReadsInv, StartInv, ListMemory
<1>3. /\ Still /\ touched' = touched /\ keys' = keys /\ rows' = rows
      /\ phase' = "done" /\ out' = Limited(t)
      BY DEF ListMemory, Ended, Still
<1>4. Sorted(t) BY <1>1, AllSorted
<1>. HIDE DEF t
<1>5. t \in Seq(Rows) BY <1>4 DEF Sorted
<1>6. PICK u : u = out' OBVIOUS
<1>7. /\ u \in Seq(Rows) /\ \A n \in DOMAIN u : n \in DOMAIN t /\ u[n] = t[n]
      /\ Len(u) = (IF query.limit = 0 \/ Len(t) =< query.limit THEN Len(t) ELSE query.limit)
      BY <1>1, <1>3, <1>5, <1>6, LimitedPrefix
<1>8. Serves(u) /\ Distinct(u) BY <1>1, <1>4, <1>7, PrefixServes
<1>9. AgreesOn(u, {}) BY <1>1, <1>7, <1>8, ServesAgrees
<1>. QED BY <1>1, <1>2, <1>3, <1>6, <1>7, <1>9, EndKeeps

LEMMA KeysKeep ==
  ASSUME ReadsInv, ListKeys
  PROVE  ReadsInv'
<1>. DEFINE s == InOrder(DOMAIN docs)
<1>1. /\ query \in Queries /\ docs \in Collections /\ backend = "fs"
      /\ keys = <<>> /\ rows = <<>> /\ out = <<>> /\ touched = {}
      BY DEF ReadsInv, ReadsTypeOK, StartInv, ListKeys
<1>2. /\ s \in Seq(Rows) /\ Len(s) = Cardinality(DOMAIN docs) /\ Cardinality(DOMAIN docs) \in Nat
      /\ Ascending(s) /\ IdsOf(s) = DOMAIN docs
  <2>1. DOMAIN docs \in SUBSET DOMAIN docs OBVIOUS
  <2>. QED BY <1>1, <2>1, InOrderRows
<1>3. /\ Still /\ touched' = touched /\ rows' = rows /\ out' = out /\ phase' = "reading"
      /\ keys' = [n \in 1..Cardinality(DOMAIN docs) |-> s[n].id]
      BY DEF ListKeys, Still
<1>. HIDE DEF s
<1>4. DOMAIN s = 1..Cardinality(DOMAIN docs) BY <1>2, LenProperties
<1>5. \A n \in DOMAIN s : s[n].id \in Ids BY <1>2, <1>4, ElementOfSeq, RowTypes
<1>6. keys' \in Seq(Ids) BY <1>2, <1>3, <1>4, <1>5, SeqDef
<1>7. DOMAIN keys' = DOMAIN s /\ \A n \in DOMAIN s : keys'[n] = s[n].id BY <1>3, <1>4
<1>8. ReadsTypeOK' BY <1>3, <1>6 DEF ReadsInv, ReadsTypeOK, Still
<1>9. StartInv' /\ ListAgrees' BY <1>3 DEF StartInv, ListAgrees
<1>10. ListedInv'
  <2>1. ReadRows' = <<>> BY <1>1, <1>3 DEF ReadRows
  <2>2. DOMAIN <<>> = {} OBVIOUS
  <2>3. \A m, n \in DOMAIN keys' : m < n => keys'[m] < keys'[n] BY <1>2, <1>7 DEF Ascending
  <2>4. rows' = <<>> /\ out' = <<>> /\ Len(out') = 0 BY <1>1, <1>3
  <2>5. Matching' \subseteq DOMAIN docs BY <1>3 DEF Matching, Still
  <2>6. DOMAIN docs = {keys'[k] : k \in DOMAIN keys'} BY <1>2, <1>7 DEF IdsOf
  <2>7. query'.limit \in Nat BY <1>1, <1>3, ReadsAssumption DEF Queries, ReadsAssumption, Still
  <2>8. Ascending(ReadRows)' BY <2>1, <2>2 DEF Ascending
  <2>. QED BY <2>1, <2>2, <2>3, <2>4, <2>5, <2>6, <2>7, <2>8 DEF ListedInv
<1>11. PagedInv' BY <1>1, <1>3 DEF PagedInv, Still
<1>. QED BY <1>8, <1>9, <1>10, <1>11 DEF ReadsInv

LEMMA AppendRow ==
  ASSUME NEW s \in Seq(Rows), Ascending(s), NEW r \in Rows, \A n \in DOMAIN s : s[n].id < r.id,
         NEW t, t = Append(s, r)
  PROVE  /\ t \in Seq(Rows) /\ Ascending(t) /\ IdsOf(t) = IdsOf(s) \cup {r.id} /\ Len(t) = Len(s) + 1
         /\ \A n \in DOMAIN t : t[n] = r \/ (n \in DOMAIN s /\ t[n] = s[n])
<1>1. DOMAIN s = 1..Len(s) /\ Len(s) \in Nat BY LenProperties
<1>2. /\ t \in Seq(Rows) /\ Len(t) = Len(s) + 1 /\ t[Len(s) + 1] = r
      /\ \A n \in 1..Len(s) : t[n] = s[n]
      BY AppendProperties
<1>3. DOMAIN t = 1..(Len(s) + 1) BY <1>2, LenProperties
<1>4. Ascending(t)
  <2>. SUFFICES ASSUME NEW m \in DOMAIN t, NEW n \in DOMAIN t, m < n PROVE t[m].id < t[n].id
       BY DEF Ascending
  <2>1. m \in DOMAIN s /\ t[m] = s[m] BY <1>1, <1>2, <1>3
  <2>2. CASE n = Len(s) + 1 BY <1>2, <2>1, <2>2
  <2>3. CASE n # Len(s) + 1
    <3>1. n \in DOMAIN s /\ t[n] = s[n] BY <1>1, <1>2, <1>3, <2>3
    <3>. QED BY <2>1, <3>1 DEF Ascending
  <2>. QED BY <2>2, <2>3
<1>5. \A n \in DOMAIN t : t[n] = r \/ (n \in DOMAIN s /\ t[n] = s[n])
  <2>. SUFFICES ASSUME NEW n \in DOMAIN t PROVE t[n] = r \/ (n \in DOMAIN s /\ t[n] = s[n]) OBVIOUS
  <2>. QED BY <1>1, <1>2, <1>3
<1>6. \A n \in DOMAIN s : n \in DOMAIN t /\ t[n] = s[n] BY <1>1, <1>2, <1>3
<1>7. Len(s) + 1 \in DOMAIN t BY <1>1, <1>3
<1>8. IdsOf(t) = IdsOf(s) \cup {r.id} BY <1>2, <1>5, <1>6, <1>7 DEF IdsOf
<1>. QED BY <1>2, <1>4, <1>5, <1>8

LEMMA ReadKeyKeeps ==
  ASSUME ReadsInv, ReadKey
  PROVE  ReadsInv'
<1>. DEFINE h == Head(keys)
            hit == h \in Matching
            Had == ReadRows
            Has == IF hit THEN Append(Had, Row(h)) ELSE Had
<1>1. /\ query \in Queries /\ docs \in Collections /\ keys \in Seq(Ids) /\ rows \in Seq(Rows)
      /\ out \in Seq(Rows) /\ Had \in Seq(Rows) /\ touched \subseteq Ids
      /\ backend = "fs" /\ phase = "reading" /\ keys # <<>>
      BY DEF ReadsInv, ReadsTypeOK, ReadKey, ReadRows
<1>2. /\ \A m, n \in DOMAIN keys : m < n => keys[m] < keys[n]
      /\ IF query.sort = "none" THEN rows = <<>> ELSE out = <<>>
      /\ Ascending(Had)
      /\ \A n \in DOMAIN Had, k \in DOMAIN keys : Had[n].id < keys[k]
      /\ \A n \in DOMAIN Had : Had[n].id \notin touched => Had[n].id \in Matching /\ Had[n].doc = docs[Had[n].id]
      /\ Matching \ touched \subseteq IdsOf(Had) \cup {keys[k] : k \in DOMAIN keys}
      /\ query.limit # 0 => Len(out) < query.limit
      BY <1>1 DEF ReadsInv, ListedInv
<1>3. query.limit \in Nat BY <1>1, ReadsAssumption DEF Queries, ReadsAssumption
<1>4. /\ Still /\ touched' = touched /\ keys' = Tail(keys)
      /\ rows' = (IF hit /\ query.sort # "none" THEN Append(rows, Row(h)) ELSE rows)
      /\ out' = (IF hit /\ query.sort = "none" THEN Append(out, Row(h)) ELSE out)
      /\ phase' = IF Len(out') = query.limit /\ out' # out THEN "done" ELSE phase
      BY DEF ReadKey, Still
<1>5. /\ h \in Ids /\ h = keys[1] /\ Tail(keys) \in Seq(Ids) /\ Len(Tail(keys)) = Len(keys) - 1
      /\ \A n \in 1..Len(Tail(keys)) : Tail(keys)[n] = keys[n + 1]
      /\ DOMAIN Tail(keys) = 1..(Len(keys) - 1) /\ DOMAIN keys = 1..Len(keys) /\ Len(keys) \in Nat \ {0}
  <2>1. /\ h \in Ids /\ Tail(keys) \in Seq(Ids) /\ Len(Tail(keys)) = Len(keys) - 1
        /\ \A n \in 1..Len(Tail(keys)) : Tail(keys)[n] = keys[n + 1]
        BY <1>1, HeadTailProperties
  <2>2. Len(keys) \in Nat \ {0} BY <1>1, EmptySeq
  <2>3. h = keys[1] BY <1>1
  <2>4. DOMAIN Tail(keys) = 1..(Len(keys) - 1) /\ DOMAIN keys = 1..Len(keys)
        BY <1>1, <2>1, LenProperties
  <2>. QED BY <2>1, <2>2, <2>3, <2>4
<1>6. \A k \in DOMAIN Tail(keys) : k + 1 \in DOMAIN keys /\ Tail(keys)[k] = keys[k + 1] /\ h < Tail(keys)[k]
  <2>. SUFFICES ASSUME NEW k \in DOMAIN Tail(keys)
       PROVE  k + 1 \in DOMAIN keys /\ Tail(keys)[k] = keys[k + 1] /\ h < Tail(keys)[k]
       OBVIOUS
  <2>1. k + 1 \in DOMAIN keys /\ 1 \in DOMAIN keys /\ 1 < k + 1 /\ Tail(keys)[k] = keys[k + 1] BY <1>5
  <2>2. keys[1] < keys[k + 1] BY <1>2, <2>1
  <2>. QED BY <1>5, <2>1, <2>2
<1>7. DOMAIN keys = {1} \cup {k + 1 : k \in DOMAIN Tail(keys)}
  <2>1. \A n \in DOMAIN keys : n # 1 => n - 1 \in DOMAIN Tail(keys) /\ n = (n - 1) + 1 BY <1>5
  <2>2. 1 \in DOMAIN keys BY <1>5
  <2>. QED BY <1>6, <2>1, <2>2
<1>8. \A n \in DOMAIN Had : Had[n].id < h /\ Had[n].id \in Nat
  <2>1. 1 \in DOMAIN keys BY <1>5
  <2>2. \A n \in DOMAIN Had : Had[n] \in Rows BY <1>1, LenProperties, ElementOfSeq
  <2>. QED BY <1>2, <1>5, <2>1, <2>2, RowTypes
<1>9. hit => h \in DOMAIN docs /\ Row(h) \in Rows /\ Row(h).id = h /\ Row(h).doc = docs[h]
  <2>1. hit => h \in DOMAIN docs BY DEF Matching
  <2>. QED BY <1>1, <2>1, CollectionRows DEF Row
<1>10. /\ Has \in Seq(Rows) /\ Ascending(Has)
       /\ IdsOf(Has) = (IF hit THEN IdsOf(Had) \cup {h} ELSE IdsOf(Had))
       /\ \A n \in DOMAIN Has : (hit /\ Has[n] = Row(h)) \/ (n \in DOMAIN Had /\ Has[n] = Had[n])
       /\ hit => Len(Has) = Len(Had) + 1
  <2>1. CASE hit
    <3>1. PICK r \in Rows : r = Row(h) /\ r.id = h BY <1>9, <2>1
    <3>2. \A n \in DOMAIN Had : Had[n].id < r.id BY <1>8, <3>1
    <3>3. Has = Append(Had, r) BY <2>1, <3>1
    <3>4. Had \in Seq(Rows) /\ Ascending(Had) BY <1>1, <1>2
    <3>. HIDE DEF Has, Had, h
    <3>5. /\ Has \in Seq(Rows) /\ Ascending(Has) /\ IdsOf(Has) = IdsOf(Had) \cup {r.id} /\ Len(Has) = Len(Had) + 1
          /\ \A n \in DOMAIN Has : Has[n] = r \/ (n \in DOMAIN Had /\ Has[n] = Had[n])
          BY <3>2, <3>3, <3>4, AppendRow
    <3>. QED BY <2>1, <3>1, <3>5
  <2>2. CASE ~hit BY <1>1, <1>2, <2>2
  <2>. QED BY <2>1, <2>2
<1>11. IF query.sort = "none" THEN out' = Has /\ rows' = rows /\ Had = out
       ELSE rows' = Has /\ out' = out /\ Had = rows
       BY <1>4 DEF ReadRows
<1>. HIDE DEF Has, Had, h
<1>12. \A n \in DOMAIN Has, k \in DOMAIN Tail(keys) : Has[n].id < Tail(keys)[k]
  <2>. SUFFICES ASSUME NEW n \in DOMAIN Has, NEW k \in DOMAIN Tail(keys) PROVE Has[n].id < Tail(keys)[k]
       OBVIOUS
  <2>1. CASE hit /\ Has[n] = Row(h) BY <1>6, <1>9, <2>1
  <2>2. CASE n \in DOMAIN Had /\ Has[n] = Had[n] BY <1>2, <1>6, <2>2
  <2>. QED BY <1>10, <2>1, <2>2
<1>13. \A n \in DOMAIN Has : Has[n].id \notin touched => Has[n].id \in Matching /\ Has[n].doc = docs[Has[n].id]
  <2>. SUFFICES ASSUME NEW n \in DOMAIN Has, Has[n].id \notin touched
       PROVE  Has[n].id \in Matching /\ Has[n].doc = docs[Has[n].id]
       OBVIOUS
  <2>1. CASE hit /\ Has[n] = Row(h) BY <1>9, <2>1
  <2>2. CASE n \in DOMAIN Had /\ Has[n] = Had[n] BY <1>2, <2>2
  <2>. QED BY <1>10, <2>1, <2>2
<1>14. Matching \ touched \subseteq IdsOf(Has) \cup {Tail(keys)[k] : k \in DOMAIN Tail(keys)}
  <2>. SUFFICES ASSUME NEW i \in Matching, i \notin touched,
                       i \notin {Tail(keys)[k] : k \in DOMAIN Tail(keys)}
       PROVE  i \in IdsOf(Has)
       OBVIOUS
  <2>1. CASE i \in IdsOf(Had) BY <1>10, <2>1
  <2>2. CASE \E k \in DOMAIN keys : i = keys[k]
    <3>1. i = keys[1] BY <1>6, <1>7, <2>2
    <3>. QED BY <1>5, <1>10, <3>1
  <2>. QED BY <1>2, <2>1, <2>2
<1>15. keys' \in Seq(Ids) /\ out' \in Seq(Rows) /\ rows' \in Seq(Rows)
       BY <1>1, <1>4, <1>5, <1>10, <1>11
<1>16. CASE Len(out') = query.limit /\ out' # out
  <2>1. phase' = "done" /\ query.sort = "none" /\ hit /\ out' = Has /\ Had = out
        BY <1>4, <1>11, <1>16
  <2>2. Distinct(Has) BY <1>10, AscendingDistinct
  <2>3. Cardinality(IdsOf(Has)) = Len(Has) /\ IsFiniteSet(IdsOf(Has)) /\ Len(Has) \in Nat
        BY <1>10, <2>2, DistinctCardinality
  <2>4. Len(Had) \in Nat BY <1>1, LenProperties
  <2>5. query.limit # 0 /\ Len(Has) = query.limit BY <1>10, <1>16, <2>1, <2>4
  <2>6. IdsOf(Has) \ touched \subseteq Matching BY <1>13 DEF IdsOf
  <2>7. ASSUME touched = {} PROVE Serves(Has)
    <3>1. IdsOf(Has) \in SUBSET Matching BY <2>6, <2>7
    <3>2. \A n \in DOMAIN Has : Has[n].doc = docs[Has[n].id] BY <1>13, <2>7
    <3>3. Len(Has) <= Cardinality(Matching) /\ Cardinality(Matching) \in Nat
          BY <1>1, <2>3, <3>1, MatchingFinite, FS_Subset
    <3>4. Len(Has) = (IF query.limit = 0 \/ Cardinality(Matching) < query.limit
                    THEN Cardinality(Matching) ELSE query.limit)
          BY <1>3, <2>5, <3>3
    <3>. QED BY <1>1, <1>10, <2>1, <3>1, <3>2, <3>4, UnsortedServes
  <2>8. AgreesOn(Has, touched) BY <2>3, <2>5, <2>6, <2>7 DEF AgreesOn
  <2>. QED BY <1>4, <1>15, <2>1, <2>8, EndKeeps
<1>17. CASE ~(Len(out') = query.limit /\ out' # out)
  <2>1. phase' = "reading" BY <1>1, <1>4, <1>17
  <2>2. ReadsTypeOK' BY <1>4, <1>15, <2>1 DEF ReadsInv, ReadsTypeOK, Still
  <2>3. StartInv' /\ ListAgrees' BY <2>1 DEF StartInv, ListAgrees
  <2>4. PagedInv' BY <1>1, <1>4 DEF PagedInv, Still
  <2>5. ListedInv'
    <3>1. ReadRows' = Has BY <1>4, <1>11 DEF ReadRows, Still
    <3>2. \A m, n \in DOMAIN keys' : m < n => keys'[m] < keys'[n]
      <4>. SUFFICES ASSUME NEW m \in DOMAIN Tail(keys), NEW n \in DOMAIN Tail(keys), m < n
           PROVE  Tail(keys)[m] < Tail(keys)[n]
           BY <1>4
      <4>1. m + 1 < n + 1 BY <1>5
      <4>. QED BY <1>2, <1>6, <4>1
    <3>3. IF query'.sort = "none" THEN rows' = <<>> ELSE out' = <<>> BY <1>2, <1>4, <1>11 DEF Still
    <3>4. Matching' = Matching /\ docs' = docs /\ touched' = touched /\ query' = query
          BY <1>4 DEF Still, Matching, MatchesWhere
    <3>5. query.limit # 0 => Len(out') < query.limit
      <4>1. CASE out' = out BY <1>2, <4>1
      <4>2. CASE out' # out
        <5>1. hit /\ out' = Has /\ Had = out BY <1>4, <1>11, <4>2
        <5>2. Len(Had) \in Nat /\ Len(Has) = Len(Had) + 1 BY <1>1, <1>10, <5>1, LenProperties
        <5>. QED BY <1>2, <1>3, <1>17, <4>2, <5>1, <5>2
      <4>. QED BY <4>1, <4>2
    <3>6. Ascending(ReadRows)' BY <1>10, <3>1 DEF Ascending
    <3>7. IdsOf(ReadRows)' = IdsOf(Has) BY <3>1 DEF IdsOf
    <3>8. keys' = Tail(keys) BY <1>4
    <3>. QED BY <1>12, <1>13, <1>14, <3>1, <3>2, <3>3, <3>4, <3>5, <3>6, <3>7, <3>8 DEF ListedInv
  <2>. QED BY <2>2, <2>3, <2>4, <2>5 DEF ReadsInv
<1>. QED BY <1>16, <1>17

LEMMA ReadAllKeeps ==
  ASSUME ReadsInv, ReadAllEnds
  PROVE  ReadsInv'
<1>. DEFINE Had == ReadRows
<1>1. /\ query \in Queries /\ docs \in Collections /\ keys \in Seq(Ids) /\ rows \in Seq(Rows)
      /\ out \in Seq(Rows) /\ Had \in Seq(Rows) /\ backend = "fs" /\ phase = "reading" /\ keys = <<>>
      BY DEF ReadsInv, ReadsTypeOK, ReadAllEnds, ReadRows
<1>2. /\ Ascending(Had)
      /\ \A n \in DOMAIN Had : Had[n].id \notin touched => Had[n].id \in Matching /\ Had[n].doc = docs[Had[n].id]
      /\ Matching \ touched \subseteq IdsOf(Had) \cup {keys[k] : k \in DOMAIN keys}
      /\ query.limit # 0 => Len(out) < query.limit
      BY <1>1 DEF ReadsInv, ListedInv
<1>3. query.limit \in Nat BY <1>1, ReadsAssumption DEF Queries, ReadsAssumption
<1>4. /\ Still /\ touched' = touched /\ keys' = keys /\ rows' = rows /\ phase' = "done"
      /\ out' = IF query.sort = "none" THEN out ELSE Limited(SortRows(rows))
      BY DEF ReadAllEnds, Ended, Still
<1>5. {keys[k] : k \in DOMAIN keys} = {} BY <1>1
<1>6. Had = IF query.sort = "none" THEN out ELSE rows BY DEF ReadRows
<1>. HIDE DEF Had
<1>7. Distinct(Had) BY <1>1, <1>2, AscendingDistinct
<1>8. Matching \ touched \subseteq IdsOf(Had) BY <1>2, <1>5
<1>9. IdsOf(Had) \ touched \subseteq Matching BY <1>2 DEF IdsOf
<1>10. touched = {} => IdsOf(Had) = Matching /\ \A n \in DOMAIN Had : Had[n].doc = docs[Had[n].id]
       BY <1>2, <1>8, <1>9
<1>11. CASE query.sort = "none"
  <2>1. out' = Had /\ Had = out BY <1>4, <1>6, <1>11
  <2>2. Cardinality(IdsOf(Had)) = Len(Had) /\ Len(Had) \in Nat BY <1>1, <1>7, DistinctCardinality
  <2>3. ASSUME touched = {} PROVE Serves(Had)
    <3>1. Len(Had) = (IF query.limit = 0 \/ Cardinality(Matching) < query.limit
                    THEN Cardinality(Matching) ELSE query.limit)
          BY <1>2, <1>3, <1>10, <2>1, <2>2, <2>3
    <3>. QED BY <1>1, <1>10, <1>11, <2>3, <3>1, UnsortedServes
  <2>4. AgreesOn(Had, touched) BY <1>8, <1>9, <2>2, <2>3 DEF AgreesOn
  <2>. QED BY <1>1, <1>4, <2>1, <2>4, EndKeeps
<1>12. CASE query.sort # "none"
  <2>1. PICK t : t = SortRows(Had) OBVIOUS
  <2>2. PICK u : u = Limited(t) OBVIOUS
  <2>3. out' = u BY <1>4, <1>6, <1>12, <2>1, <2>2
  <2>4. /\ t \in Seq(Rows) /\ Len(t) = Len(Had) /\ Distinct(t)
        /\ \A n \in DOMAIN t : \E k \in DOMAIN Had : t[n] = Had[k]
        /\ \A k \in DOMAIN Had : \E n \in DOMAIN t : t[n] = Had[k]
        BY <1>1, <1>7, <2>1, SortedRows
  <2>5. /\ u \in Seq(Rows) /\ \A n \in DOMAIN u : n \in DOMAIN t /\ u[n] = t[n]
        /\ Len(u) = (IF query.limit = 0 \/ Len(t) =< query.limit THEN Len(t) ELSE query.limit)
    <3>1. query \in Queries /\ t \in Seq(Rows) BY <1>1, <2>4
    <3>. QED BY <2>2, <3>1, LimitedPrefix
  <2>6. Distinct(u) BY <2>4, <2>5 DEF Distinct
  <2>7. IdsOf(t) = IdsOf(Had) /\ IdsOf(u) \subseteq IdsOf(t) BY <2>4, <2>5 DEF IdsOf
  <2>8. Cardinality(IdsOf(u)) = Len(u) BY <2>5, <2>6, DistinctCardinality
  <2>9. query.limit = 0 => IdsOf(t) \subseteq IdsOf(u)
    <3>1. query.limit = 0 => DOMAIN u = DOMAIN t BY <2>4, <2>5, LenProperties
    <3>. QED BY <2>5, <3>1 DEF IdsOf
  <2>10. ASSUME touched = {} PROVE Serves(u)
    <3>1. Sorted(t) BY <1>1, <1>7, <1>10, <2>1, <2>10, SortRowsSorted
    <3>. QED BY <1>1, <2>5, <3>1, PrefixServes
  <2>11. AgreesOn(u, touched) BY <1>8, <1>9, <2>7, <2>8, <2>9, <2>10 DEF AgreesOn
  <2>. QED BY <1>1, <1>4, <2>3, <2>5, <2>11, EndKeeps
<1>. QED BY <1>11, <1>12

LEMMA NextPageKeeps ==
  ASSUME ReadsInv, NextPage
  PROVE  ReadsInv'
<1>0. PICK L : L = Len(out) OBVIOUS
<1>. DEFINE T == SortRows(InOrder(Matching))
            total == Cardinality(Matching)
            e == IF L + Remaining < total THEN L + Remaining ELSE total
            page == SubSeq(T, L + 1, e)
<1>1. /\ query \in Queries /\ docs \in Collections /\ keys \in Seq(Ids) /\ rows \in Seq(Rows)
      /\ out \in Seq(Rows) /\ backend = "meili" /\ phase \in {"start", "reading"}
      BY DEF ReadsInv, ReadsTypeOK, NextPage
<1>2. touched = {} BY <1>1 DEF ReadsInv, PagedInv
<1>3. Sorted(T) /\ Len(T) = total BY <1>1, AllSorted
<1>4. total \in Nat /\ L \in Nat /\ query.limit \in Nat /\ PageSize \in Nat \ {0}
      BY <1>0, <1>1, MatchingFinite, LenProperties, ReadsAssumption DEF Queries, ReadsAssumption
<1>5. T \in Seq(Rows) BY <1>3 DEF Sorted
<1>6. DOMAIN T = 1..total BY <1>3, <1>5, LenProperties
<1>7. L <= total /\ (query.limit # 0 => L <= query.limit) /\ out = SubSeq(T, 1, L)
  <2>1. CASE phase = "start"
    <3>1. out = <<>> /\ L = 0 BY <1>0, <2>1 DEF ReadsInv, StartInv
    <3>2. SubSeq(T, 1, L) = <<>> BY <1>4, <3>1, SubSeqEmpty
    <3>. QED BY <1>4, <3>1, <3>2
  <2>2. CASE phase = "reading" BY <1>0, <1>1, <2>2 DEF ReadsInv, PagedInv
  <2>. QED BY <1>1, <2>1, <2>2
<1>8. L <= total /\ (query.limit # 0 => L <= query.limit) BY <1>7
<1>9. /\ Still /\ touched' = touched /\ keys' = keys /\ rows' = rows
      /\ IF query.limit # 0 /\ L >= query.limit THEN phase' = "done" /\ out' = out
         ELSE /\ out' = out \o page
              /\ phase' = IF page = <<>> \/ Len(out') >= total THEN "done" ELSE "reading"
      BY <1>0 DEF NextPage, Ended, Still, LastPage
<1>10. Matching' = Matching BY <1>9 DEF Still, Matching, MatchesWhere
<1>. HIDE DEF T, total
\* A beginning of the sorted list that is as long as it should be serves.
<1>11. ASSUME NEW n \in 0..total, NEW u, u = SubSeq(T, 1, n)
       PROVE  /\ u \in Seq(Rows) /\ Len(u) = n
              /\ \A k \in DOMAIN u : k \in DOMAIN T /\ u[k] = T[k]
  <2>1. \A k \in 1..n : k \in DOMAIN T /\ T[k] \in Rows BY <1>3, <1>4, <1>5, <1>6, ElementOfSeq
  <2>2. /\ SubSeq(T, 1, n) \in Seq(Rows)
        /\ Len(SubSeq(T, 1, n)) = IF 1 <= n THEN n - 1 + 1 ELSE 0
        /\ \A k \in 1..(n - 1 + 1) : SubSeq(T, 1, n)[k] = T[1 + k - 1]
        BY <1>4, <2>1, SubSeqProperties
  <2>3. u \in Seq(Rows) /\ Len(u) = n /\ \A k \in 1..n : u[k] = T[k] BY <1>4, <1>11, <2>2
  <2>. QED BY <2>1, <2>3, LenProperties
<1>12. ASSUME NEW n \in 0..total, NEW u, u = SubSeq(T, 1, n),
              n = (IF query.limit = 0 \/ total =< query.limit THEN total ELSE query.limit)
       PROVE  AgreesOn(u, {}) /\ u \in Seq(Rows)
  <2>1. /\ u \in Seq(Rows) /\ Len(u) = n
        /\ \A k \in DOMAIN u : k \in DOMAIN T /\ u[k] = T[k]
        BY <1>11, <1>12
  <2>2. Len(u) = (IF query.limit = 0 \/ Len(T) =< query.limit THEN Len(T) ELSE query.limit)
        BY <1>3, <1>12, <2>1
  <2>3. Serves(u) /\ Distinct(u) BY <1>1, <1>3, <2>1, <2>2, PrefixServes
  <2>. QED BY <1>1, <2>1, <2>3, ServesAgrees
<1>13. CASE query.limit # 0 /\ L >= query.limit
  <2>1. phase' = "done" /\ out' = out BY <1>9, <1>13
  <2>2. L \in 0..total /\ L = (IF query.limit = 0 \/ total =< query.limit THEN total ELSE query.limit)
        BY <1>4, <1>8, <1>13
  <2>3. AgreesOn(out, {}) BY <1>12, <1>7, <2>2
  <2>. QED BY <1>1, <1>2, <1>9, <2>1, <2>3, EndKeeps
<1>14. CASE ~(query.limit # 0 /\ L >= query.limit)
  <2>1. out' = out \o page /\ phase' = (IF page = <<>> \/ Len(out') >= total THEN "done" ELSE "reading")
        BY <1>9, <1>14
  <2>2. Remaining \in Nat \ {0} /\ (query.limit # 0 => L + Remaining <= query.limit)
        BY <1>0, <1>4, <1>14 DEF Remaining
  <2>3. /\ e \in L..total /\ (e = L => L = total)
        /\ (query.limit # 0 => e <= query.limit)
        BY <1>4, <1>8, <2>2
  <2>. HIDE DEF e
  <2>4. SubSeq(T, 1, L) \o SubSeq(T, L + 1, e) = SubSeq(T, 1, e)
    <3>1. 1 \in 1..(Len(T) + 1) /\ L \in (1 - 1)..Len(T) /\ e \in L..Len(T) BY <1>3, <1>4, <1>8, <2>3
    <3>. QED BY <1>5, <3>1, ConcatAdjacentSubSeq
  <2>5. out' = SubSeq(T, 1, e) /\ e \in 0..total BY <1>4, <1>8, <1>7, <2>1, <2>3, <2>4
  <2>6. out' \in Seq(Rows) /\ Len(out') = e BY <1>11, <2>5
  <2>7. page = <<>> => e = L
    <3>1. SUFFICES ASSUME page = <<>>, e # L PROVE FALSE OBVIOUS
    <3>2. \A k \in (L + 1)..e : T[k] \in Rows BY <1>3, <1>4, <1>5, <1>6, <2>3, ElementOfSeq
    <3>3. Len(SubSeq(T, L + 1, e)) = IF L + 1 <= e THEN e - (L + 1) + 1 ELSE 0
          BY <1>4, <2>3, <3>2, SubSeqProperties
    <3>4. Len(SubSeq(T, L + 1, e)) = 0
      <4>1. Len(<<>>) = 0 OBVIOUS
      <4>. QED BY <3>1, <4>1, Zenon
    <3>5. e # L BY <3>1
    <3>. QED BY <1>4, <2>3, <3>3, <3>4, <3>5
  <2>8. CASE phase' = "done"
    <3>1. page = <<>> \/ e >= total BY <2>1, <2>6, <2>8
    <3>2. e = total BY <1>4, <2>3, <2>7, <3>1
    <3>3. e = (IF query.limit = 0 \/ total =< query.limit THEN total ELSE query.limit)
          BY <1>4, <2>3, <3>2
    <3>4. AgreesOn(out', {}) BY <1>12, <2>5, <3>3
    <3>. QED BY <1>1, <1>2, <1>9, <2>6, <2>8, <3>4, EndKeeps
  <2>9. CASE phase' = "reading"
    <3>1. ReadsTypeOK' BY <1>9, <2>6, <2>9 DEF ReadsInv, ReadsTypeOK, Still
    <3>2. StartInv' /\ ListAgrees' BY <2>9 DEF StartInv, ListAgrees
    <3>3. ListedInv' BY <1>1, <1>9 DEF ListedInv, Still
    <3>4. T' = T
      <4>1. docs' = docs /\ query' = query BY <1>9 DEF Still
      <4>. QED BY <1>10, <4>1 DEF T, SortRows, InOrder, Row, Precedes, Before
    <3>5. total' = total BY <1>10 DEF total
    <3>6. PagedInv'
      <4>1. Len(out') <= total' /\ (query'.limit # 0 => Len(out') <= query'.limit)
            BY <1>4, <1>9, <2>3, <2>6, <3>5 DEF Still
      <4>2. out' = SubSeq(T', 1, Len(out')) BY <2>5, <2>6, <3>4
      <4>. QED BY <1>1, <1>2, <1>9, <4>1, <4>2 DEF PagedInv, Still, T, total
    <3>. QED BY <3>1, <3>2, <3>3, <3>6 DEF ReadsInv
  <2>. QED BY <2>1, <2>8, <2>9
<1>. QED BY <1>13, <1>14

LEMMA TouchKeeps ==
  ASSUME ReadsInv, Touch
  PROVE  ReadsInv'
<1>1. /\ query \in Queries /\ docs \in Collections /\ touched \subseteq Ids
      /\ backend = "fs" /\ phase = "reading"
      BY DEF ReadsInv, ReadsTypeOK, Touch
<1>2. /\ \A m, n \in DOMAIN keys : m < n => keys[m] < keys[n]
      /\ IF query.sort = "none" THEN rows = <<>> ELSE out = <<>>
      /\ Ascending(ReadRows)
      /\ \A n \in DOMAIN ReadRows, k \in DOMAIN keys : ReadRows[n].id < keys[k]
      /\ \A n \in DOMAIN ReadRows : ReadRows[n].id \notin touched =>
           ReadRows[n].id \in Matching /\ ReadRows[n].doc = docs[ReadRows[n].id]
      /\ Matching \ touched \subseteq IdsOf(ReadRows) \cup {keys[k] : k \in DOMAIN keys}
      /\ query.limit # 0 => Len(out) < query.limit
      BY <1>1 DEF ReadsInv, ListedInv
<1>3. PICK i \in Ids :
        /\ touched' = touched \cup {i}
        /\ \/ \E d \in Documents : docs' = [j \in DOMAIN docs \cup {i} |-> IF j = i THEN d ELSE docs[j]]
           \/ docs' = [j \in DOMAIN docs \ {i} |-> docs[j]]
      BY DEF Touch
<1>4. UNCHANGED <<backend, query, phase, keys, rows, out>> BY DEF Touch
<1>5. PICK present \in SUBSET Ids : docs \in [present -> Documents] BY <1>1 DEF Collections
<1>6. docs' \in Collections
      /\ \A j : j # i => /\ j \in DOMAIN docs' <=> j \in DOMAIN docs
                         /\ j \in DOMAIN docs => docs'[j] = docs[j]
  <2>1. CASE docs' = [j \in DOMAIN docs \ {i} |-> docs[j]]
    <3>1. docs' \in [present \ {i} -> Documents] /\ present \ {i} \in SUBSET Ids BY <1>5, <2>1
    <3>2. docs' \in Collections BY <3>1 DEF Collections
    <3>. QED BY <2>1, <3>2
  <2>2. ASSUME NEW d \in Documents,
               docs' = [j \in DOMAIN docs \cup {i} |-> IF j = i THEN d ELSE docs[j]]
        PROVE  /\ docs' \in Collections
               /\ \A j : j # i => /\ j \in DOMAIN docs' <=> j \in DOMAIN docs
                                  /\ j \in DOMAIN docs => docs'[j] = docs[j]
    <3>1. docs' \in [present \cup {i} -> Documents] /\ present \cup {i} \in SUBSET Ids BY <1>3, <1>5, <2>2
    <3>2. docs' \in Collections BY <3>1 DEF Collections
    <3>. QED BY <2>2, <3>2
  <2>. QED BY <1>3, <2>1, <2>2
<1>7. \A j : j # i => /\ j \in Matching' <=> j \in Matching
                      /\ j \in Matching => docs'[j] = docs[j]
  <2>. SUFFICES ASSUME NEW j, j # i
       PROVE  (j \in Matching' <=> j \in Matching) /\ (j \in Matching => docs'[j] = docs[j])
       OBVIOUS
  <2>1. (j \in DOMAIN docs' <=> j \in DOMAIN docs) /\ (j \in DOMAIN docs => docs'[j] = docs[j]) BY <1>6
  <2>2. query' = query BY <1>4
  <2>. QED BY <2>1, <2>2 DEF Matching, MatchesWhere
<1>8. ReadsTypeOK' BY <1>3, <1>4, <1>6 DEF ReadsInv, ReadsTypeOK
<1>9. StartInv' /\ ListAgrees' /\ PagedInv' BY <1>1, <1>4 DEF StartInv, ListAgrees, PagedInv
<1>10. ListedInv'
  <2>1. ReadRows' = ReadRows BY <1>4 DEF ReadRows
  <2>2. \A n \in DOMAIN ReadRows : ReadRows[n].id \notin touched' =>
           ReadRows[n].id \in Matching' /\ ReadRows[n].doc = docs'[ReadRows[n].id]
    <3>. SUFFICES ASSUME NEW n \in DOMAIN ReadRows, ReadRows[n].id \notin touched'
         PROVE  ReadRows[n].id \in Matching' /\ ReadRows[n].doc = docs'[ReadRows[n].id]
         OBVIOUS
    <3>1. PICK j : j = ReadRows[n].id OBVIOUS
    <3>2. j # i /\ j \in Matching /\ ReadRows[n].doc = docs[j] BY <1>2, <1>3, <3>1
    <3>. QED BY <1>7, <3>1, <3>2
  <2>3. Matching' \ touched' \subseteq IdsOf(ReadRows) \cup {keys[k] : k \in DOMAIN keys} BY <1>2, <1>3, <1>7
  <2>4. Ascending(ReadRows)' /\ IdsOf(ReadRows)' = IdsOf(ReadRows) BY <1>2, <2>1 DEF Ascending, IdsOf
  <2>. QED BY <1>2, <1>4, <2>1, <2>2, <2>3, <2>4 DEF ListedInv
<1>. QED BY <1>8, <1>9, <1>10 DEF ReadsInv

(* Whatever is asked of whichever store, what it has yielded when it ends  *)
(* is what the port promises, and the worklists made of it cover it.       *)
THEOREM ListReadsAgree == ListSpec => []ReadsAgree
<1>1. ListInit => ReadsInv
  <2>. SUFFICES ASSUME ListInit PROVE ReadsInv OBVIOUS
  <2>1. ReadsTypeOK /\ StartInv /\ ListedInv /\ PagedInv /\ ListAgrees
        BY DEF ListInit, ReadsTypeOK, StartInv, ListedInv, PagedInv, ListAgrees
  <2>. QED BY <2>1 DEF ReadsInv
<1>2. ReadsInv /\ [ListNext]_listing => ReadsInv'
  <2>. SUFFICES ASSUME ReadsInv, [ListNext]_listing PROVE ReadsInv' OBVIOUS
  <2>1. CASE ListMemory BY <2>1, MemoryKeeps
  <2>2. CASE ListKeys BY <2>2, KeysKeep
  <2>3. CASE ReadKey BY <2>3, ReadKeyKeeps
  <2>4. CASE ReadAllEnds BY <2>4, ReadAllKeeps
  <2>5. CASE NextPage BY <2>5, NextPageKeeps
  <2>6. CASE Touch BY <2>6, TouchKeeps
  <2>7. CASE UNCHANGED listing
    <3>1. Still /\ UNCHANGED <<phase, keys, rows, out, touched>> BY <2>7 DEF listing, Still
    <3>2. Matching' = Matching /\ ReadRows' = ReadRows
          BY <3>1 DEF Still, Matching, MatchesWhere, ReadRows
    <3>3. SortRows(InOrder(Matching))' = SortRows(InOrder(Matching))
          BY <3>1, <3>2 DEF Still, SortRows, InOrder, Row, Precedes, Before
    <3>4. ReadsTypeOK' /\ StartInv' BY <3>1 DEF ReadsInv, ReadsTypeOK, StartInv, Still
    <3>5. ListedInv' BY <3>1, <3>2 DEF ReadsInv, ListedInv, Still, Ascending, IdsOf
    <3>6. PagedInv' BY <3>1, <3>2, <3>3 DEF ReadsInv, PagedInv, Still
    <3>7. ListAgrees'
      <4>1. Yielded' = Yielded BY <3>1 DEF Yielded
      <4>2. Undisturbed' = Undisturbed BY <3>1, <3>2, <4>1 DEF Undisturbed, Still, Place
      <4>. QED BY <3>1, <3>2, <4>1, <4>2 DEF ReadsInv, ListAgrees, Still
    <3>. QED BY <3>4, <3>5, <3>6, <3>7 DEF ReadsInv
  <2>. QED BY <2>1, <2>2, <2>3, <2>4, <2>5, <2>6, <2>7 DEF ListNext, Advance
<1>3. ReadsInv => ReadsAgree
  <2>1. ReadsInv => out \in Seq(Rows) BY DEF ReadsInv, ReadsTypeOK
  <2>. QED BY <2>1, Worklists DEF ReadsInv, ReadsAgree
<1>. QED BY <1>1, <1>2, <1>3, PTL DEF ListSpec
=============================================================================
