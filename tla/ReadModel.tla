------------------------------ MODULE ReadModel ------------------------------
(***************************************************************************)
(* What an operator does to the Meilisearch instance: `engine index create` *)
(* and `engine index seed` (apps/workers/src/cli/handlers.ts, read-model/)  *)
(* and `mise run search:settings` (packages/search).                       *)
(*                                                                         *)
(* A command is a list of tasks, each enqueued and waited for before the    *)
(* next.  The server runs the tasks of everybody in the order it got them.  *)
(* A task may fail; a command may be killed, or give up waiting, with its   *)
(* task still queued.  Operators take turns.  Of the three indexes that     *)
(* search:settings goes through, the first is modelled, the only one that   *)
(* anything here reads.                                                     *)
(***************************************************************************)
EXTENDS Naturals, FiniteSets, Sequences, SequencesExt

CONSTANTS
  Corpus,           \* the mock corpus, a sequence of documents
  Batch,            \* --batch
  Collections,      \* DISCOVERY_COLLECTIONS and CRAWL_COLLECTIONS, a sequence
  MaxFaults         \* bound on the tasks that fail and the commands that are killed

Tools == "tools"    \* TOOLS_ALIAS

ASSUME ReadModelAssumption ==
  /\ Corpus \in Seq(ToSet(Corpus)) /\ Batch \in Nat \ {0}
  /\ Collections \in Seq(ToSet(Collections)) /\ Tools \notin ToSet(Collections)

VARIABLES
  index,            \* of each uid: no index, or its documents and whether it has its settings
  queue,            \* tasks enqueued
  command, todo,    \* what runs, and the tasks it has still to see done
  waiting,          \* for the last task of the queue
  failed,           \* ghost: a task failed since the command began
  faults

model == <<index, queue, command, todo, waiting, failed, faults>>

Uids == {Tools} \cup ToSet(Collections)
Exists(uid) == index[uid] # {}
DocumentsIn(uid) == UNION {i.docs : i \in index[uid]}
Configured(uid) == \E i \in index[uid] : i.settings

(* A command throws when a task it checks has failed. *)
Task(op, uid, docs, checked) == [op |-> op, uid |-> uid, docs |-> docs, checked |-> checked]
Create(uid, checked) == Task("create", uid, {}, checked)
Settings(uid, checked) == Task("settings", uid, {}, checked)

Idle == /\ queue = <<>> /\ command = "none" /\ todo = <<>> /\ waiting = FALSE
        /\ failed = FALSE /\ faults = 0

ModelInit == index = [u \in Uids |-> {}] /\ Idle

-----------------------------------------------------------------------------
(* The server *)

Mine == waiting /\ Len(queue) = 1

(* The task at the head is done; if it is the one the command waits for,    *)
(* awaitTask throws when it failed, a bare waitTask does not.               *)
Settle(succeeded) ==
  LET goesOn == succeeded \/ ~Head(queue).checked
  IN  /\ queue' = Tail(queue)
      /\ waiting' = (waiting /\ ~Mine)
      /\ todo' = IF ~Mine THEN todo ELSE IF goesOn THEN Tail(todo) ELSE <<>>
      /\ command' = IF Mine /\ ~goesOn THEN "none" ELSE command
      /\ failed' = (failed \/ ~succeeded)

(* Creating an index that exists fails; anything else makes it when missing. *)
Effect(t, current) ==
  LET docs == UNION {i.docs : i \in current}
      configured == \E i \in current : i.settings
  IN  CASE t.op = "create"   -> [docs |-> {}, settings |-> FALSE]
        [] t.op = "settings" -> [docs |-> docs, settings |-> TRUE]
        [] t.op = "clear"    -> [docs |-> {}, settings |-> configured]
        [] t.op = "add"      -> [docs |-> docs \cup t.docs, settings |-> configured]

Succeed ==
  /\ queue # <<>>
  /\ LET t == Head(queue) IN
       /\ ~(t.op = "create" /\ Exists(t.uid))
       /\ index' = [index EXCEPT ![t.uid] = {Effect(t, @)}]
  /\ Settle(TRUE)
  /\ UNCHANGED faults

Fail ==
  /\ queue # <<>>
  /\ \/ /\ Head(queue).op = "create" /\ Exists(Head(queue).uid)
        /\ UNCHANGED faults
     \/ /\ faults < MaxFaults
        /\ faults' = faults + 1
  /\ Settle(FALSE)
  /\ UNCHANGED index

-----------------------------------------------------------------------------
(* The commands *)

\* Mutant of Send: a batch that was accepted counts as written.
SendOnly ==
  /\ todo # <<>> /\ ~waiting /\ Head(todo).op # "ensure"
  /\ queue' = Append(queue, Head(todo))
  /\ todo' = Tail(todo)
  /\ UNCHANGED <<index, command, waiting, failed, faults>>

Send ==
  /\ todo # <<>> /\ ~waiting /\ Head(todo).op # "ensure"
  /\ queue' = Append(queue, Head(todo))
  /\ waiting' = TRUE
  /\ UNCHANGED <<index, command, todo, failed, faults>>

\* Mutant of EnsurePlan: a collection that exists is taken to be ready.
EnsureMissing(c) ==
  IF Exists(c) THEN <<>> ELSE <<Create(c, FALSE), Settings(c, FALSE)>>

(* ensure, of one collection: settings are compared before they are applied. *)
EnsurePlan(c) ==
  IF Configured(c) THEN <<>>
  ELSE IF Exists(c) THEN <<Settings(c, FALSE)>>
  ELSE <<Create(c, FALSE), Settings(c, FALSE)>>

Ensure ==
  /\ todo # <<>> /\ ~waiting /\ Head(todo).op = "ensure"
  /\ todo' = EnsurePlan(Head(todo).uid) \o Tail(todo)
  /\ UNCHANGED <<index, queue, command, waiting, failed, faults>>

Finish ==
  /\ command # "none" /\ todo = <<>>
  /\ command' = "none"
  /\ UNCHANGED <<index, queue, todo, waiting, failed, faults>>

(* The process is killed, or gives up waiting, whatever is queued. *)
Abandon ==
  /\ command # "none" /\ faults < MaxFaults
  /\ command' = "none" /\ todo' = <<>> /\ waiting' = FALSE
  /\ faults' = faults + 1
  /\ UNCHANGED <<index, queue, failed>>

(* A creation that is refused, or not seen done in time, is passed over in  *)
(* silence: the command takes it that the index is there.                   *)
PassOver ==
  /\ command = "settings" /\ todo # <<>> /\ Head(todo).op = "create"
  /\ faults < MaxFaults
  /\ todo' = Tail(todo) /\ waiting' = FALSE
  /\ faults' = faults + 1
  /\ UNCHANGED <<index, queue, command, failed>>

Run(name, tasks) ==
  /\ command = "none"
  /\ command' = name /\ todo' = tasks /\ failed' = FALSE
  /\ UNCHANGED <<index, queue, waiting, faults>>

PlanIndexCreate(forceSettings) ==
  IF ~Exists(Tools) THEN <<Create(Tools, TRUE), Settings(Tools, TRUE)>>
  ELSE IF DocumentsIn(Tools) = {} \/ forceSettings THEN <<Settings(Tools, TRUE)>>
  ELSE <<>>

IndexCreate == \E forceSettings \in BOOLEAN :
  Run("create", PlanIndexCreate(forceSettings)
                \o [i \in 1..Len(Collections) |-> Task("ensure", Collections[i], {}, FALSE)])

ApplySettings == Run("settings", <<Create(Tools, FALSE), Settings(Tools, TRUE)>>)

(* seedDocuments, chunk by chunk; the guard on the host is left out. *)
SeedTasks ==
  [n \in 1..((Len(Corpus) + Batch - 1) \div Batch) |->
     Task("add", Tools, {Corpus[i] : i \in {j \in DOMAIN Corpus :
                                          (j - 1) \div Batch = n - 1}}, TRUE)]

IndexSeed == \E clear \in BOOLEAN :
  /\ Exists(Tools)
  /\ Run("seed", (IF clear THEN <<Task("clear", Tools, {}, TRUE)>> ELSE <<>>) \o SeedTasks)

ModelNext == \/ Succeed \/ Fail \/ Send \/ Ensure \/ Finish \/ Abandon
             \/ PassOver \/ IndexCreate \/ ApplySettings \/ IndexSeed
-----------------------------------------------------------------------------
(* A command that comes to its end did its work.  A seed has put the whole   *)
(* corpus in the index: a batch that was accepted and failed afterwards, or  *)
(* tasks of a command killed earlier, do not go unnoticed (awaitTask,       *)
(* handlers.ts:195-199).  `index create`, if no task failed, leaves every    *)
(* write-side collection with its settings, whatever an earlier one that    *)
(* was killed half-way had left (ensure, data-store.ts:120-138).            *)
CommandsMeanIt ==
  [][todo = <<>> /\ command' = "none" =>
       /\ command = "seed" => ToSet(Corpus) \subseteq DocumentsIn(Tools)
       /\ command = "create" /\ ~failed => \A c \in ToSet(Collections) : Configured(c)]_model
=============================================================================
