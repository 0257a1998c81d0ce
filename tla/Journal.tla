------------------------------- MODULE Journal -------------------------------
(***************************************************************************)
(* The append-only journal of packages/cache/src/journal.ts, the processes *)
(* that append to it, and one consumer that reads it forward from its      *)
(* checkpoint.  A consumer's checkpoint is a key of its own, so one        *)
(* consumer stands for each.                                               *)
(*                                                                         *)
(* An event gets its id when append is called and becomes readable when    *)
(* the write lands, some other writes later.  An id is a number: the       *)
(* millisecond of the call times IdsPerMs, plus an offset within the       *)
(* millisecond, as a ULID is a timestamp followed by entropy.              *)
(***************************************************************************)
EXTENDS Integers, FiniteSets

CONSTANTS
  Procs,        \* processes that hold a Journal
  Consumer,     \* the one of them that reads
  Bodies,       \* what an event says
  Concurrency,  \* appends a process may have in flight
  Overlap,      \* may a process start while another runs?
  Operator,     \* may a checkpoint be reset while a process runs?
  IdsPerMs,     \* bound: ids one millisecond has room for
  Entropy,      \* bound: offsets the first id of a millisecond may have
  MsPerDay,     \* length of a day bucket
  MaxClock      \* bound: last millisecond

ASSUME ProcsAssumption == Consumer \in Procs /\ IsFiniteSet(Procs)
ASSUME NumbersAssumption ==
  /\ IdsPerMs \in Nat \ {0} /\ MsPerDay \in Nat \ {0} /\ Concurrency \in Nat \ {0}
  /\ MaxClock \in Nat \ {0}
  /\ Entropy \subseteq 0..IdsPerMs - 1
  /\ Overlap \in BOOLEAN /\ Operator \in BOOLEAN

VARIABLES
  clock,       \* the wall clock every process reads
  journal,     \* events that have landed
  checkpoint,  \* last_event_id, NoId for null
  running,     \* processes up
  minted,      \* last id of a process's monotonicFactory, NoId if none
  writing,     \* events stamped by a process whose write has not settled
  pc,          \* where the consumer's loop is
  after,       \* the checkpoint this read started from
  days,        \* day buckets still to be listed
  keys,        \* ids listed and not yet yielded
  current,     \* the event being handled
  said,        \* appends tried while handling it
  handled,     \* ids handled since the last reset (ghost)
  owed         \* ids landed past the checkpoint when the read began (ghost)

reader == <<pc, after, days, keys, current, said>>
ghosts == <<handled, owed>>
vars   == <<clock, journal, checkpoint, running, minted, writing, reader, ghosts>>

NoId == 0

(* decodeUlidTime and dayOf.                                               *)
MsOf(id) == id \div IdsPerMs
Day(ms)  == ms \div MsPerDay
IdsOf(ms) == (ms * IdsPerMs)..(ms * IdsPerMs + IdsPerMs - 1)

Landed  == {e.id : e \in journal}
Flying  == UNION {{e.id : e \in writing[p]} : p \in Procs}

(* monotonicFactory: fresh entropy in a new millisecond, one more than the *)
(* last id in the same one.  Entropy of two processes never collides.      *)
NextIds(p) ==
  {i \in IdsOf(clock) :
     /\ IF MsOf(minted[p]) = clock THEN i = minted[p] + 1
                                   ELSE i - clock * IdsPerMs \in Entropy
     /\ i \notin Landed \cup Flying}

Events == [id : Nat, day : Nat, body : Bodies]

Init ==
  /\ clock = 1
  /\ journal = {}
  /\ checkpoint = NoId
  /\ running = {}
  /\ minted = [p \in Procs |-> NoId]
  /\ writing = [p \in Procs |-> {}]
  /\ pc = "idle"
  /\ after = NoId /\ days = {} /\ keys = {} /\ current = NoId /\ said = 0
  /\ handled = {} /\ owed = {}

(* Starting a process takes longer than a millisecond.  It makes its own   *)
(* monotonicFactory.                                                       *)
Start(p) ==
  /\ p \notin running
  /\ Overlap \/ running = {}
  /\ clock < MaxClock
  /\ clock' = clock + 1
  /\ running' = running \cup {p}
  /\ pc' = IF p = Consumer THEN "open" ELSE pc
  /\ UNCHANGED <<journal, checkpoint, minted, writing, after, days, keys, current, said, ghosts>>

Tick ==
  /\ clock < MaxClock
  /\ clock' = clock + 1
  /\ UNCHANGED <<journal, checkpoint, running, minted, writing, reader, ghosts>>

(* A process ends, by itself or not, and its memory with it: what it was   *)
(* writing never lands.                                                    *)
Stop(p) ==
  /\ p \in running
  /\ running' = running \ {p}
  /\ writing' = [writing EXCEPT ![p] = {}]
  /\ minted' = [minted EXCEPT ![p] = NoId]
  /\ IF p = Consumer
       THEN /\ pc' = "idle"
            /\ after' = NoId /\ days' = {} /\ keys' = {} /\ current' = NoId /\ said' = 0
            /\ owed' = {}
       ELSE UNCHANGED <<reader, owed>>
  /\ UNCHANGED <<clock, journal, checkpoint, handled>>

-----------------------------------------------------------------------------
(* append: the id is taken and the write is issued.  The consumer appends  *)
(* outcomes as it handles an event and awaits each, at most a second one   *)
(* (RepoFailed) when the first was refused.                                *)
MayAppend(p) ==
  /\ p \in running
  /\ IF p = Consumer THEN pc = "handle" /\ writing[p] = {} /\ said < 2
                     ELSE Cardinality(writing[p]) < Concurrency

Append(p, body) ==
  /\ MayAppend(p)
  /\ \E id \in NextIds(p) :
       /\ minted' = [minted EXCEPT ![p] = id]
       /\ writing' = [writing EXCEPT ![p] =
                        @ \cup {[id |-> id, day |-> Day(clock), body |-> body]}]
  /\ said' = IF p = Consumer THEN said + 1 ELSE said
  /\ UNCHANGED <<clock, journal, checkpoint, running, pc, after, days, keys, current, ghosts>>

Land(p, e) ==
  /\ e \in writing[p]
  /\ writing' = [writing EXCEPT ![p] = @ \ {e}]
  /\ journal' = journal \cup {e}
  /\ UNCHANGED <<clock, checkpoint, running, minted, reader, ghosts>>

(* The write is refused: append rejects and its caller decides.            *)
Refuse(p, e) ==
  /\ e \in writing[p]
  /\ writing' = [writing EXCEPT ![p] = @ \ {e}]
  /\ UNCHANGED <<clock, journal, checkpoint, running, minted, reader, ghosts>>

-----------------------------------------------------------------------------
(* Mutant of Open: the walk starts on the day after the checkpoint's.      *)
OpenOnTheNextDay ==
  /\ pc = "open"
  /\ pc' = "list"
  /\ after' = checkpoint
  /\ days' = IF checkpoint = NoId
               THEN {d \in {e.day : e \in journal} : d <= Day(clock)}
               ELSE (Day(MsOf(checkpoint)) + 1)..Day(clock)
  /\ keys' = {}
  /\ owed' = {i \in Landed : i > checkpoint}
  /\ UNCHANGED <<clock, journal, checkpoint, running, minted, writing, current, said, handled>>

(* journal.checkpoint() and the beginning of read(): the days are fixed    *)
(* here, walked from the checkpoint's or, for a fresh consumer, listed.    *)
Open ==
  /\ pc = "open"
  /\ pc' = "list"
  /\ after' = checkpoint
  /\ days' = IF checkpoint = NoId
               THEN {d \in {e.day : e \in journal} : d <= Day(clock)}
               ELSE Day(MsOf(checkpoint))..Day(clock)
  /\ keys' = {}
  /\ owed' = {i \in Landed : i > checkpoint}
  /\ UNCHANGED <<clock, journal, checkpoint, running, minted, writing, current, said, handled>>

(* Mutant of ListDay: the cursor stays on the day it has listed.           *)
ListSameDay ==
  /\ pc = "list" /\ keys = {} /\ days # {}
  /\ \E d \in days :
       /\ \A other \in days : d <= other
       /\ keys' = {e.id : e \in {x \in journal : x.day = d /\ x.id > after}}
  /\ UNCHANGED <<clock, journal, checkpoint, running, minted, writing,
                 pc, after, days, current, said, ghosts>>

(* One listing per day: an event that lands in that day later is not seen. *)
ListDay ==
  /\ pc = "list" /\ keys = {}
  /\ \E d \in days :
       /\ \A other \in days : d <= other
       /\ days' = days \ {d}
       /\ keys' = {e.id : e \in {x \in journal : x.day = d /\ x.id > after}}
  /\ UNCHANGED <<clock, journal, checkpoint, running, minted, writing,
                 pc, after, current, said, ghosts>>

(* Mutant of Yield: the checkpoint advances before the work.               *)
YieldAndAdvance ==
  /\ pc = "list"
  /\ \E id \in keys :
       /\ \A other \in keys : id <= other
       /\ current' = id /\ checkpoint' = id
       /\ keys' = keys \ {id}
  /\ pc' = "handle" /\ said' = 0
  /\ UNCHANGED <<clock, journal, running, minted, writing, after, days, ghosts>>

(* The listing, sorted; every key still holds its event.                   *)
Yield ==
  /\ pc = "list"
  /\ \E id \in keys :
       /\ \A other \in keys : id <= other
       /\ current' = id
       /\ keys' = keys \ {id}
  /\ pc' = "handle" /\ said' = 0
  /\ UNCHANGED <<clock, journal, checkpoint, running, minted, writing, after, days, ghosts>>

Handle ==
  /\ pc = "handle" /\ writing[Consumer] = {}
  /\ handled' = handled \cup {current}
  /\ pc' = "advance" /\ said' = 0
  /\ UNCHANGED <<clock, journal, checkpoint, running, minted, writing,
                 after, days, keys, current, owed>>

(* advance: the checkpoint write lands.                                    *)
Advance ==
  /\ pc = "advance"
  /\ checkpoint' = current
  /\ pc' = "list" /\ current' = NoId
  /\ UNCHANGED <<clock, journal, running, minted, writing, after, days, keys, said, ghosts>>

(* The generator is exhausted.                                             *)
Finish ==
  /\ pc = "list" /\ keys = {} /\ days = {}
  /\ pc' = "done"
  /\ UNCHANGED <<clock, journal, checkpoint, running, minted, writing,
                 after, days, keys, current, said, ghosts>>

(* runCheckpointReset, a process of its own.                               *)
Reset ==
  /\ Operator \/ running = {}
  /\ checkpoint' = NoId
  /\ handled' = {}
  /\ UNCHANGED <<clock, journal, running, minted, writing, reader, owed>>

(* A write of the consumer settles.                                        *)
Settles == \E e \in writing[Consumer] : Land(Consumer, e) \/ Refuse(Consumer, e)

Read == Open \/ ListDay \/ Yield \/ Handle \/ Advance \/ Finish

Next ==
  \/ \E p \in Procs :
       \/ Start(p) \/ Stop(p)
       \/ \E e \in writing[p] : Land(p, e) \/ Refuse(p, e)
       \/ \E body \in Bodies : Append(p, body)
  \/ Tick \/ Read \/ Reset

Spec == Init /\ [][Next]_vars

-----------------------------------------------------------------------------
TypeOK ==
  /\ clock \in Nat
  /\ journal \in SUBSET Events
  /\ checkpoint \in Nat
  /\ running \subseteq Procs
  /\ minted \in [Procs -> Nat]
  /\ writing \in [Procs -> SUBSET Events]
  /\ pc \in {"idle", "open", "list", "handle", "advance", "done"}
  /\ after \in Nat /\ days \subseteq Nat /\ keys \subseteq Nat /\ current \in Nat
  /\ said \in 0..2
  /\ handled \subseteq Nat /\ owed \subseteq Nat

(* No event is ever left behind a checkpoint unhandled: "everything after  *)
(* my checkpoint" (journal.ts:11-13) is then all that remains to be done.  *)
NothingSkipped == \A e \in journal : e.id <= checkpoint => e.id \in handled

(* A read that ends by itself has handled every event that had landed past *)
(* the checkpoint when it began, whatever else is appended meanwhile.      *)
DrainsBacklog == pc = "done" => owed \subseteq handled

(* A read ends, though the consumer appends to the journal it is reading.  *)
ReadEnds == pc = "open" ~> pc \in {"done", "idle"}

=============================================================================
