--------------------------- MODULE Journal_proofs ----------------------------
(***************************************************************************)
(* What TLAPS proves of Journal: a consumer that resumes from its          *)
(* checkpoint skips no event, as long as the stages of the pipeline run    *)
(* one after another.                                                      *)
(***************************************************************************)
EXTENDS Journal, TLAPS

(* Stages take turns, and checkpoints are reset between them.              *)
InTurn == Overlap = FALSE /\ Operator = FALSE

Reading  == pc \in {"list", "handle", "advance"}
Yielded  == pc \in {"handle", "advance"}
Block(m) == m * IdsPerMs          \* the first id of millisecond m

(* One process at a time; the consumer's loop is idle unless it runs; a    *)
(* process that is not running has nothing in flight.                      *)
TurnInv ==
  /\ \A p, q \in running : p = q
  /\ pc = "idle" <=> Consumer \notin running
  /\ \A p \in Procs : p \notin running => writing[p] = {}

(* An id belongs to the bucket it is filed under and to the past, or to    *)
(* the present millisecond.                                                *)
StampInv ==
  /\ clock >= 1
  /\ \A e \in journal : e.id < Block(clock + 1) /\ e.day = Day(MsOf(e.id)) /\ e.id > NoId
  /\ \A p \in Procs : \A e \in writing[p] :
       e.id < Block(clock + 1) /\ e.day = Day(MsOf(e.id)) /\ e.id > NoId
  /\ \A p \in Procs : minted[p] < Block(clock + 1)
  /\ checkpoint < Block(clock + 1)

(* What a writer has in flight is past the checkpoint: it started, and so  *)
(* stamps, after the millisecond of every id the checkpoint can have.      *)
WriterInv ==
  \A p \in running \ {Consumer} :
    checkpoint < Block(clock) /\ \A e \in writing[p] : e.id > checkpoint

(* The consumer's own outcomes come after everything it can have listed.   *)
OutcomeInv ==
  Consumer \in running =>
    /\ \A e \in journal : e.id < Block(clock) \/ e.id <= minted[Consumer]
    /\ \A e, f \in writing[Consumer] : e = f
    /\ \A e \in writing[Consumer] :
         /\ pc = "handle" /\ e.id <= minted[Consumer]
         /\ \A x \in journal : x.id < e.id
         /\ \A d \in days : d <= e.day

(* The listing holds landed events, in day order.                          *)
ListInv ==
  /\ checkpoint = NoId \/ checkpoint \in Landed
  /\ keys \subseteq Landed
  /\ Yielded => current \in Landed
  /\ Reading => after = NoId \/ after \in Landed
  /\ Reading => \A d \in days : d <= Day(clock)
  /\ Reading => \A d \in days : \A k \in keys : Day(MsOf(k)) < d
  /\ Yielded => \A d \in days : Day(MsOf(current)) < d
  /\ Yielded => \A k \in keys : current < k

(* e is past all that this read has listed or will list.                   *)
Late(e) ==
  /\ checkpoint < e.id
  /\ \A d \in days : d < e.day
  /\ \A k \in keys : k < e.id
  /\ Yielded => current < e.id

Ahead(e) ==
  \/ e.id \in keys
  \/ pc = "handle" /\ e.id = current
  \/ e.day \in days
  \/ Late(e)

(* Every landed event is handled, or this read still gets to it, or it is  *)
(* left for the next.                                                      *)
ReadInv ==
  /\ Reading => \A e \in journal : e.id \in handled \/ Ahead(e)
  /\ Reading => \A e \in journal : e.id <= after => e.id \in handled
  /\ pc = "advance" => current \in handled

(* Nobody resets a checkpoint under a running process; processes overlap   *)
(* as they please.                                                         *)
NoOperator == Operator = FALSE

(* Along a read the checkpoint is behind all that is listed or will be.    *)
CursorInv ==
  /\ pc # "idle" => Consumer \in running
  /\ Reading => checkpoint = after \/ \A d \in days : Day(MsOf(checkpoint)) < d
  /\ Reading => \A k \in keys : checkpoint < k
  /\ Yielded => checkpoint < current
  /\ Reading \/ pc = "done" => after <= checkpoint
  /\ pc = "done" => keys = {} /\ days = {}

(* Where the read in progress still has to get to for the id i.            *)
ToList(i) == i \in keys \/ Day(MsOf(i)) \in days

(* What a read owes is handled, or still to come; and it is behind the     *)
(* checkpoint, or being handled, or still to come.                         *)
OwedInv ==
  Reading \/ pc = "done" => \A i \in owed :
    /\ i \in Landed /\ after < i
    /\ i \in handled \/ (pc = "handle" /\ i = current) \/ ToList(i)
    /\ i <= checkpoint \/ (Yielded /\ i = current) \/ ToList(i)

(* An id names one event, and what is handled has landed.                  *)
UniqueInv ==
  /\ \A e, f \in journal : e.id = f.id => e = f
  /\ \A p \in Procs : \A e \in writing[p] : e.id \notin Landed
  /\ \A p, q \in Procs : \A e \in writing[p], f \in writing[q] :
       e.id = f.id => e = f /\ p = q
  /\ handled \subseteq Landed

DrainInv == TypeOK /\ StampInv /\ ListInv /\ CursorInv /\ OwedInv

SkipInv ==
  /\ TypeOK /\ TurnInv /\ StampInv /\ WriterInv
  /\ OutcomeInv /\ ListInv /\ ReadInv /\ NothingSkipped

-----------------------------------------------------------------------------
(* Arithmetic of ids.                                                      *)
LEMMA DivMono ==
  ASSUME NEW w \in Nat \ {0}, NEW a \in Nat, NEW b \in Nat, a <= b
  PROVE  a \div w \in Nat /\ a \div w <= b \div w
BY SMT

LEMMA DivBlock ==
  ASSUME NEW w \in Nat \ {0}, NEW a \in Nat, NEW m \in Nat
  PROVE  a \div w = m <=> (m * w <= a /\ a <= m * w + w - 1)
BY SMT

LEMMA TimesStep ==
  ASSUME NEW w \in Nat \ {0}, NEW m \in Nat
  PROVE  m * w \in Nat /\ (m + 1) * w = m * w + w
BY SMT

(* A later id is filed on the same day or a later one.                     *)
LEMMA DayMono ==
  ASSUME NEW a \in Nat, NEW b \in Nat, a <= b
  PROVE  Day(MsOf(a)) \in Nat /\ Day(MsOf(b)) \in Nat /\ Day(MsOf(a)) <= Day(MsOf(b))
<1>1. MsOf(a) \in Nat /\ MsOf(b) \in Nat /\ MsOf(a) <= MsOf(b)
  BY DivMono, NumbersAssumption DEF MsOf
<1> QED BY <1>1, DivMono, NumbersAssumption DEF Day

(* A day later means an id later.                                          *)
LEMMA DayOrder ==
  ASSUME NEW a \in Nat, NEW b \in Nat, Day(MsOf(a)) < Day(MsOf(b))
  PROVE  a < b
<1>1. CASE b <= a
  BY <1>1, DayMono
<1> QED BY <1>1

(* Blocks of ids follow each other.                                        *)
LEMMA BlockStep ==
  ASSUME NEW m \in Nat
  PROVE  Block(m) \in Nat /\ Block(m + 1) \in Nat /\ Block(m + 1) = Block(m) + IdsPerMs
BY TimesStep, NumbersAssumption DEF Block

(* The millisecond of an id below a block is not after that block's.       *)
LEMMA BelowBlock ==
  ASSUME NEW a \in Nat, NEW m \in Nat, a < Block(m + 1)
  PROVE  MsOf(a) \in Nat /\ MsOf(a) <= m
<1>1. a <= Block(m) + IdsPerMs - 1
  BY BlockStep, NumbersAssumption
<1>2. Block(m) + IdsPerMs - 1 \in Nat /\ (Block(m) + IdsPerMs - 1) \div IdsPerMs = m
  BY DivBlock, BlockStep, NumbersAssumption DEF Block
<1> QED BY <1>1, <1>2, DivMono, NumbersAssumption DEF MsOf

(* A fresh id is of the present millisecond and past the last one minted.  *)
LEMMA FreshId ==
  ASSUME TypeOK, StampInv, NEW p \in Procs, NEW id \in NextIds(p)
  PROVE  /\ id \in Nat /\ id > NoId
         /\ Block(clock) <= id /\ id < Block(clock + 1)
         /\ MsOf(id) = clock
         /\ minted[p] < id
<1>1. clock \in Nat /\ clock >= 1 /\ minted[p] \in Nat /\ minted[p] < Block(clock + 1)
  BY DEF TypeOK, StampInv
<1>2. id \in Block(clock)..(Block(clock) + IdsPerMs - 1)
  BY DEF NextIds, IdsOf, Block
<1>3. Block(clock) \in Nat /\ Block(clock + 1) = Block(clock) + IdsPerMs
  BY <1>1, BlockStep
<1>4. id \in Nat /\ Block(clock) <= id /\ id < Block(clock + 1)
  BY <1>2, <1>3, NumbersAssumption
<1>5. MsOf(id) = clock
  <2>1. clock * IdsPerMs \in Nat
    BY <1>3 DEF Block
  <2>2. clock * IdsPerMs <= id /\ id <= clock * IdsPerMs + IdsPerMs - 1
    BY <1>2, <2>1, NumbersAssumption DEF Block
  <2> QED BY <1>1, <1>4, <2>2, DivBlock, NumbersAssumption DEF MsOf
<1>6. Block(clock) > 0
  <2>1. clock - 1 \in Nat /\ (clock - 1) + 1 = clock
    BY <1>1
  <2>2. Block(clock) = Block(clock - 1) + IdsPerMs /\ Block(clock - 1) \in Nat
    BY <2>1, BlockStep
  <2> QED BY <2>2, NumbersAssumption
<1>7. minted[p] < id
  <2>1. CASE MsOf(minted[p]) = clock
    <3>1. id = minted[p] + 1
      BY <2>1 DEF NextIds
    <3> QED BY <1>1, <3>1
  <2>2. CASE MsOf(minted[p]) # clock
    <3>1. ~(Block(clock) <= minted[p] /\ minted[p] <= Block(clock) + IdsPerMs - 1)
      BY <2>2, <1>1, DivBlock, NumbersAssumption DEF MsOf, Block
    <3>2. minted[p] < Block(clock)
      BY <3>1, <1>1, <1>3, NumbersAssumption
    <3> QED BY <3>2, <1>1, <1>3, <1>4
  <2> QED BY <2>1, <2>2
<1> QED BY <1>3, <1>4, <1>5, <1>6, <1>7 DEF NoId

-----------------------------------------------------------------------------
(* Every variable keeps its type.                                          *)
LEMMA TypeStep ==
  ASSUME TypeOK, [Next]_vars PROVE TypeOK'
<1> USE DEF TypeOK, ghosts, reader
<1>1. ASSUME NEW p \in Procs, Start(p) PROVE TypeOK'
  BY <1>1 DEF Start
<1>2. ASSUME NEW p \in Procs, Stop(p) PROVE TypeOK'
  <2>1. pc' \in {"idle", "open", "list", "handle", "advance", "done"} /\ said' \in 0..2
    <3>1. CASE p = Consumer
      BY <1>2, <3>1 DEF Stop
    <3>2. CASE p # Consumer
      BY <1>2, <3>2 DEF Stop
    <3> QED BY <3>1, <3>2
  <2>2. after' \in Nat /\ days' \subseteq Nat /\ keys' \subseteq Nat /\ current' \in Nat
    <3>1. CASE p = Consumer
      BY <1>2, <3>1 DEF Stop, NoId
    <3>2. CASE p # Consumer
      BY <1>2, <3>2 DEF Stop
    <3> QED BY <3>1, <3>2
  <2>3. owed' \subseteq Nat /\ running' \subseteq Procs
    BY <1>2 DEF Stop
  <2>4. minted' \in [Procs -> Nat] /\ writing' \in [Procs -> SUBSET Events]
    BY <1>2 DEF Stop, NoId
  <2> QED BY <1>2, <2>1, <2>2, <2>3, <2>4 DEF Stop
<1>3. ASSUME NEW p \in Procs, NEW e \in writing[p], Land(p, e) PROVE TypeOK'
  BY <1>3 DEF Land
<1>4. ASSUME NEW p \in Procs, NEW e \in writing[p], Refuse(p, e) PROVE TypeOK'
  BY <1>4 DEF Refuse
<1>5. ASSUME NEW p \in Procs, NEW body \in Bodies, Append(p, body) PROVE TypeOK'
  <2>1. PICK id \in NextIds(p) :
          /\ minted' = [minted EXCEPT ![p] = id]
          /\ writing' = [writing EXCEPT ![p] =
                           @ \cup {[id |-> id, day |-> Day(clock), body |-> body]}]
    BY <1>5 DEF Append
  <2>2. id \in Nat
    <3>1. Block(clock) \in Nat /\ id \in Block(clock)..(Block(clock) + IdsPerMs - 1)
      BY <2>1, BlockStep DEF NextIds, IdsOf, Block
    <3> QED BY <3>1, NumbersAssumption
  <2>3. [id |-> id, day |-> Day(clock), body |-> body] \in Events
    <3>1. Day(clock) \in Nat
      BY DivMono, NumbersAssumption DEF Day
    <3> QED BY <2>2, <3>1 DEF Events
  <2>4. said' \in 0..2
    BY <1>5 DEF Append, MayAppend
  <2>5. minted' \in [Procs -> Nat] /\ writing' \in [Procs -> SUBSET Events]
    BY <2>1, <2>2, <2>3
  <2> QED BY <1>5, <2>4, <2>5 DEF Append
<1>6. ASSUME Tick PROVE TypeOK'
  BY <1>6 DEF Tick
<1>7. ASSUME Open PROVE TypeOK'
  <2>1. days' \subseteq Nat
    <3>1. CASE checkpoint = NoId
      BY <1>7, <3>1 DEF Open, Events
    <3>2. CASE checkpoint # NoId
      <4>1. Day(MsOf(checkpoint)) \in Nat
        BY DayMono
      <4>2. Day(clock) \in Nat
        BY DivMono, NumbersAssumption DEF Day
      <4> QED BY <1>7, <3>2, <4>1, <4>2 DEF Open
    <3> QED BY <3>1, <3>2
  <2>2. owed' \subseteq Nat
    BY <1>7 DEF Open, Landed, Events
  <2> QED BY <1>7, <2>1, <2>2 DEF Open
<1>8. ASSUME ListDay PROVE TypeOK'
  <2>1. keys' \subseteq Nat /\ days' \subseteq Nat
    BY <1>8 DEF ListDay, Events
  <2> QED BY <1>8, <2>1 DEF ListDay
<1>9. ASSUME Yield PROVE TypeOK'
  BY <1>9 DEF Yield
<1>10. ASSUME Handle PROVE TypeOK'
  BY <1>10 DEF Handle
<1>11. ASSUME Advance PROVE TypeOK'
  BY <1>11 DEF Advance, NoId
<1>12. ASSUME Finish PROVE TypeOK'
  BY <1>12 DEF Finish
<1>13. ASSUME Reset PROVE TypeOK'
  BY <1>13 DEF Reset, NoId
<1>14. ASSUME UNCHANGED vars PROVE TypeOK'
  BY <1>14 DEF vars
<1> QED
  BY <1>1, <1>2, <1>3, <1>4, <1>5, <1>6, <1>7, <1>8, <1>9, <1>10, <1>11, <1>12, <1>13, <1>14
  DEF Next, Read

-----------------------------------------------------------------------------
(* One process at a time.                                                  *)
LEMMA TurnStep ==
  ASSUME InTurn, TypeOK, TurnInv, [Next]_vars PROVE TurnInv'
<1> USE DEF TurnInv, TypeOK, ghosts, reader, InTurn
<1>1. ASSUME NEW p \in Procs, Start(p) PROVE TurnInv'
  BY <1>1 DEF Start
<1>2. ASSUME NEW p \in Procs, Stop(p) PROVE TurnInv'
  <2>1. pc' = "idle" <=> Consumer \notin running'
    BY <1>2 DEF Stop
  <2>2. \A q \in Procs : q \notin running' => writing'[q] = {}
    BY <1>2 DEF Stop
  <2> QED BY <1>2, <2>1, <2>2 DEF Stop
<1>3. ASSUME NEW p \in Procs, NEW e \in writing[p], Land(p, e) PROVE TurnInv'
  BY <1>3 DEF Land
<1>4. ASSUME NEW p \in Procs, NEW e \in writing[p], Refuse(p, e) PROVE TurnInv'
  BY <1>4 DEF Refuse
<1>5. ASSUME NEW p \in Procs, NEW body \in Bodies, Append(p, body) PROVE TurnInv'
  <2>1. p \in running /\ \A q \in Procs \ {p} : writing'[q] = writing[q]
    BY <1>5 DEF Append, MayAppend
  <2> QED BY <1>5, <2>1 DEF Append
<1>6. ASSUME Tick PROVE TurnInv'
  BY <1>6 DEF Tick
<1>7. ASSUME Read PROVE TurnInv'
  BY <1>7 DEF Read, Open, ListDay, Yield, Handle, Advance, Finish
<1>8. ASSUME Reset PROVE TurnInv'
  BY <1>8 DEF Reset
<1>9. ASSUME UNCHANGED vars PROVE TurnInv'
  BY <1>9 DEF vars
<1> QED BY <1>1, <1>2, <1>3, <1>4, <1>5, <1>6, <1>7, <1>8, <1>9 DEF Next

(* Ids are stamped in the present and stay in the past.                    *)
LEMMA StampStep ==
  ASSUME TypeOK, TypeOK', StampInv, ListInv, [Next]_vars PROVE StampInv'
<1> USE DEF ghosts, reader
<1>0. clock \in Nat /\ clock' \in Nat
  BY DEF TypeOK
<1>a. ASSUME clock' = clock + 1 PROVE Block(clock + 1) < Block(clock' + 1)
  BY <1>0, <1>a, BlockStep, NumbersAssumption
<1>b. /\ \A e \in journal : e.id \in Nat
      /\ \A p \in Procs : \A e \in writing[p] : e.id \in Nat
      /\ \A p \in Procs : minted[p] \in Nat
      /\ checkpoint \in Nat /\ Block(clock + 1) \in Nat /\ Block(clock' + 1) \in Nat
  <2>1. Block(clock + 1) \in Nat /\ Block(clock' + 1) \in Nat
    BY <1>0, BlockStep
  <2>2. \A p \in Procs : \A e \in writing[p] : e \in Events
    BY DEF TypeOK
  <2>3. \A e \in journal : e \in Events
    BY DEF TypeOK
  <2> QED BY <2>1, <2>2, <2>3 DEF TypeOK, Events
<1>c. 0 < Block(clock + 1)
  <2>1. Block(clock) \in Nat /\ Block(clock + 1) = Block(clock) + IdsPerMs
    BY <1>0, BlockStep
  <2> QED BY <2>1, NumbersAssumption
<1>d. ASSUME clock' = clock + 1, UNCHANGED <<journal, checkpoint, minted, writing>>
      PROVE  StampInv'
  <2>1. Block(clock + 1) < Block(clock' + 1)
    BY <1>a, <1>d
  <2>2. \A i \in Nat : i < Block(clock + 1) => i < Block(clock' + 1)
    BY <2>1, <1>b
  <2>3. clock' >= 1
    BY <1>0, <1>d
  <2>4. \A e \in journal : e.id < Block(clock' + 1)
    BY <2>2, <1>b DEF StampInv
  <2>5. \A p \in Procs : \A e \in writing[p] : e.id < Block(clock' + 1)
    BY <2>2, <1>b DEF StampInv
  <2>6. \A p \in Procs : minted[p] < Block(clock' + 1)
    BY <2>2, <1>b DEF StampInv
  <2>7. checkpoint < Block(clock' + 1)
    BY <2>2, <1>b DEF StampInv
  <2> QED BY <1>d, <2>3, <2>4, <2>5, <2>6, <2>7 DEF StampInv
<1>1. ASSUME NEW p \in Procs, Start(p) PROVE StampInv'
  BY <1>1, <1>d DEF Start
<1>2. ASSUME NEW p \in Procs, Stop(p) PROVE StampInv'
  <2>1. \A q \in Procs : writing'[q] \subseteq writing[q]
    BY <1>2 DEF Stop, TypeOK
  <2>2. \A q \in Procs : minted'[q] < Block(clock + 1)
    BY <1>2, <1>c DEF Stop, TypeOK, NoId, StampInv
  <2> QED BY <1>2, <2>1, <2>2 DEF Stop, StampInv
<1>3. ASSUME NEW p \in Procs, NEW e \in writing[p], Land(p, e) PROVE StampInv'
  <2>1. \A q \in Procs : writing'[q] \subseteq writing[q]
    BY <1>3 DEF Land, TypeOK
  <2> QED BY <1>3, <2>1 DEF Land, StampInv
<1>4. ASSUME NEW p \in Procs, NEW e \in writing[p], Refuse(p, e) PROVE StampInv'
  <2>1. \A q \in Procs : writing'[q] \subseteq writing[q]
    BY <1>4 DEF Refuse, TypeOK
  <2> QED BY <1>4, <2>1 DEF Refuse, StampInv
<1>5. ASSUME NEW p \in Procs, NEW body \in Bodies, Append(p, body) PROVE StampInv'
  <2>1. PICK id \in NextIds(p) :
          /\ minted' = [minted EXCEPT ![p] = id]
          /\ writing' = [writing EXCEPT ![p] =
                           @ \cup {[id |-> id, day |-> Day(clock), body |-> body]}]
    BY <1>5 DEF Append
  <2>2. id > NoId /\ id < Block(clock + 1) /\ Day(clock) = Day(MsOf(id))
    BY <2>1, FreshId
  <2>3. \A q \in Procs : \A e \in writing'[q] :
          e \in writing[q] \/ e = [id |-> id, day |-> Day(clock), body |-> body]
    BY <2>1 DEF TypeOK
  <2>4. \A q \in Procs : minted'[q] < Block(clock + 1)
    BY <2>1, <2>2 DEF TypeOK, StampInv
  <2>5. \A q \in Procs : \A e \in writing'[q] :
          e.id < Block(clock + 1) /\ e.day = Day(MsOf(e.id)) /\ e.id > NoId
    BY <2>2, <2>3 DEF StampInv
  <2> QED BY <1>5, <2>4, <2>5 DEF Append, StampInv
<1>6. ASSUME Tick PROVE StampInv'
  BY <1>6, <1>d DEF Tick
<1>7. ASSUME Open \/ ListDay \/ Yield \/ Handle \/ Finish PROVE StampInv'
  BY <1>7 DEF Open, ListDay, Yield, Handle, Finish, StampInv
<1>8. ASSUME Advance PROVE StampInv'
  <2>1. checkpoint' < Block(clock + 1)
    BY <1>8 DEF Advance, ListInv, Yielded, Landed, StampInv
  <2> QED BY <1>8, <2>1 DEF Advance, StampInv
<1>9. ASSUME Reset PROVE StampInv'
  BY <1>9, <1>c DEF Reset, StampInv, NoId
<1>10. ASSUME UNCHANGED vars PROVE StampInv'
  BY <1>10 DEF vars, StampInv
<1> QED
  BY <1>1, <1>2, <1>3, <1>4, <1>5, <1>6, <1>7, <1>8, <1>9, <1>10 DEF Next, Read

-----------------------------------------------------------------------------
(* A process other than the consumer stamps past the checkpoint.           *)
LEMMA WriterStep ==
  ASSUME InTurn, TypeOK, TypeOK', TurnInv, StampInv, WriterInv, [Next]_vars
  PROVE  WriterInv'
<1> USE DEF ghosts, reader
<1>0. clock \in Nat /\ checkpoint \in Nat /\ Block(clock) \in Nat /\ running \subseteq Procs
  BY BlockStep DEF TypeOK
<1>1. ASSUME NEW p \in Procs, Start(p) PROVE WriterInv'
  <2>1. running' = {p} /\ writing'[p] = {}
    BY <1>1 DEF Start, TurnInv, InTurn
  <2>2. checkpoint' < Block(clock')
    BY <1>1 DEF Start, StampInv
  <2> QED BY <2>1, <2>2 DEF WriterInv
<1>2. ASSUME NEW p \in Procs, Stop(p) PROVE WriterInv'
  BY <1>2 DEF Stop, WriterInv, TypeOK
<1>3. ASSUME NEW p \in Procs, NEW e \in writing[p], Land(p, e) PROVE WriterInv'
  <2>1. \A q \in Procs : writing'[q] \subseteq writing[q]
    BY <1>3 DEF Land, TypeOK
  <2> QED BY <1>0, <1>3, <2>1 DEF Land, WriterInv
<1>4. ASSUME NEW p \in Procs, NEW e \in writing[p], Refuse(p, e) PROVE WriterInv'
  <2>1. \A q \in Procs : writing'[q] \subseteq writing[q]
    BY <1>4 DEF Refuse, TypeOK
  <2> QED BY <1>0, <1>4, <2>1 DEF Refuse, WriterInv
<1>5. ASSUME NEW p \in Procs, NEW body \in Bodies, Append(p, body) PROVE WriterInv'
  <2>1. PICK id \in NextIds(p) :
          writing' = [writing EXCEPT ![p] =
                       @ \cup {[id |-> id, day |-> Day(clock), body |-> body]}]
    BY <1>5 DEF Append
  <2>2. id \in Nat /\ Block(clock) <= id
    BY <2>1, FreshId
  <2>3. \A q \in Procs : \A e \in writing'[q] : e \in writing[q] \/ e.id = id
    BY <2>1 DEF TypeOK
  <2>4. running' = running /\ checkpoint' = checkpoint /\ clock' = clock
    BY <1>5 DEF Append
  <2> SUFFICES ASSUME NEW q \in running \ {Consumer}
               PROVE  checkpoint < Block(clock) /\ \A e \in writing'[q] : e.id > checkpoint
    BY <2>4 DEF WriterInv
  <2>5. checkpoint < Block(clock) /\ \A e \in writing[q] : e.id > checkpoint
    BY DEF WriterInv
  <2>6. checkpoint < id
    BY <2>2, <2>5, <1>0
  <2> QED BY <1>0, <2>2, <2>3, <2>5, <2>6
<1>6. ASSUME Tick PROVE WriterInv'
  <2>1. Block(clock) < Block(clock')
    BY <1>0, <1>6, BlockStep, NumbersAssumption DEF Tick
  <2>2. Block(clock') \in Nat
    BY BlockStep DEF TypeOK
  <2>3. checkpoint < Block(clock) => checkpoint < Block(clock')
    BY <1>0, <2>1, <2>2
  <2> QED BY <1>6, <2>3 DEF Tick, WriterInv
<1>7. ASSUME Read PROVE WriterInv'
  <2>1. Consumer \in running /\ running' = running
    BY <1>7 DEF Read, Open, ListDay, Yield, Handle, Advance, Finish, TurnInv
  <2>2. running \ {Consumer} = {}
    BY <2>1 DEF TurnInv
  <2> QED BY <2>1, <2>2 DEF WriterInv
<1>8. ASSUME Reset PROVE WriterInv'
  BY <1>8 DEF Reset, WriterInv, InTurn
<1>9. ASSUME UNCHANGED vars PROVE WriterInv'
  BY <1>9 DEF vars, WriterInv
<1> QED BY <1>1, <1>2, <1>3, <1>4, <1>5, <1>6, <1>7, <1>8, <1>9 DEF Next

(* The consumer's outcomes come last.                                      *)
LEMMA OutcomeStep ==
  ASSUME InTurn, TypeOK, TypeOK', TurnInv, TurnInv', StampInv, OutcomeInv, ListInv, [Next]_vars
  PROVE  OutcomeInv'
<1> USE DEF ghosts, reader
<1>0. clock \in Nat /\ clock' \in Nat /\ Block(clock) \in Nat /\ Block(clock') \in Nat
  BY BlockStep DEF TypeOK
<1>a. \A e \in journal : e.id \in Nat
  BY DEF TypeOK, Events
<1>b. minted[Consumer] \in Nat
  BY ProcsAssumption DEF TypeOK
<1>c. \A e \in writing[Consumer] : e.id \in Nat
  BY ProcsAssumption DEF TypeOK, Events
<1> SUFFICES ASSUME Consumer \in running'
             PROVE  /\ \A e \in journal' : e.id < Block(clock') \/ e.id <= minted'[Consumer]
                    /\ \A e, f \in writing'[Consumer] : e = f
                    /\ \A e \in writing'[Consumer] :
                         /\ pc' = "handle" /\ e.id <= minted'[Consumer]
                         /\ \A x \in journal' : x.id < e.id
                         /\ \A d \in days' : d <= e.day
  BY DEF OutcomeInv
<1>d. \A q \in Procs : q # Consumer => q \notin running'
  BY DEF TurnInv
<1>1. ASSUME NEW p \in Procs, Start(p) PROVE OutcomeInv'
  <2>1. p = Consumer /\ writing'[Consumer] = {} /\ journal' = journal
    BY <1>1, <1>d, ProcsAssumption DEF Start, TurnInv
  <2>2. \A e \in journal : e.id < Block(clock')
    BY <1>1 DEF Start, StampInv
  <2> QED BY <2>1, <2>2 DEF OutcomeInv
<1>2. ASSUME NEW p \in Procs, Stop(p) PROVE OutcomeInv'
  <2>1. running \subseteq {p}
    BY <1>2 DEF Stop, TurnInv
  <2> QED BY <1>2, <2>1 DEF Stop
<1>3. ASSUME NEW p \in Procs, NEW e \in writing[p], Land(p, e) PROVE OutcomeInv'
  <2>1. p = Consumer /\ Consumer \in running
    BY <1>3, <1>d DEF Land, TurnInv
  <2>2. writing'[Consumer] = {}
    BY <1>3, <2>1, ProcsAssumption DEF Land, OutcomeInv, TypeOK
  <2>3. \A x \in journal' : x.id < Block(clock') \/ x.id <= minted'[Consumer]
    BY <1>3, <2>1 DEF Land, OutcomeInv
  <2> QED BY <2>2, <2>3 DEF OutcomeInv
<1>4. ASSUME NEW p \in Procs, NEW e \in writing[p], Refuse(p, e) PROVE OutcomeInv'
  <2>1. writing'[Consumer] \subseteq writing[Consumer]
    BY <1>4, ProcsAssumption DEF Refuse, TypeOK
  <2> QED BY <1>4, <2>1 DEF Refuse, OutcomeInv
<1>5. ASSUME NEW p \in Procs, NEW body \in Bodies, Append(p, body) PROVE OutcomeInv'
  <2>1. PICK id \in NextIds(p) :
          /\ minted' = [minted EXCEPT ![p] = id]
          /\ writing' = [writing EXCEPT ![p] =
                           @ \cup {[id |-> id, day |-> Day(clock), body |-> body]}]
    BY <1>5 DEF Append
  <2>2. p = Consumer /\ Consumer \in running
    BY <1>5, <1>d DEF Append, MayAppend
  <2>3. writing[Consumer] = {} /\ pc = "handle"
    BY <1>5, <2>2 DEF Append, MayAppend
  <2>4. id \in Nat /\ Block(clock) <= id /\ minted[Consumer] < id
    BY <2>1, <2>2, FreshId
  <2>5. \A x \in journal : x.id < id
    BY <1>0, <1>a, <1>b, <2>2, <2>4 DEF OutcomeInv
  <2>6. minted'[Consumer] = id /\
        writing'[Consumer] = {[id |-> id, day |-> Day(clock), body |-> body]}
    BY <2>1, <2>2, <2>3, ProcsAssumption DEF TypeOK
  <2>7. \A d \in days : d <= Day(clock)
    BY <2>3 DEF ListInv, Reading
  <2>8. journal' = journal /\ days' = days /\ pc' = "handle"
    BY <1>5, <2>3 DEF Append
  <2>9. \A x \in journal : x.id <= id
    BY <2>4, <2>5, <1>a
  <2>10. id <= id
    BY <2>4
  <2> QED BY <2>5, <2>6, <2>7, <2>8, <2>9, <2>10 DEF OutcomeInv
<1>6. ASSUME Tick PROVE OutcomeInv'
  <2>1. Block(clock) < Block(clock')
    BY <1>0, <1>6, BlockStep, NumbersAssumption DEF Tick
  <2>2. \A e \in journal : e.id < Block(clock) => e.id < Block(clock')
    BY <1>0, <1>a, <2>1
  <2> QED BY <1>6, <2>2 DEF Tick, OutcomeInv
<1>7. ASSUME Read PROVE OutcomeInv'
  <2>1. /\ Consumer \in running /\ journal' = journal /\ minted' = minted
        /\ clock' = clock /\ writing' = writing
    BY <1>7 DEF Read, Open, ListDay, Yield, Handle, Advance, Finish, TurnInv
  <2>2. writing[Consumer] = {}
    BY <1>7, <2>1 DEF Read, Open, ListDay, Yield, Handle, Advance, Finish, OutcomeInv
  <2> QED BY <2>1, <2>2 DEF OutcomeInv
<1>8. ASSUME Reset PROVE OutcomeInv'
  BY <1>8 DEF Reset, OutcomeInv
<1>9. ASSUME UNCHANGED vars PROVE OutcomeInv'
  BY <1>9 DEF vars, OutcomeInv
<1> QED BY <1>1, <1>2, <1>3, <1>4, <1>5, <1>6, <1>7, <1>8, <1>9 DEF Next, OutcomeInv

-----------------------------------------------------------------------------
(* A later clock is not on an earlier day.                                 *)
LEMMA ClockDay ==
  ASSUME NEW m \in Nat, NEW n \in Nat, m <= n
  PROVE  Day(m) \in Nat /\ Day(n) \in Nat /\ Day(m) <= Day(n)
BY DivMono, NumbersAssumption DEF Day

(* Landed ids are numbers.                                                 *)
LEMMA LandedNat == TypeOK => Landed \subseteq Nat
BY DEF TypeOK, Landed, Events

(* The listing stays within what has landed, in day order.                 *)
LEMMA ListStep ==
  ASSUME TypeOK, TypeOK', StampInv, ListInv, [Next]_vars
  PROVE  ListInv'
<1> USE DEF ghosts, reader, Reading, Yielded
<1>0. Landed \subseteq Nat /\ keys \subseteq Nat /\ days \subseteq Nat /\ clock \in Nat
  BY LandedNat DEF TypeOK
<1>1. ASSUME NEW p \in Procs, Start(p) PROVE ListInv'
  <2>1. Day(clock) \in Nat /\ Day(clock') \in Nat /\ Day(clock) <= Day(clock')
    BY <1>0, <1>1, ClockDay DEF Start
  <2>2. \A d \in days : d <= Day(clock) => d <= Day(clock')
    BY <1>0, <2>1
  <2>3. /\ Landed' = Landed /\ pc' \in {"open", pc}
        /\ UNCHANGED <<checkpoint, after, days, keys, current>>
    BY <1>1 DEF Start, Landed
  <2> QED BY <2>2, <2>3 DEF ListInv
<1>2. ASSUME NEW p \in Procs, Stop(p) PROVE ListInv'
  <2>1. Landed' = Landed
    BY <1>2 DEF Stop, Landed
  <2>2. CASE p = Consumer
    <3>1. pc' = "idle" /\ keys' = {} /\ checkpoint' = checkpoint
      BY <1>2, <2>2 DEF Stop
    <3> QED BY <2>1, <3>1 DEF ListInv
  <2>3. CASE p # Consumer
    <3>1. UNCHANGED <<pc, after, keys, days, current, clock, checkpoint>>
      BY <1>2, <2>3 DEF Stop
    <3> QED BY <2>1, <3>1 DEF ListInv
  <2> QED BY <2>2, <2>3
<1>3. ASSUME NEW p \in Procs, NEW e \in writing[p], Land(p, e) PROVE ListInv'
  <2>1. Landed \subseteq Landed'
    BY <1>3 DEF Land, Landed
  <2> QED BY <1>3, <2>1 DEF Land, ListInv
<1>4. ASSUME NEW p \in Procs, NEW e \in writing[p], Refuse(p, e) PROVE ListInv'
  BY <1>4 DEF Refuse, ListInv, Landed
<1>5. ASSUME NEW p \in Procs, NEW body \in Bodies, Append(p, body) PROVE ListInv'
  BY <1>5 DEF Append, ListInv, Landed
<1>6. ASSUME Tick PROVE ListInv'
  <2>1. Day(clock) \in Nat /\ Day(clock') \in Nat /\ Day(clock) <= Day(clock')
    BY <1>0, <1>6, ClockDay DEF Tick
  <2>2. \A d \in days : d <= Day(clock) => d <= Day(clock')
    BY <1>0, <2>1
  <2> QED BY <1>6, <2>2 DEF Tick, ListInv, Landed
<1>7. ASSUME Open PROVE ListInv'
  <2>1. \A d \in days' : d <= Day(clock)
    <3>1. CASE checkpoint = NoId
      BY <1>7, <3>1 DEF Open
    <3>2. CASE checkpoint # NoId
      <4>1. Day(clock) \in Nat /\ Day(MsOf(checkpoint)) \in Nat
        BY <1>0, ClockDay, DayMono DEF TypeOK
      <4> QED BY <1>7, <3>2, <4>1 DEF Open
    <3> QED BY <3>1, <3>2
  <2>2. /\ pc' = "list" /\ keys' = {} /\ clock' = clock /\ after' = checkpoint
        /\ checkpoint' = checkpoint /\ Landed' = Landed
    BY <1>7 DEF Open, Landed
  <2> QED BY <2>1, <2>2 DEF ListInv
<1>8. ASSUME ListDay PROVE ListInv'
  <2>1. PICK d \in days :
          /\ \A other \in days : d <= other
          /\ days' = days \ {d}
          /\ keys' = {e.id : e \in {x \in journal : x.day = d /\ x.id > after}}
    BY <1>8 DEF ListDay
  <2>2. keys' \subseteq Landed'
    BY <1>8, <2>1 DEF ListDay, Landed
  <2>3. \A k \in keys' : Day(MsOf(k)) = d
    BY <2>1 DEF StampInv
  <2>4. \A c \in days' : d < c
    BY <1>0, <2>1
  <2>5. /\ pc = "list" /\ pc' = "list" /\ after' = after
        /\ clock' = clock /\ checkpoint' = checkpoint /\ Landed' = Landed
    BY <1>8 DEF ListDay, Landed
  <2>6. \A c \in days' : c <= Day(clock)
    BY <1>8, <2>1 DEF ListDay, ListInv
  <2> QED BY <2>2, <2>3, <2>4, <2>5, <2>6 DEF ListInv
<1>9. ASSUME Yield PROVE ListInv'
  <2>1. /\ current' \in keys /\ keys' = keys \ {current'}
        /\ \A other \in keys : current' <= other
    BY <1>9 DEF Yield
  <2>2. \A k \in keys' : current' < k
    BY <1>0, <2>1
  <2>3. \A d \in days : Day(MsOf(current')) < d
    BY <1>9, <2>1 DEF Yield, ListInv
  <2>4. /\ pc' = "handle" /\ clock' = clock /\ checkpoint' = checkpoint
        /\ days' = days /\ after' = after /\ Landed' = Landed /\ pc = "list"
    BY <1>9 DEF Yield, Landed
  <2> QED BY <2>1, <2>2, <2>3, <2>4 DEF ListInv
<1>10. ASSUME Handle PROVE ListInv'
  BY <1>10 DEF Handle, ListInv, Landed
<1>11. ASSUME Advance PROVE ListInv'
  <2>1. checkpoint' \in Landed' /\ Landed' = Landed
    BY <1>11 DEF Advance, ListInv, Landed
  <2>2. pc = "advance" /\ pc' = "list" /\ UNCHANGED <<keys, days, clock, after>>
    BY <1>11 DEF Advance
  <2> QED BY <2>1, <2>2 DEF ListInv
<1>12. ASSUME Finish PROVE ListInv'
  BY <1>12 DEF Finish, ListInv, Landed
<1>13. ASSUME Reset PROVE ListInv'
  BY <1>13 DEF Reset, ListInv, Landed
<1>14. ASSUME UNCHANGED vars PROVE ListInv'
  BY <1>14 DEF vars, ListInv, Landed
<1> QED
  BY <1>1, <1>2, <1>3, <1>4, <1>5, <1>6, <1>7, <1>8, <1>9, <1>10, <1>11, <1>12, <1>13, <1>14
  DEF Next, Read

(* No landed event is lost to the read in progress.                        *)
LEMMA ReadStep ==
  ASSUME InTurn, TypeOK, TypeOK', TurnInv, StampInv, WriterInv, OutcomeInv, ListInv, ListInv',
         ReadInv, NothingSkipped, [Next]_vars
  PROVE  ReadInv'
<1> USE DEF ghosts, reader, Reading, Yielded
<1>0. /\ Landed \subseteq Nat /\ keys \subseteq Nat /\ days \subseteq Nat /\ clock \in Nat
      /\ checkpoint \in Nat /\ current \in Nat /\ after \in Nat
  BY LandedNat DEF TypeOK
<1>a. \A e \in journal : e.id \in Nat /\ e.day \in Nat /\ e.id \in Landed
  BY DEF TypeOK, Events, Landed
<1>1. ASSUME NEW p \in Procs, Start(p) PROVE ReadInv'
  <2>1. running = {}
    BY <1>1 DEF Start, InTurn
  <2>2. pc' \in {"idle", "open"}
    BY <1>1, <2>1 DEF Start, TurnInv
  <2> QED BY <2>2 DEF ReadInv
<1>2. ASSUME NEW p \in Procs, Stop(p) PROVE ReadInv'
  <2>1. running = {p}
    BY <1>2 DEF Stop, TurnInv
  <2>2. pc' = "idle"
    BY <1>2, <2>1 DEF Stop, TurnInv
  <2> QED BY <2>2 DEF ReadInv
<1>3. ASSUME NEW p \in Procs, NEW e \in writing[p], Land(p, e) PROVE ReadInv'
  <2>1. p \in running
    BY <1>3 DEF TurnInv
  <2>2. CASE p # Consumer
    <3>1. pc = "idle" /\ pc' = pc
      BY <1>3, <2>1, <2>2 DEF Land, TurnInv
    <3> QED BY <3>1 DEF ReadInv
  <2>3. CASE p = Consumer
    <3>1. /\ pc = "handle"
          /\ \A x \in journal : x.id < e.id
          /\ \A d \in days : d <= e.day
      BY <2>1, <2>3 DEF OutcomeInv
    <3>2. e.id \in Nat /\ e.day \in Nat
      BY DEF TypeOK, Events
    <3>3. \A i \in Landed : i < e.id
      BY <3>1 DEF Landed
    <3>4. checkpoint < e.id
      <4>1. e.id > NoId
        BY DEF StampInv
      <4> QED BY <3>3, <4>1 DEF ListInv
    <3>5. e.day \in days \/ Late(e)
      BY <3>1, <3>2, <3>3, <3>4, <1>0 DEF Late, ListInv
    <3>6. UNCHANGED <<pc, after, days, keys, current, handled, checkpoint>>
          /\ journal' = journal \cup {e}
      BY <1>3 DEF Land
    <3>7. ~(e.id <= after)
      <4>1. after = NoId \/ after < e.id
        BY <3>1, <3>3 DEF ListInv
      <4>2. e.id > NoId
        BY DEF StampInv
      <4> QED BY <4>1, <4>2, <3>2, <1>0
    <3> QED BY <3>5, <3>6, <3>7 DEF ReadInv, Ahead, Late
  <2> QED BY <2>2, <2>3
<1>4. ASSUME NEW p \in Procs, NEW e \in writing[p], Refuse(p, e) PROVE ReadInv'
  BY <1>4 DEF Refuse, ReadInv, Ahead, Late
<1>5. ASSUME NEW p \in Procs, NEW body \in Bodies, Append(p, body) PROVE ReadInv'
  BY <1>5 DEF Append, ReadInv, Ahead, Late
<1>6. ASSUME Tick PROVE ReadInv'
  BY <1>6 DEF Tick, ReadInv, Ahead, Late
<1>7. ASSUME Open PROVE ReadInv'
  <2>1. ASSUME NEW e \in journal PROVE e.id \in handled \/ e.day \in days'
    <3>1. e.day = Day(MsOf(e.id)) /\ e.id < Block(clock + 1) /\ e.id \in Nat /\ e.day \in Nat
      BY <1>a DEF StampInv
    <3>2. MsOf(e.id) \in Nat /\ MsOf(e.id) <= clock
      BY <3>1, <1>0, BelowBlock
    <3>3. e.day <= Day(clock) /\ Day(clock) \in Nat
      BY <3>1, <3>2, <1>0, ClockDay
    <3>4. CASE checkpoint = NoId
      BY <1>7, <3>3, <3>4 DEF Open
    <3>5. CASE checkpoint # NoId /\ e.id <= checkpoint
      BY <3>5 DEF NothingSkipped
    <3>6. CASE checkpoint # NoId /\ checkpoint < e.id
      <4>1. Day(MsOf(checkpoint)) \in Nat /\ Day(MsOf(checkpoint)) <= e.day
        BY <3>1, <3>6, <1>0, DayMono
      <4> QED BY <1>7, <3>1, <3>3, <3>6, <4>1 DEF Open
    <3> QED BY <3>1, <3>4, <3>5, <3>6, <1>0
  <2>2. \A e \in journal : e.id <= after' => e.id \in handled
    BY <1>7 DEF Open, NothingSkipped
  <2>3. pc' = "list" /\ journal' = journal /\ handled' = handled
    BY <1>7 DEF Open
  <2> QED BY <2>1, <2>2, <2>3 DEF ReadInv, Ahead
<1>8. ASSUME ListDay PROVE ReadInv'
  <2>1. PICK d \in days :
          /\ \A other \in days : d <= other
          /\ days' = days \ {d}
          /\ keys' = {e.id : e \in {x \in journal : x.day = d /\ x.id > after}}
    BY <1>8 DEF ListDay
  <2>2. /\ pc = "list" /\ pc' = "list" /\ keys = {}
        /\ UNCHANGED <<journal, handled, after, current, checkpoint>>
    BY <1>8 DEF ListDay
  <2>3. ASSUME NEW e \in journal, e.id \notin handled PROVE Ahead(e)'
    <3>1. e.day \in days \/ Late(e)
      BY <2>2, <2>3 DEF ReadInv, Ahead
    <3>2. CASE e.day \in days /\ e.day # d
      BY <2>1, <3>2 DEF Ahead
    <3>3. CASE e.day = d
      <4>1. e.id > after
        BY <2>2, <2>3, <1>0, <1>a DEF ReadInv
      <4> QED BY <2>1, <3>3, <4>1 DEF Ahead
    <3>4. CASE Late(e)
      <4>1. d < e.day /\ checkpoint < e.id
        BY <3>4 DEF Late
      <4>2. ASSUME NEW k \in keys' PROVE k < e.id
        <5>1. k \in Nat /\ Day(MsOf(k)) = d
          BY <2>1, <1>a DEF StampInv
        <5>2. e.day = Day(MsOf(e.id)) /\ e.id \in Nat
          BY <1>a DEF StampInv
        <5> QED BY <4>1, <5>1, <5>2, DayOrder
      <4>3. \A c \in days' : c < e.day
        BY <2>1, <3>4 DEF Late
      <4> QED BY <2>2, <4>1, <4>2, <4>3 DEF Ahead, Late
    <3> QED BY <3>1, <3>2, <3>3, <3>4
  <2> QED BY <2>2, <2>3 DEF ReadInv
<1>9. ASSUME Yield PROVE ReadInv'
  <2>1. current' \in keys /\ keys' = keys \ {current'}
    BY <1>9 DEF Yield
  <2>2. /\ pc = "list" /\ pc' = "handle"
        /\ UNCHANGED <<journal, handled, after, days, checkpoint>>
    BY <1>9 DEF Yield
  <2> QED BY <2>1, <2>2 DEF ReadInv, Ahead, Late
<1>10. ASSUME Handle PROVE ReadInv'
  <2>1. /\ pc = "handle" /\ pc' = "advance" /\ handled' = handled \cup {current}
        /\ UNCHANGED <<journal, after, days, keys, current, checkpoint>>
    BY <1>10 DEF Handle
  <2> QED BY <2>1 DEF ReadInv, Ahead, Late
<1>11. ASSUME Advance PROVE ReadInv'
  <2>1. /\ pc = "advance" /\ pc' = "list" /\ checkpoint' = current
        /\ UNCHANGED <<journal, after, days, keys, handled>>
    BY <1>11 DEF Advance
  <2> QED BY <2>1 DEF ReadInv, Ahead, Late
<1>12. ASSUME Finish PROVE ReadInv'
  BY <1>12 DEF Finish, ReadInv
<1>13. ASSUME Reset PROVE ReadInv'
  <2>1. pc = "idle"
    BY <1>13 DEF Reset, InTurn, TurnInv
  <2> QED BY <1>13, <2>1 DEF Reset, ReadInv
<1>14. ASSUME UNCHANGED vars PROVE ReadInv'
  BY <1>14 DEF vars, ReadInv, Ahead, Late
<1> QED
  BY <1>1, <1>2, <1>3, <1>4, <1>5, <1>6, <1>7, <1>8, <1>9, <1>10, <1>11, <1>12, <1>13, <1>14
  DEF Next, Read

-----------------------------------------------------------------------------
(* Only what is handled falls behind the checkpoint.                       *)
LEMMA SkipStep ==
  ASSUME InTurn, TypeOK, TypeOK', TurnInv, StampInv, WriterInv, OutcomeInv, ListInv, ListInv',
         ReadInv, NothingSkipped, [Next]_vars
  PROVE  NothingSkipped'
<1> USE DEF ghosts, reader, Reading, Yielded
<1>0. checkpoint \in Nat /\ current \in Nat /\ keys \subseteq Nat /\ days \subseteq Nat
  BY DEF TypeOK
<1>a. \A e \in journal : e.id \in Nat /\ e.day \in Nat /\ e.id \in Landed
  BY DEF TypeOK, Events, Landed
<1>1. ASSUME NEW p \in Procs, Start(p) PROVE NothingSkipped'
  BY <1>1 DEF Start, NothingSkipped
<1>2. ASSUME NEW p \in Procs, Stop(p) PROVE NothingSkipped'
  BY <1>2 DEF Stop, NothingSkipped
<1>3. ASSUME NEW p \in Procs, NEW e \in writing[p], Land(p, e) PROVE NothingSkipped'
  <2>1. p \in running /\ e.id \in Nat /\ e.id > NoId
    BY <1>3 DEF TurnInv, StampInv, TypeOK, Events
  <2>2. e.id > checkpoint
    <3>1. CASE p # Consumer
      BY <2>1, <3>1 DEF WriterInv
    <3>2. CASE p = Consumer
      <4>1. \A x \in journal : x.id < e.id
        BY <2>1, <3>2 DEF OutcomeInv
      <4>2. \A i \in Landed : i < e.id
        BY <4>1 DEF Landed
      <4> QED BY <2>1, <4>2 DEF ListInv
    <3> QED BY <3>1, <3>2
  <2>3. journal' = journal \cup {e} /\ checkpoint' = checkpoint /\ handled' = handled
    BY <1>3 DEF Land
  <2> QED BY <2>1, <2>2, <2>3, <1>0 DEF NothingSkipped
<1>4. ASSUME NEW p \in Procs, NEW e \in writing[p], Refuse(p, e) PROVE NothingSkipped'
  BY <1>4 DEF Refuse, NothingSkipped
<1>5. ASSUME NEW p \in Procs, NEW body \in Bodies, Append(p, body) PROVE NothingSkipped'
  BY <1>5 DEF Append, NothingSkipped
<1>6. ASSUME Tick PROVE NothingSkipped'
  BY <1>6 DEF Tick, NothingSkipped
<1>7. ASSUME Open PROVE NothingSkipped'
  BY <1>7 DEF Open, NothingSkipped
<1>8. ASSUME ListDay PROVE NothingSkipped'
  BY <1>8 DEF ListDay, NothingSkipped
<1>9. ASSUME Yield PROVE NothingSkipped'
  BY <1>9 DEF Yield, NothingSkipped
<1>10. ASSUME Handle PROVE NothingSkipped'
  BY <1>10 DEF Handle, NothingSkipped
<1>11. ASSUME Advance PROVE NothingSkipped'
  <2>1. pc = "advance" /\ checkpoint' = current /\ UNCHANGED <<journal, handled>>
    BY <1>11 DEF Advance
  <2>2. ASSUME NEW e \in journal, e.id <= current PROVE e.id \in handled
    <3>1. e.id \in handled \/ Ahead(e)
      BY <2>1 DEF ReadInv
    <3>2. current \in handled
      BY <2>1 DEF ReadInv
    <3>3. e.id \notin keys
      BY <2>1, <2>2, <1>0, <1>a DEF ListInv
    <3>4. e.day \notin days
      <4>1. SUFFICES ASSUME e.day \in days PROVE FALSE
        OBVIOUS
      <4>2. Day(MsOf(current)) < Day(MsOf(e.id))
        BY <2>1, <4>1 DEF ListInv, StampInv
      <4>3. current < e.id
        BY <4>2, <1>0, <1>a, DayOrder
      <4> QED BY <2>2, <4>3, <1>0, <1>a
    <3>5. ~ Late(e)
      BY <2>1, <2>2, <1>0, <1>a DEF Late
    <3> QED BY <3>1, <3>2, <3>3, <3>4, <3>5, <2>1 DEF Ahead
  <2> QED BY <2>1, <2>2 DEF NothingSkipped
<1>12. ASSUME Finish PROVE NothingSkipped'
  BY <1>12 DEF Finish, NothingSkipped
<1>13. ASSUME Reset PROVE NothingSkipped'
  BY <1>13, <1>a DEF Reset, NothingSkipped, StampInv, NoId
<1>14. ASSUME UNCHANGED vars PROVE NothingSkipped'
  BY <1>14 DEF vars, NothingSkipped
<1> QED
  BY <1>1, <1>2, <1>3, <1>4, <1>5, <1>6, <1>7, <1>8, <1>9, <1>10, <1>11, <1>12, <1>13, <1>14
  DEF Next, Read

(* The journal starts empty, before anything runs.                         *)
LEMMA InitSkip == Init => SkipInv
<1> SUFFICES ASSUME Init PROVE SkipInv
  OBVIOUS
<1> USE DEF Init, NoId
<1>1. TypeOK /\ TurnInv
  BY DEF TypeOK, TurnInv
<1>2. 0 < Block(clock + 1)
  <2>1. Block(clock) \in Nat /\ Block(clock + 1) = Block(clock) + IdsPerMs
    BY BlockStep
  <2> QED BY <2>1, NumbersAssumption
<1>3. StampInv
  BY <1>2 DEF StampInv
<1>4. WriterInv /\ OutcomeInv /\ ListInv /\ ReadInv /\ NothingSkipped
  BY DEF WriterInv, OutcomeInv, ListInv, ReadInv, NothingSkipped, Reading, Yielded, Landed
<1> QED BY <1>1, <1>3, <1>4 DEF SkipInv

LEMMA SkipInvStep ==
  ASSUME InTurn, SkipInv, [Next]_vars PROVE SkipInv'
<1>1. TypeOK'
  BY TypeStep DEF SkipInv
<1>2. TurnInv' /\ StampInv' /\ WriterInv' /\ OutcomeInv' /\ ListInv'
  BY <1>1, TurnStep, StampStep, WriterStep, OutcomeStep, ListStep DEF SkipInv
<1>3. ReadInv' /\ NothingSkipped'
  BY <1>1, <1>2, ReadStep, SkipStep DEF SkipInv
<1> QED BY <1>1, <1>2, <1>3 DEF SkipInv

-----------------------------------------------------------------------------
(* The checkpoint only moves to the event just handled.                    *)
LEMMA CursorStep ==
  ASSUME NoOperator, TypeOK, TypeOK', StampInv, ListInv, CursorInv, [Next]_vars
  PROVE  CursorInv'
<1> USE DEF ghosts, reader, Reading, Yielded
<1>0. /\ Landed \subseteq Nat /\ keys \subseteq Nat /\ days \subseteq Nat
      /\ checkpoint \in Nat /\ current \in Nat /\ after \in Nat
  BY LandedNat DEF TypeOK
<1>1. ASSUME NEW p \in Procs, Start(p) PROVE CursorInv'
  BY <1>1 DEF Start, CursorInv
<1>2. ASSUME NEW p \in Procs, Stop(p) PROVE CursorInv'
  BY <1>2 DEF Stop, CursorInv
<1>3. ASSUME NEW p \in Procs, NEW e \in writing[p], Land(p, e) \/ Refuse(p, e)
      PROVE  CursorInv'
  BY <1>3 DEF Land, Refuse, CursorInv
<1>4. ASSUME NEW p \in Procs, NEW body \in Bodies, Append(p, body) PROVE CursorInv'
  BY <1>4 DEF Append, CursorInv
<1>5. ASSUME Tick PROVE CursorInv'
  BY <1>5 DEF Tick, CursorInv
<1>6. ASSUME Open PROVE CursorInv'
  BY <1>0, <1>6 DEF Open, CursorInv
<1>7. ASSUME ListDay PROVE CursorInv'
  <2>1. PICK d \in days :
          /\ days' = days \ {d}
          /\ keys' = {e.id : e \in {x \in journal : x.day = d /\ x.id > after}}
    BY <1>7 DEF ListDay
  <2>2. ASSUME NEW k \in keys' PROVE checkpoint < k
    <3>1. k \in Nat /\ k > after /\ Day(MsOf(k)) = d
      BY <2>1 DEF StampInv, TypeOK, Events
    <3>2. checkpoint = after \/ Day(MsOf(checkpoint)) < d
      BY <1>7, <2>1 DEF ListDay, CursorInv
    <3> QED BY <1>0, <3>1, <3>2, DayOrder
  <2> QED BY <1>7, <2>1, <2>2 DEF ListDay, CursorInv
<1>8. ASSUME Yield PROVE CursorInv'
  <2>1. current' \in keys /\ keys' = keys \ {current'}
    BY <1>8 DEF Yield
  <2> QED BY <1>8, <2>1 DEF Yield, CursorInv
<1>9. ASSUME Handle PROVE CursorInv'
  BY <1>9 DEF Handle, CursorInv
<1>10. ASSUME Advance PROVE CursorInv'
  <2>1. \A d \in days : Day(MsOf(current)) < d
    BY <1>10 DEF Advance, ListInv
  <2>2. \A k \in keys : current < k
    BY <1>10 DEF Advance, ListInv
  <2>3. after <= current
    BY <1>0, <1>10 DEF Advance, CursorInv
  <2> QED BY <1>10, <2>1, <2>2, <2>3 DEF Advance, CursorInv
<1>11. ASSUME Finish PROVE CursorInv'
  BY <1>11 DEF Finish, CursorInv
<1>12. ASSUME Reset PROVE CursorInv'
  <2>1. pc = "idle"
    BY <1>12 DEF Reset, NoOperator, CursorInv
  <2> QED BY <1>12, <2>1 DEF Reset, CursorInv
<1>13. ASSUME UNCHANGED vars PROVE CursorInv'
  BY <1>13 DEF vars, CursorInv
<1> QED
  BY <1>1, <1>2, <1>3, <1>4, <1>5, <1>6, <1>7, <1>8, <1>9, <1>10, <1>11, <1>12, <1>13
  DEF Next, Read

(* A read gets to everything it owes.                                      *)
LEMMA OwedStep ==
  ASSUME NoOperator, TypeOK, TypeOK', StampInv, ListInv, CursorInv, OwedInv, [Next]_vars
  PROVE  OwedInv'
<1> USE DEF ghosts, reader, Reading, Yielded
<1>0. /\ Landed \subseteq Nat /\ keys \subseteq Nat /\ days \subseteq Nat
      /\ checkpoint \in Nat /\ current \in Nat /\ after \in Nat /\ owed \subseteq Nat
      /\ clock \in Nat
  BY LandedNat DEF TypeOK
<1>1. ASSUME NEW p \in Procs, Start(p) PROVE OwedInv'
  BY <1>1 DEF Start, OwedInv, ToList, Landed
<1>2. ASSUME NEW p \in Procs, Stop(p) PROVE OwedInv'
  <2>1. CASE p = Consumer
    BY <1>2, <2>1 DEF Stop, OwedInv
  <2>2. CASE p # Consumer
    BY <1>2, <2>2 DEF Stop, OwedInv, ToList, Landed
  <2> QED BY <2>1, <2>2
<1>3. ASSUME NEW p \in Procs, NEW e \in writing[p], Land(p, e) PROVE OwedInv'
  <2>1. Landed \subseteq Landed'
    BY <1>3 DEF Land, Landed
  <2>2. UNCHANGED <<checkpoint, pc, after, days, keys, current, handled, owed>>
    BY <1>3 DEF Land
  <2> QED BY <2>1, <2>2 DEF OwedInv, ToList
<1>4. ASSUME NEW p \in Procs, NEW e \in writing[p], Refuse(p, e) PROVE OwedInv'
  BY <1>4 DEF Refuse, OwedInv, ToList, Landed
<1>5. ASSUME NEW p \in Procs, NEW body \in Bodies, Append(p, body) PROVE OwedInv'
  BY <1>5 DEF Append, OwedInv, ToList, Landed
<1>6. ASSUME Tick PROVE OwedInv'
  BY <1>6 DEF Tick, OwedInv, ToList, Landed
<1>7. ASSUME Open PROVE OwedInv'
  <2>1. ASSUME NEW i \in owed' PROVE i \in Landed /\ checkpoint < i /\ Day(MsOf(i)) \in days'
    <3>1. i \in Landed /\ checkpoint < i
      BY <1>0, <1>7 DEF Open
    <3>2. PICK e \in journal : e.id = i
      BY <3>1 DEF Landed
    <3>3. i \in Nat /\ e.day = Day(MsOf(i)) /\ i < Block(clock + 1)
      BY <1>0, <3>1, <3>2 DEF StampInv
    <3>4. Day(MsOf(i)) \in Nat /\ Day(clock) \in Nat /\ Day(MsOf(i)) <= Day(clock)
      BY <1>0, <3>3, BelowBlock, ClockDay
    <3>5. CASE checkpoint = NoId
      BY <1>7, <3>2, <3>3, <3>4, <3>5 DEF Open
    <3>6. CASE checkpoint # NoId
      <4>1. Day(MsOf(checkpoint)) \in Nat /\ Day(MsOf(checkpoint)) <= Day(MsOf(i))
        BY <1>0, <3>1, <3>3, DayMono
      <4> QED BY <1>7, <3>4, <3>6, <4>1 DEF Open
    <3> QED BY <3>1, <3>5, <3>6
  <2> QED BY <1>7, <2>1 DEF Open, OwedInv, ToList, Landed
<1>8. ASSUME ListDay PROVE OwedInv'
  <2>1. PICK d \in days :
          /\ days' = days \ {d}
          /\ keys' = {e.id : e \in {x \in journal : x.day = d /\ x.id > after}}
    BY <1>8 DEF ListDay
  <2>2. /\ pc = "list" /\ pc' = "list" /\ keys = {} /\ Landed' = Landed
        /\ UNCHANGED <<checkpoint, after, handled, owed>>
    BY <1>8 DEF ListDay, Landed
  <2>3. ASSUME NEW i \in owed, Day(MsOf(i)) \in days PROVE ToList(i)'
    <3>1. PICK e \in journal : e.id = i
      BY <2>2 DEF OwedInv, Landed
    <3>2. i > after /\ e.day = Day(MsOf(i))
      BY <2>2, <3>1, <1>0 DEF OwedInv, StampInv
    <3> QED BY <2>1, <2>3, <3>1, <3>2 DEF ToList
  <2> QED BY <2>2, <2>3 DEF OwedInv, ToList
<1>9. ASSUME Yield PROVE OwedInv'
  <2>1. current' \in keys /\ keys' = keys \ {current'}
    BY <1>9 DEF Yield
  <2> QED BY <1>9, <2>1 DEF Yield, OwedInv, ToList, Landed
<1>10. ASSUME Handle PROVE OwedInv'
  BY <1>10 DEF Handle, OwedInv, ToList, Landed
<1>11. ASSUME Advance PROVE OwedInv'
  <2>1. \A i \in owed : i <= checkpoint \/ i = current => i <= current
    BY <1>0, <1>11 DEF Advance, CursorInv
  <2> QED BY <1>11, <2>1 DEF Advance, OwedInv, ToList, Landed
<1>12. ASSUME Finish PROVE OwedInv'
  BY <1>12 DEF Finish, OwedInv, ToList, Landed
<1>13. ASSUME Reset PROVE OwedInv'
  <2>1. pc = "idle"
    BY <1>13 DEF Reset, NoOperator, CursorInv
  <2> QED BY <1>13, <2>1 DEF Reset, OwedInv
<1>14. ASSUME UNCHANGED vars PROVE OwedInv'
  BY <1>14 DEF vars, OwedInv, ToList, Landed
<1> QED
  BY <1>1, <1>2, <1>3, <1>4, <1>5, <1>6, <1>7, <1>8, <1>9, <1>10, <1>11, <1>12, <1>13, <1>14
  DEF Next, Read

LEMMA InitDrain == Init => DrainInv
<1>1. Init => StampInv /\ ListInv
  BY InitSkip DEF SkipInv
<1> QED BY <1>1, InitSkip
        DEF Init, NoId, SkipInv, DrainInv, CursorInv, OwedInv, Reading, Yielded

LEMMA DrainInvStep ==
  ASSUME NoOperator, DrainInv, [Next]_vars PROVE DrainInv'
<1>1. TypeOK'
  BY TypeStep DEF DrainInv
<1> QED BY <1>1, StampStep, ListStep, CursorStep, OwedStep DEF DrainInv

(* No id is given twice, as NextIds sees all that has landed or is in      *)
(* flight: entropy does not collide.                                       *)
LEMMA UniqueStep ==
  ASSUME TypeOK, ListInv, UniqueInv, [Next]_vars PROVE UniqueInv'
<1> USE DEF ghosts, reader
<1>1. ASSUME UNCHANGED <<journal, handled>>,
             \A p \in Procs : writing'[p] \subseteq writing[p]
      PROVE  UniqueInv'
  BY <1>1 DEF UniqueInv, Landed
<1>2. ASSUME NEW p \in Procs, Start(p) PROVE UniqueInv'
  BY <1>2, <1>1 DEF Start
<1>3. ASSUME NEW p \in Procs, Stop(p) PROVE UniqueInv'
  <2>1. \A q \in Procs : writing'[q] \subseteq writing[q]
    BY <1>3 DEF Stop, TypeOK
  <2> QED BY <1>3, <1>1, <2>1 DEF Stop
<1>4. ASSUME NEW p \in Procs, NEW e \in writing[p], Land(p, e) PROVE UniqueInv'
  <2>1. /\ journal' = journal \cup {e} /\ handled' = handled
        /\ writing'[p] = writing[p] \ {e}
        /\ \A q \in Procs : writing'[q] \subseteq writing[q]
    BY <1>4 DEF Land, TypeOK
  <2>2. Landed' = Landed \cup {e.id}
    BY <2>1 DEF Landed
  <2>3. \A q \in Procs : \A f \in writing'[q] : f.id # e.id
    BY <2>1 DEF UniqueInv
  <2>4. \A f \in journal : f.id # e.id
    BY DEF UniqueInv, Landed
  <2> QED BY <2>1, <2>2, <2>3, <2>4 DEF UniqueInv
<1>5. ASSUME NEW p \in Procs, NEW e \in writing[p], Refuse(p, e) PROVE UniqueInv'
  <2>1. \A q \in Procs : writing'[q] \subseteq writing[q]
    BY <1>5 DEF Refuse, TypeOK
  <2> QED BY <1>5, <1>1, <2>1 DEF Refuse
<1>6. ASSUME NEW p \in Procs, NEW body \in Bodies, Append(p, body) PROVE UniqueInv'
  <2>1. PICK id \in NextIds(p) :
          writing' = [writing EXCEPT ![p] =
                       @ \cup {[id |-> id, day |-> Day(clock), body |-> body]}]
    BY <1>6 DEF Append
  <2> DEFINE new == [id |-> id, day |-> Day(clock), body |-> body]
  <2>2. id \notin Landed /\ \A q \in Procs : \A e \in writing[q] : e.id # id
    BY <2>1 DEF NextIds, Flying
  <2>3. /\ \A q \in Procs : \A e \in writing'[q] : e \in writing[q] \/ (q = p /\ e = new)
        /\ new.id = id
    BY <2>1 DEF TypeOK
  <2>4. journal' = journal /\ handled' = handled /\ Landed' = Landed
    BY <1>6 DEF Append, Landed
  <2> HIDE DEF new
  <2> QED BY <2>2, <2>3, <2>4 DEF UniqueInv
<1>7. ASSUME Tick \/ Open \/ ListDay \/ Yield \/ Advance \/ Finish PROVE UniqueInv'
  BY <1>7, <1>1 DEF Tick, Open, ListDay, Yield, Advance, Finish
<1>8. ASSUME Handle PROVE UniqueInv'
  <2>1. current \in Landed
    BY <1>8 DEF Handle, ListInv, Yielded
  <2> QED BY <1>8, <2>1 DEF Handle, UniqueInv, Landed
<1>9. ASSUME Reset PROVE UniqueInv'
  BY <1>9 DEF Reset, UniqueInv, Landed
<1>10. ASSUME UNCHANGED vars PROVE UniqueInv'
  BY <1>10, <1>1 DEF vars
<1> QED BY <1>2, <1>3, <1>4, <1>5, <1>6, <1>7, <1>8, <1>9, <1>10 DEF Next, Read

(* All that holds of a journal whose readers and writers take turns.       *)
FullInv == SkipInv /\ CursorInv /\ OwedInv /\ UniqueInv

LEMMA InitFull == Init => FullInv
<1>1. Init => UniqueInv
  BY DEF Init, UniqueInv, Landed
<1> QED BY <1>1, InitSkip, InitDrain DEF FullInv, DrainInv

LEMMA FullInvStep ==
  ASSUME InTurn, FullInv, [Next]_vars PROVE FullInv'
<1>1. SkipInv'
  BY SkipInvStep DEF FullInv
<1>2. CursorInv' /\ OwedInv'
  BY DrainInvStep DEF FullInv, SkipInv, DrainInv, InTurn, NoOperator
<1>3. UniqueInv'
  BY UniqueStep DEF FullInv, SkipInv
<1> QED BY <1>1, <1>2, <1>3 DEF FullInv

-----------------------------------------------------------------------------
(* Ids, days, keys and counters keep their types, whatever overlaps.       *)
THEOREM JournalTypeCorrect == Spec => []TypeOK
<1>1. Init => TypeOK
  BY DEF Init, TypeOK, NoId
<1>2. TypeOK /\ [Next]_vars => TypeOK'
  BY TypeStep
<1> QED BY <1>1, <1>2, PTL DEF Spec

(* A consumer that resumes from its checkpoint skips no event, for any     *)
(* number of processes, days and events, when stages take turns and        *)
(* checkpoints are reset between them (journal.ts:11-18).                  *)
THEOREM NoEventIsSkipped ==
  ASSUME InTurn PROVE Spec => []NothingSkipped
<1>1. Init => SkipInv
  BY InitSkip
<1>2. SkipInv /\ [Next]_vars => SkipInv'
  BY SkipInvStep
<1>3. SkipInv => NothingSkipped
  BY DEF SkipInv
<1> QED BY <1>1, <1>2, <1>3, PTL DEF Spec

(* A read that ends by itself has handled every event that had landed past *)
(* the checkpoint when it began, for any number of processes, days and     *)
(* events and whatever is appended meanwhile, by itself or by a process    *)
(* that overlaps it (journal.ts:42-72).                                    *)
THEOREM ReadDrainsBacklog ==
  ASSUME NoOperator PROVE Spec => []DrainsBacklog
<1>1. Init => DrainInv
  BY InitDrain
<1>2. DrainInv /\ [Next]_vars => DrainInv'
  BY DrainInvStep
<1>3. DrainInv => DrainsBacklog
  BY DEF DrainInv, CursorInv, OwedInv, ToList, DrainsBacklog
<1> QED BY <1>1, <1>2, <1>3, PTL DEF Spec

=============================================================================
