-------------------------- MODULE Discovery_proofs --------------------------
(***************************************************************************)
(* What TLAPS proves of Discovery, for every set of windows, repositories, *)
(* runs and faults.                                                        *)
(***************************************************************************)
EXTENDS Discovery, FiniteSetTheorems, SequenceTheorems, TLAPS

-----------------------------------------------------------------------------
(* The flush chain: at most one call by each of its two users.             *)

(* A call joins a chain that holds one.                                    *)
LEMMA AppendPair == ASSUME NEW a, NEW b PROVE Append(<<a>>, b) = <<a, b>>
<1>1. <<a>> \in Seq({a, b}) /\ <<a, b>> \in Seq({a, b}) /\ Len(<<a>>) = 1 /\ Len(<<a, b>>) = 2
  OBVIOUS
<1>2. \A i \in 1..2 : Append(<<a>>, b)[i] = <<a, b>>[i]
  BY <1>1
<1>3. Append(<<a>>, b) \in Seq({a, b}) /\ Len(Append(<<a>>, b)) = 2
  BY <1>1
<1> QED BY <1>1, <1>2, <1>3, SeqEqual

(* The first of two calls leaves the chain.                                *)
LEMMA TailPair == ASSUME NEW a, NEW b PROVE Tail(<<a, b>>) = <<b>>
<1>1. <<b>> \in Seq({a, b}) /\ <<a, b>> \in Seq({a, b}) /\ Len(<<b>>) = 1 /\ Len(<<a, b>>) = 2
  OBVIOUS
<1>2. Tail(<<a, b>>) \in Seq({a, b}) /\ Len(Tail(<<a, b>>)) = 1
  BY <1>1
<1>3. Tail(<<a, b>>)[1] = b
  BY <1>1
<1> QED BY <1>1, <1>2, <1>3, SeqEqual

LoopQueued    == turns \in {<<"loop">>, <<"loop", "handler">>, <<"handler", "loop">>}
HandlerQueued == turns \in {<<"handler">>, <<"loop", "handler">>, <<"handler", "loop">>}

(* The main loop waits for a flush exactly while its call is queued, and   *)
(* so does the handler; a write in progress has a caller.                  *)
ChainOK ==
  /\ LoopQueued <=> pc \in {"flush", "final", "rescue"}
  /\ HandlerQueued <=> handler = "flush"
  /\ write # "idle" => turns # <<>>

(* There is a handler only once it is installed, and a process only in a   *)
(* run; only the corpus is written document by document.                   *)
ProcessOK ==
  /\ handler # "idle" => pc \notin {"down", "wipe", "open", "register"}
  /\ Running => run # 0
  /\ write # "corpus" => unwritten = {}

(* Joining and leaving the chain.                                          *)
LEMMA JoinLoop ==
  ASSUME turns \in Chains, ~LoopQueued, turns' = Append(turns, "loop")
  PROVE  turns' \in Chains /\ turns' # <<>> /\ LoopQueued' /\ (HandlerQueued' <=> HandlerQueued)
<1>1. CASE turns = <<>>
  BY <1>1 DEF Chains, LoopQueued, HandlerQueued
<1>2. CASE turns = <<"handler">>
  <2>1. turns' = <<"handler", "loop">>
    BY <1>2, AppendPair
  <2>2. turns' # <<>>
    BY <2>1
  <2> QED BY <1>2, <2>1, <2>2 DEF Chains, LoopQueued, HandlerQueued
<1> QED BY <1>1, <1>2 DEF Chains, LoopQueued, HandlerQueued

(* The handler's call joins the chain: it was not in it, and now is.       *)
LEMMA JoinHandler ==
  ASSUME turns \in Chains, ~HandlerQueued, turns' = Append(turns, "handler")
  PROVE  turns' \in Chains /\ turns' # <<>> /\ HandlerQueued' /\ (LoopQueued' <=> LoopQueued)
<1>1. CASE turns = <<>>
  BY <1>1 DEF Chains, LoopQueued, HandlerQueued
<1>2. CASE turns = <<"loop">>
  <2>1. turns' = <<"loop", "handler">>
    BY <1>2, AppendPair
  <2>2. turns' # <<>>
    BY <2>1
  <2> QED BY <1>2, <2>1, <2>2 DEF Chains, LoopQueued, HandlerQueued
<1> QED BY <1>1, <1>2 DEF Chains, LoopQueued, HandlerQueued

(* Whoever is first in the chain is one of its two users.                  *)
LEMMA ChainHead == turns \in Chains /\ turns # <<>> => Head(turns) \in Process
BY DEF Chains, Process

(* The first call leaves the chain, and the other, if any, stays in it.    *)
LEMMA LeaveChain ==
  ASSUME turns \in Chains, turns # <<>>, turns' = Tail(turns)
  PROVE  /\ turns' \in Chains /\ Head(turns) \in Process
         /\ Head(turns) = "loop" =>
              LoopQueued /\ ~LoopQueued' /\ (HandlerQueued' <=> HandlerQueued)
         /\ Head(turns) = "handler" =>
              HandlerQueued /\ ~HandlerQueued' /\ (LoopQueued' <=> LoopQueued)
<1>1. CASE turns = <<"loop">>
  BY <1>1 DEF Chains, LoopQueued, HandlerQueued, Process
<1>2. CASE turns = <<"handler">>
  BY <1>2 DEF Chains, LoopQueued, HandlerQueued, Process
<1>3. CASE turns = <<"loop", "handler">>
  <2>1. turns' = <<"handler">>
    BY <1>3, TailPair
  <2> QED BY <1>3, <2>1 DEF Chains, LoopQueued, HandlerQueued, Process
<1>4. CASE turns = <<"handler", "loop">>
  <2>1. turns' = <<"loop">>
    BY <1>4, TailPair
  <2> QED BY <1>4, <2>1 DEF Chains, LoopQueued, HandlerQueued, Process
<1> QED BY <1>1, <1>2, <1>3, <1>4 DEF Chains

(* In the loop a rejected flush is followed at once by the one of finally. *)
LEMMA Requeue ==
  ASSUME turns \in Chains, turns # <<>>, Head(turns) = "loop",
         turns' = Append(Tail(turns), "loop")
  PROVE  turns' \in Chains /\ turns' # <<>> /\ LoopQueued /\ LoopQueued'
         /\ (HandlerQueued' <=> HandlerQueued)
<1>1. CASE turns = <<"loop">>
  <2>1. turns' = <<"loop">>
    BY <1>1
  <2> QED BY <1>1, <2>1 DEF Chains, LoopQueued, HandlerQueued
<1>2. CASE turns = <<"loop", "handler">>
  <2>1. turns' = <<"handler", "loop">>
    BY <1>2, TailPair, AppendPair
  <2>2. LoopQueued /\ HandlerQueued
    BY <1>2 DEF LoopQueued, HandlerQueued
  <2>3. LoopQueued' /\ HandlerQueued'
    BY <2>1 DEF LoopQueued, HandlerQueued
  <2>4. turns' \in Chains
    BY <2>1 DEF Chains
  <2>5. turns' # <<>>
    BY <2>1
  <2> QED BY <2>2, <2>3, <2>4, <2>5
<1>3. turns # <<"handler">> /\ turns # <<"handler", "loop">>
  OBVIOUS
<1> QED BY <1>1, <1>2, <1>3 DEF Chains

-----------------------------------------------------------------------------
(* Type correctness.                                                       *)

(* Children are windows.                                                   *)
LEMMA KidsType == ASSUME NEW w \in Windows PROVE Kids(w) \in Seq(Windows)
BY WindowsAssumption DEF Kids

(* The queue stays a queue of windows, shifted with or without the         *)
(* children pushed.                                                        *)
LEMMA QueueType ==
  ASSUME NEW q \in Seq(Windows), q # <<>>
  PROVE  /\ Head(q) \in Windows /\ Tail(q) \in Seq(Windows)
         /\ Tail(q \o Kids(Head(q))) \in Seq(Windows)
<1>1. Head(q) \in Windows /\ Tail(q) \in Seq(Windows)
  OBVIOUS
<1>2. q \o Kids(Head(q)) \in Seq(Windows) /\ q \o Kids(Head(q)) # <<>>
  <2>1. Kids(Head(q)) \in Seq(Windows)
    BY <1>1, KidsType
  <2>2. Len(q) > 0 /\ Len(q \o Kids(Head(q))) = Len(q) + Len(Kids(Head(q)))
    BY <2>1, ConcatProperties
  <2>3. q \o Kids(Head(q)) \in Seq(Windows)
    BY <2>1, ConcatProperties
  <2> QED BY <2>1, <2>2, <2>3
<1> QED BY <1>1, <1>2, HeadTailProperties

(* A window has a first page and its pages hold repositories.              *)
LEMMA PageType ==
  ASSUME NEW w \in Windows
  PROVE  /\ LastPage(w) \in Nat \ {0}
         /\ \A p \in 1..LastPage(w) : Pages[w][p] \subseteq Repos
<1>1. Pages[w] \in Seq(SUBSET Repos) /\ Pages[w] # <<>>
  BY WindowsAssumption
<1>2. Len(Pages[w]) \in Nat \ {0}
  BY <1>1
<1> QED BY <1>1, <1>2 DEF LastPage

(* A set of windows has a size.                                            *)
LEMMA WindowCount ==
  ASSUME NEW S \in SUBSET Windows PROVE Cardinality(S) \in Nat
BY WindowsAssumption, FS_Subset, FS_CardinalityType

(* The progress of no sweep is a progress record.                          *)
LEMMA NoWorkType == NoWork \in Progress
<1>1. <<>> \in Seq(Windows)
  OBVIOUS
<1> QED BY <1>1, BoundsAssumption DEF NoWork, Progress

TypeInv == TypeOK /\ ChainOK /\ ProcessOK

(* The first state has its types.                                          *)
LEMMA TypeInit == Init => TypeInv
<1> SUFFICES ASSUME Init PROVE TypeInv
  OBVIOUS
<1> USE DEF Init
<1>1. /\ corpus \in [Repos -> 0..MaxPayload] /\ known \in [Repos -> 0..MaxPayload]
      /\ github \in [Repos -> 1..MaxPayload]
      /\ asOf \in [1..MaxRuns -> [Repos -> 0..MaxPayload]]
      /\ stamp \in [Process -> RunDocs \union {NoRun}]
      /\ history \in [1..MaxRuns -> RunDocs \union {NoRun}]
      /\ turns \in Chains
  BY BoundsAssumption DEF Chains
<1>2. work \in Progress /\ snap \in Progress
  BY NoWorkType
<1>3. /\ page \in Nat \ {0} /\ since \in Nat /\ opened \in Nat
      /\ run \in 0..MaxRuns /\ faults \in 0..MaxFaults
  BY BoundsAssumption
<1>5. TypeOK
  <2>1. stopped \in BOOLEAN
    OBVIOUS
  <2> QED BY <1>1, <1>2, <1>3, <2>1 DEF TypeOK
<1>4. ChainOK
  BY DEF ChainOK, LoopQueued, HandlerQueued
<1>6. ProcessOK
  BY DEF ProcessOK, Running
<1> QED BY <1>4, <1>5, <1>6 DEF TypeInv

(* windowCompleted leaves its variables typed and, if it flushes, joins    *)
(* the chain.                                                              *)
LEMMA WindowCompletedType ==
  ASSUME TypeInv, pc = "loop", WindowCompleted, UNCHANGED <<handler, write>>
  PROVE  /\ page' \in Nat \ {0} /\ since' \in Nat /\ stopped' \in BOOLEAN
         /\ turns' \in Chains /\ pc' \in {"loop", "flush"} /\ ChainOK'
<1> USE DEF TypeInv, TypeOK
<1>1. page' \in Nat \ {0} /\ since' \in Nat
  BY DEF WindowCompleted
<1>2. ~LoopQueued
  BY DEF ChainOK
<1>3. CASE pc' = "flush" /\ turns' = Append(turns, "loop") /\ UNCHANGED stopped
  <2> QED BY <1>1, <1>2, <1>3, JoinLoop DEF ChainOK
<1>4. CASE pc' = "loop" /\ stopped' = LimitReached(known') /\ UNCHANGED turns
  <2>1. stopped' \in BOOLEAN
    BY <1>4 DEF LimitReached
  <2> QED BY <1>1, <1>2, <1>4, <2>1 DEF ChainOK, LoopQueued, HandlerQueued
<1> QED BY <1>3, <1>4 DEF WindowCompleted

(* The document of a run is one.                                           *)
LEMMA RunDocType ==
  ASSUME TypeInv, NEW o \in {"running", "complete", "failed", "interrupted"}
  PROVE  RunDoc(o) \in RunDocs
<1>1. Cardinality(work.done) \in Nat /\ Cardinality(mine) \in Nat
  BY WindowCount DEF TypeInv, TypeOK, Progress
<1>2. Cardinality(work.done) - opened \in Int
  BY <1>1 DEF TypeInv, TypeOK
<1> QED BY <1>1, <1>2 DEF RunDoc, RunDocs

(* Only a process that is up writes.                                       *)
LEMMA WriterRuns ==
  TypeInv /\ turns # <<>> => pc \notin {"down", "wipe", "open", "register"} /\ run # 0
BY DEF TypeInv, TypeOK, Chains, ChainOK, ProcessOK, LoopQueued, HandlerQueued, Running

(* A flush that succeeds lets its caller, and no one else, go on.          *)
LEMMA ResolveType ==
  ASSUME TypeInv, write # "idle", write' = "idle", Resolve
  PROVE  /\ turns' \in Chains /\ ChainOK' /\ handler' \in {"idle", "flush", "finish", "exit"}
         /\ pc' \in {pc, "loop", "finish", "ended"} /\ stopped' \in BOOLEAN
         /\ stamp' \in [Process -> RunDocs \union {NoRun}]
<1> USE DEF TypeInv, TypeOK, ChainOK
<1>1. turns # <<>> /\ turns' = Tail(turns)
  BY DEF Resolve
<1>2. CASE Head(turns) = "handler"
  <2>1. stamp' \in [Process -> RunDocs \union {NoRun}]
    BY <1>2, RunDocType DEF Resolve
  <2> QED BY <1>1, <1>2, <2>1, LeaveChain DEF Resolve
<1>3. CASE Head(turns) # "handler"
  <2>1. Head(turns) = "loop"
    BY <1>1, <1>3, LeaveChain DEF Process
  <2>2. pc \in {"flush", "final", "rescue"}
    BY <1>1, <2>1, LeaveChain
  <2>3. pc' \in {"loop", "finish", "ended"}
    BY <1>3, <2>2 DEF Resolve
  <2>4. stamp' \in [Process -> RunDocs \union {NoRun}]
    BY <1>3, RunDocType DEF Resolve, Outcome
  <2>5. stopped' \in BOOLEAN
    BY <1>3 DEF Resolve, LimitReached
  <2>6. handler' = handler
    BY <1>3 DEF Resolve
  <2> QED BY <1>1, <2>1, <2>3, <2>4, <2>5, <2>6, LeaveChain
<1> QED BY <1>2, <1>3

(* A flush that fails lets its caller, and no one else, go on.             *)
LEMMA RejectType ==
  ASSUME TypeInv, write # "idle", write' = "idle", Reject
  PROVE  /\ turns' \in Chains /\ ChainOK' /\ handler' \in {"idle", "flush", "finish", "exit"}
         /\ pc' \in {pc, "rescue", "ended"}
<1> USE DEF TypeInv, TypeOK, ChainOK
<1>1. turns # <<>>
  OBVIOUS
<1>2. CASE Head(turns) = "handler"
  BY <1>1, <1>2, LeaveChain DEF Reject
<1>3. CASE Head(turns) # "handler"
  <2>1. Head(turns) = "loop"
    BY <1>1, <1>3, ChainHead DEF Process
  <2>2. CASE pc = "flush"
    BY <1>1, <1>3, <2>1, <2>2, Requeue DEF Reject
  <2>3. CASE pc # "flush"
    BY <1>1, <1>3, <2>1, <2>3, LeaveChain DEF Reject
  <2> QED BY <2>2, <2>3
<1> QED BY <1>2, <1>3

(* Every step keeps the types.                                             *)
LEMMA TypeStep == TypeInv /\ [Next]_vars => TypeInv'
<1> SUFFICES ASSUME TypeInv, [Next]_vars PROVE TypeInv'
  OBVIOUS
<1> USE BoundsAssumption, SentinelAssumption DEF TypeInv, TypeOK, ChainOK, ProcessOK, Running, store, memory, flusher, world
<1>1. CASE Start
  BY <1>1 DEF Start, LoopQueued, HandlerQueued
<1>2. CASE RemoveRepo
  BY <1>2 DEF RemoveRepo, LoopQueued, HandlerQueued
<1>3. CASE RemoveState
  BY <1>3 DEF RemoveState, LoopQueued, HandlerQueued
<1>4. CASE Open
  <2>1. work' \in Progress
    BY <1>4, NoWorkType DEF Open
  <2>2. opened' \in Nat
    BY <1>4, <2>1, WindowCount DEF Open, Progress
  <2>3. stamp' \in [Process -> RunDocs \union {NoRun}]
    <3>1. [outcome |-> "running", windows_completed |-> 0, own |-> 0] \in RunDocs
      BY DEF RunDocs
    <3> QED BY <1>4, <3>1 DEF Open
  <2>4. known' \in [Repos -> 0..MaxPayload]
    BY <1>4 DEF Open
  <2> QED BY <1>4, <2>1, <2>2, <2>3, <2>4 DEF Open, LoopQueued, HandlerQueued
<1>5. CASE Register
  BY <1>5, WindowsAssumption DEF Register, LoopQueued, HandlerQueued, Progress, Process, RunDocs
<1>6. CASE RegisterFails
  BY <1>6 DEF RegisterFails, Refuses, Fault, LoopQueued, HandlerQueued, Process
<1>7. CASE SkipCompleted
  <2>1. work' \in Progress
    BY <1>7, QueueType DEF SkipCompleted, InLoop, Progress
  <2> QED BY <1>7, <2>1, WindowCompletedType DEF SkipCompleted, InLoop
<1>8. CASE FetchPage
  <2>1. Head(work.pending) \in Windows
    BY <1>8, QueueType DEF FetchPage, InLoop, Progress
  <2>2. /\ known' \in [Repos -> 0..MaxPayload] /\ seen' \subseteq Repos /\ buffer' \subseteq Docs
    <3>1. Pages[Head(work.pending)][page] \subseteq Repos
      <4>1. page \in 1..LastPage(Head(work.pending))
        BY <1>8, <2>1, PageType DEF FetchPage
      <4> QED BY <2>1, <4>1, PageType
    <3> QED BY <1>8, <3>1 DEF FetchPage, RecordAll, Docs
  <2>3. CASE page' = page + 1 /\ UNCHANGED <<pc, work, since, stopped, turns, mine>>
    BY <1>8, <2>2, <2>3 DEF FetchPage, LoopQueued, HandlerQueued
  <2>4. CASE CompleteWindow(Head(work.pending))
    <3>1. work' \in Progress
      BY <2>1, <2>4, <1>8, QueueType DEF FetchPage, CompleteWindow, InLoop, Progress
    <3>2. mine' \subseteq Windows
      BY <2>1, <2>4 DEF CompleteWindow
    <3> QED BY <1>8, <2>2, <2>4, <3>1, <3>2, WindowCompletedType DEF FetchPage, CompleteWindow, InLoop
  <2> QED BY <1>8, <2>3, <2>4 DEF FetchPage
<1>9. CASE FetchFails
  <2>1. work' \in Progress
    BY <1>9, QueueType DEF FetchFails, InLoop, Progress
  <2>2. faults' \in 0..MaxFaults
    BY <1>9 DEF FetchFails, Fault
  <2>3. /\ page' \in Nat \ {0} /\ since' \in Nat /\ stopped' \in BOOLEAN
        /\ turns' \in Chains /\ pc' \in {"loop", "flush"} /\ ChainOK'
    BY <1>9, WindowCompletedType DEF FetchFails, InLoop
  <2> QED BY <1>9, <2>1, <2>2, <2>3 DEF FetchFails, InLoop
<1>10. CASE LeaveLoop
  <2>1. ~LoopQueued
    BY <1>10 DEF LeaveLoop
  <2>2. turns' \in Chains /\ ChainOK' /\ ProcessOK'
    BY <1>10, <2>1, JoinLoop DEF LeaveLoop
  <2> QED BY <1>10, <2>2 DEF LeaveLoop
<1>11. CASE BeginWrite
  BY <1>11 DEF BeginWrite, LoopQueued, HandlerQueued
<1>12. CASE WriteRepo
  <2>1. corpus' \in [Repos -> 0..MaxPayload]
    BY <1>12 DEF WriteRepo, Docs
  <2> QED BY <1>12, <2>1 DEF WriteRepo, LoopQueued, HandlerQueued
<1>13. CASE WriteRepoFails
  <2>1. turns' \in Chains /\ ChainOK' /\ handler' \in {"idle", "flush", "finish", "exit"}
        /\ pc' \in {pc, "rescue", "ended"}
    BY <1>13, RejectType DEF WriteRepoFails
  <2>2. pc' \notin {"down", "wipe", "open", "register"} /\ run # 0
    BY <1>13, <2>1, WriterRuns DEF WriteRepoFails
  <2>3. ProcessOK'
    BY <1>13, <2>2 DEF WriteRepoFails
  <2>4. buffer' \subseteq Docs /\ faults' \in 0..MaxFaults
    BY <1>13 DEF WriteRepoFails, Refuses, Fault
  <2>5. refused' \subseteq (1..MaxRuns) \X Process
    BY <1>13, ChainHead, WriterRuns DEF WriteRepoFails, Refuses
  <2> QED BY <1>13, <2>1, <2>3, <2>4, <2>5 DEF WriteRepoFails
<1>14. CASE WriteState
  <2>1. turns' \in Chains /\ ChainOK' /\ handler' \in {"idle", "flush", "finish", "exit"}
        /\ pc' \in {pc, "loop", "finish", "ended"} /\ stopped' \in BOOLEAN
        /\ stamp' \in [Process -> RunDocs \union {NoRun}]
    BY <1>14, ResolveType DEF WriteState
  <2>2. saved' \in Progress /\ snap' \in Progress /\ since' \in Nat /\ batch' = {}
    BY <1>14, NoWorkType DEF WriteState
  <2>3. ProcessOK'
    <3>1. pc' \notin {"down", "wipe", "open", "register"} /\ run # 0
      BY <1>14, <2>1, WriterRuns DEF WriteState
    <3> QED BY <1>14, <3>1 DEF WriteState
  <2>4. unwritten' \subseteq batch'
    BY <1>14 DEF WriteState
  <2> QED BY <1>14, <2>1, <2>2, <2>3, <2>4 DEF WriteState
<1>15. CASE WriteStateFails
  <2>1. turns' \in Chains /\ ChainOK' /\ handler' \in {"idle", "flush", "finish", "exit"}
        /\ pc' \in {pc, "rescue", "ended"}
    BY <1>15, RejectType DEF WriteStateFails
  <2>2. snap' \in Progress /\ batch' = {} /\ faults' \in 0..MaxFaults
    BY <1>15, NoWorkType DEF WriteStateFails, Refuses, Fault
  <2>3. ProcessOK'
    <3>1. pc' \notin {"down", "wipe", "open", "register"} /\ run # 0
      BY <1>15, <2>1, WriterRuns DEF WriteStateFails
    <3> QED BY <1>15, <3>1 DEF WriteStateFails
  <2>4. unwritten' \subseteq batch'
    BY <1>15 DEF WriteStateFails
  <2>5. refused' \subseteq (1..MaxRuns) \X Process
    BY <1>15, ChainHead, WriterRuns DEF WriteStateFails, Refuses
  <2> QED BY <1>15, <2>1, <2>2, <2>3, <2>4, <2>5 DEF WriteStateFails
<1>16. CASE FinishRun
  BY <1>16 DEF FinishRun, LoopQueued, HandlerQueued, Process
<1>17. CASE FinishRunFails
  BY <1>17 DEF FinishRunFails, Refuses, Fault, LoopQueued, HandlerQueued, Process
<1>18. CASE Interrupt
  BY <1>18 DEF Interrupt, LoopQueued, HandlerQueued, Process
<1>19. CASE InterruptFails
  BY <1>19 DEF InterruptFails, Refuses, Fault, LoopQueued, HandlerQueued, Process
<1>20. CASE Signal
  <2>1. ~HandlerQueued
    BY <1>20 DEF Signal
  <2>2. turns' \in Chains /\ ChainOK'
    BY <1>20, <2>1, JoinHandler DEF Signal
  <2>3. ProcessOK'
    BY <1>20 DEF Signal, Sweeping
  <2> QED BY <1>20, <2>2, <2>3 DEF Signal
<1>21. CASE Running /\ Gone /\ UNCHANGED <<store, run, github, asOf>>
                /\ left' \in {left, left \union {<<run, "loop">>}, left \union {<<run, "handler">>}}
                /\ UNCHANGED <<faults, refused>>
  <2>1. known' \in [Repos -> 0..MaxPayload] /\ stamp' \in [Process -> RunDocs \union {NoRun}]
    BY <1>21 DEF Gone
  <2>2. turns' \in Chains /\ ~LoopQueued' /\ ~HandlerQueued'
    BY <1>21 DEF Gone, Chains, LoopQueued, HandlerQueued
  <2>3. left' \subseteq (1..MaxRuns) \X Process
    BY <1>21 DEF Process
  <2>4. /\ pc' = "down" /\ handler' = "idle" /\ write' = "idle"
        /\ work' \in Progress /\ snap' \in Progress
        /\ page' \in Nat \ {0} /\ since' \in Nat /\ opened' \in Nat
        /\ seen' = {} /\ mine' = {} /\ buffer' = {} /\ batch' = {} /\ unwritten' = {}
    BY <1>21, NoWorkType DEF Gone
  <2>5. stopped' \in BOOLEAN
    BY <1>21 DEF Gone
  <2>6. ChainOK'
    BY <2>2, <2>4
  <2> QED BY <1>21, <2>1, <2>2, <2>3, <2>4, <2>5, <2>6
<1>22. CASE Exit
  <2>1. Running
    BY <1>22 DEF Exit
  <2> QED BY <1>21, <1>22, <2>1 DEF Exit
<1>23. CASE Kill
  BY <1>21, <1>23 DEF Kill
<1>24. CASE Push
  BY <1>24 DEF Push, LoopQueued, HandlerQueued
<1>25. CASE UNCHANGED vars
  BY <1>25 DEF vars, LoopQueued, HandlerQueued
<1> QED BY <1>1, <1>2, <1>3, <1>4, <1>5, <1>6, <1>7, <1>8, <1>9, <1>10, <1>11, <1>12, <1>13,
           <1>14, <1>15, <1>16, <1>17, <1>18, <1>19, <1>20, <1>22, <1>23, <1>24, <1>25
        DEF Next, OpenStep, LoopStep, FlushStep, EndStep

(* Every variable keeps its type, and the flush chain holds at most one    *)
(* call of the loop and one of the handler, each waiting for its own.      *)
THEOREM TypeCorrect == Spec => []TypeOK
<1>1. Spec => []TypeInv
  BY TypeInit, TypeStep, PTL DEF Spec
<1>2. TypeInv => TypeOK
  BY DEF TypeInv
<1> QED BY <1>1, <1>2, PTL

-----------------------------------------------------------------------------
(* No window is dropped.  A progress record is traced when every           *)
(* repository in scope is accounted for, and when a completed window still *)
(* has, for each of its repositories, a window at least as fine that       *)
(* accounts for it.  The second part is what makes skipping a window       *)
(* enqueued twice safe: it can never have been accounted for only by       *)
(* itself, because children are strictly finer than their parent.          *)

Covered(s, r, d) == \E u \in Accounts(s) : r \in Matches[u] /\ Depth[u] >= d

Traced(s) ==
  /\ \A r \in InScope : Covered(s, r, 0)
  /\ \A v \in s.done : \A r \in Matches[v] : Covered(s, r, Depth[v])

(* Which windows a queue holds once it is shifted, with children pushed or *)
(* not.                                                                    *)
LEMMA QueueRange ==
  ASSUME NEW q \in Seq(Windows), q # <<>>, NEW k \in Seq(Windows)
  PROVE  /\ Range(q) \subseteq {Head(q)} \union Range(Tail(q))
         /\ Range(q) \union Range(k) \subseteq {Head(q)} \union Range(Tail(q \o k))
         /\ Range(Tail(q)) \subseteq Range(q)
         /\ Range(Tail(q \o k)) \subseteq Range(q) \union Range(k)
<1> DEFINE c == q \o k
<1>1. c \in Seq(Windows) /\ c # <<>> /\ Head(c) = Head(q)
  <2>1. Len(q) \in Nat /\ Len(q) > 0 /\ Len(k) \in Nat /\ Len(c) = Len(q) + Len(k)
    BY ConcatProperties
  <2>2. c \in Seq(Windows) /\ c[1] = q[1]
    BY <2>1, ConcatProperties
  <2> QED BY <2>1, <2>2
<1>2. ASSUME NEW t \in Seq(Windows), t # <<>>
      PROVE  Range(t) = {Head(t)} \union Range(Tail(t))
  <2>1. /\ Tail(t) \in Seq(Windows) /\ Len(Tail(t)) = Len(t) - 1
        /\ \A i \in 1..Len(Tail(t)) : Tail(t)[i] = t[i + 1]
    BY <1>2, HeadTailProperties
  <2>2. Range(t) = {t[i] : i \in 1..Len(t)} /\ Range(Tail(t)) = {Tail(t)[i] : i \in 1..Len(Tail(t))}
    BY <2>1, RangeEquality
  <2>3. Head(t) = t[1] /\ Len(t) \in Nat /\ Len(t) > 0
    BY <1>2
  <2>4. ASSUME NEW i \in 1..Len(t) PROVE t[i] \in {Head(t)} \union Range(Tail(t))
    <3>1. CASE i = 1
      BY <3>1, <2>3
    <3>2. CASE i # 1
      <4>1. i - 1 \in 1..Len(Tail(t)) /\ Tail(t)[i - 1] = t[i]
        BY <3>2, <2>1, <2>3
      <4> QED BY <4>1, <2>2
    <3> QED BY <3>1, <3>2
  <2>5. ASSUME NEW i \in 1..Len(Tail(t)) PROVE Tail(t)[i] \in Range(t)
    <3>1. i + 1 \in 1..Len(t)
      BY <2>1, <2>3
    <3> QED BY <3>1, <2>1, <2>2
  <2> QED BY <2>2, <2>3, <2>4, <2>5
<1>3. Range(c) = Range(q) \union Range(k)
  BY RangeConcatenation
<1>4. Range(c) = {Head(q)} \union Range(Tail(c))
  BY <1>1, <1>2
<1>5. Range(q) = {Head(q)} \union Range(Tail(q))
  BY <1>2
<1> HIDE DEF c
<1>6. /\ Range(q) \union Range(k) \subseteq {Head(q)} \union Range(Tail(c))
      /\ Range(Tail(c)) \subseteq Range(q) \union Range(k)
  BY <1>3, <1>4
<1> QED BY <1>5, <1>6 DEF c

(* What accounts for a repository is a window.                             *)
LEMMA AccountsType ==
  ASSUME NEW s \in Progress
  PROVE  Accounts(s) \subseteq Windows
<1>1. Range(s.pending) \subseteq Windows /\ s.done \subseteq Windows /\ s.failed \subseteq Windows
  BY RangeOfSeq DEF Progress
<1> QED BY <1>1 DEF Accounts, Live

(* Nothing is lost while no window stops accounting for its repositories.  *)
LEMMA TracedGrows ==
  ASSUME NEW s \in Progress, NEW t \in Progress, Traced(s),
         t.done = s.done, Accounts(s) \subseteq Accounts(t)
  PROVE  Traced(t)
BY DEF Traced, Covered

(* A sweep that begins is traced: its roots cover the scope.               *)
LEMMA RootsTraced ==
  ASSUME NEW s \in Progress, s.pending = Roots, s.done = {}
  PROVE  Traced(s)
<1>1. ASSUME NEW r \in InScope PROVE Covered(s, r, 0)
  <2>1. PICK w \in Range(Roots) : r \in Matches[w]
    BY DEF InScope
  <2>2. w \in Accounts(s)
    BY <2>1 DEF Accounts, Live
  <2>3. Depth[w] \in Nat
    BY <2>2, AccountsType, WindowsAssumption
  <2> QED BY <2>1, <2>2, <2>3 DEF Covered
<1> QED BY <1>1 DEF Traced

(* Skipping a window already completed loses nothing.                      *)
LEMMA SkipTraced ==
  ASSUME NEW s \in Progress, Traced(s), s.pending # <<>>, Head(s.pending) \in s.done,
         NEW t \in Progress, t = [s EXCEPT !.pending = Tail(@)]
  PROVE  Traced(t)
<1>1. t.pending = Tail(s.pending) /\ t.done = s.done /\ t.failed = s.failed
  BY DEF Progress
<1>2. Range(s.pending) \subseteq {Head(s.pending)} \union Range(Tail(s.pending))
  BY QueueRange DEF Progress
<1>3. Accounts(s) \subseteq Accounts(t)
  BY <1>1, <1>2 DEF Accounts, Live
<1> QED BY <1>1, <1>3, TracedGrows

(* A window that fails accounts for its repositories as a failure.         *)
LEMMA FailTraced ==
  ASSUME NEW s \in Progress, Traced(s), s.pending # <<>>, NEW t \in Progress,
         t = [s EXCEPT !.pending = Tail(@), !.failed = @ \union {Head(s.pending)}]
  PROVE  Traced(t)
<1>1. /\ t.pending = Tail(s.pending) /\ t.done = s.done
      /\ t.failed = s.failed \union {Head(s.pending)}
  BY DEF Progress
<1>2. Range(s.pending) \subseteq {Head(s.pending)} \union Range(Tail(s.pending))
  BY QueueRange DEF Progress
<1>3. Accounts(s) \subseteq Accounts(t)
  BY <1>1, <1>2 DEF Accounts, Live
<1> QED BY <1>1, <1>3, TracedGrows

(* The step that matters: the window at the head is completed and its      *)
(* children take over for it.                                              *)
LEMMA CompleteTraced ==
  ASSUME NEW s \in Progress, Traced(s), s.pending # <<>>, NEW w, w = Head(s.pending),
         w \notin s.done, NEW t \in Progress,
         t = [s EXCEPT !.pending = Tail(@ \o Kids(w)), !.done = @ \union {w}]
  PROVE  Traced(t)
<1>1. /\ t.pending = Tail(s.pending \o Kids(w)) /\ t.done = s.done \union {w}
      /\ t.failed = s.failed
  BY DEF Progress
<1>2. w \in Windows /\ Kids(w) \in Seq(Windows)
  BY QueueType, KidsType DEF Progress
<1>3. Range(s.pending) \union Range(Kids(w)) \subseteq {w} \union Range(t.pending)
  BY <1>1, <1>2, QueueRange DEF Progress
<1>4. Accounts(s) \ {w} \subseteq Accounts(t)
  BY <1>1, <1>3 DEF Accounts, Live
<1>5. Depth \in [Windows -> Nat] /\ Accounts(s) \subseteq Windows /\ Accounts(t) \subseteq Windows
      /\ s.done \subseteq Windows
  BY WindowsAssumption, AccountsType DEF Progress
<1>6. ASSUME NEW r \in Matches[w] PROVE Covered(t, r, Depth[w])
  <2>1. CASE ~Splits(w)
    <3>1. w \in Accounts(t)
      BY <1>1, <2>1 DEF Accounts
    <3> QED BY <1>2, <1>5, <3>1 DEF Covered
  <2>2. CASE Splits(w)
    <3>1. PICK k \in Range(Kids(w)) : r \in Matches[k]
      BY <1>2, <2>2, CoverAssumption
    <3>2. k \in Windows /\ Depth[k] > Depth[w]
      BY <1>2, <3>1, CoverAssumption, RangeOfSeq
    <3>3. CASE k \notin s.done
      <4>1. k # w
        BY <3>2, <1>2, <1>5
      <4>2. k \in Accounts(t)
        BY <1>1, <1>3, <3>1, <3>3, <4>1 DEF Accounts, Live
      <4> QED BY <1>2, <1>5, <3>1, <3>2, <4>2 DEF Covered
    <3>4. CASE k \in s.done
      <4>1. PICK u \in Accounts(s) : r \in Matches[u] /\ Depth[u] >= Depth[k]
        BY <3>1, <3>4 DEF Traced, Covered
      <4>2. Depth[u] > Depth[w] /\ u # w
        BY <1>2, <1>5, <3>2, <4>1
      <4> QED BY <1>2, <1>4, <1>5, <4>1, <4>2 DEF Covered
    <3> QED BY <3>3, <3>4
  <2> QED BY <2>1, <2>2
<1>7. ASSUME NEW r, NEW d \in Nat, Covered(s, r, d) PROVE Covered(t, r, d)
  <2>1. PICK u \in Accounts(s) : r \in Matches[u] /\ Depth[u] >= d
    BY <1>7 DEF Covered
  <2>2. CASE u # w
    BY <1>4, <2>1, <2>2 DEF Covered
  <2>3. CASE u = w
    <3>1. PICK x \in Accounts(t) : r \in Matches[x] /\ Depth[x] >= Depth[w]
      BY <1>6, <2>1, <2>3 DEF Covered
    <3>2. Depth[x] >= d
      BY <1>2, <1>5, <2>1, <2>3, <3>1
    <3> QED BY <3>1, <3>2 DEF Covered
  <2> QED BY <2>2, <2>3
<1>8. \A r \in InScope : Covered(t, r, 0)
  BY <1>7 DEF Traced
<1>9. \A v \in t.done : \A r \in Matches[v] : Covered(t, r, Depth[v])
  <2> SUFFICES ASSUME NEW v \in t.done, NEW r \in Matches[v] PROVE Covered(t, r, Depth[v])
    OBVIOUS
  <2>1. CASE v = w
    BY <1>6, <2>1
  <2>2. CASE v \in s.done
    BY <1>5, <1>7, <2>2 DEF Traced
  <2> QED BY <1>1, <2>1, <2>2
<1> QED BY <1>8, <1>9 DEF Traced

(* A resumed queue, the queue of a sweep, the document about to land and   *)
(* the one that has landed are all traced.                                 *)
WindowInv ==
  /\ TypeInv
  /\ saved # NoState => Traced(saved)
  /\ pc = "register" /\ work.pending # <<>> => Traced(work)
  /\ Sweeping \/ turns # <<>> => Traced(work)
  /\ write = "state" => Traced(snap)

(* Steps that touch neither the work nor its documents keep them traced    *)
(* as long as they do not enter the sweep from outside it.                 *)
LEMMA WindowFrame ==
  ASSUME WindowInv, TypeInv', UNCHANGED <<saved, work, snap>>,
         Sweeping' \/ turns' # <<>> => Sweeping \/ turns # <<>>,
         pc' = "register" => pc = "register",
         write' = "state" => write = "state"
  PROVE  WindowInv'
<1>1. (saved # NoState => Traced(saved))' /\ (write = "state" => Traced(snap))'
  BY DEF WindowInv, Traced, Covered, Accounts, Live
<1>2. (pc = "register" /\ work.pending # <<>> => Traced(work))'
  BY DEF WindowInv, Traced, Covered, Accounts, Live
<1>3. (Sweeping \/ turns # <<>> => Traced(work))'
  BY DEF WindowInv, Traced, Covered, Accounts, Live
<1> QED BY <1>1, <1>2, <1>3 DEF WindowInv

(* The loop, whatever it does to its queue, leaves it traced.              *)
LEMMA WindowLoop ==
  ASSUME WindowInv, LoopStep PROVE Traced(work')
<1> USE DEF WindowInv, TypeInv, TypeOK, InLoop, Sweeping
<1>1. CASE SkipCompleted
  <2>1. work' \in Progress
    BY <1>1, QueueType DEF SkipCompleted, Progress
  <2> QED BY <1>1, <2>1, SkipTraced DEF SkipCompleted
<1>2. CASE FetchPage
  <2>1. CASE work' = work
    BY <1>2, <2>1 DEF FetchPage
  <2>2. CASE CompleteWindow(Head(work.pending))
    <3>1. work' \in Progress
      BY <1>2, <2>2, QueueType DEF FetchPage, CompleteWindow, Progress
    <3> QED BY <1>2, <2>2, <3>1, CompleteTraced DEF FetchPage, CompleteWindow
  <2> QED BY <1>2, <2>1, <2>2 DEF FetchPage
<1>3. CASE FetchFails
  <2>1. work' \in Progress
    BY <1>3, QueueType DEF FetchFails, Progress
  <2> QED BY <1>3, <2>1, FailTraced DEF FetchFails
<1>4. CASE LeaveLoop
  BY <1>4 DEF LeaveLoop, memory
<1> QED BY <1>1, <1>2, <1>3, <1>4 DEF LoopStep

(* Every step keeps what is in memory and what is durable traced.          *)
LEMMA WindowStep == WindowInv /\ [Next]_vars => WindowInv'
<1> SUFFICES ASSUME WindowInv, [Next]_vars PROVE WindowInv'
  OBVIOUS
<1>0. TypeInv'
  BY TypeStep DEF WindowInv
<1> USE <1>0 DEF store, memory, flusher, world, Sweeping
<1>1. CASE Start
  BY <1>1, WindowFrame DEF Start
<1>2. CASE RemoveRepo
  BY <1>2, WindowFrame DEF RemoveRepo
<1>3. CASE RemoveState
  BY <1>3 DEF RemoveState, WindowInv
<1>4. CASE Open
  <2>1. turns' = turns /\ write' = write /\ turns = <<>> /\ saved' = saved /\ snap' = snap
    <3>1. turns = <<>>
      BY <1>4 DEF Open, WindowInv, TypeInv, TypeOK, ChainOK, ProcessOK, Chains, LoopQueued,
                  HandlerQueued
    <3> QED BY <1>4, <3>1 DEF Open
  <2> QED BY <1>4, <2>1 DEF Open, WindowInv, NoWork
<1>5. CASE Register
  <2>1. Traced(work')
    <3>1. CASE work.pending # <<>>
      BY <1>5, <3>1 DEF Register, WindowInv
    <3>2. CASE work.pending = <<>>
      BY <1>5, <3>2, RootsTraced DEF Register, TypeInv, TypeOK
    <3> QED BY <3>1, <3>2
  <2> QED BY <1>5, <2>1 DEF Register, WindowInv
<1>6. CASE RegisterFails
  BY <1>6, WindowFrame DEF RegisterFails
<1>7. CASE LoopStep
  <2>1. Traced(work')
    BY <1>7, WindowLoop
  <2>2. /\ saved' = saved /\ snap' = snap /\ write' = write /\ pc' \in {"loop", "flush", "final"}
    BY <1>7 DEF LoopStep, SkipCompleted, FetchPage, FetchFails, LeaveLoop, WindowCompleted,
                CompleteWindow, InLoop
  <2> QED BY <2>1, <2>2 DEF WindowInv
<1>8. CASE BeginWrite
  BY <1>8 DEF BeginWrite, WindowInv
<1>9. CASE WriteRepo
  <2>1. turns # <<>>
    BY <1>9 DEF WriteRepo, WindowInv, TypeInv, ChainOK
  <2> QED BY <1>9, <2>1 DEF WriteRepo, WindowInv
<1>10. CASE WriteRepoFails \/ WriteState \/ WriteStateFails
  <2>1. /\ turns # <<>> /\ write' = "idle" /\ work' = work
        /\ saved' = saved \/ (write = "state" /\ saved' = snap)
    BY <1>10 DEF WriteRepoFails, WriteState, WriteStateFails, WindowInv, TypeInv, ChainOK
  <2>2. pc' = "register" => pc = "register"
    BY <1>10, ResolveType, RejectType DEF WriteRepoFails, WriteState, WriteStateFails, WindowInv
  <2> QED BY <2>1, <2>2 DEF WindowInv
<1>11. CASE FinishRun \/ FinishRunFails \/ Interrupt \/ InterruptFails
  BY <1>11, WindowFrame DEF FinishRun, FinishRunFails, Interrupt, InterruptFails
<1>12. CASE Exit \/ Kill
  BY <1>12 DEF Exit, Kill, Gone, WindowInv
<1>13. CASE Signal
  BY <1>13, WindowFrame DEF Signal
<1>14. CASE Push
  BY <1>14, WindowFrame DEF Push
<1>15. CASE UNCHANGED vars
  BY <1>15, WindowFrame DEF vars
<1> QED BY <1>1, <1>2, <1>3, <1>4, <1>5, <1>6, <1>7, <1>8, <1>9, <1>10, <1>11, <1>12, <1>13,
           <1>14, <1>15
        DEF Next, OpenStep, FlushStep, EndStep

(* No window is ever dropped from a durable resume point, at whichever     *)
(* await a flush or a kill comes: each repository in scope stays in a      *)
(* pending, failed or completed window that accounts for it.               *)
THEOREM NoWindowIsDropped == Spec => []NoWindowDropped
<1>1. Init => WindowInv
  BY TypeInit DEF Init, WindowInv, Sweeping
<1>2. WindowInv => NoWindowDropped
  BY DEF WindowInv, Traced, Covered, NoWindowDropped
<1>3. Spec => []WindowInv
  BY <1>1, WindowStep, PTL DEF Spec
<1> QED BY <1>2, <1>3, PTL

-----------------------------------------------------------------------------
(* The corpus ahead of the state, for processes that are killed anywhere   *)
(* and whose requests and writes fail, but that are neither signalled nor  *)
(* started with --fresh.                                                   *)

Quiet == Signals = FALSE /\ Fresh = FALSE

Early == pc \in {"down", "wipe", "open", "register"}

(* k holds what the windows done in s served, as recent as its sweep.      *)
Captured(s, k) == \A w \in s.done : \A r \in Fetched(w) : k[r] >= asOf[s.started_at][r]

(* A sweep is dated by one of the first n runs.                            *)
Dated(s, n) == s.started_at \in 0..n /\ (s.done # {} \/ s.pending # <<>> => s.started_at # 0)

(* A process that is opening has fetched and recorded nothing, and one that *)
(* removes what there is has not read it.                                   *)
EarlyInv ==
  /\ Early => page = 1 /\ seen = {} /\ buffer = {} /\ batch = {}
  /\ pc \in {"down", "wipe"} => \A r \in Repos : known[r] = 0

(* Nobody but the loop flushes, and while it waits it records nothing.     *)
QuietInv ==
  /\ handler = "idle" /\ pc # "wipe"
  /\ write # "idle" => buffer = {}

(* Payloads only get newer.                                                *)
ClockInv ==
  /\ \A i \in 1..run : \A r \in Repos : asOf[i][r] <= github[r]
  /\ \A i, j \in 1..run : i <= j => \A r \in Repos : asOf[i][r] <= asOf[j][r]
  /\ \A r \in Repos : corpus[r] <= github[r] /\ known[r] <= github[r]
  /\ saved # NoState => Dated(saved, run)
  /\ Dated(work, run) /\ Dated(snap, run)

(* What store.known says of the corpus and of what is on its way to it.    *)
RecordInv ==
  /\ \A d \in buffer \union batch : d[1] \in seen /\ d[2] = known[d[1]]
  /\ \A r \in seen : known[r] >= corpus[r] /\ known[r] >= asOf[run][r]
  /\ \A r \in Repos : known[r] <= corpus[r] \/ <<r, known[r]>> \in buffer \union unwritten

(* The pages already fetched of the window at the head are recorded.       *)
PageInv ==
  work.pending # <<>> =>
    \A p \in 1..LastPage(Head(work.pending)) : p < page =>
      \A r \in Pages[Head(work.pending)][p] : known[r] >= asOf[work.started_at][r]

CaptureInv ==
  /\ saved # NoState => Captured(saved, corpus)
  /\ Captured(work, known)
  /\ write = "state" => Captured(snap, corpus)

CorpusInv ==
  TypeInv /\ EarlyInv /\ QuietInv /\ ClockInv /\ RecordInv /\ PageInv /\ CaptureInv

(* Every step keeps a process that is opening empty.                       *)
LEMMA EarlyStep ==
  ASSUME TypeInv, EarlyInv, [Next]_vars PROVE EarlyInv'
<1> USE DEF EarlyInv, Early, store, memory, flusher, world
<1>1. CASE Start \/ RemoveRepo \/ RemoveState
  BY <1>1 DEF Start, RemoveRepo, RemoveState
<1>2. CASE Open \/ Register \/ RegisterFails
  BY <1>2 DEF Open, Register, RegisterFails
<1>3. CASE LoopStep
  BY <1>3 DEF LoopStep, SkipCompleted, FetchPage, FetchFails, LeaveLoop, WindowCompleted,
              CompleteWindow, InLoop
<1>4. CASE BeginWrite \/ WriteRepo
  BY <1>4, WriterRuns DEF BeginWrite, WriteRepo, TypeInv, ChainOK
<1>5. CASE WriteRepoFails \/ WriteState \/ WriteStateFails
  <2>1. /\ write # "idle" /\ write' = "idle" /\ (Resolve \/ Reject)
        /\ pc \notin {"down", "wipe", "open", "register"}
    BY <1>5, WriterRuns DEF WriteRepoFails, WriteState, WriteStateFails, TypeInv, ChainOK
  <2>2. pc' \notin {"down", "wipe", "open", "register"}
    BY <2>1, ResolveType, RejectType
  <2> QED BY <2>2
<1>6. CASE FinishRun \/ FinishRunFails \/ Interrupt \/ InterruptFails \/ Signal
  BY <1>6 DEF FinishRun, FinishRunFails, Interrupt, InterruptFails, Signal
<1>7. CASE Exit \/ Kill
  BY <1>7 DEF Exit, Kill, Gone
<1>8. CASE Push \/ UNCHANGED vars
  BY <1>8 DEF Push, vars
<1> QED BY <1>1, <1>2, <1>3, <1>4, <1>5, <1>6, <1>7, <1>8
        DEF Next, OpenStep, FlushStep, EndStep

(* Without signals the chain holds at most the call of a loop that waits   *)
(* for it.                                                                 *)
LEMMA QuietChain ==
  ASSUME TypeInv, QuietInv, turns # <<>>
  PROVE  Head(turns) = "loop" /\ pc \in {"flush", "final", "rescue"}
<1>1. ~HandlerQueued
  BY DEF QuietInv, TypeInv, ChainOK
<1>2. turns = <<"loop">>
  BY <1>1 DEF TypeInv, TypeOK, Chains, HandlerQueued
<1>3. LoopQueued
  BY <1>2 DEF LoopQueued
<1> QED BY <1>2, <1>3 DEF TypeInv, ChainOK

(* Where a flush leaves its caller when the handler never is one.          *)
LEMMA QuietReturn ==
  ASSUME TypeInv, QuietInv, write # "idle", Resolve \/ Reject
  PROVE  handler' = "idle" /\ pc' \in {"loop", "finish", "rescue", "ended"}
<1>1. Head(turns) = "loop" /\ pc \in {"flush", "final", "rescue"}
  BY QuietChain DEF TypeInv, ChainOK
<1>2. handler = "idle"
  BY DEF QuietInv
<1> QED BY <1>1, <1>2 DEF Resolve, Reject

(* Without signals every step keeps the loop waiting while its flush is    *)
(* under way.                                                              *)
LEMMA QuietStep ==
  ASSUME Quiet, TypeInv, QuietInv, [Next]_vars PROVE QuietInv'
<1> USE DEF QuietInv, Early, store, memory, flusher, world
<1>1. CASE Start \/ RemoveRepo \/ RemoveState
  BY <1>1 DEF Start, RemoveRepo, RemoveState, Quiet
<1>2. CASE Open \/ Register \/ RegisterFails
  BY <1>2 DEF Open, Register, RegisterFails
<1>3. CASE LoopStep
  <2>1. pc = "loop" /\ pc' \in {"loop", "flush", "final"} /\ handler' = handler /\ write' = write
    BY <1>3 DEF LoopStep, SkipCompleted, FetchPage, FetchFails, LeaveLoop, WindowCompleted,
                CompleteWindow, InLoop
  <2>2. write = "idle"
    BY <2>1, QuietChain DEF TypeInv, ChainOK
  <2> QED BY <2>1, <2>2
<1>4. CASE BeginWrite
  <2>1. pc \in {"flush", "final", "rescue"}
    BY <1>4, QuietChain DEF BeginWrite
  <2> QED BY <1>4, <2>1 DEF BeginWrite
<1>5. CASE WriteRepo
  BY <1>5 DEF WriteRepo
<1>6. CASE WriteRepoFails \/ WriteState \/ WriteStateFails
  <2>1. write' = "idle" /\ write # "idle" /\ (Resolve \/ Reject)
    BY <1>6 DEF WriteRepoFails, WriteState, WriteStateFails
  <2> QED BY <2>1, QuietReturn
<1>7. CASE FinishRun \/ FinishRunFails \/ Interrupt \/ InterruptFails
  BY <1>7 DEF FinishRun, FinishRunFails, Interrupt, InterruptFails
<1>8. CASE Exit \/ Kill
  BY <1>8 DEF Exit, Kill, Gone
<1>9. CASE Signal
  BY <1>9 DEF Signal, Quiet
<1>10. CASE Push \/ UNCHANGED vars
  BY <1>10 DEF Push, vars
<1> QED BY <1>1, <1>2, <1>3, <1>4, <1>5, <1>6, <1>7, <1>8, <1>9, <1>10
        DEF Next, OpenStep, FlushStep, EndStep

(* The loop works on a sweep, and leaves its date alone.                   *)
LEMMA LoopWork ==
  ASSUME TypeInv, LoopStep
  PROVE  /\ work'.started_at = work.started_at /\ work.done \subseteq work'.done
         /\ work.pending = <<>> => work' = work
         /\ UNCHANGED <<corpus, saved, snap, write, batch, unwritten, run, github, asOf>>
<1> USE DEF TypeInv, TypeOK, Progress, store, memory, flusher, world, InLoop
<1>1. CASE SkipCompleted
  BY <1>1 DEF SkipCompleted
<1>2. CASE FetchPage
  BY <1>2 DEF FetchPage, CompleteWindow
<1>3. CASE FetchFails
  BY <1>3 DEF FetchFails
<1>4. CASE LeaveLoop
  BY <1>4 DEF LeaveLoop
<1> QED BY <1>1, <1>2, <1>3, <1>4 DEF LoopStep

(* known takes the payload GitHub served, never anything else.             *)
LEMMA LoopKnown ==
  ASSUME TypeInv, LoopStep
  PROVE  \A r \in Repos : known'[r] \in {known[r], github[r]}
<1> USE DEF TypeInv, TypeOK, memory
<1>1. CASE SkipCompleted
  BY <1>1 DEF SkipCompleted
<1>2. CASE FetchPage
  BY <1>2 DEF FetchPage, RecordAll
<1>3. CASE FetchFails
  BY <1>3 DEF FetchFails
<1>4. CASE LeaveLoop
  BY <1>4 DEF LeaveLoop
<1> QED BY <1>1, <1>2, <1>3, <1>4 DEF LoopStep

(* Whether the world's clock moves: only a new run reads it.               *)
LEMMA ClockFrame ==
  ASSUME TypeInv, [Next]_vars
  PROVE  \/ Start
         \/ run' = run /\ asOf' = asOf /\ \A r \in Repos : github'[r] >= github[r]
<1> USE DEF TypeInv, TypeOK, store, memory, flusher, world
<1>1. CASE OpenStep
  BY <1>1 DEF OpenStep, RemoveRepo, RemoveState, Open, Register, RegisterFails
<1>2. CASE LoopStep
  BY <1>2, LoopWork
<1>3. CASE FlushStep
  BY <1>3 DEF FlushStep, BeginWrite, WriteRepo, WriteRepoFails, WriteState, WriteStateFails
<1>4. CASE EndStep \/ Signal \/ Kill
  BY <1>4 DEF EndStep, FinishRun, FinishRunFails, Interrupt, InterruptFails, Exit, Signal, Kill,
              Gone
<1>5. CASE Push
  BY <1>5 DEF Push
<1>6. CASE UNCHANGED vars
  BY <1>6 DEF vars
<1> QED BY <1>1, <1>2, <1>3, <1>4, <1>5, <1>6 DEF Next

(* A sweep dated by an earlier run still is.                               *)
LEMMA DatedLater ==
  ASSUME TypeInv, NEW s \in Progress, Dated(s, run), [Next]_vars
  PROVE  Dated(s, run')
<1>1. run' \in {run, run + 1}
  BY ClockFrame DEF Start
<1> QED BY <1>1 DEF Dated, TypeInv, TypeOK, Progress

(* Nothing in the collections or in memory is newer than GitHub.           *)
LEMMA NoneNewer ==
  ASSUME TypeInv, ClockInv, RecordInv, [Next]_vars
  PROVE  \A r \in Repos : corpus'[r] <= github[r] /\ known'[r] <= github[r]
<1> USE DEF TypeInv, TypeOK, ClockInv, store, memory, flusher, world
<1>1. CASE corpus' = corpus /\ known' \in {known, corpus}
  BY <1>1
<1>2. CASE corpus' = corpus /\ known' = [r \in Repos |-> 0]
  BY <1>2
<1>3. CASE RemoveRepo
  BY <1>3 DEF RemoveRepo
<1>4. CASE LoopStep
  <2>1. corpus' = corpus
    BY <1>4, LoopWork
  <2>2. \A r \in Repos : known'[r] \in {known[r], github[r]}
    BY <1>4, LoopKnown
  <2>3. \A r \in Repos : corpus[r] <= github[r] /\ known[r] <= github[r] /\ github[r] \in Int
    OBVIOUS
  <2>4. ASSUME NEW r \in Repos PROVE known'[r] <= github[r]
    <3>1. CASE known'[r] = known[r]
      BY <2>3, <3>1
    <3>2. CASE known'[r] = github[r]
      BY <2>3, <3>2
    <3> QED BY <2>2, <3>1, <3>2
  <2> QED BY <2>1, <2>3, <2>4
<1>5. CASE WriteRepo
  <2>1. PICK d \in unwritten : corpus' = [corpus EXCEPT ![d[1]] = d[2]]
    BY <1>5 DEF WriteRepo
  <2>2. d \in batch /\ d[1] \in Repos /\ d[2] = known[d[1]]
    BY <2>1 DEF RecordInv, Docs
  <2> QED BY <1>5, <2>1, <2>2 DEF WriteRepo
<1>6. CASE Open
  <2>1. CASE saved = NoState
    BY <1>2, <1>6, <2>1 DEF Open
  <2>2. CASE saved # NoState
    BY <1>1, <1>6, <2>2 DEF Open
  <2> QED BY <2>1, <2>2
<1>7. CASE Start \/ RemoveState \/ Register \/ RegisterFails
  BY <1>1, <1>7 DEF Start, RemoveState, Register, RegisterFails
<1>8. CASE BeginWrite \/ WriteRepoFails \/ WriteState \/ WriteStateFails
  BY <1>1, <1>8 DEF BeginWrite, WriteRepoFails, WriteState, WriteStateFails
<1>9. CASE FinishRun \/ FinishRunFails \/ Interrupt \/ InterruptFails \/ Signal \/ Push
  BY <1>1, <1>9 DEF FinishRun, FinishRunFails, Interrupt, InterruptFails, Signal, Push
<1>10. CASE Exit \/ Kill
  BY <1>2, <1>10 DEF Exit, Kill, Gone
<1>11. CASE UNCHANGED vars
  BY <1>1, <1>11 DEF vars
<1> QED BY <1>3, <1>4, <1>5, <1>6, <1>7, <1>8, <1>9, <1>10, <1>11
        DEF Next, OpenStep, FlushStep, EndStep

(* Whence the next progress record, the next state document and the next   *)
(* resume point come.                                                      *)
LEMMA ProgressFrame ==
  ASSUME TypeInv, [Next]_vars
  PROVE  /\ saved' \in {saved, NoState} \/ (write = "state" /\ saved' = snap)
         /\ snap' \in {snap, work', NoWork}
         /\ \/ work' \in {work, NoWork}
            \/ saved # NoState /\ work' = saved
            \/ Register /\ work'.started_at = run
            \/ LoopStep
<1> USE DEF store, memory, flusher, world
<1>1. CASE RemoveRepo \/ RemoveState \/ RegisterFails
  BY <1>1 DEF RemoveRepo, RemoveState, RegisterFails
<1>2. CASE Open
  BY <1>2 DEF Open
<1>3. CASE Register
  BY <1>3 DEF Register
<1>4. CASE LoopStep
  BY <1>4, LoopWork
<1>5. CASE BeginWrite \/ WriteRepo
  BY <1>5 DEF BeginWrite, WriteRepo
<1>6. CASE WriteRepoFails \/ WriteState \/ WriteStateFails
  BY <1>6 DEF WriteRepoFails, WriteState, WriteStateFails
<1>7. CASE Start \/ Signal \/ Push \/ UNCHANGED vars
  BY <1>7 DEF Start, Signal, Push, vars
<1>8. CASE FinishRun \/ FinishRunFails \/ Interrupt \/ InterruptFails
  BY <1>8 DEF FinishRun, FinishRunFails, Interrupt, InterruptFails
<1>9. CASE Exit \/ Kill
  BY <1>9 DEF Exit, Kill, Gone
<1> QED BY <1>1, <1>2, <1>3, <1>4, <1>5, <1>6, <1>7, <1>8, <1>9
        DEF Next, OpenStep, FlushStep, EndStep

(* Every step keeps clocks and payloads in order.                          *)
LEMMA ClockStep ==
  ASSUME TypeInv, TypeInv', ClockInv, RecordInv, [Next]_vars PROVE ClockInv'
<1>1. /\ run \in 0..MaxRuns /\ run' \in 0..MaxRuns
      /\ github \in [Repos -> Int] /\ github' \in [Repos -> Int]
      /\ corpus' \in [Repos -> Int] /\ known' \in [Repos -> Int]
      /\ asOf \in [1..MaxRuns -> [Repos -> Int]]
  BY DEF TypeInv, TypeOK
<1>2. \A r \in Repos : github'[r] >= github[r]
  BY <1>1, ClockFrame DEF Start, world
<1>3. /\ \A i \in 1..run' : \A r \in Repos : asOf'[i][r] <= github'[r]
      /\ \A i, j \in 1..run' : i <= j => \A r \in Repos : asOf'[i][r] <= asOf'[j][r]
  <2>1. CASE Start
    <3>1. /\ run' = run + 1 /\ github' = github /\ asOf' = [asOf EXCEPT ![run + 1] = github]
          /\ run + 1 \in 1..MaxRuns
      BY <1>1, <2>1 DEF Start
    <3>2. asOf'[run + 1] = github /\ \A i \in 1..run : asOf'[i] = asOf[i]
      BY <1>1, <3>1
    <3>3. \A i \in 1..run' : i = run + 1 \/ i \in 1..run
      BY <1>1, <3>1
    <3> QED BY <1>1, <3>1, <3>2, <3>3 DEF ClockInv
  <2>2. CASE run' = run /\ asOf' = asOf
    <3>1. \A i \in 1..run : \A r \in Repos : asOf[i][r] <= github[r] /\ asOf[i][r] \in Int
      <4>1. \A i \in 1..run : i \in 1..MaxRuns
        BY <1>1, BoundsAssumption
      <4>2. \A i \in 1..MaxRuns : \A r \in Repos : asOf[i][r] \in Int
        BY <1>1
      <4> QED BY <4>1, <4>2 DEF ClockInv
    <3>2. ASSUME NEW i \in 1..run, NEW r \in Repos PROVE asOf[i][r] <= github'[r]
      BY <1>1, <1>2, <3>1
    <3> QED BY <2>2, <3>2 DEF ClockInv
  <2> QED BY <2>1, <2>2, ClockFrame
<1>4. \A r \in Repos : corpus'[r] <= github'[r] /\ known'[r] <= github'[r]
  <2>1. \A r \in Repos : corpus'[r] <= github[r] /\ known'[r] <= github[r]
    BY NoneNewer
  <2> QED BY <1>1, <1>2, <2>1
<1>5. Dated(NoWork, run') /\ NoWork \in Progress
  BY <1>1, NoWorkType DEF Dated, NoWork
<1>6. Dated(work', run')
  <2>1. CASE work' \in {work, NoWork}
    BY <1>5, <2>1, DatedLater DEF ClockInv, TypeInv, TypeOK
  <2>2. CASE saved # NoState /\ work' = saved
    BY <2>2, DatedLater DEF ClockInv, TypeInv, TypeOK
  <2>3. CASE Register /\ work'.started_at = run
    <3>1. run' = run /\ run # 0
      BY <2>3 DEF Register, TypeInv, ProcessOK, Running, world
    <3> QED BY <1>1, <2>3, <3>1 DEF Dated
  <2>4. CASE LoopStep
    <3>1. /\ run' = run /\ work'.started_at = work.started_at /\ work.started_at \in 0..run
          /\ work.pending = <<>> => work' = work
      BY <2>4, LoopWork DEF ClockInv, Dated
    <3>2. CASE work.pending = <<>>
      BY <3>1, <3>2 DEF ClockInv, Dated
    <3>3. CASE work.pending # <<>>
      BY <3>1, <3>3 DEF ClockInv, Dated
    <3> QED BY <3>2, <3>3
  <2> QED BY <2>1, <2>2, <2>3, <2>4, ProgressFrame
<1>7. Dated(snap', run')
  <2>1. CASE snap' = snap
    BY <2>1, DatedLater DEF ClockInv, TypeInv, TypeOK
  <2>2. CASE snap' = work' \/ snap' = NoWork
    BY <1>5, <1>6, <2>2
  <2> QED BY <2>1, <2>2, ProgressFrame
<1>8. saved' # NoState => Dated(saved', run')
  <2>1. CASE saved' = saved
    BY <2>1, DatedLater DEF ClockInv, TypeInv, TypeOK
  <2>2. CASE saved' = snap
    BY <2>2, DatedLater DEF ClockInv, TypeInv, TypeOK
  <2> QED BY <2>1, <2>2, ProgressFrame
<1> QED BY <1>3, <1>4, <1>6, <1>7, <1>8 DEF ClockInv, Dated

(* Recording a page: what it serves is known, as recent as now.            *)
LEMMA Recorded ==
  ASSUME TypeInv, ClockInv, RecordInv, Running, NEW items \in SUBSET Repos, RecordAll(items),
         UNCHANGED <<corpus, batch, unwritten, run, asOf>>
  PROVE  /\ RecordInv'
         /\ \A r \in Repos : known'[r] >= known[r]
         /\ \A r \in items : \A i \in 1..run : known'[r] >= asOf[i][r]
<1> DEFINE new == {r \in items \ seen : known[r] # github[r]}
<1>1. /\ corpus \in [Repos -> Int] /\ known \in [Repos -> Int] /\ github \in [Repos -> Int]
      /\ \A i \in 1..run : asOf[i] \in [Repos -> Int]
      /\ run \in 1..run /\ run \in Nat
  BY BoundsAssumption DEF TypeInv, TypeOK, ProcessOK
<1>2. /\ \A r \in Repos : known'[r] = IF r \in new THEN github[r] ELSE known[r]
      /\ buffer' = buffer \union {<<r, github[r]>> : r \in new}
      /\ seen' = seen \union items
      /\ new \subseteq items \ seen /\ \A r \in items \ seen : r \in new \/ known[r] = github[r]
      /\ seen \subseteq Repos
  BY DEF RecordAll, TypeInv, TypeOK
<1> HIDE DEF new
<1>3. /\ \A r \in Repos : corpus[r] <= github[r] /\ known[r] <= github[r]
      /\ \A i \in 1..run : \A r \in Repos : asOf[i][r] <= github[r] /\ asOf[i][r] <= asOf[run][r]
  BY <1>1 DEF ClockInv
<1>4. \A r \in Repos : known'[r] >= known[r]
  BY <1>1, <1>2, <1>3
<1>5. \A r \in items \ seen : known'[r] = github[r]
  BY <1>2
<1>6. \A r \in seen : known'[r] = known[r]
  BY <1>2
<1>7. \A d \in buffer' \union batch' : d[1] \in seen' /\ d[2] = known'[d[1]]
  <2>1. ASSUME NEW d \in buffer \union batch PROVE d[1] \in seen' /\ d[2] = known'[d[1]]
    BY <1>2, <1>6 DEF RecordInv
  <2>2. ASSUME NEW r \in new PROVE r \in seen' /\ github[r] = known'[r]
    BY <1>2
  <2>3. ASSUME NEW d \in {<<r, github[r]>> : r \in new}
        PROVE  d[1] \in seen' /\ d[2] = known'[d[1]]
    <3>1. PICK r \in new : d = <<r, github[r]>>
      OBVIOUS
    <3> QED BY <2>2, <3>1
  <2> QED BY <1>2, <2>1, <2>3
<1>8. \A r \in seen' : known'[r] >= corpus'[r] /\ known'[r] >= asOf'[run'][r]
  <2>1. ASSUME NEW r \in seen PROVE known'[r] >= corpus[r] /\ known'[r] >= asOf[run][r]
    BY <1>6, <2>1 DEF RecordInv
  <2>2. ASSUME NEW r \in items \ seen PROVE known'[r] >= corpus[r] /\ known'[r] >= asOf[run][r]
    BY <1>1, <1>3, <1>5
  <2> QED BY <1>2, <2>1, <2>2
<1>9. \A r \in Repos : known'[r] <= corpus'[r] \/ <<r, known'[r]>> \in buffer' \union unwritten'
  <2> SUFFICES ASSUME NEW r \in Repos
               PROVE  known'[r] <= corpus[r] \/ <<r, known'[r]>> \in buffer' \union unwritten
    OBVIOUS
  <2>1. CASE r \in new
    BY <1>2, <2>1
  <2>2. CASE r \notin new
    BY <1>2, <2>2 DEF RecordInv
  <2> QED BY <2>1, <2>2
<1>10. ASSUME NEW r \in items, NEW i \in 1..run PROVE known'[r] >= asOf[i][r]
  <2>1. CASE r \in seen
    <3>1. known'[r] >= asOf[run][r] /\ asOf[run][r] >= asOf[i][r]
      BY <1>1, <1>3, <1>6, <2>1 DEF RecordInv
    <3> QED BY <1>1, <1>2, <1>6, <3>1
  <2>2. CASE r \notin seen
    BY <1>1, <1>3, <1>5, <2>2
  <2> QED BY <2>1, <2>2
<1> QED BY <1>4, <1>7, <1>8, <1>9, <1>10 DEF RecordInv

(* A document lands: the corpus catches up with what is known.             *)
LEMMA Landed ==
  ASSUME TypeInv, RecordInv, NEW d \in unwritten, corpus' = [corpus EXCEPT ![d[1]] = d[2]],
         unwritten' = unwritten \ {d}, UNCHANGED <<known, seen, buffer, batch, run, asOf>>
  PROVE  RecordInv' /\ \A r \in Repos : corpus'[r] >= corpus[r]
<1>1. /\ corpus \in [Repos -> Int] /\ known \in [Repos -> Int]
      /\ d \in batch /\ d[1] \in Repos /\ d = <<d[1], d[2]>> /\ seen \subseteq Repos
  BY DEF TypeInv, TypeOK, Docs
<1>2. d[1] \in seen /\ d[2] = known[d[1]] /\ known[d[1]] >= corpus[d[1]]
  BY <1>1 DEF RecordInv
<1>3. corpus'[d[1]] = known[d[1]] /\ \A r \in Repos : r # d[1] => corpus'[r] = corpus[r]
  BY <1>1, <1>2
<1>4. \A r \in Repos : corpus'[r] >= corpus[r]
  BY <1>1, <1>2, <1>3
<1>5. \A r \in seen : known[r] >= corpus'[r] /\ known[r] >= asOf[run][r]
  BY <1>1, <1>3 DEF RecordInv
<1>6. \A r \in Repos : known[r] <= corpus'[r] \/ <<r, known[r]>> \in buffer \union unwritten'
  <2> SUFFICES ASSUME NEW r \in Repos
               PROVE  known[r] <= corpus'[r] \/ <<r, known[r]>> \in buffer \union unwritten'
    OBVIOUS
  <2>1. CASE r = d[1]
    BY <1>1, <1>3, <2>1
  <2>2. CASE r # d[1]
    <3>1. <<r, known[r]>> # d
      BY <1>1, <2>2
    <3> QED BY <1>3, <2>2, <3>1 DEF RecordInv
  <2> QED BY <2>1, <2>2
<1> QED BY <1>4, <1>5, <1>6 DEF RecordInv

(* A page of the head of the queue names repositories of the query.        *)
LEMMA PageItems ==
  ASSUME TypeInv, FetchPage
  PROVE  /\ work.pending # <<>> /\ Head(work.pending) \in Windows /\ Running
         /\ page \in 1..LastPage(Head(work.pending))
         /\ Pages[Head(work.pending)][page] \in SUBSET Repos
         /\ RecordAll(Pages[Head(work.pending)][page])
<1> DEFINE w == Head(work.pending)
<1>1. work.pending # <<>> /\ work.pending \in Seq(Windows) /\ Running /\ page \in Nat \ {0}
  BY DEF FetchPage, InLoop, Running, TypeInv, TypeOK, Progress
<1>2. w \in Windows
  BY <1>1
<1>3. LastPage(w) \in Nat \ {0} /\ page <= LastPage(w)
  BY <1>1, <1>2, PageType DEF FetchPage
<1>4. page \in 1..LastPage(w)
  BY <1>1, <1>3
<1>5. Pages[w][page] \in SUBSET Repos
  BY <1>2, <1>4, PageType
<1>6. RecordAll(Pages[w][page])
  BY DEF FetchPage
<1> QED BY <1>1, <1>2, <1>4, <1>5, <1>6

(* A step that leaves the buffers with the same documents leaves known     *)
(* accounted for.                                                          *)
LEMMA RecordFrame ==
  ASSUME RecordInv, UNCHANGED <<corpus, known, seen, run, asOf>>,
         buffer' \union batch' \subseteq buffer \union batch,
         buffer \union unwritten \subseteq buffer' \union unwritten'
  PROVE  RecordInv'
BY DEF RecordInv

(* Every step keeps what is known either in the corpus or on its way       *)
(* there.                                                                  *)
LEMMA RecordStep ==
  ASSUME TypeInv, TypeInv', EarlyInv, EarlyInv', ClockInv, RecordInv, [Next]_vars
  PROVE  RecordInv'
<1> USE DEF store, memory, flusher, world
<1>1. unwritten \subseteq batch /\ unwritten' \subseteq batch'
      /\ (write # "corpus" => unwritten = {}) /\ (write' # "corpus" => unwritten' = {})
  BY DEF TypeInv, TypeOK, ProcessOK
<1>2. CASE Early' /\ \A r \in Repos : known'[r] <= corpus'[r]
  BY <1>1, <1>2 DEF EarlyInv, RecordInv
<1>3. CASE Start
  <2>1. Early /\ Early' /\ corpus' = corpus /\ known' = known /\ buffer = {} /\ unwritten = {}
    BY <1>1, <1>3 DEF Start, Early, EarlyInv
  <2>2. \A r \in Repos : known'[r] <= corpus'[r]
    BY <2>1 DEF RecordInv
  <2> QED BY <1>2, <2>1, <2>2
<1>4. CASE RemoveRepo \/ RemoveState
  <2>1. Early' /\ known' = known /\ \A r \in Repos : known[r] = 0 /\ corpus'[r] \in Nat
    BY <1>4 DEF RemoveRepo, RemoveState, Early, EarlyInv, TypeInv, TypeOK
  <2> QED BY <1>2, <2>1
<1>5. CASE Open
  <2>1. Early' /\ corpus' = corpus /\ corpus \in [Repos -> 0..MaxPayload]
        /\ (known' = corpus \/ known' = [r \in Repos |-> 0])
    BY <1>5 DEF Open, Early, TypeInv, TypeOK
  <2>2. \A r \in Repos : known'[r] <= corpus'[r]
    BY <2>1
  <2> QED BY <1>2, <2>1, <2>2
<1>6. CASE Register \/ RegisterFails
  BY <1>6, RecordFrame DEF Register, RegisterFails
<1>7. CASE SkipCompleted \/ FetchFails \/ LeaveLoop
  BY <1>7, RecordFrame DEF SkipCompleted, FetchFails, LeaveLoop
<1>8. CASE FetchPage
  <2>1. UNCHANGED <<corpus, batch, unwritten, run, asOf>>
    BY <1>8 DEF FetchPage
  <2> QED BY <1>8, <2>1, PageItems, Recorded
<1>9. CASE BeginWrite
  <2>1. batch' = buffer /\ unwritten' = buffer /\ buffer' = {} /\ unwritten = {}
        /\ UNCHANGED <<corpus, known, seen, run, asOf>>
    BY <1>1, <1>9 DEF BeginWrite
  <2> QED BY <2>1, RecordFrame
<1>10. CASE WriteRepo
  <2>1. PICK d \in unwritten : /\ corpus' = [corpus EXCEPT ![d[1]] = d[2]]
                               /\ unwritten' = unwritten \ {d}
    BY <1>10 DEF WriteRepo
  <2>2. UNCHANGED <<known, seen, buffer, batch, run, asOf>>
    BY <1>10 DEF WriteRepo
  <2> QED BY <2>1, <2>2, Landed
<1>11. CASE WriteRepoFails
  <2>1. UNCHANGED <<corpus, known, seen, run, asOf>> /\ buffer' = batch \union buffer /\ batch' = {}
    BY <1>11 DEF WriteRepoFails
  <2> QED BY <1>1, <2>1, RecordFrame
<1>12. CASE WriteState \/ WriteStateFails
  <2>1. UNCHANGED <<corpus, known, seen, run, asOf, buffer, unwritten>> /\ batch' = {}
    BY <1>12 DEF WriteState, WriteStateFails
  <2> QED BY <2>1, RecordFrame
<1>13. CASE FinishRun \/ FinishRunFails \/ Interrupt \/ InterruptFails \/ Signal \/ Push
  BY <1>13, RecordFrame DEF FinishRun, FinishRunFails, Interrupt, InterruptFails, Signal, Push
<1>14. CASE Exit \/ Kill
  <2>1. Early' /\ corpus' = corpus /\ corpus \in [Repos -> 0..MaxPayload]
        /\ known' = [r \in Repos |-> 0]
    BY <1>14 DEF Exit, Kill, Gone, Early, TypeInv, TypeOK
  <2>2. \A r \in Repos : known'[r] <= corpus'[r]
    BY <2>1
  <2> QED BY <1>2, <2>1, <2>2
<1>15. CASE UNCHANGED vars
  BY <1>15, RecordFrame DEF vars
<1> QED BY <1>3, <1>4, <1>5, <1>6, <1>7, <1>8, <1>9, <1>10, <1>11, <1>12, <1>13, <1>14, <1>15
        DEF Next, OpenStep, LoopStep, FlushStep, EndStep

(* A fetched page leaves its repositories as recent as the sweep.          *)
LEMMA PageRecorded ==
  ASSUME TypeInv, ClockInv, RecordInv, FetchPage
  PROVE  /\ \A r \in Repos : known'[r] >= known[r]
         /\ work.started_at \in 1..run
         /\ \A r \in Pages[Head(work.pending)][page] : known'[r] >= asOf[work.started_at][r]
<1>1. work.pending # <<>> /\ Running /\ RecordAll(Pages[Head(work.pending)][page])
      /\ Pages[Head(work.pending)][page] \in SUBSET Repos
  BY PageItems
<1>2. UNCHANGED <<corpus, batch, unwritten, run, asOf>>
  BY DEF FetchPage, store, world
<1>3. work.started_at \in 1..run
  BY <1>1 DEF ClockInv, Dated, TypeInv, TypeOK
<1> QED BY <1>1, <1>2, <1>3, Recorded

(* Every step keeps the pages already fetched recorded.                    *)
LEMMA PageStep ==
  ASSUME TypeInv, TypeInv', EarlyInv, EarlyInv', ClockInv, RecordInv, PageInv, [Next]_vars
  PROVE  PageInv'
<1> USE DEF store, memory, flusher, world
<1>1. CASE page' = 1
  BY <1>1 DEF PageInv, TypeInv, TypeOK, LastPage
<1>2. CASE Early'
  BY <1>1, <1>2 DEF EarlyInv
<1>3. CASE UNCHANGED <<work, known, page, asOf>>
  BY <1>3 DEF PageInv
<1>4. CASE Start \/ RemoveRepo \/ RemoveState \/ Open
  BY <1>2, <1>4 DEF Start, RemoveRepo, RemoveState, Open, Early
<1>5. CASE Register
  BY <1>1, <1>5 DEF Register, EarlyInv, Early
<1>6. CASE RegisterFails
  BY <1>3, <1>6 DEF RegisterFails
<1>7. CASE SkipCompleted \/ FetchFails
  BY <1>1, <1>7 DEF SkipCompleted, FetchFails, WindowCompleted
<1>8. CASE LeaveLoop
  BY <1>3, <1>8 DEF LeaveLoop
<1>9. CASE FetchPage
  <2> DEFINE w == Head(work.pending)
  <2>1. CASE page' = page + 1 /\ work' = work
    <3> SUFFICES ASSUME NEW p \in 1..LastPage(w), p < page + 1, NEW r \in Pages[w][p]
                 PROVE  known'[r] >= asOf[work.started_at][r]
      BY <1>9, <2>1 DEF PageInv, FetchPage
    <3>1. CASE p = page
      BY <1>9, <3>1, PageRecorded
    <3>2. CASE p # page
      <4>1. p < page /\ w \in Windows /\ work.pending # <<>>
        BY <1>9, <3>2, PageItems, PageType DEF TypeInv, TypeOK
      <4>2. r \in Repos /\ known[r] >= asOf[work.started_at][r]
        BY <4>1, PageType DEF PageInv
      <4>3. known'[r] >= known[r] /\ work.started_at \in 1..MaxRuns
        <5>1. known'[r] >= known[r] /\ work.started_at \in 1..run
          BY <1>9, <4>2, PageRecorded
        <5>2. run \in 0..MaxRuns
          BY DEF TypeInv, TypeOK
        <5> QED BY <5>1, <5>2, BoundsAssumption
      <4>4. known[r] \in Int /\ known'[r] \in Int /\ asOf[work.started_at][r] \in Int
        BY <4>2, <4>3 DEF TypeInv, TypeOK
      <4> QED BY <4>2, <4>3, <4>4
    <3> QED BY <3>1, <3>2
  <2>2. CASE page' # page + 1
    BY <1>1, <1>9, <2>2 DEF FetchPage, CompleteWindow, WindowCompleted
  <2> QED BY <1>1, <1>9, <2>1, <2>2 DEF FetchPage, CompleteWindow, WindowCompleted
<1>10. CASE BeginWrite \/ WriteRepo \/ WriteRepoFails \/ WriteState \/ WriteStateFails
  BY <1>3, <1>10 DEF BeginWrite, WriteRepo, WriteRepoFails, WriteState, WriteStateFails
<1>11. CASE FinishRun \/ FinishRunFails \/ Interrupt \/ InterruptFails \/ Signal \/ Push
  BY <1>3, <1>11 DEF FinishRun, FinishRunFails, Interrupt, InterruptFails, Signal, Push
<1>12. CASE Exit \/ Kill
  BY <1>1, <1>12 DEF Exit, Kill, Gone
<1>13. CASE UNCHANGED vars
  BY <1>3, <1>13 DEF vars
<1> QED BY <1>4, <1>5, <1>6, <1>7, <1>8, <1>9, <1>10, <1>11, <1>12, <1>13
        DEF Next, OpenStep, LoopStep, FlushStep, EndStep

(* What was captured stays captured while payloads only get newer and the  *)
(* clock of its sweep keeps its reading.                                   *)
LEMMA CapturedKept ==
  ASSUME TypeInv, [Next]_vars, NEW s \in Progress, Dated(s, run),
         NEW k \in [Repos -> Int], NEW l \in [Repos -> Int], Captured(s, k),
         \A r \in Repos : l[r] >= k[r]
  PROVE  \A w \in s.done : \A r \in Fetched(w) : l[r] >= asOf'[s.started_at][r]
<1> SUFFICES ASSUME NEW w \in s.done, NEW r \in Fetched(w)
             PROVE  l[r] >= asOf'[s.started_at][r]
  OBVIOUS
<1>1. w \in Windows /\ r \in Repos /\ run \in 0..MaxRuns
  BY CoverAssumption, WindowsAssumption DEF Progress, TypeInv, TypeOK
<1>2. s.started_at \in 1..run
  BY <1>1 DEF Dated
<1>3. asOf'[s.started_at] = asOf[s.started_at]
  <2>1. CASE Start
    <3>1. asOf' = [asOf EXCEPT ![run + 1] = github] /\ s.started_at # run + 1
      BY <1>1, <1>2, <2>1 DEF Start
    <3> QED BY <3>1 DEF TypeInv, TypeOK
  <2> QED BY <2>1, ClockFrame
<1>4. s.started_at \in 1..MaxRuns
  BY <1>1, <1>2, BoundsAssumption
<1>5. asOf[s.started_at][r] \in Int
  BY <1>1, <1>4 DEF TypeInv, TypeOK
<1>6. k[r] >= asOf[s.started_at][r]
  BY DEF Captured
<1> QED BY <1>1, <1>3, <1>5, <1>6

(* The window at the head of the queue is completed: all of it is known.   *)
LEMMA CaptureLoop ==
  ASSUME TypeInv, TypeInv', ClockInv, RecordInv, PageInv, Captured(work, known), LoopStep
  PROVE  \A w \in work'.done : \A r \in Fetched(w) : known'[r] >= asOf'[work'.started_at][r]
<1> USE DEF store, memory, flusher, world
<1>1. /\ known \in [Repos -> Int] /\ known' \in [Repos -> Int] /\ work \in Progress
      /\ Dated(work, run) /\ [Next]_vars
  BY DEF TypeInv, TypeOK, ClockInv, Next
<1>2. CASE SkipCompleted \/ FetchFails
  <2>1. /\ work'.done = work.done /\ work'.started_at = work.started_at /\ known' = known
    BY <1>1, <1>2 DEF SkipCompleted, FetchFails, Progress
  <2>2. \A r \in Repos : known[r] >= known[r]
    BY <1>1
  <2>3. \A w \in work.done : \A r \in Fetched(w) : known[r] >= asOf'[work.started_at][r]
    BY <1>1, <2>2, CapturedKept
  <2> QED BY <2>1, <2>3
<1>3. CASE FetchPage
  <2> DEFINE w == Head(work.pending)
  <2>1. /\ \A r \in Repos : known'[r] >= known[r]
        /\ \A r \in Pages[w][page] : known'[r] >= asOf[work.started_at][r]
        /\ work.started_at \in 1..run
        /\ work.pending # <<>> /\ w \in Windows /\ page \in 1..LastPage(w)
    BY <1>3, PageRecorded, PageItems
  <2>2. \A v \in work.done : \A r \in Fetched(v) : known'[r] >= asOf'[work.started_at][r]
    BY <1>1, <2>1, CapturedKept
  <2>3. CASE work' = work
    BY <2>2, <2>3
  <2>4. CASE page = LastPage(w) /\ CompleteWindow(w)
    <3>1. work'.done = work.done \union {w} /\ work'.started_at = work.started_at /\ asOf' = asOf
      BY <1>1, <1>3, <2>4 DEF CompleteWindow, FetchPage, Progress
    <3>2. ASSUME NEW p \in 1..LastPage(w), NEW r \in Pages[w][p]
          PROVE  known'[r] >= asOf[work.started_at][r]
      <4>1. CASE p = page
        BY <2>1, <4>1
      <4>2. CASE p # page
        <5>1. p < page
          BY <2>1, <2>4, <4>2, PageType
        <5>2. r \in Repos /\ known[r] >= asOf[work.started_at][r]
          BY <2>1, <5>1, PageType DEF PageInv
        <5>3. run \in 0..MaxRuns
          BY DEF TypeInv, TypeOK
        <5>4. work.started_at \in 1..MaxRuns
          BY <2>1, <5>3, BoundsAssumption
        <5>5. asOf[work.started_at][r] \in Int
          BY <5>2, <5>4 DEF TypeInv, TypeOK
        <5> QED BY <1>1, <2>1, <5>2, <5>5
      <4> QED BY <4>1, <4>2
    <3>3. \A r \in Fetched(w) : known'[r] >= asOf[work.started_at][r]
      BY <3>2 DEF Fetched
    <3> QED BY <2>2, <3>1, <3>3
  <2> QED BY <1>3, <2>3, <2>4 DEF FetchPage
<1>4. CASE LeaveLoop
  <2>1. work' = work /\ known' = known /\ \A r \in Repos : known[r] >= known[r]
    BY <1>1, <1>4 DEF LeaveLoop
  <2> QED BY <1>1, <2>1, CapturedKept
<1> QED BY <1>2, <1>3, <1>4 DEF LoopStep

(* What the windows completed served stays known.                          *)
LEMMA CaptureWork ==
  ASSUME TypeInv, TypeInv', ClockInv, RecordInv, PageInv, CaptureInv, [Next]_vars
  PROVE  \A w \in work'.done : \A r \in Fetched(w) : known'[r] >= asOf'[work'.started_at][r]
<1> USE DEF store, memory, flusher, world
<1>1. /\ known \in [Repos -> Int] /\ known' \in [Repos -> Int] /\ corpus \in [Repos -> Int]
      /\ work \in Progress /\ (saved # NoState => saved \in Progress)
      /\ Dated(work, run) /\ (saved # NoState => Dated(saved, run)) /\ Captured(work, known)
  BY DEF TypeInv, TypeOK, ClockInv, CaptureInv
<1>2. CASE work'.done = {}
  BY <1>2
<1>3. CASE work' = work /\ \A r \in Repos : known'[r] >= known[r]
  BY <1>1, <1>3, CapturedKept
<1>4. CASE UNCHANGED <<work, known>>
  BY <1>1, <1>3, <1>4
<1>5. CASE Open
  <2>1. CASE saved = NoState
    BY <1>2, <1>5, <2>1 DEF Open, NoWork
  <2>2. CASE saved # NoState
    <3>1. work' = saved /\ known' = corpus
      BY <1>5, <2>2 DEF Open
    <3>2. Captured(saved, corpus)
      BY <2>2 DEF CaptureInv
    <3> QED BY <1>1, <2>2, <3>1, <3>2, CapturedKept
  <2> QED BY <2>1, <2>2
<1>6. CASE Register
  BY <1>2, <1>4, <1>6 DEF Register
<1>7. CASE LoopStep
  BY <1>7, CaptureLoop DEF CaptureInv
<1>9. CASE Start \/ RemoveRepo \/ RemoveState \/ RegisterFails \/ UNCHANGED vars
  BY <1>4, <1>9 DEF Start, RemoveRepo, RemoveState, RegisterFails, vars
<1>10. CASE BeginWrite \/ WriteRepo \/ WriteRepoFails \/ WriteState \/ WriteStateFails
  BY <1>4, <1>10 DEF BeginWrite, WriteRepo, WriteRepoFails, WriteState, WriteStateFails
<1>11. CASE FinishRun \/ FinishRunFails \/ Interrupt \/ InterruptFails \/ Signal \/ Push
  BY <1>4, <1>11 DEF FinishRun, FinishRunFails, Interrupt, InterruptFails, Signal, Push
<1>12. CASE Exit \/ Kill
  BY <1>2, <1>12 DEF Exit, Kill, Gone, NoWork
<1> QED BY <1>5, <1>6, <1>7, <1>9, <1>10, <1>11, <1>12
        DEF Next, OpenStep, FlushStep, EndStep

(* No step replaces a payload in the corpus by an older one.               *)
LEMMA CorpusGrows ==
  ASSUME TypeInv, QuietInv, RecordInv, [Next]_vars
  PROVE  \A r \in Repos : corpus'[r] >= corpus[r]
<1> USE DEF store, memory, flusher, world
<1>1. CASE corpus' = corpus
  BY <1>1 DEF TypeInv, TypeOK
<1>2. CASE WriteRepo
  <2>1. PICK d \in unwritten : /\ corpus' = [corpus EXCEPT ![d[1]] = d[2]]
                               /\ unwritten' = unwritten \ {d}
    BY <1>2 DEF WriteRepo
  <2>2. UNCHANGED <<known, seen, buffer, batch, run, asOf>>
    BY <1>2 DEF WriteRepo
  <2> QED BY <2>1, <2>2, Landed
<1>3. CASE OpenStep
  BY <1>1, <1>3 DEF OpenStep, RemoveRepo, RemoveState, Open, Register, RegisterFails, QuietInv
<1>4. CASE LoopStep
  BY <1>1, <1>4, LoopWork
<1>5. CASE BeginWrite \/ WriteRepoFails \/ WriteState \/ WriteStateFails
  BY <1>1, <1>5 DEF BeginWrite, WriteRepoFails, WriteState, WriteStateFails
<1>6. CASE EndStep
  BY <1>1, <1>6 DEF EndStep, FinishRun, FinishRunFails, Interrupt, InterruptFails, Exit
<1>7. CASE Start \/ Signal \/ Kill \/ Push \/ UNCHANGED vars
  BY <1>1, <1>7 DEF Start, Signal, Kill, Push, vars
<1> QED BY <1>2, <1>3, <1>4, <1>5, <1>6, <1>7 DEF Next, FlushStep

(* The state document is serialised only when everything known has landed, *)
(* and nothing is recorded until it has.                                   *)
LEMMA StateSnapped ==
  ASSUME TypeInv, QuietInv, RecordInv, RecordInv', QuietInv', TypeInv', [Next]_vars,
         write' = "state"
  PROVE  \/ write = "state" /\ snap' = snap
         \/ work' = work /\ snap' = work' /\ \A r \in Repos : known'[r] <= corpus'[r]
<1> USE DEF store, memory, flusher, world
<1>1. buffer' = {} /\ unwritten' = {}
  BY DEF QuietInv, TypeInv, ProcessOK
<1>2. \A r \in Repos : known'[r] <= corpus'[r]
  BY <1>1 DEF RecordInv
<1>3. CASE BeginWrite \/ WriteRepo
  BY <1>2, <1>3 DEF BeginWrite, WriteRepo
<1>4. CASE OpenStep
  BY <1>4 DEF OpenStep, RemoveRepo, RemoveState, Open, Register, RegisterFails
<1>5. CASE LoopStep
  BY <1>5, LoopWork
<1>6. CASE WriteRepoFails \/ WriteState \/ WriteStateFails
  BY <1>6 DEF WriteRepoFails, WriteState, WriteStateFails
<1>7. CASE EndStep \/ Kill
  BY <1>7 DEF EndStep, FinishRun, FinishRunFails, Interrupt, InterruptFails, Exit, Kill, Gone
<1>8. CASE Start \/ Signal \/ Push \/ UNCHANGED vars
  BY <1>8 DEF Start, Signal, Push, vars
<1> QED BY <1>3, <1>4, <1>5, <1>6, <1>7, <1>8 DEF Next, FlushStep

(* Every step keeps what completed windows served captured.                *)
LEMMA CaptureStep ==
  ASSUME Quiet, CorpusInv, TypeInv', QuietInv', RecordInv', [Next]_vars
  PROVE  CaptureInv'
<1> USE DEF CorpusInv
<1>1. /\ corpus \in [Repos -> Int] /\ corpus' \in [Repos -> Int] /\ known' \in [Repos -> Int]
      /\ (saved # NoState => saved \in Progress) /\ snap \in Progress /\ work' \in Progress
      /\ \A r \in Repos : corpus'[r] >= corpus[r]
  <2>1. TypeOK /\ TypeOK'
    BY DEF TypeInv
  <2>2. /\ corpus \in [Repos -> 0..MaxPayload] /\ corpus' \in [Repos -> 0..MaxPayload]
        /\ known' \in [Repos -> 0..MaxPayload]
        /\ saved \in Progress \cup {NoState} /\ snap \in Progress /\ work' \in Progress
    BY <2>1 DEF TypeOK
  <2>3. \A r \in Repos : corpus'[r] >= corpus[r]
    BY CorpusGrows
  <2>4. 0..MaxPayload \subseteq Int
    OBVIOUS
  <2> QED BY <2>2, <2>3, <2>4
<1>2. \A w \in work'.done : \A r \in Fetched(w) : known'[r] >= asOf'[work'.started_at][r]
  BY CaptureWork
<1>3. ASSUME write = "state"
      PROVE  \A w \in snap.done : \A r \in Fetched(w) : corpus'[r] >= asOf'[snap.started_at][r]
  <2>1. Captured(snap, corpus) /\ Dated(snap, run)
    BY <1>3 DEF CaptureInv, ClockInv
  <2> QED BY <1>1, <2>1, CapturedKept
<1>4. ASSUME saved # NoState
      PROVE  \A w \in saved.done : \A r \in Fetched(w) : corpus'[r] >= asOf'[saved.started_at][r]
  <2>1. Captured(saved, corpus) /\ Dated(saved, run)
    BY <1>4 DEF CaptureInv, ClockInv
  <2> QED BY <1>1, <1>4, <2>1, CapturedKept
<1>5. saved' # NoState =>
        \A w \in saved'.done : \A r \in Fetched(w) : corpus'[r] >= asOf'[saved'.started_at][r]
  BY <1>3, <1>4, ProgressFrame
<1>6. ASSUME write' = "state"
      PROVE  \A w \in snap'.done : \A r \in Fetched(w) : corpus'[r] >= asOf'[snap'.started_at][r]
  <2>1. CASE write = "state" /\ snap' = snap
    BY <1>3, <2>1
  <2>2. CASE work' = work /\ snap' = work' /\ \A r \in Repos : known'[r] <= corpus'[r]
    <3> SUFFICES ASSUME NEW w \in work'.done, NEW r \in Fetched(w)
                 PROVE  corpus'[r] >= asOf'[work'.started_at][r]
      BY <2>2
    <3>1. r \in Repos
      BY <1>1, CoverAssumption, WindowsAssumption DEF Progress
    <3>2. run' \in 0..MaxRuns /\ asOf' \in [1..MaxRuns -> [Repos -> Int]]
          /\ Dated(work, run) /\ run \in 0..MaxRuns
      BY DEF TypeInv, TypeOK, ClockInv
    <3>3. work'.started_at \in 1..MaxRuns
      BY <2>2, <3>2, BoundsAssumption DEF Dated
    <3>4. asOf'[work'.started_at][r] \in Int
      BY <3>1, <3>2, <3>3
    <3>5. known'[r] >= asOf'[work'.started_at][r]
      BY <1>2
    <3> QED BY <1>1, <2>2, <3>1, <3>4, <3>5
  <2> QED BY <1>6, <2>1, <2>2, StateSnapped
<1> QED BY <1>2, <1>5, <1>6 DEF CaptureInv, Captured

(* The first state has nothing to capture.                                 *)
LEMMA CorpusInit == Init => CorpusInv
<1> SUFFICES ASSUME Init PROVE CorpusInv
  OBVIOUS
<1>1. TypeInv /\ QuietInv /\ EarlyInv
  BY TypeInit DEF Init, QuietInv, EarlyInv
<1>2. ClockInv
  <2>1. run = 0 /\ ~(1 <= run)
    BY DEF Init
  <2>2. Dated(NoWork, run)
    BY <2>1 DEF Dated, NoWork
  <2>3. \A r \in Repos : corpus[r] <= github[r] /\ known[r] <= github[r]
    BY DEF Init
  <2> QED BY <2>1, <2>2, <2>3 DEF Init, ClockInv
<1>3. RecordInv
  BY DEF Init, RecordInv
<1>4. PageInv /\ CaptureInv
  BY DEF Init, PageInv, CaptureInv, Captured, NoWork
<1> QED BY <1>1, <1>2, <1>3, <1>4 DEF CorpusInv

(* completed_windows never becomes durable ahead of the repositories those *)
(* windows served, wherever a process is killed and whichever request or   *)
(* write fails, provided none is signalled and none is started --fresh:    *)
(* store.ts, writeAll.                                                     *)
THEOREM CorpusIsAheadOfState ==
  ASSUME Quiet PROVE Spec => []CorpusAheadOfState
<1>1. CorpusInv /\ [Next]_vars => CorpusInv'
  BY TypeStep, EarlyStep, QuietStep, ClockStep, RecordStep, PageStep, CaptureStep DEF CorpusInv
<1>2. CorpusInv => CorpusAheadOfState
  BY DEF CorpusInv, CaptureInv, Captured, CorpusAheadOfState
<1>3. Spec => []CorpusInv
  BY <1>1, CorpusInit, PTL DEF Spec
<1> QED BY <1>2, <1>3, PTL


-----------------------------------------------------------------------------
(* Every exit is stamped, and a run counts its own windows.                *)

Stamped(doc) == doc # NoRun /\ doc.outcome # "running"

(* What is about to be written as an ending is one, and whoever of loop    *)
(* and handler ends a process has written it or was refused a write: only   *)
(* a rejected flush of its own leaves the loop by the rescue in `finally`.  *)
StampInv ==
  /\ \A end \in left : end[1] \in 1..run
  /\ Running => \A p \in Process : <<run, p>> \notin left
  /\ pc = "register" => stamp["loop"] # NoRun /\ stamp["loop"].outcome = "running"
  /\ pc = "rescue" => <<run, "loop">> \in refused
  /\ pc = "finish" => Stamped(stamp["loop"])
  /\ handler = "finish" =>
       stamp["handler"] # NoRun /\ stamp["handler"].outcome = "interrupted"
  /\ pc = "ended" => <<run, "loop">> \in refused \/ Stamped(history[run])
  /\ handler = "exit" => <<run, "handler">> \in refused \/ Stamped(history[run])
  /\ \A end \in left : end \in refused \/ Stamped(history[end[1]])

Before(s, n) == s # NoState => s.started_at < n

(* The sweep of a process that is opening is of an earlier run.  Later the *)
(* windows completed are this process's, beside those it opened with, if   *)
(* it did not begin the sweep.                                             *)
OwnInv ==
  /\ Before(saved, run + 1) /\ Before(snap, run + 1) /\ Before(work, run + 1)
  /\ pc \in {"down", "wipe", "open"} => mine = {} /\ \A p \in Process : stamp[p] = NoRun
  /\ pc \in {"wipe", "open"} => Before(saved, run)
  /\ pc = "register" => Before(work, run) /\ mine = {} /\ opened = Cardinality(work.done)
  /\ Sweeping \/ turns # <<>> =>
       /\ mine \subseteq work.done
       /\ Cardinality(work.done) =
            Cardinality(mine) + (IF work.started_at = run THEN 0 ELSE opened)
  /\ \A p \in Process :
       stamp[p] # NoRun /\ (work.started_at = run => opened = 0) =>
         stamp[p].windows_completed = stamp[p].own

(* Where a flush leaves its caller.                                        *)
LEMMA Returned ==
  ASSUME TypeInv, write # "idle"
  PROVE  /\ Head(turns) = "handler" => handler = "flush"
         /\ Head(turns) # "handler" => pc \in {"flush", "final", "rescue"}
<1>1. turns \in Chains /\ turns # <<>>
  BY DEF TypeInv, TypeOK, ChainOK
<1> QED BY <1>1 DEF TypeInv, ChainOK, Chains, LoopQueued, HandlerQueued

(* A step that writes no ending and ends nothing without a refused write.  *)
LEMMA StampFrame ==
  ASSUME TypeInv, TypeInv', StampInv, UNCHANGED <<left, run, stamp, history>>,
         refused \subseteq refused', Running' => Running,
         pc' = pc \/ (/\ pc' \notin {"register", "finish"}
                      /\ pc' \in {"rescue", "ended"} => <<run, "loop">> \in refused'),
         handler' = handler \/ (/\ handler' # "finish"
                                /\ handler' = "exit" => <<run, "handler">> \in refused')
  PROVE  StampInv'
BY DEF StampInv, Stamped

(* Every step that ends a process has stamped it, unless whoever ends it    *)
(* was refused a write.                                                     *)
LEMMA StampStep == TypeInv /\ StampInv /\ [Next]_vars => StampInv'
<1> SUFFICES ASSUME TypeInv, StampInv, [Next]_vars PROVE StampInv'
  OBVIOUS
<1>0. TypeInv'
  BY TypeStep
<1>a. /\ run \in 0..MaxRuns /\ MaxRuns \in Nat /\ faults \in Nat
      /\ history \in [1..MaxRuns -> RunDocs \union {NoRun}]
      /\ stamp \in [Process -> RunDocs \union {NoRun}]
  BY BoundsAssumption DEF TypeInv, TypeOK
<1>b. Running => run \in 1..run /\ run \in 1..MaxRuns /\ \A p \in Process : <<run, p>> \notin left
  BY <1>a DEF TypeInv, ProcessOK, StampInv
<1>c. Running => \A end \in left : end[1] # run
  <2> SUFFICES ASSUME Running, NEW end \in left PROVE end[1] # run
    OBVIOUS
  <2>1. end \in (1..MaxRuns) \X Process
    BY DEF TypeInv, TypeOK
  <2>2. end[2] \in Process /\ end = <<end[1], end[2]>>
    BY <2>1
  <2> QED BY <1>b, <2>2
<1> USE <1>0, <1>a, <1>b, <1>c DEF store, memory, flusher, world, Running
<1>1. CASE Start
  BY <1>1 DEF Start, StampInv, Stamped, TypeInv, ProcessOK
<1>2. CASE RemoveRepo \/ RemoveState
  BY <1>2, StampFrame DEF RemoveRepo, RemoveState
<1>3. CASE Open
  <2>1. stamp'["loop"] = [outcome |-> "running", windows_completed |-> 0, own |-> 0]
    BY <1>3 DEF Open, Process
  <2>2. stamp'["loop"] # NoRun
    <3>1. [outcome |-> "running", windows_completed |-> 0, own |-> 0] \in RunDocs
      BY DEF RunDocs
    <3> QED BY <2>1, <3>1, SentinelAssumption
  <2>3. handler = "idle" /\ stamp'["loop"].outcome = "running"
    BY <1>3, <2>1 DEF Open, TypeInv, ProcessOK
  <2> QED BY <1>3, <2>2, <2>3 DEF Open, StampInv, Stamped
<1>4. CASE Register
  <2>1. handler = "idle" /\ run # 0
    BY <1>4 DEF Register, TypeInv, ProcessOK
  <2>2. \A end \in left : history'[end[1]] = history[end[1]]
    BY <1>4 DEF Register, StampInv
  <2> QED BY <1>4, <2>1, <2>2 DEF Register, StampInv, Stamped
<1>5. CASE RegisterFails
  <2>1. handler = "idle" /\ refused' = refused \union {<<run, "loop">>}
    BY <1>5 DEF RegisterFails, TypeInv, ProcessOK, Refuses
  <2> QED BY <1>5, <2>1 DEF RegisterFails, StampInv, Stamped
<1>6. CASE LoopStep
  <2>1. /\ pc = "loop" /\ pc' \in {"loop", "flush", "final"} 
        /\ UNCHANGED <<left, run, stamp, history, handler, refused>>
    BY <1>6 DEF LoopStep, SkipCompleted, FetchPage, FetchFails, LeaveLoop, WindowCompleted,
                CompleteWindow, InLoop
  <2> QED BY <2>1, StampFrame
<1>7. CASE BeginWrite \/ WriteRepo \/ Signal \/ Push
  BY <1>7, StampFrame DEF BeginWrite, WriteRepo, Signal, Push
<1>8. CASE WriteRepoFails \/ WriteStateFails
  <2>1. /\ write # "idle" /\ Reject /\ refused' = refused \union {<<run, Head(turns)>>}
        /\ UNCHANGED <<left, run, stamp, history>>
    BY <1>8 DEF WriteRepoFails, WriteStateFails, Refuses
  <2>0. Head(turns) \in Process
    BY <2>1, ChainHead DEF TypeInv, TypeOK, ChainOK
  <2>2. pc' = pc \/ (Running /\ pc' \in {"rescue", "ended"} /\ <<run, "loop">> \in refused')
    BY <2>0, <2>1, Returned DEF Reject, Process
  <2>3. handler' = handler \/ (handler' = "exit" /\ <<run, "handler">> \in refused')
    BY <2>1 DEF Reject
  <2>4. refused \subseteq refused'
    BY <2>1
  <2> QED BY <2>1, <2>2, <2>3, <2>4, StampFrame
<1>9. CASE WriteState
  <2>1. /\ write = "state" /\ write # "idle" /\ Resolve
        /\ UNCHANGED <<left, run, history, refused, work, opened, mine>>
    BY <1>9 DEF WriteState
  <2>2. \A o \in {"complete", "failed", "interrupted"} : Stamped(RunDoc(o))
    <3>1. \A o \in {"complete", "failed", "interrupted"} : RunDoc(o) \in RunDocs
      BY RunDocType
    <3> QED BY <3>1, SentinelAssumption DEF RunDoc, Stamped
  <2>3. CASE Head(turns) = "handler"
    <3>0. RunDoc("interrupted").outcome = "interrupted"
      BY DEF RunDoc
    <3>1. /\ handler' = "finish" /\ pc' = pc /\ handler = "flush"
          /\ stamp' = [stamp EXCEPT !["handler"] = RunDoc("interrupted")]
      BY <2>1, <2>3, Returned DEF Resolve
    <3>2. stamp'["handler"] = RunDoc("interrupted") /\ stamp'["loop"] = stamp["loop"]
      BY <3>1 DEF Process
    <3> QED BY <2>1, <2>2, <3>0, <3>1, <3>2 DEF StampInv, Stamped
  <2>4. CASE Head(turns) # "handler"
    <3>1. pc \in {"flush", "final", "rescue"} /\ handler' = handler
      BY <2>1, <2>4, Returned DEF Resolve
    <3>2. CASE pc = "final"
      <4>1. pc' = "finish" /\ stamp' = [stamp EXCEPT !["loop"] = RunDoc(Outcome)]
        BY <2>1, <2>4, <3>2 DEF Resolve
      <4>2. stamp'["loop"] = RunDoc(Outcome) /\ stamp'["handler"] = stamp["handler"]
        BY <4>1 DEF Process
      <4>3. Stamped(stamp'["loop"])
        BY <2>2, <4>2 DEF Outcome
      <4> QED BY <2>1, <3>1, <4>1, <4>2, <4>3 DEF StampInv, Stamped
    <3>3. CASE pc = "flush"
      <4>1. pc' = "loop" /\ stamp' = stamp
        BY <2>1, <2>4, <3>3 DEF Resolve
      <4> QED BY <2>1, <3>1, <3>3, <4>1, StampFrame
    <3>4. CASE pc = "rescue"
      <4>1. pc' = "ended" /\ stamp' = stamp
        BY <2>1, <2>4, <3>4 DEF Resolve
      <4>2. <<run, "loop">> \in refused'
        BY <2>1, <3>4 DEF StampInv
      <4> QED BY <2>1, <3>1, <3>4, <4>1, <4>2, StampFrame
    <3> QED BY <3>1, <3>2, <3>3, <3>4
  <2> QED BY <2>3, <2>4
<1>10. CASE FinishRun
  <2>1. history'[run] = stamp["loop"] /\ stamp'["handler"] = stamp["handler"]
        /\ \A end \in left : history'[end[1]] = history[end[1]]
    BY <1>10 DEF FinishRun, Process, StampInv
  <2> QED BY <1>10, <2>1 DEF FinishRun, StampInv, Stamped
<1>11. CASE FinishRunFails
  <2>1. refused' = refused \union {<<run, "loop">>} /\ stamp'["handler"] = stamp["handler"]
    BY <1>11 DEF FinishRunFails, Refuses, Process
  <2> QED BY <1>11, <2>1 DEF FinishRunFails, StampInv, Stamped
<1>12. CASE Interrupt
  <2>1. Running
    BY <1>12 DEF Interrupt, TypeInv, ProcessOK
  <2>2. history'[run] = stamp["handler"] /\ stamp'["loop"] = stamp["loop"]
        /\ \A end \in left : history'[end[1]] = history[end[1]]
    BY <1>12, <2>1 DEF Interrupt, Process, StampInv
  <2> QED BY <1>12, <2>1, <2>2 DEF Interrupt, StampInv, Stamped
<1>13. CASE InterruptFails
  <2>1. refused' = refused \union {<<run, "handler">>} /\ stamp'["loop"] = stamp["loop"]
    BY <1>13 DEF InterruptFails, Refuses, Process
  <2>2. handler' = "exit" /\ UNCHANGED <<left, run, history, pc>>
    BY <1>13 DEF InterruptFails
  <2> QED BY <2>1, <2>2 DEF StampInv, Stamped
<1>14. CASE Exit
  <2>1. Running /\ UNCHANGED <<run, history, refused>> /\ pc' = "down" /\ handler' = "idle"
    BY <1>14 DEF Exit, Gone, TypeInv, ProcessOK
  <2>2. PICK p \in Process : /\ left' = left \union {<<run, p>>}
                             /\ <<run, p>> \in refused \/ Stamped(history[run])
    BY <1>14 DEF Exit, StampInv, Process
  <2>3. \A end \in left' : end[1] \in 1..run /\ (end \in refused \/ Stamped(history[end[1]]))
    <3> SUFFICES ASSUME NEW end \in left'
                 PROVE  end[1] \in 1..run /\ (end \in refused \/ Stamped(history[end[1]]))
      OBVIOUS
    <3>1. CASE end \in left
      BY <3>1 DEF StampInv
    <3>2. CASE end = <<run, p>>
      BY <2>1, <2>2, <3>2
    <3>3. end \in left \/ end = <<run, p>>
      BY <2>2
    <3> QED BY <3>1, <3>2, <3>3
  <2>4. pc' \notin {"register", "rescue", "finish", "ended"} /\ handler' \notin {"finish", "exit"}
    BY <2>1
  <2> QED BY <2>1, <2>3, <2>4 DEF StampInv, Stamped
<1>15. CASE Kill
  BY <1>15 DEF Kill, Gone, StampInv, Stamped
<1>16. CASE UNCHANGED vars
  BY <1>16, StampFrame DEF vars
<1> QED BY <1>1, <1>2, <1>3, <1>4, <1>5, <1>6, <1>7, <1>8, <1>9, <1>10, <1>11, <1>12, <1>13,
           <1>14, <1>15, <1>16
        DEF Next, OpenStep, FlushStep, EndStep

(* A process that ends by itself leaves its run stamped with an ending,    *)
(* whatever overlaps and whichever of loop and handler comes first, failed  *)
(* windows or not, unless the one that ended it was refused a write         *)
(* (store.ts, finishRun).                                                   *)
THEOREM ExitsAreStamped == Spec => []EveryExitIsStamped
<1>1. Init => TypeInv /\ StampInv
  BY TypeInit DEF Init, StampInv, Running
<1>2. StampInv => EveryExitIsStamped
  BY DEF StampInv, Stamped, EveryExitIsStamped
<1>3. Spec => [](TypeInv /\ StampInv)
  BY <1>1, TypeStep, StampStep, PTL DEF Spec
<1> QED BY <1>2, <1>3, PTL


(* A step that completes no window, puts nothing in flight and begins no   *)
(* sweep.                                                                  *)
LEMMA OwnFrame ==
  ASSUME OwnInv, UNCHANGED <<work, opened, mine, run>>,
         Before(saved', run + 1), Before(snap', run + 1),
         pc' \in {"wipe", "open"} => pc' = pc /\ Before(saved', run),
         pc' \in {"down", "wipe", "open"} => pc' = pc /\ UNCHANGED stamp,
         pc' = "register" => pc' = pc,
         Sweeping' \/ turns' # <<>> => Sweeping \/ turns # <<>>,
         \A p \in Process :
           \/ stamp'[p] = NoRun
           \/ stamp'[p] = stamp[p]
           \/ (work.started_at = run => opened = 0) =>
                stamp'[p].windows_completed = stamp'[p].own
  PROVE  OwnInv'
<1>1. Before(work', run' + 1)
  BY DEF OwnInv
<1>2. \A p \in Process :
        stamp'[p] # NoRun /\ (work'.started_at = run' => opened' = 0) =>
          stamp'[p].windows_completed = stamp'[p].own
  BY DEF OwnInv
<1>3. Sweeping' \/ turns' # <<>> =>
        /\ mine' \subseteq work'.done
        /\ Cardinality(work'.done) =
             Cardinality(mine') + (IF work'.started_at = run' THEN 0 ELSE opened')
  BY DEF OwnInv
<1>4. /\ pc' \in {"down", "wipe", "open"} => mine' = {}
      /\ pc' \in {"down", "wipe", "open"} => \A p \in Process : stamp'[p] = NoRun
      /\ pc' \in {"wipe", "open"} => Before(saved', run')
      /\ pc' = "register" =>
           Before(work', run') /\ mine' = {} /\ opened' = Cardinality(work'.done)
  BY DEF OwnInv
<1> QED BY <1>1, <1>2, <1>3, <1>4 DEF OwnInv

(* What a process reports is what it completed.                            *)
LEMMA OwnReport ==
  ASSUME TypeInv, OwnInv, turns # <<>>, work.started_at = run => opened = 0, NEW o
  PROVE  RunDoc(o).windows_completed = RunDoc(o).own
<1>1. Cardinality(work.done) \in Nat /\ Cardinality(mine) \in Nat /\ opened \in Nat
  BY WindowCount DEF TypeInv, TypeOK, Progress
<1>2. Cardinality(work.done) = Cardinality(mine) + (IF work.started_at = run THEN 0 ELSE opened)
  BY DEF OwnInv
<1> QED BY <1>1, <1>2 DEF RunDoc

(* Every step keeps a process's count of windows its own.                  *)
LEMMA OwnStep == TypeInv /\ OwnInv /\ [Next]_vars => OwnInv'
<1> SUFFICES ASSUME TypeInv, OwnInv, [Next]_vars PROVE OwnInv'
  OBVIOUS
<1>0. TypeInv'
  BY TypeStep
<1>a. /\ run \in Nat /\ opened \in Nat /\ stamp \in [Process -> RunDocs \union {NoRun}]
      /\ work \in Progress /\ snap \in Progress /\ (saved # NoState => saved \in Progress)
      /\ NoWork \in Progress /\ NoWork # NoState
  BY BoundsAssumption, SentinelAssumption, NoWorkType DEF TypeInv, TypeOK
<1>b. pc \in {"down", "wipe", "open", "register"} => turns = <<>> /\ handler = "idle"
  BY WriterRuns DEF TypeInv, ProcessOK
<1>c. Before(saved, run + 1) /\ Before(snap, run + 1) /\ Before(work, run + 1)
  BY DEF OwnInv
<1>d. work # NoState
  BY SentinelAssumption DEF TypeInv, TypeOK
<1> USE <1>0, <1>a, <1>b, <1>c DEF store, memory, flusher, world, Sweeping, Running
<1>1. CASE Start
  <2>1. run' = run + 1 /\ Before(saved, run') /\ turns' = <<>>
        /\ Before(saved, run' + 1) /\ Before(work, run' + 1) /\ Before(snap, run' + 1)
    BY <1>1 DEF Start, Before, Progress
  <2>2. mine' = {} /\ \A p \in Process : stamp'[p] = NoRun
    BY <1>1 DEF Start, OwnInv
  <2> QED BY <1>1, <2>1, <2>2 DEF Start, OwnInv
<1>2. CASE RemoveRepo
  BY <1>2, OwnFrame DEF RemoveRepo, OwnInv
<1>3. CASE RemoveState
  BY <1>3 DEF RemoveState, OwnInv, Before
<1>4. CASE Open
  <2>1. stamp'["loop"] = [outcome |-> "running", windows_completed |-> 0, own |-> 0]
        /\ stamp'["handler"] = NoRun
    BY <1>4 DEF Open, Process, OwnInv
  <2>2. Before(work', run) /\ Before(work', run + 1)
    <3>1. work' = NoWork \/ (work' = saved /\ saved # NoState)
      BY <1>4 DEF Open
    <3>2. run # 0 /\ Before(saved, run)
      BY <1>4 DEF Open, OwnInv, TypeInv, ProcessOK
    <3> QED BY <3>1, <3>2 DEF Before, NoWork, Progress
  <2>3. opened' = Cardinality(work'.done) /\ mine' = {} /\ turns' = <<>> /\ pc' = "register"
        /\ UNCHANGED <<saved, snap, run>>
    BY <1>4 DEF Open, OwnInv
  <2>4. \A p \in Process : stamp'[p] # NoRun => stamp'[p].windows_completed = stamp'[p].own
    BY <2>1 DEF Process
  <2> QED BY <2>2, <2>3, <2>4 DEF OwnInv
<1>5. CASE Register
  <2>1. /\ stamp'["loop"] = NoRun /\ stamp'["handler"] = stamp["handler"] /\ mine' = {}
        /\ turns' = <<>> /\ pc' = "loop" /\ opened' = opened /\ UNCHANGED <<saved, snap, run>>
    BY <1>5 DEF Register, Process, OwnInv
  <2>2. Before(work, run) /\ opened = Cardinality(work.done) /\ work # NoState
    BY <1>5, SentinelAssumption DEF Register, OwnInv
  <2>3. work.started_at # run
    BY <2>2 DEF Before, Progress
  <2>4. \A p \in Process : stamp'[p] # NoRun => stamp'[p].windows_completed = stamp'[p].own
    BY <2>1, <2>3 DEF OwnInv, Process
  <2>5. Cardinality({}) = 0
    BY FS_EmptySet
  <2>6. Cardinality(work'.done) = 0 + (IF work'.started_at = run THEN 0 ELSE opened)
        /\ Before(work', run + 1)
    <3>1. CASE work.pending # <<>>
      BY <1>5, <2>2, <2>3, <3>1 DEF Register
    <3>2. CASE work.pending = <<>>
      <4>1. work'.done = {} /\ work'.started_at = run
        BY <1>5, <3>2 DEF Register
      <4> QED BY <4>1, <2>5 DEF Before
    <3> QED BY <3>1, <3>2
  <2> QED BY <2>1, <2>4, <2>5, <2>6 DEF OwnInv
<1>6. CASE RegisterFails
  <2>1. stamp'["loop"] = NoRun /\ stamp'["handler"] = stamp["handler"]
    BY <1>6 DEF RegisterFails, Process
  <2> QED BY <1>6, <2>1, OwnFrame DEF RegisterFails, Process
<1>7. CASE LoopStep
  <2>1. /\ UNCHANGED <<saved, snap, run, opened, stamp>> /\ work'.started_at = work.started_at
        /\ pc = "loop" /\ pc' \in {"loop", "flush", "final"} /\ work' # NoState
    <3>1. UNCHANGED <<saved, snap, run>> /\ work'.started_at = work.started_at
      BY <1>7, LoopWork
    <3>2. work' # NoState
      BY <1>7, SentinelAssumption DEF TypeInv, TypeOK
    <3> QED BY <1>7, <3>1, <3>2
          DEF LoopStep, SkipCompleted, FetchPage, FetchFails, LeaveLoop, WindowCompleted,
              CompleteWindow, InLoop
  <2>2. /\ mine \subseteq work.done /\ IsFiniteSet(mine) /\ IsFiniteSet(work.done)
        /\ Cardinality(mine) \in Nat /\ Cardinality(work.done) \in Nat
        /\ Cardinality(work.done) =
             Cardinality(mine) + (IF work.started_at = run THEN 0 ELSE opened)
    <3>1. mine \subseteq Windows /\ work.done \subseteq Windows
      BY DEF TypeInv, TypeOK, Progress
    <3> QED BY <2>1, <3>1, WindowsAssumption, FS_Subset, FS_CardinalityType DEF OwnInv
  <2>3. CASE work'.done = work.done /\ mine' = mine
    <3>1. Before(work', run + 1)
      BY <2>1, <1>d DEF Before
    <3> QED BY <2>1, <2>2, <2>3, <3>1 DEF OwnInv
  <2>4. CASE /\ work'.done = work.done \union {Head(work.pending)}
             /\ mine' = mine \union {Head(work.pending)} /\ Head(work.pending) \notin work.done
    <3>1. /\ Cardinality(work'.done) = Cardinality(work.done) + 1
          /\ Cardinality(mine') = Cardinality(mine) + 1
      <4>1. Head(work.pending) \notin mine
        BY <2>2, <2>4
      <4>2. Cardinality(mine \union {Head(work.pending)}) = Cardinality(mine) + 1
        BY <2>2, <4>1, FS_AddElement
      <4>3. Cardinality(work.done \union {Head(work.pending)}) = Cardinality(work.done) + 1
        BY <2>2, <2>4, FS_AddElement
      <4> QED BY <2>4, <4>2, <4>3
    <3>2. Cardinality(work'.done) =
            Cardinality(mine') + (IF work'.started_at = run THEN 0 ELSE opened)
      BY <2>1, <2>2, <3>1
    <3>3. Before(work', run + 1) /\ mine' \subseteq work'.done
      BY <2>1, <2>2, <2>4, <1>d DEF Before
    <3> QED BY <2>1, <3>2, <3>3 DEF OwnInv
  <2>5. \/ work'.done = work.done /\ mine' = mine
        \/ /\ work'.done = work.done \union {Head(work.pending)}
           /\ mine' = mine \union {Head(work.pending)} /\ Head(work.pending) \notin work.done
    <3>1. CASE SkipCompleted
      BY <3>1 DEF SkipCompleted, Progress
    <3>2. CASE FetchPage
      BY <3>2 DEF FetchPage, CompleteWindow, Progress
    <3>3. CASE FetchFails
      BY <3>3 DEF FetchFails, Progress
    <3>4. CASE LeaveLoop
      BY <3>4 DEF LeaveLoop
    <3> QED BY <1>7, <3>1, <3>2, <3>3, <3>4 DEF LoopStep
  <2> QED BY <2>3, <2>4, <2>5
<1>8. CASE BeginWrite \/ WriteRepo
  <2>1. /\ UNCHANGED <<work, opened, mine, run, saved, stamp, pc, turns>> /\ snap' \in {snap, work}
    BY <1>8 DEF BeginWrite, WriteRepo
  <2> QED BY <2>1, OwnFrame DEF OwnInv
<1>9. CASE WriteRepoFails \/ WriteStateFails
  <2>1. /\ UNCHANGED <<work, opened, mine, run, saved, stamp>> /\ snap' \in {snap, NoWork}
        /\ turns # <<>> /\ Reject
    BY <1>9 DEF WriteRepoFails, WriteStateFails, TypeInv, ChainOK
  <2>2. pc' \notin {"down", "wipe", "open", "register"} /\ Before(NoWork, run + 1)
    BY <2>1, WriterRuns DEF Reject, Before, NoWork
  <2> QED BY <2>1, <2>2, OwnFrame DEF OwnInv
<1>10. CASE WriteState
  <2>1. /\ UNCHANGED <<work, opened, mine, run>> /\ snap' = NoWork /\ saved' = snap
        /\ turns # <<>> /\ Resolve /\ write # "idle"
    BY <1>10 DEF WriteState, TypeInv, ChainOK
  <2>2. Before(NoWork, run + 1)
    BY DEF Before, NoWork
  <2>3. \A o : (work.started_at = run => opened = 0) => RunDoc(o).windows_completed = RunDoc(o).own
    BY <2>1, OwnReport
  <2>4. pc' \notin {"down", "wipe", "open", "register"}
    BY <2>1, WriterRuns, Returned DEF Resolve
  <2>5. \A p \in Process :
          \/ stamp'[p] = stamp[p]
          \/ stamp'[p] \in {RunDoc("interrupted"), RunDoc(Outcome)}
    BY <2>1 DEF Resolve, Process
  <2>6. /\ (work.started_at = run => opened = 0) =>
             RunDoc("interrupted").windows_completed = RunDoc("interrupted").own
        /\ (work.started_at = run => opened = 0) =>
             RunDoc(Outcome).windows_completed = RunDoc(Outcome).own
    BY <2>3
  <2> QED BY <2>1, <2>2, <2>4, <2>5, <2>6, OwnFrame DEF OwnInv
<1>11. CASE FinishRun \/ FinishRunFails \/ Interrupt \/ InterruptFails
  <2>1. /\ UNCHANGED <<work, opened, mine, run, saved, snap, turns>>
        /\ \A p \in Process : stamp'[p] \in {stamp[p], NoRun}
    BY <1>11 DEF FinishRun, FinishRunFails, Interrupt, InterruptFails, Process
  <2> QED BY <1>11, <2>1, OwnFrame DEF FinishRun, FinishRunFails, Interrupt, InterruptFails, OwnInv
<1>12. CASE Exit \/ Kill
  <2>1. /\ run' = run /\ saved' = saved /\ snap' = NoWork /\ work' = NoWork /\ mine' = {}
        /\ turns' = <<>> /\ pc' = "down" /\ \A p \in Process : stamp'[p] = NoRun
    BY <1>12 DEF Exit, Kill, Gone
  <2>2. Before(NoWork, run + 1)
    BY DEF Before, NoWork
  <2> QED BY <2>1, <2>2 DEF OwnInv
<1>13. CASE Signal
  BY <1>13, OwnFrame DEF Signal, OwnInv
<1>14. CASE Push \/ UNCHANGED vars
  BY <1>14, OwnFrame DEF Push, vars, OwnInv
<1> QED BY <1>1, <1>2, <1>3, <1>4, <1>5, <1>6, <1>7, <1>8, <1>9, <1>10, <1>11, <1>12, <1>13, <1>14
        DEF Next, OpenStep, FlushStep, EndStep

(* A run document counts the windows its own process completed, however    *)
(* many processes its sweep had before, unless it begins a new sweep over  *)
(* a finished one: store.ts, openedWith.                                   *)
THEOREM RunsCountTheirOwn == Spec => RunCountsOwnWindows
<1> DEFINE Step == /\ Running /\ history'[run] # history[run]
                   /\ work.started_at = run => opened = 0
                   => history'[run].windows_completed = history'[run].own
<1>1. Init => TypeInv /\ StampInv /\ OwnInv
  <2>1. Init => OwnInv
    <3>1. Init => run = 0 /\ work = NoWork /\ snap = NoWork
      BY DEF Init
    <3> QED BY <3>1 DEF Init, OwnInv, Before, NoWork, Sweeping
  <2> QED BY <2>1, TypeInit DEF Init, StampInv, Running
<1>2. TypeInv /\ StampInv /\ OwnInv /\ [Next]_vars => [Step]_history
  <2> SUFFICES ASSUME TypeInv, StampInv, OwnInv, [Next]_vars, Running,
                      history'[run] # history[run], work.started_at = run => opened = 0
               PROVE  history'[run].windows_completed = history'[run].own
    OBVIOUS
  <2>1. run \in 1..MaxRuns /\ history \in [1..MaxRuns -> RunDocs \union {NoRun}]
    BY BoundsAssumption DEF TypeInv, TypeOK, ProcessOK
  <2>2. \E p \in Process : stamp[p] # NoRun /\ history'[run] = stamp[p]
    <3>1. CASE Register
      BY <2>1, <3>1 DEF Register, StampInv, Process
    <3>2. CASE FinishRun
      BY <2>1, <3>2 DEF FinishRun, StampInv, Stamped, Process
    <3>3. CASE Interrupt
      BY <2>1, <3>3 DEF Interrupt, StampInv, Stamped, Process
    <3>4. CASE Start \/ RemoveRepo \/ RemoveState \/ Open \/ RegisterFails
      BY <3>4 DEF Start, RemoveRepo, RemoveState, Open, RegisterFails, store
    <3>5. CASE LoopStep
      BY <3>5 DEF LoopStep, SkipCompleted, FetchPage, FetchFails, LeaveLoop, store
    <3>6. CASE FlushStep
      BY <3>6 DEF FlushStep, BeginWrite, WriteRepo, WriteRepoFails, WriteState, WriteStateFails,
                  store
    <3>7. CASE FinishRunFails \/ InterruptFails \/ Exit \/ Signal \/ Kill \/ Push \/ UNCHANGED vars
      BY <3>7 DEF FinishRunFails, InterruptFails, Exit, Signal, Kill, Push, vars, store
    <3> QED BY <3>1, <3>2, <3>3, <3>4, <3>5, <3>6, <3>7 DEF Next, OpenStep, EndStep
  <2> QED BY <2>2 DEF OwnInv
<1>3. Spec => [](TypeInv /\ StampInv /\ OwnInv)
  BY <1>1, TypeStep, StampStep, OwnStep, PTL DEF Spec
<1>4. Spec => [][Step]_history
  BY <1>2, <1>3, PTL DEF Spec
<1> QED BY <1>4 DEF RunCountsOwnWindows


-----------------------------------------------------------------------------
(* What the ledger promises, and what a run stamped 'complete' has done.   *)

Listed(s) == Range(s.pending) \union s.done \union s.failed

(* A progress record is of windows inside those of the query.              *)
Scoped(s) == \A w \in Listed(s) : Matches[w] \subseteq InScope

(* How a progress record relates to an earlier one: of a later sweep, or   *)
(* of the same one and owing no more.                                      *)
Advances(s, t) ==
  /\ s.started_at <= t.started_at
  /\ s.started_at = t.started_at => Owed(t) \subseteq Owed(s)

(* The loop waits while its flush is under way, so the state document is   *)
(* its progress; that advances from what is durable; and the ending is     *)
(* decided by the progress that has just become durable.                   *)
LedgerInv ==
  /\ Scoped(work)
  /\ saved # NoState => Scoped(saved) /\ saved.started_at # 0
  /\ Sweeping => work.started_at # 0
  /\ write = "state" => snap = work
  /\ saved # NoState /\ (pc = "register" \/ Sweeping) => Advances(saved, work)
  /\ pc = "finish" =>
       saved = work /\ (stamp["loop"].outcome = "complete" => work.failed = {})

(* A repository a progress record does not owe was in a window served      *)
(* whole.                                                                  *)
LEMMA OwedOrCaptured ==
  ASSUME NEW s \in Progress, Traced(s), NEW k, Captured(s, k), NEW r \in InScope \ Owed(s)
  PROVE  k[r] >= asOf[s.started_at][r]
<1>1. PICK u \in Accounts(s) : r \in Matches[u]
  BY DEF Traced, Covered
<1>2. u \notin Live(s) /\ u \in s.done /\ ~Splits(u) /\ ~Truncated(u)
  BY <1>1 DEF Owed, Accounts
<1>3. u \in Windows \ Crowded
  BY <1>1, <1>2, AccountsType DEF Splits, Kids, Truncated
<1>4. r \in Fetched(u)
  BY <1>1, <1>3, CoverAssumption
<1> QED BY <1>2, <1>4 DEF Captured

(* Every repository of the query is one of its repositories.               *)
LEMMA ScopeType == InScope \subseteq Repos
<1>1. Range(Roots) \subseteq Windows
  BY WindowsAssumption, RangeOfSeq
<1> QED BY <1>1, WindowsAssumption DEF InScope

(* The loop owes no more than it did, and stays inside the query.          *)
LEMMA LoopAdvances ==
  ASSUME TypeInv, LoopStep
  PROVE  Owed(work') \subseteq Owed(work) /\ (Scoped(work) => Scoped(work'))
<1> USE DEF TypeInv, TypeOK, InLoop
<1>1. CASE work' = work
  BY <1>1
<1> DEFINE w == Head(work.pending)
<1>a. ASSUME work.pending # <<>>
      PROVE  /\ w \in Windows /\ work.pending \in Seq(Windows) /\ Kids(w) \in Seq(Windows)
             /\ w \in Range(work.pending) /\ Range(Tail(work.pending)) \subseteq Range(work.pending)
             /\ Range(Tail(work.pending \o Kids(w))) \subseteq
                  Range(work.pending) \union Range(Kids(w))
  <2>1. work.pending \in Seq(Windows) /\ w \in Windows
    BY <1>a, QueueType DEF Progress
  <2>2. Kids(w) \in Seq(Windows)
    BY <2>1, KidsType
  <2>3. w \in Range(work.pending)
    <3>1. Len(work.pending) \in Nat /\ Len(work.pending) > 0 /\ w = work.pending[1]
      BY <1>a, <2>1
    <3> QED BY <2>1, <3>1, RangeEquality
  <2> QED BY <1>a, <2>1, <2>2, <2>3, QueueRange
<1> HIDE DEF w
<1>2. CASE SkipCompleted
  <2>1. /\ work.pending # <<>> /\ work'.pending = Tail(work.pending)
        /\ work'.done = work.done /\ work'.failed = work.failed
    BY <1>2 DEF SkipCompleted, Progress
  <2> QED BY <1>a, <2>1 DEF Owed, Live, Scoped, Listed
<1>3. CASE FetchFails
  <2>1. /\ work.pending # <<>> /\ work'.pending = Tail(work.pending)
        /\ work'.done = work.done /\ work'.failed = work.failed \union {w} /\ w \notin work.done
    BY <1>3 DEF FetchFails, Progress, w
  <2>2. Live(work') \subseteq Live(work) /\ Listed(work') \subseteq Listed(work)
    BY <1>a, <2>1 DEF Live, Listed
  <2> QED BY <2>1, <2>2 DEF Owed, Scoped
<1>4. CASE FetchPage /\ CompleteWindow(w)
  <2>1. /\ work.pending # <<>> /\ work'.pending = Tail(work.pending \o Kids(w))
        /\ work'.done = work.done \union {w} /\ work'.failed = work.failed /\ w \notin work.done
    BY <1>4 DEF FetchPage, CompleteWindow, Progress, w
  <2>2. \A k \in Range(Kids(w)) : Matches[k] \subseteq Matches[w]
    BY <1>a, <2>1, CoverAssumption
  <2>3. w \in Live(work) /\ w \in Listed(work)
    BY <1>a, <2>1 DEF Live, Listed
  <2>4. Live(work') \subseteq Live(work) \union Range(Kids(w))
        /\ Listed(work') \subseteq Listed(work) \union Range(Kids(w))
    BY <1>a, <2>1, <2>3 DEF Live, Listed
  <2>5. Owed(work') \subseteq Owed(work)
    BY <2>1, <2>2, <2>3, <2>4 DEF Owed
  <2>6. Scoped(work) => Scoped(work')
    BY <2>2, <2>3, <2>4 DEF Scoped
  <2> QED BY <2>5, <2>6
<1>5. CASE LeaveLoop
  BY <1>1, <1>5 DEF LeaveLoop, memory
<1> QED BY <1>1, <1>2, <1>3, <1>4, <1>5 DEF LoopStep, FetchPage, w

(* An empty queue lists nothing.                                           *)
LEMMA EmptyQueue == Range(<<>>) = {}
<1>1. ASSUME NEW q \in Seq(Windows), Len(q) = 0 PROVE Range(q) = {}
  <2>1. Range(q) = {q[i] : i \in 1..Len(q)}
    BY RangeEquality
  <2>2. 1..Len(q) = {}
    BY <1>1
  <2> QED BY <2>1, <2>2
<1>2. <<>> \in Seq(Windows) /\ Len(<<>>) = 0
  OBVIOUS
<1> QED BY <1>1, <1>2

(* A step that leaves the progress, the resume point and the endings alone *)
(* and enters no phase of the sweep from outside it.                       *)
LEMMA LedgerFrame ==
  ASSUME LedgerInv, UNCHANGED <<work, saved, stamp>>,
         Sweeping' => Sweeping, pc' \in {"register", "finish"} => pc' = pc,
         write' = "state" => snap' = work
  PROVE  LedgerInv'
<1>1. /\ Scoped(work) /\ (saved # NoState => Scoped(saved) /\ saved.started_at # 0)
      /\ (Sweeping' => work.started_at # 0)
      /\ (saved # NoState /\ (pc' = "register" \/ Sweeping') => Advances(saved, work))
  BY DEF LedgerInv
<1>2. pc' = "finish" =>
        saved = work /\ (stamp["loop"].outcome = "complete" => work.failed = {})
  BY DEF LedgerInv
<1>3. /\ (saved' # NoState => Scoped(saved')) /\ Scoped(work')
      /\ (saved' # NoState /\ Advances(saved, work) => Advances(saved', work'))
  BY <1>1
<1> QED BY <1>1, <1>2, <1>3 DEF LedgerInv

(* Every step keeps the progress of the sweep ahead of its resume point.   *)
LEMMA LedgerStep ==
  ASSUME TypeInv, TypeInv', QuietInv, QuietInv', OwnInv, ClockInv, LedgerInv, [Next]_vars
  PROVE  LedgerInv'
<1>a. /\ run \in Nat /\ work \in Progress /\ (saved # NoState => saved \in Progress)
      /\ NoWork \in Progress /\ NoWork # NoState /\ work # NoState
      /\ stamp \in [Process -> RunDocs \union {NoRun}]
  BY BoundsAssumption, SentinelAssumption, NoWorkType DEF TypeInv, TypeOK
<1>b. ASSUME NEW s \in Progress PROVE Advances(s, s)
  BY DEF Advances, Progress
<1>c. Scoped(NoWork)
  BY EmptyQueue DEF Scoped, Listed, NoWork
<1>d. Sweeping <=> pc \in {"loop", "flush", "final", "rescue", "finish"}
  BY DEF Sweeping
<1>e. Sweeping' <=> pc' \in {"loop", "flush", "final", "rescue", "finish"}
  BY DEF Sweeping
<1> USE <1>a, <1>d, <1>e DEF store, memory, flusher, world
<1>1. CASE Start \/ RegisterFails
  BY <1>1, LedgerFrame DEF Start, RegisterFails, TypeInv, ProcessOK, LedgerInv
<1>2. CASE RemoveRepo \/ RemoveState
  BY <1>2 DEF RemoveRepo, RemoveState, QuietInv
<1>3. CASE Open
  <2>1. stamp'["loop"] = [outcome |-> "running", windows_completed |-> 0, own |-> 0]
    BY <1>3 DEF Open, Process
  <2>2. work' = IF saved = NoState THEN NoWork ELSE saved
    BY <1>3 DEF Open
  <2>3. /\ pc' = "register" /\ saved' = saved /\ write' = write /\ snap' = snap
        /\ write = "idle"
    BY <1>3, WriterRuns DEF Open, TypeInv, ChainOK
  <2> QED BY <1>b, <1>c, <2>1, <2>2, <2>3 DEF LedgerInv
<1>4. CASE Register
  <2>1. /\ pc' = "loop" /\ saved' = saved /\ write' = write /\ write = "idle"
        /\ pc = "register" /\ run # 0
    BY <1>4, WriterRuns DEF Register, TypeInv, ChainOK, ProcessOK, Running
  <2>2. CASE work.pending # <<>>
    <3>1. work' = work /\ work.started_at # 0
      BY <1>4, <2>2 DEF Register, ClockInv, Dated
    <3> QED BY <2>1, <3>1 DEF LedgerInv
  <2>3. CASE work.pending = <<>>
    <3>1. /\ work'.pending = Roots /\ work'.done = {} /\ work'.failed = {}
          /\ work'.started_at = run
      BY <1>4, <2>3 DEF Register
    <3>2. Scoped(work')
      BY <3>1 DEF Scoped, Listed, InScope
    <3>3. ASSUME saved # NoState PROVE Advances(saved, work')
      <4>1. saved.started_at <= work.started_at /\ work.started_at < run
        BY <2>1, <3>3 DEF LedgerInv, Advances, OwnInv, Before
      <4>2. saved.started_at < run
        BY <3>3, <4>1 DEF Progress
      <4> QED BY <3>1, <3>3, <4>2 DEF Advances, Progress
    <3> QED BY <2>1, <3>1, <3>2, <3>3 DEF LedgerInv
  <2> QED BY <2>2, <2>3
<1>5. CASE LoopStep
  <2>1. /\ UNCHANGED <<saved, stamp, write>> /\ work'.started_at = work.started_at
        /\ pc = "loop" /\ pc' \in {"loop", "flush", "final"}
    <3>1. saved' = saved /\ work'.started_at = work.started_at /\ write' = write
      BY <1>5, LoopWork
    <3> QED BY <1>5, <3>1
          DEF LoopStep, SkipCompleted, FetchPage, FetchFails, LeaveLoop, WindowCompleted,
              CompleteWindow, InLoop
  <2>2. write # "state"
    BY <2>1, QuietChain DEF TypeInv, ChainOK
  <2>3. Owed(work') \subseteq Owed(work) /\ Scoped(work')
    BY <1>5, LoopAdvances DEF LedgerInv
  <2>4. ASSUME saved # NoState PROVE Advances(saved, work')
    BY <2>1, <2>3, <2>4 DEF LedgerInv, Advances
  <2> QED BY <2>1, <2>2, <2>3, <2>4 DEF LedgerInv
<1>6. CASE BeginWrite \/ WriteRepo
  BY <1>6, LedgerFrame DEF BeginWrite, WriteRepo, LedgerInv
<1>7. CASE WriteRepoFails \/ WriteStateFails
  <2>1. UNCHANGED <<work, saved, stamp>> /\ write # "idle" /\ write' = "idle" /\ Reject
    BY <1>7 DEF WriteRepoFails, WriteStateFails
  <2>2. pc \in {"flush", "final", "rescue"} /\ pc' \in {"rescue", "ended"}
    BY <2>1, QuietChain DEF TypeInv, ChainOK, Reject
  <2> QED BY <2>1, <2>2, LedgerFrame
<1>8. CASE WriteState
  <2>1. /\ saved' = snap /\ work' = work /\ write' = "idle" /\ write = "state" /\ Resolve
        /\ snap = work /\ UNCHANGED <<mine, opened>>
    BY <1>8 DEF WriteState, LedgerInv
  <2>2. Head(turns) = "loop" /\ pc \in {"flush", "final", "rescue"}
    BY <2>1, QuietChain DEF TypeInv, ChainOK
  <2>3. /\ pc' \in {"loop", "finish", "ended"}
        /\ pc' = "finish" => stamp' = [stamp EXCEPT !["loop"] = RunDoc(Outcome)]
    BY <2>1, <2>2 DEF Resolve
  <2>4. pc' = "finish" => (stamp'["loop"].outcome = "complete" => work.failed = {})
    BY <2>3 DEF Process, RunDoc, Outcome
  <2>5. Advances(saved', work') /\ Scoped(work) /\ work.started_at # 0
    BY <1>b, <2>1, <2>2 DEF LedgerInv
  <2>6. saved' = work
    BY <2>1
  <2> QED BY <2>1, <2>2, <2>3, <2>4, <2>5, <2>6 DEF LedgerInv
<1>9. CASE FinishRun \/ FinishRunFails
  <2>1. pc = "finish" /\ pc' = "ended" /\ UNCHANGED <<work, saved, write, snap>>
    BY <1>9 DEF FinishRun, FinishRunFails
  <2> QED BY <2>1 DEF LedgerInv
<1>10. CASE Interrupt \/ InterruptFails \/ Signal
  <2>1. UNCHANGED <<work, saved, write, snap, pc>> /\ stamp'["loop"] = stamp["loop"]
    BY <1>10 DEF Interrupt, InterruptFails, Signal, Process
  <2> QED BY <2>1 DEF LedgerInv
<1>11. CASE Exit \/ Kill
  <2>1. pc' = "down" /\ saved' = saved /\ work' = NoWork /\ write' = "idle"
    BY <1>11 DEF Exit, Kill, Gone
  <2> QED BY <1>c, <2>1 DEF LedgerInv
<1>12. CASE Push \/ UNCHANGED vars
  BY <1>12, LedgerFrame DEF Push, vars, LedgerInv
<1> QED BY <1>1, <1>2, <1>3, <1>4, <1>5, <1>6, <1>7, <1>8, <1>9, <1>10, <1>11, <1>12
        DEF Next, OpenStep, FlushStep, EndStep

QuietInvs == CorpusInv /\ WindowInv /\ StampInv /\ OwnInv /\ LedgerInv

(* All the invariants hold together.                                       *)
LEMMA QuietHold == ASSUME Quiet PROVE Spec => []QuietInvs
<1>1. Init => QuietInvs
  <2>1. Init => OwnInv
    <3>1. Init => run = 0 /\ work = NoWork /\ snap = NoWork
      BY DEF Init
    <3> QED BY <3>1 DEF Init, OwnInv, Before, NoWork, Sweeping
  <2>2. Init => LedgerInv
    BY EmptyQueue DEF Init, LedgerInv, Scoped, Listed, NoWork, Sweeping
  <2> QED BY <2>1, <2>2, CorpusInit, TypeInit
          DEF QuietInvs, Init, WindowInv, StampInv, Sweeping, Running
<1>2. QuietInvs /\ [Next]_vars => QuietInvs'
  <2>1. CorpusInv /\ [Next]_vars => CorpusInv'
    BY TypeStep, EarlyStep, QuietStep, ClockStep, RecordStep, PageStep, CaptureStep DEF CorpusInv
  <2>2. CorpusInv /\ CorpusInv' /\ OwnInv /\ LedgerInv /\ [Next]_vars => LedgerInv'
    BY LedgerStep DEF CorpusInv
  <2>3. CorpusInv => TypeInv
    BY DEF CorpusInv
  <2> QED BY <2>1, <2>2, <2>3, WindowStep, StampStep, OwnStep DEF QuietInvs
<1> QED BY <1>1, <1>2, PTL DEF Spec


(* The only ending written as 'complete' is that of the loop's finishRun.  *)
LEMMA CompletesAtFinish ==
  ASSUME TypeInv, StampInv, [Next]_vars, Completes
  PROVE  pc = "finish" /\ stamp["loop"].outcome = "complete"
<1> USE DEF store
<1>1. run \in 1..MaxRuns /\ history \in [1..MaxRuns -> RunDocs \union {NoRun}]
  BY BoundsAssumption DEF TypeInv, TypeOK, ProcessOK, Completes
<1>2. CASE Register
  <2>1. history'[run].outcome = "running"
    BY <1>1, <1>2 DEF Register, StampInv
  <2> QED BY <2>1 DEF Completes
<1>3. CASE FinishRun
  BY <1>1, <1>3 DEF FinishRun, Completes
<1>4. CASE Start \/ RemoveRepo \/ RemoveState \/ Open \/ RegisterFails
  BY <1>4 DEF Start, RemoveRepo, RemoveState, Open, RegisterFails, Completes
<1>5. CASE LoopStep
  BY <1>5 DEF LoopStep, SkipCompleted, FetchPage, FetchFails, LeaveLoop, Completes
<1>6. CASE FlushStep
  BY <1>6 DEF FlushStep, BeginWrite, WriteRepo, WriteRepoFails, WriteState, WriteStateFails,
              Completes
<1>7. CASE FinishRunFails \/ InterruptFails \/ Exit \/ Signal \/ Kill \/ Push \/ UNCHANGED vars
  BY <1>7 DEF FinishRunFails, InterruptFails, Exit, Signal, Kill, Push, vars, Completes
<1>8. CASE Interrupt
  <2>1. history'[run].outcome = "interrupted"
    BY <1>1, <1>8 DEF Interrupt, StampInv
  <2> QED BY <2>1 DEF Completes
<1> QED BY <1>2, <1>3, <1>4, <1>5, <1>6, <1>7, <1>8 DEF Next, OpenStep, EndStep

(* A run stamped 'complete' with nothing pending ends a sweep in which no  *)
(* window failed, however often it was killed and resumed, and whose       *)
(* corpus holds all that GitHub would serve: index.ts, finishRun.          *)
THEOREM CompletionIsHonest == ASSUME Quiet PROVE Spec => CompleteMeansCaptured
<1> DEFINE Step == Completes /\ work.pending = <<>> =>
                     /\ work.failed = {}
                     /\ \A r \in InScope \ Owed(work) : corpus[r] >= asOf[work.started_at][r]
<1>1. QuietInvs /\ [Next]_vars => [Step]_history
  <2> SUFFICES ASSUME QuietInvs, [Next]_vars, Completes
               PROVE  /\ work.failed = {}
                      /\ \A r \in InScope \ Owed(work) :
                           corpus[r] >= asOf[work.started_at][r]
    OBVIOUS
  <2>1. pc = "finish" /\ stamp["loop"].outcome = "complete"
    BY CompletesAtFinish DEF QuietInvs, CorpusInv
  <2>2. saved = work /\ work.failed = {} /\ work \in Progress /\ work # NoState
    BY <2>1, SentinelAssumption DEF QuietInvs, LedgerInv, CorpusInv, TypeInv, TypeOK
  <2>3. Traced(work) /\ Captured(work, corpus)
    BY <2>2 DEF QuietInvs, CorpusInv, WindowInv, CaptureInv
  <2> QED BY <2>2, <2>3, OwedOrCaptured
<1>2. Spec => [][Step]_history
  BY <1>1, QuietHold, PTL DEF Spec
<1> QED BY <1>2 DEF CompleteMeansCaptured

-----------------------------------------------------------------------------
(* The two collections keep the ledger.                                    *)

(* The clock of a sweep keeps its reading.                                 *)
LEMMA ClockKept ==
  ASSUME TypeInv, [Next]_vars, NEW i \in 1..run
  PROVE  asOf'[i] = asOf[i]
<1>1. run \in 0..MaxRuns /\ MaxRuns \in Nat /\ i \in 1..MaxRuns
  BY BoundsAssumption DEF TypeInv, TypeOK
<1>2. CASE Start
  BY <1>1, <1>2 DEF Start, TypeInv, TypeOK
<1> QED BY <1>2, ClockFrame

(* Whether a step lands a document, commits a resume point, or does        *)
(* neither.                                                                *)
LEMMA StoreFrame ==
  ASSUME QuietInv, TypeInv, [Next]_vars
  PROVE  WriteRepo \/ WriteState \/ (corpus' = corpus /\ saved' = saved)
<1> USE DEF store
<1>1. CASE OpenStep
  BY <1>1 DEF OpenStep, RemoveRepo, RemoveState, Open, Register, RegisterFails, QuietInv
<1>2. CASE LoopStep
  BY <1>2, LoopWork
<1>3. CASE BeginWrite \/ WriteRepoFails \/ WriteStateFails
  BY <1>3 DEF BeginWrite, WriteRepoFails, WriteStateFails
<1>4. CASE EndStep
  BY <1>4 DEF EndStep, FinishRun, FinishRunFails, Interrupt, InterruptFails, Exit
<1>5. CASE Start \/ Signal \/ Kill \/ Push \/ UNCHANGED vars
  BY <1>5 DEF Start, Signal, Kill, Push, vars
<1> QED BY <1>1, <1>2, <1>3, <1>4, <1>5 DEF Next, FlushStep

(* Each step of the sweep is a step of the ledger, or none.                *)
LEMMA LedgerRefines ==
  ASSUME QuietInvs, TypeInv', [Next]_vars
  PROVE  [Ledger!Next]_(Ledger!vars)
<1> USE DEF QuietInvs, CorpusInv
<1>1. /\ run \in 0..MaxRuns /\ MaxRuns \in Nat /\ snap \in Progress
      /\ (saved # NoState => saved \in Progress) /\ \A s \in Progress : s # NoState
      /\ corpus \in [Repos -> Int] /\ corpus' \in [Repos -> Int]
      /\ \A i \in 1..MaxRuns : asOf[i] \in [Repos -> Nat]
  BY BoundsAssumption, SentinelAssumption DEF TypeInv, TypeOK
<1>2. ASSUME saved # NoState PROVE saved.started_at \in 1..run
  BY <1>1, <1>2 DEF ClockInv, Dated, LedgerInv
<1>3. saved # NoState => asOf'[saved.started_at] = asOf[saved.started_at]
  BY <1>2, ClockKept
<1>4. CASE corpus' = corpus /\ saved' = saved
  <2>1. saved # NoState => Owed(saved') = Owed(saved)
    BY <1>4
  <2> QED BY <1>3, <1>4, <2>1 DEF Ledger!vars
<1>5. CASE WriteRepo
  <2>1. PICK d \in unwritten : /\ corpus' = [corpus EXCEPT ![d[1]] = d[2]]
                               /\ unwritten' = unwritten \ {d}
    BY <1>5 DEF WriteRepo
  <2>2. UNCHANGED <<known, seen, buffer, batch, run, asOf, saved>>
    BY <1>5 DEF WriteRepo, memory, world
  <2>3. \A r \in Repos : corpus'[r] >= corpus[r]
    BY <2>1, <2>2, Landed
  <2>4. d[1] \in Repos
    BY <2>1 DEF TypeInv, TypeOK, Docs
  <2>5. corpus'[d[1]] >= corpus[d[1]] /\ corpus' = [corpus EXCEPT ![d[1]] = corpus'[d[1]]]
    BY <1>1, <2>1, <2>3, <2>4
  <2>6. saved # NoState => Owed(saved') = Owed(saved)
    BY <2>2
  <2>7. Ledger!Capture
    BY <2>2, <2>4, <2>5, <2>6 DEF Ledger!Capture
  <2> QED BY <2>7 DEF Ledger!Next
<1>6. CASE WriteState
  <2>1. /\ saved' = snap /\ corpus' = corpus /\ asOf' = asOf /\ snap = work /\ write = "state"
        /\ saved' # NoState /\ work \in Progress
    BY <1>1, <1>6 DEF WriteState, LedgerInv, world
  <2>2. Traced(snap) /\ Captured(snap, corpus)
    BY <2>1 DEF WindowInv, CaptureInv
  <2>3. pc \in {"flush", "final", "rescue"}
    BY <2>1, QuietChain DEF TypeInv, ChainOK
  <2>4. Sweeping /\ work.started_at # 0 /\ Scoped(work)
    BY <2>3 DEF LedgerInv, Sweeping
  <2>5. work.started_at \in 1..run
    BY <1>1, <2>4 DEF ClockInv, Dated
  <2>6. Owed(snap) \subseteq InScope
    BY <2>1, <2>4 DEF Owed, Live, Scoped, Listed
  <2>7. \A r \in InScope \ Owed(snap) : corpus[r] >= asOf[snap.started_at][r]
    BY <1>1, <2>2, OwedOrCaptured
  <2>8. CASE saved = NoState
    <3>1. \A r \in Repos : asOf[snap.started_at][r] >= 0
      BY <1>1, <2>1, <2>5
    <3>2. snap.started_at > 0
      BY <2>1, <2>5
    <3>3. Ledger!Commit
      BY <2>1, <2>6, <2>7, <2>8, <3>1, <3>2 DEF Ledger!Commit
    <3> QED BY <3>3 DEF Ledger!Next
  <2>9. CASE saved # NoState
    <3>1. Advances(saved, snap) /\ saved.started_at \in 1..run
      BY <1>2, <2>1, <2>4, <2>9 DEF LedgerInv
    <3>2. CASE saved.started_at = snap.started_at
      <4>1. Owed(snap) \subseteq Owed(saved)
        BY <3>1, <3>2 DEF Advances
      <4>2. Ledger!Commit
        BY <2>1, <2>6, <2>7, <2>9, <3>2, <4>1 DEF Ledger!Commit
      <4> QED BY <4>2 DEF Ledger!Next
    <3>3. CASE saved.started_at # snap.started_at
      <4>1. snap.started_at > saved.started_at
        <5>1. saved.started_at <= snap.started_at
          BY <3>1 DEF Advances
        <5>2. saved.started_at \in 1..run /\ snap.started_at \in 1..run /\ run \in Int
          BY <1>1, <2>1, <2>5, <3>1
        <5> QED BY <3>3, <5>1, <5>2
      <4>2. \A r \in Repos : asOf[snap.started_at][r] >= asOf[saved.started_at][r]
        <5>1. ASSUME NEW r \in Repos
              PROVE  /\ asOf[saved.started_at][r] <= asOf[snap.started_at][r]
                     /\ asOf[saved.started_at][r] \in Nat /\ asOf[snap.started_at][r] \in Nat
          <6>1. saved.started_at \in 1..MaxRuns /\ snap.started_at \in 1..MaxRuns
            BY <1>1, <2>1, <2>5, <3>1
          <6>2. saved.started_at \in 1..run /\ snap.started_at \in 1..run
            BY <2>1, <2>5, <3>1
          <6>3. saved.started_at <= snap.started_at
            BY <3>1 DEF Advances
          <6> QED BY <1>1, <6>1, <6>2, <6>3 DEF ClockInv
        <5> QED BY <5>1
      <4>3. Ledger!Commit
        BY <2>1, <2>6, <2>7, <2>9, <4>1, <4>2 DEF Ledger!Commit
      <4> QED BY <4>3 DEF Ledger!Next
    <3> QED BY <3>2, <3>3
  <2> QED BY <2>8, <2>9
<1> QED BY <1>4, <1>5, <1>6, StoreFrame

(* What outlives a process is a corpus and a list of what the sweep still  *)
(* owes it; wherever processes are killed and whichever request or write   *)
(* fails, a repository leaves the list only once the corpus holds it as    *)
(* recent as the sweep, and none comes back within a sweep: store.ts.      *)
THEOREM LedgerIsKept == ASSUME Quiet PROVE Spec => KeepsLedger
<1>1. Init => Ledger!Init
  BY DEF Init, Ledger!Init
<1>2. QuietInvs /\ [Next]_vars => [Ledger!Next]_(Ledger!vars)
  BY LedgerRefines, TypeStep DEF QuietInvs, CorpusInv
<1>3. Spec => [][Ledger!Next]_(Ledger!vars)
  BY <1>2, QuietHold, PTL DEF Spec
<1> QED BY <1>1, <1>3, PTL DEF Spec, KeepsLedger, Ledger!Spec


-----------------------------------------------------------------------------
(* The next sweep heals, signals and --fresh included.  Then the state     *)
(* document may be ahead of the corpus, but a sweep that one process began *)
(* and ended has recorded all its windows served, and its last flush has   *)
(* left nothing in the buffer.                                             *)

FlushedInv ==
  /\ write # "idle" /\ Head(turns) = "loop" => buffer = {}
  /\ pc = "finish" => buffer = {} /\ write # "corpus"

HealInv == work.started_at = run => Captured(work, known)

(* Every step keeps the buffer empty while the loop waits for its own      *)
(* flush, and after the last.                                              *)
LEMMA FlushedStep ==
  ASSUME TypeInv, FlushedInv, [Next]_vars PROVE FlushedInv'
<1> USE DEF store, memory, flusher, world
<1>1. CASE Start \/ OpenStep
  <2>1. UNCHANGED <<turns, write, buffer>> /\ pc' # "finish"
    BY <1>1 DEF Start, OpenStep, RemoveRepo, RemoveState, Open, Register, RegisterFails
  <2> QED BY <2>1 DEF FlushedInv
<1>2. CASE LoopStep
  <2>1. /\ write' = write /\ pc = "loop" /\ pc' # "finish"
        /\ turns' = turns \/ turns' = Append(turns, "loop")
    BY <1>2 DEF LoopStep, SkipCompleted, FetchPage, FetchFails, LeaveLoop, WindowCompleted,
                CompleteWindow, InLoop
  <2>2. ~LoopQueued /\ turns \in Chains
    BY <2>1 DEF TypeInv, TypeOK, ChainOK
  <2>3. turns = <<>> \/ turns = <<"handler">>
    BY <2>2 DEF Chains, LoopQueued
  <2>4. CASE turns = <<>>
    BY <2>1, <2>4 DEF TypeInv, ChainOK, FlushedInv
  <2>5. CASE turns = <<"handler">>
    <3>1. turns' \in {<<"handler">>, <<"handler", "loop">>}
      BY <2>1, <2>5, AppendPair
    <3> QED BY <2>1, <3>1 DEF FlushedInv
  <2> QED BY <2>3, <2>4, <2>5
<1>3. CASE BeginWrite
  BY <1>3 DEF BeginWrite, FlushedInv
<1>4. CASE WriteRepo
  BY <1>4 DEF WriteRepo, FlushedInv
<1>5. CASE WriteRepoFails \/ WriteStateFails
  <2>1. /\ write' = "idle" /\ Reject /\ write # "idle"
        /\ write = "corpus" \/ buffer' = buffer
    BY <1>5 DEF WriteRepoFails, WriteStateFails
  <2>2. pc' = "finish" => pc = "finish"
    BY <2>1 DEF Reject
  <2> QED BY <2>1, <2>2 DEF FlushedInv
<1>6. CASE WriteState
  <2>1. write' = "idle" /\ Resolve /\ write # "idle" /\ buffer' = buffer
    BY <1>6 DEF WriteState
  <2>2. Head(turns) \in Process
    BY <2>1, ChainHead DEF TypeInv, TypeOK, ChainOK
  <2>3. CASE Head(turns) = "handler"
    BY <2>1, <2>3 DEF Resolve, FlushedInv
  <2>4. CASE Head(turns) = "loop"
    BY <2>1, <2>4 DEF FlushedInv
  <2> QED BY <2>2, <2>3, <2>4 DEF Process
<1>7. CASE FinishRun \/ FinishRunFails \/ Interrupt \/ InterruptFails
  BY <1>7 DEF FinishRun, FinishRunFails, Interrupt, InterruptFails, FlushedInv
<1>8. CASE Exit \/ Kill
  BY <1>8 DEF Exit, Kill, Gone, FlushedInv
<1>9. CASE Signal
  <2>1. /\ turns' = Append(turns, "handler") /\ UNCHANGED <<pc, write, buffer>>
        /\ handler = "idle"
    BY <1>9 DEF Signal
  <2>2. ~HandlerQueued /\ turns \in Chains
    BY <2>1 DEF TypeInv, TypeOK, ChainOK
  <2>3. turns = <<>> \/ turns = <<"loop">>
    BY <2>2 DEF Chains, HandlerQueued
  <2>4. CASE turns = <<>>
    BY <2>1, <2>4 DEF TypeInv, ChainOK, FlushedInv
  <2>5. CASE turns = <<"loop">>
    <3>1. turns' = <<"loop", "handler">>
      BY <2>1, <2>5, AppendPair
    <3> QED BY <2>1, <2>5, <3>1 DEF FlushedInv
  <2> QED BY <2>3, <2>4, <2>5
<1>10. CASE Push \/ UNCHANGED vars
  BY <1>10 DEF Push, vars, FlushedInv
<1> QED BY <1>1, <1>2, <1>3, <1>4, <1>5, <1>6, <1>7, <1>8, <1>9, <1>10
        DEF Next, FlushStep, EndStep

(* Every step keeps what this run's own sweep has completed known.         *)
LEMMA HealStep ==
  ASSUME TypeInv, TypeInv', OwnInv, OwnInv', ClockInv, RecordInv, PageInv, HealInv, [Next]_vars
  PROVE  HealInv'
<1> USE DEF store, memory, flusher, world
<1>1. /\ run \in Nat /\ work \in Progress /\ work' \in Progress /\ work # NoState
      /\ work' # NoState
  BY SentinelAssumption DEF TypeInv, TypeOK
<1>2. CASE work'.done = {}
  BY <1>2 DEF HealInv, Captured
<1>3. CASE UNCHANGED <<work, known, run, asOf>>
  BY <1>3 DEF HealInv, Captured
<1>4. CASE Start
  <2>1. work.started_at < run + 1 /\ work' = work /\ run' = run + 1
    BY <1>1, <1>4 DEF Start, OwnInv, Before
  <2> QED BY <1>1, <2>1 DEF HealInv, Progress
<1>5. CASE Open
  <2>1. work'.started_at < run' /\ run' = run
    BY <1>1, <1>5 DEF Open, OwnInv, Before
  <2> QED BY <1>1, <2>1 DEF HealInv, Progress
<1>6. CASE Register
  BY <1>2, <1>3, <1>6 DEF Register
<1>7. CASE LoopStep
  <2>1. run' = run /\ work'.started_at = work.started_at
    BY <1>7, LoopWork
  <2> QED BY <1>7, <2>1, CaptureLoop DEF HealInv, Captured
<1>8. CASE RemoveRepo \/ RemoveState \/ RegisterFails \/ UNCHANGED vars
  BY <1>3, <1>8 DEF RemoveRepo, RemoveState, RegisterFails, vars
<1>9. CASE FlushStep
  BY <1>3, <1>9 DEF FlushStep, BeginWrite, WriteRepo, WriteRepoFails, WriteState, WriteStateFails
<1>10. CASE FinishRun \/ FinishRunFails \/ Interrupt \/ InterruptFails \/ Signal \/ Push
  BY <1>3, <1>10 DEF FinishRun, FinishRunFails, Interrupt, InterruptFails, Signal, Push
<1>11. CASE Exit \/ Kill
  BY <1>2, <1>11 DEF Exit, Kill, Gone, NoWork
<1> QED BY <1>4, <1>5, <1>6, <1>7, <1>8, <1>9, <1>10, <1>11 DEF Next, OpenStep, EndStep

SweepInvs ==
  /\ WindowInv /\ EarlyInv /\ ClockInv /\ RecordInv /\ PageInv
  /\ StampInv /\ OwnInv /\ FlushedInv /\ HealInv

(* These invariants hold, signals and --fresh included.                    *)
LEMMA SweepHold == Spec => []SweepInvs
<1>1. Init => SweepInvs
  <2>1. Init => OwnInv
    <3>1. Init => run = 0 /\ work = NoWork /\ snap = NoWork
      BY DEF Init
    <3> QED BY <3>1 DEF Init, OwnInv, Before, NoWork, Sweeping
  <2>2. Init => FlushedInv /\ HealInv /\ EarlyInv
    BY DEF Init, FlushedInv, HealInv, EarlyInv, Captured, NoWork
  <2> QED BY <2>1, <2>2, CorpusInit, TypeInit
          DEF SweepInvs, CorpusInv, Init, WindowInv, StampInv, Sweeping, Running
<1>2. SweepInvs /\ [Next]_vars => SweepInvs'
  <2> SUFFICES ASSUME SweepInvs, [Next]_vars PROVE SweepInvs'
    OBVIOUS
  <2>1. TypeInv /\ TypeInv'
    BY WindowStep DEF SweepInvs, WindowInv
  <2>2. WindowInv' /\ EarlyInv' /\ StampInv' /\ OwnInv' /\ FlushedInv'
    BY <2>1, WindowStep, EarlyStep, StampStep, OwnStep, FlushedStep DEF SweepInvs
  <2>3. ClockInv' /\ RecordInv' /\ PageInv'
    BY <2>1, <2>2, ClockStep, RecordStep, PageStep DEF SweepInvs
  <2>4. HealInv'
    BY <2>1, <2>2, HealStep DEF SweepInvs
  <2> QED BY <2>2, <2>3, <2>4 DEF SweepInvs
<1> QED BY <1>1, <1>2, PTL DEF Spec

(* A sweep begun and completed by one process that nobody interrupts       *)
(* captures everything GitHub would serve, whatever earlier interruptions  *)
(* and --fresh have lost: index.ts, "self-heals on the next sweep".        *)
THEOREM SweepsHeal == Spec => NextSweepHeals
<1> DEFINE Step == Completes /\ work.pending = <<>> /\ work.started_at = run =>
                     \A r \in InScope \ Owed(work) : corpus[r] >= asOf[run][r]
<1>1. SweepInvs /\ [Next]_vars => [Step]_history
  <2> SUFFICES ASSUME SweepInvs, [Next]_vars, Completes, work.started_at = run,
                      NEW r \in InScope \ Owed(work)
               PROVE  corpus[r] >= asOf[run][r]
    OBVIOUS
  <2> USE DEF SweepInvs, WindowInv
  <2>1. pc = "finish"
    BY CompletesAtFinish
  <2>2. Traced(work) /\ Captured(work, known) /\ work \in Progress
    BY <2>1 DEF HealInv, Sweeping, TypeInv, TypeOK
  <2>3. known[r] >= asOf[work.started_at][r]
    BY <2>2, OwedOrCaptured
  <2>4. buffer = {} /\ unwritten = {}
    BY <2>1 DEF FlushedInv, TypeInv, ProcessOK
  <2>5. r \in Repos /\ known[r] <= corpus[r]
    BY <2>4, ScopeType DEF RecordInv
  <2>6. run \in 1..MaxRuns
    BY <2>1, BoundsAssumption DEF TypeInv, TypeOK, ProcessOK, Running
  <2>7. known[r] \in Int /\ corpus[r] \in Int /\ asOf[run][r] \in Int
    <3>1. /\ known \in [Repos -> 0..MaxPayload] /\ corpus \in [Repos -> 0..MaxPayload]
          /\ asOf \in [1..MaxRuns -> [Repos -> 0..MaxPayload]]
      BY DEF TypeInv, TypeOK
    <3> QED BY <2>5, <2>6, <3>1
  <2> QED BY <2>3, <2>5, <2>7
<1>2. Spec => [][Step]_history
  BY <1>1, SweepHold, PTL DEF Spec
<1> QED BY <1>2 DEF NextSweepHeals

=============================================================================
