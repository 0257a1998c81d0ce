------------------------------ MODULE Explore ------------------------------
(***************************************************************************)
(* kecoctl discovery reset (apps/workers/src/discovery/explore.ts and the  *)
(* discoveryReset handler) around the sweeps whose data it clears.         *)
(*                                                                         *)
(* A keyword keeps its repositories, one state document and the history of *)
(* its runs, in three collections no write spans.  A reset lists what the  *)
(* state documents name, asks, and removes repositories, state and, if     *)
(* asked, history, one keyword after the other.  Sweeps and resets are     *)
(* processes of their own: any of them may be killed between two writes,   *)
(* and nothing keeps a reset from running beside a sweep.                  *)
(*                                                                         *)
(* A sweep is here what it does to the collections: every window of a      *)
(* keyword finds repositories of its own, none fails and none splits       *)
(* (Discovery has those).                                                  *)
(***************************************************************************)
EXTENDS Naturals

CONSTANTS
  Keywords,
  Windows,
  None,
  Wiping,                         \* may a sweep be started with --fresh?
  MaxSweeps, MaxResets, MaxCuts   \* bounds

ASSUME NoneAssumption ==
  /\ None \notin [pending : SUBSET Windows, completed : SUBSET Windows]
  /\ None \notin Keywords

VARIABLES
  reposOf,   \* discovery_repos: the windows of each keyword whose repositories are there
  stateOf,   \* discovery_state: None, or what is pending and what is completed
  runsOf,    \* discovery_runs: has the keyword a history?
  sweep,     \* the sweep of each keyword
  reset,     \* the reset under way
  beside,    \* ghost: has a reset run beside the sweep of the keyword since it was opened?
  excused,   \* ghost: keywords that lost their state document to a known race
  spent      \* sweeps, resets and cuts so far

collections == <<reposOf, stateOf, runsOf>>
explore == <<collections, sweep, reset, beside, excused, spent>>

Off == [at |-> "off", known |-> {}, pending |-> {}, completed |-> {}, buffer |-> {}]
NoReset == [at |-> "off", plans |-> {}, runs |-> FALSE, doomed |-> {}, slug |-> None]

ExploreInit ==
  /\ reposOf = [q \in Keywords |-> {}]
  /\ stateOf = [q \in Keywords |-> None]
  /\ runsOf = [q \in Keywords |-> FALSE]
  /\ sweep = [q \in Keywords |-> Off]
  /\ reset = NoReset
  /\ beside = [q \in Keywords |-> FALSE]
  /\ excused = {}
  /\ spent = [sweeps |-> 0, resets |-> 0, cuts |-> 0]

Resetting(q) == reset.at \in {"repos", "state", "runs"} /\ reset.slug = q

-----------------------------------------------------------------------------
(* The sweeps.                                                             *)

(* Beginning to open; what an earlier sweep's ending said is forgotten.    *)
OpenSweep(q, fresh) ==
  /\ sweep[q].at \in {"off", "ended"} /\ spent.sweeps < MaxSweeps
  /\ fresh => Wiping
  /\ sweep' = [sweep EXCEPT ![q] = [Off EXCEPT !.at = IF fresh THEN "wipe" ELSE "load"]]
  /\ beside' = [beside EXCEPT ![q] = Resetting(q)]
  /\ spent' = [spent EXCEPT !.sweeps = @ + 1]
  /\ UNCHANGED <<collections, reset, excused>>

(* --fresh removes the repositories before the state.                      *)
WipeRepo(q) ==
  /\ sweep[q].at = "wipe" /\ reposOf[q] # {}
  /\ \E w \in reposOf[q] : reposOf' = [reposOf EXCEPT ![q] = @ \ {w}]
  /\ UNCHANGED <<stateOf, runsOf, sweep, reset, beside, excused, spent>>

WipeState(q) ==
  /\ sweep[q].at = "wipe" /\ reposOf[q] = {}
  /\ stateOf' = [stateOf EXCEPT ![q] = None]
  /\ sweep' = [sweep EXCEPT ![q].at = "load"]
  /\ UNCHANGED <<reposOf, runsOf, reset, beside, excused, spent>>

(* The repositories are loaded only when there is a state to resume.  The  *)
(* run document is the first thing written; beginSweep then resumes what   *)
(* is pending, or begins with every window.                                *)
LoadSweep(q) ==
  LET stored == stateOf[q]
      resumes == stored # None /\ stored.pending # {}
  IN /\ sweep[q].at = "load"
     /\ sweep' = [sweep EXCEPT ![q] =
          [at |-> "sweeping", buffer |-> {},
           known |-> IF stored = None THEN {} ELSE reposOf[q],
           pending |-> IF resumes THEN stored.pending ELSE Windows,
           completed |-> IF resumes THEN stored.completed ELSE {}]]
     /\ runsOf' = [runsOf EXCEPT ![q] = TRUE]
     /\ UNCHANGED <<reposOf, stateOf, reset, beside, excused, spent>>

(* A window is served; a repository the store knows is not written again.  *)
SweepWindow(q) ==
  /\ sweep[q].at = "sweeping"
  /\ \E w \in sweep[q].pending :
       sweep' = [sweep EXCEPT ![q] =
         [at |-> "sweeping", known |-> sweep[q].known \union {w},
          pending |-> sweep[q].pending \ {w}, completed |-> sweep[q].completed \union {w},
          buffer |-> sweep[q].buffer \union ({w} \ sweep[q].known)]]
  /\ UNCHANGED <<collections, reset, beside, excused, spent>>

(* Due, or last: runDiscovery flushes on every path out.                   *)
FlushSweep(q) ==
  /\ sweep[q].at = "sweeping" /\ sweep[q].completed # {}
  /\ sweep' = [sweep EXCEPT ![q].at = "flush"]
  /\ UNCHANGED <<collections, reset, beside, excused, spent>>

FlushRepos(q) ==
  /\ sweep[q].at = "flush" /\ sweep[q].buffer # {}
  /\ \E w \in sweep[q].buffer :
       /\ reposOf' = [reposOf EXCEPT ![q] = @ \union {w}]
       /\ sweep' = [sweep EXCEPT ![q].buffer = @ \ {w}]
  /\ excused' = IF Resetting(q) THEN excused \union {q} ELSE excused
  /\ UNCHANGED <<stateOf, runsOf, reset, beside, spent>>

FlushState(q) ==
  /\ sweep[q].at = "flush" /\ sweep[q].buffer = {}
  /\ stateOf' = [stateOf EXCEPT ![q] = [pending |-> sweep[q].pending,
                                         completed |-> sweep[q].completed]]
  /\ sweep' = [sweep EXCEPT ![q].at = IF sweep[q].pending = {} THEN "ended" ELSE "sweeping"]
  /\ excused' = IF Resetting(q) THEN excused ELSE excused \ {q}
  /\ UNCHANGED <<reposOf, runsOf, reset, beside, spent>>

(* Killed: what was only in memory is gone.  A first flush that has        *)
(* written repositories and no state leaves repositories no state names.   *)
KillSweep(q) ==
  /\ sweep[q].at \notin {"off", "ended"} /\ spent.cuts < MaxCuts
  /\ excused' = IF sweep[q].at = "flush" /\ stateOf[q] = None THEN excused \union {q}
                ELSE excused
  /\ sweep' = [sweep EXCEPT ![q] = Off]
  /\ spent' = [spent EXCEPT !.cuts = @ + 1]
  /\ UNCHANGED <<collections, reset, beside>>

-----------------------------------------------------------------------------
(* The reset.                                                              *)

(* countDiscovery: a keyword is what a state document names.               *)
Counted == {q \in Keywords : stateOf[q] # None}

(* planReset: --query names one keyword, --all every keyword; the plan is  *)
(* printed and the operator asked.  With nothing to reset, nothing is asked.*)
PlanReset(target, includeRuns) ==
  /\ reset.at = "off" /\ spent.resets < MaxResets
  /\ target \intersect Counted # {}
  /\ reset' = [NoReset EXCEPT !.at = "asked", !.plans = target \intersect Counted,
                              !.runs = includeRuns]
  /\ spent' = [spent EXCEPT !.resets = @ + 1]
  /\ UNCHANGED <<collections, sweep, beside, excused>>

Decline ==
  /\ reset.at = "asked"
  /\ reset' = NoReset
  /\ UNCHANGED <<collections, sweep, beside, excused, spent>>

(* Confirmed, or done with a keyword: the next plan, or the end.           *)
NextPlan ==
  /\ reset.at \in {"asked", "next"}
  /\ \/ \E q \in reset.plans :
          /\ reset' = [reset EXCEPT !.at = "repos", !.plans = @ \ {q}, !.slug = q,
                                    !.doomed = reposOf[q]]
          /\ beside' = [beside EXCEPT ![q] = TRUE]
     \/ reset.plans = {} /\ reset' = NoReset /\ UNCHANGED beside
  /\ UNCHANGED <<collections, sweep, excused, spent>>

(* remove goes over what it has listed, a document at a time.              *)
RemoveRepo ==
  /\ reset.at = "repos" /\ reset.doomed # {}
  /\ \E w \in reset.doomed :
       /\ reposOf' = [reposOf EXCEPT ![reset.slug] = @ \ {w}]
       /\ reset' = [reset EXCEPT !.doomed = @ \ {w}]
  /\ UNCHANGED <<stateOf, runsOf, sweep, beside, excused, spent>>

(* Mutant of RemoveState: the state is removed before the repositories are.*)
RemoveStateFirst ==
  /\ reset.at = "repos"
  /\ stateOf' = [stateOf EXCEPT ![reset.slug] = None]
  /\ reset' = [reset EXCEPT !.at = CASE reset.doomed # {} -> "repos"
                                     [] reset.runs -> "runs" [] OTHER -> "next"]
  /\ UNCHANGED <<reposOf, runsOf, sweep, beside, excused, spent>>

RemoveState ==
  /\ reset.at = "repos" /\ reset.doomed = {}
  /\ stateOf' = [stateOf EXCEPT ![reset.slug] = None]
  /\ reset' = [reset EXCEPT !.at = IF reset.runs THEN "runs" ELSE "next"]
  /\ UNCHANGED <<reposOf, runsOf, sweep, beside, excused, spent>>

RemoveRuns ==
  /\ reset.at = "runs"
  /\ runsOf' = [runsOf EXCEPT ![reset.slug] = FALSE]
  /\ reset' = [reset EXCEPT !.at = "next"]
  /\ UNCHANGED <<reposOf, stateOf, sweep, beside, excused, spent>>

(* Killed, or refused by the store: applyReset stops where it is.          *)
CutReset ==
  /\ reset.at \in {"repos", "runs", "next"} /\ spent.cuts < MaxCuts
  /\ reset' = NoReset
  /\ spent' = [spent EXCEPT !.cuts = @ + 1]
  /\ UNCHANGED <<collections, sweep, beside, excused>>

-----------------------------------------------------------------------------
ExploreNext ==
  \/ \E q \in Keywords :
       \/ \E fresh \in BOOLEAN : OpenSweep(q, fresh)
       \/ WipeRepo(q) \/ WipeState(q) \/ LoadSweep(q) \/ SweepWindow(q)
       \/ FlushSweep(q) \/ FlushRepos(q) \/ FlushState(q) \/ KillSweep(q)
  \/ \E target \in {{q} : q \in Keywords} \union {Keywords}, includeRuns \in BOOLEAN :
       PlanReset(target, includeRuns)
  \/ Decline \/ NextPlan \/ RemoveRepo \/ RemoveState \/ RemoveRuns \/ CutReset

ExploreSpec == ExploreInit /\ [][ExploreNext]_explore

(* Repositories whose keyword has no state document are rows nothing will  *)
(* ever clean up: no reset lists them.  With no sweep and no reset of the  *)
(* keyword under way there are some only if a sweep was killed in its first*)
(* flush, or wrote beside a reset: neither an interrupted reset nor an     *)
(* interrupted --fresh leaves any (explore.ts:188-191).                    *)
NothingStranded ==
  \A q \in Keywords :
    reposOf[q] # {} /\ stateOf[q] = None /\ sweep[q].at \in {"off", "ended"} /\ ~Resetting(q)
      => q \in excused

(* explore.ts:189-191: after an interrupted reset "the next sweep          *)
(* re-records what is missing".  A sweep that has ended with nothing       *)
(* pending, and beside which no reset ran, has recorded every window.      *)
NextSweepRerecords ==
  \A q \in Keywords : sweep[q].at = "ended" /\ ~beside[q] => reposOf[q] = Windows
=============================================================================
