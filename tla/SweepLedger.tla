----------------------------- MODULE SweepLedger -----------------------------
(***************************************************************************)
(* What a discovery sweep promises of what outlives its process, whatever  *)
(* is killed and whatever fails: a corpus and a list of what the current   *)
(* sweep still owes it.  A repository leaves the list only once the corpus *)
(* holds a payload at least as recent as the start of the sweep, and       *)
(* within one sweep nothing comes back on the list.                        *)
(***************************************************************************)
EXTENDS Integers

CONSTANTS Repos, Scope

VARIABLES
  captured,  \* payload the corpus holds for each repository, 0 if none
  owed,      \* repositories the current sweep still owes
  sweep,     \* which sweep the list belongs to, 0 before the first
  floor      \* payload each repository had when that sweep began

vars == <<captured, owed, sweep, floor>>

Init ==
  /\ captured = [r \in Repos |-> 0]
  /\ owed = Scope
  /\ sweep = 0
  /\ floor = [r \in Repos |-> 0]

(* A repository is recorded, never with an older payload.                  *)
Capture ==
  /\ \E r \in Repos :
       /\ captured'[r] >= captured[r]
       /\ captured' = [captured EXCEPT ![r] = captured'[r]]
  /\ UNCHANGED <<owed, sweep, floor>>

(* The sweep advances, or a later one takes its place.                     *)
Commit ==
  /\ UNCHANGED captured
  /\ owed' \subseteq Scope
  /\ \A r \in Scope \ owed' : captured[r] >= floor'[r]
  /\ \/ sweep' = sweep /\ floor' = floor /\ owed' \subseteq owed
     \/ sweep' > sweep /\ \A r \in Repos : floor'[r] >= floor[r]

Next == Capture \/ Commit

Spec == Init /\ [][Next]_vars
=============================================================================
