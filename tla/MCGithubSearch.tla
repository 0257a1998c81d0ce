-------------------------- MODULE MCGithubSearch --------------------------
(* What discovery asks GitHub Search, and when it asks.                   *)
(* One repository a day over the years in which the shape of the calendar  *)
(* changes, and one for each number of stars around the edges of the bands.*)
EXTENDS SearchWindows, SearchClient

MCTotals == {0, 101, 1000, 1001}

MCYears == {2024, 2025}

Edges == {0, 1, 2, 3, 4, 5, 9, 10, 19, 20, 49, 50, 99, 100, 199, 200, 499, 500, 999, 1000, 5000,
          5001, 90000}

MCDays == Day(2007, 12, 31)..Day(2008, 3, 31) \union Day(2013, 12, 1)..Day(2014, 1, 31)
            \union Day(2023, 12, 1)..Day(2024, 7, 31) \union Day(2025, 12, 1)..Day(2026, 1, 1)

MCRepositories ==
  {[stars |-> 2, created |-> d] : d \in MCDays}
    \union {[stars |-> s, created |-> Day(2024, 2, 29)] : s \in Edges}

(* A unit of time is the least interval. *)
MCBackoff(a) == IF a = 0 THEN 1 ELSE 2

(* The two have no state in common: a behaviour follows one of them, while   *)
(* the other stays where it begins.                                         *)
VARIABLE part

MCInit ==
  /\ part \in {"windows", "client"}
  /\ Init /\ (part = "client" => /\ repo = [stars |-> 0, created |-> Day(2024, 2, 29)]
                                /\ total = 0 /\ year = 2024)
  /\ ClientInit

MCNext ==
  /\ UNCHANGED part
  /\ \/ part = "windows" /\ Next /\ UNCHANGED client
     \/ part = "client" /\ ClientNext /\ UNCHANGED vars

MCSpec == MCInit /\ [][MCNext]_<<vars, client, part>> /\ (part = "client" => ClientFairness)
=============================================================================
