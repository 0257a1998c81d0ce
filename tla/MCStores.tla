------------------------------- MODULE MCStores -------------------------------
(* The stores of the workers: how Meilisearch takes the writes of a sweep,   *)
(* how each of the three stores reads, and how a reset clears what sweeps   *)
(* wrote.                                                                   *)
EXTENDS MeiliStore, StoreReads, Explore, TLC

CONSTANT Parts

Symmetry == Permutations(Repos) \union Permutations(Keywords)

(* Two of the documents are one repository. *)
MCNameOf == <<"a", "b", "a">>
MCShardOf == [n \in {"a", "b"} |-> IF n = "a" THEN 0 ELSE 1]

(* The three have no state in common: a behaviour follows one of them, while  *)
(* the others stay where they begin.                                        *)
VARIABLE part

MCInit ==
  /\ part \in Parts
  /\ Init
  /\ ListInit /\ (part # "reads" =>
                    /\ backend = "meili" /\ docs = <<>>
                    /\ query = [where |-> NoWhere, sort |-> "none", limit |-> 0])
  /\ ExploreInit

MCNext ==
  /\ UNCHANGED part
  /\ \/ part = "writes" /\ Next /\ UNCHANGED <<listing, explore>>
     \/ part = "reads" /\ ListNext /\ UNCHANGED <<vars, explore>>
     \/ part = "resets" /\ ExploreNext /\ UNCHANGED <<vars, listing>>

MCSpec == MCInit /\ [][MCNext]_<<vars, listing, explore, part>>
=============================================================================
