----------------------------- MODULE MCFetchRepo -----------------------------
(* A batch crawl and an operator's --repo of the same repository: two      *)
(* crawls of the same code, so they may be exchanged.  And its icon, by a  *)
(* crawl and by `kecoctl repo icon`, in sizes that are treated alike.      *)
EXTENDS FetchRepo, Icon, TLC

CONSTANTS Batch, Named, Small, Large

MCCrawlers == {Batch, Named}
MCSizes == {Small, Large}
Exchange == Permutations(MCCrawlers) \cup Permutations(MCSizes)

(* Nothing, an avatar, a picture after a row of badges, a logo. *)
MCTreeCandidates == <<"docs/logo.svg", "docs/logo.png">>
Image(u, p, fit) == [url |-> u, paragraph |-> p, fit |-> fit]
MCOffers ==
  {[paths |-> {}, images |-> <<>>, avatar |-> "none"],
   [paths |-> {}, images |-> <<>>, avatar |-> "avatar"],
   [paths |-> {},
    images |-> <<Image("badge", 1, TRUE), Image("badge", 1, TRUE), Image("badge", 1, TRUE),
                 Image("foreign", 2, FALSE), Image("picture", 2, TRUE)>>,
    avatar |-> "avatar"],
   [paths |-> {"docs/logo.png"}, images |-> <<Image("picture", 1, TRUE)>>, avatar |-> "avatar"]}

(* The two have no state in common: a behaviour follows one of them, while  *)
(* the other stays where it begins.                                         *)
VARIABLE part

MCInit ==
  /\ part \in {"artifacts", "icon"}
  /\ Init
  /\ IconInit /\ (part = "artifacts" => Candidate(offer).source = "null")

MCNext ==
  /\ UNCHANGED part
  /\ \/ part = "artifacts" /\ Next /\ UNCHANGED iconVars
     \/ part = "icon" /\ IconNext /\ UNCHANGED vars

MCSpec == MCInit /\ [][MCNext]_<<vars, iconVars, part>>
=============================================================================
