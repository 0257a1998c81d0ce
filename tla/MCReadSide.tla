------------------------------ MODULE MCReadSide ------------------------------
(* An operator and a reader, and what a reader types. *)
EXTENDS Portal, Spelling

CONSTANT Parts   \* what a run is of

MCCorpus == <<"d1", "d2">>
MCCollections == <<"repos", "runs">>
MCFamilies == {{"v"}}
MCMatching == [none |-> {"d1", "d2"}, typo |-> {}, right |-> {"d1", "d2"}, v |-> {"d1"}]
MCSuggestQueries == [none |-> {}, typo |-> {"right"}, right |-> {}]

(* Of the tolerances 2, 1, 1 and 0; one is too short for the vocabulary. *)
MCTaxonomyWords ==
  <<<<"a", "a", "a", "a", "b", "b", "b", "b">>, <<"a", "a", "b", "b", "a">>,
    <<"a", "b", "b", "a", "b", "b">>, <<"b", "b", "b">>, <<"b", "b", "a", "b">>>>

(* A behaviour follows the commands, a reader of the index that commands    *)
(* change meanwhile, or what is typed; the rest stays where it begins.  To  *)
(* a reader documents come and go, so the commands that touch the index he  *)
(* reads run without a fault.                                              *)
VARIABLE part

Init ==
  /\ part \in Parts
  /\ ModelInit /\ SpellingInit
  /\ PortalInit /\ (part # "pages" => url = SearchUrl(NoQuery, {}))
Next ==
  /\ UNCHANGED part
  /\ \/ part = "commands" /\ ModelNext /\ UNCHANGED <<portal, typed>>
     \/ part = "pages" /\ ModelNext /\ UNCHANGED <<portal, typed>>
        /\ faults' = 0 /\ command' # "create"
     \/ part = "pages" /\ PortalNext /\ UNCHANGED <<model, typed>>
     \/ part = "spelling" /\ SpellingNext /\ UNCHANGED <<model, portal>>
Spec == Init /\ [][Next]_<<model, portal, typed, part>>

(* Two values of one family, and an index that stays as it is. *)
MCKinds == {{"operator", "plugin"}}
MCKindMatching ==
  [none |-> {"d1", "d2"}, typo |-> {}, right |-> {"d2"}, operator |-> {"d1"}, plugin |-> {"d2"}]

SteadySpec ==
  /\ index = [u \in Uids |-> {[docs |-> Repos, settings |-> TRUE]}] /\ Idle
  /\ PortalInit /\ SpellingInit /\ part = "pages"
  /\ [][PortalNext /\ UNCHANGED <<model, typed, part>>]_<<model, portal, typed, part>>
=============================================================================
