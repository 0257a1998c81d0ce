----------------------------- MODULE MCAnalyzer ------------------------------
(* The analyzer between journal and cache, in its loop and in both named    *)
(* modes; and one analysis over its providers, of every pair of facts and   *)
(* of one repository for each case of the derived families.                 *)
EXTENDS Analyzer, AnalyzeRepo

Plain == [facts |-> {"named-package"}, topics |-> <<"other", "d1", "d1">>,
          license_class |-> "permissive", owner |-> "User", archived |-> FALSE,
          pushed |-> {1}, created |-> {800}, released |-> {}, cncf |-> None]

MCRepos ==
  {[Plain EXCEPT !.facts = {f, g}] :
     f, g \in Facts \ {"topic-k8s", "name-k8s", "description-k8s", "enterprise"}}
  \cup {[Plain EXCEPT !.topics = t] : t \in {<<>>, <<"d1", "d2", "d3", "d2", "d4", "d1">>}}
  \cup {[Plain EXCEPT !.facts = {"topic-k8s", "name-k8s", "description-k8s", "Chart.yaml"}]}
  \cup {[Plain EXCEPT !.pushed = p, !.created = c, !.released = r, !.cncf = n] :
           p \in {{}, {183}, {184}, {366}}, c \in {{-1}, {364}, {365}},
           r \in {{}, {365}, {366}}, n \in {None, "sandbox"}}
  \cup {[Plain EXCEPT !.archived = TRUE, !.cncf = "graduated", !.owner = o,
                      !.license_class = l] :
           o \in {"foundation", "Organization"}, l \in {"unknown", "copyleft"}}

MCTtl == [p \in {Landscape, "osv"} |-> IF p = Landscape THEN 2 ELSE 1]
MCAnswers == [p \in {Landscape, "osv"} |-> IF p = Landscape THEN {"full", "empty"} ELSE {"vulns"}]
MCVerdicts == {[kind |-> "cli", domains |-> {"d1", "d2"}, confidence |-> c, needs_review |-> c < 50] :
                 c \in {20, 90}}


(* The two have no state in common: a behaviour follows one of them, while  *)
(* the other stays where it begins.                                         *)
VARIABLE part

MCInit ==
  /\ part \in {"stage", "analysis"}
  /\ Init
  /\ AnalyzeInit /\ (part = "stage" => repo = Plain)

MCNext ==
  /\ UNCHANGED part
  /\ \/ part = "stage" /\ Next /\ UNCHANGED analyzing
     \/ part = "analysis" /\ AnalyzeNext /\ UNCHANGED vars

MCSpec == MCInit /\ [][MCNext]_<<vars, analyzing, part>>
=============================================================================
