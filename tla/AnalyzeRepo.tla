---------------------------- MODULE AnalyzeRepo ----------------------------
(***************************************************************************)
(* One repository analysed again and again: analyzeRepo (packages/analyze) *)
(* over the signal providers (packages/signals) and the answers of theirs  *)
(* that the cache keeps.                                                   *)
(*                                                                         *)
(* Pass 1 reads local evidence: a repository is the set of facts the rules *)
(* test its tree, topics, name and manifests for.  Pass 2 asks the         *)
(* providers, each behind its envelope in external/.  Pass 3 asks the LLM  *)
(* about what the rules left open.  Confidences are per cent; time passes  *)
(* in days, and not within an analysis, which reads the clock once.        *)
(***************************************************************************)
EXTENDS Integers, FiniteSets, Sequences, SequencesExt

CONSTANTS
  Repositories, \* what may be known of a repository: the inputs of an analysis
  Ttl,          \* of each provider asked, ttlSeconds in days
  Answers,      \* of each provider, the bodies its schema accepts
  Domains,      \* the family `domains` of the taxonomy
  Verdicts      \* answers of the LLM that LlmVerdict accepts

Providers == DOMAIN Ttl
Landscape == "cncf-landscape"
None == "none"                 \* null
FallbackDomain == "dev-experience"
MaxDomains == 3

ASSUME ProvidersAssumption ==
  /\ Landscape \in Providers
  /\ Ttl \in [Providers -> Nat \ {0}]
  /\ \A p \in Providers : None \notin Answers[p]

ASSUME ReposAssumption == \A r \in Repositories :
  /\ r.topics \in Seq(ToSet(r.topics))
  /\ r.pushed \cup r.created \cup r.released \subseteq Int

(* What LlmVerdict accepts. *)
ASSUME VerdictsAssumption ==
  /\ FallbackDomain \in Domains
  /\ \A v \in Verdicts : /\ Cardinality(v.domains) \in 1..MaxDomains /\ v.domains \subseteq Domains
                          /\ v.confidence \in 0..100

VARIABLES
  repo,         \* the one analysed
  cache,        \* of each provider: no envelope, or the one that is cached
  memoized,     \* lookupLandscape's index, in the memory of the process
  progress, forceRefresh,
  result,       \* of each provider, what its fetch has come to
  tries, verdict,    \* of pass 3
  since         \* ghost: days since each provider was asked

process == <<memoized, progress, forceRefresh, result, tries, verdict>>
analyzing == <<repo, cache, process, since>>

Smaller(a, b) == IF a < b THEN a ELSE b

-----------------------------------------------------------------------------
(* Pass 1: rules *)

Rule(kind, confidence, needs, without) ==
  [kind |-> kind, confidence |-> confidence, needs |-> needs, without |-> without]

KindRules == <<
  Rule("kubectl-plugin", 95, {".krew.yaml"}, {}),
  Rule("kubectl-plugin", 80, {"kubectl-*"}, {}),
  Rule("operator", 95, {"config/crd", "PROJECT"}, {}),
  Rule("operator", 85, {"topic-operator"}, {}),
  Rule("helm-chart", 90, {"Chart.yaml"}, {}),
  Rule("controller", 80, {"controller-runtime"}, {}),
  Rule("controller", 70, {"*-controller"}, {}),
  Rule("operator", 70, {"*-operator"}, {}),
  Rule("admission-webhook", 75, {"webhook"}, {}),
  Rule("terraform-provider", 90, {"terraform-provider-*"}, {}),
  Rule("library-sdk", 65, {"client-go"}, {"cmd/"}),
  Rule("library-sdk", 70, {"client-node"}, {}),
  Rule("library-sdk", 65, {"kube-crate"}, {}),
  Rule("cli", 75, {"cmd/", "cobra"}, {}),
  Rule("learning-resource", 80, {"learning"}, {}) >>

Facts == {".krew.yaml", "kubectl-*", "config/crd", "PROJECT", "topic-operator", "Chart.yaml",
          "controller-runtime", "*-controller", "*-operator", "webhook",
          "terraform-provider-*", "client-go", "cmd/", "client-node", "kube-crate", "cobra",
          "learning", "action.yml", "topic-k8s", "name-k8s", "description-k8s",
          "enterprise", "named-package"}

(* The rules that fire, by their place in the order. *)
ClassifyKind == {i \in DOMAIN KindRules : /\ KindRules[i].needs \subseteq repo.facts
                                         /\ KindRules[i].without \cap repo.facts = {}}
Best == IF ClassifyKind = {} THEN Rule(None, 0, {}, {}) ELSE KindRules[Min(ClassifyKind)]

\* Mutant of ClassifyDomains: every domain a topic stands for, as many as there are.
AllDomains == ToSet(repo.topics) \cap Domains

(* The first domains the topics stand for, each once. *)
ClassifyDomains ==
  LET before(i) == {repo.topics[j] : j \in 1..(i - 1)} \cap Domains
  IN  {repo.topics[i] : i \in {j \in DOMAIN repo.topics :
                               Cardinality(before(j) \ {repo.topics[j]}) < MaxDomains}}
        \cap Domains

Known(facts) == facts \cap repo.facts # {}

(* classifyRuntime for the kinds a rule can give. *)
ClassifyRuntime(kind) ==
  IF Known({".krew.yaml"}) \/ kind \in {"cli", "kubectl-plugin"} THEN "workstation"
  ELSE IF Known({"Chart.yaml", "config/crd"}) THEN "in-cluster"
  ELSE IF Known({"action.yml"}) THEN "ci-pipeline"
  ELSE IF Known({"client-go", "controller-runtime", "client-node", "kube-crate"})
          /\ ~Known({"cmd/"}) THEN "in-your-code"
  ELSE IF kind \in {"operator", "controller", "admission-webhook", "helm-chart"}
       THEN "in-cluster" ELSE "unknown"

K8sRelevance == Smaller(100,
    (IF Known({"topic-k8s"}) THEN 40 ELSE 0) + (IF Known({"name-k8s"}) THEN 20 ELSE 0)
  + (IF Known({"description-k8s"}) THEN 15 ELSE 0)
  + (IF Known({"client-go", "controller-runtime", "Chart.yaml", "config/crd"}) THEN 35 ELSE 0))

(* classifyDerived; a date is the set of its age, empty when it is missing  *)
(* or malformed.                                                            *)
Openness ==
  IF repo.license_class \in {"source-available", "unknown"} THEN repo.license_class
  ELSE IF Known({"enterprise"}) THEN "open-core" ELSE "fully-open"

Maturity(level) ==
  IF repo.archived THEN "archived"
  ELSE IF level # None THEN level
  ELSE IF repo.pushed = {} \/ repo.created = {} \/ \E a \in repo.created : a < 0 THEN "unknown"
  ELSE IF \E a \in repo.pushed : a > 365 THEN "dormant"
  ELSE IF \E a \in repo.created : a < 365 THEN "young"
  ELSE IF (\E a \in repo.released : a =< 365) \/ (\E a \in repo.pushed : a =< 183)
       THEN "established" ELSE "unknown"

Governance(level) ==
  IF repo.owner = "foundation" \/ level # None THEN "foundation"
  ELSE IF repo.owner = "User" THEN "individual" ELSE "unknown"

-----------------------------------------------------------------------------
(* Pass 2: signals *)

Unasked == [phase |-> "unasked", value |-> None, partial |-> FALSE]
Asking  == [phase |-> "asking", value |-> None, partial |-> FALSE]
Result(phase, value, partial) == [phase |-> phase, value |-> value, partial |-> partial]

(* OSV is asked of a package, when a manifest names one (identifyPackage).  *)
Asked == {p \in Providers : p = "osv" => Known({"named-package"})}
Gathered(ps) == \A p \in ps \cap Asked : result[p].phase \in {"read", "answered"}

(* The landscape first, then brew, then all the others at a time. *)
Turn(p) ==
  /\ progress = "gather" /\ p \in Asked
  /\ result[p] = Unasked
  /\ Gathered((IF p = Landscape THEN {} ELSE IF p = "brew" THEN {Landscape}
                                                           ELSE {Landscape, "brew"}))

(* buildLandscapeIndex, looked up: projects the file lists at a level of the CNCF. *)
Entry(index) ==
  IF index # "empty" /\ repo.cncf \in {"graduated", "incubating", "sandbox"}
  THEN repo.cncf ELSE None

(* What gatherSignals sees of an envelope. *)
Seen(phase, p, body, partial) ==
  IF p = Landscape /\ body # None THEN Result(phase, Entry(body), FALSE)
                                  ELSE Result(phase, body, partial)

Remember(p, body) ==
  memoized' = IF p = Landscape /\ body # None THEN body ELSE memoized

Remembered(p) == p = Landscape /\ forceRefresh # p /\ memoized # None

Refused(envelope) == envelope.status >= 400
IsFresh(p, envelope) == envelope.age < Ttl[p]
Hits(p) == IF forceRefresh = p THEN {} ELSE {e \in cache[p] : IsFresh(p, e)}

Recall(p) ==
  /\ Turn(p) /\ Remembered(p)
  /\ result' = [result EXCEPT ![p] = Seen("read", p, memoized, FALSE)]
  /\ UNCHANGED <<repo, cache, memoized, progress, forceRefresh, tries, verdict, since>>

Read(p) ==
  /\ Turn(p) /\ ~Remembered(p)
  /\ \E e \in Hits(p) :
       /\ result' = [result EXCEPT ![p] = Seen("read", p, e.body, Refused(e))]
       /\ Remember(p, e.body)
  /\ UNCHANGED <<repo, cache, progress, forceRefresh, tries, verdict, since>>

Request(p) ==
  /\ Turn(p) /\ ~Remembered(p) /\ Hits(p) = {}
  /\ result' = [result EXCEPT ![p] = Asking]
  /\ memoized' = IF p = Landscape THEN None ELSE memoized
  /\ since' = [since EXCEPT ![p] = 0]
  /\ UNCHANGED <<repo, cache, progress, forceRefresh, tries, verdict>>

(* perform: an answer, a refusal, a body the schema rejects, or no answer.  *)
Perform(p) == {[status |-> 200, body |-> b] : b \in Answers[p] \cup {None}}
              \cup {[status |-> s, body |-> None] : s \in {0, 404}}

\* Mutant of Reply: a fresh answer too is partial only when the server refused it.
ReplyByStatus(p) ==
  /\ result[p] = Asking
  /\ \E r \in Perform(p) :
       /\ cache' = [cache EXCEPT ![p] = {[age |-> 0, status |-> r.status, body |-> r.body]}]
       /\ result' = [result EXCEPT ![p] = Seen("answered", p, r.body, Refused(r))]
       /\ Remember(p, r.body)
  /\ UNCHANGED <<repo, progress, forceRefresh, tries, verdict, since>>

\* Mutant of Reply: only what the provider did say is cached.
ReplyUncached(p) ==
  /\ result[p] = Asking
  /\ \E r \in Perform(p) :
       /\ cache' = IF r.body = None THEN cache
                   ELSE [cache EXCEPT ![p] = {[age |-> 0, status |-> r.status, body |-> r.body]}]
       /\ result' = [result EXCEPT ![p] = Seen("answered", p, r.body, r.body = None)]
       /\ Remember(p, r.body)
  /\ UNCHANGED <<repo, progress, forceRefresh, tries, verdict, since>>

Reply(p) ==
  /\ result[p] = Asking
  /\ \E r \in Perform(p) :
       /\ cache' = [cache EXCEPT ![p] = {[age |-> 0, status |-> r.status, body |-> r.body]}]
       /\ result' = [result EXCEPT ![p] = Seen("answered", p, r.body, r.body = None)]
       /\ Remember(p, r.body)
  /\ UNCHANGED <<repo, progress, forceRefresh, tries, verdict, since>>

SignalsUsed == {p \in Asked : IF p = Landscape THEN ~result[p].partial
                                               ELSE result[p].value # None}
PartialSignals == {p \in Asked \ SignalsUsed : result[p].partial}

-----------------------------------------------------------------------------
(* Pass 3, and the whole *)

NeedsLlm(confidence) == confidence < 70
Ambiguous == NeedsLlm(Best.confidence) \/ ClassifyDomains = {}

AnalyzeRepo ==
  /\ progress \in {"idle", "done"}
  /\ progress' = "gather"
  /\ forceRefresh' \in Providers \cup {None}
  /\ result' = [p \in Providers |-> Unasked]
  /\ tries' = 0 /\ verdict' = {}
  /\ UNCHANGED <<repo, cache, memoized, since>>

(* The LLM is asked when the rules left something open and there is a key. *)
AllGathered ==
  /\ progress = "gather" /\ Gathered(Providers)
  /\ progress' \in IF Ambiguous THEN {"llm", "done"} ELSE {"done"}
  /\ forceRefresh' = None
  /\ UNCHANGED <<repo, cache, memoized, result, tries, verdict, since>>

(* classifyWithLlm: a request that failed, no tool call and an invalid      *)
(* answer each use up an attempt.                                           *)
Attempt ==
  /\ progress = "llm"
  /\ \/ /\ verdict' \in {{v} : v \in Verdicts} /\ progress' = "done" /\ UNCHANGED tries
     \/ /\ tries' = tries + 1
        /\ progress' = IF tries' = 2 THEN "done" ELSE progress
        /\ UNCHANGED verdict
  /\ UNCHANGED <<repo, cache, memoized, forceRefresh, result, since>>

DomainsOrFallback == IF ClassifyDomains = {} THEN {FallbackDomain} ELSE ClassifyDomains

Classification(kind, domains, confidence, review, method) ==
  [kind |-> kind, domains |-> domains, confidence |-> confidence,
   needs_review |-> review, method |-> method]

BestKind == IF Best.kind = None THEN "service" ELSE Best.kind

WithLlm == verdict # {} \/ tries = 2

\* Mutant of Classified: without a key the classification is published as it is.
ClassifiedQuietly ==
  IF ~WithLlm
  THEN Classification(BestKind, DomainsOrFallback, Best.confidence, FALSE, "rules")
  ELSE IF verdict = {}
  THEN Classification("service", DomainsOrFallback, 30, TRUE, "llm")
  ELSE LET v == CHOOSE v \in verdict : TRUE
       IN  Classification(v.kind, v.domains, v.confidence, v.needs_review, "llm")

Classified ==
  IF ~Ambiguous THEN Classification(BestKind, ClassifyDomains, Best.confidence, FALSE, "rules")
  ELSE IF ~WithLlm
  THEN Classification(BestKind, DomainsOrFallback, Best.confidence, TRUE, "rules")
  ELSE IF verdict = {}
  THEN Classification("service", DomainsOrFallback, 30, TRUE, "llm")
  ELSE LET v == CHOOSE v \in verdict : TRUE
       IN  Classification(v.kind, v.domains, v.confidence, v.needs_review, "llm")

(* The document of a finished analysis. *)
Analysis ==
  LET level == result[Landscape].value
  IN  [classified |-> Classified, runtime |-> ClassifyRuntime(Best.kind),
       k8s_relevance |-> K8sRelevance, openness |-> Openness,
       maturity |-> Maturity(level), governance |-> Governance(level),
       signals_used |-> SignalsUsed, partial_signals |-> PartialSignals]

-----------------------------------------------------------------------------
AnalyzeInit ==
  /\ repo \in Repositories
  /\ cache = [p \in Providers |-> {}]
  /\ memoized = None /\ progress = "idle" /\ forceRefresh = None
  /\ result = [p \in Providers |-> Unasked]
  /\ tries = 0 /\ verdict = {}
  /\ since = Ttl

Day ==
  /\ progress \in {"idle", "done"}
  /\ cache' = [p \in Providers |->
                {[e EXCEPT !.age = Smaller(@ + 1, Ttl[p])] : e \in cache[p]}]
  /\ since' = [p \in Providers |-> Smaller(since[p] + 1, Ttl[p])]
  /\ UNCHANGED <<repo, process>>

(* The process ends or is killed; the next one has its memory to fill.  A  *)
(* request under way then is forgotten.                                    *)
Restart ==
  /\ progress' = "idle" /\ memoized' = None /\ forceRefresh' = None
  /\ result' = [p \in Providers |-> Unasked]
  /\ tries' = 0 /\ verdict' = {}
  /\ since' = [p \in Providers |-> IF result[p] = Asking THEN Ttl[p] ELSE since[p]]
  /\ UNCHANGED <<repo, cache>>

Pass2(p) == Recall(p) \/ Read(p) \/ Request(p) \/ Reply(p)
AnalyzeNext ==
  AnalyzeRepo \/ (\E p \in Providers : Pass2(p)) \/ AllGathered \/ Attempt \/ Day \/ Restart

AnalyzeSpec == AnalyzeInit /\ [][AnalyzeNext]_analyzing

-----------------------------------------------------------------------------
Done == progress = "done"

(* AnalysisSchema.parse never throws away an analysis: whatever the rules   *)
(* and the LLM made of it, it has one to three domains of the taxonomy and  *)
(* a relevance and a confidence within their range (analyze.ts:124).        *)
ParseSucceeds == Done =>
  /\ Cardinality(Classified.domains) \in 1..MaxDomains /\ Classified.domains \subseteq Domains
  /\ Classified.confidence \in 0..100 /\ K8sRelevance \in 0..100

(* A document the pipeline does not vouch for is flagged for review: one    *)
(* that is not flagged was settled by a rule of 70 per cent or more and by  *)
(* the topics, or is what the LLM itself was sure of.  And its maturity is  *)
(* unknown only where the comment of classifyMaturity says so: no usable    *)
(* dates, or more than a year old, quiet for six to twelve months and       *)
(* without a recent release (analyze.ts:61-122, derived.ts:102-142).        *)
UnknownIsHonest ==
  \/ {} \in {repo.pushed, repo.created} \/ \E a \in repo.created : a < 0
  \/ \A c \in repo.created, a \in repo.pushed :
       c >= 365 /\ a \in 184..365 /\ \A r \in repo.released : r > 365

DoubtIsFlagged == Done =>
  /\ \/ Classified.needs_review
     \/ Classified.confidence >= 70 /\ Classified.domains = ClassifyDomains
        /\ \E i \in DOMAIN KindRules : KindRules[i].kind = Classified.kind
                                       /\ KindRules[i].needs \subseteq repo.facts
     \/ \E v \in Verdicts : ~v.needs_review /\ v \in verdict
  /\ Analysis.maturity = "unknown" => UnknownIsHonest

(* An asked provider of which this analysis has no answer, neither in the   *)
(* cache nor in memory, is reported in partial_signals and is not among     *)
(* the signals used, whether it failed now or refused an earlier analysis   *)
(* (provider.ts:55, 67; signals.ts:56-119).  The exception is the one the   *)
(* code has: a time-out, a lost connection and a body the schema rejects    *)
(* are cached under a status below 400, so that the analyses of the rest of *)
(* its TTL do not report them, and count the landscape among the used, where *)
(* provider.ts:12 says "a dead provider yields null + an entry in           *)
(* partial_signals[]".                                                     *)
FailureIsReported == Done => \A p \in Asked : \A e \in cache[p] :
  e.body = None /\ ~Remembered(p) =>
    \/ p \in PartialSignals \ SignalsUsed
    \/ /\ result[p].phase = "read" /\ ~Refused(e)
       /\ p = Landscape \/ p \notin SignalsUsed

(* An analysis owns up to its own doubt, and to the providers it did not    *)
(* hear, as far as FailureIsReported says.                                 *)
AnalysisOwnsUp == DoubtIsFlagged /\ FailureIsReported

(* The cache stands before the network: unless it is refreshed by hand, a   *)
(* provider is asked once in the life of its answer, a failure being one,   *)
(* whichever process asks (provider.ts:4-12).                               *)
OneRequestPerTtl ==
  [][\A p \in Providers : result'[p] = Asking /\ result[p] # Asking /\ forceRefresh # p =>
       since[p] = Ttl[p]]_analyzing

=============================================================================
