\* Crawler, analyzer and both named modes killed anywhere, one refused write, stages in
\* sequence; every pair of facts and every case of the derived families, two providers.
SPECIFICATION MCSpec
CONSTANTS
  Repos = {"kubectx"}
  Modes = {"sweep", "direct"}
  Frail = {"crawler", "analyzer", "assistant"}
  Sure = {TRUE, FALSE}
  MaxVersion = 2
  MaxFaults = 1
  Overlap = FALSE
  Operator = FALSE
  IdsPerMs = 2
  Entropy = {0}
  MaxClock = 6
  Repositories <- MCRepos
  Ttl <- MCTtl
  Answers <- MCAnswers
  Domains = {"d1", "d2", "d3", "d4", "dev-experience"}
  Verdicts <- MCVerdicts
INVARIANTS
  EveryChangeAnswered
  CaughtUpMeansTold
  LatestChangeAnalyzed
  ParseSucceeds
  AnalysisOwnsUp
PROPERTIES
  OneRequestPerTtl
CHECK_DEADLOCK FALSE
