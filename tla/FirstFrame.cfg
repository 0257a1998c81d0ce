\* A reader alone, from the page of a tool to that of another.
SPECIFICATION SteadySpec
CONSTANTS
  Corpus <- MCCorpus
  Batch = 1
  Collections <- MCCollections
  MaxFaults = 0
  Queries = {"none", "typo", "right"}
  NoQuery = "none"
  Families <- MCFamilies
  Matching <- MCMatching
  SuggestQueries <- MCSuggestQueries
  MaxRequests = 1
  Letters = {"a", "b"}
  TaxonomyWords <- MCTaxonomyWords
  Limit = 4
  MaxLetters = 9
  Parts = {"pages"}
INVARIANTS
  EveryFrameFollowsUrl
CHECK_DEADLOCK FALSE
