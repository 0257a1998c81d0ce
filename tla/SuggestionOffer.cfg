\* A reader alone, with two values of one family to select.
SPECIFICATION SteadySpec
CONSTANTS
  Corpus <- MCCorpus
  Batch = 1
  Collections <- MCCollections
  MaxFaults = 0
  Queries = {"none", "typo", "right"}
  NoQuery = "none"
  Families <- MCKinds
  Matching <- MCKindMatching
  SuggestQueries <- MCSuggestQueries
  MaxRequests = 1
  Letters = {"a", "b"}
  TaxonomyWords <- MCTaxonomyWords
  Limit = 4
  MaxLetters = 9
  Parts = {"pages"}
INVARIANTS
  OffersLeadSomewhere
CHECK_DEADLOCK FALSE
