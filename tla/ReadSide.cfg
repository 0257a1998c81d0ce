\* Commands with three faults over two documents and two collections; a reader of an index
\* that commands change, with a filter, a misspelt query, two tools; what may be typed.
SPECIFICATION Spec
CONSTANTS
  Corpus <- MCCorpus
  Batch = 1
  Collections <- MCCollections
  MaxFaults = 3
  Queries = {"none", "typo", "right"}
  NoQuery = "none"
  Families <- MCFamilies
  Matching <- MCMatching
  SuggestQueries <- MCSuggestQueries
  MaxRequests = 1
  Letters = {"a", "b"}
  TaxonomyWords <- MCTaxonomyWords
  Limit = 4
  MaxLetters = 9
  Parts = {"commands", "pages", "spelling"}
INVARIANTS
  PagesFollowUrl
  OffersAreProven
  CorrectionsAreNearest
PROPERTIES
  CommandsMeanIt
