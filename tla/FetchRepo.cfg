\* Two crawls, together or in turn, over a repository that changes twice, and its icon.
SPECIFICATION MCSpec
SYMMETRY Exchange
CONSTANTS
  Batch = Batch
  Named = Named
  Crawlers <- MCCrawlers
  MaxRev = 3
  MaxMuddle = 2
  Updaters = {"crawl", "repo icon"}
  Operator = "repo icon"
  Small = Small
  Large = Large
  Sizes <- MCSizes
  TreeCandidates <- MCTreeCandidates
  Offers <- MCOffers
  NoUrl = "none"
  MaxRevision = 2
  MaxMoves = 2
PROPERTIES
  ArtifactsAgree
  ChangesAreAnnounced
  RefreshHeals
  IconsAgree
\* A repository past its last revision may be left alone.
CHECK_DEADLOCK FALSE
