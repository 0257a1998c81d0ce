\* Three runs, killed anywhere, one failure, repositories that change.
SPECIFICATION Spec
CONSTANTS
  Repos <- SmallRepos
  Windows <- SmallWindows
  Roots <- MCRoots
  Children <- SmallChildren
  Depth <- SmallDepth
  Matches <- SmallMatches
  Pages <- SmallPages
  Crowded <- SmallCrowded
  NoLimit = NoLimit
  NoState = NoState
  NoRun = NoRun
  Limit = NoLimit
  FlushWindows = 2
  Signals = FALSE
  Fresh = FALSE
  MaxRuns = 3
  MaxFaults = 1
  MaxPayload = 2
INVARIANTS
  CorpusAheadOfState
PROPERTIES
  CompleteMeansCaptured
  KeepsLedger
  RunCountsOwnWindows
\* A store nobody sweeps again, or whose runs are used up, may stop.
CHECK_DEADLOCK FALSE
