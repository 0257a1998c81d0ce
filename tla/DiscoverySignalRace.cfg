\* A signal while a window is being fetched.
SPECIFICATION Spec
CONSTANTS
  Repos <- SmallRepos
  Windows <- SmallWindows
  Roots <- MCRoots
  Children <- SmallChildren
  Depth <- SmallDepth
  Matches <- SmallMatches
  Pages <- SmallPages
  Crowded <- SmallCrowded
  NoLimit = NoLimit
  NoState = NoState
  NoRun = NoRun
  Limit = NoLimit
  FlushWindows = 2
  Signals = TRUE
  Fresh = FALSE
  MaxRuns = 1
  MaxFaults = 0
  MaxPayload = 1
INVARIANTS
  CorpusAheadOfState
\* A store nobody sweeps again, or whose runs are used up, may stop.
CHECK_DEADLOCK FALSE
