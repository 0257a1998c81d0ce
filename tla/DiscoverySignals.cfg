\* Nested subdivision, a duplicate window, a truncated day, a limit, --fresh; signals,
\* kills and failures around two runs, under fairness.
SPECIFICATION FairSpec
CONSTANTS
  Repos <- MCRepos
  Windows <- MCWindows
  Roots <- MCRoots
  Children <- MCChildren
  Depth <- MCDepth
  Matches <- MCMatches
  Pages <- MCPages
  Crowded <- MCCrowded
  NoLimit = NoLimit
  NoState = NoState
  NoRun = NoRun
  Limit = 4
  FlushWindows = 2
  Signals = TRUE
  Fresh = TRUE
  MaxRuns = 2
  MaxFaults = 2
  MaxPayload = 1
INVARIANTS
  NoWindowDropped
  EveryExitIsStamped
PROPERTIES
  NextSweepHeals
  EveryRunEnds
\* A store nobody sweeps again, or whose runs are used up, may stop.
CHECK_DEADLOCK FALSE
