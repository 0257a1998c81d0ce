\* A reset cut between repositories and state, and the sweep that resumes.
SPECIFICATION MCSpec
CONSTANTS
  Repos = {r1, r2}
  WriteBatch = 1
  MaxTasks = 4
  MaxFailures = 1
  MaxKills = 1
  Ids = {1, 2, 3}
  Groups = {x, y}
  Ranks = {0, 1, 2}
  NoWhere = NoWhere
  Limits = {0, 1, 2, 3, 4}
  PageSize = 2
  MaxTouched = 1
  NameOf <- MCNameOf
  ShardOf <- MCShardOf
  Shards = 2
  Keywords = {k1, k2}
  Windows = {w1, w2}
  None = None
  Wiping = FALSE
  MaxSweeps = 2
  MaxResets = 1
  MaxCuts = 2
  Parts = {"resets"}
SYMMETRY Symmetry
INVARIANTS
  NextSweepRerecords
\* Every process may have ended.
CHECK_DEADLOCK FALSE
