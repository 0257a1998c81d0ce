\* Two repositories written one at a time through four tasks; every list over three ids;
\* two sweeps and a reset of two keywords.
SPECIFICATION MCSpec
CONSTANTS
  Repos = {r1, r2}
  WriteBatch = 1
  MaxTasks = 4
  MaxFailures = 1
  MaxKills = 1
  Ids = {1, 2, 3}
  Groups = {x, y}
  Ranks = {0, 1, 2}
  NoWhere = NoWhere
  Limits = {0, 1, 2, 3, 4}
  PageSize = 2
  MaxTouched = 1
  NameOf <- MCNameOf
  ShardOf <- MCShardOf
  Shards = 2
  Keywords = {k1, k2}
  Windows = {w1, w2}
  None = None
  Wiping = TRUE
  MaxSweeps = 2
  MaxResets = 1
  MaxCuts = 2
  Parts = {"writes", "reads", "resets"}
SYMMETRY Symmetry
INVARIANTS
  NothingForgotten
  StateFollowsCorpus
  ReadsAgree
  NothingStranded
PROPERTIES
  DurableConfirmsEarlier
\* A list that is over, or a store nobody opens again, is left alone.
CHECK_DEADLOCK FALSE
