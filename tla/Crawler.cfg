\* A crawler with two appends in flight and an analyzer, one after the other;
\* two calls of the storage at once on two keys;
\* a pool of two over four repositories, an hour that may run dry, one failure.
SPECIFICATION MCSpec
CONSTANTS
  Procs = {"crawler", "analyzer"}
  Consumer = "analyzer"
  Bodies = {"fact"}
  Concurrency = 2
  Overlap = FALSE
  Operator = FALSE
  IdsPerMs = 2
  MsPerDay = 2
  Entropy = {0, 1}
  MaxClock = 5
  Clients = {c1, c2}
  Keys = {f1, f2}
  Values = {v1, v2}
  Absent = Absent
  Torn = Torn
  Items = 4
  PoolSize = 2
  Requests = 2
  Attempts = 1
  Budget = 9
  Reserve = 7
  Starts = {0, 8}
  MaxHour = 2
  MaxFaults = 1
INVARIANTS
  NothingSkipped
  DrainsBacklog
  RecordAddsUp
  OverspendBounded
PROPERTIES
  ReadEnds
  IsARegister
  FirstEndingStands
  RunEnds
\* Every process may have ended and the clock is bounded.
CHECK_DEADLOCK FALSE
