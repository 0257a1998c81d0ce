\* Every day of the years in which the calendar changes shape; three pages at a time.
SPECIFICATION MCSpec
CONSTANTS
  Repositories <- MCRepositories
  Totals <- MCTotals
  Years <- MCYears
  Callers = {c1, c2, c3}
  MinInterval = 2
  MaxRetries = 2
  Floor = 3
  Ceiling = 4
  Headers = {0, 1, 5}
  Backoff <- MCBackoff
INVARIANTS
  WindowsPartition
  PlanLosesOnlyADay
PROPERTIES
  ResumeKeepsWindows
  NoRequestTooSoon
  EveryPageEnds
\* A repository that has reached its day, or is out of reach, stays there.
CHECK_DEADLOCK FALSE
