---------------------------- MODULE SearchWindows ----------------------------
(***************************************************************************)
(* The search windows of discovery/windows.ts and the page count of        *)
(* discovery/plan.ts.  A keyword is cut into star bands and a band that is *)
(* over GitHub's cap into creation ranges, down to a single day.           *)
(*                                                                         *)
(* A state follows one repository down that tree: the windows it is in,    *)
(* from its star band to the window being looked at, while the calendar    *)
(* year may turn between two runs of the sweep.  What is shown here of the *)
(* windows is what Discovery assumes of its own.                           *)
(***************************************************************************)
EXTENDS Integers, Sequences, FiniteSets, Functions

CONSTANTS
  Repositories,  \* [stars, created]: the repositories followed, created a day number
  Totals,        \* what a probe may report as total_count
  Years          \* the years the clock of a run may show

GITHUB_EPOCH_YEAR == 2008
EARLY_YEARS_END == 2013
MAX_RESULTS_PER_QUERY == 1000
PER_PAGE == 100

ASSUME ClockAssumption ==
  /\ Years \subseteq {y \in Nat : y > EARLY_YEARS_END}
  /\ Totals \subseteq Nat

ASSUME RepositoriesAssumption ==
  \A r \in Repositories : r.stars \in Nat /\ r.created \in Int

-----------------------------------------------------------------------------
(* Days are numbered from 1970-01-01, as Date.UTC does: months count from  *)
(* 0 and overflow into the next year.                                      *)

Leap(y) == y % 4 = 0 /\ (y % 100 # 0 \/ y % 400 = 0)

DayFromYear(y) ==
  365 * (y - 1970) + (y - 1969) \div 4 - (y - 1901) \div 100 + (y - 1601) \div 400

MonthStart ==
  <<0, 31, 59, 90, 120, 151, 181, 212, 243, 273, 304, 334>>

UTC(year, month, day) ==
  LET y == year + month \div 12
      m == month % 12
  IN  DayFromYear(y) + MonthStart[m + 1] + (IF m > 1 /\ Leap(y) THEN 1 ELSE 0) + day - 1

(* Mutant of daysInMonth: February always has 28 days.                     *)
daysInCommonMonth(year, month) == UTC(2023, month, 0) - UTC(2023, month - 1, 1) + 1

(* getUTCDate of the day before the first of the next month.               *)
daysInMonth(year, month) == UTC(year, month, 0) - UTC(year, month - 1, 1) + 1

Day(year, month, day) == UTC(year, month - 1, day)

-----------------------------------------------------------------------------
Unbounded == -1

STAR_BANDS ==
  << [lo |-> 5001, hi |-> Unbounded], [lo |-> 1000, hi |-> 5000], [lo |-> 500, hi |-> 999],
     [lo |-> 200, hi |-> 499], [lo |-> 100, hi |-> 199], [lo |-> 50, hi |-> 99],
     [lo |-> 20, hi |-> 49], [lo |-> 10, hi |-> 19], [lo |-> 5, hi |-> 9], [lo |-> 3, hi |-> 4],
     [lo |-> 2, hi |-> 2], [lo |-> 1, hi |-> 1], [lo |-> 0, hi |-> 0] >>

Always == [kind |-> "always"]   \* created: null

initialWindows == [i \in 1..Len(STAR_BANDS) |-> [stars |-> STAR_BANDS[i], created |-> Always]]

(* Mutant of YearsFrom: the last ten years only.                           *)
LastTenYears(from, to) ==
  LET first == IF to - from > 9 THEN to - 9 ELSE from
  IN  [i \in 1..(to - first + 1) |-> [kind |-> "year", year |-> first + i - 1]]

YearsFrom(from, to) == [i \in 1..(to - from + 1) |-> [kind |-> "year", year |-> from + i - 1]]

splitCreated(c, currentYear) ==
  CASE c.kind = "always" ->
         <<[kind |-> "years", from |-> GITHUB_EPOCH_YEAR, to |-> EARLY_YEARS_END]>>
           \o YearsFrom(EARLY_YEARS_END + 1, currentYear)
    [] c.kind = "years" -> YearsFrom(c.from, c.to)
    [] c.kind = "year" ->
         [q \in 1..4 |-> [kind |-> "quarter", year |-> c.year, quarter |-> q]]
    [] c.kind = "quarter" ->
         [i \in 1..3 |-> [kind |-> "month", year |-> c.year, month |-> (c.quarter - 1) * 3 + i]]
    [] c.kind = "month" ->
         [d \in 1..daysInMonth(c.year, c.month) |->
            [kind |-> "day", date |-> <<c.year, c.month, d>>]]
    [] c.kind = "day" -> <<>>

split(w, currentYear) ==
  LET parts == splitCreated(w.created, currentYear)
  IN  [i \in 1..Len(parts) |-> [w EXCEPT !.created = parts[i]]]

(* The two ends of created:from..to.                                       *)
createdRange(c) ==
  CASE c.kind = "years"   -> <<Day(c.from, 1, 1), Day(c.to, 12, 31)>>
    [] c.kind = "year"    -> <<Day(c.year, 1, 1), Day(c.year, 12, 31)>>
    [] c.kind = "quarter" ->
         LET first == (c.quarter - 1) * 3 + 1
             last  == first + 2
         IN  <<Day(c.year, first, 1), Day(c.year, last, daysInMonth(c.year, last))>>
    [] c.kind = "month"   ->
         <<Day(c.year, c.month, 1), Day(c.year, c.month, daysInMonth(c.year, c.month))>>
    [] c.kind = "day"     -> <<Day(c.date[1], c.date[2], c.date[3])>>

(* Mutant of queryOf: a window is identified by where its range begins.    *)
queryFrom(w) ==
  IF w.created = Always THEN <<w.stars>> ELSE <<w.stars, createdRange(w.created)[1]>>

(* The identity of a window in the resume point: its query, in which a day *)
(* is written as one date and any other range as two.                      *)
queryOf(w) ==
  IF w.created = Always THEN <<w.stars>> ELSE <<w.stars, createdRange(w.created)>>

(* What GitHub answers to a query: both ends of a range are included.      *)
Holds(w, r) ==
  /\ r.stars >= w.stars.lo
  /\ w.stars.hi = Unbounded \/ r.stars <= w.stars.hi
  /\ w.created # Always =>
       LET range == createdRange(w.created)
       IN  range[1] <= r.created /\ r.created <= range[Len(range)]

-----------------------------------------------------------------------------
AtLeastOne(n) == IF n < 1 THEN 1 ELSE n
Least(m, n)   == IF m < n THEN m ELSE n

(* Mutant of pagesFor: the page the probe has spent is not counted.        *)
pagesAfterProbe(count, perPage) ==
  AtLeastOne(Least(count \div perPage, MAX_RESULTS_PER_QUERY \div perPage))

pagesFor(count, perPage) ==
  AtLeastOne(Least((count + perPage - 1) \div perPage, MAX_RESULTS_PER_QUERY \div perPage))

(* What to do with a window once its probe page has come back.             *)
planWindow(w, totalCount, currentYear, perPage) ==
  LET fits     == totalCount <= MAX_RESULTS_PER_QUERY
      children == IF fits THEN <<>> ELSE split(w, currentYear)
  IN  [lastPage  |-> IF children # <<>> THEN 1
                     ELSE pagesFor(Least(totalCount, MAX_RESULTS_PER_QUERY), perPage),
       children  |-> children,
       truncated |-> ~fits /\ children = <<>>]

-----------------------------------------------------------------------------
VARIABLES
  repo,   \* the repository followed
  trail,  \* the windows it is in, from its star band down to the one being swept
  total,  \* the total_count the probe of the last of them reported
  year    \* the year the clock of the current run shows

vars == <<repo, trail, total, year>>

Last == trail[Len(trail)]
Plan == planWindow(Last, total, year, PER_PAGE)

Init ==
  /\ repo \in Repositories
  /\ year \in Years
  /\ total \in Totals
  /\ \E w \in Range(initialWindows) : Holds(w, repo) /\ trail = <<w>>

(* The window is over the cap: the sweep goes on in a part of it.          *)
Descend ==
  /\ \E w \in Range(Plan.children) : Holds(w, repo) /\ trail' = Append(trail, w)
  /\ total' \in Totals
  /\ UNCHANGED <<repo, year>>

(* The sweep is resumed in a later year.                                   *)
NewYear ==
  /\ year + 1 \in Years
  /\ year' = year + 1
  /\ UNCHANGED <<repo, trail, total>>

Next == Descend \/ NewYear

Spec == Init /\ [][Next]_vars

-----------------------------------------------------------------------------
(* Properties.                                                             *)

(* Created between the epoch and the end of the year of the sweep.         *)
Reachable == repo.created >= Day(GITHUB_EPOCH_YEAR, 1, 1) /\ repo.created <= Day(year, 12, 31)

Only(S) == Cardinality(S) = 1

(* A repository is in exactly one star band and, whichever window is       *)
(* split, in exactly one part of it: nothing falls between two windows and *)
(* nothing is fetched twice, month lengths and leap years included         *)
(* (windows.ts, split; "Must remain contiguous from 0 upward").  Windows   *)
(* are told apart by their query alone: no part has the query of another   *)
(* part, of the window or of a window that was cut from, so a sweep that   *)
(* looks up completed queries never takes a window for one already done.   *)
OneWindowPerLevel ==
  /\ Only({w \in Range(initialWindows) : Holds(w, repo)})
  /\ Reachable /\ Plan.children # <<>> =>
       Only({w \in Range(Plan.children) : Holds(w, repo)})

QueriesIdentify ==
  LET parts == Range(Plan.children)
  IN  /\ Cardinality({queryOf(w) : w \in parts}) = Cardinality(parts)
      /\ \A w \in parts : \A i \in 1..Len(trail) : queryOf(w) # queryOf(trail[i])

WindowsPartition == OneWindowPerLevel /\ QueriesIdentify

(* A plan is never asked for a page GitHub refuses, it fetches all of a    *)
(* window that fits, and what it loses to truncation is never more than    *)
(* one day's results over the cap (plan.ts, "Three outcomes").             *)
PlanLosesOnlyADay ==
  /\ Plan.lastPage * PER_PAGE <= MAX_RESULTS_PER_QUERY
  /\ Plan.children = <<>> /\ ~Plan.truncated => Plan.lastPage * PER_PAGE >= total
  /\ Plan.truncated =>
       /\ Plan.lastPage * PER_PAGE = MAX_RESULTS_PER_QUERY
       /\ createdRange(Last.created) = <<repo.created>>

(* Resuming in a later year adds windows and moves none: a query that was  *)
(* completed or is pending still names the same part of the same window    *)
(* (windows.ts, "means the same thing tomorrow").                          *)
ResumeKeepsWindows ==
  [][\A i \in 1..Len(trail) :
       Range(split(trail[i], year)) \subseteq Range(split(trail[i], year'))]_year
=============================================================================
