-------------------------------- MODULE Portal --------------------------------
(***************************************************************************)
(* The portal in a reader's browser (apps/web): the search page             *)
(* (routes/search.tsx, lib/search.ts) and the page of a tool                *)
(* (routes/tool.tsx), one of which is mounted.                             *)
(*                                                                         *)
(* A page is a set of effects.  What the reader does changes the URL, and   *)
(* React commits a frame of it; then the effects keyed on it clean up,      *)
(* which cancels the requests they had under way, and run again.  On the    *)
(* page of a tool the two are apart: what is on screen is decided in the    *)
(* first and corrected in the second, and React paints in between when the  *)
(* frame is that of a link or of an answer.  Only a step of the history is  *)
(* committed and has its effects in one task.  On the search page they are  *)
(* one step: what it shows comes with answers only.  React runs the effects *)
(* that are due before it renders again, so the reader goes on after them.  *)
(* A cancelled request still comes back, in any order.  The index answers   *)
(* with the documents it has at that time: they come and go as ReadModel    *)
(* says.                                                                   *)
(***************************************************************************)
EXTENDS ReadModel

CONSTANTS
  Queries, NoQuery,  \* values of ?q=, and its absence
  Families,          \* the taxonomy: a set of sets of values
  Matching,          \* of a query or a value, the documents it matches
  SuggestQueries,    \* of a query, what it may have meant
  MaxRequests        \* bound on the requests of a kind under way before the last

Values == UNION Families
Repos == ToSet(Corpus)

ASSUME PortalAssumption ==
  /\ NoQuery \in Queries /\ MaxRequests \in Nat
  /\ DOMAIN Matching = Queries \cup Values
  /\ \A q \in Queries : SuggestQueries[q] \subseteq Queries \ {q, NoQuery}

VARIABLES
  url,              \* of the search page, or of the page of a tool
  timer,            \* is a search about to be asked for?
  searches, results, error,
  verifications, suggestions,
  bootstrap,        \* the document the portal was opened with, if any
  tool, loading, fetches,
  asides, related, readme,   \* what comes with a tool
  due               \* of the frame on screen, the effects not yet run

search == <<timer, searches, results, error, verifications, suggestions>>
page   == <<bootstrap, tool, loading, fetches, asides, related, readme, due>>
portal == <<url, search, page>>

SearchUrl(q, selection) == [tool |-> {}, q |-> q, selection |-> selection]
ToolUrl(d) == [tool |-> {d}, q |-> NoQuery, selection |-> {}]
OnSearch == url.tool = {}

(* buildFilters: one of the values selected in each family; and in the      *)
(* database a document is neither archived nor irrelevant (Matching).       *)
Hits(u) ==
  {d \in DocumentsIn(Tools) \cap Matching[u.q] :
     \A f \in Families : LET selected == f \cap u.selection IN
       selected = {} \/ \E v \in selected : d \in Matching[v]}

Request(of) == [of |-> of, cancelled |-> FALSE]
\* Mutant of Cancelled: the effect has no clean-up function.
NotCancelled(requests) == requests
Cancelled(requests) == {[r EXCEPT !.cancelled = TRUE] : r \in requests}
Live(requests) == {r \in requests : ~r.cancelled}

-----------------------------------------------------------------------------
(* The search page *)

ShowEmptyState(r, e) == (\E result \in r : result.hits = {}) /\ ~e

\* Mutant of Verifying: candidates are proven on the whole corpus.
VerifyingCorpusWide(u) ==
  IF SuggestQueries[u.q] = {} THEN {}
  ELSE {Request([u EXCEPT !.selection = {}])}

(* Nothing is asked for when there is no candidate. *)
Verifying(u) == IF SuggestQueries[u.q] = {} THEN {} ELSE {Request(u)}

(* The effect that depends on the empty state and on the URL. *)
SuggestEffect(was, is, u) ==
  IF was = is /\ u = url THEN UNCHANGED <<verifications, suggestions>>
  ELSE /\ verifications' = Cancelled(verifications) \cup (IF is THEN Verifying(u) ELSE {})
       /\ suggestions' = IF is /\ SuggestQueries[u.q] # {} THEN suggestions ELSE {}

Closed == /\ tool' = {} /\ loading' = FALSE /\ fetches' = {}
          /\ asides' = {} /\ related' = {} /\ readme' = {}
          /\ due' = {} /\ UNCHANGED bootstrap

Mount(u) ==
  /\ timer' = TRUE /\ searches' = {} /\ results' = {} /\ error' = FALSE
  /\ verifications' = {} /\ suggestions' = {}
  /\ Closed

(* A change of the URL: what was found stays in place until the answer. *)
Search(u) ==
  /\ url' = u
  /\ \/ ~OnSearch /\ Mount(u)
     \/ /\ OnSearch /\ u # url
        /\ timer' = TRUE
        /\ searches' = Cancelled(searches)
        /\ LET empty == ShowEmptyState(results, error) IN SuggestEffect(empty, empty, u)
        /\ UNCHANGED <<results, error, page>>

SiteSearch == \E q \in Queries : Search(SearchUrl(q, {}))

(* A value nothing has is not in the sidebar, unless it is selected. *)
ToggleFacet == \E v \in Values :
  /\ OnSearch
  /\ v \in url.selection \/ \E r \in results : r.hits \cap Matching[v] # {}
  /\ Search([url EXCEPT !.selection = IF v \in @ THEN @ \ {v} ELSE @ \cup {v}])

ClearFilters == OnSearch /\ Search([url EXCEPT !.selection = {}])
ClearQuery == OnSearch /\ Search([url EXCEPT !.q = NoQuery])

TakeSuggestion ==
  /\ OnSearch /\ ShowEmptyState(results, error)
  /\ \E s \in suggestions : Search([url EXCEPT !.q = s.q])

(* The debounce is over. *)
Fire ==
  /\ timer /\ Cardinality(searches) <= MaxRequests
  /\ timer' = FALSE
  /\ searches' = searches \cup {Request(url)}
  /\ UNCHANGED <<url, results, error, verifications, suggestions, page>>

(* An answer, or an error, which leaves the last results in place. *)
Answer == \E r \in searches, ok \in BOOLEAN :
  LET found == IF ok THEN {[of |-> r.of, hits |-> Hits(r.of)]} ELSE results IN
  /\ searches' = searches \ {r}
  /\ IF r.cancelled THEN UNCHANGED <<results, error, verifications, suggestions>>
     ELSE /\ results' = found /\ error' = ~ok
          /\ SuggestEffect(ShowEmptyState(results, error), ShowEmptyState(found, ~ok), url)
  /\ UNCHANGED <<url, timer, page>>

(* verifySuggestions: the candidates that have results, under the filters of *)
(* the search that was asked; none when it fails.                           *)
Verify == \E r \in verifications, ok \in BOOLEAN :
  /\ verifications' = verifications \ {r}
  /\ suggestions' =
       IF r.cancelled THEN suggestions
       ELSE IF ~ok THEN {}
       ELSE {[q |-> q, under |-> r.of.selection] :
               q \in {c \in SuggestQueries[r.of.q] : Hits([r.of EXCEPT !.q = c]) # {}}}
  /\ UNCHANGED <<url, timer, searches, results, error, page>>

-----------------------------------------------------------------------------
(* The page of a tool *)

(* The effect keyed on the document's name. *)
Asides(t) ==
  asides' = Cancelled(asides)
    \cup UNION {{[kind |-> k, of |-> d, cancelled |-> FALSE] : k \in {"related", "readme"}} : d \in t}

(* The effect keyed on the name in the URL. *)
Load(d, t) ==
  /\ fetches' = Cancelled(fetches) \cup (IF t = {d} THEN {} ELSE {Request(d)})
  /\ loading' = (t # {d})

(* The frame under the URL of a tool.  A page that is mounted begins with   *)
(* the document the portal was opened with, if it is the one; the page of   *)
(* another tool is not mounted again, and keeps what it has.                *)
Shown(d) == IF OnSearch THEN bootstrap \cap {d} ELSE tool
Show(d) ==
  /\ url' = ToolUrl(d) /\ tool' = Shown(d)
  /\ IF OnSearch THEN /\ timer' = FALSE /\ searches' = {} /\ results' = {} /\ error' = FALSE
                      /\ verifications' = {} /\ suggestions' = {}
     ELSE UNCHANGED search
  /\ UNCHANGED <<bootstrap, related, readme>>

(* What has a link on screen: a hit, or an alternative to the tool. *)
Linked(d) ==
  IF OnSearch THEN \E r \in results : d \in r.hits
  ELSE ~loading /\ tool # {} /\ related = tool /\ d \notin tool

(* A link: a frame is committed, and its effects are due.  A new page has   *)
(* its first ones, another tool only the one keyed on the URL.              *)
Follow == \E d \in Repos :
  /\ Linked(d) /\ Show(d)
  /\ loading' = IF OnSearch THEN tool' = {} ELSE loading
  /\ due' = IF OnSearch THEN {"mount"} ELSE {"document"}
  /\ UNCHANGED <<fetches, asides>>

(* A step of the browser's history. *)
Return == \E d \in Repos :
  /\ url.tool # {d} /\ Show(d) /\ Load(d, Shown(d))
  /\ IF OnSearch THEN Asides(Shown(d)) ELSE UNCHANGED asides
  /\ UNCHANGED due

Effects ==
  /\ due # {} /\ due' = {}
  /\ IF due \cap {"mount", "document"} # {} THEN \E d \in url.tool : Load(d, tool)
     ELSE UNCHANGED <<fetches, loading>>
  /\ IF due \cap {"mount", "asides"} # {} THEN Asides(tool) ELSE UNCHANGED asides
  /\ UNCHANGED <<url, search, bootstrap, tool, related, readme>>

(* Opening the portal at a tool.  Its page may have been prerendered: the   *)
(* document came with it then, whether the index still has it or not        *)
(* (bootstrapToolFor).                                                      *)
Opened(d) ==
  /\ url = ToolUrl(d) /\ bootstrap \in {{}, {d}}
  /\ timer = FALSE /\ searches = {} /\ results = {} /\ error = FALSE
  /\ verifications = {} /\ suggestions = {}
  /\ tool = bootstrap /\ loading = (tool = {}) /\ due = {"mount"}
  /\ fetches = {} /\ asides = {} /\ related = {} /\ readme = {}

(* getTool: null when there is no such document, and whatever the failure.  *)
Document == \E r \in fetches, ok \in BOOLEAN :
  LET document == {r.of} \cap (IF ok THEN DocumentsIn(Tools) ELSE {}) IN
  /\ fetches' = fetches \ {r}
  /\ IF r.cancelled THEN UNCHANGED <<tool, loading, due>>
     ELSE /\ tool' = document /\ loading' = FALSE
          /\ due' = IF document = tool THEN due ELSE due \cup {"asides"}
  /\ UNCHANGED <<url, search, bootstrap, asides, related, readme>>

Aside == \E r \in asides, ok \in BOOLEAN :
  /\ asides' = asides \ {r}
  /\ related' = IF ok /\ ~r.cancelled /\ r.kind = "related" THEN {r.of} ELSE related
  /\ readme' = IF ok /\ ~r.cancelled /\ r.kind = "readme" THEN {r.of} ELSE readme
  /\ UNCHANGED <<url, search, bootstrap, tool, loading, fetches, due>>

-----------------------------------------------------------------------------
Cold(u) ==
  /\ url = u
  /\ timer = TRUE /\ searches = {} /\ results = {} /\ error = FALSE
  /\ verifications = {} /\ suggestions = {}
  /\ bootstrap = {} /\ tool = {} /\ loading = FALSE /\ fetches = {}
  /\ asides = {} /\ related = {} /\ readme = {} /\ due = {}

PortalInit ==
  \/ \E q \in Queries, selection \in SUBSET Values : Cold(SearchUrl(q, selection))
  \/ \E d \in Repos : Opened(d)

(* The reader goes on once the requests are few enough (a bound). *)
Reader == /\ due = {}
          /\ \A requests \in {searches, verifications, fetches, asides} :
               Cardinality(Cancelled(requests)) <= MaxRequests
          /\ \/ SiteSearch \/ ToggleFacet \/ ClearFilters \/ ClearQuery \/ TakeSuggestion
             \/ Follow \/ Return

PortalNext == Reader \/ Effects \/ Fire \/ Answer \/ Verify \/ Document \/ Aside

-----------------------------------------------------------------------------
(* Whatever order the answers of earlier URLs come back in, a quiet search  *)
(* page shows the results of the URL in the address bar, unless the search  *)
(* failed: the last results stay under its message then (search.tsx:63-78). *)
(* A tool is never shown under the name of another, but in the one frame a  *)
(* link from one to the other commits before its effect (tool.tsx:54-60);   *)
(* the first frame of a page that is mounted is none of those.  What may    *)
(* still fill in alternatives or a README is of the tool on screen, once    *)
(* the effect that asks for them has run (tool.tsx:73-94).                 *)
PagesFollowUrl ==
  /\ OnSearch /\ ~timer /\ Live(searches) = {} /\ ~error => \E r \in results : r.of = url
  /\ ~OnSearch /\ ~loading /\ "document" \notin due => tool \subseteq url.tool
  /\ ~OnSearch /\ "asides" \notin due => \A r \in Live(asides) : tool = {r.of}

(* "`<Routes>` remounts `ToolPage` on every `/tools/:owner/:repo` visit",   *)
(* so that no committed frame has a tool under the URL of another           *)
(* (lib/bootstrap.ts:34-40).                                               *)
EveryFrameFollowsUrl == ~OnSearch /\ ~loading => tool \subseteq url.tool

(* "Did you mean" offers, once the page is quiet, only what was proven under *)
(* the filters the offered search will run with (lib/search.ts:94-98).     *)
OffersAreProven ==
  OnSearch /\ ~timer /\ Live(searches) = {} /\ Live(verifications) = {} =>
    \A s \in suggestions : s.q \in SuggestQueries[url.q] /\ s.under = url.selection

(* "Handing back an empty page [...] would be the exact failure this        *)
(* function exists to prevent" (lib/search.ts:94-98): in an index nobody   *)
(* changes, what is offered leads somewhere.                               *)
OffersLeadSomewhere ==
  OnSearch /\ ShowEmptyState(results, error) =>
    \A s \in suggestions : Hits([url EXCEPT !.q = s.q]) # {}
=============================================================================
