--------------------------- MODULE ReadSide_proofs ---------------------------
(***************************************************************************)
(* What TLAPS proves of the read side.  Of Portal, whatever the reader     *)
(* does, whatever comes back in whatever order, and whatever becomes of    *)
(* the index meanwhile: a quiet page is of its URL.  Of ReadModel, whatever *)
(* fails or is killed: a command that comes to its end did its work.       *)
(***************************************************************************)
EXTENDS Portal, SequenceTheorems, TLAPS

PortalSpec == PortalInit /\ [][PortalNext]_portal

AtMostOne == {{}} \cup {{d} : d \in Repos}
Urls == [tool : AtMostOne, q : Queries, selection : SUBSET Values]
RequestsOf(S) == [of : S, cancelled : BOOLEAN]
AsideRequests == [kind : {"related", "readme"}, of : Repos, cancelled : BOOLEAN]

PortalTypeOK ==
  /\ url \in Urls
  /\ timer \in BOOLEAN /\ error \in BOOLEAN /\ loading \in BOOLEAN
  /\ searches \subseteq RequestsOf(Urls) /\ verifications \subseteq RequestsOf(Urls)
  /\ suggestions \subseteq [q : Queries, under : SUBSET Values]
  /\ fetches \subseteq RequestsOf(Repos) /\ asides \subseteq AsideRequests
  /\ bootstrap \in SUBSET Repos /\ tool \in AtMostOne
  /\ due \subseteq {"mount", "document", "asides"}

(* Only one of the two pages is mounted.                                   *)
MountedInv ==
  /\ OnSearch => tool = {} /\ loading = FALSE /\ fetches = {} /\ asides = {} /\ due = {}
  /\ ~OnSearch => timer = FALSE /\ searches = {} /\ verifications = {} /\ suggestions = {}

(* A search that was not cancelled is of the URL, and there is one, or one *)
(* to come, or its answer is there.                                        *)
SearchInv ==
  /\ \A r \in Live(searches) : r.of = url
  /\ timer => Live(searches) = {}
  /\ OnSearch => timer \/ Live(searches) # {} \/ error \/ \E r \in results : r.of = url

(* So is a verification, and what is offered was proven under the URL      *)
(* unless a verification is under way.                                     *)
OfferInv ==
  /\ \A r \in Live(verifications) : r.of = url
  /\ \/ Live(verifications) # {}
     \/ \A s \in suggestions : s.q \in SuggestQueries[url.q] /\ s.under = url.selection

(* A document under way is of the tool in the URL, and the page says so:   *)
(* there is no link to follow before it comes.  What was fetched with a     *)
(* document is of the one on screen, unless the effect that cancels it and  *)
(* asks for the other is due.                                              *)
ToolInv ==
  /\ \A r \in Live(fetches) : {r.of} = url.tool
  /\ Live(fetches) # {} => loading /\ due \cap {"mount", "document"} = {}
  /\ ~OnSearch /\ ~loading /\ "document" \notin due => tool \subseteq url.tool
  /\ "asides" \notin due => \A r \in Live(asides) : tool = {r.of}

PortalInv == PortalTypeOK /\ MountedInv /\ SearchInv /\ OfferInv /\ ToolInv

-----------------------------------------------------------------------------
LEMMA Cancelling ==
  ASSUME NEW S, NEW requests \in SUBSET RequestsOf(S)
  PROVE  Cancelled(requests) \subseteq RequestsOf(S) /\ Live(Cancelled(requests)) = {}
<1>1. \A r \in RequestsOf(S) : /\ [r EXCEPT !.cancelled = TRUE] \in RequestsOf(S)
                             /\ [r EXCEPT !.cancelled = TRUE].cancelled = TRUE
  BY DEF RequestsOf
<1>2. \A r \in Cancelled(requests) : r \in RequestsOf(S) /\ r.cancelled = TRUE
  BY <1>1 DEF Cancelled
<1> QED BY <1>2 DEF Live

LEMMA CancellingAsides ==
  ASSUME NEW requests \in SUBSET AsideRequests
  PROVE  Cancelled(requests) \subseteq AsideRequests /\ Live(Cancelled(requests)) = {}
<1>1. \A r \in AsideRequests : /\ [r EXCEPT !.cancelled = TRUE] \in AsideRequests
                             /\ [r EXCEPT !.cancelled = TRUE].cancelled = TRUE
  BY DEF AsideRequests
<1>2. \A r \in Cancelled(requests) : r \in AsideRequests /\ r.cancelled = TRUE
  BY <1>1 DEF Cancelled
<1> QED BY <1>2 DEF Live

LEMMA LiveUnion == ASSUME NEW S, NEW T PROVE Live(S \cup T) = Live(S) \cup Live(T)
BY DEF Live

LEMMA LiveLess == ASSUME NEW S, NEW r PROVE Live(S \ {r}) = Live(S) \ {r}
BY DEF Live

LEMMA Requesting ==
  ASSUME NEW S, NEW of \in S
  PROVE  Request(of) \in RequestsOf(S) /\ Request(of).of = of /\ Live({Request(of)}) = {Request(of)}
BY DEF RequestsOf, Request, Live

LEMMA AskingAgain ==
  ASSUME NEW requests, Live(requests) = {}, NEW of
  PROVE  Live(requests \cup {Request(of)}) = {Request(of)}
<1>1. Live({Request(of)}) = {Request(of)}
  BY DEF Request, Live
<1>2. Live(requests \cup {Request(of)}) = Live(requests) \cup Live({Request(of)})
  BY LiveUnion
<1> QED BY <1>1, <1>2

LEMMA AsidesOf ==
  ASSUME NEW t \in Repos,
         NEW s \in {[kind |-> k, of |-> t, cancelled |-> FALSE] : k \in {"related", "readme"}}
  PROVE  s \in AsideRequests /\ s.of = t
<1>1. PICK k \in {"related", "readme"} : s = [kind |-> k, of |-> t, cancelled |-> FALSE]
  OBVIOUS
<1> QED BY <1>1 DEF AsideRequests

LEMMA OneOrNone ==
  ASSUME NEW S \in AtMostOne
  PROVE  /\ S \subseteq Repos
         /\ \A d \in S : S = {d}
         /\ \A T \in SUBSET S : T \in AtMostOne
<1>1. CASE S = {}
  BY <1>1 DEF AtMostOne
<1>2. CASE S # {}
  <2>1. PICK d \in Repos : S = {d}
    BY <1>2 DEF AtMostOne
  <2>2. \A T \in SUBSET S : T = {} \/ T = {d}
    BY <2>1
  <2> QED BY <2>1, <2>2 DEF AtMostOne
<1> QED BY <1>1, <1>2

LEMMA PortalInitInv == PortalInit => PortalInv
<1>1. ASSUME NEW u \in Urls, u.tool = {}, Cold(u) PROVE PortalInv
  <2>1. /\ url = u /\ timer = TRUE /\ searches = {} /\ results = {} /\ error = FALSE
        /\ verifications = {} /\ suggestions = {} /\ tool = {} /\ loading = FALSE
        /\ fetches = {} /\ asides = {} /\ bootstrap = {} /\ due = {}
    BY <1>1 DEF Cold
  <2>2. PortalTypeOK
    BY <1>1, <2>1 DEF PortalTypeOK, AtMostOne
  <2>3. OnSearch /\ Live(searches) = {} /\ Live(verifications) = {} /\ Live(fetches) = {} /\ Live(asides) = {}
    BY <1>1, <2>1 DEF OnSearch, Live
  <2> QED BY <2>1, <2>2, <2>3 DEF PortalInv, MountedInv, SearchInv, OfferInv, ToolInv
<1>2. ASSUME NEW d \in Repos, Opened(d) PROVE PortalInv
  <2>1. /\ url = ToolUrl(d) /\ timer = FALSE /\ searches = {} /\ results = {} /\ error = FALSE
        /\ verifications = {} /\ suggestions = {} /\ bootstrap \in {{}, {d}} /\ tool = bootstrap
        /\ loading = (tool = {}) /\ due = {"mount"} /\ fetches = {} /\ asides = {}
    BY <1>2 DEF Opened
  <2>2. url.tool = {d} /\ url \in Urls
    BY <2>1, PortalAssumption DEF ToolUrl, Urls, AtMostOne
  <2>3. PortalTypeOK
    BY <2>1, <2>2 DEF PortalTypeOK, AtMostOne
  <2>4. /\ ~OnSearch /\ Live(searches) = {} /\ Live(verifications) = {} /\ Live(fetches) = {}
        /\ Live(asides) = {}
    BY <2>1, <2>2 DEF OnSearch, Live
  <2>5. MountedInv /\ SearchInv /\ OfferInv
    BY <2>1, <2>4 DEF MountedInv, SearchInv, OfferInv
  <2>6. ToolInv
    BY <2>1, <2>2, <2>4 DEF ToolInv
  <2> QED BY <2>3, <2>5, <2>6 DEF PortalInv
<1>3. \A q \in Queries, selection \in SUBSET Values :
        SearchUrl(q, selection) \in Urls /\ SearchUrl(q, selection).tool = {}
  BY DEF SearchUrl, Urls, AtMostOne
<1> QED BY <1>1, <1>2, <1>3 DEF PortalInit

-----------------------------------------------------------------------------
(* The effects keyed on the URL and the empty state.                       *)
LEMMA SuggestEffectDoes ==
  ASSUME PortalTypeOK, OfferInv, NEW was \in BOOLEAN, NEW is \in BOOLEAN, NEW u \in Urls,
         SuggestEffect(was, is, u), url' = u
  PROVE  /\ OfferInv' /\ verifications' \subseteq RequestsOf(Urls)
         /\ suggestions' \subseteq [q : Queries, under : SUBSET Values]
<1>1. CASE was = is /\ u = url
  BY <1>1 DEF SuggestEffect, OfferInv, PortalTypeOK
<1>2. CASE ~(was = is /\ u = url)
  <2>1. /\ verifications' = Cancelled(verifications) \cup (IF is THEN Verifying(u) ELSE {})
        /\ suggestions' = (IF is /\ SuggestQueries[u.q] # {} THEN suggestions ELSE {})
    BY <1>2 DEF SuggestEffect
  <2>2. /\ Live(Cancelled(verifications)) = {} /\ Cancelled(verifications) \subseteq RequestsOf(Urls)
        /\ suggestions' \subseteq [q : Queries, under : SUBSET Values]
    BY <2>1, Cancelling DEF PortalTypeOK
  <2>3. CASE is /\ SuggestQueries[u.q] # {}
    <3>1. verifications' = Cancelled(verifications) \cup {Request(u)}
      BY <2>1, <2>3 DEF Verifying
    <3>2. Live(verifications') = {Request(u)}
      BY <2>2, <3>1, AskingAgain
    <3>3. verifications' \subseteq RequestsOf(Urls) /\ \A r \in Live(verifications') : r.of = u
      BY <2>2, <3>1, <3>2, Requesting
    <3> QED BY <2>2, <3>2, <3>3 DEF OfferInv
  <2>4. CASE ~(is /\ SuggestQueries[u.q] # {})
    <3>1. verifications' = Cancelled(verifications) /\ suggestions' = {}
      BY <2>1, <2>4 DEF Verifying
    <3> QED BY <2>2, <3>1 DEF OfferInv
  <2> QED BY <2>3, <2>4
<1> QED BY <1>1, <1>2

LEMMA SearchKeeps ==
  ASSUME PortalInv, NEW u \in Urls, u.tool = {}, Search(u)
  PROVE  PortalInv'
<1> USE DEF PortalInv
<1>1. url' = u
  BY DEF Search
<1>2. CASE ~OnSearch /\ Mount(u)
  <2>1. /\ timer' = TRUE /\ searches' = {} /\ results' = {} /\ error' = FALSE
        /\ verifications' = {} /\ suggestions' = {} /\ tool' = {} /\ loading' = FALSE
        /\ fetches' = {} /\ asides' = {} /\ due' = {} /\ bootstrap' = bootstrap
    BY <1>2 DEF Mount, Closed
  <2>2. PortalTypeOK'
    BY <1>1, <2>1 DEF PortalTypeOK, AtMostOne
  <2> QED BY <1>1, <2>1, <2>2 DEF MountedInv, SearchInv, OfferInv, ToolInv, OnSearch, Live
<1>3. CASE OnSearch /\ ~(~OnSearch /\ Mount(u))
  <2> DEFINE empty == ShowEmptyState(results, error)
  <2>1. /\ timer' = TRUE /\ searches' = Cancelled(searches)
        /\ SuggestEffect(empty, empty, u)
        /\ UNCHANGED <<results, error, bootstrap, tool, loading, fetches, asides, due>>
    BY <1>3 DEF Search, page
  <2>2. empty \in BOOLEAN
    BY DEF ShowEmptyState
  <2>3. /\ OfferInv' /\ verifications' \subseteq RequestsOf(Urls)
        /\ suggestions' \subseteq [q : Queries, under : SUBSET Values]
    BY <1>1, <2>1, <2>2, SuggestEffectDoes
  <2>4. Live(Cancelled(searches)) = {} /\ Cancelled(searches) \subseteq RequestsOf(Urls)
    BY Cancelling DEF PortalTypeOK
  <2>5. PortalTypeOK'
    BY <1>1, <2>1, <2>3, <2>4 DEF PortalTypeOK
  <2>6. OnSearch' /\ tool = {} /\ loading = FALSE /\ fetches = {} /\ asides = {} /\ due = {}
    BY <1>1, <1>3 DEF OnSearch, MountedInv
  <2>7. MountedInv' /\ SearchInv'
    BY <2>1, <2>4, <2>6 DEF MountedInv, SearchInv
  <2>8. ToolInv'
    BY <2>1, <2>6 DEF ToolInv, Live
  <2> QED BY <2>3, <2>5, <2>7, <2>8
<1> QED BY <1>2, <1>3 DEF Search

LEMMA ReaderSearches ==
  ASSUME PortalInv, SiteSearch \/ ToggleFacet \/ ClearFilters \/ ClearQuery \/ TakeSuggestion
  PROVE  PortalInv'
<1> USE DEF PortalInv, PortalTypeOK
<1>1. CASE SiteSearch
  <2>1. PICK q \in Queries : Search(SearchUrl(q, {}))
    BY <1>1 DEF SiteSearch
  <2>2. SearchUrl(q, {}) \in Urls /\ SearchUrl(q, {}).tool = {}
    BY DEF SearchUrl, Urls, AtMostOne
  <2> QED BY <2>1, <2>2, SearchKeeps
<1>2. CASE ToggleFacet
  <2>1. PICK v \in Values : /\ OnSearch
                           /\ Search([url EXCEPT !.selection = IF v \in @ THEN @ \ {v} ELSE @ \cup {v}])
    BY <1>2 DEF ToggleFacet
  <2> DEFINE u == [url EXCEPT !.selection = IF v \in @ THEN @ \ {v} ELSE @ \cup {v}]
  <2>2. u \in Urls /\ u.tool = {}
    BY <2>1 DEF Urls, OnSearch
  <2> QED BY <2>1, <2>2, SearchKeeps
<1>3. CASE ClearFilters
  <2>1. [url EXCEPT !.selection = {}] \in Urls /\ [url EXCEPT !.selection = {}].tool = {}
    BY <1>3 DEF ClearFilters, Urls, OnSearch
  <2> QED BY <1>3, <2>1, SearchKeeps DEF ClearFilters
<1>4. ASSUME NEW q \in Queries, OnSearch, Search([url EXCEPT !.q = q]) PROVE PortalInv'
  <2>1. [url EXCEPT !.q = q] \in Urls /\ [url EXCEPT !.q = q].tool = {}
    BY <1>4 DEF Urls, OnSearch
  <2> QED BY <1>4, <2>1, SearchKeeps
<1>5. CASE ClearQuery
  BY <1>4, <1>5, PortalAssumption DEF ClearQuery
<1>6. CASE TakeSuggestion
  BY <1>4, <1>6 DEF TakeSuggestion
<1> QED BY <1>1, <1>2, <1>3, <1>5, <1>6

(* The frame: the search page goes, and the tool page begins or stays.     *)
LEMMA ShowDoes ==
  ASSUME PortalInv, NEW d \in Repos, Show(d)
  PROVE  /\ url' \in Urls /\ url'.tool = {d} /\ ~OnSearch'
         /\ tool' = Shown(d) /\ tool' \in AtMostOne /\ bootstrap' = bootstrap
         /\ timer' = FALSE /\ searches' = {} /\ verifications' = {} /\ suggestions' = {}
         /\ error' \in BOOLEAN
         /\ SearchInv' /\ OfferInv'
<1> USE DEF PortalInv
<1>1. /\ url' = ToolUrl(d) /\ tool' = Shown(d) /\ bootstrap' = bootstrap
      /\ \/ /\ OnSearch /\ timer' = FALSE /\ searches' = {} /\ error' = FALSE
            /\ verifications' = {} /\ suggestions' = {}
         \/ ~OnSearch /\ UNCHANGED search
  BY DEF Show
<1>2. url'.tool = {d} /\ ~OnSearch' /\ url' \in Urls
  BY <1>1, PortalAssumption DEF ToolUrl, OnSearch, Urls, AtMostOne
<1>3. /\ timer' = FALSE /\ searches' = {} /\ verifications' = {} /\ suggestions' = {}
      /\ error' \in BOOLEAN
  BY <1>1 DEF search, MountedInv, PortalTypeOK
<1>4. tool' \in AtMostOne
  <2>1. bootstrap \cap {d} \in AtMostOne
    BY DEF AtMostOne
  <2> QED BY <1>1, <2>1 DEF Shown, PortalTypeOK
<1>5. SearchInv' /\ OfferInv'
  BY <1>2, <1>3 DEF SearchInv, OfferInv, Live
<1> QED BY <1>1, <1>2, <1>3, <1>4, <1>5

(* The effect keyed on the name in the URL.                                *)
LEMMA LoadDoes ==
  ASSUME PortalTypeOK, NEW d \in Repos, NEW t, Load(d, t)
  PROVE  /\ fetches' \subseteq RequestsOf(Repos) /\ loading' \in BOOLEAN
         /\ \A r \in Live(fetches') : r.of = d
         /\ Live(fetches') # {} => loading'
         /\ ~loading' => t = {d}
<1>1. /\ loading' = (t # {d})
      /\ fetches' = Cancelled(fetches) \cup (IF t = {d} THEN {} ELSE {Request(d)})
  BY DEF Load
<1>2. Live(Cancelled(fetches)) = {} /\ Cancelled(fetches) \subseteq RequestsOf(Repos)
  BY Cancelling DEF PortalTypeOK
<1>3. CASE t = {d}
  <2>1. fetches' = Cancelled(fetches)
    BY <1>1, <1>3
  <2> QED BY <1>1, <1>2, <1>3, <2>1
<1>4. CASE t # {d}
  <2>1. fetches' = Cancelled(fetches) \cup {Request(d)}
    BY <1>1, <1>4
  <2>2. Live(fetches') = {Request(d)}
    BY <1>2, <2>1, AskingAgain
  <2> QED BY <1>1, <1>2, <1>4, <2>1, <2>2, Requesting
<1> QED BY <1>3, <1>4

(* The effect keyed on the document.                                       *)
LEMMA AsidesDo ==
  ASSUME PortalTypeOK, NEW t \in AtMostOne, Asides(t)
  PROVE  asides' \subseteq AsideRequests /\ \A s \in Live(asides') : t = {s.of}
<1> DEFINE new == UNION {{[kind |-> k, of |-> d, cancelled |-> FALSE] : k \in {"related", "readme"}}
                           : d \in t}
<1>1. asides' = Cancelled(asides) \cup new
  BY DEF Asides
<1>2. ASSUME NEW s \in new PROVE s \in AsideRequests /\ t = {s.of}
  <2>1. PICK d \in t :
          s \in {[kind |-> k, of |-> d, cancelled |-> FALSE] : k \in {"related", "readme"}}
    OBVIOUS
  <2>2. d \in Repos /\ t = {d}
    BY OneOrNone
  <2> QED BY <2>1, <2>2, AsidesOf
<1> HIDE DEF new
<1>3. Live(Cancelled(asides)) = {} /\ Cancelled(asides) \subseteq AsideRequests
  BY CancellingAsides DEF PortalTypeOK
<1>4. Live(asides') \subseteq new
  BY <1>1, <1>3, LiveUnion DEF Live
<1> QED BY <1>1, <1>2, <1>3, <1>4

LEMMA FollowKeeps == ASSUME PortalInv, Follow, due = {} PROVE PortalInv'
<1> USE DEF PortalInv
<1>1. PICK d \in Repos :
        /\ Linked(d) /\ Show(d) /\ UNCHANGED <<fetches, asides>>
        /\ loading' = (IF OnSearch THEN tool' = {} ELSE loading)
        /\ due' = (IF OnSearch THEN {"mount"} ELSE {"document"})
  BY DEF Follow
<1>2. /\ url' \in Urls /\ url'.tool = {d} /\ ~OnSearch'
      /\ tool' = Shown(d) /\ tool' \in AtMostOne /\ bootstrap' = bootstrap
      /\ timer' = FALSE /\ searches' = {} /\ verifications' = {} /\ suggestions' = {}
      /\ error' \in BOOLEAN
      /\ SearchInv' /\ OfferInv'
  BY <1>1, ShowDoes
<1>3. PortalTypeOK' /\ MountedInv'
  <2>1. loading' \in BOOLEAN /\ due' \subseteq {"mount", "document", "asides"}
    BY <1>1 DEF PortalTypeOK
  <2> QED BY <1>1, <1>2, <2>1 DEF PortalTypeOK, MountedInv
<1>4. Live(fetches') = {}
  <2>1. CASE OnSearch
    BY <1>1, <2>1 DEF MountedInv, Live
  <2>2. CASE ~OnSearch
    BY <1>1, <2>2 DEF Linked, ToolInv
  <2> QED BY <2>1, <2>2
<1>5. ~loading' /\ "document" \notin due' => tool' \subseteq url'.tool
  BY <1>1, <1>2 DEF Shown
<1>6. \A r \in Live(asides') : tool' = {r.of}
  <2>1. CASE OnSearch
    BY <1>1, <2>1 DEF MountedInv, Live
  <2>2. CASE ~OnSearch
    BY <1>1, <1>2, <2>2 DEF Shown, ToolInv
  <2> QED BY <2>1, <2>2
<1>7. ToolInv'
  BY <1>4, <1>5, <1>6 DEF ToolInv
<1> QED BY <1>2, <1>3, <1>7

LEMMA ReturnKeeps == ASSUME PortalInv, Return, due = {} PROVE PortalInv'
<1> USE DEF PortalInv
<1>1. PICK d \in Repos :
        /\ Show(d) /\ Load(d, Shown(d)) /\ due' = due
        /\ IF OnSearch THEN Asides(Shown(d)) ELSE UNCHANGED asides
  BY DEF Return
<1>2. /\ url' \in Urls /\ url'.tool = {d} /\ ~OnSearch'
      /\ tool' = Shown(d) /\ tool' \in AtMostOne /\ bootstrap' = bootstrap
      /\ timer' = FALSE /\ searches' = {} /\ verifications' = {} /\ suggestions' = {}
      /\ error' \in BOOLEAN
      /\ SearchInv' /\ OfferInv'
  BY <1>1, ShowDoes
<1>3. /\ fetches' \subseteq RequestsOf(Repos) /\ loading' \in BOOLEAN
      /\ \A r \in Live(fetches') : r.of = d
      /\ Live(fetches') # {} => loading'
      /\ ~loading' => tool' = {d}
  BY <1>1, <1>2, LoadDoes
<1>4. asides' \subseteq AsideRequests /\ \A r \in Live(asides') : tool' = {r.of}
  <2>1. CASE OnSearch
    BY <1>1, <1>2, <2>1, AsidesDo
  <2>2. CASE ~OnSearch
    BY <1>1, <1>2, <2>2 DEF Shown, ToolInv, PortalTypeOK
  <2> QED BY <2>1, <2>2
<1>5. PortalTypeOK' /\ MountedInv'
  BY <1>1, <1>2, <1>3, <1>4 DEF PortalTypeOK, MountedInv
<1>6. ToolInv'
  BY <1>1, <1>2, <1>3, <1>4 DEF ToolInv
<1> QED BY <1>2, <1>5, <1>6

LEMMA EffectsKeep == ASSUME PortalInv, Effects PROVE PortalInv'
<1> USE DEF PortalInv
<1>1. /\ due # {} /\ due' = {}
      /\ UNCHANGED <<url, timer, searches, results, error, verifications, suggestions, bootstrap, tool>>
  BY DEF Effects, search
<1>2. ~OnSearch /\ ~OnSearch'
  BY <1>1 DEF MountedInv, OnSearch
<1>3. /\ fetches' \subseteq RequestsOf(Repos) /\ loading' \in BOOLEAN
      /\ \A r \in Live(fetches') : {r.of} = url.tool
      /\ Live(fetches') # {} => loading'
      /\ ~loading' => tool \subseteq url.tool
  <2>1. CASE due \cap {"mount", "document"} # {}
    <3>1. PICK d \in url.tool : Load(d, tool)
      BY <2>1 DEF Effects
    <3>2. d \in Repos /\ url.tool = {d}
      BY OneOrNone DEF PortalTypeOK, Urls
    <3> QED BY <3>1, <3>2, LoadDoes
  <2>2. CASE due \cap {"mount", "document"} = {}
    <3>1. UNCHANGED <<fetches, loading>>
      BY <2>2 DEF Effects
    <3> QED BY <1>2, <2>2, <3>1 DEF PortalTypeOK, ToolInv
  <2> QED BY <2>1, <2>2
<1>4. asides' \subseteq AsideRequests /\ \A r \in Live(asides') : tool = {r.of}
  <2>1. CASE due \cap {"mount", "asides"} # {}
    BY <2>1, AsidesDo DEF Effects, PortalTypeOK
  <2>2. CASE due \cap {"mount", "asides"} = {}
    <3>1. UNCHANGED asides
      BY <2>2 DEF Effects
    <3> QED BY <2>2, <3>1 DEF PortalTypeOK, ToolInv
  <2> QED BY <2>1, <2>2
<1>5. PortalTypeOK' /\ MountedInv'
  BY <1>1, <1>2, <1>3, <1>4 DEF PortalTypeOK, MountedInv
<1>6. SearchInv' /\ OfferInv'
  BY <1>1, <1>2 DEF SearchInv, OfferInv, OnSearch
<1>7. ToolInv'
  BY <1>1, <1>2, <1>3, <1>4 DEF ToolInv
<1> QED BY <1>5, <1>6, <1>7

LEMMA FireKeeps == ASSUME PortalInv, Fire PROVE PortalInv'
<1> USE DEF PortalInv
<1>1. /\ timer /\ timer' = FALSE /\ searches' = searches \cup {Request(url)}
      /\ UNCHANGED <<url, results, error, verifications, suggestions,
                     bootstrap, tool, loading, fetches, asides, due>>
  BY DEF Fire, page
<1>2. OnSearch
  BY <1>1 DEF MountedInv
<1>3. Live(searches') = {Request(url)}
  <2>1. Live(searches) = {}
    BY <1>1 DEF SearchInv
  <2> QED BY <1>1, <2>1, AskingAgain
<1>4. PortalTypeOK'
  BY <1>1, Requesting DEF PortalTypeOK
<1>5. MountedInv' /\ SearchInv'
  <2>1. Request(url).of = url
    BY DEF Request
  <2> QED BY <1>1, <1>2, <1>3, <2>1 DEF MountedInv, SearchInv, OnSearch
<1>6. OfferInv' /\ ToolInv'
  BY <1>1 DEF OfferInv, ToolInv, OnSearch
<1> QED BY <1>4, <1>5, <1>6

LEMMA AnswerKeeps == ASSUME PortalInv, Answer PROVE PortalInv'
<1> USE DEF PortalInv
<1>1. PICK r \in searches, ok \in BOOLEAN :
        LET found == IF ok THEN {[of |-> r.of, hits |-> Hits(r.of)]} ELSE results IN
        /\ searches' = searches \ {r}
        /\ IF r.cancelled THEN UNCHANGED <<results, error, verifications, suggestions>>
           ELSE /\ results' = found /\ error' = ~ok
                /\ SuggestEffect(ShowEmptyState(results, error), ShowEmptyState(found, ~ok), url)
        /\ UNCHANGED <<url, timer, page>>
  BY DEF Answer
<1>2. UNCHANGED <<url, timer, bootstrap, tool, loading, fetches, asides, due>> /\ searches' = searches \ {r}
  BY <1>1 DEF page
<1>3. OnSearch /\ OnSearch' /\ Live(searches') = Live(searches) \ {r}
  BY <1>2, LiveLess DEF MountedInv, OnSearch
<1>4. ToolInv' /\ MountedInv'
  BY <1>2, <1>3 DEF ToolInv, MountedInv, OnSearch
<1>5. CASE r.cancelled
  <2>1. UNCHANGED <<results, error, verifications, suggestions>>
    BY <1>1, <1>5
  <2>2. Live(searches') = Live(searches)
    BY <1>3, <1>5 DEF Live
  <2>3. PortalTypeOK' /\ OfferInv' /\ SearchInv'
    BY <1>2, <1>3, <2>1, <2>2 DEF PortalTypeOK, OfferInv, SearchInv
  <2> QED BY <1>4, <2>3
<1>6. CASE ~r.cancelled
  <2> DEFINE found == IF ok THEN {[of |-> r.of, hits |-> Hits(r.of)]} ELSE results
  <2>1. /\ results' = found /\ error' = ~ok
        /\ SuggestEffect(ShowEmptyState(results, error), ShowEmptyState(found, ~ok), url)
    BY <1>1, <1>6
  <2>2. ShowEmptyState(results, error) \in BOOLEAN /\ ShowEmptyState(found, ~ok) \in BOOLEAN
    BY DEF ShowEmptyState
  <2>3. /\ OfferInv' /\ verifications' \subseteq RequestsOf(Urls)
        /\ suggestions' \subseteq [q : Queries, under : SUBSET Values]
    BY <1>2, <2>1, <2>2, SuggestEffectDoes DEF PortalTypeOK
  <2>4. r.of = url
    BY <1>6 DEF SearchInv, Live
  <2>5. SearchInv'
    BY <1>2, <1>3, <2>1, <2>4 DEF SearchInv
  <2>6. PortalTypeOK'
    BY <1>2, <2>1, <2>3 DEF PortalTypeOK
  <2> QED BY <1>4, <2>3, <2>5, <2>6
<1> QED BY <1>5, <1>6

LEMMA VerifyKeeps == ASSUME PortalInv, Verify PROVE PortalInv'
<1> USE DEF PortalInv
<1>1. PICK r \in verifications, ok \in BOOLEAN :
        /\ verifications' = verifications \ {r}
        /\ suggestions' =
             IF r.cancelled THEN suggestions
             ELSE IF ~ok THEN {}
             ELSE {[q |-> q, under |-> r.of.selection] :
                     q \in {c \in SuggestQueries[r.of.q] : Hits([r.of EXCEPT !.q = c]) # {}}}
        /\ UNCHANGED <<url, timer, searches, results, error, page>>
  BY DEF Verify
<1>2. /\ UNCHANGED <<url, timer, searches, results, error, bootstrap, tool, loading, fetches, asides, due>>
      /\ verifications' = verifications \ {r} /\ Live(verifications') = Live(verifications) \ {r}
  BY <1>1, LiveLess DEF page
<1>3. OnSearch
  BY DEF MountedInv
<1>4. MountedInv' /\ SearchInv' /\ ToolInv'
  BY <1>2, <1>3 DEF MountedInv, SearchInv, ToolInv, OnSearch
<1>5. PortalTypeOK'
  <2>1. r.of.q \in Queries /\ r.of.selection \in SUBSET Values
    BY DEF PortalTypeOK, RequestsOf, Urls
  <2>2. SuggestQueries[r.of.q] \subseteq Queries
    BY <2>1, PortalAssumption
  <2>3. ASSUME NEW s \in suggestions' PROVE s \in [q : Queries, under : SUBSET Values]
    <3>1. s \in suggestions \/ \E q \in SuggestQueries[r.of.q] : s = [q |-> q, under |-> r.of.selection]
      BY <1>1
    <3> QED BY <2>1, <2>2, <3>1 DEF PortalTypeOK
  <2> QED BY <1>2, <2>3 DEF PortalTypeOK
<1>6. OfferInv'
  <2>1. CASE r.cancelled
    <3>1. suggestions' = suggestions /\ Live(verifications') = Live(verifications)
      BY <1>1, <1>2, <2>1 DEF Live
    <3> QED BY <1>2, <3>1 DEF OfferInv
  <2>2. CASE ~r.cancelled
    <3>1. r.of = url
      BY <2>2 DEF OfferInv, Live
    <3>2. \A s \in suggestions' : s.q \in SuggestQueries[url.q] /\ s.under = url.selection
      <4> SUFFICES ASSUME NEW s \in suggestions'
                   PROVE  s.q \in SuggestQueries[url.q] /\ s.under = url.selection
        OBVIOUS
      <4>1. \E q \in SuggestQueries[r.of.q] : s = [q |-> q, under |-> r.of.selection]
        BY <1>1, <2>2
      <4> QED BY <3>1, <4>1
    <3> QED BY <1>2, <3>2 DEF OfferInv
  <2> QED BY <2>1, <2>2
<1> QED BY <1>4, <1>5, <1>6

LEMMA DocumentKeeps == ASSUME PortalInv, Document PROVE PortalInv'
<1> USE DEF PortalInv
<1>0. PICK r \in fetches, ok \in BOOLEAN :
        LET document == {r.of} \cap (IF ok THEN DocumentsIn(Tools) ELSE {}) IN
        /\ fetches' = fetches \ {r}
        /\ IF r.cancelled THEN UNCHANGED <<tool, loading, due>>
           ELSE /\ tool' = document /\ loading' = FALSE
                /\ due' = IF document = tool THEN due ELSE due \cup {"asides"}
        /\ UNCHANGED <<url, search, bootstrap, asides, related, readme>>
  BY DEF Document
<1>1. PICK found \in SUBSET {r.of} :
        /\ fetches' = fetches \ {r}
        /\ IF r.cancelled THEN UNCHANGED <<tool, loading, due>>
           ELSE /\ tool' = found /\ loading' = FALSE
                /\ due' = IF found = tool THEN due ELSE due \cup {"asides"}
        /\ UNCHANGED <<url, search, bootstrap, asides>>
  BY <1>0
<1>2. /\ UNCHANGED <<url, timer, searches, results, error, verifications, suggestions, bootstrap, asides>>
      /\ fetches' = fetches \ {r} /\ Live(fetches') = Live(fetches) \ {r}
  BY <1>1, LiveLess DEF search
<1>3. ~OnSearch /\ ~OnSearch'
  BY <1>2 DEF MountedInv, OnSearch
<1>4. MountedInv' /\ SearchInv' /\ OfferInv'
  BY <1>2, <1>3 DEF MountedInv, SearchInv, OfferInv, OnSearch
<1>5. CASE r.cancelled
  <2>1. UNCHANGED <<tool, loading, due>>
    BY <1>1, <1>5
  <2>2. PortalTypeOK' /\ ToolInv'
    BY <1>2, <1>3, <2>1 DEF PortalTypeOK, ToolInv
  <2> QED BY <1>4, <2>2
<1>6. CASE ~r.cancelled
  <2>1. {r.of} = url.tool /\ r \in Live(fetches)
    BY <1>6 DEF ToolInv, Live
  <2>2. /\ tool' = found /\ loading' = FALSE
        /\ due' = IF found = tool THEN due ELSE due \cup {"asides"}
    BY <1>1, <1>6
  <2>3. tool' \in AtMostOne /\ due' \subseteq {"mount", "document", "asides"}
    <3>1. url.tool \in AtMostOne
      BY DEF PortalTypeOK, Urls
    <3> QED BY <2>1, <2>2, <3>1, OneOrNone DEF PortalTypeOK
  <2>4. Live(fetches') = {}
    <3>1. ASSUME NEW s \in Live(fetches) PROVE s = r
      <4>1. s \in RequestsOf(Repos) /\ r \in RequestsOf(Repos) /\ ~s.cancelled /\ s.of = r.of
        BY <2>1, <3>1 DEF PortalTypeOK, ToolInv, Live
      <4> QED BY <1>6, <4>1 DEF RequestsOf
    <3> QED BY <1>2, <3>1
  <2>5. "asides" \notin due' => \A s \in Live(asides') : tool' = {s.of}
    BY <1>2, <2>2 DEF ToolInv
  <2>6. PortalTypeOK'
    BY <1>2, <2>2, <2>3 DEF PortalTypeOK
  <2>7. ToolInv'
    BY <1>2, <2>1, <2>2, <2>4, <2>5 DEF ToolInv
  <2> QED BY <1>4, <2>6, <2>7
<1> QED BY <1>5, <1>6

LEMMA AsideKeeps == ASSUME PortalInv, Aside PROVE PortalInv'
<1> USE DEF PortalInv
<1>1. PICK r \in asides : asides' = asides \ {r}
  BY DEF Aside
<1>2. /\ UNCHANGED <<url, timer, searches, results, error, verifications, suggestions,
                     bootstrap, tool, loading, fetches, due>>
      /\ asides' = asides \ {r} /\ Live(asides') = Live(asides) \ {r}
  BY <1>1, LiveLess DEF Aside, search
<1>3. PortalTypeOK' /\ MountedInv' /\ SearchInv' /\ OfferInv' /\ ToolInv'
  BY <1>2 DEF PortalTypeOK, MountedInv, SearchInv, OfferInv, ToolInv, OnSearch
<1> QED BY <1>3

LEMMA PortalStep == ASSUME PortalInv, [PortalNext]_portal PROVE PortalInv'
<1>1. CASE UNCHANGED portal
  BY <1>1 DEF portal, search, page, PortalInv, PortalTypeOK, MountedInv, SearchInv, OfferInv, ToolInv,
              OnSearch
<1>2. CASE PortalNext
  BY <1>2, ReaderSearches, FollowKeeps, ReturnKeeps, EffectsKeep, FireKeeps, AnswerKeeps, VerifyKeeps, DocumentKeeps, AsideKeeps
     DEF PortalNext, Reader
<1> QED BY <1>1, <1>2

THEOREM PortalIsInvariant == PortalSpec => []PortalInv
<1>1. PortalInv /\ [PortalNext]_portal => PortalInv'
  BY PortalStep
<1> QED BY PortalInitInv, <1>1, PTL DEF PortalSpec

(* Whatever order answers come back in, and whatever becomes of the index, *)
(* a quiet search page whose search did not fail shows the results of the  *)
(* URL in the address bar, and no tool is shown under the name of another  *)
(* but in the frame between a link from one to the other and its effect    *)
(* (search.tsx:63-78, tool.tsx:34-94).                                     *)
THEOREM PagesAreOfTheirUrl == PortalSpec => []PagesFollowUrl
<1>1. PortalInv => PagesFollowUrl
  BY DEF PortalInv, SearchInv, ToolInv, PagesFollowUrl
<1> QED BY <1>1, PortalIsInvariant, PTL

(* What a quiet page offers instead was proven under the filters the       *)
(* offered search will run with (lib/search.ts:94-98).                     *)
THEOREM OffersWereProven == PortalSpec => []OffersAreProven
<1>1. PortalInv => OffersAreProven
  BY DEF PortalInv, OfferInv, OffersAreProven
<1> QED BY <1>1, PortalIsInvariant, PTL

-----------------------------------------------------------------------------
(* ReadModel *)

ModelSpec == ModelInit /\ [][ModelNext]_model

TaskType == [op : {"create", "settings", "clear", "add", "ensure"}, uid : Uids,
             docs : SUBSET ToSet(Corpus), checked : BOOLEAN]
IndexType == [docs : SUBSET ToSet(Corpus), settings : BOOLEAN]

ModelTypeOK ==
  /\ index \in [Uids -> SUBSET IndexType]
  /\ queue \in Seq(TaskType) /\ todo \in Seq(TaskType)
  /\ command \in {"none", "create", "settings", "seed"}
  /\ waiting \in BOOLEAN /\ failed \in BOOLEAN

(* What a command waits for is the last of the queue and the next to do.   *)
CommandInv ==
  /\ command = "none" => todo = <<>> /\ ~waiting
  /\ waiting => todo # <<>> /\ queue # <<>> /\ queue[Len(queue)] = todo[1]
  /\ \A i \in DOMAIN queue : queue[i].op # "ensure"

(* While a seed runs, a document is still to be added, or it is there and   *)
(* no clear, of a command killed earlier, is ahead of it.                  *)
ToAdd(d) == \E i \in DOMAIN todo : todo[i].op = "add" /\ todo[i].uid = Tools /\ d \in todo[i].docs
SafelyThere(d) == d \in DocumentsIn(Tools) /\ \A i \in DOMAIN queue : queue[i].op # "clear"
SeedInv ==
  command = "seed" =>
    /\ \A i \in DOMAIN todo : todo[i].checked /\ todo[i].op \in {"add", "clear"}
    /\ \A i \in DOMAIN todo : todo[i].op = "clear" => i = 1 /\ \A d \in ToSet(Corpus) : ToAdd(d)
    /\ \A d \in ToSet(Corpus) : ToAdd(d) \/ SafelyThere(d)

(* While an index create runs and no task failed, a collection has its      *)
(* settings or is still to be given them.                                  *)
ToConfigure(c) == \E i \in DOMAIN todo : todo[i].uid = c /\ todo[i].op \in {"ensure", "settings"}
CreateInv ==
  command = "create" /\ ~failed => \A c \in ToSet(Collections) : Configured(c) \/ ToConfigure(c)

ModelInv == ModelTypeOK /\ CommandInv /\ SeedInv /\ CreateInv

-----------------------------------------------------------------------------
LEMMA Dropping ==
  ASSUME NEW S, NEW s \in Seq(S), s # <<>>
  PROVE  /\ Tail(s) \in Seq(S) /\ Len(s) \in Nat \ {0} /\ Len(Tail(s)) = Len(s) - 1
         /\ DOMAIN s = 1..Len(s) /\ DOMAIN Tail(s) = 1..(Len(s) - 1)
         /\ Head(s) = s[1] /\ s[1] \in S
         /\ \A i \in DOMAIN Tail(s) : i + 1 \in DOMAIN s /\ Tail(s)[i] = s[i + 1]
BY HeadTailProperties

(* What a task does to the index: settings stay, documents go only with a   *)
(* clear.                                                                   *)
LEMMA EffectOnIndex ==
  ASSUME NEW t \in TaskType, t.op # "ensure", NEW current \in SUBSET IndexType
  PROVE  /\ Effect(t, current) \in IndexType
         /\ t.op # "create" /\ (\E i \in current : i.settings) => Effect(t, current).settings
         /\ t.op = "settings" => Effect(t, current).settings
         /\ t.op \notin {"clear", "create"} => UNION {i.docs : i \in current} \subseteq Effect(t, current).docs
         /\ t.op = "add" => t.docs \subseteq Effect(t, current).docs
<1> DEFINE docs == UNION {i.docs : i \in current}
           configured == \E i \in current : i.settings
<1>1. docs \subseteq ToSet(Corpus) /\ configured \in BOOLEAN /\ t.docs \subseteq ToSet(Corpus)
  BY DEF IndexType, TaskType
<1>2. t.op \in {"create", "settings", "clear", "add"}
  BY DEF TaskType
<1>3. Effect(t, current) = CASE t.op = "create"   -> [docs |-> {}, settings |-> FALSE]
                             [] t.op = "settings" -> [docs |-> docs, settings |-> TRUE]
                             [] t.op = "clear"    -> [docs |-> {}, settings |-> configured]
                             [] t.op = "add"      -> [docs |-> docs \cup t.docs, settings |-> configured]
  BY DEF Effect
<1> HIDE DEF docs, configured
<1>4. CASE t.op = "create"
  <2>1. Effect(t, current) = [docs |-> {}, settings |-> FALSE]
    BY <1>3, <1>4
  <2> QED BY <1>4, <2>1 DEF IndexType
<1>5. CASE t.op = "settings"
  <2>1. Effect(t, current) = [docs |-> docs, settings |-> TRUE]
    BY <1>3, <1>5
  <2> QED BY <1>1, <1>5, <2>1 DEF IndexType, docs
<1>6. CASE t.op = "clear"
  <2>1. Effect(t, current) = [docs |-> {}, settings |-> configured]
    BY <1>3, <1>6
  <2> QED BY <1>1, <1>6, <2>1 DEF IndexType, configured
<1>7. CASE t.op = "add"
  <2>1. Effect(t, current) = [docs |-> docs \cup t.docs, settings |-> configured]
    BY <1>3, <1>7
  <2>2. docs \cup t.docs \in SUBSET ToSet(Corpus)
    BY <1>1
  <2>3. /\ Effect(t, current) \in IndexType
        /\ Effect(t, current).docs = docs \cup t.docs /\ Effect(t, current).settings = configured
    BY <1>1, <2>1, <2>2 DEF IndexType
  <2>4. docs \subseteq Effect(t, current).docs /\ t.docs \subseteq Effect(t, current).docs
    BY <2>3
  <2>5. configured => Effect(t, current).settings
    BY <2>3
  <2> QED BY <1>7, <2>3, <2>4, <2>5 DEF docs, configured
<1> QED BY <1>2, <1>4, <1>5, <1>6, <1>7

LEMMA Tasks ==
  ASSUME NEW uid \in Uids, NEW checked \in BOOLEAN
  PROVE  /\ Create(uid, checked) \in TaskType /\ Settings(uid, checked) \in TaskType
         /\ Create(uid, checked).op = "create"
         /\ Settings(uid, checked).op = "settings" /\ Settings(uid, checked).uid = uid
BY DEF Create, Settings, Task, TaskType

LEMMA ModelInitInv == ModelInit => ModelInv
<1>1. ASSUME ModelInit PROVE ModelInv
  <2>1. /\ index = [u \in Uids |-> {}] /\ queue = <<>> /\ command = "none" /\ todo = <<>>
        /\ waiting = FALSE /\ failed = FALSE
    BY <1>1 DEF ModelInit, Idle
  <2>2. index \in [Uids -> SUBSET IndexType]
    BY <2>1
  <2>3. queue \in Seq(TaskType) /\ todo \in Seq(TaskType)
    BY <2>1, EmptySeq
  <2>4. ModelTypeOK
    BY <2>1, <2>2, <2>3 DEF ModelTypeOK
  <2> QED BY <2>1, <2>4 DEF ModelInv, CommandInv, SeedInv, CreateInv
<1> QED BY <1>1

(* What the server changes besides the index. *)
LEMMA Settling ==
  ASSUME ModelInv, queue # <<>>, NEW succeeded \in BOOLEAN, Settle(succeeded)
  PROVE  /\ queue[1] \in TaskType /\ queue[1].op # "ensure" /\ Head(queue) = queue[1]
         /\ queue' \in Seq(TaskType) /\ todo' \in Seq(TaskType)
         /\ command' \in {command, "none"} /\ waiting' \in BOOLEAN
         /\ failed' = (failed \/ ~succeeded)
         /\ CommandInv'
         /\ \A i \in DOMAIN queue' : \E j \in DOMAIN queue : queue'[i] = queue[j]
         /\ \/ ~Mine /\ todo' = todo /\ command' = command
            \/ /\ todo # <<>> /\ todo[1] = queue[1] /\ todo' = Tail(todo) /\ command' = command
               /\ queue' = <<>> /\ (succeeded \/ ~todo[1].checked)
            \/ command' = "none"
<1>1. queue \in Seq(TaskType) /\ todo \in Seq(TaskType) /\ waiting \in BOOLEAN
  BY DEF ModelInv, ModelTypeOK
<1>2. /\ Tail(queue) \in Seq(TaskType) /\ Len(queue) \in Nat \ {0} /\ Len(Tail(queue)) = Len(queue) - 1
      /\ DOMAIN queue = 1..Len(queue) /\ DOMAIN Tail(queue) = 1..(Len(queue) - 1)
      /\ Head(queue) = queue[1] /\ queue[1] \in TaskType
      /\ \A i \in DOMAIN Tail(queue) : i + 1 \in DOMAIN queue /\ Tail(queue)[i] = queue[i + 1]
  BY <1>1, Dropping
<1>3. /\ waiting => todo # <<>> /\ queue # <<>> /\ queue[Len(queue)] = todo[1]
      /\ command = "none" => todo = <<>> /\ ~waiting
      /\ \A i \in DOMAIN queue : queue[i].op # "ensure"
  BY DEF ModelInv, CommandInv
<1>4. /\ queue' = Tail(queue) /\ waiting' = (waiting /\ ~Mine)
      /\ todo' = IF ~Mine THEN todo
                 ELSE IF succeeded \/ ~Head(queue).checked THEN Tail(todo) ELSE <<>>
      /\ command' = IF Mine /\ ~(succeeded \/ ~Head(queue).checked) THEN "none" ELSE command
      /\ failed' = (failed \/ ~succeeded)
  BY DEF Settle
<1>5. (\A i \in DOMAIN queue' : \E j \in DOMAIN queue : queue'[i] = queue[j])
  BY <1>2, <1>4
<1>6. \A i \in DOMAIN queue' : queue'[i].op # "ensure"
  BY <1>3, <1>5
<1>7. CASE ~Mine
  <2>1. todo' = todo /\ command' = command /\ waiting' = waiting
    BY <1>1, <1>4, <1>7
  <2>2. ASSUME waiting PROVE queue' # <<>> /\ queue'[Len(queue')] = todo'[1]
    <3>1. Len(queue) # 1
      BY <1>7, <2>2 DEF Mine
    <3>2. Len(queue') = Len(queue) - 1 /\ Len(queue) - 1 \in DOMAIN Tail(queue)
      BY <1>2, <1>4, <3>1
    <3>3. queue'[Len(queue')] = queue[Len(queue)]
      <4>1. Len(queue) - 1 + 1 = Len(queue)
        BY <1>2
      <4>2. Tail(queue)[Len(queue) - 1] = queue[Len(queue) - 1 + 1]
        BY <1>2, <3>2
      <4> QED BY <1>4, <3>2, <4>1, <4>2
    <3>4. queue' # <<>>
      <4>1. Len(queue') # 0
        BY <1>2, <3>1, <3>2
      <4> QED BY <4>1, EmptySeq
    <3> QED BY <1>3, <2>1, <2>2, <3>3, <3>4
  <2>3. CommandInv'
    BY <1>3, <1>6, <2>1, <2>2 DEF CommandInv
  <2> QED BY <1>1, <1>2, <1>3, <1>4, <1>5, <1>7, <2>1, <2>3
<1>8. CASE Mine
  <2>1. waiting /\ Len(queue) = 1
    BY <1>8 DEF Mine
  <2>2. queue' = <<>> /\ waiting' = FALSE /\ todo # <<>> /\ todo[1] = queue[1]
    <3>1. Len(Tail(queue)) = 0
      BY <1>2, <2>1
    <3>2. queue' = <<>>
      <4>1. Tail(queue) # <<>> => Len(Tail(queue)) \in Nat \ {0}
        BY <1>2, EmptySeq
      <4> QED BY <1>4, <3>1, <4>1
    <3>3. waiting' = FALSE
      BY <1>4, <1>8
    <3>4. todo[1] = queue[1] /\ todo # <<>>
      BY <1>3, <2>1
    <3> QED BY <3>2, <3>3, <3>4
  <2>3. command # "none"
    BY <1>3, <2>1
  <2>4. Tail(todo) \in Seq(TaskType)
    BY <1>1, <2>2, Dropping
  <2>5. CASE succeeded \/ ~Head(queue).checked
    <3>1. todo' = Tail(todo) /\ command' = command
      BY <1>4, <1>8, <2>5
    <3>2. CommandInv'
      BY <1>6, <2>2, <2>3, <3>1 DEF CommandInv
    <3> QED BY <1>2, <1>3, <1>4, <1>5, <2>2, <2>4, <2>5, <3>1, <3>2
  <2>6. CASE ~(succeeded \/ ~Head(queue).checked)
    <3>1. todo' = <<>> /\ command' = "none"
      BY <1>4, <1>8, <2>6
    <3>2. CommandInv'
      BY <1>6, <2>2, <3>1 DEF CommandInv
    <3> QED BY <1>2, <1>3, <1>4, <1>5, <2>2, <3>1, <3>2
  <2> QED BY <2>5, <2>6
<1> QED BY <1>7, <1>8


(* Once the head of todo is done, what is left of it stands one place       *)
(* earlier.                                                                 *)
LEMMA LeftToDo ==
  ASSUME ModelTypeOK, todo # <<>>
  PROVE  /\ \A i \in DOMAIN Tail(todo) : i + 1 \in DOMAIN todo /\ Tail(todo)[i] = todo[i + 1] /\ i + 1 # 1
         /\ \A i \in DOMAIN todo : i = 1 \/ \E j \in DOMAIN Tail(todo) : Tail(todo)[j] = todo[i]
<1>1. /\ Len(todo) \in Nat \ {0} /\ DOMAIN todo = 1..Len(todo) /\ DOMAIN Tail(todo) = 1..(Len(todo) - 1)
      /\ \A i \in DOMAIN Tail(todo) : i + 1 \in DOMAIN todo /\ Tail(todo)[i] = todo[i + 1]
  BY Dropping DEF ModelTypeOK
<1>2. ASSUME NEW i \in DOMAIN todo, i # 1 PROVE \E j \in DOMAIN Tail(todo) : Tail(todo)[j] = todo[i]
  <2>1. i - 1 \in DOMAIN Tail(todo) /\ (i - 1) + 1 = i
    BY <1>1, <1>2
  <2>2. Tail(todo)[i - 1] = todo[(i - 1) + 1]
    BY <1>1, <2>1
  <2> QED BY <2>1, <2>2
<1>3. ASSUME NEW i \in DOMAIN Tail(todo) PROVE i + 1 # 1
  BY <1>1
<1> QED BY <1>1, <1>2, <1>3

LEMMA SucceedKeeps == ASSUME ModelInv, Succeed PROVE ModelInv'
<1>0. PICK t : t = queue[1]
  OBVIOUS
<1>1. queue # <<>> /\ Settle(TRUE)
  BY DEF Succeed
<1>2. /\ t \in TaskType /\ t.op # "ensure" /\ Head(queue) = t
      /\ queue' \in Seq(TaskType) /\ todo' \in Seq(TaskType)
      /\ command' \in {command, "none"} /\ waiting' \in BOOLEAN
      /\ failed' = failed
      /\ CommandInv'
      /\ \A i \in DOMAIN queue' : \E j \in DOMAIN queue : queue'[i] = queue[j]
      /\ \/ ~Mine /\ todo' = todo /\ command' = command
         \/ /\ todo # <<>> /\ todo[1] = t /\ todo' = Tail(todo) /\ command' = command
            /\ queue' = <<>>
         \/ command' = "none"
  BY <1>0, <1>1, Settling DEF ModelInv, ModelTypeOK
<1>3. index \in [Uids -> SUBSET IndexType] /\ failed \in BOOLEAN /\ t.uid \in Uids /\ Tools \in Uids
  BY <1>2 DEF ModelInv, ModelTypeOK, TaskType, Uids
<1>4. ~(t.op = "create" /\ Exists(t.uid)) /\ index' = [index EXCEPT ![t.uid] = {Effect(t, @)}]
  BY <1>2 DEF Succeed
<1>5. 1 \in DOMAIN queue
  BY <1>1, Dropping DEF ModelInv, ModelTypeOK
<1>6. /\ index'[t.uid] = {Effect(t, index[t.uid])}
      /\ \A u \in Uids \ {t.uid} : index'[u] = index[u]
  BY <1>3, <1>4
<1>7. index[t.uid] \in SUBSET IndexType
  BY <1>3
<1>8. Effect(t, index[t.uid]) \in IndexType
  BY <1>2, <1>7, EffectOnIndex
<1>9. ModelTypeOK'
  <2>1. index' \in [Uids -> SUBSET IndexType]
    BY <1>3, <1>4, <1>8
  <2> QED BY <1>2, <1>3, <2>1 DEF ModelTypeOK, ModelInv
<1>10. ASSUME NEW c \in Uids, Configured(c) PROVE Configured(c)'
  <2>1. CASE c # t.uid
    BY <1>6, <1>10, <2>1 DEF Configured
  <2>2. CASE c = t.uid
    <3>1. t.op # "create" /\ \E i \in index[t.uid] : i.settings
      BY <1>4, <1>10, <2>2 DEF Configured, Exists
    <3>2. Effect(t, index[t.uid]).settings
      BY <1>2, <1>7, <3>1, EffectOnIndex
    <3> QED BY <1>6, <2>2, <3>2 DEF Configured
  <2> QED BY <2>1, <2>2
<1>11. ASSUME t.op = "settings" PROVE Configured(t.uid)'
  <2>1. Effect(t, index[t.uid]).settings
    BY <1>2, <1>7, <1>11, EffectOnIndex
  <2> QED BY <1>6, <2>1 DEF Configured
<1>12. ASSUME t.op # "clear" PROVE DocumentsIn(Tools) \subseteq DocumentsIn(Tools)'
  <2>1. CASE Tools # t.uid
    BY <1>3, <1>6, <2>1 DEF DocumentsIn
  <2>2. CASE Tools = t.uid /\ t.op = "create"
    BY <1>4, <2>2 DEF DocumentsIn, Exists
  <2>3. CASE Tools = t.uid /\ t.op # "create"
    <3>1. UNION {i.docs : i \in index[t.uid]} \subseteq Effect(t, index[t.uid]).docs
      BY <1>2, <1>7, <1>12, <2>3, EffectOnIndex
    <3> QED BY <1>6, <2>3, <3>1 DEF DocumentsIn
  <2> QED BY <2>1, <2>2, <2>3
<1>13. ASSUME t.op = "add", t.uid = Tools PROVE t.docs \subseteq DocumentsIn(Tools)'
  <2>1. t.docs \subseteq Effect(t, index[t.uid]).docs
    BY <1>2, <1>7, <1>13, EffectOnIndex
  <2> QED BY <1>6, <1>13, <2>1 DEF DocumentsIn
<1>14. ASSUME NEW d, SafelyThere(d) PROVE SafelyThere(d)'
  <2>1. t.op # "clear"
    BY <1>0, <1>5, <1>14 DEF SafelyThere
  <2>2. \A i \in DOMAIN queue' : queue'[i].op # "clear"
    BY <1>2, <1>14 DEF SafelyThere
  <2> QED BY <1>12, <1>14, <2>1, <2>2 DEF SafelyThere
<1>15. CASE ~Mine /\ todo' = todo /\ command' = command
  <2>1. \A d : ToAdd(d)' <=> ToAdd(d)
    BY <1>15 DEF ToAdd
  <2>2. SeedInv'
    BY <1>14, <1>15, <2>1 DEF SeedInv, ModelInv
  <2>3. CreateInv'
    <3>1. \A c \in ToSet(Collections) : ToConfigure(c)' <=> ToConfigure(c)
      BY <1>15 DEF ToConfigure
    <3> QED BY <1>2, <1>10, <1>15, <3>1 DEF CreateInv, ModelInv, Uids
  <2> QED BY <1>2, <1>9, <2>2, <2>3 DEF ModelInv
<1>16. CASE /\ todo # <<>> /\ todo[1] = t /\ todo' = Tail(todo) /\ command' = command
            /\ queue' = <<>>
  <2>1. /\ \A i \in DOMAIN todo' : i + 1 \in DOMAIN todo /\ todo'[i] = todo[i + 1] /\ i + 1 # 1
        /\ \A i \in DOMAIN todo : i = 1 \/ \E j \in DOMAIN todo' : todo'[j] = todo[i]
    BY <1>16, LeftToDo DEF ModelInv
  <2>2. ASSUME NEW d, ToAdd(d) PROVE ToAdd(d)' \/ SafelyThere(d)'
    <3>1. PICK i \in DOMAIN todo : todo[i].op = "add" /\ todo[i].uid = Tools /\ d \in todo[i].docs
      BY <2>2 DEF ToAdd
    <3>2. CASE i = 1
      BY <1>13, <1>16, <3>1, <3>2 DEF SafelyThere
    <3>3. CASE i # 1
      BY <2>1, <3>1, <3>3 DEF ToAdd
    <3> QED BY <3>2, <3>3
  <2>3. SeedInv'
    <3> SUFFICES ASSUME command = "seed" PROVE SeedInv'
      BY <1>16 DEF SeedInv
    <3>1. /\ \A i \in DOMAIN todo : todo[i].checked /\ todo[i].op \in {"add", "clear"}
          /\ \A i \in DOMAIN todo : todo[i].op = "clear" => i = 1
          /\ \A d \in ToSet(Corpus) : ToAdd(d) \/ SafelyThere(d)
      BY DEF SeedInv, ModelInv
    <3>2. \A i \in DOMAIN todo' : todo'[i].checked /\ todo'[i].op \in {"add", "clear"} /\ todo'[i].op # "clear"
      BY <2>1, <3>1
    <3>3. \A d \in ToSet(Corpus) : ToAdd(d)' \/ SafelyThere(d)'
      BY <1>14, <2>2, <3>1
    <3> QED BY <3>2, <3>3 DEF SeedInv
  <2>4. ASSUME NEW c \in ToSet(Collections), ToConfigure(c) PROVE ToConfigure(c)' \/ Configured(c)'
    <3>1. PICK i \in DOMAIN todo : todo[i].uid = c /\ todo[i].op \in {"ensure", "settings"}
      BY <2>4 DEF ToConfigure
    <3>2. CASE i = 1
      BY <1>2, <1>11, <1>16, <3>1, <3>2
    <3>3. CASE i # 1
      BY <2>1, <3>1, <3>3 DEF ToConfigure
    <3> QED BY <3>2, <3>3
  <2>5. CreateInv'
    BY <1>2, <1>10, <1>16, <2>4 DEF CreateInv, ModelInv, Uids
  <2> QED BY <1>2, <1>9, <2>3, <2>5 DEF ModelInv
<1>17. CASE command' = "none"
  BY <1>2, <1>9, <1>17 DEF ModelInv, SeedInv, CreateInv
<1> QED BY <1>2, <1>15, <1>16, <1>17

LEMMA FailKeeps == ASSUME ModelInv, Fail PROVE ModelInv'
<1>1. queue # <<>> /\ Settle(FALSE) /\ UNCHANGED index
  BY DEF Fail
<1>2. /\ queue' \in Seq(TaskType) /\ todo' \in Seq(TaskType)
      /\ command' \in {command, "none"} /\ waiting' \in BOOLEAN
      /\ failed' = TRUE
      /\ CommandInv'
      /\ \A i \in DOMAIN queue' : \E j \in DOMAIN queue : queue'[i] = queue[j]
      /\ \/ ~Mine /\ todo' = todo /\ command' = command
         \/ /\ todo # <<>> /\ command' = command /\ ~todo[1].checked
         \/ command' = "none"
  BY <1>1, Settling
<1>3. ModelTypeOK'
  BY <1>1, <1>2 DEF ModelTypeOK, ModelInv
<1>4. CreateInv'
  BY <1>2 DEF CreateInv
<1>5. SeedInv'
  <2>1. CASE ~Mine /\ todo' = todo /\ command' = command
    <3>1. \A d : ToAdd(d)' <=> ToAdd(d)
      BY <2>1 DEF ToAdd
    <3>2. ASSUME NEW d, SafelyThere(d) PROVE SafelyThere(d)'
      BY <1>1, <1>2, <3>2 DEF SafelyThere, DocumentsIn
    <3> QED BY <2>1, <3>1, <3>2 DEF SeedInv, ModelInv
  <2>2. CASE todo # <<>> /\ command' = command /\ ~todo[1].checked
    <3>1. 1 \in DOMAIN todo
      BY <2>2, Dropping DEF ModelInv, ModelTypeOK
    <3> QED BY <2>2, <3>1 DEF SeedInv, ModelInv
  <2>3. CASE command' = "none"
    BY <2>3 DEF SeedInv
  <2> QED BY <1>2, <2>1, <2>2, <2>3
<1> QED BY <1>2, <1>3, <1>4, <1>5 DEF ModelInv


-----------------------------------------------------------------------------
LEMMA SendKeeps == ASSUME ModelInv, Send PROVE ModelInv'
<1>1. /\ todo # <<>> /\ ~waiting /\ Head(todo).op # "ensure" /\ queue' = Append(queue, Head(todo))
      /\ waiting' = TRUE /\ UNCHANGED <<index, command, todo, failed>>
  BY DEF Send
<1>2. queue \in Seq(TaskType) /\ todo \in Seq(TaskType)
  BY DEF ModelInv, ModelTypeOK
<1>3. Head(todo) = todo[1] /\ todo[1] \in TaskType /\ 1 \in DOMAIN todo
  BY <1>1, <1>2, Dropping
<1>4. /\ queue' \in Seq(TaskType) /\ queue' # <<>> /\ Len(queue') = Len(queue) + 1
      /\ queue'[Len(queue')] = todo[1]
      /\ \A i \in DOMAIN queue' : queue'[i] = todo[1] \/ \E j \in DOMAIN queue : queue'[i] = queue[j]
  <2>1. Len(queue) \in Nat /\ DOMAIN queue = 1..Len(queue)
    BY <1>2
  <2>2. /\ queue' \in Seq(TaskType) /\ Len(queue') = Len(queue) + 1
        /\ \A i \in 1..Len(queue) : queue'[i] = queue[i]
        /\ queue'[Len(queue) + 1] = todo[1]
    BY <1>1, <1>2, <1>3, AppendProperties
  <2>3. DOMAIN queue' = 1..(Len(queue) + 1)
    BY <2>2
  <2>4. queue' # <<>>
    BY <2>1, <2>2, EmptySeq
  <2> QED BY <2>1, <2>2, <2>3, <2>4
<1>5. ModelTypeOK'
  BY <1>1, <1>4 DEF ModelTypeOK, ModelInv
<1>6. CommandInv'
  BY <1>1, <1>3, <1>4 DEF CommandInv, ModelInv
<1>7. CreateInv'
  BY <1>1 DEF CreateInv, ModelInv, ToConfigure, Configured
<1>8. SeedInv'
  <2> SUFFICES ASSUME command = "seed" PROVE SeedInv'
    BY <1>1 DEF SeedInv
  <2>1. \A d : ToAdd(d)' <=> ToAdd(d)
    BY <1>1 DEF ToAdd
  <2>2. CASE todo[1].op = "clear"
    BY <1>1, <1>3, <2>1, <2>2 DEF SeedInv, ModelInv
  <2>3. CASE todo[1].op # "clear"
    <3>1. ASSUME NEW d, SafelyThere(d) PROVE SafelyThere(d)'
      BY <1>1, <1>4, <2>3, <3>1 DEF SafelyThere, DocumentsIn
    <3> QED BY <1>1, <2>1, <3>1 DEF SeedInv, ModelInv
  <2> QED BY <2>2, <2>3
<1> QED BY <1>5, <1>6, <1>7, <1>8 DEF ModelInv

LEMMA Concatenated ==
  ASSUME NEW S, NEW s \in Seq(S), NEW r \in Seq(S)
  PROVE  /\ s \o r \in Seq(S) /\ Len(s) \in Nat /\ Len(r) \in Nat
         /\ DOMAIN s = 1..Len(s) /\ DOMAIN r = 1..Len(r) /\ DOMAIN (s \o r) = 1..(Len(s) + Len(r))
         /\ \A i \in 1..(Len(s) + Len(r)) : (s \o r)[i] = IF i <= Len(s) THEN s[i] ELSE r[i - Len(s)]
<1>1. /\ s \o r \in Seq(S) /\ Len(s \o r) = Len(s) + Len(r)
      /\ \A i \in 1..(Len(s) + Len(r)) : (s \o r)[i] = IF i <= Len(s) THEN s[i] ELSE r[i - Len(s)]
  BY ConcatProperties
<1> QED BY <1>1

LEMMA ConcatenatedLeft ==
  ASSUME NEW S, NEW s \in Seq(S), NEW r \in Seq(S), NEW i \in DOMAIN s
  PROVE  \E k \in DOMAIN (s \o r) : (s \o r)[k] = s[i]
<1>1. i \in DOMAIN (s \o r) /\ (s \o r)[i] = s[i]
  BY Concatenated
<1> QED BY <1>1

LEMMA ConcatenatedRight ==
  ASSUME NEW S, NEW s \in Seq(S), NEW r \in Seq(S), NEW i \in DOMAIN r
  PROVE  \E k \in DOMAIN (s \o r) : (s \o r)[k] = r[i]
<1>1. /\ Len(s) \in Nat /\ Len(r) \in Nat /\ i \in 1..Len(r) /\ DOMAIN (s \o r) = 1..(Len(s) + Len(r))
      /\ \A n \in 1..(Len(s) + Len(r)) : (s \o r)[n] = IF n <= Len(s) THEN s[n] ELSE r[n - Len(s)]
  BY Concatenated
<1>2. Len(s) + i \in 1..(Len(s) + Len(r)) /\ ~(Len(s) + i <= Len(s)) /\ Len(s) + i - Len(s) = i
  BY <1>1
<1>3. (s \o r)[Len(s) + i] = r[i]
  BY <1>1, <1>2
<1> QED BY <1>1, <1>2, <1>3

LEMMA ConcatenatedFrom ==
  ASSUME NEW S, NEW s \in Seq(S), NEW r \in Seq(S), NEW k \in DOMAIN (s \o r)
  PROVE  \/ k \in DOMAIN s /\ (s \o r)[k] = s[k]
         \/ \E i \in DOMAIN r : (s \o r)[k] = r[i]
<1>1. /\ Len(s) \in Nat /\ Len(r) \in Nat /\ k \in 1..(Len(s) + Len(r))
      /\ DOMAIN s = 1..Len(s) /\ DOMAIN r = 1..Len(r)
      /\ (s \o r)[k] = IF k <= Len(s) THEN s[k] ELSE r[k - Len(s)]
  BY Concatenated
<1>2. CASE k <= Len(s)
  BY <1>1, <1>2
<1>3. CASE ~(k <= Len(s))
  <2>1. k - Len(s) \in DOMAIN r /\ (s \o r)[k] = r[k - Len(s)]
    BY <1>1, <1>3
  <2> QED BY <2>1
<1> QED BY <1>2, <1>3

LEMMA Short ==
  ASSUME NEW S, NEW a \in S, NEW b \in S
  PROVE  <<a>> \in Seq(S) /\ <<a, b>> \in Seq(S)
OBVIOUS

LEMMA EnsureKeeps == ASSUME ModelInv, Ensure PROVE ModelInv'
<1>1. /\ todo # <<>> /\ ~waiting /\ Head(todo).op = "ensure"
      /\ todo' = EnsurePlan(Head(todo).uid) \o Tail(todo)
      /\ UNCHANGED <<index, queue, command, waiting, failed>>
  BY DEF Ensure
<1>2. todo \in Seq(TaskType)
  BY DEF ModelInv, ModelTypeOK
<1>3. PICK c : c = todo[1].uid
  OBVIOUS
<1>4. /\ Head(todo) = todo[1] /\ todo[1] \in TaskType /\ 1 \in DOMAIN todo /\ c \in Uids
      /\ Tail(todo) \in Seq(TaskType) /\ todo[1].op = "ensure"
  <2>1. /\ Head(todo) = todo[1] /\ todo[1] \in TaskType /\ 1 \in DOMAIN todo
        /\ Tail(todo) \in Seq(TaskType)
    BY <1>1, <1>2, Dropping
  <2>2. c \in Uids
    BY <1>3, <2>1 DEF TaskType
  <2> QED BY <1>1, <2>1, <2>2
<1>5. PICK plan : plan = EnsurePlan(c)
  OBVIOUS
<1>6. /\ Create(c, FALSE) \in TaskType /\ Settings(c, FALSE) \in TaskType
      /\ Settings(c, FALSE).uid = c /\ Settings(c, FALSE).op = "settings"
  BY <1>4, Tasks
<1>7. /\ plan \in Seq(TaskType)
      /\ Configured(c) \/ \E i \in DOMAIN plan : plan[i] = Settings(c, FALSE)
  <2>1. CASE Configured(c)
    BY <1>5, <2>1, EmptySeq DEF EnsurePlan
  <2>2. CASE ~Configured(c) /\ Exists(c)
    <3>1. plan = <<Settings(c, FALSE)>>
      BY <1>5, <2>2 DEF EnsurePlan
    <3>2. 1 \in DOMAIN plan /\ plan[1] = Settings(c, FALSE)
      BY <3>1
    <3>3. plan \in Seq(TaskType)
      BY <1>6, <3>1, Short
    <3> QED BY <3>2, <3>3
  <2>3. CASE ~Configured(c) /\ ~Exists(c)
    <3>1. plan = <<Create(c, FALSE), Settings(c, FALSE)>>
      BY <1>5, <2>3 DEF EnsurePlan
    <3>2. 2 \in DOMAIN plan /\ plan[2] = Settings(c, FALSE)
      BY <3>1
    <3>3. plan \in Seq(TaskType)
      BY <1>6, <3>1, Short
    <3> QED BY <3>2, <3>3
  <2> QED BY <2>1, <2>2, <2>3
<1>8. todo' = plan \o Tail(todo)
  BY <1>1, <1>3, <1>4, <1>5
<1>9. /\ todo' \in Seq(TaskType)
      /\ \A i \in DOMAIN plan : \E k \in DOMAIN todo' : todo'[k] = plan[i]
      /\ \A i \in DOMAIN Tail(todo) : \E k \in DOMAIN todo' : todo'[k] = Tail(todo)[i]
  <2>1. PICK rest : rest = Tail(todo)
    OBVIOUS
  <2>2. plan \in Seq(TaskType) /\ rest \in Seq(TaskType)
    BY <1>4, <1>7, <2>1
  <2>3. plan \o rest \in Seq(TaskType)
    BY <2>2, Concatenated
  <2>4. ASSUME NEW i \in DOMAIN plan PROVE \E k \in DOMAIN (plan \o rest) : (plan \o rest)[k] = plan[i]
    BY <2>2, ConcatenatedLeft
  <2>5. ASSUME NEW i \in DOMAIN rest PROVE \E k \in DOMAIN (plan \o rest) : (plan \o rest)[k] = rest[i]
    BY <2>2, ConcatenatedRight
  <2> QED BY <1>8, <2>1, <2>3, <2>4, <2>5
<1>10. command \notin {"none", "seed"}
  BY <1>1, <1>4 DEF ModelInv, CommandInv, SeedInv
<1>11. ModelTypeOK' /\ CommandInv' /\ SeedInv'
  BY <1>1, <1>9, <1>10 DEF ModelInv, ModelTypeOK, CommandInv, SeedInv
<1>12. ASSUME NEW d \in ToSet(Collections), ToConfigure(d) PROVE ToConfigure(d)' \/ Configured(d)
  <2>1. PICK i \in DOMAIN todo : todo[i].uid = d /\ todo[i].op \in {"ensure", "settings"}
    BY <1>12 DEF ToConfigure
  <2>2. CASE i = 1
    <3>1. d = c
      BY <1>3, <2>1, <2>2
    <3>2. CASE Configured(c)
      BY <3>1, <3>2
    <3>3. ASSUME NEW j \in DOMAIN plan, plan[j] = Settings(c, FALSE) PROVE ToConfigure(d)'
      <4>1. PICK k \in DOMAIN todo' : todo'[k] = Settings(c, FALSE)
        BY <1>9, <3>3
      <4>2. todo'[k].uid = d /\ todo'[k].op = "settings"
        BY <1>6, <3>1, <4>1
      <4> QED BY <4>2 DEF ToConfigure
    <3> QED BY <1>7, <3>2, <3>3
  <2>3. CASE i # 1
    <3>1. \E j \in DOMAIN Tail(todo) : Tail(todo)[j] = todo[i]
      BY <1>1, <2>3, LeftToDo DEF ModelInv
    <3> QED BY <1>9, <2>1, <3>1 DEF ToConfigure
  <2> QED BY <2>2, <2>3
<1>13. CreateInv'
  BY <1>1, <1>12 DEF CreateInv, ModelInv, Configured
<1> QED BY <1>11, <1>13 DEF ModelInv


(* A command ends, whether or not it has done its work. *)
LEMMA EndKeeps == ASSUME ModelInv, Finish \/ Abandon PROVE ModelInv'
<1>1. /\ command' = "none" /\ todo' = <<>> /\ waiting' \in BOOLEAN /\ UNCHANGED <<index, queue, failed>>
      /\ waiting' => waiting /\ todo = <<>>
  <2>1. CASE Finish
    <3>1. waiting' = waiting /\ waiting \in BOOLEAN
      BY <2>1 DEF Finish, ModelInv, ModelTypeOK
    <3> QED BY <2>1, <3>1 DEF Finish
  <2>2. CASE Abandon
    BY <2>2 DEF Abandon
  <2> QED BY <2>1, <2>2
<1>2. ModelTypeOK'
  BY <1>1, EmptySeq DEF ModelInv, ModelTypeOK
<1>3. CommandInv'
  BY <1>1 DEF ModelInv, CommandInv
<1> QED BY <1>1, <1>2, <1>3 DEF ModelInv, SeedInv, CreateInv

(* A creation passed over leaves the settings to apply. *)
LEMMA PassOverKeeps == ASSUME ModelInv, PassOver PROVE ModelInv'
<1>1. /\ command = "settings" /\ todo # <<>> /\ todo' = Tail(todo) /\ waiting' = FALSE
      /\ UNCHANGED <<index, queue, command, failed>>
  BY DEF PassOver
<1>2. ModelTypeOK'
  <2>1. Tail(todo) \in Seq(TaskType)
    BY <1>1, Dropping DEF ModelInv, ModelTypeOK
  <2> QED BY <1>1, <2>1 DEF ModelInv, ModelTypeOK
<1>3. CommandInv'
  BY <1>1 DEF ModelInv, CommandInv
<1> QED BY <1>1, <1>2, <1>3 DEF ModelInv, SeedInv, CreateInv

LEMMA RunKeeps ==
  ASSUME ModelInv, NEW name \in {"create", "settings", "seed"}, NEW tasks \in Seq(TaskType),
         Run(name, tasks)
  PROVE  ModelTypeOK' /\ CommandInv' /\ todo' = tasks /\ command' = name
<1>1. /\ command = "none" /\ command' = name /\ todo' = tasks /\ failed' = FALSE
      /\ UNCHANGED <<index, queue, waiting>>
  BY DEF Run
<1>2. ~waiting
  BY <1>1 DEF ModelInv, CommandInv
<1> QED BY <1>1, <1>2 DEF ModelInv, ModelTypeOK, CommandInv

LEMMA Tabled ==
  ASSUME NEW S, NEW n \in Nat, NEW f \in [1..n -> S]
  PROVE  f \in Seq(S) /\ DOMAIN f = 1..n
BY SeqDef

LEMMA IndexCreateKeeps == ASSUME ModelInv, IndexCreate PROVE ModelInv'
<1>1. PICK forceSettings \in BOOLEAN :
        Run("create", PlanIndexCreate(forceSettings)
                      \o [i \in 1..Len(Collections) |-> Task("ensure", Collections[i], {}, FALSE)])
  BY DEF IndexCreate
<1>2. PICK plan : plan = PlanIndexCreate(forceSettings)
  OBVIOUS
<1>3. PICK ensures : ensures = [i \in 1..Len(Collections) |-> Task("ensure", Collections[i], {}, FALSE)]
  OBVIOUS
<1>4. plan \in Seq(TaskType)
  <2>1. Create(Tools, TRUE) \in TaskType /\ Settings(Tools, TRUE) \in TaskType
    BY Tasks DEF Uids
  <2> QED BY <1>2, <2>1, Short, EmptySeq DEF PlanIndexCreate
<1>5. /\ Len(Collections) \in Nat /\ DOMAIN Collections = 1..Len(Collections)
      /\ ToSet(Collections) = {Collections[i] : i \in 1..Len(Collections)}
  BY ReadModelAssumption DEF ToSet
<1>6. \A i \in 1..Len(Collections) :
        /\ ensures[i] \in TaskType /\ ensures[i].uid = Collections[i] /\ ensures[i].op = "ensure"
  <2> SUFFICES ASSUME NEW i \in 1..Len(Collections)
               PROVE  /\ ensures[i] \in TaskType /\ ensures[i].uid = Collections[i]
                      /\ ensures[i].op = "ensure"
    OBVIOUS
  <2>1. Collections[i] \in Uids /\ {} \in SUBSET ToSet(Corpus)
    BY <1>5 DEF Uids
  <2>2. ensures[i] = Task("ensure", Collections[i], {}, FALSE)
    BY <1>3
  <2> QED BY <2>1, <2>2 DEF Task, TaskType
<1>7. ensures \in Seq(TaskType) /\ DOMAIN ensures = 1..Len(Collections)
  <2>1. ensures \in [1..Len(Collections) -> TaskType]
    BY <1>3, <1>6
  <2> QED BY <1>5, <2>1, Tabled
<1>8. /\ plan \o ensures \in Seq(TaskType)
      /\ \A i \in DOMAIN ensures : \E k \in DOMAIN (plan \o ensures) : (plan \o ensures)[k] = ensures[i]
  <2>1. ensures \in Seq(TaskType)
    BY <1>7
  <2>2. plan \o ensures \in Seq(TaskType)
    BY <1>4, <2>1, Concatenated
  <2>3. ASSUME NEW i \in DOMAIN ensures
        PROVE  \E k \in DOMAIN (plan \o ensures) : (plan \o ensures)[k] = ensures[i]
    BY <1>4, <2>1, ConcatenatedRight
  <2> QED BY <2>2, <2>3
<1>9. Run("create", plan \o ensures)
  BY <1>1, <1>2, <1>3
<1>10. ModelTypeOK' /\ CommandInv' /\ todo' = plan \o ensures /\ command' = "create"
  BY <1>8, <1>9, RunKeeps
<1>11. ASSUME NEW c \in ToSet(Collections) PROVE ToConfigure(c)'
  <2>1. PICK i \in 1..Len(Collections) : c = Collections[i]
    BY <1>5
  <2>2. PICK k \in DOMAIN todo' : todo'[k] = ensures[i]
    BY <1>7, <1>8, <1>10
  <2>3. todo'[k].uid = c /\ todo'[k].op = "ensure"
    BY <1>6, <2>1, <2>2
  <2> QED BY <2>3 DEF ToConfigure
<1> QED BY <1>10, <1>11 DEF ModelInv, SeedInv, CreateInv

LEMMA ApplySettingsKeeps == ASSUME ModelInv, ApplySettings PROVE ModelInv'
<1>1. Create(Tools, FALSE) \in TaskType /\ Settings(Tools, TRUE) \in TaskType
  BY Tasks DEF Uids
<1>2. <<Create(Tools, FALSE), Settings(Tools, TRUE)>> \in Seq(TaskType)
  BY <1>1, Short
<1>3. ModelTypeOK' /\ CommandInv' /\ command' = "settings"
  BY <1>2, RunKeeps DEF ApplySettings
<1> QED BY <1>3 DEF ModelInv, SeedInv, CreateInv

(* The batches cover the corpus, whatever the last one leaves over. *)
LEMMA Batches ==
  ASSUME NEW l \in Nat, NEW b \in Nat \ {0}
  PROVE  /\ (l + b - 1) \div b \in Nat
         /\ \A j \in 1..l : (j - 1) \div b + 1 \in 1..((l + b - 1) \div b)
<1>1. PICK last : last = (l + b - 1) \div b
  OBVIOUS
<1>2. last \in Nat /\ b * last <= l + b - 1 /\ l + b - 1 < b * last + b
  BY <1>1
<1>3. ASSUME NEW j \in 1..l PROVE (j - 1) \div b + 1 \in 1..last
  <2>1. PICK q : q = (j - 1) \div b
    OBVIOUS
  <2>2. q \in Nat /\ b * q <= j - 1
    BY <2>1
  <2>3. b * q < b * last
    BY <1>2, <2>2
  <2>4. q < last
    <3> SUFFICES ASSUME last <= q PROVE FALSE
      BY <1>2, <2>2
    <3>1. PICK e \in Nat : q = last + e
      BY <1>2, <2>2
    <3>2. b * q = b * last + b * e /\ b * e \in Nat
      BY <1>2, <3>1
    <3> QED BY <1>2, <2>2, <2>3, <3>2
  <2> QED BY <1>2, <2>1, <2>2, <2>4
<1> QED BY <1>1, <1>2, <1>3

LEMMA SeedTasksCover ==
  /\ SeedTasks \in Seq(TaskType)
  /\ \A i \in DOMAIN SeedTasks : SeedTasks[i].op = "add" /\ SeedTasks[i].uid = Tools /\ SeedTasks[i].checked
  /\ \A d \in ToSet(Corpus) : \E i \in DOMAIN SeedTasks : d \in SeedTasks[i].docs
<1>1. /\ Len(Corpus) \in Nat /\ DOMAIN Corpus = 1..Len(Corpus) /\ Batch \in Nat \ {0}
      /\ ToSet(Corpus) = {Corpus[i] : i \in DOMAIN Corpus}
  BY ReadModelAssumption DEF ToSet
<1> DEFINE last == (Len(Corpus) + Batch - 1) \div Batch
           chunk(n) == {Corpus[i] : i \in {j \in DOMAIN Corpus : (j - 1) \div Batch = n - 1}}
<1>2. last \in Nat /\ \A j \in 1..Len(Corpus) : (j - 1) \div Batch + 1 \in 1..last
  BY <1>1, Batches
<1>3. SeedTasks = [n \in 1..last |-> Task("add", Tools, chunk(n), TRUE)]
  BY DEF SeedTasks
<1>4. \A n \in 1..last : chunk(n) \in SUBSET ToSet(Corpus)
  BY <1>1
<1>5. \A j \in DOMAIN Corpus : Corpus[j] \in chunk((j - 1) \div Batch + 1)
  BY <1>1
<1> HIDE DEF last, chunk
<1>6. \A n \in 1..last : /\ SeedTasks[n] \in TaskType /\ SeedTasks[n].op = "add"
                         /\ SeedTasks[n].uid = Tools /\ SeedTasks[n].checked = TRUE
                         /\ SeedTasks[n].docs = chunk(n)
  <2> SUFFICES ASSUME NEW n \in 1..last
               PROVE  /\ SeedTasks[n] \in TaskType /\ SeedTasks[n].op = "add"
                      /\ SeedTasks[n].uid = Tools /\ SeedTasks[n].checked = TRUE
                      /\ SeedTasks[n].docs = chunk(n)
    OBVIOUS
  <2>1. Tools \in Uids /\ chunk(n) \in SUBSET ToSet(Corpus)
    BY <1>4 DEF Uids
  <2>2. SeedTasks[n] = Task("add", Tools, chunk(n), TRUE)
    BY <1>3
  <2> QED BY <2>1, <2>2 DEF Task, TaskType
<1>7. SeedTasks \in Seq(TaskType) /\ DOMAIN SeedTasks = 1..last
  <2>1. SeedTasks \in [1..last -> TaskType]
    BY <1>3, <1>6
  <2> QED BY <1>2, <2>1, Tabled
<1>8. ASSUME NEW d \in ToSet(Corpus) PROVE \E i \in DOMAIN SeedTasks : d \in SeedTasks[i].docs
  <2>1. PICK j \in DOMAIN Corpus : d = Corpus[j]
    BY <1>1
  <2>2. (j - 1) \div Batch + 1 \in 1..last
    BY <1>1, <1>2
  <2> QED BY <1>5, <1>6, <1>7, <2>1, <2>2
<1> QED BY <1>6, <1>7, <1>8

LEMMA IndexSeedKeeps == ASSUME ModelInv, IndexSeed PROVE ModelInv'
<1>1. PICK clear \in BOOLEAN :
        Run("seed", (IF clear THEN <<Task("clear", Tools, {}, TRUE)>> ELSE <<>>) \o SeedTasks)
  BY DEF IndexSeed
<1>2. PICK first : first = IF clear THEN <<Task("clear", Tools, {}, TRUE)>> ELSE <<>>
  OBVIOUS
<1>3. /\ Task("clear", Tools, {}, TRUE) \in TaskType
      /\ Task("clear", Tools, {}, TRUE).op = "clear" /\ Task("clear", Tools, {}, TRUE).checked = TRUE
  <2>1. Tools \in Uids /\ {} \in SUBSET ToSet(Corpus)
    BY DEF Uids
  <2> QED BY <2>1 DEF Task, TaskType
<1>4. /\ first \in Seq(TaskType)
      /\ \A i \in DOMAIN first : i = 1 /\ first[i].checked /\ first[i].op = "clear"
  <2>1. CASE clear
    <3>1. first = <<Task("clear", Tools, {}, TRUE)>>
      BY <1>2, <2>1
    <3>2. first \in Seq(TaskType)
      BY <1>3, <3>1, Short
    <3>3. \A i \in DOMAIN first : i = 1
      BY <3>1
    <3>4. first[1] = Task("clear", Tools, {}, TRUE)
      BY <3>1
    <3> QED BY <1>3, <3>2, <3>3, <3>4
  <2>2. CASE ~clear
    BY <1>2, <2>2, EmptySeq
  <2> QED BY <2>1, <2>2
<1>5. PICK adds : adds = SeedTasks
  OBVIOUS
<1>6. /\ adds \in Seq(TaskType)
      /\ \A i \in DOMAIN adds : adds[i].op = "add" /\ adds[i].uid = Tools /\ adds[i].checked
      /\ \A d \in ToSet(Corpus) : \E i \in DOMAIN adds : d \in adds[i].docs
  BY <1>5, SeedTasksCover
<1>7. /\ first \o adds \in Seq(TaskType)
      /\ \A i \in DOMAIN adds : \E k \in DOMAIN (first \o adds) : (first \o adds)[k] = adds[i]
      /\ \A k \in DOMAIN (first \o adds) : \/ k \in DOMAIN first /\ (first \o adds)[k] = first[k]
                                           \/ \E i \in DOMAIN adds : (first \o adds)[k] = adds[i]
  <2>1. first \in Seq(TaskType) /\ adds \in Seq(TaskType)
    BY <1>4, <1>6
  <2>2. first \o adds \in Seq(TaskType)
    BY <2>1, Concatenated
  <2>4. ASSUME NEW i \in DOMAIN adds
        PROVE  \E k \in DOMAIN (first \o adds) : (first \o adds)[k] = adds[i]
    BY <2>1, ConcatenatedRight
  <2>3. ASSUME NEW k \in DOMAIN (first \o adds)
        PROVE  \/ k \in DOMAIN first /\ (first \o adds)[k] = first[k]
               \/ \E i \in DOMAIN adds : (first \o adds)[k] = adds[i]
    BY <2>1, ConcatenatedFrom
  <2> QED BY <2>2, <2>3, <2>4
<1>8. Run("seed", first \o adds)
  BY <1>1, <1>2, <1>5
<1>9. ModelTypeOK' /\ CommandInv' /\ todo' = first \o adds /\ command' = "seed"
  BY <1>7, <1>8, RunKeeps
<1>10. ASSUME NEW d \in ToSet(Corpus) PROVE ToAdd(d)'
  <2>1. PICK i \in DOMAIN adds : d \in adds[i].docs
    BY <1>6
  <2>2. PICK k \in DOMAIN todo' : todo'[k] = adds[i]
    BY <1>7, <1>9
  <2> QED BY <1>6, <2>1, <2>2 DEF ToAdd
<1>11. \A k \in DOMAIN todo' : /\ todo'[k].checked /\ todo'[k].op \in {"add", "clear"}
                               /\ todo'[k].op = "clear" => k = 1
  <2> SUFFICES ASSUME NEW k \in DOMAIN todo'
               PROVE  /\ todo'[k].checked /\ todo'[k].op \in {"add", "clear"}
                      /\ todo'[k].op = "clear" => k = 1
    OBVIOUS
  <2>1. \/ k \in DOMAIN first /\ todo'[k] = first[k]
        \/ \E i \in DOMAIN adds : todo'[k] = adds[i]
    BY <1>7, <1>9
  <2> QED BY <1>4, <1>6, <2>1
<1>12. SeedInv'
  BY <1>10, <1>11 DEF SeedInv
<1> QED BY <1>9, <1>12 DEF ModelInv, CreateInv

LEMMA ModelStep == ASSUME ModelInv, [ModelNext]_model PROVE ModelInv'
<1>1. CASE UNCHANGED model
  <2>1. UNCHANGED <<index, queue, command, todo, waiting, failed>>
    BY <1>1 DEF model
  <2> QED BY <2>1 DEF ModelInv, ModelTypeOK, CommandInv, SeedInv, CreateInv, ToAdd, SafelyThere,
                      ToConfigure, Configured, DocumentsIn
<1>2. CASE ModelNext
  BY <1>2, SucceedKeeps, FailKeeps, SendKeeps, EnsureKeeps, EndKeeps, PassOverKeeps, IndexCreateKeeps,
     ApplySettingsKeeps, IndexSeedKeeps DEF ModelNext
<1> QED BY <1>1, <1>2

THEOREM ModelIsInvariant == ModelSpec => []ModelInv
<1>1. ModelInv /\ [ModelNext]_model => ModelInv'
  BY ModelStep
<1> QED BY ModelInitInv, <1>1, PTL DEF ModelSpec

(* With any corpus, batches, collections, failing tasks and kills, and      *)
(* whatever tasks a command that was killed left in the queue: a seed that  *)
(* comes to its end has the whole corpus in the index, and an index create  *)
(* in which no task failed leaves every collection with its settings        *)
(* (handlers.ts:195-199, data-store.ts:120-138).                           *)
THEOREM CommandsDoTheirWork == ModelSpec => CommandsMeanIt
<1>1. ASSUME ModelInv, todo = <<>>
      PROVE  /\ command = "seed" => ToSet(Corpus) \subseteq DocumentsIn(Tools)
             /\ command = "create" /\ ~failed => \A c \in ToSet(Collections) : Configured(c)
  <2>1. DOMAIN todo = {}
    BY <1>1
  <2>2. \A d : ~ToAdd(d) /\ ~ToConfigure(d)
    BY <2>1 DEF ToAdd, ToConfigure
  <2> QED BY <1>1, <2>2 DEF ModelInv, SeedInv, CreateInv, SafelyThere
<1> DEFINE Meant == todo = <<>> /\ command' = "none" =>
                      /\ command = "seed" => ToSet(Corpus) \subseteq DocumentsIn(Tools)
                      /\ command = "create" /\ ~failed => \A c \in ToSet(Collections) : Configured(c)
<1>2. ModelInv /\ [ModelNext]_model => [Meant]_model
  BY <1>1
<1> QED BY <1>2, ModelIsInvariant, PTL DEF ModelSpec, CommandsMeanIt

=============================================================================
