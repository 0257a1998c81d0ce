-------------------------- MODULE AnalyzeRepo_proofs --------------------------
(***************************************************************************)
(* What TLAPS proves of AnalyzeRepo, for any repositories, providers,       *)
(* answers and verdicts, and whatever restarts come between: a provider is  *)
(* asked once in the life of its answer, an analysis passes its schema,     *)
(* and it owns up to what it does not know.                                *)
(***************************************************************************)
EXTENDS AnalyzeRepo, FiniteSetTheorems, SequenceTheorems, TLAPS

Levels == {"graduated", "incubating", "sandbox"}
Bodies == {None} \cup UNION {Answers[p] : p \in Providers}
Envelopes == [age : Nat, status : {0, 200, 404}, body : Bodies]
Results == [phase : {"unasked", "asking", "read", "answered"}, value : Bodies \cup Levels,
            partial : BOOLEAN]
Ages == {f \in [Providers -> Nat] : \A p \in Providers : f[p] <= Ttl[p]}

TypeOK ==
  /\ repo \in Repositories
  /\ cache \in [Providers -> SUBSET Envelopes]
  /\ progress \in {"idle", "gather", "llm", "done"} /\ forceRefresh \in Providers \cup {None}
  /\ result \in [Providers -> Results] /\ result[Landscape].value \in {None} \cup Levels
  /\ memoized \in Bodies /\ verdict \subseteq Verdicts
  /\ since \in Ages

(* There is one envelope, and a refusal has no body.                       *)
CacheInv == \A p \in Providers : \A e \in cache[p] :
  /\ \A f \in cache[p] : e = f
  /\ e.status = 404 => e.body = None

(* Passes follow each other; nothing is under way but in the second.       *)
PassInv ==
  /\ \A p \in Providers : result[p] = Asking => progress = "gather" /\ p \in Asked
  /\ progress \in {"llm", "done"} => forceRefresh = None /\ Gathered(Providers)

(* A provider that was asked within its time to live is being asked, or its *)
(* answer is cached and no older.                                          *)
TtlInv == \A p \in Providers :
  since[p] = Ttl[p] \/ result[p] = Asking \/ \E e \in cache[p] : e.age <= since[p]

(* A result says of the envelope it was made of that there was nothing in   *)
(* it, unless it comes from the index in memory: a failure of this analysis *)
(* is partial, one that is cached if it was a refusal.                      *)
Unheard(p) == result[p].partial /\ result[p].value = None
Silent(p, e) == result[p].partial = Refused(e) /\ result[p].value = None
HeardInv == \A p \in Providers : \A e \in cache[p] :
  /\ result[p].phase = "answered" /\ e.body = None => Unheard(p)
  /\ result[p].phase = "read" /\ e.body = None /\ (p # Landscape \/ memoized = None) => Silent(p, e)

AnalyzeInv == TypeOK /\ CacheInv /\ PassInv /\ TtlInv /\ HeardInv

-----------------------------------------------------------------------------
LEMMA SeenIs ==
  ASSUME TypeOK, NEW phase \in {"read", "answered"}, NEW p \in Providers,
         NEW body \in Bodies, NEW partial \in BOOLEAN
  PROVE  /\ Seen(phase, p, body, partial) \in Results
         /\ Seen(phase, p, body, partial).phase = phase
         /\ p = Landscape => Seen(phase, p, body, partial).value \in {None} \cup Levels
         /\ body = None => Seen(phase, p, body, partial) = Result(phase, None, partial)
<1>1. Entry(body) \in {None} \cup Levels
  BY DEF Entry, Levels
<1>2. None \in Bodies
  BY DEF Bodies
<1>3. CASE p = Landscape /\ body # None
  <2>1. Seen(phase, p, body, partial) = Result(phase, Entry(body), FALSE)
    BY <1>3 DEF Seen
  <2> QED BY <1>1, <1>2, <1>3, <2>1 DEF Result, Results
<1>4. CASE ~(p = Landscape /\ body # None)
  <2>1. Seen(phase, p, body, partial) = Result(phase, body, partial)
    BY <1>4 DEF Seen
  <2> QED BY <1>2, <1>4, <2>1 DEF Result, Results
<1> QED BY <1>3, <1>4

LEMMA NoOneAsked ==
  ASSUME NEW r, r = [p \in Providers |-> Unasked]
  PROVE  /\ r \in [Providers -> Results]
         /\ \A p \in Providers : r[p] # Asking /\ r[p].phase = "unasked" /\ r[p].value = None
<1>1. Unasked \in Results /\ Unasked # Asking /\ Unasked.phase = "unasked" /\ Unasked.value = None
  BY DEF Unasked, Asking, Results, Bodies
<1> QED BY <1>1

LEMMA InitInv == AnalyzeInit => AnalyzeInv
<1> SUFFICES ASSUME AnalyzeInit PROVE AnalyzeInv
  OBVIOUS
<1>1. /\ repo \in Repositories /\ cache = [p \in Providers |-> {}] /\ memoized = None /\ progress = "idle"
      /\ forceRefresh = None /\ result = [p \in Providers |-> Unasked] /\ verdict = {} /\ since = Ttl
  BY DEF AnalyzeInit
<1>2. /\ result \in [Providers -> Results]
      /\ \A p \in Providers : result[p] # Asking /\ result[p].phase = "unasked" /\ result[p].value = None
  BY <1>1, NoOneAsked
<1>3. \A p \in Providers : cache[p] = {} /\ since[p] = Ttl[p]
  BY <1>1
<1>4. TypeOK
  <2>1. cache \in [Providers -> SUBSET Envelopes] /\ since \in Ages
    BY <1>1, ProvidersAssumption DEF Ages
  <2> QED BY <1>1, <1>2, <2>1, ProvidersAssumption DEF TypeOK, Bodies
<1> QED BY <1>1, <1>2, <1>3, <1>4 DEF AnalyzeInv, CacheInv, PassInv, TtlInv, HeardInv

(* An analysis that begins, and a process that begins: nobody was asked.   *)
LEMMA BeginningKeeps ==
  ASSUME AnalyzeInv, result' = [p \in Providers |-> Unasked], UNCHANGED <<repo, cache>>,
         progress' \in {"idle", "gather"}, forceRefresh' \in Providers \cup {None}, verdict' = {},
         memoized' \in Bodies, since' \in Ages,
         \A p \in Providers : since'[p] = IF result[p] = Asking THEN Ttl[p] ELSE since[p]
  PROVE  AnalyzeInv'
<1>1. /\ result' \in [Providers -> Results]
      /\ \A p \in Providers : result'[p] # Asking /\ result'[p].phase = "unasked" /\ result'[p].value = None
  BY NoOneAsked
<1>2. TypeOK'
  BY <1>1, ProvidersAssumption DEF AnalyzeInv, TypeOK
<1>3. CacheInv' /\ PassInv' /\ HeardInv'
  BY <1>1 DEF AnalyzeInv, CacheInv, PassInv, HeardInv
<1>4. TtlInv'
  BY DEF AnalyzeInv, TtlInv
<1> QED BY <1>2, <1>3, <1>4 DEF AnalyzeInv

LEMMA AnalyzeRepoKeeps == ASSUME AnalyzeInv, AnalyzeRepo PROVE AnalyzeInv'
<1>1. /\ progress \in {"idle", "done"} /\ progress' = "gather" /\ forceRefresh' \in Providers \cup {None}
      /\ result' = [p \in Providers |-> Unasked] /\ verdict' = {}
      /\ UNCHANGED <<repo, cache, memoized, since>>
  BY DEF AnalyzeRepo
<1>2. memoized' \in Bodies /\ since' \in Ages
  BY <1>1 DEF AnalyzeInv, TypeOK
<1>3. \A p \in Providers : since'[p] = IF result[p] = Asking THEN Ttl[p] ELSE since[p]
  BY <1>1 DEF AnalyzeInv, PassInv
<1> QED BY <1>1, <1>2, <1>3, BeginningKeeps

LEMMA RestartKeeps == ASSUME AnalyzeInv, Restart PROVE AnalyzeInv'
<1>1. /\ progress' = "idle" /\ memoized' = None /\ forceRefresh' = None
      /\ result' = [p \in Providers |-> Unasked] /\ verdict' = {}
      /\ since' = [p \in Providers |-> IF result[p] = Asking THEN Ttl[p] ELSE since[p]]
      /\ UNCHANGED <<repo, cache>>
  BY DEF Restart
<1>2. memoized' \in Bodies /\ forceRefresh' \in Providers \cup {None}
  BY <1>1 DEF Bodies
<1>3. since' \in Ages
  BY <1>1, ProvidersAssumption DEF AnalyzeInv, TypeOK, Ages
<1>4. \A p \in Providers : since'[p] = IF result[p] = Asking THEN Ttl[p] ELSE since[p]
  BY <1>1
<1> QED BY <1>1, <1>2, <1>3, <1>4, BeginningKeeps

LEMMA DayKeeps == ASSUME AnalyzeInv, Day PROVE AnalyzeInv'
<1>1. /\ progress \in {"idle", "done"}
      /\ cache' = [p \in Providers |-> {[e EXCEPT !.age = Smaller(@ + 1, Ttl[p])] : e \in cache[p]}]
      /\ since' = [p \in Providers |-> Smaller(since[p] + 1, Ttl[p])]
      /\ UNCHANGED <<repo, memoized, progress, forceRefresh, result, verdict>>
  BY DEF Day, process
<1>2. ASSUME NEW p \in Providers, NEW e \in cache[p]
      PROVE  LET f == [e EXCEPT !.age = Smaller(@ + 1, Ttl[p])] IN
             f \in Envelopes /\ f.age = Smaller(e.age + 1, Ttl[p]) /\ f.status = e.status /\ f.body = e.body
  <2>1. e \in Envelopes /\ Ttl[p] \in Nat
    BY ProvidersAssumption DEF AnalyzeInv, TypeOK
  <2> QED BY <2>1 DEF Envelopes, Smaller
<1>3. ASSUME NEW p \in Providers, NEW f \in cache'[p]
      PROVE  \E e \in cache[p] : /\ f \in Envelopes /\ f.age = Smaller(e.age + 1, Ttl[p])
                                 /\ f.status = e.status /\ f.body = e.body
                                 /\ f = [e EXCEPT !.age = Smaller(@ + 1, Ttl[p])]
  <2>1. PICK e \in cache[p] : f = [e EXCEPT !.age = Smaller(@ + 1, Ttl[p])]
    BY <1>1
  <2> QED BY <1>2, <2>1
<1>4. TypeOK'
  <2>1. cache' \in [Providers -> SUBSET Envelopes]
    BY <1>1, <1>3
  <2>2. since' \in Ages
    BY <1>1, ProvidersAssumption DEF AnalyzeInv, TypeOK, Smaller, Ages
  <2> QED BY <1>1, <2>1, <2>2 DEF AnalyzeInv, TypeOK
<1>5. CacheInv'
  BY <1>3 DEF AnalyzeInv, CacheInv
<1>6. PassInv'
  BY <1>1 DEF AnalyzeInv, PassInv, Asked, Known, Gathered
<1>7. HeardInv'
  <2> SUFFICES ASSUME NEW p \in Providers, NEW f \in cache'[p]
               PROVE  /\ result[p].phase = "answered" /\ f.body = None => Unheard(p)
                      /\ result[p].phase = "read" /\ f.body = None /\ (p # Landscape \/ memoized = None)
                           => Silent(p, f)
    BY <1>1 DEF HeardInv, Unheard, Silent
  <2>1. PICK e \in cache[p] : f.status = e.status /\ f.body = e.body
    BY <1>3
  <2>2. Refused(f) = Refused(e)
    BY <2>1 DEF Refused
  <2> QED BY <2>1, <2>2 DEF AnalyzeInv, HeardInv, Silent
<1>8. TtlInv'
  <2> SUFFICES ASSUME NEW p \in Providers, since'[p] # Ttl[p]
               PROVE  \E f \in cache'[p] : f.age <= since'[p]
    BY DEF TtlInv
  <2>1. since[p] \in Nat /\ Ttl[p] \in Nat /\ since'[p] = Smaller(since[p] + 1, Ttl[p])
    BY <1>1, ProvidersAssumption DEF AnalyzeInv, TypeOK, Ages
  <2>2. since[p] # Ttl[p]
    BY <2>1 DEF Smaller
  <2>3. PICK e \in cache[p] : e.age <= since[p]
    BY <1>1, <2>2 DEF AnalyzeInv, TtlInv, PassInv
  <2>4. e.age \in Nat
    BY DEF AnalyzeInv, TypeOK, Envelopes
  <2>5. Smaller(e.age + 1, Ttl[p]) <= since'[p]
    BY <2>1, <2>3, <2>4 DEF Smaller
  <2>6. [e EXCEPT !.age = Smaller(@ + 1, Ttl[p])] \in cache'[p]
    BY <1>1
  <2> QED BY <1>2, <2>5, <2>6
<1> QED BY <1>4, <1>5, <1>6, <1>7, <1>8 DEF AnalyzeInv


(* A provider answers from the memory of the process or from the cache.    *)
LEMMA ReadingKeeps ==
  ASSUME AnalyzeInv, NEW p \in Providers, Turn(p), NEW seen \in Results, seen.phase = "read",
         p = Landscape => seen.value \in {None} \cup Levels,
         result' = [result EXCEPT ![p] = seen],
         memoized' \in Bodies, p # Landscape => memoized' = memoized,
         UNCHANGED <<repo, cache, progress, forceRefresh, verdict, since>>,
         \A e \in cache[p] : e.body = None /\ (p # Landscape \/ memoized' = None) => Silent(p, e)'
  PROVE  AnalyzeInv'
<1>1. TypeOK /\ progress = "gather" /\ result \in [Providers -> Results]
  BY DEF AnalyzeInv, TypeOK, Turn
<1>3. result'[p] = seen /\ \A q \in Providers \ {p} : result'[q] = result[q]
  BY <1>1
<1>4. seen # Asking
  BY DEF Asking
<1>5. TypeOK'
  <2>1. result' \in [Providers -> Results]
    BY <1>1
  <2>2. result'[Landscape].value \in {None} \cup Levels
    BY <1>1, <1>3, ProvidersAssumption DEF TypeOK
  <2> QED BY <1>1, <2>1, <2>2 DEF TypeOK
<1>6. CacheInv'
  BY DEF AnalyzeInv, CacheInv
<1>7. PassInv'
  BY <1>1, <1>3, <1>4 DEF AnalyzeInv, PassInv, Asked, Known
<1>8. TtlInv'
  <2>1. result[p] # Asking
    BY DEF Turn, Unasked, Asking
  <2> QED BY <1>3, <2>1 DEF AnalyzeInv, TtlInv
<1>9. HeardInv'
  <2> SUFFICES ASSUME NEW q \in Providers, NEW e \in cache[q]
               PROVE  /\ result'[q].phase = "answered" /\ e.body = None => Unheard(q)'
                      /\ result'[q].phase = "read" /\ e.body = None /\ (q # Landscape \/ memoized' = None)
                           => Silent(q, e)'
    BY DEF HeardInv
  <2>1. CASE q = p
    BY <1>3, <2>1
  <2>2. CASE q # p
    <3>1. q # Landscape \/ memoized' = None => q # Landscape \/ memoized = None
      <4>1. CASE p = Landscape
        BY <2>2, <4>1
      <4>2. CASE p # Landscape
        BY <4>2
      <4> QED BY <4>1, <4>2
    <3> QED BY <1>3, <2>2, <3>1 DEF AnalyzeInv, HeardInv, Unheard, Silent
  <2> QED BY <2>1, <2>2
<1> QED BY <1>5, <1>6, <1>7, <1>8, <1>9 DEF AnalyzeInv

LEMMA RecallKeeps == ASSUME AnalyzeInv, NEW p \in Providers, Recall(p) PROVE AnalyzeInv'
<1>1. /\ Turn(p) /\ p = Landscape /\ memoized # None
      /\ UNCHANGED <<repo, cache, memoized, progress, forceRefresh, verdict, since>>
  BY DEF Recall, Remembered
<1>2. memoized \in Bodies /\ TypeOK
  BY DEF AnalyzeInv, TypeOK
<1>3. PICK seen : seen = Seen("read", p, memoized, FALSE)
  OBVIOUS
<1>4. seen \in Results /\ seen.phase = "read" /\ (p = Landscape => seen.value \in {None} \cup Levels)
  BY <1>2, <1>3, SeenIs
<1>5. result' = [result EXCEPT ![p] = seen]
  BY <1>3 DEF Recall
<1>6. memoized' \in Bodies /\ (p # Landscape => memoized' = memoized)
  BY <1>1, <1>2
<1>7. \A e \in cache[p] : e.body = None /\ (p # Landscape \/ memoized' = None) => Silent(p, e)'
  BY <1>1
<1> QED BY <1>1, <1>4, <1>5, <1>6, <1>7, ReadingKeeps

LEMMA ReadKeeps == ASSUME AnalyzeInv, NEW p \in Providers, Read(p) PROVE AnalyzeInv'
<1>1. PICK e \in cache[p] :
        /\ result' = [result EXCEPT ![p] = Seen("read", p, e.body, Refused(e))]
        /\ Remember(p, e.body)
  BY DEF Read, Hits
<1>2. Turn(p) /\ UNCHANGED <<repo, cache, progress, forceRefresh, verdict, since>>
  BY DEF Read
<1>3. e.body \in Bodies /\ memoized \in Bodies /\ TypeOK
  BY DEF AnalyzeInv, TypeOK, Envelopes
<1>4. memoized' = IF p = Landscape /\ e.body # None THEN e.body ELSE memoized
  BY <1>1 DEF Remember
<1>5. memoized' \in Bodies /\ (p # Landscape => memoized' = memoized)
  BY <1>3, <1>4
<1>6. Refused(e) \in BOOLEAN /\ (e.status = 404 => Refused(e))
  BY DEF Refused
<1>7. PICK seen : seen = Seen("read", p, e.body, Refused(e))
  OBVIOUS
<1>8. /\ seen \in Results /\ seen.phase = "read"
      /\ p = Landscape => seen.value \in {None} \cup Levels
      /\ e.body = None => seen = Result("read", None, Refused(e))
  BY <1>3, <1>6, <1>7, SeenIs
<1>9. result' = [result EXCEPT ![p] = seen]
  BY <1>1, <1>7
<1>10. \A f \in cache[p] : f.body = None /\ (p # Landscape \/ memoized' = None) => Silent(p, f)'
  <2> SUFFICES ASSUME NEW f \in cache[p], f.body = None PROVE Silent(p, f)'
    OBVIOUS
  <2>1. e = f
    BY DEF AnalyzeInv, CacheInv
  <2>2. seen.partial = Refused(e) /\ seen.value = None
    BY <1>8, <2>1 DEF Result
  <2>3. result'[p] = seen
    BY <1>3, <1>9 DEF TypeOK
  <2> QED BY <2>1, <2>2, <2>3 DEF Silent
<1> QED BY <1>2, <1>5, <1>8, <1>9, <1>10, ReadingKeeps

LEMMA RequestKeeps == ASSUME AnalyzeInv, NEW p \in Providers, Request(p) PROVE AnalyzeInv'
<1>1. /\ Turn(p) /\ result' = [result EXCEPT ![p] = Asking]
      /\ memoized' = IF p = Landscape THEN None ELSE memoized
      /\ since' = [since EXCEPT ![p] = 0]
      /\ UNCHANGED <<repo, cache, progress, forceRefresh, verdict>>
  BY DEF Request
<1>2. /\ TypeOK /\ progress = "gather" /\ p \in Asked
      /\ result \in [Providers -> Results] /\ since \in Ages
  BY <1>1 DEF AnalyzeInv, TypeOK, Turn
<1>3. Asking \in Results /\ Asking.phase = "asking" /\ Asking.value = None
  BY DEF Asking, Results, Bodies
<1>4. /\ result'[p] = Asking /\ \A q \in Providers \ {p} : result'[q] = result[q] /\ since'[q] = since[q]
  BY <1>1, <1>2
<1>5. TypeOK'
  <2>1. result' \in [Providers -> Results] /\ since' \in Ages
    <3>1. since' \in [Providers -> Nat]
      BY <1>1, <1>2 DEF Ages
    <3>2. since'[p] = 0 /\ Ttl[p] \in Nat
      BY <1>1, <1>2, ProvidersAssumption DEF Ages
    <3>3. \A q \in Providers : since'[q] <= Ttl[q]
      BY <1>2, <1>4, <3>2 DEF Ages
    <3> QED BY <1>1, <1>2, <1>3, <3>1, <3>3 DEF Ages
  <2>2. result'[Landscape].value \in {None} \cup Levels
    BY <1>2, <1>3, <1>4, ProvidersAssumption DEF TypeOK
  <2>3. memoized' \in Bodies
    BY <1>1, <1>2 DEF TypeOK, Bodies
  <2> QED BY <1>1, <1>2, <2>1, <2>2, <2>3 DEF TypeOK
<1>6. CacheInv'
  BY <1>1 DEF AnalyzeInv, CacheInv
<1>7. PassInv'
  BY <1>1, <1>2, <1>4 DEF AnalyzeInv, PassInv, Asked, Known
<1>8. TtlInv'
  BY <1>1, <1>4 DEF AnalyzeInv, TtlInv
<1>9. HeardInv'
  <2> SUFFICES ASSUME NEW q \in Providers, NEW e \in cache[q]
               PROVE  /\ result'[q].phase = "answered" /\ e.body = None => Unheard(q)'
                      /\ result'[q].phase = "read" /\ e.body = None /\ (q # Landscape \/ memoized' = None)
                           => Silent(q, e)'
    BY <1>1 DEF HeardInv
  <2>1. CASE q = p
    BY <1>3, <1>4, <2>1
  <2>2. CASE q # p
    <3>1. q # Landscape \/ memoized' = None => q # Landscape \/ memoized = None
      BY <1>1, <2>2
    <3> QED BY <1>4, <2>2, <3>1 DEF AnalyzeInv, HeardInv, Unheard, Silent
  <2> QED BY <2>1, <2>2
<1> QED BY <1>5, <1>6, <1>7, <1>8, <1>9 DEF AnalyzeInv

LEMMA ReplyKeeps == ASSUME AnalyzeInv, NEW p \in Providers, Reply(p) PROVE AnalyzeInv'
<1>1. PICK r \in Perform(p) :
        /\ cache' = [cache EXCEPT ![p] = {[age |-> 0, status |-> r.status, body |-> r.body]}]
        /\ result' = [result EXCEPT ![p] = Seen("answered", p, r.body, r.body = None)]
        /\ Remember(p, r.body)
  BY DEF Reply
<1>2. result[p] = Asking /\ UNCHANGED <<repo, progress, forceRefresh, verdict, since>>
  BY DEF Reply
<1>3. /\ TypeOK /\ progress = "gather"
      /\ cache \in [Providers -> SUBSET Envelopes] /\ result \in [Providers -> Results]
      /\ memoized \in Bodies /\ since \in Ages
  BY <1>2 DEF AnalyzeInv, TypeOK, PassInv
<1>4. r.body \in Bodies /\ r.status \in {0, 200, 404} /\ (r.status = 404 => r.body = None)
  BY DEF Perform, Bodies
<1>5. PICK f : f = [age |-> 0, status |-> r.status, body |-> r.body]
  OBVIOUS
<1>6. f \in Envelopes /\ f.age = 0 /\ f.status = r.status /\ f.body = r.body
  BY <1>4, <1>5 DEF Envelopes
<1> DEFINE seen == Seen("answered", p, r.body, r.body = None)
<1>7. /\ seen \in Results /\ seen.phase = "answered"
      /\ p = Landscape => seen.value \in {None} \cup Levels
      /\ r.body = None => seen = Result("answered", None, TRUE)
  <2>1. (r.body = None) \in BOOLEAN
    OBVIOUS
  <2>2. /\ seen \in Results /\ seen.phase = "answered"
        /\ p = Landscape => seen.value \in {None} \cup Levels
        /\ r.body = None => seen = Result("answered", None, r.body = None)
    BY <1>3, <1>4, <2>1, SeenIs
  <2> QED BY <2>2
<1>8. /\ cache'[p] = {f} /\ result'[p] = seen
      /\ \A q \in Providers \ {p} : cache'[q] = cache[q] /\ result'[q] = result[q]
  BY <1>1, <1>3, <1>5
<1>9. cache' \in [Providers -> SUBSET Envelopes] /\ result' \in [Providers -> Results]
  BY <1>1, <1>3, <1>5, <1>6, <1>7
<1> HIDE DEF seen
<1>10. seen # Asking
  BY <1>7 DEF Asking
<1>11. memoized' = IF p = Landscape /\ r.body # None THEN r.body ELSE memoized
  BY <1>1 DEF Remember
<1>12. TypeOK'
  <2>1. result'[Landscape].value \in {None} \cup Levels
    BY <1>3, <1>7, <1>8, ProvidersAssumption DEF TypeOK
  <2> QED BY <1>2, <1>3, <1>4, <1>9, <1>11, <2>1 DEF TypeOK
<1>13. CacheInv'
  <2> SUFFICES ASSUME NEW q \in Providers, NEW e \in cache'[q]
               PROVE  (\A g \in cache'[q] : e = g) /\ (e.status = 404 => e.body = None)
    BY DEF CacheInv
  <2>1. CASE q = p
    BY <1>4, <1>6, <1>8, <2>1
  <2>2. CASE q # p
    BY <1>8, <2>2 DEF AnalyzeInv, CacheInv
  <2> QED BY <2>1, <2>2
<1>14. PassInv'
  BY <1>2, <1>3, <1>8, <1>10 DEF AnalyzeInv, PassInv, Asked, Known
<1>15. TtlInv'
  <2> SUFFICES ASSUME NEW q \in Providers
               PROVE  since[q] = Ttl[q] \/ result'[q] = Asking \/ \E e \in cache'[q] : e.age <= since[q]
    BY <1>2 DEF TtlInv
  <2>1. CASE q = p
    <3>1. f.age <= since[q]
      BY <1>3, <1>6 DEF Ages
    <3> QED BY <1>8, <2>1, <3>1
  <2>2. CASE q # p
    BY <1>8, <2>2 DEF AnalyzeInv, TtlInv
  <2> QED BY <2>1, <2>2
<1>16. HeardInv'
  <2> SUFFICES ASSUME NEW q \in Providers, NEW e \in cache'[q]
               PROVE  /\ result'[q].phase = "answered" /\ e.body = None => Unheard(q)'
                      /\ result'[q].phase = "read" /\ e.body = None /\ (q # Landscape \/ memoized' = None)
                           => Silent(q, e)'
    BY DEF HeardInv
  <2>1. CASE q = p
    <3>1. seen.phase # "read"
      BY <1>7
    <3>2. ASSUME e.body = None PROVE Unheard(q)'
      <4>1. seen = Result("answered", None, TRUE)
        BY <1>6, <1>7, <1>8, <2>1, <3>2
      <4> QED BY <1>8, <2>1, <4>1 DEF Unheard, Result
    <3> QED BY <1>8, <2>1, <3>1, <3>2
  <2>2. CASE q # p
    <3>1. e \in cache[q] /\ result'[q] = result[q]
      BY <1>8, <2>2
    <3>2. q # Landscape \/ memoized' = None => q # Landscape \/ memoized = None
      BY <1>11, <2>2
    <3> QED BY <3>1, <3>2 DEF AnalyzeInv, HeardInv, Unheard, Silent
  <2> QED BY <2>1, <2>2
<1> QED BY <1>12, <1>13, <1>14, <1>15, <1>16 DEF AnalyzeInv

LEMMA LaterKeeps == ASSUME AnalyzeInv, AllGathered \/ Attempt PROVE AnalyzeInv'
<1>1. /\ progress' \in {"llm", "done"} /\ forceRefresh' = None /\ Gathered(Providers)
      /\ verdict' \subseteq Verdicts
      /\ UNCHANGED <<repo, cache, memoized, result, since>>
  <2>1. CASE AllGathered
    BY <2>1 DEF AllGathered, AnalyzeInv, TypeOK
  <2>2. CASE Attempt
    BY <2>2 DEF Attempt, AnalyzeInv, TypeOK, PassInv
  <2> QED BY <2>1, <2>2
<1>2. TypeOK' /\ CacheInv' /\ TtlInv'
  BY <1>1 DEF AnalyzeInv, TypeOK, CacheInv, TtlInv
<1>3. PassInv'
  <2>1. \A p \in Providers : result[p] # Asking
    <3> SUFFICES ASSUME NEW p \in Providers, result[p] = Asking PROVE FALSE
      OBVIOUS
    <3>1. p \in Asked
      BY DEF AnalyzeInv, PassInv
    <3> QED BY <1>1, <3>1 DEF Gathered, Asking
  <2>2. Gathered(Providers)'
    BY <1>1 DEF Gathered, Asked, Known
  <2> QED BY <1>1, <2>1, <2>2 DEF PassInv
<1>4. HeardInv'
  BY <1>1 DEF AnalyzeInv, HeardInv, Unheard, Silent
<1> QED BY <1>2, <1>3, <1>4 DEF AnalyzeInv

LEMMA AnalyzeStep == ASSUME AnalyzeInv, [AnalyzeNext]_analyzing PROVE AnalyzeInv'
<1>1. CASE UNCHANGED analyzing
  <2>1. UNCHANGED <<repo, cache, memoized, progress, forceRefresh, result, tries, verdict, since>>
    BY <1>1 DEF analyzing, process
  <2>2. TypeOK' /\ CacheInv' /\ TtlInv'
    BY <2>1 DEF AnalyzeInv, TypeOK, CacheInv, TtlInv
  <2>3. Asked' = Asked
    BY <2>1 DEF Asked, Known
  <2>4. PassInv'
    BY <2>1, <2>3 DEF AnalyzeInv, PassInv, Gathered
  <2>5. HeardInv'
    BY <2>1 DEF AnalyzeInv, HeardInv, Unheard, Silent
  <2> QED BY <2>2, <2>4, <2>5 DEF AnalyzeInv
<1>2. ASSUME NEW p \in Providers, Pass2(p) PROVE AnalyzeInv'
  BY <1>2, RecallKeeps, ReadKeeps, RequestKeeps, ReplyKeeps DEF Pass2
<1> QED BY <1>1, <1>2, AnalyzeRepoKeeps, LaterKeeps, DayKeeps, RestartKeeps DEF AnalyzeNext

THEOREM AnalyzeIsInvariant == AnalyzeSpec => []AnalyzeInv
<1>1. AnalyzeInv /\ [AnalyzeNext]_analyzing => AnalyzeInv'
  BY AnalyzeStep
<1> QED BY InitInv, <1>1, PTL DEF AnalyzeSpec


-----------------------------------------------------------------------------
LEMMA SeenIsNotAsking ==
  ASSUME TypeOK, NEW phase \in {"read", "answered"}, NEW p \in Providers,
         NEW body \in Bodies, NEW partial \in BOOLEAN
  PROVE  Seen(phase, p, body, partial) # Asking
<1>1. Seen(phase, p, body, partial).phase = phase
  BY SeenIs
<1> QED BY <1>1 DEF Asking

(* Who is being asked after a step and was not before it has been requested *)
(* in that step.                                                           *)
LEMMA OnlyRequestsAsk ==
  ASSUME AnalyzeInv, AnalyzeNext, NEW p \in Providers, result'[p] = Asking, result[p] # Asking
  PROVE  Request(p)
<1>1. TypeOK /\ result \in [Providers -> Results]
  BY DEF AnalyzeInv, TypeOK
<1>2. ASSUME NEW q \in Providers, NEW new, result' = [result EXCEPT ![q] = new], new # Asking
      PROVE  FALSE
  BY <1>1, <1>2
<1>3. ASSUME NEW q \in Providers, Recall(q) PROVE FALSE
  <2>1. PICK new : new = Seen("read", q, memoized, FALSE)
    OBVIOUS
  <2>2. memoized \in Bodies
    BY <1>1 DEF TypeOK
  <2>3. new # Asking
    BY <1>1, <2>1, <2>2, SeenIsNotAsking
  <2>4. result' = [result EXCEPT ![q] = new]
    BY <1>3, <2>1 DEF Recall
  <2> QED BY <1>2, <2>3, <2>4
<1>4. ASSUME NEW q \in Providers, Read(q) PROVE FALSE
  <2>1. PICK e \in cache[q] : result' = [result EXCEPT ![q] = Seen("read", q, e.body, Refused(e))]
    BY <1>4 DEF Read, Hits
  <2>2. e.body \in Bodies /\ Refused(e) \in BOOLEAN
    BY <1>1 DEF TypeOK, Envelopes, Refused
  <2>3. PICK new : new = Seen("read", q, e.body, Refused(e))
    OBVIOUS
  <2>4. new # Asking
    BY <1>1, <2>2, <2>3, SeenIsNotAsking
  <2> QED BY <1>2, <2>1, <2>3, <2>4
<1>5. ASSUME NEW q \in Providers, Reply(q) PROVE FALSE
  <2>1. PICK r \in Perform(q) : result' = [result EXCEPT ![q] = Seen("answered", q, r.body, r.body = None)]
    BY <1>5 DEF Reply
  <2>2. r.body \in Bodies /\ (r.body = None) \in BOOLEAN
    BY DEF Perform, Bodies
  <2>3. PICK new : new = Seen("answered", q, r.body, r.body = None)
    OBVIOUS
  <2>4. new # Asking
    BY <1>1, <2>2, <2>3, SeenIsNotAsking
  <2> QED BY <1>2, <2>1, <2>3, <2>4
<1>6. ASSUME NEW q \in Providers, Request(q) PROVE Request(p)
  <2>1. result' = [result EXCEPT ![q] = Asking]
    BY <1>6 DEF Request
  <2>2. q = p
    BY <1>1, <2>1
  <2> QED BY <1>6, <2>2
<1>7. ASSUME result' = [r \in Providers |-> Unasked] PROVE FALSE
  BY <1>7, NoOneAsked
<1>8. CASE AnalyzeRepo \/ Restart
  BY <1>7, <1>8 DEF AnalyzeRepo, Restart
<1>9. CASE AllGathered \/ Attempt \/ Day
  BY <1>9 DEF AllGathered, Attempt, Day, process
<1>10. CASE \E q \in Providers : Pass2(q)
  BY <1>3, <1>4, <1>5, <1>6, <1>10 DEF Pass2
<1> QED BY <1>8, <1>9, <1>10 DEF AnalyzeNext

(* Whatever the providers answer, however they fail, and whenever the       *)
(* process restarts: a provider that is asked, and not by hand, was never   *)
(* asked within the time its answer lives (provider.ts:4-12, 47-94).       *)
THEOREM AskedOncePerTtl == AnalyzeSpec => OneRequestPerTtl
<1> DEFINE Once == \A p \in Providers : result'[p] = Asking /\ result[p] # Asking /\ forceRefresh # p =>
                     since[p] = Ttl[p]
<1>1. ASSUME AnalyzeInv, AnalyzeNext, NEW p \in Providers,
             result'[p] = Asking, result[p] # Asking, forceRefresh # p
      PROVE  since[p] = Ttl[p]
  <2>1. Request(p)
    BY <1>1, OnlyRequestsAsk
  <2>2. Hits(p) = {}
    BY <2>1 DEF Request
  <2>3. \A e \in cache[p] : ~IsFresh(p, e)
    BY <1>1, <2>2 DEF Hits
  <2>4. CASE \E e \in cache[p] : e.age <= since[p]
    <3>1. PICK e \in cache[p] : e.age <= since[p]
      BY <2>4
    <3>2. since[p] \in Nat /\ since[p] <= Ttl[p] /\ Ttl[p] \in Nat /\ e.age \in Nat /\ ~(e.age < Ttl[p])
      BY <1>1, <2>3, ProvidersAssumption DEF AnalyzeInv, TypeOK, Envelopes, IsFresh, Ages
    <3> QED BY <3>1, <3>2
  <2> QED BY <1>1, <2>4 DEF AnalyzeInv, TtlInv
<1>2. AnalyzeInv /\ [AnalyzeNext]_analyzing => [Once]_analyzing
  BY <1>1
<1> QED BY AnalyzeIsInvariant, <1>2, PTL DEF AnalyzeSpec, OneRequestPerTtl, Once


-----------------------------------------------------------------------------
(* A provider that failed.                                                 *)
LEMMA FailureReported == AnalyzeInv => FailureIsReported
<1> SUFFICES ASSUME AnalyzeInv, Done, NEW p \in Asked, NEW e \in cache[p],
                    e.body = None, ~Remembered(p)
             PROVE  \/ p \in PartialSignals \ SignalsUsed
                    \/ /\ result[p].phase = "read" /\ ~Refused(e)
                       /\ p = Landscape \/ p \notin SignalsUsed
  BY DEF FailureIsReported
<1>1. p \in Providers
  BY DEF Asked
<1>2. forceRefresh = None /\ Gathered(Providers)
  BY DEF AnalyzeInv, PassInv, Done
<1>3. result[p].phase \in {"read", "answered"}
  BY <1>1, <1>2 DEF Gathered
<1>4. CASE Unheard(p)
  <2>1. p \notin SignalsUsed
    BY <1>4 DEF SignalsUsed, Unheard
  <2> QED BY <1>4, <2>1 DEF PartialSignals, Unheard
<1>5. CASE ~Unheard(p)
  <2>1. result[p].phase = "read"
    BY <1>1, <1>3, <1>5 DEF AnalyzeInv, HeardInv
  <2>2. p # Landscape \/ memoized = None
    BY <1>2 DEF Remembered, Landscape, None
  <2>3. Silent(p, e)
    BY <1>1, <2>1, <2>2 DEF AnalyzeInv, HeardInv
  <2>4. ~Refused(e)
    BY <1>5, <2>3 DEF Silent, Unheard
  <2>5. p # Landscape => p \notin SignalsUsed
    BY <2>3 DEF Silent, SignalsUsed
  <2> QED BY <2>1, <2>4, <2>5
<1> QED BY <1>4, <1>5

(* What the rules know: the first that fires.                              *)
LEMMA RulesAre ==
  /\ DOMAIN KindRules = 1..15
  /\ \A i \in 1..15 : KindRules[i].confidence \in 65..100 /\ KindRules[i].kind # None
<1>1. DOMAIN KindRules = 1..15
  BY DEF KindRules
<1>2. \A i \in 1..15 : KindRules[i].confidence \in 65..100 /\ KindRules[i].kind # None
  BY DEF KindRules, Rule, None
<1> QED BY <1>1, <1>2

LEMMA LeastIsMember ==
  ASSUME NEW S \in SUBSET (1..15), S # {}
  PROVE  Min(S) \in S
<1>1. \E x \in S : \A y \in S : x <= y
  <2> DEFINE NoLeast == \A x \in S : \E y \in S : y < x
  <2> SUFFICES ASSUME NoLeast PROVE FALSE
    OBVIOUS
  <2>1. \A x \in S : x > 0
    OBVIOUS
  <2>2. ASSUME NEW n \in 0..14, \A x \in S : x > n PROVE \A x \in S : x > n + 1
    BY <2>2
  <2> HIDE DEF NoLeast
  <2>3. /\ \A x \in S : x > 1
        /\ \A x \in S : x > 2
        /\ \A x \in S : x > 3
        /\ \A x \in S : x > 4
        /\ \A x \in S : x > 5
    BY <2>1, <2>2
  <2>4. /\ \A x \in S : x > 6
        /\ \A x \in S : x > 7
        /\ \A x \in S : x > 8
        /\ \A x \in S : x > 9
        /\ \A x \in S : x > 10
    BY <2>2, <2>3
  <2>5. /\ \A x \in S : x > 11
        /\ \A x \in S : x > 12
        /\ \A x \in S : x > 13
        /\ \A x \in S : x > 14
        /\ \A x \in S : x > 15
    BY <2>2, <2>4
  <2>6. PICK z \in S : z \in 1..15
    OBVIOUS
  <2>7. z > 15
    BY <2>5
  <2> QED BY <2>6, <2>7
<1> QED BY <1>1 DEF Min

LEMMA BestIs ==
  \/ Best = Rule(None, 0, {}, {})
  \/ \E i \in DOMAIN KindRules : Best = KindRules[i] /\ KindRules[i].needs \subseteq repo.facts
<1>1. CASE ClassifyKind = {}
  BY <1>1 DEF Best
<1>2. CASE ClassifyKind # {}
  <2>1. ClassifyKind \in SUBSET (1..15)
    BY RulesAre DEF ClassifyKind
  <2>2. Min(ClassifyKind) \in ClassifyKind
    BY <1>2, <2>1, LeastIsMember
  <2> QED BY <1>2, <2>2 DEF Best, ClassifyKind
<1> QED BY <1>1, <1>2

LEMMA UnknownHonest ==
  ASSUME AnalyzeInv, Analysis.maturity = "unknown"
  PROVE  UnknownIsHonest
<1>1. PICK level \in {None} \cup Levels : level = result[Landscape].value
  BY DEF AnalyzeInv, TypeOK
<1>2. Maturity(level) = "unknown"
  BY <1>1 DEF Analysis
<1>3. repo.pushed \subseteq Int /\ repo.created \subseteq Int /\ repo.released \subseteq Int
  BY ReposAssumption DEF AnalyzeInv, TypeOK
<1> QED BY <1>2, <1>3 DEF Maturity, UnknownIsHonest, Levels, None

LEMMA DoubtFlagged == AnalyzeInv => DoubtIsFlagged
<1> SUFFICES ASSUME AnalyzeInv, Done
             PROVE  /\ \/ Classified.needs_review
                       \/ Classified.confidence >= 70 /\ Classified.domains = ClassifyDomains
                          /\ \E i \in DOMAIN KindRules : KindRules[i].kind = Classified.kind
                                                         /\ KindRules[i].needs \subseteq repo.facts
                       \/ \E v \in Verdicts : ~v.needs_review /\ v \in verdict
                    /\ Analysis.maturity = "unknown" => UnknownIsHonest
  BY DEF DoubtIsFlagged
<1>1. CASE ~Ambiguous
  <2>1. Classified = Classification(BestKind, ClassifyDomains, Best.confidence, FALSE, "rules")
    BY <1>1 DEF Classified
  <2>2. ~(Best.confidence < 70)
    BY <1>1 DEF Ambiguous, NeedsLlm
  <2>3. PICK i \in DOMAIN KindRules : Best = KindRules[i] /\ KindRules[i].needs \subseteq repo.facts
    BY <2>2, BestIs DEF Rule
  <2>4. Best.confidence \in 65..100 /\ Best.kind # None
    BY <2>3, RulesAre
  <2>5. /\ Classified.confidence = Best.confidence /\ Classified.domains = ClassifyDomains
        /\ Classified.kind = Best.kind
    BY <2>1, <2>4 DEF Classification, BestKind
  <2> QED BY <2>2, <2>3, <2>4, <2>5, UnknownHonest
<1>2. CASE Ambiguous /\ (~WithLlm \/ verdict = {})
  <2>1. Classified.needs_review
    BY <1>2 DEF Classified, Classification
  <2> QED BY <2>1, UnknownHonest
<1>3. CASE Ambiguous /\ WithLlm /\ verdict # {}
  <2>1. PICK v : v = CHOOSE w \in verdict : TRUE
    OBVIOUS
  <2>2. v \in verdict /\ v \in Verdicts
    BY <1>3, <2>1 DEF AnalyzeInv, TypeOK
  <2>3. Classified = Classification(v.kind, v.domains, v.confidence, v.needs_review, "llm")
    BY <1>3, <2>1 DEF Classified
  <2>4. Classified.needs_review = v.needs_review
    BY <2>3 DEF Classification
  <2> QED BY <2>2, <2>4, UnknownHonest
<1> QED BY <1>1, <1>2, <1>3

(* Whatever the repository, and however the providers and the LLM answer or *)
(* fail: a document that is not flagged for review stands on a rule of 70   *)
(* per cent and on the topics, or on the LLM's own word; a maturity that is *)
(* unknown could not be known; and a provider of which there is no answer   *)
(* is reported and not counted as used, but for a failure that is cached    *)
(* and was not a refusal (analyze.ts:61-122, derived.ts:102-142,            *)
(* provider.ts:55, 67; signals.ts:56-119).                                 *)
THEOREM OwnsUp == AnalyzeSpec => []AnalysisOwnsUp
<1>1. AnalyzeInv => AnalysisOwnsUp
  BY DoubtFlagged, FailureReported DEF AnalysisOwnsUp
<1> QED BY AnalyzeIsInvariant, <1>1, PTL


-----------------------------------------------------------------------------
(* Of four topics the last has the three others before it, so that it is   *)
(* not among the first three.                                              *)
Before(i) == {repo.topics[j] : j \in 1..(i - 1)} \cap Domains

LEMMA BeforeIsFinite ==
  ASSUME AnalyzeInv, NEW i \in DOMAIN repo.topics
  PROVE  IsFiniteSet(Before(i))
<1>1. repo.topics \in Seq(ToSet(repo.topics))
  BY ReposAssumption DEF AnalyzeInv, TypeOK
<1>2. i \in Nat /\ i >= 1
  BY <1>1
<1>3. IsFiniteSet(1..(i - 1))
  BY <1>2, FS_Interval
<1> DEFINE f == [j \in 1..(i - 1) |-> repo.topics[j]]
           S == {repo.topics[j] : j \in 1..(i - 1)}
<1>4. f \in Surjection(1..(i - 1), S)
  BY DEF Surjection
<1>5. IsFiniteSet(S)
  BY <1>3, <1>4, FS_Surjection
<1> QED BY <1>5, FS_Subset DEF Before

LEMMA DomainsAre ==
  ASSUME NEW t \in ClassifyDomains
  PROVE  /\ t \in Domains
         /\ \E i \in DOMAIN repo.topics : repo.topics[i] = t /\ Cardinality(Before(i) \ {t}) < MaxDomains
BY DEF ClassifyDomains, Before

LEMMA ThreeAreThree ==
  ASSUME NEW a, NEW b, NEW c, a # b, a # c, b # c
  PROVE  IsFiniteSet({a, b, c}) /\ Cardinality({a, b, c}) = 3
<1>1. IsFiniteSet({a}) /\ Cardinality({a}) = 1
  BY FS_Singleton
<1>2. IsFiniteSet({a} \cup {b}) /\ Cardinality({a} \cup {b}) = 2
  BY <1>1, FS_AddElement
<1>3. IsFiniteSet(({a} \cup {b}) \cup {c}) /\ Cardinality(({a} \cup {b}) \cup {c}) = 3
  BY <1>2, FS_AddElement
<1>4. ({a} \cup {b}) \cup {c} = {a, b, c}
  OBVIOUS
<1> QED BY <1>3, <1>4

LEMMA NoFourth ==
  ASSUME AnalyzeInv, NEW a \in Domains, NEW b \in Domains, NEW c \in Domains, NEW d,
         a # b, a # c, b # c, d \notin {a, b, c},
         NEW i \in DOMAIN repo.topics, Cardinality(Before(i) \ {d}) < MaxDomains,
         NEW j \in 1..(i - 1), NEW k \in 1..(i - 1), NEW l \in 1..(i - 1),
         repo.topics[j] = a, repo.topics[k] = b, repo.topics[l] = c
  PROVE  FALSE
<1>1. {a, b, c} \subseteq Before(i) \ {d}
  BY DEF Before
<1>2. IsFiniteSet(Before(i) \ {d})
  BY BeforeIsFinite, FS_Subset
<1>3. Cardinality({a, b, c}) <= Cardinality(Before(i) \ {d})
  BY <1>1, <1>2, FS_Subset
<1>4. Cardinality(Before(i) \ {d}) \in Nat
  BY <1>2, FS_CardinalityType
<1>5. Cardinality({a, b, c}) = 3
  BY ThreeAreThree
<1> QED BY <1>3, <1>4, <1>5 DEF MaxDomains

LEMMA OneIsTaken ==
  ASSUME NEW S, IsFiniteSet(S), S # {}
  PROVE  \E x \in S, T \in SUBSET S : T = S \ {x} /\ IsFiniteSet(T) /\ Cardinality(T) = Cardinality(S) - 1
<1>1. PICK x \in S : TRUE
  OBVIOUS
<1>2. IsFiniteSet(S \ {x}) /\ Cardinality(S \ {x}) = Cardinality(S) - 1
  BY FS_RemoveElement
<1> QED BY <1>2

LEMMA AtMostThree ==
  ASSUME AnalyzeInv
  PROVE  IsFiniteSet(ClassifyDomains) /\ Cardinality(ClassifyDomains) <= MaxDomains
<1> DEFINE D == ClassifyDomains
<1>1. repo.topics \in Seq(ToSet(repo.topics))
  BY ReposAssumption DEF AnalyzeInv, TypeOK
<1>2. IsFiniteSet(D)
  <2> DEFINE n == Len(repo.topics)
             S == {repo.topics[j] : j \in 1..n}
             f == [j \in 1..n |-> repo.topics[j]]
  <2>1. n \in Nat /\ DOMAIN repo.topics = 1..n
    BY <1>1
  <2>2. IsFiniteSet(1..n)
    BY <2>1, FS_Interval
  <2>3. f \in Surjection(1..n, S)
    BY DEF Surjection
  <2>4. IsFiniteSet(S)
    BY <2>2, <2>3, FS_Surjection
  <2>5. D \subseteq S
    BY <2>1, DomainsAre
  <2> QED BY <2>4, <2>5, FS_Subset
<1>3. \A t \in D : t \in Domains /\ \E i \in DOMAIN repo.topics :
        repo.topics[i] = t /\ Cardinality(Before(i) \ {t}) < MaxDomains
  BY DomainsAre
<1> HIDE DEF D
<1>4. ASSUME NEW a \in D, NEW b \in D, NEW c \in D, NEW d \in D,
             a # b, a # c, a # d, b # c, b # d, c # d
      PROVE  FALSE
  <2>1. PICK i \in DOMAIN repo.topics : repo.topics[i] = a /\ Cardinality(Before(i) \ {a}) < MaxDomains
    BY <1>3
  <2>2. PICK j \in DOMAIN repo.topics : repo.topics[j] = b /\ Cardinality(Before(j) \ {b}) < MaxDomains
    BY <1>3
  <2>3. PICK k \in DOMAIN repo.topics : repo.topics[k] = c /\ Cardinality(Before(k) \ {c}) < MaxDomains
    BY <1>3
  <2>4. PICK l \in DOMAIN repo.topics : repo.topics[l] = d /\ Cardinality(Before(l) \ {d}) < MaxDomains
    BY <1>3
  <2>5. {a, b, c, d} \subseteq Domains
    BY <1>3
  <2>6. /\ i \in Nat \ {0} /\ j \in Nat \ {0} /\ k \in Nat \ {0} /\ l \in Nat \ {0}
        /\ i # j /\ i # k /\ i # l /\ j # k /\ j # l /\ k # l
    BY <1>1, <1>4, <2>1, <2>2, <2>3, <2>4
  <2>7. CASE j < i /\ k < i /\ l < i
    <3>1. j \in 1..(i - 1) /\ k \in 1..(i - 1) /\ l \in 1..(i - 1)
      BY <2>6, <2>7
    <3> QED BY <1>4, <2>1, <2>2, <2>3, <2>4, <2>5, <3>1, NoFourth
  <2>8. CASE i < j /\ k < j /\ l < j
    <3>1. i \in 1..(j - 1) /\ k \in 1..(j - 1) /\ l \in 1..(j - 1)
      BY <2>6, <2>8
    <3> QED BY <1>4, <2>1, <2>2, <2>3, <2>4, <2>5, <3>1, NoFourth
  <2>9. CASE i < k /\ j < k /\ l < k
    <3>1. i \in 1..(k - 1) /\ j \in 1..(k - 1) /\ l \in 1..(k - 1)
      BY <2>6, <2>9
    <3> QED BY <1>4, <2>1, <2>2, <2>3, <2>4, <2>5, <3>1, NoFourth
  <2>10. CASE i < l /\ j < l /\ k < l
    <3>1. i \in 1..(l - 1) /\ j \in 1..(l - 1) /\ k \in 1..(l - 1)
      BY <2>6, <2>10
    <3> QED BY <1>4, <2>1, <2>2, <2>3, <2>4, <2>5, <3>1, NoFourth
  <2> QED BY <2>6, <2>7, <2>8, <2>9, <2>10
<1>5. CASE Cardinality(D) > 3
  <2>1. Cardinality(D) \in Nat /\ D # {}
    BY <1>2, <1>5, FS_CardinalityType, FS_EmptySet
  <2>2. PICK a \in D, E \in SUBSET D : E = D \ {a} /\ IsFiniteSet(E) /\ Cardinality(E) = Cardinality(D) - 1
    BY <1>2, <2>1, OneIsTaken
  <2>3. E # {}
    BY <1>5, <2>1, <2>2, FS_EmptySet
  <2>4. PICK b \in E, F \in SUBSET E : F = E \ {b} /\ IsFiniteSet(F) /\ Cardinality(F) = Cardinality(E) - 1
    BY <2>2, <2>3, OneIsTaken
  <2>5. F # {}
    BY <1>5, <2>1, <2>2, <2>4, FS_EmptySet
  <2>6. PICK c \in F, G \in SUBSET F : G = F \ {c} /\ IsFiniteSet(G) /\ Cardinality(G) = Cardinality(F) - 1
    BY <2>4, <2>5, OneIsTaken
  <2>7. PICK d \in G : TRUE
    BY <1>5, <2>1, <2>2, <2>4, <2>6, FS_EmptySet
  <2> QED BY <1>4, <2>2, <2>4, <2>6, <2>7
<1>6. Cardinality(D) \in Nat
  BY <1>2, FS_CardinalityType
<1> QED BY <1>2, <1>5, <1>6 DEF D, MaxDomains


LEMMA RelevanceIsPerCent == K8sRelevance \in 0..100
<1>1. PICK t \in {40, 0} : t = IF Known({"topic-k8s"}) THEN 40 ELSE 0
  OBVIOUS
<1>2. PICK n \in {20, 0} : n = IF Known({"name-k8s"}) THEN 20 ELSE 0
  OBVIOUS
<1>3. PICK d \in {15, 0} : d = IF Known({"description-k8s"}) THEN 15 ELSE 0
  OBVIOUS
<1>4. PICK m \in {35, 0} :
        m = IF Known({"client-go", "controller-runtime", "Chart.yaml", "config/crd"}) THEN 35 ELSE 0
  OBVIOUS
<1>5. K8sRelevance = Smaller(100, t + n + d + m)
  BY <1>1, <1>2, <1>3, <1>4 DEF K8sRelevance
<1> QED BY <1>5 DEF Smaller

LEMMA ParsesWhenDone == AnalyzeInv => ParseSucceeds
<1> SUFFICES ASSUME AnalyzeInv
             PROVE  /\ Cardinality(Classified.domains) \in 1..MaxDomains
                    /\ Classified.domains \subseteq Domains
                    /\ Classified.confidence \in 0..100
  BY RelevanceIsPerCent DEF ParseSucceeds
<1>1. /\ ClassifyDomains \subseteq Domains
      /\ ClassifyDomains # {} => Cardinality(ClassifyDomains) \in 1..MaxDomains
  <2>1. Cardinality(ClassifyDomains) \in Nat
    BY AtMostThree, FS_CardinalityType
  <2>2. ClassifyDomains # {} => Cardinality(ClassifyDomains) # 0
    BY AtMostThree, FS_EmptySet
  <2>3. Cardinality(ClassifyDomains) <= 3
    BY AtMostThree DEF MaxDomains
  <2>4. ClassifyDomains \subseteq Domains
    BY DomainsAre
  <2> QED BY <2>1, <2>2, <2>3, <2>4 DEF MaxDomains
<1>2. DomainsOrFallback \subseteq Domains /\ Cardinality(DomainsOrFallback) \in 1..MaxDomains
  <2>1. Cardinality({FallbackDomain}) = 1
    BY FS_Singleton
  <2> QED BY <1>1, <2>1, VerdictsAssumption DEF DomainsOrFallback, MaxDomains
<1>3. Best.confidence \in 0..100
  BY BestIs, RulesAre DEF Rule
<1>4. CASE ~Ambiguous
  <2>1. Classified = Classification(BestKind, ClassifyDomains, Best.confidence, FALSE, "rules")
    BY <1>4 DEF Classified
  <2>2. ClassifyDomains # {}
    BY <1>4 DEF Ambiguous
  <2>3. Classified.domains = ClassifyDomains /\ Classified.confidence = Best.confidence
    BY <2>1 DEF Classification
  <2> QED BY <1>1, <1>3, <2>2, <2>3
<1>5. CASE Ambiguous /\ (~WithLlm \/ verdict = {})
  <2>1. Classified.domains = DomainsOrFallback /\ Classified.confidence \in {Best.confidence, 30}
    BY <1>5 DEF Classified, Classification
  <2> QED BY <1>2, <1>3, <2>1
<1>6. CASE Ambiguous /\ WithLlm /\ verdict # {}
  <2>1. PICK v : v = CHOOSE w \in verdict : TRUE
    OBVIOUS
  <2>2. v \in Verdicts
    BY <1>6, <2>1 DEF AnalyzeInv, TypeOK
  <2>3. Classified.domains = v.domains /\ Classified.confidence = v.confidence
    BY <1>6, <2>1 DEF Classified, Classification
  <2> QED BY <2>2, <2>3, VerdictsAssumption
<1> QED BY <1>4, <1>5, <1>6

(* Whatever the topics and the manifests say, and whatever the LLM answers  *)
(* that LlmVerdict accepts: a finished analysis has one to three domains of *)
(* the taxonomy, a confidence and a relevance within 0 and 100, so that     *)
(* AnalysisSchema.parse keeps it (analyze.ts:124).                         *)
THEOREM EveryAnalysisParses == AnalyzeSpec => []ParseSucceeds
<1> QED BY AnalyzeIsInvariant, ParsesWhenDone, PTL

=============================================================================
