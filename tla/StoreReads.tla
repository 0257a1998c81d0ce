----------------------------- MODULE StoreReads -----------------------------
(***************************************************************************)
(* The reading half of the DataStore port (apps/workers/src/lib), as each  *)
(* of its three implementations does it: the in-memory store at once, the  *)
(* filesystem store key by key, Meilisearch page by page.  What they must  *)
(* agree on is what data-store.conformance.ts asks of all three.           *)
(*                                                                         *)
(* A behaviour is one list over any small collection, by any query.  While *)
(* the filesystem store reads, another process may change documents.       *)
(***************************************************************************)
EXTENDS Naturals, FiniteSets, Sequences

CONSTANTS
  Ids,              \* numbers, in the order of their keys
  Groups, Ranks,    \* values of a filterable and of a sortable field; rank 0 is a missing one
  NoWhere,              \* no where
  Limits,           \* limits; 0 is none
  PageSize,         \* PAGE_SIZE
  MaxTouched,       \* bound on concurrent changes
  NameOf, ShardOf,  \* full_name of a document; the shard that owns a name
  Shards

ASSUME ReadsAssumption ==
  /\ Ids \subseteq Nat /\ IsFiniteSet(Ids) /\ IsFiniteSet(Ranks) /\ Shards \in Nat
  /\ Ranks = 0..(Cardinality(Ranks) - 1) /\ Limits \subseteq Nat
  /\ PageSize \in Nat \ {0}
  /\ ShardOf \in [{NameOf[i] : i \in Ids} -> 0..(Shards - 1)]

VARIABLES
  backend, query,
  docs,             \* the collection: a document per id it has
  phase,
  keys,             \* fs: keys still to be read
  rows,             \* fs: documents read, with their ids, when they must be sorted
  out,              \* what has been yielded
  touched           \* ids changed since the list began

listing == <<backend, query, docs, phase, keys, rows, out, touched>>

Documents == [group : Groups, rank : Ranks]
Collections == UNION {[present -> Documents] : present \in SUBSET Ids}
Queries == [where : Groups \cup {NoWhere}, sort : {"none", "asc", "desc"}, limit : Limits]

Row(i) == [id |-> i, doc |-> docs[i]]

-----------------------------------------------------------------------------
(* Shared predicates (lib/data-store.ts) *)

MatchesWhere(doc) == query.where = NoWhere \/ doc.group = query.where

(* compareBySort is negative: a missing rank is last in both directions. *)
Before(a, b) ==
  /\ query.sort # "none" /\ a.rank # 0
  /\ b.rank = 0 \/ (IF query.sort = "asc" THEN a.rank < b.rank ELSE a.rank > b.rank)

(* The sort is stable, and what it is given is in the order of the ids.    *)
Precedes(x, y) == Before(x.doc, y.doc) \/ (x.id < y.id /\ ~Before(y.doc, x.doc))

(* The element with n - 1 before it is the nth. *)
SortRows(s) == [n \in DOMAIN s |->
  s[CHOOSE k \in DOMAIN s : Cardinality({j \in DOMAIN s : Precedes(s[j], s[k])}) = n - 1]]

Limited(s) == IF query.limit = 0 \/ Len(s) =< query.limit THEN s ELSE SubSeq(s, 1, query.limit)

Matching == {i \in DOMAIN docs : MatchesWhere(docs[i])}
InOrder(ids) == [n \in 1..Cardinality(ids) |->
                   Row(CHOOSE i \in ids : Cardinality({j \in ids : j < i}) = n - 1)]

-----------------------------------------------------------------------------
ListInit ==
  /\ backend \in {"memory", "fs", "meili"}
  /\ query \in Queries
  /\ docs \in Collections
  /\ phase = "start" /\ keys = <<>> /\ rows = <<>> /\ out = <<>> /\ touched = {}

Ended(yielded) == /\ phase' = "done" /\ out' = yielded

(* InMemoryDataStore.list *)
ListMemory ==
  /\ backend = "memory" /\ phase = "start"
  /\ Ended(Limited(SortRows(InOrder(Matching))))
  /\ UNCHANGED <<backend, query, docs, keys, rows, touched>>

(* FsDataStore.readAll lists the keys once, *)
ListKeys ==
  /\ backend = "fs" /\ phase = "start"
  /\ keys' = [n \in 1..Cardinality(DOMAIN docs) |-> InOrder(DOMAIN docs)[n].id]
  /\ phase' = "reading"
  /\ UNCHANGED <<backend, query, docs, rows, out, touched>>

(* and reads one at a time: a key that has gone is skipped.  Without a sort *)
(* a match is yielded as it is read, up to the limit.                       *)
\* Mutant of ReadKey: a key that has gone ends the list.
ReadKeyStops ==
  /\ backend = "fs" /\ phase = "reading" /\ keys # <<>>
  /\ LET i == Head(keys)
         hit == i \in Matching IN
     /\ keys' = IF i \in DOMAIN docs THEN Tail(keys) ELSE <<>>
     /\ rows' = IF hit /\ query.sort # "none" THEN Append(rows, Row(i)) ELSE rows
     /\ out' = IF hit /\ query.sort = "none" THEN Append(out, Row(i)) ELSE out
     /\ phase' = IF Len(out') = query.limit /\ out' # out THEN "done" ELSE phase
  /\ UNCHANGED <<backend, query, docs, touched>>

ReadKey ==
  /\ backend = "fs" /\ phase = "reading" /\ keys # <<>>
  /\ keys' = Tail(keys)
  /\ LET i == Head(keys)
         hit == i \in Matching IN
     /\ rows' = IF hit /\ query.sort # "none" THEN Append(rows, Row(i)) ELSE rows
     /\ out' = IF hit /\ query.sort = "none" THEN Append(out, Row(i)) ELSE out
     /\ phase' = IF Len(out') = query.limit /\ out' # out THEN "done" ELSE phase
  /\ UNCHANGED <<backend, query, docs, touched>>

ReadAllEnds ==
  /\ backend = "fs" /\ phase = "reading" /\ keys = <<>>
  /\ Ended(IF query.sort = "none" THEN out ELSE Limited(SortRows(rows)))
  /\ UNCHANGED <<backend, query, docs, keys, rows, touched>>

(* MeilisearchDataStore.list: as many as are still wanted, at the offset of *)
(* what has been yielded.                                                   *)
Remaining == IF query.limit = 0 \/ query.limit - Len(out) > PageSize THEN PageSize
             ELSE query.limit - Len(out)

LastPage(page, yielded, total) == page = <<>> \/ yielded >= total

NextPage ==
  /\ backend = "meili" /\ phase # "done"
  /\ LET total == Cardinality(Matching)
         page == SubSeq(SortRows(InOrder(Matching)), Len(out) + 1,
                        IF Len(out) + Remaining < total THEN Len(out) + Remaining ELSE total) IN
     IF query.limit # 0 /\ Len(out) >= query.limit THEN Ended(out)
     ELSE /\ out' = out \o page
          /\ phase' = IF LastPage(page, Len(out'), total) THEN "done" ELSE "reading"
  /\ UNCHANGED <<backend, query, docs, keys, rows, touched>>

(* Another process puts or removes a document while keys are being read. *)
Touch ==
  /\ phase = "reading" /\ backend = "fs"
  /\ Cardinality(touched) < MaxTouched
  /\ \E i \in Ids :
       /\ touched' = touched \cup {i}
       /\ \/ \E d \in Documents : docs' = [j \in DOMAIN docs \cup {i} |-> IF j = i THEN d ELSE docs[j]]
          \/ docs' = [j \in DOMAIN docs \ {i} |-> docs[j]]
  /\ UNCHANGED <<backend, query, phase, keys, rows, out>>

Advance == ListMemory \/ ListKeys \/ ReadKey \/ ReadAllEnds \/ NextPage
ListNext == Advance \/ Touch

ListSpec == ListInit /\ [][ListNext]_listing

-----------------------------------------------------------------------------
(* buildWorklist: the take loop over the most starred documents of the     *)
(* corpus, for one shard.                                                  *)

\* Mutant of Taken: the loop breaks at a repository of another shard.
TakenUntilForeign(s, limit) ==
  {NameOf[out[n].id] : n \in {m \in DOMAIN out : \A k \in 1..m : ShardOf[NameOf[out[k].id]] = s}}

Taken(s, limit) ==
  LET Fresh(n) == /\ ShardOf[NameOf[out[n].id]] = s
                  /\ \A m \in 1..(n - 1) : NameOf[out[m].id] # NameOf[out[n].id]
      Mine == {n \in DOMAIN out : Fresh(n)} IN
  {NameOf[out[n].id] : n \in {m \in Mine : Cardinality({k \in Mine : k < m}) < limit}}

-----------------------------------------------------------------------------
\* Where a document belongs in the order asked for: a missing rank is last.
Place(doc) == CASE query.sort = "none" -> 0
                [] query.sort # "none" /\ doc.rank = 0 -> Cardinality(Ranks)
                [] query.sort = "asc" /\ doc.rank # 0 -> doc.rank
                [] query.sort = "desc" /\ doc.rank # 0 -> Cardinality(Ranks) - doc.rank

Yielded == {out[n].id : n \in DOMAIN out}

(* A list nobody disturbs gives what the reference semantics give: every   *)
(* match once, or the limit's worth of them, in the order asked for, and   *)
(* none that is left out belongs before one that is in.  The filesystem    *)
(* store, disturbed, still yields no document twice and none that was      *)
(* never there, and misses no match that nobody touched.                   *)
Undisturbed ==
  /\ Yielded \subseteq Matching
  /\ Len(out) = (IF query.limit = 0 \/ Cardinality(Matching) < query.limit
                 THEN Cardinality(Matching) ELSE query.limit)
  /\ \A n \in DOMAIN out : out[n].doc = docs[out[n].id]
  /\ \A m, n \in DOMAIN out : m < n => Place(out[m].doc) =< Place(out[n].doc)
  /\ \A i \in Matching \ Yielded : \A n \in DOMAIN out : Place(out[n].doc) =< Place(docs[i])

ListAgrees ==
  phase = "done" =>
    /\ Cardinality(Yielded) = Len(out)
    /\ touched = {} => Undisturbed
    /\ Yielded \ touched \subseteq Matching
    /\ query.limit = 0 => Matching \ touched \subseteq Yielded

(* The shards' worklists for a crawl limit are disjoint, within the limit, *)
(* and between them name every repository among that many most starred     *)
(* documents, even when two queries found one (the over-fetch, dedupe and  *)
(* shard filter of buildWorklist).                                         *)
WorklistsCover ==
  phase = "done" /\ touched = {} /\ query.where = NoWhere /\ query.sort = "desc" /\ query.limit # 0 =>
    \A limit \in Limits : limit * Shards = query.limit =>
      /\ \A s \in 0..(Shards - 1) : Cardinality(Taken(s, limit)) =< limit
      /\ \A n \in DOMAIN out : n =< limit =>
           \E s \in 0..(Shards - 1) : NameOf[out[n].id] \in Taken(s, limit)

(* What is read from a store, as it is and as a crawl takes it.            *)
ReadsAgree == ListAgrees /\ WorklistsCover
=============================================================================
