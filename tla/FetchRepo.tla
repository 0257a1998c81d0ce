------------------------------ MODULE FetchRepo ------------------------------
(***************************************************************************)
(* fetchRepo (crawler/sources/github/fetch.ts): one repository crawled by  *)
(* conditional requests into repos/**, announced by RepoFetched, recorded  *)
(* in _fetch.json, by crawls that may die at any await, while the          *)
(* repository changes.                                                     *)
(*                                                                         *)
(* Each change on GitHub is a revision.  What a part of the repository     *)
(* says is the revision that gave it that content, and the content is its  *)
(* ETag; the ETag of the repository document is the revision itself, since *)
(* pushed_at is in the document (fetch.ts:40-45).                          *)
(***************************************************************************)
EXTENDS Integers

CONSTANTS
  Crawlers,   \* crawls that may be under way: the batch, an operator's --repo
  MaxRev,     \* bound: revisions of the repository
  MaxMuddle   \* bound: a crawl begins during another only while muddle is below it

ASSUME BoundsAssumption == MaxRev \in Nat \ {0} /\ MaxMuddle \in Nat

VARIABLES
  github,   \* what GitHub serves; bare (ghost): its README has been gone
  disk,     \* repo.json, readme.md and tree.json
  meta,     \* _fetch.json, or NoMeta
  crawl,    \* fetchRepo under way, per crawler
  heard,    \* content_hash of the last RepoFetched that said changed
  muddle    \* how often crawls were confused and not mended since (ghost, see Confused)

vars == <<github, disk, meta, crawl, heard, muddle>>

Absent == 0    \* no such file; a 404
Same   == -1   \* a 304
NoEtag == 0

Revs  == 1..MaxRev
Contents == {"about", "readme", "tree"}
Parts == {"readme", "tree"}    \* the requests that follow the repository document
After == [repo |-> "readme", readme |-> "tree", tree |-> "write"]
Writing == [readme |-> "write readme", tree |-> "write tree"]

(* contentHash: a digest of description, README and tree paths, and of     *)
(* neither stars nor pushed_at.                                            *)
Hashes == [about : 0..MaxRev, readme : 0..MaxRev, tree : 0..MaxRev]
NoHash == [about |-> 0, readme |-> 0, tree |-> 0]
contentHash(doc, used) == [about |-> doc, readme |-> used.readme, tree |-> used.tree]

NoEtags == [repo |-> NoEtag, readme |-> NoEtag, tree |-> NoEtag]
NoMeta == [etags |-> NoEtags, hash |-> NoHash, old |-> TRUE]

Idle == [at |-> "idle",
         previous |-> NoHash, etags |-> NoEtags, trusting |-> FALSE,   \* read in _fetch.json
         rev |-> 0, about |-> Absent,                                  \* the document
         answer |-> [p \in Parts |-> Absent], used |-> [p \in Parts |-> Absent],
         still |-> TRUE, alone |-> TRUE]                               \* ghosts

Active(c) == crawl[c].at # "idle"

Init ==
  /\ github = [rev |-> 1, about |-> 1, readme |-> 1, tree |-> 1, bare |-> FALSE]
  /\ disk = [about |-> Absent, readme |-> Absent, tree |-> Absent]
  /\ meta = NoMeta
  /\ crawl = [c \in Crawlers |-> Idle]
  /\ heard = NoHash
  /\ muddle = 0

-----------------------------------------------------------------------------
(* The repository: a push, new settings, or a star.  Its README may go, a  *)
(* first time: that it is gone again is content that comes back.           *)
(* No crawl under way has seen this revision from its beginning.           *)
Moved == [c \in Crawlers |-> IF Active(c) THEN [crawl[c] EXCEPT !.still = FALSE] ELSE crawl[c]]

Change ==
  /\ github.rev < MaxRev
  /\ LET new == github.rev + 1
         next == [github EXCEPT !.rev = new]    \* a star, or a push to another branch
     IN \/ github' = next
        \/ ~github.bare /\ github' = [next EXCEPT !.readme = Absent, !.bare = TRUE]
        \/ \E part \in Contents : github' = [next EXCEPT ![part] = new]
  /\ crawl' = Moved
  /\ UNCHANGED <<disk, meta, heard, muddle>>

(* Two things confuse crawls: content that comes back, and with it its     *)
(* ETag and its hash, and two crawls at a time.  Ghosts remember both.     *)
Confused(crawls) ==
  [c \in Crawlers |-> IF Active(c) THEN [crawls[c] EXCEPT !.alone = FALSE] ELSE crawls[c]]

Revert ==
  /\ github.rev < MaxRev
  /\ \E part \in Contents : \E old \in 0..github.rev :
       /\ old # github[part]
       /\ old = Absent => part = "readme" /\ github.bare
       /\ github' = [github EXCEPT !.rev = @ + 1, ![part] = old]
  /\ crawl' = Confused(Moved)
  /\ muddle' = muddle + 1
  /\ UNCHANGED <<disk, meta, heard>>

(* _fetch.json becomes older than REFRESH_AFTER_DAYS.                      *)
MonthPasses ==
  /\ meta # NoMeta /\ ~meta.old
  /\ meta' = [meta EXCEPT !.old = TRUE]
  /\ UNCHANGED <<github, disk, crawl, heard, muddle>>

-----------------------------------------------------------------------------
(* Mutant of Usable: an old _fetch.json is trusted as well.                *)
UsableForEver(previous) == previous # NoMeta

Usable(previous) == ~previous.old

(* _fetch.json is read; an old one, or none, is not trusted for its ETags. *)
Begin(c) ==
  /\ ~Active(c)
  /\ LET others == \E d \in Crawlers \ {c} : Active(d)
     IN /\ crawl' = [Confused(crawl) EXCEPT ![c] =
             [Idle EXCEPT !.at = "repo", !.previous = meta.hash, !.trusting = ~meta.old,
                          !.etags = IF Usable(meta) THEN meta.etags ELSE NoEtags,
                          !.alone = ~others]]
        /\ others => muddle < MaxMuddle
        /\ muddle' = IF others THEN muddle + 1 ELSE muddle
  /\ UNCHANGED <<github, disk, meta, heard>>

DocEtag(repository) == repository.rev

(* GET /repos/{owner}/{repo}.                                              *)
AskRepo(c) ==
  /\ crawl[c].at = "repo"
  /\ crawl[c].etags.repo # DocEtag(github)
  /\ crawl' = [crawl EXCEPT ![c].at = After.repo,
                            ![c].rev = DocEtag(github), ![c].about = github.about]
  /\ UNCHANGED <<github, disk, meta, heard, muddle>>

(* A 304: RepoFetched with the previous hash and changed: false, no more   *)
(* requests, no new _fetch.json.                                           *)
NotModified(c) ==
  /\ crawl[c].at = "repo"
  /\ crawl[c].etags.repo = DocEtag(github)
  /\ crawl' = [crawl EXCEPT ![c] = Idle]
  /\ UNCHANGED <<github, disk, meta, heard, muddle>>

(* A 404, or decideSkip on the document: RepoSkipped.                      *)
Skip(c) ==
  /\ crawl[c].at = "repo"
  /\ crawl' = [crawl EXCEPT ![c] = Idle]
  /\ UNCHANGED <<github, disk, meta, heard, muddle>>

(* The conditional requests for README and tree, one after the other.      *)
Ask(c, part) ==
  /\ crawl[c].at = part
  /\ crawl' = [crawl EXCEPT
       ![c].at = After[part],
       ![c].answer[part] = IF github[part] = crawl[c].etags[part] /\ github[part] # Absent
                             THEN Same ELSE github[part]]
  /\ UNCHANGED <<github, disk, meta, heard, muddle>>

WriteRepo(c) ==
  /\ crawl[c].at = "write"
  /\ disk' = [disk EXCEPT !.about = crawl[c].about]
  /\ crawl' = [crawl EXCEPT ![c].at = Writing.readme]
  /\ UNCHANGED <<github, meta, heard, muddle>>

(* Mutant of Write: a 304 counts as no content.                            *)
WriteOrNothing(c, part) ==
  /\ crawl[c].at = Writing[part]
  /\ LET new == crawl[c].answer[part]
     IN /\ disk' = IF new \in {Same, Absent} THEN disk ELSE [disk EXCEPT ![part] = new]
        /\ crawl' = [crawl EXCEPT
             ![c].at = IF part = "readme" THEN Writing.tree ELSE "announce",
             ![c].used[part] = IF new = Same THEN Absent ELSE new]
  /\ UNCHANGED <<github, meta, heard, muddle>>

(* writeReadme, writeTree: new content is written; after a 304 the file is *)
(* read back; after a 404 an earlier file is left where it is.             *)
Write(c, part) ==
  /\ crawl[c].at = Writing[part]
  /\ LET new == crawl[c].answer[part]
     IN /\ disk' = IF new \in {Same, Absent} THEN disk ELSE [disk EXCEPT ![part] = new]
        /\ crawl' = [crawl EXCEPT
             ![c].at = IF part = "readme" THEN Writing.tree ELSE "announce",
             ![c].used[part] = IF new = Same THEN disk[part] ELSE new]
  /\ UNCHANGED <<github, meta, heard, muddle>>

Hash(c) == contentHash(crawl[c].about, crawl[c].used)

(* Mutant of Changed: a first crawl is not a change.                       *)
ChangedSince(c) == crawl[c].previous # NoHash /\ crawl[c].previous # Hash(c)

Changed(c) == crawl[c].previous = NoHash \/ crawl[c].previous # Hash(c)

(* RepoFetched, before _fetch.json.                                        *)
Announce(c) ==
  /\ crawl[c].at = "announce"
  /\ heard' = IF Changed(c) THEN Hash(c) ELSE heard
  /\ crawl' = [crawl EXCEPT ![c].at = "save"]
  /\ UNCHANGED <<github, disk, meta, muddle>>

(* A part that was not modified, or is gone, keeps the ETag it was asked   *)
(* with.  An unconditional crawl that was alone and announced a change     *)
(* ends all confusion.                                                     *)
Save(c) ==
  /\ crawl[c].at = "save"
  /\ LET tag(part) == IF crawl[c].answer[part] \in {Same, Absent}
                        THEN crawl[c].etags[part] ELSE crawl[c].answer[part]
         etags == [repo |-> crawl[c].rev, readme |-> tag("readme"), tree |-> tag("tree")]
     IN meta' = [etags |-> etags, hash |-> Hash(c), old |-> FALSE]
  /\ muddle' = IF crawl[c].alone /\ ~crawl[c].trusting /\ Changed(c) THEN 0 ELSE muddle
  /\ crawl' = [crawl EXCEPT ![c] = Idle]
  /\ UNCHANGED <<github, disk, heard>>

(* An await rejects, and the pool records RepoFailed, or the process dies. *)
GiveUp(c) ==
  /\ Active(c)
  /\ crawl' = [crawl EXCEPT ![c] = Idle]
  /\ UNCHANGED <<github, disk, meta, heard, muddle>>

FetchRepo(c) ==
  \/ Begin(c) \/ AskRepo(c) \/ NotModified(c) \/ Skip(c)
  \/ \E part \in Parts : Ask(c, part) \/ Write(c, part)
  \/ WriteRepo(c) \/ Announce(c) \/ Save(c) \/ GiveUp(c)

Next == Change \/ Revert \/ MonthPasses \/ \E c \in Crawlers : FetchRepo(c)

Spec == Init /\ [][Next]_vars

-----------------------------------------------------------------------------
Completes(c) == NotModified(c) \/ Save(c)

Clean(c) == crawl[c].alone /\ muddle = 0

Content(repository) ==
  [about |-> repository.about, readme |-> repository.readme, tree |-> repository.tree]

(* The files say what the hash was taken of, except that a README that has *)
(* gone from the repository stays in readme.md.                            *)
Agree(files, hash) ==
  /\ files.about = hash.about /\ files.tree = hash.tree
  /\ files.readme = hash.readme \/ hash.readme = Absent

(* A crawl that completes, after any number of crawls that died, leaves    *)
(* _fetch.json and the artifacts of one content (fetch.ts, WRITE ORDERING).*)
(* If the repository did not change meanwhile, it is what GitHub serves,   *)
(* whether by a 200 or by a 304: the document, whose ETag stands for all   *)
(* of the repository, is asked for first.                                  *)
ArtifactsAgree ==
  [][\A c \in Crawlers : Completes(c) /\ Clean(c) =>
       /\ Agree(disk', meta'.hash)
       /\ crawl[c].still => meta'.hash = Content(github)]_vars

(* When a crawl completes, the last change announced is the content it     *)
(* recorded, so the analyzer is sent to it: an event is repeated after a   *)
(* crash and never lost (fetch.ts:18-21).                                  *)
ChangesAreAnnounced ==
  [][\A c \in Crawlers : Completes(c) /\ Clean(c) => heard' = meta'.hash]_vars

(* Whatever came before, two crawls at a time and content that came back   *)
(* included, a crawl over a _fetch.json more than a month old mends the    *)
(* cache ("an entry self-heals within a month", fetch.ts:43-45).           *)
Refreshes(c) == Completes(c) /\ ~crawl[c].trusting /\ crawl[c].alone

RefreshHeals ==
  [][\A c \in Crawlers : Refreshes(c) =>
       /\ Agree(disk', meta'.hash)
       /\ crawl[c].still => meta'.hash = Content(github)]_vars
=============================================================================
