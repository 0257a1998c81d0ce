--------------------------------- MODULE Icon ---------------------------------
(***************************************************************************)
(* The icon of one repository (crawler/sources/github/icon.ts): updateIcon, *)
(* called at the end of a crawl (fetch.ts:190) and by `kecoctl repo icon`   *)
(* (icon-run.ts), which may run at the same time, be killed at any await and *)
(* be refused a write.                                                     *)
(*                                                                         *)
(* What a URL serves is a revision; an image is a URL and a revision, which  *)
(* stands for its bytes, for what is derived from them, and for its ETag.   *)
(***************************************************************************)
EXTENDS Integers, Sequences, FiniteSets, FiniteSetsExt

CONSTANTS
  Updaters, Operator,   \* who runs updateIcon; Operator is `kecoctl repo icon`
  Sizes,                \* ICON_SIZES
  TreeCandidates,       \* sequence of paths, best first
  Offers,               \* what a repository may have to choose from
  NoUrl,
  MaxRevision,          \* bound: revisions of a URL
  MaxMoves              \* bound: how often the repository, or an image, changes

ASSUME IconAssumption ==
  /\ Operator \in Updaters /\ IsFiniteSet(Updaters)
  /\ MaxRevision \in Nat \ {0} /\ MaxMoves \in Nat
  /\ \A o \in Offers : /\ NoUrl \notin o.paths
                       /\ \A n \in DOMAIN o.images : o.images[n].url # NoUrl

-----------------------------------------------------------------------------
(* resolveIconCandidate *)

NoCandidate == [source |-> "null", url |-> NoUrl]

First(seq, Fits(_)) == {seq[n] : n \in {k \in DOMAIN seq :
  Fits(seq[k]) /\ \A j \in 1..(k - 1) : ~Fits(seq[j])}}

(* Three or more images in one paragraph are a row of badges.              *)
BadgeRow(offer, i) ==
  Cardinality({n \in DOMAIN offer.images : offer.images[n].paragraph = i.paragraph}) >= 3

(* A committed logo, the first fit image of the README, the owner's avatar. *)
(* A fit image has an allowed host, is no badge and ends as an image does.  *)
Candidate(offer) ==
  LET inTree(path) == path \in offer.paths
      shown(i) == ~BadgeRow(offer, i) /\ i.fit
      logo == First(TreeCandidates, inTree)
      image == {i.url : i \in First(offer.images, shown)}
      own(urls) == [source |-> "repo-logo", url |-> CHOOSE u \in urls : TRUE]
  IN CASE logo # {} -> own(logo)
       [] logo = {} /\ image # {} -> own(image)
       [] OTHER -> IF offer.avatar = NoUrl THEN NoCandidate
                   ELSE [source |-> "owner-avatar", url |-> offer.avatar]

Urls == {Candidate(o).url : o \in Offers} \ {NoUrl}
Images == Urls \X (1..MaxRevision)
None == <<>>

-----------------------------------------------------------------------------
VARIABLES
  offer, revision, moves,   \* what the repository offers, what each URL serves
  cached,                   \* repo.json, tree.json and readme.md, of the last crawl
  src, png,                 \* icon.src, icon-{size}.png
  icon,                     \* icon.json
  update,                   \* updateIcon under way
  past, last, mixed        \* ghosts: see Seen

world == <<offer, revision, moves>>
ghosts == <<past, last, mixed>>
iconVars == <<world, cached, src, png, icon, update, ghosts>>

NoIcon == [source |-> "null", of |-> None, etag |-> FALSE, error |-> FALSE]
Resting == [at |-> "idle", previous |-> NoIcon, candidate |-> NoCandidate, image |-> None,
            tagged |-> FALSE, left |-> Sizes, alone |-> TRUE, still |-> TRUE]
Updating(u) == update[u].at # "idle"

IconInit ==
  /\ offer \in Offers /\ revision = [u \in Urls |-> 1] /\ moves = 0
  /\ cached = {}
  /\ src = None /\ png = [s \in Sizes |-> None] /\ icon = NoIcon
  /\ update = [u \in Updaters |-> Resting]
  /\ past = {} /\ last = None /\ mixed = FALSE

(* The route that serves icons looks for the bytes alone.                  *)
Served(size) == png[size]

-----------------------------------------------------------------------------
(* The repository commits or drops a logo, rewrites its README; a file is   *)
(* replaced, or put back.                                                  *)
Move ==
  /\ moves < MaxMoves /\ moves' = moves + 1
  /\ \/ offer' \in Offers \ {offer} /\ UNCHANGED revision
     \/ /\ \E u \in Urls : \E r \in (1..MaxRevision) \ {revision[u]} :
             revision' = [revision EXCEPT ![u] = r]
        /\ UNCHANGED offer
  /\ update' = [u \in Updaters |-> IF Updating(u) THEN [update[u] EXCEPT !.still = FALSE] ELSE update[u]]
  /\ UNCHANGED <<cached, src, png, icon, ghosts>>

(* updateIcon reads icon.json.  A crawl has just fetched what it chooses    *)
(* from; the command prefers what the cache has.  A second one at the same  *)
(* time confuses both.                                                     *)
BeginUpdate(u) ==
  /\ ~Updating(u)
  /\ LET inputs == IF u = Operator /\ cached # {} THEN CHOOSE o \in cached : TRUE ELSE offer
         candidate == Candidate(inputs)
         others == {v \in Updaters \ {u} : Updating(v)}
     IN /\ others # {} => ~mixed
        /\ mixed' = (mixed \/ others # {})
        /\ cached' = IF u = Operator THEN cached ELSE {inputs}
        /\ update' = [v \in Updaters |->
             IF v = u THEN [Resting EXCEPT !.at = IF candidate = NoCandidate THEN "fail" ELSE "ask",
                                           !.previous = icon, !.candidate = candidate,
                                           !.alone = (others = {}), !.still = (inputs = offer)]
             ELSE IF v \in others THEN [update[v] EXCEPT !.alone = FALSE] ELSE update[v]]
  /\ UNCHANGED <<world, src, png, icon, past, last>>

(* An ETag is sent only with the URL it came from.                         *)
Conditional(u) ==
  /\ update[u].previous.etag
  /\ update[u].previous.of[1] = update[u].candidate.url

(* Ghosts: the images asked for since all files were last of one.  When an  *)
(* earlier one comes back, icon.json may speak of it and the files of the   *)
(* one in between.                                                         *)
Seen(image) ==
  /\ past' = past \cup {image}
  /\ last' = image
  /\ mixed' = (mixed \/ (image \in past /\ image # last))

AskImage(u) ==
  /\ update[u].at = "ask"
  /\ LET url == update[u].candidate.url
         image == <<url, revision[url]>>
         same == Conditional(u) /\ image = update[u].previous.of
     IN /\ Seen(image)
        /\ \E tagged \in BOOLEAN :
             update' = [update EXCEPT ![u].at = IF same THEN "same" ELSE "source",
                                      ![u].image = image, ![u].tagged = tagged]
  /\ UNCHANGED <<world, cached, src, png, icon>>

(* No answer, a refusal, no image, too large, or it does not decode.       *)
AskImageFails(u) ==
  /\ update[u].at = "ask"
  /\ update' = [update EXCEPT ![u].at = "fail"]
  /\ UNCHANGED <<world, cached, src, png, icon, ghosts>>

Ends(u) == update' = [update EXCEPT ![u] = Resting]

IconNotModified(u) ==
  /\ update[u].at = "same"
  /\ icon' = [update[u].previous EXCEPT !.error = FALSE]
  /\ Ends(u)
  /\ UNCHANGED <<world, cached, src, png, ghosts>>

(* fail: an icon that was good keeps its description.                      *)
Fail(u) ==
  /\ update[u].at = "fail"
  /\ icon' = [(IF update[u].previous.source # "null" THEN update[u].previous ELSE NoIcon)
                EXCEPT !.error = TRUE]
  /\ Ends(u)
  /\ UNCHANGED <<world, cached, src, png, ghosts>>

PutSource(u) ==
  /\ update[u].at = "source"
  /\ src' = update[u].image
  /\ update' = [update EXCEPT ![u].at = "sizes"]
  /\ UNCHANGED <<world, cached, png, icon, ghosts>>

(* The sizes are written at once and land in any order.                    *)
PutSize(u) == \E s \in update[u].left :
  /\ update[u].at = "sizes"
  /\ png' = [png EXCEPT ![s] = update[u].image]
  /\ update' = [update EXCEPT ![u].left = @ \ {s}]
  /\ UNCHANGED <<world, cached, src, icon, ghosts>>

Described(u) ==
  [source |-> update[u].candidate.source, of |-> update[u].image,
   etag |-> update[u].tagged, error |-> FALSE]

(* All files are of one image again.                                       *)
Whole(u) ==
  IF update[u].alone THEN past' = {update[u].image} /\ last' = update[u].image /\ mixed' = FALSE
  ELSE UNCHANGED ghosts

\* Mutant of PutMeta: icon.json as soon as the source is in place.
PutMetaEarly(u) ==
  /\ update[u].at = "sizes"
  /\ icon' = Described(u)
  /\ Whole(u)
  /\ IF update[u].left = {} THEN Ends(u) ELSE UNCHANGED update
  /\ UNCHANGED <<world, cached, src, png>>

PutMeta(u) ==
  /\ update[u].at = "sizes" /\ update[u].left = {}
  /\ icon' = Described(u)
  /\ Whole(u)
  /\ Ends(u)
  /\ UNCHANGED <<world, cached, src, png>>

(* A kill, or a write that is refused: updateIcon throws.                  *)
UpdateDies(u) ==
  /\ Updating(u)
  /\ Ends(u)
  /\ UNCHANGED <<world, cached, src, png, icon, ghosts>>

UpdateIcon(u) ==
  \/ BeginUpdate(u) \/ AskImage(u) \/ AskImageFails(u) \/ IconNotModified(u) \/ Fail(u)
  \/ PutSource(u) \/ PutSize(u) \/ PutMeta(u) \/ UpdateDies(u)

IconNext == Move \/ \E u \in Updaters : UpdateIcon(u)

-----------------------------------------------------------------------------
Updated(u) == IconNotModified(u) \/ PutMeta(u)

(* An update that completes, after any number that were killed or refused,  *)
(* leaves icon.src and every size of the image icon.json describes, which is *)
(* what the repository offers if it did not change meanwhile (icon.ts,      *)
(* "Verbatim first"); one that fails leaves the icon there was ("a          *)
(* previously good icon survives a later failure").                        *)
IconsAgree ==
  [][\A u \in Updaters : update[u].alone /\ ~mixed =>
       /\ Updated(u) =>
            /\ src' = icon'.of /\ \A s \in Sizes : Served(s)' = icon'.of
            /\ update[u].still =>
                 icon'.of = <<Candidate(offer).url, revision[Candidate(offer).url]>>
       /\ Fail(u) => icon'.of = icon.of]_iconVars
=============================================================================
