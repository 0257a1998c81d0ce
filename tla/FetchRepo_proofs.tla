--------------------------- MODULE FetchRepo_proofs ---------------------------
(***************************************************************************)
(* What TLAPS proves of FetchRepo: whatever crawls die and whatever the    *)
(* repository does meanwhile, a crawl that completes leaves artifacts, an  *)
(* announcement and _fetch.json of one content, unless crawls have been    *)
(* confused; and one that uses no ETag mends what confusion left.          *)
(***************************************************************************)
EXTENDS FetchRepo, Icon, TLAPS

Upto == 0..MaxRev
Tags == [repo : Upto, readme : Upto, tree : Upto]

Stages == {"idle", "repo", "readme", "tree", "write", "write readme", "write tree",
           "announce", "save"}

(* The stages after the answer for a part, and after it was written.       *)
Asked(c, part) ==
  crawl[c].at \in IF part = "about" THEN Stages \ {"idle", "repo"}
                  ELSE IF part = "readme" THEN Stages \ {"idle", "repo", "readme"}
                  ELSE Stages \ {"idle", "repo", "readme", "tree"}

Written(c, part) ==
  crawl[c].at \in IF part = "about" THEN {"write readme", "write tree", "announce", "save"}
                  ELSE IF part = "readme" THEN {"write tree", "announce", "save"}
                  ELSE {"announce", "save"}

CrawlType ==
  [at : Stages, previous : Hashes, etags : Tags, trusting : BOOLEAN,
   rev : Upto, about : Upto, answer : [Parts -> Upto \cup {Same}], used : [Parts -> Upto],
   still : BOOLEAN, alone : BOOLEAN]

TypeOK ==
  /\ github \in [rev : Revs, about : Revs, readme : Upto, tree : Revs, bare : BOOLEAN]
  /\ disk \in [about : Upto, readme : Upto, tree : Upto]
  /\ meta \in [etags : Tags, hash : Hashes, old : BOOLEAN]
  /\ crawl \in [Crawlers -> CrawlType]
  /\ heard \in Hashes /\ muddle \in Nat

(* Nothing is known of a revision still to come.                           *)
PastInv ==
  /\ \A part \in Contents : github[part] <= github.rev
  /\ github.readme = Absent => github.bare
  /\ \A part \in Contents : disk[part] <= github.rev /\ meta.hash[part] <= github.rev
  /\ meta.etags.repo <= github.rev
  /\ \A part \in Parts : meta.etags[part] <= github.rev
  /\ \A c \in Crawlers :
       /\ crawl[c].rev <= github.rev /\ crawl[c].about <= github.rev
       /\ \A part \in Parts :
            /\ crawl[c].etags[part] <= github.rev /\ crawl[c].answer[part] <= github.rev
            /\ crawl[c].used[part] <= github.rev

(* A crawl that is alone has no other beside it, and without confusion     *)
(* every crawl is alone.                                                   *)
AloneInv ==
  \A c \in Crawlers : Active(c) =>
    /\ muddle = 0 => crawl[c].alone
    /\ crawl[c].alone => \A d \in Crawlers \ {c} : ~Active(d)

(* Crawls that nothing has confused, or that use no ETag.                  *)
Sure(c) == /\ Active(c) /\ crawl[c].alone
           /\ crawl[c].trusting => muddle = 0

(* What a crawl has learnt of a part.                                      *)
Learnt(c, part) ==
  IF part = "about" THEN crawl[c].about
  ELSE IF crawl[c].answer[part] = Same THEN crawl[c].etags[part]
  ELSE crawl[c].answer[part]

(* It works with the _fetch.json there is, or without.                     *)
StartInv(c) ==
  /\ crawl[c].previous = meta.hash
  /\ crawl[c].etags = (IF crawl[c].trusting THEN meta.etags ELSE NoEtags)
  /\ crawl[c].still /\ Asked(c, "about") => crawl[c].rev = github.rev

(* Its answers are of its revision, as long as that is the latest; and of  *)
(* nothing older than what is recorded.                                    *)
AnswerInv(c) ==
  /\ Asked(c, "about") => meta.etags.repo <= crawl[c].rev
  /\ \A part \in Parts : Asked(c, part) =>
       /\ crawl[c].answer[part] = Same =>
            crawl[c].etags[part] # NoEtag /\ disk[part] = crawl[c].etags[part]
       /\ crawl[c].answer[part] = Absent => part = "readme" /\ github.bare
  /\ \A part \in Contents : Asked(c, part) =>
       /\ crawl[c].rev = github.rev => Learnt(c, part) = github[part]
       /\ muddle = 0 /\ meta.hash # NoHash /\ github[part] = meta.hash[part] =>
            Learnt(c, part) = meta.hash[part]
  /\ \A part \in Parts :
       Asked(c, part) /\ muddle = 0 /\ meta.etags[part] # NoEtag /\ github[part] = meta.etags[part] =>
         Learnt(c, part) = meta.etags[part]

(* What it has written is what it has learnt, and what it hashes.          *)
WrittenInv(c) ==
  /\ Written(c, "about") => disk.about = crawl[c].about
  /\ \A part \in Parts : Written(c, part) =>
       /\ crawl[c].used[part] = Learnt(c, part)
       /\ disk[part] = Learnt(c, part) \/ Learnt(c, part) = Absent
  /\ crawl[c].at = "save" /\ (muddle = 0 \/ Changed(c)) => heard = Hash(c)

CrawlInv == \A c \in Crawlers : Sure(c) => StartInv(c) /\ AnswerInv(c) /\ WrittenInv(c)

(* Without confusion, _fetch.json is of the latest revision or of a past   *)
(* one; an ETag in it is of the file on disk or of content that is gone;   *)
(* and a change announced and not recorded is not taken back.              *)
MetaInv ==
  muddle = 0 =>
    /\ meta.etags.repo = github.rev => meta.hash = Content(github) /\ Agree(disk, meta.hash)
    /\ \A part \in Parts :
         meta.etags[part] # NoEtag /\ github[part] = meta.etags[part] =>
           disk[part] = meta.etags[part]
    /\ meta.hash # NoHash /\ meta.hash.readme = Absent => github.bare
    /\ meta.hash # NoHash =>
         \/ heard = meta.hash
         \/ \E part \in Contents :
              /\ github[part] # meta.hash[part]
              /\ \A c \in Crawlers : Asked(c, part) => Learnt(c, part) # meta.hash[part]

FetchInv == TypeOK /\ PastInv /\ AloneInv /\ CrawlInv /\ MetaInv


-----------------------------------------------------------------------------
LEMMA ContentsAre == Contents = {"about", "readme", "tree"} /\ Parts = {"readme", "tree"}
BY DEF Contents, Parts

LEMMA InitFetch == Init => FetchInv
<1> SUFFICES ASSUME Init PROVE FetchInv
  OBVIOUS
<1> USE DEF Init
<1>1. 0 \in Upto /\ 1 \in Upto /\ 1 \in Revs /\ 0 \in Upto \cup {Same}
  BY BoundsAssumption DEF Upto, Revs
<1>2. TypeOK
  <2>1. Idle \in CrawlType
    BY <1>1 DEF Idle, CrawlType, Stages, NoHash, Hashes, NoEtags, NoEtag, Tags, Absent, Upto
  <2>2. NoMeta \in [etags : Tags, hash : Hashes, old : BOOLEAN]
    BY <1>1 DEF NoMeta, NoHash, Hashes, NoEtags, NoEtag, Tags, Upto
  <2> QED BY <1>1, <2>1, <2>2 DEF TypeOK, NoHash, Hashes, Absent, Upto
<1>3. PastInv
  BY DEF PastInv, NoMeta, NoHash, NoEtags, NoEtag, Absent, Idle, Contents, Parts
<1>4. \A c \in Crawlers : ~Active(c)
  BY DEF Active, Idle
<1>5. MetaInv
  <2>1. meta = NoMeta /\ github.rev = 1
    OBVIOUS
  <2>2. meta.etags.repo = 0 /\ meta.etags.readme = 0 /\ meta.etags.tree = 0
    BY <2>1 DEF NoMeta, NoEtags, NoEtag
  <2>3. meta.hash = NoHash
    BY <2>1 DEF NoMeta
  <2> QED BY <2>1, <2>2, <2>3 DEF MetaInv, NoEtag, Parts
<1> QED BY <1>2, <1>3, <1>4, <1>5 DEF FetchInv, AloneInv, CrawlInv, Sure

LEMMA IdleType == Idle \in CrawlType
<1>1. 0 \in Upto /\ 0 \in Upto \cup {Same}
  BY BoundsAssumption DEF Upto
<1> QED
  BY <1>1 DEF Idle, CrawlType, Stages, NoHash, Hashes, NoEtags, NoEtag, Tags, Absent, Upto

LEMMA TypeStep ==
  ASSUME TypeOK, [Next]_vars PROVE TypeOK'
<1> USE DEF Contents, Parts
<1>0. Revs \subseteq Upto /\ 0 \in Upto /\ Upto \subseteq Int /\ Same \notin Upto /\ Absent \in Upto
  BY BoundsAssumption DEF Revs, Upto, Same, Absent
<1>1. CASE Change \/ Revert
  <2>1. github' \in [rev : Revs, about : Revs, readme : Upto, tree : Revs, bare : BOOLEAN]
    <3>0. github.rev < MaxRev /\ github.rev \in 1..MaxRev
      BY <1>1 DEF Change, Revert, TypeOK, Revs
    <3>1. github.rev + 1 \in Revs /\ \A old \in 0..github.rev : old \in Upto /\ (old # Absent => old \in Revs)
      BY <3>0, BoundsAssumption DEF Revs, Upto, Absent
    <3>2. CASE Change
      BY <3>1, <3>2, <1>0 DEF Change, TypeOK
    <3>3. CASE Revert
      BY <3>1, <3>3, <1>0 DEF Revert, TypeOK
    <3> QED BY <1>1, <3>2, <3>3
  <2>2. Moved \in [Crawlers -> CrawlType]
    BY DEF Moved, TypeOK, CrawlType
  <2>3. Confused(Moved) \in [Crawlers -> CrawlType]
    BY <2>2 DEF Confused, CrawlType
  <2>4. /\ UNCHANGED <<disk, meta, heard>> /\ muddle' \in {muddle, muddle + 1}
        /\ crawl' \in {Moved, Confused(Moved)}
    BY <1>1 DEF Change, Revert
  <2> QED BY <2>1, <2>2, <2>3, <2>4 DEF TypeOK
<1>2. CASE MonthPasses
  BY <1>2 DEF MonthPasses, TypeOK
<1>3. ASSUME NEW c \in Crawlers, FetchRepo(c) PROVE TypeOK'
  <2>1. crawl[c] \in CrawlType
    BY DEF TypeOK
  <2>2. CASE Begin(c)
    <3>1. NoEtags \in Tags
      BY <1>0 DEF NoEtags, NoEtag, Tags, Upto
    <3>2. [Idle EXCEPT !.at = "repo", !.previous = meta.hash, !.trusting = ~meta.old,
                          !.etags = IF Usable(meta) THEN meta.etags ELSE NoEtags,
                          !.alone = ~\E d \in Crawlers \ {c} : Active(d)] \in CrawlType
      BY <3>1, IdleType DEF CrawlType, TypeOK, Stages
    <3>3. Confused(crawl) \in [Crawlers -> CrawlType]
      BY DEF Confused, TypeOK, CrawlType
    <3> QED BY <2>2, <3>2, <3>3 DEF Begin, TypeOK
  <2>3. CASE AskRepo(c)
    <3>1. [crawl[c] EXCEPT !.at = After.repo, !.rev = DocEtag(github), !.about = github.about] \in CrawlType
      BY <2>1, <1>0 DEF CrawlType, After, Stages, DocEtag, TypeOK
    <3> QED BY <2>3, <3>1 DEF AskRepo, TypeOK
  <2>4. CASE NotModified(c) \/ Skip(c) \/ GiveUp(c)
    BY <2>4, IdleType DEF NotModified, Skip, GiveUp, TypeOK
  <2>5. ASSUME NEW part \in Parts, Ask(c, part) PROVE TypeOK'
    <3>0. github.readme \in Upto /\ github.tree \in Upto
      BY <1>0 DEF TypeOK
    <3>1. github[part] \in Upto /\ After[part] \in Stages
      <4>1. CASE part = "readme"
        BY <3>0, <4>1 DEF After, Stages
      <4>2. CASE part = "tree"
        BY <3>0, <4>2 DEF After, Stages
      <4> QED BY <4>1, <4>2
    <3>2. [crawl[c] EXCEPT !.at = After[part],
             !.answer[part] = IF github[part] = crawl[c].etags[part] /\ github[part] # Absent
                             THEN Same ELSE github[part]] \in CrawlType
      BY <2>1, <3>1 DEF CrawlType
    <3> QED BY <2>5, <3>2 DEF Ask, TypeOK
  <2>6. ASSUME NEW part \in Parts, Write(c, part) PROVE TypeOK'
    <3>1. crawl[c].answer[part] \in Upto \cup {Same} /\ disk[part] \in Upto
      BY <2>1 DEF TypeOK, CrawlType
    <3>2. (IF part = "readme" THEN Writing.tree ELSE "announce") \in Stages
      BY DEF Stages, Writing
    <3>3. [crawl[c] EXCEPT !.at = IF part = "readme" THEN Writing.tree ELSE "announce",
             !.used[part] = IF crawl[c].answer[part] = Same THEN disk[part] ELSE crawl[c].answer[part]]
            \in CrawlType
      BY <2>1, <3>1, <3>2 DEF CrawlType
    <3>4. disk' \in [about : Upto, readme : Upto, tree : Upto]
      BY <2>6, <3>1 DEF Write, TypeOK
    <3> QED BY <2>6, <3>3, <3>4 DEF Write, TypeOK
  <2>7. CASE WriteRepo(c)
    <3>1. [crawl[c] EXCEPT !.at = Writing.readme] \in CrawlType
      BY <2>1 DEF CrawlType, Writing, Stages
    <3> QED BY <2>1, <2>7, <3>1 DEF WriteRepo, TypeOK, CrawlType
  <2>8. Hash(c) \in Hashes
    BY <2>1 DEF CrawlType, Hash, contentHash, Hashes, Upto
  <2>9. CASE Announce(c)
    <3>1. [crawl[c] EXCEPT !.at = "save"] \in CrawlType
      BY <2>1 DEF CrawlType, Stages
    <3> QED BY <2>8, <2>9, <3>1 DEF Announce, TypeOK
  <2>10. CASE Save(c)
    <3> DEFINE tag(part) == IF crawl[c].answer[part] \in {Same, Absent}
                              THEN crawl[c].etags[part] ELSE crawl[c].answer[part]
    <3>1. tag("readme") \in Upto /\ tag("tree") \in Upto /\ crawl[c].rev \in Upto
      BY <2>1 DEF CrawlType, Tags
    <3>2. meta' = [etags |-> [repo |-> crawl[c].rev, readme |-> tag("readme"), tree |-> tag("tree")],
                   hash |-> Hash(c), old |-> FALSE]
      BY <2>10 DEF Save
    <3> HIDE DEF tag
    <3>3. meta' \in [etags : Tags, hash : Hashes, old : BOOLEAN]
      BY <3>1, <3>2, <2>8 DEF Tags
    <3> QED BY <2>10, <3>3, IdleType DEF Save, TypeOK
  <2> QED BY <1>3, <2>2, <2>3, <2>4, <2>5, <2>6, <2>7, <2>9, <2>10 DEF FetchRepo
<1>4. CASE UNCHANGED vars
  BY <1>4 DEF vars, TypeOK
<1> QED BY <1>1, <1>2, <1>3, <1>4 DEF Next

-----------------------------------------------------------------------------
(* The repository moves to a new revision, which gives a part new content, *)
(* or takes its README away for the first time.                            *)
LEMMA RepositoryMoves ==
  ASSUME TypeOK, PastInv, Change \/ Revert
  PROVE  /\ github.rev \in Nat /\ github'.rev = github.rev + 1
         /\ \A part \in Contents : github'[part] <= github'.rev
         /\ github'.readme = Absent => github'.bare
         /\ github.bare => github'.bare
         /\ Change => \A part \in Contents :
              \/ github'[part] = github[part]
              \/ github'[part] = github'.rev
              \/ part = "readme" /\ github'[part] = Absent /\ ~github.bare
<1> USE DEF Contents
<1>1. github \in [rev : Revs, about : Revs, readme : Upto, tree : Revs, bare : BOOLEAN]
  BY DEF TypeOK
<1>2. github.rev \in Nat /\ \A part \in Contents : github[part] \in Int /\ github[part] <= github.rev
  <2>1. github.about \in Int /\ github.readme \in Int /\ github.tree \in Int /\ github.rev \in Nat
    BY <1>1, BoundsAssumption DEF Revs, Upto
  <2> QED BY <2>1 DEF PastInv
<1>3. CASE Change
  <2>1. CASE github' = [github EXCEPT !.rev = github.rev + 1]
    BY <1>1, <1>2, <2>1 DEF PastInv
  <2>2. CASE ~github.bare /\ github' = [[github EXCEPT !.rev = github.rev + 1]
                                          EXCEPT !.readme = Absent, !.bare = TRUE]
    BY <1>1, <1>2, <2>2 DEF PastInv, Absent
  <2>3. CASE \E part \in Contents : github' = [[github EXCEPT !.rev = github.rev + 1]
                                                EXCEPT ![part] = github.rev + 1]
    BY <1>1, <1>2, <2>3 DEF PastInv, Absent
  <2> QED BY <1>3, <2>1, <2>2, <2>3 DEF Change
<1>4. CASE Revert
  <2>1. PICK part \in Contents, old \in 0..github.rev :
          /\ old = Absent => part = "readme" /\ github.bare
          /\ github' = [github EXCEPT !.rev = @ + 1, ![part] = old]
    BY <1>4 DEF Revert
  <2>2. github'.rev = github.rev + 1 /\ github'.bare = github.bare
    BY <1>1, <2>1
  <2>3. github'[part] = old /\ \A other \in Contents \ {part} : github'[other] = github[other]
    BY <1>1, <2>1
  <2>4. \A other \in Contents : github'[other] <= github'.rev
    BY <1>2, <2>2, <2>3
  <2>5. github'.readme = Absent => github'.bare
    BY <2>1, <2>2, <2>3 DEF PastInv
  <2>6. ~Change
    <3>1. muddle \in Nat /\ muddle' = muddle + 1
      BY <1>4 DEF Revert, TypeOK
    <3> QED BY <3>1 DEF Change
  <2> QED BY <1>2, <2>2, <2>4, <2>5, <2>6
<1> QED BY <1>3, <1>4

(* What a crawl learns and writes is of the present, or of the past.       *)
LEMMA PastStep ==
  ASSUME TypeOK, PastInv, [Next]_vars PROVE PastInv'
<1> USE DEF Parts
<1>0. github.rev \in Nat /\ \A part \in Contents : github[part] <= github.rev
  BY DEF TypeOK, PastInv, Revs
<1>1. CASE Change \/ Revert
  <2>1. /\ github.rev \in Nat /\ github'.rev = github.rev + 1
        /\ \A part \in Contents : github'[part] <= github'.rev
        /\ github'.readme = Absent => github'.bare
    BY <1>1, RepositoryMoves
  <2>2. UNCHANGED <<disk, meta>> /\ crawl' \in {Moved, Confused(Moved)}
    BY <1>1 DEF Change, Revert
  <2>3. \A c \in Crawlers :
          /\ crawl'[c].rev = crawl[c].rev /\ crawl'[c].about = crawl[c].about
          /\ crawl'[c].etags = crawl[c].etags /\ crawl'[c].answer = crawl[c].answer
          /\ crawl'[c].used = crawl[c].used
    <3> DEFINE Same5(a, b) == /\ a.rev = b.rev /\ a.about = b.about /\ a.etags = b.etags
                              /\ a.answer = b.answer /\ a.used = b.used
    <3>1. \A c \in Crawlers : Moved[c] \in CrawlType /\ Same5(Moved[c], crawl[c])
      BY DEF Moved, TypeOK, CrawlType
    <3>2. \A c \in Crawlers : Same5(Confused(Moved)[c], Moved[c])
      BY <3>1 DEF Confused, CrawlType
    <3> QED BY <2>2, <3>1, <3>2
  <2>4. \A part \in Contents : disk[part] \in Int /\ meta.hash[part] \in Int
    <3>1. disk.about \in Upto /\ disk.readme \in Upto /\ disk.tree \in Upto
      BY DEF TypeOK
    <3>2. meta.hash.about \in Upto /\ meta.hash.readme \in Upto /\ meta.hash.tree \in Upto
      BY DEF TypeOK, Hashes, Upto
    <3> QED BY <3>1, <3>2 DEF Contents, Upto
  <2>5. meta.etags.repo \in Int /\ \A part \in Parts : meta.etags[part] \in Int
    BY DEF TypeOK, Tags, Upto
  <2>6. \A c \in Crawlers :
          /\ crawl[c].rev \in Int /\ crawl[c].about \in Int
          /\ \A part \in Parts : /\ crawl[c].etags[part] \in Int
                                 /\ crawl[c].answer[part] \in Int /\ crawl[c].used[part] \in Int
    BY DEF TypeOK, CrawlType, Tags, Upto, Same
  <2> HIDE DEF Parts
  <2>7. \A n \in Int : n <= github.rev => n <= github'.rev
    BY <2>1
  <2> QED BY <2>1, <2>2, <2>3, <2>4, <2>5, <2>6, <2>7 DEF PastInv
<1>2. CASE MonthPasses
  <2>1. UNCHANGED <<github, disk, crawl>> /\ meta'.hash = meta.hash /\ meta'.etags = meta.etags
    BY <1>2 DEF MonthPasses, TypeOK
  <2> QED BY <2>1 DEF PastInv
<1>3. ASSUME NEW c \in Crawlers, FetchRepo(c) PROVE PastInv'
  <2>1. crawl[c] \in CrawlType
    BY DEF TypeOK
  <2>2. CASE Begin(c)
    <3>1. UNCHANGED <<github, disk, meta>>
      BY <2>2 DEF Begin
    <3>2. \A d \in Crawlers \ {c} :
            /\ crawl'[d].rev = crawl[d].rev /\ crawl'[d].about = crawl[d].about
            /\ crawl'[d].etags = crawl[d].etags /\ crawl'[d].answer = crawl[d].answer
            /\ crawl'[d].used = crawl[d].used
      BY <2>2 DEF Begin, Confused, TypeOK, CrawlType
    <3>3. /\ crawl'[c].rev = 0 /\ crawl'[c].about = 0 /\ crawl'[c].etags \in {NoEtags, meta.etags}
          /\ crawl'[c].answer = [p \in Parts |-> 0] /\ crawl'[c].used = [p \in Parts |-> 0]
      BY <2>2 DEF Begin, Confused, TypeOK, CrawlType, Idle, Absent
    <3>4. \A part \in Parts : crawl'[c].etags[part] <= github.rev
      BY <1>0, <3>3 DEF PastInv, NoEtags, NoEtag
    <3> QED BY <1>0, <3>1, <3>2, <3>3, <3>4 DEF PastInv
  <2>3. CASE AskRepo(c)
    <3>1. UNCHANGED <<github, disk, meta>>
      BY <2>3 DEF AskRepo
    <3>2. crawl' = [crawl EXCEPT ![c] = [crawl[c] EXCEPT !.at = After.repo, !.rev = github.rev,
                                                          !.about = github.about]]
      BY <2>3 DEF AskRepo, DocEtag, TypeOK
    <3>3. crawl'[c].rev = github.rev /\ crawl'[c].about = github.about
      BY <2>1, <3>2 DEF TypeOK, CrawlType
    <3> QED BY <1>0, <2>1, <3>1, <3>2, <3>3 DEF PastInv, TypeOK, CrawlType, Contents
  <2>4. CASE NotModified(c) \/ Skip(c) \/ GiveUp(c)
    <3>1. UNCHANGED <<github, disk, meta>> /\ crawl' = [crawl EXCEPT ![c] = Idle]
      BY <2>4 DEF NotModified, Skip, GiveUp
    <3> QED BY <1>0, <3>1 DEF PastInv, TypeOK, Idle, NoEtags, NoEtag, Absent
  <2>5. ASSUME NEW part \in Parts, Ask(c, part) PROVE PastInv'
    <3>1. UNCHANGED <<github, disk, meta>>
      BY <2>5 DEF Ask
    <3> DEFINE new == IF github[part] = crawl[c].etags[part] /\ github[part] # Absent
                        THEN Same ELSE github[part]
    <3>2. crawl' = [crawl EXCEPT ![c] = [crawl[c] EXCEPT !.at = After[part], !.answer[part] = new]]
      <4>1. DOMAIN crawl = Crawlers
        BY DEF TypeOK
      <4> QED BY <2>5, <4>1, Zenon DEF Ask
    <3>3. new <= github.rev
      <4>1. part \in Contents /\ Same <= github.rev
        BY <1>0 DEF Same, Contents
      <4> QED BY <1>0, <4>1
    <3> HIDE DEF new
    <3>4. /\ crawl'[c].rev = crawl[c].rev /\ crawl'[c].about = crawl[c].about
          /\ crawl'[c].etags = crawl[c].etags /\ crawl'[c].used = crawl[c].used
          /\ \A other \in Parts : crawl'[c].answer[other] \in {new, crawl[c].answer[other]}
      BY <2>1, <3>2 DEF TypeOK, CrawlType
    <3>5. \A d \in Crawlers \ {c} : crawl'[d] = crawl[d]
      BY <3>2 DEF TypeOK
    <3> QED BY <3>1, <3>3, <3>4, <3>5 DEF PastInv
  <2>6. ASSUME NEW part \in Parts, Write(c, part) PROVE PastInv'
    <3>1. UNCHANGED <<github, meta>>
      BY <2>6 DEF Write
    <3>2. /\ crawl[c].answer[part] <= github.rev /\ disk[part] <= github.rev
          /\ \A other \in Contents : disk[other] <= github.rev
      BY DEF PastInv, Contents
    <3> DEFINE used == IF crawl[c].answer[part] = Same THEN disk[part] ELSE crawl[c].answer[part]
               at == IF part = "readme" THEN Writing.tree ELSE "announce"
    <3>3. crawl' = [crawl EXCEPT ![c] = [crawl[c] EXCEPT !.at = at, !.used[part] = used]]
      BY <2>6 DEF Write, TypeOK
    <3>5. used <= github.rev
      BY <3>2
    <3>4. \A other \in Contents : disk'[other] <= github.rev
      <4>1. disk' \in {disk, [disk EXCEPT ![part] = crawl[c].answer[part]]}
        BY <2>6 DEF Write
      <4>2. \A other \in Contents : disk'[other] \in {disk[other], crawl[c].answer[part]}
        BY <4>1 DEF TypeOK, Contents
      <4> QED BY <3>2, <4>2
    <3> HIDE DEF used, at
    <3>6. /\ crawl'[c].rev = crawl[c].rev /\ crawl'[c].about = crawl[c].about
          /\ crawl'[c].etags = crawl[c].etags /\ crawl'[c].answer = crawl[c].answer
          /\ \A other \in Parts : crawl'[c].used[other] \in {used, crawl[c].used[other]}
      BY <2>1, <3>3 DEF TypeOK, CrawlType
    <3>7. \A d \in Crawlers \ {c} : crawl'[d] = crawl[d]
      BY <3>3 DEF TypeOK
    <3> QED BY <3>1, <3>4, <3>5, <3>6, <3>7 DEF PastInv
  <2>7. CASE WriteRepo(c)
    <3>1. UNCHANGED <<github, meta>>
          /\ crawl' = [crawl EXCEPT ![c] = [crawl[c] EXCEPT !.at = Writing.readme]]
      BY <2>7 DEF WriteRepo, TypeOK
    <3>2. \A other \in Contents : disk'[other] <= github.rev
      BY <2>7 DEF WriteRepo, TypeOK, Contents, PastInv
    <3> QED BY <2>1, <3>1, <3>2 DEF PastInv, TypeOK, CrawlType
  <2>8. CASE Announce(c)
    <3>1. UNCHANGED <<github, disk, meta>>
          /\ crawl' = [crawl EXCEPT ![c] = [crawl[c] EXCEPT !.at = "save"]]
      BY <2>8 DEF Announce, TypeOK
    <3> QED BY <2>1, <3>1 DEF PastInv, TypeOK, CrawlType
  <2>9. CASE Save(c)
    <3> DEFINE tag(part) == IF crawl[c].answer[part] \in {Same, Absent}
                              THEN crawl[c].etags[part] ELSE crawl[c].answer[part]
    <3>1. UNCHANGED <<github, disk>> /\ crawl' = [crawl EXCEPT ![c] = Idle]
      BY <2>9 DEF Save
    <3>2. meta' = [etags |-> [repo |-> crawl[c].rev, readme |-> tag("readme"), tree |-> tag("tree")],
                   hash |-> Hash(c), old |-> FALSE]
      BY <2>9 DEF Save
    <3>3. crawl[c].rev <= github.rev /\ tag("readme") <= github.rev /\ tag("tree") <= github.rev
      BY DEF PastInv
    <3>4. Hash(c).about <= github.rev /\ Hash(c).readme <= github.rev /\ Hash(c).tree <= github.rev
      BY DEF PastInv, Hash, contentHash
    <3> HIDE DEF tag
    <3>5. /\ meta'.etags.repo <= github.rev
          /\ meta'.etags["readme"] <= github.rev /\ meta'.etags["tree"] <= github.rev
          /\ meta'.hash = Hash(c)
      BY <3>2, <3>3
    <3>6. \A part \in Contents : meta'.hash[part] <= github.rev
      BY <3>4, <3>5 DEF Contents
    <3> QED BY <1>0, <3>1, <3>5, <3>6 DEF PastInv, TypeOK, Idle, NoEtags, NoEtag, Absent
  <2> QED BY <1>3, <2>2, <2>3, <2>4, <2>5, <2>6, <2>7, <2>8, <2>9 DEF FetchRepo
<1>4. CASE UNCHANGED vars
  BY <1>4 DEF vars, PastInv
<1> QED BY <1>1, <1>2, <1>3, <1>4 DEF Next

-----------------------------------------------------------------------------
(* What each step of a crawl does to it; the others stay as they are.      *)
Others(c) == \A d \in Crawlers \ {c} : crawl'[d] = crawl[d]

Keeps(c) ==
  /\ crawl'[c].previous = crawl[c].previous /\ crawl'[c].etags = crawl[c].etags
  /\ crawl'[c].trusting = crawl[c].trusting /\ crawl'[c].still = crawl[c].still
  /\ crawl'[c].alone = crawl[c].alone

KeepsDocument(c) == crawl'[c].rev = crawl[c].rev /\ crawl'[c].about = crawl[c].about

LEMMA AskRepoDoes ==
  ASSUME TypeOK, NEW c \in Crawlers, AskRepo(c)
  PROVE  /\ UNCHANGED <<github, disk, meta, heard, muddle>> /\ Others(c) /\ Keeps(c)
         /\ crawl[c].at = "repo" /\ crawl'[c].at = "readme"
         /\ crawl'[c].rev = github.rev /\ crawl'[c].about = github.about
         /\ crawl'[c].answer = crawl[c].answer /\ crawl'[c].used = crawl[c].used
<1>1. crawl[c] \in CrawlType /\ DOMAIN crawl = Crawlers
  BY DEF TypeOK
<1>2. crawl' = [crawl EXCEPT ![c] = [crawl[c] EXCEPT !.at = "readme", !.rev = github.rev,
                                                      !.about = github.about]]
  BY DEF AskRepo, DocEtag, After
<1>3. UNCHANGED <<github, disk, meta, heard, muddle>> /\ crawl[c].at = "repo"
  BY DEF AskRepo
<1> QED BY <1>1, <1>2, <1>3 DEF CrawlType, Others, Keeps

LEMMA AskDoes ==
  ASSUME TypeOK, NEW c \in Crawlers, NEW part \in Parts, Ask(c, part)
  PROVE  /\ UNCHANGED <<github, disk, meta, heard, muddle>> /\ Others(c) /\ Keeps(c)
         /\ KeepsDocument(c) /\ crawl[c].at = part
         /\ crawl'[c].at = (IF part = "readme" THEN "tree" ELSE "write")
         /\ crawl'[c].answer[part] =
              (IF github[part] = crawl[c].etags[part] /\ github[part] # Absent
                 THEN Same ELSE github[part])
         /\ \A other \in Parts \ {part} : crawl'[c].answer[other] = crawl[c].answer[other]
         /\ crawl'[c].used = crawl[c].used
<1>1. crawl[c] \in CrawlType /\ DOMAIN crawl = Crawlers
  BY DEF TypeOK
<1> DEFINE new == IF github[part] = crawl[c].etags[part] /\ github[part] # Absent
                    THEN Same ELSE github[part]
<1>2. crawl' = [crawl EXCEPT ![c] = [crawl[c] EXCEPT !.at = After[part], !.answer[part] = new]]
  BY <1>1, Zenon DEF Ask
<1>3. After[part] = (IF part = "readme" THEN "tree" ELSE "write")
  BY DEF After, Parts
<1> HIDE DEF new
<1>4. /\ Others(c) /\ Keeps(c) /\ KeepsDocument(c) /\ crawl'[c].at = After[part]
      /\ crawl'[c].answer = [crawl[c].answer EXCEPT ![part] = new]
      /\ crawl'[c].used = crawl[c].used
  BY <1>1, <1>2 DEF CrawlType, Others, Keeps, KeepsDocument
<1>5. crawl[c].answer \in [Parts -> Upto \cup {Same}]
  BY <1>1 DEF CrawlType
<1>6. UNCHANGED <<github, disk, meta, heard, muddle>> /\ crawl[c].at = part
  BY DEF Ask
<1>7. /\ crawl'[c].answer[part] = new
      /\ \A other \in Parts \ {part} : crawl'[c].answer[other] = crawl[c].answer[other]
  BY <1>4, <1>5
<1> QED BY <1>3, <1>4, <1>6, <1>7 DEF new

LEMMA WriteRepoDoes ==
  ASSUME TypeOK, NEW c \in Crawlers, WriteRepo(c)
  PROVE  /\ UNCHANGED <<github, meta, heard, muddle>> /\ Others(c) /\ Keeps(c)
         /\ KeepsDocument(c) /\ crawl[c].at = "write" /\ crawl'[c].at = "write readme"
         /\ crawl'[c].answer = crawl[c].answer /\ crawl'[c].used = crawl[c].used
         /\ disk'.about = crawl[c].about
         /\ disk'.readme = disk.readme /\ disk'.tree = disk.tree
<1>1. crawl[c] \in CrawlType /\ DOMAIN crawl = Crawlers
  BY DEF TypeOK
<1>2. crawl' = [crawl EXCEPT ![c] = [crawl[c] EXCEPT !.at = "write readme"]]
  BY DEF WriteRepo, Writing
<1>3. disk'.about = crawl[c].about /\ disk'.readme = disk.readme /\ disk'.tree = disk.tree
  BY DEF WriteRepo, TypeOK
<1>4. UNCHANGED <<github, meta, heard, muddle>> /\ crawl[c].at = "write"
  BY DEF WriteRepo
<1> QED BY <1>1, <1>2, <1>3, <1>4 DEF CrawlType, Others, Keeps, KeepsDocument

LEMMA WriteDoes ==
  ASSUME TypeOK, NEW c \in Crawlers, NEW part \in Parts, Write(c, part)
  PROVE  /\ UNCHANGED <<github, meta, heard, muddle>> /\ Others(c) /\ Keeps(c)
         /\ KeepsDocument(c)
         /\ crawl[c].at = (IF part = "readme" THEN "write readme" ELSE "write tree")
         /\ crawl'[c].at = (IF part = "readme" THEN "write tree" ELSE "announce")
         /\ crawl'[c].answer = crawl[c].answer
         /\ crawl'[c].used[part] =
              (IF crawl[c].answer[part] = Same THEN disk[part] ELSE crawl[c].answer[part])
         /\ \A other \in Parts \ {part} : crawl'[c].used[other] = crawl[c].used[other]
         /\ disk'[part] = (IF crawl[c].answer[part] \in {Same, Absent} THEN disk[part]
                           ELSE crawl[c].answer[part])
         /\ \A other \in Contents \ {part} : disk'[other] = disk[other]
<1>1. crawl[c] \in CrawlType /\ DOMAIN crawl = Crawlers
  BY DEF TypeOK
<1> DEFINE used == IF crawl[c].answer[part] = Same THEN disk[part] ELSE crawl[c].answer[part]
           at == IF part = "readme" THEN "write tree" ELSE "announce"
<1>2. crawl' = [crawl EXCEPT ![c] = [crawl[c] EXCEPT !.at = at, !.used[part] = used]]
  BY <1>1, Zenon DEF Write, Writing
<1>3. Writing[part] = (IF part = "readme" THEN "write readme" ELSE "write tree")
  <2>1. CASE part = "readme"
    BY <2>1 DEF Writing
  <2>2. CASE part = "tree"
    BY <2>2 DEF Writing
  <2> QED BY <2>1, <2>2 DEF Parts
<1> HIDE DEF used, at
<1>4. /\ Others(c) /\ Keeps(c) /\ KeepsDocument(c) /\ crawl'[c].at = at
      /\ crawl'[c].used = [crawl[c].used EXCEPT ![part] = used]
      /\ crawl'[c].answer = crawl[c].answer
  BY <1>1, <1>2 DEF CrawlType, Others, Keeps, KeepsDocument
<1>5. crawl[c].used \in [Parts -> Upto]
  BY <1>1 DEF CrawlType
<1>6. UNCHANGED <<github, meta, heard, muddle>> /\ crawl[c].at = Writing[part]
  BY DEF Write
<1>7. disk' = IF crawl[c].answer[part] \in {Same, Absent} THEN disk
              ELSE [disk EXCEPT ![part] = crawl[c].answer[part]]
  BY DEF Write
<1>8. disk \in [about : Upto, readme : Upto, tree : Upto]
  BY DEF TypeOK
<1>9. disk'[part] = (IF crawl[c].answer[part] \in {Same, Absent} THEN disk[part]
                     ELSE crawl[c].answer[part])
  <2>1. \A new : [disk EXCEPT ![part] = new][part] = new
    BY <1>8 DEF Parts
  <2> QED BY <1>7, <2>1
<1>10. \A other \in Contents \ {part} : disk'[other] = disk[other]
  <2>1. \A new : \A other \in Contents \ {part} : [disk EXCEPT ![part] = new][other] = disk[other]
    BY <1>8 DEF Contents
  <2> QED BY <1>7, <2>1
<1> QED BY <1>3, <1>4, <1>5, <1>6, <1>9, <1>10 DEF used, at

LEMMA AnnounceDoes ==
  ASSUME TypeOK, NEW c \in Crawlers, Announce(c)
  PROVE  /\ UNCHANGED <<github, disk, meta, muddle>> /\ Others(c) /\ Keeps(c)
         /\ KeepsDocument(c) /\ crawl[c].at = "announce" /\ crawl'[c].at = "save"
         /\ crawl'[c].answer = crawl[c].answer /\ crawl'[c].used = crawl[c].used
         /\ heard' = (IF Changed(c) THEN Hash(c) ELSE heard)
<1>1. crawl[c] \in CrawlType /\ DOMAIN crawl = Crawlers
  BY DEF TypeOK
<1>2. crawl' = [crawl EXCEPT ![c] = [crawl[c] EXCEPT !.at = "save"]]
  BY DEF Announce
<1>3. /\ UNCHANGED <<github, disk, meta, muddle>> /\ crawl[c].at = "announce"
      /\ heard' = (IF Changed(c) THEN Hash(c) ELSE heard)
  BY DEF Announce
<1> QED BY <1>1, <1>2, <1>3 DEF CrawlType, Others, Keeps, KeepsDocument

Tag(c, part) ==
  IF crawl[c].answer[part] \in {Same, Absent} THEN crawl[c].etags[part] ELSE crawl[c].answer[part]

LEMMA SaveDoes ==
  ASSUME TypeOK, NEW c \in Crawlers, Save(c)
  PROVE  /\ UNCHANGED <<github, disk, heard>> /\ Others(c) /\ crawl[c].at = "save"
         /\ crawl'[c].at = "idle" /\ meta'.hash = Hash(c) /\ meta'.etags.repo = crawl[c].rev
         /\ \A part \in Parts : meta'.etags[part] = Tag(c, part)
         /\ muddle' = (IF crawl[c].alone /\ ~crawl[c].trusting /\ Changed(c) THEN 0 ELSE muddle)
<1>1. /\ UNCHANGED <<github, disk, heard>> /\ crawl[c].at = "save"
      /\ muddle' = (IF crawl[c].alone /\ ~crawl[c].trusting /\ Changed(c) THEN 0 ELSE muddle)
      /\ crawl' = [crawl EXCEPT ![c] = Idle]
      /\ meta' = [etags |-> [repo |-> crawl[c].rev, readme |-> Tag(c, "readme"),
                             tree |-> Tag(c, "tree")],
                  hash |-> Hash(c), old |-> FALSE]
  BY DEF Save, Tag
<1>2. Others(c) /\ crawl'[c].at = "idle"
  BY <1>1 DEF Others, TypeOK, Idle
<1>3. /\ meta'.hash = Hash(c) /\ meta'.etags.repo = crawl[c].rev
      /\ meta'.etags["readme"] = Tag(c, "readme") /\ meta'.etags["tree"] = Tag(c, "tree")
  BY <1>1
<1> QED BY <1>1, <1>2, <1>3 DEF Parts

LEMMA BeginDoes ==
  ASSUME TypeOK, NEW c \in Crawlers, Begin(c)
  PROVE  LET others == \E d \in Crawlers \ {c} : Active(d)
         IN  /\ UNCHANGED <<github, disk, meta, heard>> /\ ~Active(c)
             /\ crawl'[c].at = "repo" /\ crawl'[c].previous = meta.hash
             /\ crawl'[c].trusting = ~meta.old
             /\ crawl'[c].etags = (IF meta.old THEN NoEtags ELSE meta.etags)
             /\ crawl'[c].alone = ~others
             /\ muddle' = (IF others THEN muddle + 1 ELSE muddle)
             /\ \A d \in Crawlers \ {c} :
                  /\ crawl'[d].at = crawl[d].at
                  /\ Active(d) => crawl'[d].alone = FALSE
<1> DEFINE others == \E d \in Crawlers \ {c} : Active(d)
           new == [Idle EXCEPT !.at = "repo", !.previous = meta.hash, !.trusting = ~meta.old,
                               !.etags = IF Usable(meta) THEN meta.etags ELSE NoEtags,
                               !.alone = ~others]
<1>1. /\ UNCHANGED <<github, disk, meta, heard>> /\ ~Active(c)
      /\ crawl' = [Confused(crawl) EXCEPT ![c] = new]
      /\ muddle' = (IF others THEN muddle + 1 ELSE muddle)
  BY DEF Begin
<1>2. /\ new.at = "repo" /\ new.previous = meta.hash /\ new.trusting = ~meta.old
      /\ new.etags = (IF meta.old THEN NoEtags ELSE meta.etags) /\ new.alone = ~others
  BY DEF Idle, Usable
<1> HIDE DEF new, others
<1>3. crawl'[c] = new /\ \A d \in Crawlers \ {c} : crawl'[d] = Confused(crawl)[d]
  BY <1>1 DEF Confused
<1>4. \A d \in Crawlers \ {c} : /\ Confused(crawl)[d].at = crawl[d].at
                                /\ Active(d) => Confused(crawl)[d].alone = FALSE
  BY DEF Confused, TypeOK, CrawlType
<1> QED BY <1>1, <1>2, <1>3, <1>4 DEF others

LEMMA EndDoes ==
  ASSUME TypeOK, NEW c \in Crawlers, NotModified(c) \/ Skip(c) \/ GiveUp(c)
  PROVE  /\ UNCHANGED <<github, disk, meta, heard, muddle>> /\ Others(c)
         /\ Active(c) /\ crawl'[c].at = "idle"
<1>1. /\ UNCHANGED <<github, disk, meta, heard, muddle>> /\ Active(c)
      /\ crawl' = [crawl EXCEPT ![c] = Idle]
  BY DEF NotModified, Skip, GiveUp, Active
<1> QED BY <1>1 DEF Others, TypeOK, Idle

LEMMA RepositoryMovesCrawls ==
  ASSUME TypeOK, Change \/ Revert
  PROVE  /\ UNCHANGED <<disk, meta, heard>>
         /\ muddle' = (IF Change THEN muddle ELSE muddle + 1)
         /\ \A c \in Crawlers :
              /\ crawl'[c].at = crawl[c].at /\ crawl'[c].previous = crawl[c].previous
              /\ crawl'[c].etags = crawl[c].etags /\ crawl'[c].trusting = crawl[c].trusting
              /\ crawl'[c].rev = crawl[c].rev /\ crawl'[c].about = crawl[c].about
              /\ crawl'[c].answer = crawl[c].answer /\ crawl'[c].used = crawl[c].used
              /\ Active(c) => crawl'[c].still = FALSE
              /\ Change => crawl'[c].alone = crawl[c].alone
              /\ ~Change /\ Active(c) => crawl'[c].alone = FALSE
<1> DEFINE Alike(a, b) ==
      /\ a.at = b.at /\ a.previous = b.previous /\ a.etags = b.etags /\ a.trusting = b.trusting
      /\ a.rev = b.rev /\ a.about = b.about /\ a.answer = b.answer /\ a.used = b.used
<1>1. \A c \in Crawlers :
        /\ Moved[c] \in CrawlType /\ Alike(Moved[c], crawl[c])
        /\ Active(c) => Moved[c].still = FALSE
        /\ Moved[c].alone = crawl[c].alone
  BY DEF Moved, TypeOK, CrawlType
<1>2. \A c \in Crawlers :
        /\ Alike(Confused(Moved)[c], Moved[c])
        /\ Confused(Moved)[c].still = Moved[c].still
        /\ Active(c) => Confused(Moved)[c].alone = FALSE
  BY <1>1 DEF Confused, CrawlType
<1>3. CASE Change
  <2>1. UNCHANGED <<disk, meta, heard, muddle>> /\ crawl' = Moved
    BY <1>3 DEF Change
  <2> QED BY <1>1, <1>3, <2>1
<1>4. CASE ~Change
  <2>1. UNCHANGED <<disk, meta, heard>> /\ crawl' = Confused(Moved) /\ muddle' = muddle + 1
    BY <1>4 DEF Revert
  <2> QED BY <1>1, <1>2, <1>4, <2>1
<1> QED BY <1>3, <1>4

(* A crawl goes on, or ends; it alone moves.                               *)
Working(c) ==
  /\ Others(c) /\ Active(c)
  /\ Active(c)' => Keeps(c)
  /\ \/ muddle' = muddle
     \/ muddle' = 0 /\ crawl[c].alone /\ ~Active(c)'

LEMMA CrawlWorks ==
  ASSUME TypeOK, NEW c \in Crawlers, FetchRepo(c)
  PROVE  Begin(c) \/ Working(c)
<1>1. ASSUME AskRepo(c) PROVE Working(c)
  BY <1>1, AskRepoDoes DEF Working, Active
<1>2. ASSUME NEW part \in Parts, Ask(c, part) PROVE Working(c)
  BY <1>2, AskDoes DEF Working, Active, Parts
<1>3. ASSUME NEW part \in Parts, Write(c, part) PROVE Working(c)
  BY <1>3, WriteDoes DEF Working, Active
<1>4. ASSUME WriteRepo(c) PROVE Working(c)
  BY <1>4, WriteRepoDoes DEF Working, Active
<1>5. ASSUME Announce(c) PROVE Working(c)
  BY <1>5, AnnounceDoes DEF Working, Active
<1>6. ASSUME Save(c) PROVE Working(c)
  BY <1>6, SaveDoes DEF Working, Active
<1>7. ASSUME NotModified(c) \/ Skip(c) \/ GiveUp(c) PROVE Working(c)
  BY <1>7, EndDoes DEF Working, Active
<1> QED BY <1>1, <1>2, <1>3, <1>4, <1>5, <1>6, <1>7 DEF FetchRepo

LEMMA AloneStep ==
  ASSUME TypeOK, AloneInv, [Next]_vars PROVE AloneInv'
<1>0. muddle \in Nat
  BY DEF TypeOK
<1>1. CASE Change \/ Revert
  <2>1. /\ muddle' = (IF Change THEN muddle ELSE muddle + 1)
        /\ \A c \in Crawlers : Active(c)' <=> Active(c)
        /\ \A c \in Crawlers : Change => crawl'[c].alone = crawl[c].alone
        /\ \A c \in Crawlers : ~Change /\ Active(c) => crawl'[c].alone = FALSE
    BY <1>1, RepositoryMovesCrawls DEF Active
  <2>2. CASE Change
    BY <2>1, <2>2 DEF AloneInv
  <2>3. CASE ~Change
    BY <1>0, <2>1, <2>3 DEF AloneInv
  <2> QED BY <2>2, <2>3
<1>2. CASE MonthPasses \/ UNCHANGED vars
  BY <1>2 DEF MonthPasses, vars, AloneInv, Active
<1>3. ASSUME NEW c \in Crawlers, Begin(c) PROVE AloneInv'
  <2> DEFINE others == \E d \in Crawlers \ {c} : Active(d)
  <2>1. /\ ~Active(c) /\ Active(c)' /\ crawl'[c].alone = ~others
        /\ muddle' = (IF others THEN muddle + 1 ELSE muddle)
        /\ \A d \in Crawlers \ {c} : (Active(d)' <=> Active(d))
                                     /\ (Active(d) => crawl'[d].alone = FALSE)
    BY <1>3, BeginDoes DEF Active
  <2> HIDE DEF others
  <2>2. muddle' = 0 => ~others
    BY <1>0, <2>1
  <2> QED BY <2>1, <2>2 DEF AloneInv, others
<1>4. ASSUME NEW c \in Crawlers, Working(c) PROVE AloneInv'
  BY <1>4 DEF AloneInv, Working, Others, Keeps, Active
<1> QED BY <1>1, <1>2, <1>3, <1>4, CrawlWorks DEF Next

(* A step of one crawl disturbs no other that is sure.                     *)
LEMMA OnlyOneWorks ==
  ASSUME AloneInv, NEW c \in Crawlers, Working(c), NEW d \in Crawlers, Sure(d)'
  PROVE  d = c /\ Sure(c) /\ Keeps(c) /\ muddle' = muddle
<1>1. d = c
  BY DEF AloneInv, Working, Others, Sure, Active
<1> QED BY <1>1 DEF Working, Sure, Keeps

(* What is hashed is what has been learnt.                                 *)
LEMMA HashIsLearnt ==
  ASSUME NEW c \in Crawlers, WrittenInv(c), crawl[c].at \in {"announce", "save"}
  PROVE  \A part \in Contents : Hash(c)[part] = Learnt(c, part)
<1>1. Hash(c).about = Learnt(c, "about")
  BY DEF Hash, contentHash, Learnt
<1>2. \A part \in Parts : crawl[c].used[part] = Learnt(c, part)
  BY DEF WrittenInv, Written
<1>3. Hash(c).readme = Learnt(c, "readme") /\ Hash(c).tree = Learnt(c, "tree")
  BY <1>2 DEF Hash, contentHash, Parts
<1> QED BY <1>1, <1>3 DEF Contents

-----------------------------------------------------------------------------
(* A crawl keeps what its stages say, whatever happens beside it.          *)
LEMMA RepositoryKeepsCrawls ==
  ASSUME TypeOK, PastInv, CrawlInv, MetaInv, Change \/ Revert PROVE CrawlInv'
<1> SUFFICES ASSUME NEW c \in Crawlers, Sure(c)'
             PROVE  StartInv(c)' /\ AnswerInv(c)' /\ WrittenInv(c)'
  BY DEF CrawlInv
<1>1. /\ UNCHANGED <<disk, meta, heard>>
      /\ muddle' = (IF Change THEN muddle ELSE muddle + 1)
      /\ crawl'[c].at = crawl[c].at /\ crawl'[c].previous = crawl[c].previous
      /\ crawl'[c].etags = crawl[c].etags /\ crawl'[c].trusting = crawl[c].trusting
      /\ crawl'[c].rev = crawl[c].rev /\ crawl'[c].about = crawl[c].about
      /\ crawl'[c].answer = crawl[c].answer /\ crawl'[c].used = crawl[c].used
      /\ Active(c) => crawl'[c].still = FALSE
      /\ Change => crawl'[c].alone = crawl[c].alone
      /\ ~Change /\ Active(c) => crawl'[c].alone = FALSE
  BY RepositoryMovesCrawls
<1>2. Active(c) /\ Change /\ Sure(c) /\ muddle' = muddle
  BY <1>1 DEF Sure, Active
<1>3. StartInv(c) /\ AnswerInv(c) /\ WrittenInv(c)
  BY <1>2 DEF CrawlInv
<1>4. /\ github.rev \in Nat /\ github'.rev = github.rev + 1
      /\ github.bare => github'.bare
      /\ \A part \in Contents : \/ github'[part] = github[part]
                                \/ github'[part] = github'.rev
                                \/ part = "readme" /\ github'[part] = Absent /\ ~github.bare
  BY <1>2, RepositoryMoves
<1>5. /\ \A part \in Contents : (Asked(c, part)' <=> Asked(c, part)) /\ (Written(c, part)' <=> Written(c, part))
      /\ \A part \in Contents : Learnt(c, part)' = Learnt(c, part)
      /\ Hash(c)' = Hash(c) /\ (Changed(c)' <=> Changed(c))
  BY <1>1 DEF Asked, Written, Learnt, Hash, Changed
<1>6. "about" \in Contents /\ Parts \subseteq Contents
  BY DEF Contents, Parts
<1>7. StartInv(c)'
  BY <1>1, <1>2, <1>3 DEF StartInv
<1>8. AnswerInv(c)'
  <2>1. crawl[c].rev \in Int /\ crawl[c].rev <= github.rev
    BY DEF PastInv, TypeOK, CrawlType, Upto
  <2>2. crawl'[c].rev # github'.rev
    BY <1>1, <1>4, <2>1
  <2>3. ASSUME NEW part \in Contents, muddle = 0, meta.hash # NoHash, github'[part] = meta.hash[part]
        PROVE  github[part] = meta.hash[part]
    <3>1. meta.hash[part] \in Int /\ meta.hash[part] <= github.rev
      BY DEF PastInv, TypeOK, Hashes, Contents
    <3>2. github'[part] # github'.rev
      BY <1>4, <2>3, <3>1
    <3>3. ~(part = "readme" /\ github'[part] = Absent /\ ~github.bare)
      BY <2>3 DEF MetaInv
    <3> QED BY <1>4, <2>3, <3>2, <3>3
  <2>4. ASSUME NEW part \in Parts, meta.etags[part] # NoEtag, github'[part] = meta.etags[part]
        PROVE  github[part] = meta.etags[part]
    <3>1. meta.etags[part] \in Int /\ meta.etags[part] <= github.rev
      BY DEF PastInv, TypeOK, Tags, Parts, Upto
    <3> QED BY <1>4, <1>6, <2>4, <3>1 DEF Absent, NoEtag
  <2> QED BY <1>1, <1>2, <1>3, <1>4, <1>5, <1>6, <2>2, <2>3, <2>4 DEF AnswerInv
<1>9. WrittenInv(c)'
  BY <1>1, <1>2, <1>3, <1>5, <1>6 DEF WrittenInv
<1> QED BY <1>7, <1>8, <1>9

LEMMA BeginKeepsCrawls ==
  ASSUME TypeOK, CrawlInv, NEW c \in Crawlers, Begin(c) PROVE CrawlInv'
<1> DEFINE others == \E d \in Crawlers \ {c} : Active(d)
<1>1. /\ UNCHANGED <<github, disk, meta, heard>>
      /\ crawl'[c].at = "repo" /\ crawl'[c].previous = meta.hash
      /\ crawl'[c].trusting = ~meta.old
      /\ crawl'[c].etags = (IF meta.old THEN NoEtags ELSE meta.etags)
      /\ \A d \in Crawlers \ {c} : /\ crawl'[d].at = crawl[d].at
                                   /\ Active(d) => crawl'[d].alone = FALSE
  BY BeginDoes
<1>2. \A d \in Crawlers : Sure(d)' => d = c
  BY <1>1 DEF Sure, Active
<1>3. \A part \in Contents : ~Asked(c, part)' /\ ~Written(c, part)'
  BY <1>1 DEF Asked, Written
<1>4. meta.old \in BOOLEAN /\ "about" \in Contents /\ Parts \subseteq Contents
  BY DEF TypeOK, Contents, Parts
<1>5. StartInv(c)'
  BY <1>1, <1>3, <1>4 DEF StartInv
<1>6. AnswerInv(c)' /\ WrittenInv(c)'
  BY <1>1, <1>3, <1>4 DEF AnswerInv, WrittenInv
<1> QED BY <1>2, <1>5, <1>6 DEF CrawlInv

LEMMA AskRepoKeeps ==
  ASSUME TypeOK, PastInv, NEW c \in Crawlers, Sure(c), StartInv(c), AskRepo(c)
  PROVE  StartInv(c)' /\ AnswerInv(c)' /\ WrittenInv(c)'
<1>1. /\ UNCHANGED <<github, disk, meta, heard, muddle>> /\ Keeps(c)
      /\ crawl'[c].at = "readme"
      /\ crawl'[c].rev = github.rev /\ crawl'[c].about = github.about
  BY AskRepoDoes
<1>2. /\ \A part \in Parts : ~Asked(c, part)' /\ ~Written(c, part)'
      /\ ~Written(c, "about")'
  BY <1>1 DEF Asked, Written, Parts
<1>3. StartInv(c)'
  BY <1>1 DEF StartInv, Keeps
<1>4. meta.etags.repo <= github.rev
  BY DEF PastInv
<1>5. \A part \in Contents : Asked(c, part)' => part = "about" /\ Learnt(c, part)' = github[part]
  BY <1>1, <1>2 DEF Contents, Parts, Learnt
<1>6. AnswerInv(c)'
  BY <1>1, <1>2, <1>4, <1>5 DEF AnswerInv
<1> QED BY <1>1, <1>2, <1>3, <1>6 DEF WrittenInv

LEMMA AskKeeps ==
  ASSUME TypeOK, PastInv, MetaInv, NEW c \in Crawlers, Sure(c), StartInv(c), AnswerInv(c),
         NEW part \in Parts, Ask(c, part)
  PROVE  StartInv(c)' /\ AnswerInv(c)' /\ WrittenInv(c)'
<1> DEFINE new == IF github[part] = crawl[c].etags[part] /\ github[part] # Absent
                    THEN Same ELSE github[part]
<1>1. /\ UNCHANGED <<github, disk, meta, heard, muddle>> /\ Keeps(c) /\ KeepsDocument(c)
      /\ crawl[c].at = part /\ crawl'[c].at = (IF part = "readme" THEN "tree" ELSE "write")
      /\ crawl'[c].answer[part] = new
      /\ \A other \in Parts \ {part} : crawl'[c].answer[other] = crawl[c].answer[other]
  BY AskDoes
<1>2. \A other \in Contents : Asked(c, other)' => Asked(c, other) \/ other = part
  BY <1>1 DEF Asked, Contents, Parts, Stages
<1>3. \A other \in Contents : ~Written(c, other)'
  BY <1>1 DEF Written
<1>4. "about" \in Contents /\ Parts \subseteq Contents /\ part # "about" /\ Asked(c, "about")
  BY <1>1 DEF Contents, Parts, Asked, Stages
<1>5. \A other \in Contents \ {part} : Learnt(c, other)' = Learnt(c, other)
  BY <1>1 DEF Learnt, Contents, Parts, Keeps, KeepsDocument
<1>6. github[part] # Same /\ (github[part] = Absent => part = "readme" /\ github.bare)
  <2>1. CASE part = "readme"
    BY <2>1 DEF TypeOK, PastInv, Upto, Same, Absent
  <2>2. CASE part = "tree"
    BY <2>2 DEF TypeOK, Revs, Same, Absent
  <2> QED BY <2>1, <2>2 DEF Parts
<1>7. Learnt(c, part)' = github[part]
  BY <1>1, <1>4, <1>6 DEF Learnt, Keeps
<1>8. new = Same => crawl[c].etags[part] # NoEtag /\ disk[part] = crawl[c].etags[part]
  <2> SUFFICES ASSUME new = Same
               PROVE  crawl[c].etags[part] # NoEtag /\ disk[part] = crawl[c].etags[part]
    OBVIOUS
  <2>1. github[part] = crawl[c].etags[part] /\ crawl[c].etags[part] # NoEtag
    BY <1>6 DEF Absent, NoEtag
  <2>2. crawl[c].trusting
    BY <2>1 DEF StartInv, NoEtags, Parts
  <2> QED BY <2>1, <2>2 DEF Sure, StartInv, MetaInv
<1>9. new = Absent => part = "readme" /\ github.bare
  BY <1>6 DEF Same, Absent
<1> HIDE DEF new
<1>10. StartInv(c)'
  BY <1>1, <1>4 DEF StartInv, Keeps, KeepsDocument
<1>11. AnswerInv(c)'
  BY <1>1, <1>2, <1>4, <1>5, <1>7, <1>8, <1>9 DEF AnswerInv, Keeps, KeepsDocument
<1>12. WrittenInv(c)'
  BY <1>1, <1>3, <1>4 DEF WrittenInv
<1> QED BY <1>10, <1>11, <1>12

LEMMA WriteRepoKeeps ==
  ASSUME TypeOK, NEW c \in Crawlers, StartInv(c), AnswerInv(c), WriteRepo(c)
  PROVE  StartInv(c)' /\ AnswerInv(c)' /\ WrittenInv(c)'
<1>1. /\ UNCHANGED <<github, meta, heard, muddle>> /\ Keeps(c) /\ KeepsDocument(c)
      /\ crawl[c].at = "write" /\ crawl'[c].at = "write readme"
      /\ crawl'[c].answer = crawl[c].answer
      /\ disk'.about = crawl[c].about /\ disk'.readme = disk.readme /\ disk'.tree = disk.tree
  BY WriteRepoDoes
<1>2. \A part \in Contents : Asked(c, part) /\ Asked(c, part)'
  BY <1>1 DEF Asked, Stages
<1>3. \A part \in Parts : ~Written(c, part)' /\ disk'[part] = disk[part]
  BY <1>1 DEF Written, Parts
<1>4. \A part \in Contents : Learnt(c, part)' = Learnt(c, part)
  BY <1>1 DEF Learnt, Keeps, KeepsDocument
<1>5. "about" \in Contents /\ Parts \subseteq Contents
  BY DEF Contents, Parts
<1>6. StartInv(c)'
  BY <1>1, <1>2, <1>5 DEF StartInv, Keeps, KeepsDocument
<1>7. AnswerInv(c)'
  <2>1. \A other \in Parts : disk'[other] = disk[other]
    BY <1>3
  <2> DEFINE OnEtag(p) ==
        /\ crawl[c].answer[p] = Same =>
             crawl[c].etags[p] # NoEtag /\ disk[p] = crawl[c].etags[p]
        /\ crawl[c].answer[p] = Absent => p = "readme" /\ github.bare
  <2>3. \A other \in Parts : OnEtag(other)
    BY <1>2, <1>5 DEF AnswerInv
  <2>2. /\ UNCHANGED <<github, meta, muddle>> /\ crawl'[c].rev = crawl[c].rev
        /\ crawl'[c].answer = crawl[c].answer /\ crawl'[c].etags = crawl[c].etags
    BY <1>1 DEF Keeps, KeepsDocument
  <2>4. \A other \in Parts : OnEtag(other)'
    BY <2>1, <2>2, <2>3
  <2>5. meta.etags.repo <= crawl[c].rev
    BY <1>2, <1>5 DEF AnswerInv
  <2>6. \A other \in Contents :
          /\ crawl[c].rev = github.rev => Learnt(c, other) = github[other]
          /\ muddle = 0 /\ meta.hash # NoHash /\ github[other] = meta.hash[other] =>
               Learnt(c, other) = meta.hash[other]
    BY <1>2 DEF AnswerInv
  <2>7. \A other \in Parts :
          muddle = 0 /\ meta.etags[other] # NoEtag /\ github[other] = meta.etags[other] =>
            Learnt(c, other) = meta.etags[other]
    BY <1>2, <1>5 DEF AnswerInv
  <2> QED BY <1>4, <1>5, <2>2, <2>4, <2>5, <2>6, <2>7 DEF AnswerInv
<1>8. WrittenInv(c)'
  BY <1>1, <1>3 DEF WrittenInv, KeepsDocument
<1> QED BY <1>6, <1>7, <1>8

LEMMA WriteKeeps ==
  ASSUME TypeOK, NEW c \in Crawlers, StartInv(c), AnswerInv(c), WrittenInv(c),
         NEW part \in Parts, Write(c, part)
  PROVE  StartInv(c)' /\ AnswerInv(c)' /\ WrittenInv(c)'
<1>1. /\ UNCHANGED <<github, meta, heard, muddle>> /\ Keeps(c) /\ KeepsDocument(c)
      /\ crawl[c].at = (IF part = "readme" THEN "write readme" ELSE "write tree")
      /\ crawl'[c].at = (IF part = "readme" THEN "write tree" ELSE "announce")
      /\ crawl'[c].answer = crawl[c].answer
      /\ crawl'[c].used[part] =
           (IF crawl[c].answer[part] = Same THEN disk[part] ELSE crawl[c].answer[part])
      /\ \A other \in Parts \ {part} : crawl'[c].used[other] = crawl[c].used[other]
      /\ disk'[part] = (IF crawl[c].answer[part] \in {Same, Absent} THEN disk[part]
                        ELSE crawl[c].answer[part])
      /\ \A other \in Contents \ {part} : disk'[other] = disk[other]
  BY WriteDoes
<1>2. \A other \in Contents : Asked(c, other) /\ Asked(c, other)'
  BY <1>1 DEF Asked, Stages
<1>3. \A other \in Contents : Learnt(c, other)' = Learnt(c, other)
  BY <1>1 DEF Learnt, Keeps, KeepsDocument
<1>4. "about" \in Contents \ {part} /\ Parts \subseteq Contents
  BY DEF Contents, Parts
<1>5. Written(c, "about") /\ \A other \in Parts \ {part} : Written(c, other)' => Written(c, other)
  BY <1>1 DEF Written, Parts
<1>6. StartInv(c)'
  BY <1>1, <1>2, <1>4 DEF StartInv, Keeps, KeepsDocument
<1>7. crawl[c].answer[part] = Same => disk[part] = crawl[c].etags[part]
  BY <1>2, <1>4 DEF AnswerInv
<1>8. AnswerInv(c)'
  <2>1. \A other \in Parts : crawl[c].answer[other] = Same => disk'[other] = disk[other]
    BY <1>1, <1>4
  <2> DEFINE OnEtag(p) ==
        /\ crawl[c].answer[p] = Same =>
             crawl[c].etags[p] # NoEtag /\ disk[p] = crawl[c].etags[p]
        /\ crawl[c].answer[p] = Absent => p = "readme" /\ github.bare
  <2>3. \A other \in Parts : OnEtag(other)
    BY <1>2, <1>4 DEF AnswerInv
  <2>2. /\ UNCHANGED <<github, meta, muddle>> /\ crawl'[c].rev = crawl[c].rev
        /\ crawl'[c].answer = crawl[c].answer /\ crawl'[c].etags = crawl[c].etags
    BY <1>1 DEF Keeps, KeepsDocument
  <2>4. \A other \in Parts : OnEtag(other)'
    BY <2>1, <2>2, <2>3
  <2>5. meta.etags.repo <= crawl[c].rev
    BY <1>2, <1>4 DEF AnswerInv
  <2>6. \A other \in Contents :
          /\ crawl[c].rev = github.rev => Learnt(c, other) = github[other]
          /\ muddle = 0 /\ meta.hash # NoHash /\ github[other] = meta.hash[other] =>
               Learnt(c, other) = meta.hash[other]
    BY <1>2 DEF AnswerInv
  <2>7. \A other \in Parts :
          muddle = 0 /\ meta.etags[other] # NoEtag /\ github[other] = meta.etags[other] =>
            Learnt(c, other) = meta.etags[other]
    BY <1>2, <1>4 DEF AnswerInv
  <2> QED BY <1>3, <1>4, <2>2, <2>4, <2>5, <2>6, <2>7 DEF AnswerInv
<1>9. Learnt(c, part) = (IF crawl[c].answer[part] = Same THEN disk[part] ELSE crawl[c].answer[part])
  BY <1>4, <1>7 DEF Learnt
<1>10. WrittenInv(c)'
  <2>1. crawl'[c].at # "save"
    BY <1>1
  <2>2. crawl'[c].used[part] = Learnt(c, part)
        /\ (disk'[part] = Learnt(c, part) \/ Learnt(c, part) = Absent)
    BY <1>1, <1>9
  <2>3. \A other \in Parts : Written(c, other)' =>
          /\ crawl'[c].used[other] = Learnt(c, other)
          /\ disk'[other] = Learnt(c, other) \/ Learnt(c, other) = Absent
    BY <1>1, <1>4, <1>5, <2>2 DEF WrittenInv
  <2>4. disk'["about"] = crawl'[c].about
    BY <1>1, <1>4, <1>5 DEF WrittenInv, KeepsDocument
  <2> QED BY <1>3, <1>4, <2>1, <2>3, <2>4 DEF WrittenInv
<1> QED BY <1>6, <1>8, <1>10

LEMMA AnnounceKeeps ==
  ASSUME TypeOK, MetaInv, NEW c \in Crawlers, StartInv(c), AnswerInv(c), WrittenInv(c), Announce(c)
  PROVE  StartInv(c)' /\ AnswerInv(c)' /\ WrittenInv(c)'
<1>1. /\ UNCHANGED <<github, disk, meta, muddle>> /\ Keeps(c) /\ KeepsDocument(c)
      /\ crawl[c].at = "announce" /\ crawl'[c].at = "save"
      /\ crawl'[c].answer = crawl[c].answer /\ crawl'[c].used = crawl[c].used
      /\ heard' = (IF Changed(c) THEN Hash(c) ELSE heard)
  BY AnnounceDoes
<1>2. \A part \in Contents : /\ Asked(c, part) /\ Asked(c, part)'
                             /\ Written(c, part) /\ Written(c, part)'
  BY <1>1 DEF Asked, Written, Stages
<1>3. \A part \in Contents : Learnt(c, part)' = Learnt(c, part)
  BY <1>1 DEF Learnt, Keeps, KeepsDocument
<1>4. "about" \in Contents /\ Parts \subseteq Contents
  BY DEF Contents, Parts
<1>5. Hash(c)' = Hash(c) /\ (Changed(c)' <=> Changed(c))
  BY <1>1 DEF Hash, Changed, Keeps, KeepsDocument
<1>6. muddle = 0 /\ ~Changed(c) => heard = Hash(c)
  <2> SUFFICES ASSUME muddle = 0, ~Changed(c) PROVE heard = Hash(c)
    OBVIOUS
  <2>1. Hash(c) = meta.hash /\ meta.hash # NoHash
    BY DEF Changed, StartInv
  <2>2. \A part \in Contents : Learnt(c, part) = meta.hash[part]
    BY <1>1, <2>1, HashIsLearnt
  <2> QED BY <1>2, <2>1, <2>2 DEF MetaInv
<1>7. StartInv(c)'
  BY <1>1, <1>2, <1>4 DEF StartInv, Keeps, KeepsDocument
<1>8. AnswerInv(c)'
  BY <1>1, <1>2, <1>3, <1>4 DEF AnswerInv, Keeps, KeepsDocument
<1>9. WrittenInv(c)'
  BY <1>1, <1>2, <1>3, <1>4, <1>5, <1>6 DEF WrittenInv, KeepsDocument
<1> QED BY <1>7, <1>8, <1>9

LEMMA CrawlStep ==
  ASSUME TypeOK, PastInv, AloneInv, CrawlInv, MetaInv, [Next]_vars PROVE CrawlInv'
<1>1. CASE Change \/ Revert
  BY <1>1, RepositoryKeepsCrawls
<1>2. CASE MonthPasses \/ UNCHANGED vars
  <2>1. /\ UNCHANGED <<github, disk, crawl, heard, muddle>>
        /\ meta'.hash = meta.hash /\ meta'.etags = meta.etags
    BY <1>2 DEF MonthPasses, vars, TypeOK
  <2>2. ASSUME NEW c \in Crawlers
        PROVE  /\ StartInv(c) => StartInv(c)'
               /\ AnswerInv(c) => AnswerInv(c)'
               /\ WrittenInv(c) => WrittenInv(c)'
    <3>1. \A part \in Contents : /\ (Asked(c, part)' <=> Asked(c, part))
                                /\ (Written(c, part)' <=> Written(c, part))
                                /\ Learnt(c, part)' = Learnt(c, part)
      BY <2>1 DEF Asked, Written, Learnt
    <3>2. Hash(c)' = Hash(c) /\ (Changed(c)' <=> Changed(c))
      BY <2>1 DEF Hash, Changed
    <3>3. "about" \in Contents /\ Parts \subseteq Contents
      BY DEF Contents, Parts
    <3>4. StartInv(c) => StartInv(c)'
      BY <2>1, <3>1, <3>3 DEF StartInv
    <3>5. AnswerInv(c) => AnswerInv(c)'
      BY <2>1, <3>1, <3>3 DEF AnswerInv
    <3>6. WrittenInv(c) => WrittenInv(c)'
      BY <2>1, <3>1, <3>2, <3>3 DEF WrittenInv
    <3> QED BY <3>4, <3>5, <3>6
  <2>3. \A c \in Crawlers : Sure(c)' => Sure(c)
    BY <2>1 DEF Sure, Active
  <2> QED BY <2>2, <2>3 DEF CrawlInv
<1>3. ASSUME NEW c \in Crawlers, Begin(c) PROVE CrawlInv'
  BY <1>3, BeginKeepsCrawls
<1>4. ASSUME NEW c \in Crawlers, FetchRepo(c), ~Begin(c) PROVE CrawlInv'
  <2> SUFFICES ASSUME NEW d \in Crawlers, Sure(d)'
               PROVE  StartInv(d)' /\ AnswerInv(d)' /\ WrittenInv(d)'
    BY DEF CrawlInv
  <2>1. d = c /\ Sure(c) /\ crawl'[c].at # "idle"
    BY <1>4, CrawlWorks, OnlyOneWorks DEF Sure, Active
  <2>2. StartInv(c) /\ AnswerInv(c) /\ WrittenInv(c)
    BY <2>1 DEF CrawlInv
  <2>3. CASE AskRepo(c)
    BY <2>1, <2>2, <2>3, AskRepoKeeps
  <2>4. ASSUME NEW part \in Parts, Ask(c, part)
        PROVE  StartInv(d)' /\ AnswerInv(d)' /\ WrittenInv(d)'
    BY <2>1, <2>2, <2>4, AskKeeps
  <2>5. CASE WriteRepo(c)
    BY <2>1, <2>2, <2>5, WriteRepoKeeps
  <2>6. ASSUME NEW part \in Parts, Write(c, part)
        PROVE  StartInv(d)' /\ AnswerInv(d)' /\ WrittenInv(d)'
    BY <2>1, <2>2, <2>6, WriteKeeps
  <2>7. CASE Announce(c)
    BY <2>1, <2>2, <2>7, AnnounceKeeps
  <2>8. ~(Save(c) \/ NotModified(c) \/ Skip(c) \/ GiveUp(c))
    BY <2>1, SaveDoes, EndDoes
  <2> QED BY <1>4, <2>3, <2>4, <2>5, <2>6, <2>7, <2>8 DEF FetchRepo
<1> QED BY <1>1, <1>2, <1>3, <1>4 DEF Next

-----------------------------------------------------------------------------
(* _fetch.json and what it is of.                                          *)

(* A crawl that works while nothing is confused is sure, and the only one. *)
LEMMA SureWhenClear ==
  ASSUME AloneInv, muddle = 0, NEW c \in Crawlers, Active(c)
  PROVE  Sure(c) /\ \A d \in Crawlers \ {c} : ~Active(d)
BY DEF AloneInv, Sure

LEMMA IdleAsksNothing ==
  ASSUME NEW c \in Crawlers, ~Active(c) PROVE \A part : ~Asked(c, part)
BY DEF Active, Asked

(* A change announced and not recorded is of content that is gone.         *)
Gone(part) ==
  /\ github[part] # meta.hash[part]
  /\ \A c \in Crawlers : Asked(c, part) => Learnt(c, part) # meta.hash[part]

LEMMA RepositoryKeepsMeta ==
  ASSUME TypeOK, PastInv, MetaInv, Change \/ Revert PROVE MetaInv'
<1>1. /\ UNCHANGED <<disk, meta, heard>>
      /\ muddle' = (IF Change THEN muddle ELSE muddle + 1)
      /\ \A c \in Crawlers :
           /\ crawl'[c].at = crawl[c].at /\ crawl'[c].about = crawl[c].about
           /\ crawl'[c].etags = crawl[c].etags /\ crawl'[c].answer = crawl[c].answer
  BY RepositoryMovesCrawls
<1>2. CASE ~Change
  BY <1>1, <1>2 DEF MetaInv, TypeOK
<1>3. CASE Change
  <2> SUFFICES ASSUME muddle = 0 PROVE MetaInv'
    BY <1>1, <1>3 DEF MetaInv
  <2>1. /\ github.rev \in Nat /\ github'.rev = github.rev + 1
        /\ github.bare => github'.bare
        /\ \A part \in Contents : \/ github'[part] = github[part]
                                  \/ github'[part] = github'.rev
                                  \/ part = "readme" /\ github'[part] = Absent /\ ~github.bare
    BY <1>3, RepositoryMoves
  <2>2. meta.etags.repo # github'.rev
    <3>1. meta.etags.repo \in Int /\ meta.etags.repo <= github.rev
      BY DEF PastInv, TypeOK, Tags, Upto
    <3> QED BY <2>1, <3>1
  <2>3. \A part \in Parts :
          meta.etags[part] # NoEtag /\ github'[part] = meta.etags[part] => disk[part] = meta.etags[part]
    <3> SUFFICES ASSUME NEW part \in Parts, meta.etags[part] # NoEtag,
                        github'[part] = meta.etags[part]
                 PROVE  disk[part] = meta.etags[part]
      OBVIOUS
    <3>1. meta.etags[part] \in Int /\ meta.etags[part] <= github.rev
      BY DEF PastInv, TypeOK, Tags, Parts, Upto
    <3>2. github[part] = meta.etags[part]
      BY <2>1, <3>1 DEF Absent, NoEtag, Contents, Parts
    <3> QED BY <3>2 DEF MetaInv
  <2>4. meta.hash # NoHash => heard = meta.hash \/ \E part \in Contents : Gone(part)'
    <3> SUFFICES ASSUME meta.hash # NoHash, heard # meta.hash
                 PROVE  \E part \in Contents : Gone(part)'
      OBVIOUS
    <3>1. PICK part \in Contents : Gone(part)
      BY DEF MetaInv, Gone
    <3>2. meta.hash[part] \in Int /\ meta.hash[part] <= github.rev
      BY DEF PastInv, TypeOK, Hashes, Contents
    <3>3. github'[part] # meta.hash[part]
      <4>1. ~github.bare => meta.hash.readme # Absent
        BY DEF MetaInv
      <4> QED BY <2>1, <3>1, <3>2, <4>1 DEF Gone
    <3>4. \A c \in Crawlers : (Asked(c, part)' <=> Asked(c, part)) /\ Learnt(c, part)' = Learnt(c, part)
      BY <1>1 DEF Asked, Learnt
    <3>5. Gone(part)'
      BY <1>1, <3>1, <3>3, <3>4 DEF Gone
    <3> QED BY <3>5
  <2>5. meta.hash # NoHash /\ meta.hash.readme = Absent => github'.bare
    BY <2>1 DEF MetaInv
  <2> QED BY <1>1, <2>2, <2>3, <2>4, <2>5 DEF MetaInv, Gone
<1> QED BY <1>2, <1>3

(* Where nothing is written, and what is asked for is of the present.      *)
LEMMA NothingWritten ==
  ASSUME MetaInv, UNCHANGED <<github, disk, heard>>, muddle' = 0 => muddle = 0,
         meta'.hash = meta.hash, meta'.etags = meta.etags,
         muddle = 0 => \A c \in Crawlers : \A part \in Contents :
           Asked(c, part)' => \/ Asked(c, part) /\ Learnt(c, part)' = Learnt(c, part)
                              \/ Learnt(c, part)' = github[part]
  PROVE  MetaInv'
<1> SUFFICES ASSUME muddle = 0 PROVE MetaInv'
  BY DEF MetaInv
<1>1. meta.hash # NoHash => heard = meta.hash \/ \E part \in Contents : Gone(part)'
  <2> SUFFICES ASSUME meta.hash # NoHash, heard # meta.hash
               PROVE  \E part \in Contents : Gone(part)'
    OBVIOUS
  <2>1. PICK part \in Contents : Gone(part)
    BY DEF MetaInv, Gone
  <2>2. Gone(part)'
    BY <2>1 DEF Gone
  <2> QED BY <2>2
<1>2. Content(github)' = Content(github)
  BY DEF Content
<1> QED BY <1>1, <1>2 DEF MetaInv, Gone, Agree

LEMMA WritingKeepsMeta ==
  ASSUME TypeOK, PastInv, AloneInv, CrawlInv, MetaInv, NEW c \in Crawlers,
         WriteRepo(c) \/ \E part \in Parts : Write(c, part)
  PROVE  MetaInv'
<1>1. /\ UNCHANGED <<github, meta, heard, muddle>> /\ Others(c)
      /\ crawl[c].at \in {"write", "write readme", "write tree"}
      /\ crawl'[c].at \in {"write readme", "write tree", "announce"}
      /\ crawl'[c].about = crawl[c].about /\ crawl'[c].answer = crawl[c].answer
      /\ crawl'[c].etags = crawl[c].etags
  BY WriteRepoDoes, WriteDoes DEF Keeps, KeepsDocument
<1> SUFFICES ASSUME muddle = 0 PROVE MetaInv'
  BY <1>1 DEF MetaInv
<1>2. StartInv(c) /\ AnswerInv(c) /\ WrittenInv(c)
  BY <1>1, SureWhenClear DEF Active, CrawlInv
<1>3. \A part \in Contents : Asked(c, part)
  BY <1>1 DEF Asked, Stages
<1>4. \A d \in Crawlers : \A part \in Contents :
        /\ (Asked(d, part)' <=> Asked(d, part))
        /\ Learnt(d, part)' = Learnt(d, part)
  <2>1. \A part \in Contents : Asked(c, part)' /\ Learnt(c, part)' = Learnt(c, part)
    BY <1>1 DEF Asked, Stages, Learnt
  <2>2. \A d \in Crawlers \ {c} : crawl'[d] = crawl[d]
    BY <1>1 DEF Others
  <2> QED BY <1>3, <2>1, <2>2 DEF Asked, Learnt
<1>5. \A part \in Contents : disk'[part] # disk[part] => disk'[part] = Learnt(c, part)
  <2>1. CASE WriteRepo(c)
    <3>1. disk'.about = crawl[c].about /\ disk'.readme = disk.readme /\ disk'.tree = disk.tree
      BY <2>1, WriteRepoDoes
    <3> QED BY <3>1 DEF Contents, Learnt
  <2>2. ASSUME NEW part \in Parts, Write(c, part)
        PROVE  \A other \in Contents : disk'[other] # disk[other] => disk'[other] = Learnt(c, other)
    <3>1. /\ disk'[part] = (IF crawl[c].answer[part] \in {Same, Absent} THEN disk[part]
                            ELSE crawl[c].answer[part])
          /\ \A other \in Contents \ {part} : disk'[other] = disk[other]
      BY <2>2, WriteDoes
    <3> QED BY <3>1 DEF Learnt, Contents, Parts
  <2> QED BY <2>1, <2>2
<1>6. "about" \in Contents /\ "readme" \in Contents /\ "tree" \in Contents /\ Parts \subseteq Contents
  BY DEF Contents, Parts
<1>7. meta.etags.repo = github.rev => meta.hash = Content(github) /\ Agree(disk', meta.hash)
  <2> SUFFICES ASSUME meta.etags.repo = github.rev
               PROVE  meta.hash = Content(github) /\ Agree(disk', meta.hash)
    OBVIOUS
  <2>1. meta.hash = Content(github) /\ Agree(disk, meta.hash)
    BY DEF MetaInv
  <2>2. crawl[c].rev = github.rev
    <3>1. crawl[c].rev \in Int /\ crawl[c].rev <= github.rev /\ github.rev \in Int
      BY DEF PastInv, TypeOK, CrawlType, Upto, Revs
    <3> QED BY <1>2, <1>3, <1>6, <3>1 DEF AnswerInv
  <2>3. \A part \in Contents : Learnt(c, part) = github[part]
    BY <1>2, <1>3, <2>2 DEF AnswerInv
  <2>4. /\ meta.hash.about = github["about"] /\ meta.hash.readme = github["readme"]
        /\ meta.hash.tree = github["tree"]
    BY <2>1 DEF Content
  <2>5. /\ disk'["about"] \in {disk["about"], github["about"]}
        /\ disk'["readme"] \in {disk["readme"], github["readme"]}
        /\ disk'["tree"] \in {disk["tree"], github["tree"]}
    BY <1>5, <1>6, <2>3
  <2> QED BY <2>1, <2>4, <2>5 DEF Agree
<1>8. \A part \in Parts :
        meta.etags[part] # NoEtag /\ github[part] = meta.etags[part] => disk'[part] = meta.etags[part]
  BY <1>2, <1>3, <1>5, <1>6 DEF MetaInv, AnswerInv
<1>9. meta.hash # NoHash => heard = meta.hash \/ \E part \in Contents : Gone(part)'
  <2> SUFFICES ASSUME meta.hash # NoHash, heard # meta.hash
               PROVE  \E part \in Contents : Gone(part)'
    OBVIOUS
  <2>1. PICK part \in Contents : Gone(part)
    BY DEF MetaInv, Gone
  <2>2. Gone(part)'
    BY <1>1, <1>4, <2>1 DEF Gone
  <2> QED BY <2>2
<1>10. meta.hash # NoHash /\ meta.hash.readme = Absent => github.bare
  BY DEF MetaInv
<1> QED BY <1>1, <1>7, <1>8, <1>9, <1>10 DEF MetaInv, Gone

LEMMA AnnounceKeepsMeta ==
  ASSUME TypeOK, AloneInv, CrawlInv, MetaInv, NEW c \in Crawlers, Announce(c)
  PROVE  MetaInv'
<1>1. /\ UNCHANGED <<github, disk, meta, muddle>> /\ Others(c) /\ Keeps(c) /\ KeepsDocument(c)
      /\ crawl[c].at = "announce" /\ crawl'[c].at = "save"
      /\ crawl'[c].answer = crawl[c].answer
      /\ heard' = (IF Changed(c) THEN Hash(c) ELSE heard)
  BY AnnounceDoes
<1> SUFFICES ASSUME muddle = 0 PROVE MetaInv'
  BY <1>1 DEF MetaInv
<1>2. Sure(c) /\ \A d \in Crawlers \ {c} : ~Active(d)
  BY <1>1, SureWhenClear DEF Active
<1>3. StartInv(c) /\ AnswerInv(c) /\ WrittenInv(c)
  BY <1>2 DEF CrawlInv
<1>4. \A part \in Contents : Asked(c, part) /\ Learnt(c, part)' = Learnt(c, part)
  BY <1>1 DEF Asked, Stages, Learnt, Keeps, KeepsDocument
<1>5. \A d \in Crawlers \ {c} : \A part \in Contents : ~Asked(d, part)'
  BY <1>1, <1>2 DEF Others, Active, Asked
<1>6. meta.hash # NoHash => heard' = meta.hash \/ \E part \in Contents : Gone(part)'
  <2> SUFFICES ASSUME meta.hash # NoHash, heard' # meta.hash
               PROVE  \E part \in Contents : Gone(part)'
    OBVIOUS
  <2>1. CASE ~Changed(c)
    <3>1. PICK part \in Contents : Gone(part)
      BY <1>1, <2>1 DEF MetaInv, Gone
    <3>2. Gone(part)'
      BY <1>1, <1>4, <1>5, <3>1 DEF Gone
    <3> QED BY <3>2
  <2>2. CASE Changed(c)
    <3>1. \E part \in Contents : Hash(c)[part] # meta.hash[part]
      <4>0. crawl[c] \in CrawlType /\ meta.hash \in Hashes
        BY DEF TypeOK
      <4>1. Hash(c) # meta.hash /\ Hash(c) \in Hashes
        <5>1. Hash(c) \in Hashes
          BY <4>0 DEF CrawlType, Hash, contentHash, Hashes, Upto, Parts
        <5> QED BY <1>1, <2>2, <5>1
      <4>2. \/ Hash(c).about # meta.hash.about \/ Hash(c).readme # meta.hash.readme
            \/ Hash(c).tree # meta.hash.tree
        BY <4>0, <4>1 DEF Hashes
      <4> QED BY <4>2 DEF Contents
    <3>2. PICK part \in Contents : Hash(c)[part] # meta.hash[part]
      BY <3>1
    <3>3. Learnt(c, part) # meta.hash[part]
      BY <1>1, <1>3, <3>2, HashIsLearnt
    <3>4. github[part] # meta.hash[part]
      BY <1>3, <1>4, <3>3 DEF AnswerInv
    <3>5. Gone(part)'
      BY <1>1, <1>4, <1>5, <3>3, <3>4 DEF Gone
    <3> QED BY <3>5
  <2> QED BY <2>1, <2>2
<1>7. Content(github)' = Content(github)
  BY <1>1 DEF Content
<1> QED BY <1>1, <1>6, <1>7 DEF MetaInv, Gone, Agree

(* What a crawl that was sure has recorded.                                *)
LEMMA SaveRecords ==
  ASSUME TypeOK, PastInv, CrawlInv, NEW c \in Crawlers, Sure(c), Save(c)
  PROVE  /\ Agree(disk', meta'.hash)
         /\ crawl[c].rev = github.rev => meta'.hash = Content(github)
         /\ muddle = 0 \/ Changed(c) => heard = meta'.hash
         /\ meta'.hash.readme = Absent => github.bare
         /\ \A part \in Parts : Tag(c, part) # NoEtag =>
              disk[part] = Tag(c, part) \/ (crawl[c].trusting /\ Tag(c, part) = meta.etags[part])
<1>1. disk' = disk /\ crawl[c].at = "save" /\ meta'.hash = Hash(c)
  BY SaveDoes
<1>2. StartInv(c) /\ AnswerInv(c) /\ WrittenInv(c)
  BY DEF CrawlInv
<1>3. \A part \in Contents : Asked(c, part) /\ Written(c, part)
  BY <1>1 DEF Asked, Written, Stages
<1>4. /\ Hash(c).about = Learnt(c, "about") /\ Hash(c).readme = Learnt(c, "readme")
      /\ Hash(c).tree = Learnt(c, "tree")
  BY <1>1, <1>2, HashIsLearnt DEF Contents
<1>5. \A part \in Parts : Learnt(c, part) = Absent => part = "readme" /\ github.bare
  BY <1>2, <1>3 DEF AnswerInv, Learnt, Contents, Parts, NoEtag, Absent
<1>6. /\ disk.about = Learnt(c, "about")
      /\ \A part \in Parts : disk[part] = Learnt(c, part) \/ Learnt(c, part) = Absent
  BY <1>2, <1>3 DEF WrittenInv, Learnt, Contents, Parts
<1>7. Agree(disk', meta'.hash)
  BY <1>1, <1>4, <1>5, <1>6 DEF Agree, Parts
<1>8. ASSUME crawl[c].rev = github.rev PROVE meta'.hash = Content(github)
  <2>1. \A part \in Contents : Learnt(c, part) = github[part]
    BY <1>2, <1>3, <1>8 DEF AnswerInv
  <2>2. /\ Hash(c).about = github.about /\ Hash(c).readme = github.readme
        /\ Hash(c).tree = github.tree
    BY <1>4, <2>1 DEF Contents
  <2> QED BY <1>1, <2>2 DEF Hash, contentHash, Content
<1>9. muddle = 0 \/ Changed(c) => heard = meta'.hash
  BY <1>1, <1>2 DEF WrittenInv
<1>10. meta'.hash.readme = Absent => github.bare
  BY <1>1, <1>4, <1>5 DEF Parts
<1>11. \A part \in Parts : Tag(c, part) # NoEtag =>
         disk[part] = Tag(c, part) \/ (crawl[c].trusting /\ Tag(c, part) = meta.etags[part])
  <2> SUFFICES ASSUME NEW part \in Parts, Tag(c, part) # NoEtag
               PROVE  disk[part] = Tag(c, part) \/ (crawl[c].trusting /\ Tag(c, part) = meta.etags[part])
    OBVIOUS
  <2>1. CASE crawl[c].answer[part] \in {Same, Absent}
    <3>1. Tag(c, part) = crawl[c].etags[part]
      BY <2>1 DEF Tag
    <3>2. crawl[c].trusting
      BY <1>2, <3>1 DEF StartInv, NoEtags, Parts
    <3> QED BY <1>2, <3>1, <3>2 DEF StartInv
  <2>2. CASE crawl[c].answer[part] \notin {Same, Absent}
    <3>1. Tag(c, part) = Learnt(c, part) /\ Learnt(c, part) # Absent
      BY <2>2 DEF Tag, Learnt, Parts
    <3> QED BY <1>6, <3>1
  <2> QED BY <2>1, <2>2
<1> QED BY <1>7, <1>8, <1>9, <1>10, <1>11

LEMMA SaveKeepsMeta ==
  ASSUME TypeOK, PastInv, AloneInv, CrawlInv, MetaInv, NEW c \in Crawlers, Save(c)
  PROVE  MetaInv'
<1>1. /\ UNCHANGED <<github, disk, heard>> /\ crawl[c].at = "save"
      /\ meta'.hash = Hash(c) /\ meta'.etags.repo = crawl[c].rev
      /\ \A part \in Parts : meta'.etags[part] = Tag(c, part)
      /\ muddle' = (IF crawl[c].alone /\ ~crawl[c].trusting /\ Changed(c) THEN 0 ELSE muddle)
  BY SaveDoes
<1> SUFFICES ASSUME muddle' = 0 PROVE MetaInv'
  BY DEF MetaInv
<1>2. Sure(c) /\ (muddle = 0 \/ Changed(c))
  BY <1>1, SureWhenClear DEF Active, Sure
<1>3. \A part \in Parts :
        meta'.etags[part] # NoEtag /\ github[part] = meta'.etags[part] => disk[part] = meta'.etags[part]
  <2> SUFFICES ASSUME NEW part \in Parts, Tag(c, part) # NoEtag, github[part] = Tag(c, part)
               PROVE  disk[part] = Tag(c, part)
    BY <1>1
  <2>1. CASE crawl[c].trusting /\ Tag(c, part) = meta.etags[part]
    BY <1>2, <2>1 DEF Sure, MetaInv
  <2> QED BY <1>2, <2>1, SaveRecords
<1>4. /\ Agree(disk', meta'.hash)
      /\ crawl[c].rev = github.rev => meta'.hash = Content(github)
      /\ heard = meta'.hash
      /\ meta'.hash.readme = Absent => github.bare
  BY <1>2, SaveRecords
<1>5. Content(github)' = Content(github)
  BY <1>1 DEF Content
<1> QED BY <1>1, <1>3, <1>4, <1>5 DEF MetaInv

LEMMA MetaStep ==
  ASSUME TypeOK, PastInv, AloneInv, CrawlInv, MetaInv, [Next]_vars PROVE MetaInv'
<1>0. muddle \in Nat
  BY DEF TypeOK
<1>1. CASE Change \/ Revert
  BY <1>1, RepositoryKeepsMeta
<1>2. CASE MonthPasses \/ UNCHANGED vars
  <2>1. /\ UNCHANGED <<github, disk, crawl, heard, muddle>>
        /\ meta'.hash = meta.hash /\ meta'.etags = meta.etags
    BY <1>2 DEF MonthPasses, vars, TypeOK
  <2>2. \A c \in Crawlers : \A part \in Contents :
          (Asked(c, part)' <=> Asked(c, part)) /\ Learnt(c, part)' = Learnt(c, part)
    BY <2>1 DEF Asked, Learnt
  <2> QED BY <2>1, <2>2, NothingWritten
<1>3. ASSUME NEW c \in Crawlers, Begin(c) PROVE MetaInv'
  <2> DEFINE others == \E d \in Crawlers \ {c} : Active(d)
  <2>1. /\ UNCHANGED <<github, disk, meta, heard>> /\ crawl'[c].at = "repo"
        /\ muddle' = (IF others THEN muddle + 1 ELSE muddle)
        /\ \A d \in Crawlers \ {c} : crawl'[d].at = crawl[d].at
    BY <1>3, BeginDoes
  <2> SUFFICES ASSUME muddle' = 0 PROVE MetaInv'
    BY DEF MetaInv
  <2>2. ~others /\ muddle = 0
    BY <1>0, <2>1
  <2>3. \A d \in Crawlers : \A part \in Contents : ~Asked(d, part)'
    BY <2>1, <2>2 DEF Asked, Active
  <2> QED BY <2>1, <2>2, <2>3, NothingWritten
<1>4. ASSUME NEW c \in Crawlers, FetchRepo(c), ~Begin(c) PROVE MetaInv'
  <2>1. CASE AskRepo(c)
    <3>1. /\ UNCHANGED <<github, disk, meta, heard, muddle>> /\ Others(c)
          /\ crawl'[c].at = "readme" /\ crawl'[c].about = github.about
      BY <2>1, AskRepoDoes
    <3>2. \A part \in Contents : Asked(c, part)' => Learnt(c, part)' = github[part]
      BY <3>1 DEF Asked, Learnt, Contents
    <3>3. \A d \in Crawlers \ {c} : \A part \in Contents :
            (Asked(d, part)' <=> Asked(d, part)) /\ Learnt(d, part)' = Learnt(d, part)
      BY <3>1 DEF Others, Asked, Learnt
    <3> QED BY <3>1, <3>2, <3>3, NothingWritten
  <2>2. ASSUME NEW part \in Parts, Ask(c, part) PROVE MetaInv'
    <3>1. /\ UNCHANGED <<github, disk, meta, heard, muddle>> /\ Others(c) /\ Keeps(c)
          /\ KeepsDocument(c) /\ crawl[c].at = part
          /\ crawl'[c].at = (IF part = "readme" THEN "tree" ELSE "write")
          /\ crawl'[c].answer[part] =
               (IF github[part] = crawl[c].etags[part] /\ github[part] # Absent
                  THEN Same ELSE github[part])
          /\ \A other \in Parts \ {part} : crawl'[c].answer[other] = crawl[c].answer[other]
      BY <2>2, AskDoes
    <3>2. github[part] # Same
      <4>1. github.readme # Same /\ github.tree # Same
        BY DEF TypeOK, Upto, Revs, Same
      <4> QED BY <4>1 DEF Parts
    <3>3. Learnt(c, part)' = github[part]
      BY <3>1, <3>2 DEF Learnt, Keeps, Parts
    <3>4. \A other \in Contents \ {part} :
            /\ Learnt(c, other)' = Learnt(c, other)
            /\ Asked(c, other)' => Asked(c, other)
      BY <3>1 DEF Learnt, Asked, Keeps, KeepsDocument, Contents, Parts, Stages
    <3>5. \A d \in Crawlers \ {c} : \A other \in Contents :
            (Asked(d, other)' <=> Asked(d, other)) /\ Learnt(d, other)' = Learnt(d, other)
      BY <3>1 DEF Others, Asked, Learnt
    <3> QED BY <3>1, <3>3, <3>4, <3>5, NothingWritten
  <2>3. CASE WriteRepo(c) \/ \E part \in Parts : Write(c, part)
    BY <2>3, WritingKeepsMeta
  <2>4. CASE Announce(c)
    BY <2>4, AnnounceKeepsMeta
  <2>5. CASE Save(c)
    BY <2>5, SaveKeepsMeta
  <2>6. CASE NotModified(c) \/ Skip(c) \/ GiveUp(c)
    <3>1. /\ UNCHANGED <<github, disk, meta, heard, muddle>> /\ Others(c)
          /\ crawl'[c].at = "idle"
      BY <2>6, EndDoes
    <3>2. \A d \in Crawlers : \A part \in Contents : Asked(d, part)' =>
            Asked(d, part) /\ Learnt(d, part)' = Learnt(d, part)
      BY <3>1 DEF Others, Asked, Learnt
    <3> QED BY <3>1, <3>2, NothingWritten
  <2> QED BY <1>4, <2>1, <2>2, <2>3, <2>4, <2>5, <2>6 DEF FetchRepo
<1> QED BY <1>1, <1>2, <1>3, <1>4 DEF Next


-----------------------------------------------------------------------------
THEOREM FetchIsInvariant == Spec => []FetchInv
<1>1. FetchInv /\ [Next]_vars => FetchInv'
  BY TypeStep, PastStep, AloneStep, CrawlStep, MetaStep DEF FetchInv
<1> QED BY InitFetch, <1>1, PTL DEF Spec

(* The file writes and the _fetch.json of a crawl that nobody disturbed.   *)
LEMMA SaveIsOfOneContent ==
  ASSUME FetchInv, NEW c \in Crawlers, Sure(c), Save(c)
  PROVE  /\ Agree(disk', meta'.hash)
         /\ crawl[c].still => meta'.hash = Content(github)
<1>1. StartInv(c) /\ Asked(c, "about")
  BY SaveDoes DEF FetchInv, CrawlInv, Asked, Stages
<1> QED BY <1>1, SaveRecords DEF FetchInv, StartInv

(* A 304 to the document means that the one asked with was recorded, and   *)
(* that _fetch.json was trusted.                                           *)
LEMMA NotModifiedDoes ==
  ASSUME FetchInv, NEW c \in Crawlers, crawl[c].alone, NotModified(c)
  PROVE  /\ UNCHANGED <<github, disk, meta, heard, muddle>>
         /\ (muddle = 0 \/ ~crawl[c].trusting) => muddle = 0 /\ meta.etags.repo = github.rev
<1>1. /\ UNCHANGED <<github, disk, meta, heard, muddle>>
      /\ crawl[c].at = "repo" /\ crawl[c].etags.repo = github.rev
  BY DEF NotModified, DocEtag
<1>2. github.rev # NoEtag
  BY DEF FetchInv, TypeOK, Revs, NoEtag
<1>3. SUFFICES ASSUME muddle = 0 \/ ~crawl[c].trusting
               PROVE  muddle = 0 /\ meta.etags.repo = github.rev
  BY <1>1
<1>4. StartInv(c)
  BY <1>1, <1>3 DEF FetchInv, CrawlInv, Sure, Active
<1>5. crawl[c].trusting
  BY <1>1, <1>2, <1>4 DEF StartInv, NoEtags
<1> QED BY <1>1, <1>3, <1>4, <1>5 DEF StartInv

(* A crawl that completes leaves repo.json, readme.md and tree.json of the *)
(* content whose hash _fetch.json records, and of what GitHub serves if    *)
(* nothing changed meanwhile, whatever crawls died before it (fetch.ts,    *)
(* WRITE ORDERING).                                                        *)
THEOREM ArtifactsAreOfOneContent == Spec => ArtifactsAgree
<1>1. ASSUME FetchInv, NEW c \in Crawlers, Completes(c), Clean(c)
      PROVE  /\ Agree(disk', meta'.hash)
             /\ crawl[c].still => meta'.hash = Content(github)
  <2>1. CASE Save(c)
    <3>1. Sure(c)
      BY <1>1, <2>1, SaveDoes DEF FetchInv, Sure, Clean, Active
    <3> QED BY <1>1, <2>1, <3>1, SaveIsOfOneContent
  <2>2. CASE NotModified(c)
    <3>1. UNCHANGED <<disk, meta>> /\ muddle = 0 /\ meta.etags.repo = github.rev
      BY <1>1, <2>2, NotModifiedDoes DEF Clean
    <3> QED BY <1>1, <3>1 DEF FetchInv, MetaInv, Agree
  <2> QED BY <1>1, <2>1, <2>2 DEF Completes
<1>2. FetchInv => \A c \in Crawlers : Completes(c) /\ Clean(c) =>
                    /\ Agree(disk', meta'.hash)
                    /\ crawl[c].still => meta'.hash = Content(github)
  BY <1>1
<1> QED BY <1>2, FetchIsInvariant, PTL DEF ArtifactsAgree

(* A crawl that completes has told of what it recorded, whether it told so *)
(* itself or an earlier crawl that died before its _fetch.json did         *)
(* (fetch.ts:18-21).                                                       *)
THEOREM AnnouncementsMatch == Spec => ChangesAreAnnounced
<1>1. ASSUME FetchInv, NEW c \in Crawlers, Completes(c), Clean(c)
      PROVE  heard' = meta'.hash
  <2>1. CASE Save(c)
    <3>1. Sure(c) /\ muddle = 0 /\ heard' = heard
      BY <1>1, <2>1, SaveDoes DEF FetchInv, Sure, Clean, Active
    <3> QED BY <1>1, <2>1, <3>1, SaveRecords DEF FetchInv
  <2>2. CASE NotModified(c)
    <3>1. UNCHANGED <<meta, heard>> /\ muddle = 0 /\ meta.etags.repo = github.rev
      BY <1>1, <2>2, NotModifiedDoes DEF Clean
    <3>2. meta.hash = Content(github)
      BY <1>1, <3>1 DEF FetchInv, MetaInv
    <3>3. meta.hash # NoHash
      BY <1>1, <3>2 DEF FetchInv, TypeOK, Revs, Content, NoHash
    <3>4. \A part \in Contents : github[part] = meta.hash[part]
      BY <3>2 DEF Content, Contents
    <3> QED BY <1>1, <3>1, <3>3, <3>4 DEF FetchInv, MetaInv
  <2> QED BY <1>1, <2>1, <2>2 DEF Completes
<1>2. FetchInv => \A c \in Crawlers : Completes(c) /\ Clean(c) => heard' = meta'.hash
  BY <1>1
<1> QED BY <1>2, FetchIsInvariant, PTL DEF ChangesAreAnnounced

(* A crawl over a _fetch.json more than a month old, alone, leaves files   *)
(* and hash of one content whatever confusion came before it               *)
(* (fetch.ts:43-45).                                                       *)
THEOREM OldCachesHeal == Spec => RefreshHeals
<1>1. ASSUME FetchInv, NEW c \in Crawlers, Refreshes(c)
      PROVE  /\ Agree(disk', meta'.hash)
             /\ crawl[c].still => meta'.hash = Content(github)
  <2>1. CASE Save(c)
    <3>1. Sure(c)
      BY <1>1, <2>1, SaveDoes DEF FetchInv, Sure, Refreshes, Active
    <3> QED BY <1>1, <2>1, <3>1, SaveIsOfOneContent
  <2>2. CASE NotModified(c)
    <3>1. UNCHANGED <<disk, meta>> /\ muddle = 0 /\ meta.etags.repo = github.rev
      BY <1>1, <2>2, NotModifiedDoes DEF Refreshes
    <3> QED BY <1>1, <3>1 DEF FetchInv, MetaInv, Agree
  <2> QED BY <1>1, <2>1, <2>2 DEF Refreshes, Completes
<1>2. FetchInv => \A c \in Crawlers : Refreshes(c) =>
                    /\ Agree(disk', meta'.hash)
                    /\ crawl[c].still => meta'.hash = Content(github)
  BY <1>1
<1> QED BY <1>2, FetchIsInvariant, PTL DEF RefreshHeals


-----------------------------------------------------------------------------
(***************************************************************************)
(* Icon: whatever updates were killed, refused or mixed before, one that    *)
(* completes alone leaves the bytes icon.json describes, and one that fails *)
(* leaves the icon there was.                                              *)
(***************************************************************************)

IconSpec == IconInit /\ [][IconNext]_iconVars

Sources == {"null", "repo-logo", "owner-avatar"}
Icons == [source : Sources, of : Images \cup {None}, etag : BOOLEAN, error : BOOLEAN]
Candidates == {NoCandidate} \cup [source : Sources \ {"null"}, url : Urls]
UpdateStages == {"idle", "ask", "fail", "same", "source", "sizes"}

UpdateType ==
  [at : UpdateStages, previous : Icons, candidate : Candidates, image : Images \cup {None},
   tagged : BOOLEAN, left : SUBSET Sizes, alone : BOOLEAN, still : BOOLEAN]

IconTypeOK ==
  /\ offer \in Offers /\ revision \in [Urls -> 1..MaxRevision] /\ moves \in Nat
  /\ cached \subseteq Offers
  /\ src \in Images \cup {None} /\ png \in [Sizes -> Images \cup {None}]
  /\ icon \in Icons /\ update \in [Updaters -> UpdateType]
  /\ past \subseteq Images /\ last \in Images \cup {None} /\ mixed \in BOOLEAN

(* An icon without a source has no image.                                  *)
Sourced(i) == i.source = "null" => i.of = None
SourceInv == Sourced(icon) /\ \A u \in Updaters : Sourced(update[u].previous)

(* An update that is alone has no other beside it, and while nothing is    *)
(* mixed every update is alone.                                            *)
IconAloneInv ==
  \A u \in Updaters : Updating(u) =>
    /\ mixed \/ update[u].alone
    /\ update[u].alone => \A v \in Updaters \ {u} : ~Updating(v)

(* An update has a candidate to ask for, of what the repository offers as  *)
(* long as nothing moves.                                                  *)
Asking(u) == update[u].at \in {"ask", "same", "source", "sizes"}
Answered(u) == update[u].at \in {"same", "source", "sizes"}

CandidateInv ==
  \A u \in Updaters :
    /\ Asking(u) => update[u].candidate # NoCandidate
    /\ Answered(u) => update[u].image # None
    /\ Asking(u) /\ update[u].still => update[u].candidate = Candidate(offer)
    /\ Answered(u) /\ update[u].still =>
         update[u].image = <<update[u].candidate.url, revision[update[u].candidate.url]>>

(* An update that is alone works with the icon.json there is, and with the *)
(* image that was asked for last, of which it has written what it says.    *)
WorkInv ==
  \A u \in Updaters : Updating(u) /\ update[u].alone =>
    /\ update[u].previous = icon
    /\ Answered(u) => update[u].image = last
    /\ update[u].at = "same" => update[u].image = icon.of
    /\ update[u].at = "sizes" =>
         src = update[u].image /\ \A s \in Sizes \ update[u].left : png[s] = update[u].image

LeftInv == \A u \in Updaters : update[u].at # "sizes" => update[u].left = Sizes

(* While no earlier image has come back, the files are of the image that   *)
(* icon.json describes as long as no other has been asked for.             *)
FilesInv ==
  ~mixed =>
    /\ icon.of # None => icon.of \in past
    /\ last = icon.of => src = icon.of /\ \A s \in Sizes : png[s] = icon.of

IconInv == IconTypeOK /\ SourceInv /\ IconAloneInv /\ CandidateInv /\ LeftInv /\ WorkInv /\ FilesInv


-----------------------------------------------------------------------------
LEMMA CandidateType == ASSUME NEW o \in Offers PROVE Candidate(o) \in Candidates
<1> DEFINE inTree(path) == path \in o.paths
           shown(i) == ~BadgeRow(o, i) /\ i.fit
           logo == First(TreeCandidates, inTree)
           image == {i.url : i \in First(o.images, shown)}
<1>1. \A url \in logo : url # NoUrl
  BY IconAssumption DEF First
<1>2. \A url \in image : url # NoUrl
  BY IconAssumption DEF First
<1>3. Candidate(o) =
        (IF logo # {} THEN [source |-> "repo-logo", url |-> CHOOSE u \in logo : TRUE]
         ELSE IF image # {} THEN [source |-> "repo-logo", url |-> CHOOSE u \in image : TRUE]
         ELSE IF o.avatar = NoUrl THEN NoCandidate
         ELSE [source |-> "owner-avatar", url |-> o.avatar])
  BY DEF Candidate
<1> HIDE DEF logo, image
<1>4. \/ Candidate(o) = NoCandidate
      \/ /\ Candidate(o).source \in Sources \ {"null"} /\ Candidate(o).url # NoUrl
         /\ Candidate(o) = [source |-> Candidate(o).source, url |-> Candidate(o).url]
  <2>1. CASE logo # {}
    BY <1>1, <1>3, <2>1 DEF Sources
  <2>2. CASE logo = {} /\ image # {}
    BY <1>2, <1>3, <2>2 DEF Sources
  <2>3. CASE logo = {} /\ image = {}
    BY <1>3, <2>3 DEF Sources
  <2> QED BY <2>1, <2>2, <2>3
<1> QED BY <1>4 DEF Candidates, Urls

LEMMA NoneIsNoImage == None \notin Images
BY DEF None, Images

LEMMA ImageType ==
  ASSUME IconTypeOK, NEW c \in Candidates, c # NoCandidate
  PROVE  c.url \in Urls /\ <<c.url, revision[c.url]>> \in Images
BY DEF Candidates, Images, IconTypeOK

LEMMA NoIconType == NoIcon \in Icons /\ Sourced(NoIcon)
BY DEF NoIcon, Icons, Sources, Sourced

LEMMA RestingType == Resting \in UpdateType
BY NoIconType DEF Resting, UpdateType, UpdateStages, Candidates

LEMMA IconInitInv == IconInit => IconInv
<1> SUFFICES ASSUME IconInit PROVE IconInv
  OBVIOUS
<1>1. IconTypeOK
  <2>1. revision \in [Urls -> 1..MaxRevision]
    BY IconAssumption DEF IconInit
  <2>2. update \in [Updaters -> UpdateType] /\ png \in [Sizes -> Images \cup {None}]
    BY RestingType DEF IconInit
  <2> QED BY <2>1, <2>2, NoIconType DEF IconInit, IconTypeOK
<1>2. icon = NoIcon /\ \A u \in Updaters : update[u] = Resting
  BY DEF IconInit
<1>3. Resting.at = "idle" /\ Resting.left = Sizes /\ Resting.previous = NoIcon /\ NoIcon.of = None
  BY DEF Resting, NoIcon
<1>4. SourceInv
  BY <1>2, <1>3, NoIconType DEF SourceInv
<1>5. FilesInv
  BY <1>2, <1>3 DEF IconInit, FilesInv
<1> QED BY <1>1, <1>2, <1>3, <1>4, <1>5
        DEF IconInv, IconAloneInv, CandidateInv, LeftInv, WorkInv, Updating, Asking, Answered

-----------------------------------------------------------------------------
(* What each action does to the update that takes it, and that the others  *)
(* stay as they are.                                                       *)
OtherUpdates(u) == \A v \in Updaters \ {u} : update'[v] = update[v]
IconKeeps(u) == /\ update'[u].previous = update[u].previous /\ update'[u].candidate = update[u].candidate
            /\ update'[u].alone = update[u].alone /\ update'[u].still = update[u].still


LEMMA MoveDoes ==
  ASSUME IconTypeOK, Move
  PROVE  /\ IconTypeOK'
         /\ UNCHANGED <<cached, src, png, icon, past, last, mixed>>
         /\ \A u \in Updaters :
              /\ update'[u].at = update[u].at /\ update'[u].previous = update[u].previous
              /\ update'[u].candidate = update[u].candidate /\ update'[u].image = update[u].image
              /\ update'[u].left = update[u].left /\ update'[u].alone = update[u].alone
              /\ Updating(u) => ~update'[u].still
<1>1. UNCHANGED <<cached, src, png, icon, past, last, mixed>>
  BY DEF Move, ghosts
<1>2. /\ offer' \in Offers /\ revision' \in [Urls -> 1..MaxRevision] /\ moves' \in Nat
  BY DEF Move, IconTypeOK
<1>3. update' = [u \in Updaters |-> IF Updating(u) THEN [update[u] EXCEPT !.still = FALSE] ELSE update[u]]
  BY DEF Move
<1>4. \A u \in Updaters : update[u] \in UpdateType
  BY DEF IconTypeOK
<1>5. \A u \in Updaters :
        /\ update'[u] \in UpdateType
        /\ update'[u].at = update[u].at /\ update'[u].previous = update[u].previous
        /\ update'[u].candidate = update[u].candidate /\ update'[u].image = update[u].image
        /\ update'[u].left = update[u].left /\ update'[u].alone = update[u].alone
        /\ Updating(u) => ~update'[u].still
  BY <1>3, <1>4 DEF UpdateType
<1>6. update' \in [Updaters -> UpdateType]
  BY <1>3, <1>5
<1> QED BY <1>1, <1>2, <1>5, <1>6 DEF IconTypeOK

LEMMA BeginUpdateDoes ==
  ASSUME IconTypeOK, NEW u \in Updaters, BeginUpdate(u)
  PROVE  LET others == {v \in Updaters \ {u} : Updating(v)}
             new == update'[u]
         IN  /\ IconTypeOK'
             /\ UNCHANGED <<offer, revision, moves, src, png, icon, past, last>> /\ ~Updating(u)
             /\ mixed' = (mixed \/ others # {})
             /\ new.at \in {"ask", "fail"} /\ new.previous = icon /\ new.alone = (others = {})
             /\ new.at = "ask" => new.candidate # NoCandidate
             /\ new.still => new.candidate = Candidate(offer)
             /\ new.left = Sizes
             /\ \A v \in Updaters \ {u} :
                  /\ v \notin others => update'[v] = update[v]
                  /\ v \in others => update'[v] = [update[v] EXCEPT !.alone = FALSE]
<1> DEFINE inputs == IF u = Operator /\ cached # {} THEN CHOOSE o \in cached : TRUE ELSE offer
           candidate == Candidate(inputs)
           others == {v \in Updaters \ {u} : Updating(v)}
           new == [Resting EXCEPT !.at = IF candidate = NoCandidate THEN "fail" ELSE "ask",
                                  !.previous = icon, !.candidate = candidate,
                                  !.alone = (others = {}), !.still = (inputs = offer)]
<1>1. /\ UNCHANGED <<offer, revision, moves, src, png, icon, past, last>> /\ ~Updating(u)
      /\ mixed' = (mixed \/ others # {})
      /\ cached' = (IF u = Operator THEN cached ELSE {inputs})
      /\ update' = [v \in Updaters |-> IF v = u THEN new
                      ELSE IF v \in others THEN [update[v] EXCEPT !.alone = FALSE] ELSE update[v]]
  BY DEF BeginUpdate, world
<1>2. inputs \in Offers
  BY DEF IconTypeOK
<1> HIDE DEF inputs
<1>3. candidate \in Candidates
  BY <1>2, CandidateType
<1>4. inputs = offer => candidate = Candidate(offer)
  OBVIOUS
<1> HIDE DEF candidate, others
<1>5. /\ new \in UpdateType /\ new.at \in {"ask", "fail"} /\ new.previous = icon
      /\ new.alone = (others = {}) /\ (new.at = "ask" => candidate # NoCandidate)
      /\ new.candidate = candidate /\ new.still = (inputs = offer) /\ new.left = Sizes
  BY <1>3, RestingType DEF Resting, UpdateType, IconTypeOK, UpdateStages
<1> HIDE DEF new
<1>6. update'[u] = new
  BY <1>1
<1>7. \A v \in Updaters \ {u} :
        /\ v \notin others => update'[v] = update[v]
        /\ v \in others => update'[v] = [update[v] EXCEPT !.alone = FALSE]
  BY <1>1
<1>8. \A v \in Updaters : update'[v] \in UpdateType
  <2>1. \A v \in Updaters : [update[v] EXCEPT !.alone = FALSE] \in UpdateType
    BY DEF IconTypeOK, UpdateType
  <2> QED BY <1>5, <1>6, <1>7, <2>1 DEF IconTypeOK
<1>9. update' \in [Updaters -> UpdateType]
  BY <1>1, <1>8
<1>10. IconTypeOK'
  BY <1>1, <1>2, <1>9 DEF IconTypeOK
<1> QED BY <1>1, <1>4, <1>5, <1>6, <1>7, <1>10 DEF others

LEMMA TurnType ==
  ASSUME IconTypeOK, NEW u \in Updaters, NEW new \in UpdateType,
         update' = [update EXCEPT ![u] = new]
  PROVE  /\ update' \in [Updaters -> UpdateType] /\ OtherUpdates(u) /\ update'[u] = new
BY DEF IconTypeOK, OtherUpdates


LEMMA AskImageDoes ==
  ASSUME IconTypeOK, CandidateInv, NEW u \in Updaters, AskImage(u)
  PROVE  /\ IconTypeOK' /\ OtherUpdates(u) /\ IconKeeps(u)
         /\ UNCHANGED <<offer, revision, src, png, icon>>
         /\ update[u].at = "ask" /\ update'[u].at \in {"same", "source"}
         /\ update'[u].left = update[u].left
         /\ update'[u].image = <<update[u].candidate.url, revision[update[u].candidate.url]>>
         /\ update'[u].image # None
         /\ update'[u].at = "same" => update'[u].image = update[u].previous.of
         /\ past' = past \cup {update'[u].image} /\ last' = update'[u].image
         /\ mixed' = (mixed \/ (update'[u].image \in past /\ update'[u].image # last))
<1> DEFINE image == <<update[u].candidate.url, revision[update[u].candidate.url]>>
           same == Conditional(u) /\ image = update[u].previous.of
<1>1. /\ UNCHANGED <<offer, revision, moves, cached, src, png, icon>> /\ update[u].at = "ask"
      /\ past' = past \cup {image} /\ last' = image
      /\ mixed' = (mixed \/ (image \in past /\ image # last))
  BY DEF AskImage, Seen, world
<1>2. PICK tagged \in BOOLEAN :
        update' = [update EXCEPT ![u] = [update[u] EXCEPT !.at = IF same THEN "same" ELSE "source",
                                                          !.image = image, !.tagged = tagged]]
  BY Zenon DEF AskImage
<1>3. update[u] \in UpdateType
  BY DEF IconTypeOK
<1>4. image \in Images
  BY <1>1, <1>3, ImageType DEF CandidateInv, Asking, UpdateType
<1> DEFINE new == [update[u] EXCEPT !.at = IF same THEN "same" ELSE "source",
                                    !.image = image, !.tagged = tagged]
<1> HIDE DEF image
<1>5. /\ new \in UpdateType /\ new.at \in {"same", "source"} /\ new.image = image
      /\ (new.at = "same" => same)
      /\ new.previous = update[u].previous /\ new.candidate = update[u].candidate
      /\ new.alone = update[u].alone /\ new.still = update[u].still /\ new.left = update[u].left
  BY <1>3, <1>4 DEF UpdateType, UpdateStages
<1> HIDE DEF new
<1>6. update' \in [Updaters -> UpdateType] /\ OtherUpdates(u) /\ update'[u] = new
  BY <1>2, <1>5, TurnType DEF new
<1>7. IconTypeOK'
  BY <1>1, <1>4, <1>6 DEF IconTypeOK
<1> QED BY <1>1, <1>4, <1>5, <1>6, <1>7, NoneIsNoImage DEF IconKeeps, image

LEMMA FailsDoes ==
  ASSUME IconTypeOK, NEW u \in Updaters, AskImageFails(u)
  PROVE  /\ IconTypeOK' /\ OtherUpdates(u) /\ IconKeeps(u)
         /\ UNCHANGED <<offer, revision, src, png, icon, past, last, mixed>>
         /\ update[u].at = "ask" /\ update'[u].at = "fail" /\ update'[u].left = update[u].left
<1> DEFINE new == [update[u] EXCEPT !.at = "fail"]
<1>1. /\ UNCHANGED <<offer, revision, moves, cached, src, png, icon, past, last, mixed>>
      /\ update[u].at = "ask" /\ update' = [update EXCEPT ![u] = new]
  BY DEF AskImageFails, world, ghosts
<1>2. new \in UpdateType /\ new.at = "fail" /\ new.previous = update[u].previous
      /\ new.candidate = update[u].candidate /\ new.alone = update[u].alone
      /\ new.still = update[u].still /\ new.left = update[u].left
  BY DEF IconTypeOK, UpdateType, UpdateStages
<1> HIDE DEF new
<1>3. update' \in [Updaters -> UpdateType] /\ OtherUpdates(u) /\ update'[u] = new
  BY <1>1, <1>2, TurnType
<1> QED BY <1>1, <1>2, <1>3 DEF IconKeeps, IconTypeOK

LEMMA PutSourceDoes ==
  ASSUME IconTypeOK, NEW u \in Updaters, PutSource(u)
  PROVE  /\ IconTypeOK' /\ OtherUpdates(u) /\ IconKeeps(u)
         /\ UNCHANGED <<offer, revision, png, icon, past, last, mixed>>
         /\ update[u].at = "source" /\ update'[u].at = "sizes" /\ src' = update[u].image
         /\ update'[u].image = update[u].image /\ update'[u].left = update[u].left
<1> DEFINE new == [update[u] EXCEPT !.at = "sizes"]
<1>1. /\ UNCHANGED <<offer, revision, moves, cached, png, icon, past, last, mixed>>
      /\ update[u].at = "source" /\ update' = [update EXCEPT ![u] = new] /\ src' = update[u].image
  BY DEF PutSource, world, ghosts
<1>2. new \in UpdateType /\ new.at = "sizes" /\ new.previous = update[u].previous
      /\ new.candidate = update[u].candidate /\ new.alone = update[u].alone
      /\ new.still = update[u].still /\ new.image = update[u].image /\ new.left = update[u].left
      /\ update[u].image \in Images \cup {None}
  BY DEF IconTypeOK, UpdateType, UpdateStages
<1> HIDE DEF new
<1>3. update' \in [Updaters -> UpdateType] /\ OtherUpdates(u) /\ update'[u] = new
  BY <1>1, <1>2, TurnType
<1> QED BY <1>1, <1>2, <1>3 DEF IconKeeps, IconTypeOK

LEMMA PutSizeDoes ==
  ASSUME IconTypeOK, NEW u \in Updaters, PutSize(u)
  PROVE  /\ IconTypeOK' /\ OtherUpdates(u) /\ IconKeeps(u)
         /\ UNCHANGED <<offer, revision, src, icon, past, last, mixed>>
         /\ update[u].at = "sizes" /\ update'[u].at = "sizes"
         /\ update'[u].image = update[u].image
         /\ \E s \in Sizes : /\ update'[u].left = update[u].left \ {s}
                             /\ png'[s] = update[u].image
                             /\ \A t \in Sizes \ {s} : png'[t] = png[t]
<1>1. /\ UNCHANGED <<offer, revision, moves, cached, src, icon, past, last, mixed>>
      /\ update[u].at = "sizes" /\ update[u] \in UpdateType
  BY DEF PutSize, world, ghosts, IconTypeOK
<1>2. PICK s \in update[u].left :
        /\ png' = [png EXCEPT ![s] = update[u].image]
        /\ update' = [update EXCEPT ![u] = [update[u] EXCEPT !.left = @ \ {s}]]
  BY Zenon DEF PutSize
<1> DEFINE new == [update[u] EXCEPT !.left = @ \ {s}]
<1>3. new \in UpdateType /\ new.at = update[u].at /\ new.previous = update[u].previous
      /\ new.candidate = update[u].candidate /\ new.alone = update[u].alone
      /\ new.still = update[u].still /\ new.image = update[u].image /\ new.left = update[u].left \ {s}
      /\ update[u].image \in Images \cup {None} /\ s \in Sizes
  BY <1>1 DEF UpdateType
<1> HIDE DEF new
<1>4. update' \in [Updaters -> UpdateType] /\ OtherUpdates(u) /\ update'[u] = new
  BY <1>2, <1>3, TurnType DEF new
<1>5. /\ png' \in [Sizes -> Images \cup {None}] /\ png'[s] = update[u].image
      /\ \A t \in Sizes \ {s} : png'[t] = png[t]
  BY <1>2, <1>3 DEF IconTypeOK
<1>6. IconTypeOK'
  BY <1>1, <1>4, <1>5 DEF IconTypeOK
<1> QED BY <1>1, <1>3, <1>4, <1>5, <1>6 DEF IconKeeps

(* PutMeta, IconNotModified, Fail and UpdateDies end the update.           *)
LEMMA EndsDoes ==
  ASSUME IconTypeOK, NEW u \in Updaters, Ends(u)
  PROVE  update' \in [Updaters -> UpdateType] /\ OtherUpdates(u) /\ update'[u].at = "idle"
         /\ update'[u].left = Sizes /\ update'[u].previous = NoIcon
BY TurnType, RestingType DEF Ends, Resting

LEMMA PutMetaDoes ==
  ASSUME IconTypeOK, CandidateInv, NEW u \in Updaters, PutMeta(u)
  PROVE  /\ IconTypeOK' /\ UNCHANGED <<offer, revision, src, png>>
         /\ update[u].at = "sizes" /\ update[u].left = {}
         /\ icon'.of = update[u].image /\ Sourced(icon')
         /\ update[u].alone => past' = {update[u].image} /\ last' = update[u].image /\ ~mixed'
         /\ ~update[u].alone => UNCHANGED <<past, last, mixed>>
<1>1. /\ UNCHANGED <<offer, revision, moves, cached, src, png>> /\ Ends(u)
      /\ update[u].at = "sizes" /\ update[u].left = {} /\ icon' = Described(u)
      /\ update[u].alone => past' = {update[u].image} /\ last' = update[u].image /\ mixed' = FALSE
      /\ ~update[u].alone => UNCHANGED <<past, last, mixed>>
  BY DEF PutMeta, Whole, world, ghosts
<1>2. update[u] \in UpdateType /\ update[u].candidate # NoCandidate /\ update[u].image \in Images
  BY <1>1 DEF IconTypeOK, CandidateInv, Asking, Answered, UpdateType
<1>3. update[u].candidate.source \in Sources \ {"null"}
  BY <1>2 DEF UpdateType, Candidates
<1>4. icon' \in Icons /\ icon'.of = update[u].image /\ Sourced(icon')
  BY <1>1, <1>2, <1>3 DEF Described, Icons, Sourced, UpdateType
<1> QED BY <1>1, <1>2, <1>4, EndsDoes DEF IconTypeOK


LEMMA OtherEndings ==
  ASSUME IconTypeOK, SourceInv, NEW u \in Updaters,
         IconNotModified(u) \/ Fail(u) \/ UpdateDies(u)
  PROVE  /\ IconTypeOK' /\ UNCHANGED <<offer, revision, src, png, past, last, mixed>>
         /\ Ends(u) /\ Updating(u) /\ Sourced(icon')
         /\ update[u].previous = icon => icon'.of = icon.of
<1>1. /\ UNCHANGED <<offer, revision, moves, cached, src, png, past, last, mixed>>
      /\ Ends(u) /\ Updating(u)
  BY DEF IconNotModified, Fail, UpdateDies, world, ghosts, Updating
<1>2. /\ update[u].previous \in Icons /\ icon \in Icons /\ NoIcon \in Icons
      /\ Sourced(update[u].previous) /\ Sourced(icon) /\ Sourced(NoIcon)
  BY NoIconType DEF IconTypeOK, UpdateType, SourceInv
<1>3. icon' \in Icons /\ Sourced(icon') /\ (update[u].previous = icon => icon'.of = icon.of)
  <2>1. CASE IconNotModified(u)
    BY <1>2, <2>1 DEF IconNotModified, Icons, Sourced
  <2>2. CASE Fail(u)
    BY <1>2, <2>2 DEF Fail, Icons, Sourced, NoIcon
  <2>3. CASE UpdateDies(u)
    BY <1>2, <2>3 DEF UpdateDies
  <2> QED BY <2>1, <2>2, <2>3
<1> QED BY <1>1, <1>3, EndsDoes DEF IconTypeOK

-----------------------------------------------------------------------------
(* What an update does while another is under way leaves the other's part  *)
(* of the invariant alone, because no more than one of them is alone.      *)
LEMMA OneIsAlone ==
  ASSUME IconAloneInv, NEW u \in Updaters, Updating(u), NEW v \in Updaters \ {u}
  PROVE  ~(Updating(v) /\ update[v].alone)
BY DEF IconAloneInv

LEMMA MoveKeeps == ASSUME IconInv, Move PROVE IconInv'
<1> USE DEF IconInv
<1>1. /\ IconTypeOK' /\ UNCHANGED <<cached, src, png, icon, past, last, mixed>>
      /\ \A u \in Updaters :
           /\ update'[u].at = update[u].at /\ update'[u].previous = update[u].previous
           /\ update'[u].candidate = update[u].candidate /\ update'[u].image = update[u].image
           /\ update'[u].left = update[u].left /\ update'[u].alone = update[u].alone
           /\ Updating(u) => ~update'[u].still
  BY MoveDoes
<1>2. SourceInv'
  BY <1>1 DEF SourceInv
<1>3. IconAloneInv'
  BY <1>1 DEF IconAloneInv, Updating
<1>4. CandidateInv' /\ LeftInv'
  BY <1>1 DEF CandidateInv, LeftInv, Asking, Answered, Updating
<1>5. WorkInv'
  BY <1>1 DEF WorkInv, Answered, Updating
<1>6. FilesInv'
  BY <1>1 DEF FilesInv
<1> QED BY <1>1, <1>2, <1>3, <1>4, <1>5, <1>6

LEMMA BeginUpdateKeeps ==
  ASSUME IconInv, NEW u \in Updaters, BeginUpdate(u) PROVE IconInv'
<1> USE DEF IconInv
<1> DEFINE others == {v \in Updaters \ {u} : Updating(v)}
<1>1. /\ IconTypeOK'
      /\ UNCHANGED <<offer, revision, moves, src, png, icon, past, last>> /\ ~Updating(u)
      /\ mixed' = (mixed \/ others # {})
      /\ update'[u].at \in {"ask", "fail"} /\ update'[u].previous = icon
      /\ update'[u].alone = (others = {})
      /\ update'[u].at = "ask" => update'[u].candidate # NoCandidate
      /\ update'[u].still => update'[u].candidate = Candidate(offer)
      /\ update'[u].left = Sizes
      /\ \A v \in Updaters \ {u} :
           /\ v \notin others => update'[v] = update[v]
           /\ v \in others => update'[v] = [update[v] EXCEPT !.alone = FALSE]
  BY BeginUpdateDoes
<1>2. \A v \in Updaters \ {u} :
        /\ update'[v].at = update[v].at /\ update'[v].previous = update[v].previous
        /\ update'[v].candidate = update[v].candidate /\ update'[v].image = update[v].image
        /\ update'[v].still = update[v].still /\ update'[v].left = update[v].left
        /\ Updating(v) => ~update'[v].alone /\ others # {}
  <2> SUFFICES ASSUME NEW v \in Updaters \ {u}
               PROVE  /\ update'[v].at = update[v].at /\ update'[v].previous = update[v].previous
                      /\ update'[v].candidate = update[v].candidate
                      /\ update'[v].image = update[v].image /\ update'[v].still = update[v].still
                      /\ update'[v].left = update[v].left
                      /\ Updating(v) => ~update'[v].alone /\ others # {}
    OBVIOUS
  <2>1. update[v] \in UpdateType
    BY DEF IconTypeOK
  <2>2. CASE v \in others
    BY <1>1, <2>1, <2>2 DEF UpdateType
  <2>3. CASE v \notin others
    BY <1>1, <2>3
  <2> QED BY <2>2, <2>3
<1>3. SourceInv'
  BY <1>1, <1>2 DEF SourceInv
<1>4. \A v \in Updaters : Updating(v)' <=> (v = u \/ Updating(v))
  BY <1>1, <1>2 DEF Updating
<1>5. IconAloneInv'
  BY <1>1, <1>2, <1>4 DEF IconAloneInv
<1>6. CandidateInv' /\ LeftInv'
  BY <1>1, <1>2 DEF CandidateInv, LeftInv, Asking, Answered
<1>7. WorkInv'
  BY <1>1, <1>2, <1>4 DEF WorkInv, Answered
<1>8. FilesInv'
  BY <1>1 DEF FilesInv
<1> QED BY <1>1, <1>3, <1>5, <1>6, <1>7, <1>8

LEMMA AskImageKeeps ==
  ASSUME IconInv, NEW u \in Updaters, AskImage(u) \/ AskImageFails(u) PROVE IconInv'
<1> USE DEF IconInv
<1>1. /\ IconTypeOK' /\ OtherUpdates(u) /\ IconKeeps(u) /\ UNCHANGED <<offer, revision, src, png, icon>>
      /\ update[u].at = "ask" /\ update'[u].at \in {"same", "source", "fail"}
      /\ update'[u].left = update[u].left
      /\ mixed => mixed'
  BY AskImageDoes, FailsDoes
<1>2. SourceInv' /\ LeftInv'
  BY <1>1 DEF SourceInv, LeftInv, OtherUpdates, IconKeeps
<1>3. \A v \in Updaters : (Updating(v)' <=> Updating(v)) /\ update'[v].alone = update[v].alone
  BY <1>1 DEF Updating, OtherUpdates, IconKeeps
<1>4. IconAloneInv'
  BY <1>1, <1>3 DEF IconAloneInv
<1>5. \A v \in Updaters \ {u} : ~(Updating(v) /\ update[v].alone)
  BY <1>1, OneIsAlone DEF Updating
<1>6. CASE AskImageFails(u)
  <2>1. /\ UNCHANGED <<past, last, mixed>> /\ update'[u].at = "fail"
    BY <1>6, FailsDoes
  <2>2. CandidateInv'
    BY <1>1, <2>1 DEF CandidateInv, Asking, Answered, OtherUpdates
  <2>3. WorkInv'
    BY <1>1, <1>3, <1>5, <2>1 DEF WorkInv, Answered, IconKeeps, Updating
  <2>4. FilesInv'
    BY <1>1, <2>1 DEF FilesInv
  <2> QED BY <1>1, <1>2, <1>4, <2>2, <2>3, <2>4
<1>7. CASE AskImage(u)
  <2> DEFINE image == update'[u].image
  <2>1. /\ image = <<update[u].candidate.url, revision[update[u].candidate.url]>>
        /\ image # None
        /\ update'[u].at = "same" => image = update[u].previous.of
        /\ update'[u].at \in {"same", "source"}
        /\ past' = past \cup {image} /\ last' = image
        /\ mixed' = (mixed \/ (image \in past /\ image # last))
    BY <1>7, AskImageDoes
  <2>2. CandidateInv'
    BY <1>1, <2>1 DEF CandidateInv, Asking, Answered, OtherUpdates, IconKeeps
  <2>3. WorkInv'
    BY <1>1, <1>3, <1>5, <2>1 DEF WorkInv, Answered, IconKeeps, Updating
  <2>4. FilesInv'
    BY <1>1, <2>1 DEF FilesInv
  <2> QED BY <1>1, <1>2, <1>4, <2>2, <2>3, <2>4
<1> QED BY <1>6, <1>7


LEMMA PutSourceKeeps ==
  ASSUME IconInv, NEW u \in Updaters, PutSource(u) PROVE IconInv'
<1> USE DEF IconInv
<1>1. /\ IconTypeOK' /\ OtherUpdates(u) /\ IconKeeps(u)
      /\ UNCHANGED <<offer, revision, png, icon, past, last, mixed>>
      /\ update[u].at = "source" /\ update'[u].at = "sizes" /\ src' = update[u].image
      /\ update'[u].image = update[u].image /\ update'[u].left = update[u].left
  BY PutSourceDoes
<1>2. \A v \in Updaters : (Updating(v)' <=> Updating(v)) /\ update'[v].alone = update[v].alone
  BY <1>1 DEF Updating, OtherUpdates, IconKeeps
<1>3. \A v \in Updaters \ {u} : ~(Updating(v) /\ update[v].alone)
  BY <1>1, OneIsAlone DEF Updating
<1>4. SourceInv' /\ IconAloneInv'
  BY <1>1, <1>2 DEF SourceInv, IconAloneInv, OtherUpdates, IconKeeps
<1>5. CandidateInv'
  BY <1>1 DEF CandidateInv, Asking, Answered, OtherUpdates, IconKeeps
<1>6. update[u].left = Sizes
  BY <1>1 DEF LeftInv
<1>7. WorkInv'
  BY <1>1, <1>2, <1>3, <1>6 DEF WorkInv, Answered, IconKeeps, Updating
<1>8. FilesInv'
  <2> SUFFICES ASSUME ~mixed PROVE FilesInv'
    BY <1>1 DEF FilesInv
  <2>1. update[u].image = last
    BY <1>1 DEF IconAloneInv, WorkInv, Updating, Answered
  <2> QED BY <1>1, <2>1 DEF FilesInv
<1>9. LeftInv'
  BY <1>1 DEF LeftInv, OtherUpdates
<1> QED BY <1>1, <1>4, <1>5, <1>7, <1>8, <1>9

LEMMA PutSizeKeeps ==
  ASSUME IconInv, NEW u \in Updaters, PutSize(u) PROVE IconInv'
<1> USE DEF IconInv
<1>1. /\ IconTypeOK' /\ OtherUpdates(u) /\ IconKeeps(u)
      /\ UNCHANGED <<offer, revision, src, icon, past, last, mixed>>
      /\ update[u].at = "sizes" /\ update'[u].at = "sizes"
      /\ update'[u].image = update[u].image
  BY PutSizeDoes
<1>2. PICK s \in Sizes : /\ update'[u].left = update[u].left \ {s} /\ png'[s] = update[u].image
                         /\ \A t \in Sizes \ {s} : png'[t] = png[t]
  BY PutSizeDoes
<1>3. \A v \in Updaters : (Updating(v)' <=> Updating(v)) /\ update'[v].alone = update[v].alone
  BY <1>1 DEF Updating, OtherUpdates, IconKeeps
<1>4. \A v \in Updaters \ {u} : ~(Updating(v) /\ update[v].alone)
  BY <1>1, OneIsAlone DEF Updating
<1>5. SourceInv' /\ IconAloneInv'
  BY <1>1, <1>3 DEF SourceInv, IconAloneInv, OtherUpdates, IconKeeps
<1>6. CandidateInv' /\ LeftInv'
  BY <1>1 DEF CandidateInv, LeftInv, Asking, Answered, OtherUpdates, IconKeeps
<1>7. WorkInv'
  BY <1>1, <1>2, <1>3, <1>4 DEF WorkInv, Answered, IconKeeps, Updating
<1>8. FilesInv'
  <2> SUFFICES ASSUME ~mixed PROVE FilesInv'
    BY <1>1 DEF FilesInv
  <2>1. update[u].image = last
    BY <1>1 DEF IconAloneInv, WorkInv, Updating, Answered
  <2> QED BY <1>1, <1>2, <2>1 DEF FilesInv
<1> QED BY <1>1, <1>5, <1>6, <1>7, <1>8

(* An update that ends changes icon.json at most, and leaves nobody beside *)
(* it alone.                                                               *)
LEMMA EndingKeeps ==
  ASSUME IconInv, NEW u \in Updaters, Updating(u), Ends(u), IconTypeOK',
         UNCHANGED <<offer, revision, src, png>>, Sourced(icon'), FilesInv',
         mixed => mixed' \/ update[u].alone
  PROVE  IconInv'
<1> USE DEF IconInv
<1>1. /\ OtherUpdates(u) /\ update'[u].at = "idle" /\ update'[u].left = Sizes
      /\ update'[u].previous = NoIcon /\ Sourced(NoIcon)
  BY EndsDoes, NoIconType
<1>2. SourceInv'
  BY <1>1 DEF SourceInv, OtherUpdates, Sourced
<1>3. \A v \in Updaters : Updating(v)' <=> (v # u /\ Updating(v))
  BY <1>1 DEF Updating, OtherUpdates
<1>4. IconAloneInv'
  BY <1>1, <1>3 DEF IconAloneInv, OtherUpdates
<1>5. CandidateInv' /\ LeftInv'
  BY <1>1 DEF CandidateInv, LeftInv, Asking, Answered, OtherUpdates
<1>6. WorkInv'
  BY <1>1, <1>3, OneIsAlone DEF WorkInv, OtherUpdates
<1> QED BY <1>2, <1>4, <1>5, <1>6

LEMMA PutMetaKeeps ==
  ASSUME IconInv, NEW u \in Updaters, PutMeta(u) PROVE IconInv'
<1> USE DEF IconInv
<1>1. /\ IconTypeOK' /\ UNCHANGED <<offer, revision, src, png>> /\ Ends(u)
      /\ update[u].at = "sizes" /\ update[u].left = {}
      /\ icon'.of = update[u].image /\ Sourced(icon')
      /\ update[u].alone => past' = {update[u].image} /\ last' = update[u].image /\ ~mixed'
      /\ ~update[u].alone => UNCHANGED <<past, last, mixed>>
  BY PutMetaDoes DEF PutMeta
<1>2. CASE update[u].alone
  <2>1. src = update[u].image /\ \A s \in Sizes : png[s] = update[u].image
    BY <1>1, <1>2 DEF WorkInv, Updating
  <2>2. FilesInv'
    BY <1>1, <1>2, <2>1 DEF FilesInv
  <2> QED BY <1>1, <1>2, <2>2, EndingKeeps DEF Updating
<1>3. CASE ~update[u].alone
  <2>1. mixed
    BY <1>1, <1>3 DEF IconAloneInv, Updating
  <2>2. FilesInv'
    BY <1>1, <1>3, <2>1 DEF FilesInv
  <2> QED BY <1>1, <1>3, <2>1, <2>2, EndingKeeps DEF Updating
<1> QED BY <1>2, <1>3

LEMMA OtherEndingsKeep ==
  ASSUME IconInv, NEW u \in Updaters, IconNotModified(u) \/ Fail(u) \/ UpdateDies(u)
  PROVE  IconInv'
<1> USE DEF IconInv
<1>1. /\ IconTypeOK' /\ UNCHANGED <<offer, revision, src, png, past, last, mixed>>
      /\ Ends(u) /\ Updating(u) /\ Sourced(icon')
      /\ update[u].previous = icon => icon'.of = icon.of
  BY OtherEndings
<1>2. FilesInv'
  <2> SUFFICES ASSUME ~mixed PROVE FilesInv'
    BY <1>1 DEF FilesInv
  <2>1. icon'.of = icon.of
    BY <1>1 DEF IconAloneInv, WorkInv
  <2> QED BY <1>1, <2>1 DEF FilesInv
<1> QED BY <1>1, <1>2, EndingKeeps

LEMMA IconStep == ASSUME IconInv, [IconNext]_iconVars PROVE IconInv'
<1>1. CASE Move
  BY <1>1, MoveKeeps
<1>2. ASSUME NEW u \in Updaters, UpdateIcon(u) PROVE IconInv'
  BY <1>2, BeginUpdateKeeps, AskImageKeeps, PutSourceKeeps, PutSizeKeeps, PutMetaKeeps,
     OtherEndingsKeep DEF UpdateIcon
<1>3. CASE UNCHANGED iconVars
  BY <1>3 DEF iconVars, world, ghosts, IconInv, IconTypeOK, SourceInv, Sourced, IconAloneInv,
              CandidateInv, LeftInv, WorkInv, FilesInv, Updating, Asking, Answered
<1> QED BY <1>1, <1>2, <1>3 DEF IconNext

THEOREM IconIsInvariant == IconSpec => []IconInv
<1>1. IconInv /\ [IconNext]_iconVars => IconInv'
  BY IconStep
<1> QED BY IconInitInv, <1>1, PTL DEF IconSpec

(* An update that completes alone, when nothing was mixed before it, leaves *)
(* icon.src and every size of the image that icon.json describes; one that *)
(* fails leaves the image there was (icon.ts).                             *)
THEOREM IconsAreOfOneImage == IconSpec => IconsAgree
<1> DEFINE Agrees(u) ==
      /\ Updated(u) =>
           /\ src' = icon'.of /\ \A s \in Sizes : Served(s)' = icon'.of
           /\ update[u].still =>
                icon'.of = <<Candidate(offer).url, revision[Candidate(offer).url]>>
      /\ Fail(u) => icon'.of = icon.of
<1>1. ASSUME IconInv, NEW u \in Updaters, update[u].alone, ~mixed PROVE Agrees(u)
  <2> USE DEF IconInv
  <2>1. ASSUME PutMeta(u)
        PROVE  /\ src' = icon'.of /\ \A s \in Sizes : Served(s)' = icon'.of
               /\ update[u].still =>
                    icon'.of = <<Candidate(offer).url, revision[Candidate(offer).url]>>
    <3>1. /\ UNCHANGED <<src, png>> /\ update[u].at = "sizes" /\ update[u].left = {}
          /\ icon'.of = update[u].image
      BY <1>1, <2>1, PutMetaDoes
    <3>2. src = update[u].image /\ \A s \in Sizes : png[s] = update[u].image
      BY <1>1, <3>1 DEF WorkInv, Updating
    <3>3. update[u].still =>
            update[u].image = <<Candidate(offer).url, revision[Candidate(offer).url]>>
      BY <1>1, <3>1 DEF CandidateInv, Asking, Answered
    <3> QED BY <3>1, <3>2, <3>3 DEF Served
  <2>2. ASSUME IconNotModified(u)
        PROVE  /\ src' = icon'.of /\ \A s \in Sizes : Served(s)' = icon'.of
               /\ update[u].still =>
                    icon'.of = <<Candidate(offer).url, revision[Candidate(offer).url]>>
    <3>1. /\ UNCHANGED <<src, png>> /\ update[u].at = "same"
          /\ update[u].previous = icon => icon'.of = icon.of
      BY <1>1, <2>2, OtherEndings DEF IconNotModified
    <3>2. update[u].previous = icon /\ update[u].image = last /\ update[u].image = icon.of
      BY <1>1, <3>1 DEF WorkInv, Updating, Answered
    <3>3. src = icon.of /\ \A s \in Sizes : png[s] = icon.of
      BY <1>1, <3>2 DEF FilesInv
    <3>4. update[u].still =>
            update[u].image = <<Candidate(offer).url, revision[Candidate(offer).url]>>
      BY <1>1, <3>1 DEF CandidateInv, Asking, Answered
    <3> QED BY <3>1, <3>2, <3>3, <3>4 DEF Served
  <2>3. Fail(u) => icon'.of = icon.of
    <3> SUFFICES ASSUME Fail(u) PROVE icon'.of = icon.of
      OBVIOUS
    <3>1. update[u].previous = icon
      BY <1>1 DEF WorkInv, Updating, Fail
    <3> QED BY <1>1, <3>1, OtherEndings
  <2> QED BY <2>1, <2>2, <2>3 DEF Updated
<1>2. IconInv => \A u \in Updaters : update[u].alone /\ ~mixed => Agrees(u)
  BY <1>1
<1> QED BY <1>2, IconIsInvariant, PTL DEF IconsAgree

=============================================================================
