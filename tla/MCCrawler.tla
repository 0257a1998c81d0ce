------------------------------ MODULE MCCrawler ------------------------------
(* A run of the crawler, the journal it and an analyzer write, and the storage *)
(* the journal and the cache are on.                                          *)
EXTENDS Journal, FsStorage, CrawlRun

(* The three have no state in common: a behaviour follows one of them, while  *)
(* the others stay where they begin.                                         *)
VARIABLE part

MCInit ==
  /\ part \in {"journal", "files", "crawl"}
  /\ Init /\ FsInit
  /\ CrawlInit /\ (part # "crawl" => github.left = 0)

MCNext ==
  /\ UNCHANGED part
  /\ \/ part = "journal" /\ Next /\ UNCHANGED <<storage, crawling>>
     \/ part = "files" /\ FsNext /\ UNCHANGED <<vars, crawling>>
     \/ part = "crawl" /\ CrawlNext /\ UNCHANGED <<vars, storage>>

(* I/O settles: the loop of a consumer that is not killed goes on, and so do  *)
(* a crawl's requests and writes; nobody has to signal, kill or start an hour.*)
MCSpec ==
  /\ MCInit /\ [][MCNext]_<<vars, storage, crawling, part>>
  /\ WF_vars(part = "journal" /\ Read) /\ WF_vars(part = "journal" /\ Settles)
  /\ WF_crawling(part = "crawl" /\ Run)
  /\ \A i \in List : WF_crawling(part = "crawl" /\ Fetch(i))
=============================================================================
