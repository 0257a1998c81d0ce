----------------------------- MODULE MCDiscovery -----------------------------
(* A keyword that fits a handful of windows.  "top" is over the cap and    *)
(* splits into "year", which is served whole in two pages, and "month",    *)
(* over the cap again and split into "day", a single day over the cap of   *)
(* which GitHub serves one page.  "tail" is a band that fits in one page.  *)
(* "year" is enqueued twice, for the guard against a window already done.  *)
(* The last window serves the last of four repositories: with a limit of   *)
(* four a sweep over an empty corpus is completed, and the next one stops  *)
(* after a window with the others still pending.                           *)
EXTENDS Discovery, TLC

MCRepos   == 1..4
MCWindows == {"top", "year", "month", "day", "tail"}
MCRoots   == <<"top", "tail">>
MCCrowded == {"top", "month", "day"}
MCChildren ==
  [w \in MCWindows |->
     CASE w = "top"   -> <<"year", "month", "year">>
       [] w = "month" -> <<"day">>
       [] OTHER       -> <<>>]
MCMatches ==
  "top" :> {1, 2, 3} @@ "year" :> {1, 2} @@ "month" :> {2, 3} @@ "day" :> {2, 3}
    @@ "tail" :> {4}
MCPages ==
  "top" :> <<{1}, {2}>> @@ "year" :> <<{1}, {2}>> @@ "month" :> <<{2}>> @@ "day" :> <<{3}>>
    @@ "tail" :> <<{4}>>
MCDepth == "top" :> 0 @@ "year" :> 1 @@ "month" :> 1 @@ "day" :> 2 @@ "tail" :> 0

(* The smallest keyword on which a window splits and a later window still  *)
(* has to be swept, for runs in which payloads change under several sweeps.*)
SmallRepos    == 1..2
SmallWindows  == {"top", "year", "tail"}
SmallCrowded  == {"top"}
SmallChildren == "top" :> <<"year">> @@ "year" :> <<>> @@ "tail" :> <<>>
SmallMatches  == "top" :> {1} @@ "year" :> {1} @@ "tail" :> {2}
SmallPages    == "top" :> <<{1}>> @@ "year" :> <<{1}>> @@ "tail" :> <<{2}>>
SmallDepth    == "top" :> 0 @@ "year" :> 1 @@ "tail" :> 0
=============================================================================
