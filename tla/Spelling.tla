------------------------------- MODULE Spelling -------------------------------
(***************************************************************************)
(* What a query without results may have meant (apps/web/src/lib/spelling.ts): *)
(* the corrections of its words by the vocabulary of the taxonomy, then each  *)
(* of its words alone.  A word is a sequence of letters, a query a sequence  *)
(* of words.                                                               *)
(***************************************************************************)
EXTENDS Integers, SequencesExt

CONSTANTS
  Letters,
  TaxonomyWords,   \* sequence: the words of its ids and labels, in its order
  Limit,           \* how many candidates are returned
  MaxLetters       \* bound on what is typed

VARIABLE typed

-----------------------------------------------------------------------------
Least(a, b) == IF a < b THEN a ELSE b

LeastOf(row) == CHOOSE d \in ToSet(row) : \A e \in ToSet(row) : d <= e

(* One row of the matrix; element j + 1 is the distance between the first i *)
(* letters of a and the first j of b.                                      *)
Row(a, b, previous, i) ==
  FoldLeft(LAMBDA row, j :
             LET substitution == previous[j] + (IF a[i] = b[j] THEN 0 ELSE 1)
                 deletion == previous[j + 1] + 1
                 insertion == row[j] + 1
             IN Append(row, Least(substitution, Least(deletion, insertion))),
           <<i>>, [j \in 1..Len(b) |-> j])

\* Mutant of GivenUp: a row at the bound is taken for hopeless.
GivenUpEarly(row, max) == LeastOf(row) >= max

GivenUp(row, max) == LeastOf(row) > max

LastRow(a, b, max) ==
  FoldLeft(LAMBDA row, i : IF GivenUp(row, max) THEN row ELSE Row(a, b, row, i),
           [j \in 1..(Len(b) + 1) |-> j - 1], [i \in 1..Len(a) |-> i])

(* The distance, or max + 1 once it is known to exceed max.                *)
editDistance(a, b, max) ==
  IF a = b THEN 0
  ELSE IF Len(a) - Len(b) > max \/ Len(b) - Len(a) > max THEN max + 1
  ELSE LET row == LastRow(a, b, max) IN IF GivenUp(row, max) THEN max + 1 ELSE Last(row)

Vocabulary == SelectSeq(TaxonomyWords, LAMBDA w : Len(w) >= 4)

toleranceFor(word) == CASE Len(word) >= 8 -> 2 [] Len(word) \in 5..7 -> 1 [] OTHER -> 0

(* The nearest word of the vocabulary, the first of several, within the     *)
(* tolerance.  A word of the vocabulary has no correction.                 *)
Corrections(word) ==
  LET tolerance == toleranceFor(word)
      distance == [n \in DOMAIN Vocabulary |-> editDistance(word, Vocabulary[n], tolerance)]
  IN IF tolerance = 0 \/ word \in ToSet(Vocabulary) THEN {}
     ELSE {Vocabulary[n] : n \in {k \in DOMAIN Vocabulary :
             /\ distance[k] <= tolerance
             /\ \A j \in DOMAIN Vocabulary : distance[j] >= distance[k] /\ (j < k => distance[j] > distance[k])}}

Corrected(query) ==
  FoldLeft(LAMBDA sofar, n : sofar \o SetToSeq({[query EXCEPT ![n] = w] : w \in Corrections(query[n])}),
           <<>>, [n \in DOMAIN query |-> n])

Relaxed(query) == IF Len(query) > 1 THEN [n \in DOMAIN query |-> <<query[n]>>] ELSE <<>>

(* A candidate is added once, and never the query itself.                  *)
suggestQueries(query) ==
  LET add(sofar, c) == IF c = query \/ c \in ToSet(sofar) THEN sofar ELSE Append(sofar, c)
      all == FoldLeft(add, <<>>, Corrected(query) \o Relaxed(query))
  IN SubSeq(all, 1, Least(Limit, Len(all)))

-----------------------------------------------------------------------------
SpellingInit == typed = <<>>

Total(query) == FoldLeft(LAMBDA n, word : n + Len(word), 0, query)

(* The reader types a letter, or begins a second word; or begins anew.     *)
Type == \E letter \in Letters :
  /\ Total(typed) < MaxLetters
  /\ typed' \in {IF typed = <<>> THEN <<<<letter>>>>
                   ELSE [typed EXCEPT ![Len(typed)] = Append(@, letter)]}
               \cup (IF Len(typed) = 1 THEN {Append(typed, <<letter>>)} ELSE {})

Clear == typed' = <<>>

SpellingNext == Type \/ Clear

-----------------------------------------------------------------------------
(* What an edit makes of a word: the reference.                            *)
Edits(word) ==
  {RemoveAt(word, n) : n \in DOMAIN word}
    \cup {InsertAt(word, n, letter) : n \in 1..(Len(word) + 1), letter \in Letters}
    \cup {[word EXCEPT ![n] = letter] : n \in DOMAIN word, letter \in Letters}

Ball == [word \in ToSet(TaxonomyWords) |->
  LET one == Edits(word) \cup {word} IN [k \in 0..2 |->
    IF k = 0 THEN {word} ELSE IF k = 1 THEN one ELSE UNION {Edits(w) : w \in one}]]

Nearest(word, v) == \E k \in 0..toleranceFor(word) :
  /\ word \in Ball[v][k]
  /\ \A other \in ToSet(Vocabulary), j \in 0..(k - 1) : word \notin Ball[other][j]

(* Of a word that is no word of the taxonomy the nearest is offered, if one *)
(* is near enough for its length, before any word is dropped; nothing is    *)
(* offered twice, nor the query itself ("correcting it to a neighbour would *)
(* turn `policy` into `police`", spelling.ts:116).                          *)
CorrectionsAreNearest ==
  LET offered == suggestQueries(typed)
      Corrects(c, n) ==
        /\ Len(c) = Len(typed) /\ c[n] # typed[n]
        /\ c[n] \in ToSet(Vocabulary) /\ typed[n] \notin ToSet(Vocabulary)
        /\ Nearest(typed[n], c[n])
        /\ \A m \in DOMAIN typed \ {n} : c[m] = typed[m]
      IsCorrection(c) == \E n \in DOMAIN typed : Corrects(c, n)
  IN /\ Len(offered) <= Limit /\ IsInjective(offered) /\ typed \notin ToSet(offered)
     /\ \A k \in DOMAIN offered :
          \/ IsCorrection(offered[k]) /\ \A j \in 1..(k - 1) : IsCorrection(offered[j])
          \/ Len(typed) > 1 /\ \E n \in DOMAIN typed : offered[k] = <<typed[n]>>
     /\ \A n \in DOMAIN typed :
          /\ toleranceFor(typed[n]) > 0 /\ typed[n] \notin ToSet(Vocabulary)
          /\ \E v \in ToSet(Vocabulary) : typed[n] \in Ball[v][toleranceFor(typed[n])]
          => \E k \in DOMAIN offered : Corrects(offered[k], n)
=============================================================================
