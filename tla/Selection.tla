----------------------------- MODULE Selection -----------------------------
(***************************************************************************)
(* The tasks of a round (evaluation/selection.py, corpus/package.py): a    *)
(* corpus is loaded from its roots, and from the entropy of one block hash *)
(* the round draws public and hidden packages without replacement, and a   *)
(* workload profile of each.                                               *)
(*                                                                         *)
(* A package is [id, hidden, weights]: its place in the order of package   *)
(* ids, whether its family is held out, and the selection weights of its   *)
(* profiles.  What sha256 makes of the block hash under a label is         *)
(* external: the draws are numbers, of which the code takes remainders.    *)
(***************************************************************************)
EXTENDS Integers, SequencesExt

CONSTANTS
  PublicCount,  \* tasks drawn from the public packages
  HiddenCount,  \* tasks drawn from the held-out ones
  Points        \* resolution of a weighted draw (a million in the code)

ASSUME CountsAssumption ==
  PublicCount \in Nat /\ HiddenCount \in Nat /\ Points \in Nat \ {0}

Packages == [id : Nat, hidden : BOOLEAN, weights : Seq(Nat)]

Refused == [refused |-> TRUE]

Ids(packages) == {packages[i].id : i \in DOMAIN packages}

(* Corpus.load over its roots, each listed in the order of its             *)
(* directories: a package id that appears twice is refused.                *)
load(roots) ==
  LET all == FlattenSeq(roots)
  IN  IF Cardinality(Ids(all)) < Len(all) THEN Refused
      ELSE [refused |-> FALSE, packages |-> all]

(* Where the packages of one side are: Corpus.public, Corpus.hidden. *)
Side(packages, hidden) == {i \in DOMAIN packages : packages[i].hidden = hidden}

(* Seeded fault: the packages are left in the order they were loaded. *)
AheadAsLoaded(packages, S, j) == {i \in S : i < j}

(* Those that sorting by id puts before the one at j.  The sort is stable: *)
(* of equal ids, the one loaded first.                                     *)
Ahead(packages, S, j) ==
  {i \in S : \/ packages[i].id < packages[j].id
             \/ packages[i].id = packages[j].id /\ i < j}

(* The packages of a side, sorted by id. *)
Pool(packages, hidden) ==
  LET S == Side(packages, hidden)
      At(k) == CHOOSE j \in S : Cardinality(Ahead(packages, S, j)) = k - 1
  IN  [k \in 1 .. Cardinality(S) |-> packages[At(k)]]

Swapped(pool, i, j) == [pool EXCEPT ![i] = pool[j], ![j] = pool[i]]

(* Seeded fault: every position is drawn from the whole pool. *)
position_anywhere(i, n, draw) == 1 + (draw % n)

(* Position i takes one of those from i on. *)
position(i, n, draw) == i + (draw % (n - i + 1))

(* _sample_without_replacement: the prefix of a Fisher-Yates shuffle. *)
sample_without_replacement(items, k, draws) ==
  LET pool[i \in 0 .. k] ==
        IF i = 0 THEN items
        ELSE Swapped(pool[i - 1], i, position(i, Len(items), draws[i]))
  IN  SubSeq(pool[k], 1, k)

Weight(weights, k) == SumFunctionOnSet(weights, 1 .. k)

(* select_profile: a point on the line of the weights laid end to end. *)
select_profile(weights, draw) ==
  LET total == Weight(weights, Len(weights))
      point == (draw % Points) * total
      past == {k \in DOMAIN weights : point < Weight(weights, k) * Points}
  IN  IF total <= 0 THEN 1
      ELSE IF past = {} THEN Len(weights) ELSE Min(past)

Smaller(m, n) == IF m < n THEN m ELSE n

(* The tasks of one side: package and profile.  draws gives the remainders *)
(* of the shuffle, profile_draw a draw for each package and place.         *)
Tasked(items, count, draws, profile_draw) ==
  LET chosen == sample_without_replacement(items, Smaller(count, Len(items)), draws)
  IN  [i \in DOMAIN chosen |->
        [id |-> chosen[i].id,
         profile |-> select_profile(chosen[i].weights, profile_draw[chosen[i].id])]]

(* derive_round: refused without public packages, or without the held-out  *)
(* ones it needs; corpus and spec are those of the seed.                   *)
derive_round(roots, entropy) ==
  LET corpus == load(roots)
      public == Pool(corpus.packages, FALSE)
      hidden == Pool(corpus.packages, TRUE)
  IN  IF corpus.refused \/ public = <<>> \/ (HiddenCount > 0 /\ hidden = <<>>)
      THEN Refused
      ELSE [refused |-> FALSE,
            public |-> Tasked(public, PublicCount, entropy.public, entropy.profile),
            hidden |-> Tasked(hidden, HiddenCount, entropy.hidden, entropy.profile)]

-----------------------------------------------------------------------------
(***************************************************************************)
(* What a plan promises.                                                   *)
(***************************************************************************)

(* The packages of the tasks, in order. *)
Chosen(tasks) == [i \in DOMAIN tasks |-> tasks[i].id]

(* What the shuffle makes of its draws. *)
Remainders(items, count, draws) ==
  [i \in 1 .. Smaller(count, Len(items)) |-> draws[i] % (Len(items) - i + 1)]

(* No package is drawn twice, and none from the other side. *)
DrawnOnce(tasks, packages, hidden) ==
  /\ IsInjective(Chosen(tasks))
  /\ \A i \in DOMAIN tasks : \E j \in Side(packages, hidden) : packages[j].id = tasks[i].id

(* The points that draw a profile are its part of the weight, but for less *)
(* than one point.                                                         *)
WeightsAreKept(weights) ==
  LET total == Weight(weights, Len(weights))
      Drawing(k) == Cardinality({p \in 0 .. Points - 1 : select_profile(weights, p) = k})
  IN  total > 0 =>
        \A k \in DOMAIN weights :
          /\ Drawing(k) * total < weights[k] * Points + total
          /\ Drawing(k) * total > weights[k] * Points - total

=============================================================================
