---------------------------- MODULE Dethronement ----------------------------
(***************************************************************************)
(* ChampionRegistry of compilerforge/scoring/dethronement.py: the crown of *)
(* the generalist mechanism across rounds.  One round hands the registry   *)
(* the standing of every artifact it could score, and the registry decides *)
(* whether the crown is bootstrapped, held, or passed on.                  *)
(*                                                                         *)
(* Scores, gaps and shares are in hundredths.  An artifact's generalist    *)
(* score and its per-family (cell) scores are inputs: they are what        *)
(* RoundAggregator computed.  The value standard_error contributes enters  *)
(* as `evidence', the product z * SE, or InfiniteError when the artifact   *)
(* has fewer than two outcomes.                                            *)
(***************************************************************************)
EXTENDS Integers, FiniteSets

CONSTANTS
  Artifacts,         \* image digests
  Cells,             \* package families, the scored cells
  Standings,         \* the ArtifactAggregate values a round can produce
  NoChampion,        \* the registry before its first crown
  InfiniteError,     \* standard error of fewer than two outcomes
  Margin,            \* DethronementSpec.margin
  CellTolerance,     \* DethronementSpec.cell_tolerance
  GapFloor,          \* DethronementSpec.gap_floor
  GapCeiling,        \* DethronementSpec.gap_ceiling
  Warmup,            \* DethronementSpec.warmup_rounds
  StagnationRounds,  \* EmissionSpec.champion_stagnation_rounds
  DecayPerRound,     \* EmissionSpec.champion_decay_per_round
  DecayMinShare,     \* EmissionSpec.champion_decay_min_share
  DigestOrder,       \* position of a digest in sorted(aggregates.items())
  CommittedAt,       \* `commitments': when each artifact was committed
  MaxRounds          \* bound on the rounds explored

(***************************************************************************)
(* What ArtifactAggregate offers the registry.                             *)
(***************************************************************************)
Standing ==
  [generalist_score : Nat,
   cell_scores      : [Cells -> Nat],
   screened         : BOOLEAN,
   evidence         : Nat \cup {InfiniteError}]

ASSUME StandingsAssumption == Standings \subseteq Standing

ASSUME WarmupAssumption == Warmup \in Nat \ {0}

ASSUME BandAssumption ==
  /\ Margin \in Nat \ {0}
  /\ CellTolerance \in Nat
  /\ GapFloor \in Nat
  /\ GapCeiling \in Nat

ASSUME DecayAssumption ==
  /\ StagnationRounds \in Nat
  /\ DecayPerRound \in Nat
  /\ DecayMinShare \in 0..100

ASSUME OrderAssumption ==
  /\ DigestOrder \in [Artifacts -> Nat]
  /\ \A a, b \in Artifacts : DigestOrder[a] = DigestOrder[b] => a = b
  /\ CommittedAt \in [Artifacts -> Nat]

ASSUME BoundAssumption == MaxRounds \in Nat

Champion ==
  [artifact_digest            : Artifacts,
   crowned_score              : Nat,
   crowned_round              : Nat,
   rounds_without_improvement : Nat]

ASSUME NoChampionAssumption == NoChampion \notin Champion

VARIABLES
  champion,      \* the crowned artifact, or NoChampion
  round_number,  \* rounds this registry has evaluated
  sustained,     \* _sustained: rounds each challenger has cleared the band
  observed,      \* history: what the last round showed (see Quiet)
  earned         \* history: rounds each artifact cleared the band (see Earn)

registry == <<champion, round_number, sustained>>
vars == <<champion, round_number, sustained, observed, earned>>

(* One round's aggregates: a standing for each artifact it could score. *)
Aggregates == UNION {[S -> Standings] : S \in SUBSET Artifacts}

Larger(x, y) == IF x >= y THEN x ELSE y
Smaller(x, y) == IF x <= y THEN x ELSE y

-----------------------------------------------------------------------------
(***************************************************************************)
(* The dominance band.                                                     *)
(***************************************************************************)

required_gap(agg) ==
  IF agg.evidence = InfiniteError
    THEN GapCeiling
    ELSE Larger(GapFloor, Smaller(agg.evidence, GapCeiling))

(* The incumbent's score a challenger is measured against: its own score   *)
(* if it was screened this round, nothing if it fell out of the screen,    *)
(* and the score it was crowned with if it was not scored at all.          *)
IncumbentScore(aggs) ==
  LET crown == champion.artifact_digest
  IN  IF crown \notin DOMAIN aggs THEN champion.crowned_score
      ELSE IF aggs[crown].screened THEN aggs[crown].generalist_score
      ELSE 0

(* Its cells count only in a round that screened it. *)
IncumbentCells(aggs) ==
  LET crown == champion.artifact_digest
  IN  IF crown \in DOMAIN aggs /\ aggs[crown].screened
        THEN aggs[crown].cell_scores
        ELSE [c \in {} |-> 0]

(* Seeded fault: the margin has to be exceeded. *)
ClearsBandStrictly(agg, incumbent_score, incumbent_cells) ==
  /\ agg.generalist_score - incumbent_score > Larger(Margin, required_gap(agg))
  /\ \A c \in DOMAIN incumbent_cells :
       agg.cell_scores[c] >= incumbent_cells[c] - CellTolerance

(* Seeded fault: the cells are not looked at. *)
ClearsMarginOnly(agg, incumbent_score, incumbent_cells) ==
  agg.generalist_score - incumbent_score >= Larger(Margin, required_gap(agg))

(* _challenge(...).dethroned *)
ClearsBand(agg, incumbent_score, incumbent_cells) ==
  /\ agg.generalist_score - incumbent_score >= Larger(Margin, required_gap(agg))
  /\ \A c \in DOMAIN incumbent_cells :
       agg.cell_scores[c] >= incumbent_cells[c] - CellTolerance

(* The artifacts the loop of evaluate puts to the challenge. *)
Challengers(aggs) ==
  {a \in DOMAIN aggs : a # champion.artifact_digest /\ aggs[a].screened}

Clearing(aggs) ==
  {a \in Challengers(aggs) :
     ClearsBand(aggs[a], IncumbentScore(aggs), IncumbentCells(aggs))}

(* Streaks after the loop: a cleared challenge extends one, a failed one   *)
(* pops it, and an artifact that was not put to the challenge keeps its.   *)
StreaksAfter(aggs) ==
  LET clearing == Clearing(aggs)
  IN  [a \in Artifacts |->
         IF a \in clearing THEN sustained[a] + 1
         ELSE IF a \in Challengers(aggs) THEN 0
         ELSE sustained[a]]

(* Challengers that may take the crown this round. *)
Contenders(aggs) == {a \in Clearing(aggs) : sustained[a] + 1 >= Warmup}

(* Seeded fault: ties go to the first digest. *)
PrecedesByDigest(aggs, a, b) ==
  \/ aggs[a].generalist_score > aggs[b].generalist_score
  \/ /\ aggs[a].generalist_score = aggs[b].generalist_score
     /\ DigestOrder[a] <= DigestOrder[b]

(* a is preferred to b by score, then by commitment, then by digest. *)
Precedes(aggs, a, b) ==
  \/ aggs[a].generalist_score > aggs[b].generalist_score
  \/ /\ aggs[a].generalist_score = aggs[b].generalist_score
     /\ \/ CommittedAt[a] < CommittedAt[b]
        \/ CommittedAt[a] = CommittedAt[b] /\ DigestOrder[a] <= DigestOrder[b]

IsBest(aggs, S, a) == a \in S /\ \A b \in S : Precedes(aggs, a, b)

(* Seeded fault: stagnation is counted from before the crowning. *)
CrownedBelowZero(aggs, a) ==
  [artifact_digest            |-> a,
   crowned_score              |-> aggs[a].generalist_score,
   crowned_round              |-> round_number + 1,
   rounds_without_improvement |-> -1]

(* A fresh Champion, crowned this round with the score that won it. *)
Crowned(aggs, a) ==
  [artifact_digest            |-> a,
   crowned_score              |-> aggs[a].generalist_score,
   crowned_round              |-> round_number + 1,
   rounds_without_improvement |-> 0]

(* Seeded fault: repeating the crowned score counts as improving. *)
ImprovedOrRepeated(aggs) ==
  /\ champion.artifact_digest \in DOMAIN aggs
  /\ aggs[champion.artifact_digest].generalist_score >= champion.crowned_score

(* _advance_champion: the incumbent improved on its crowned score, or its  *)
(* stagnation grows by a round.                                            *)
Improved(aggs) ==
  /\ champion.artifact_digest \in DOMAIN aggs
  /\ aggs[champion.artifact_digest].generalist_score > champion.crowned_score

Advanced(aggs) ==
  [artifact_digest |-> champion.artifact_digest,
   crowned_score   |-> IF Improved(aggs)
                         THEN aggs[champion.artifact_digest].generalist_score
                         ELSE champion.crowned_score,
   crowned_round   |-> champion.crowned_round,
   rounds_without_improvement |->
     IF Improved(aggs) THEN 0 ELSE champion.rounds_without_improvement + 1]

(* Champion.decay_multiplier, in hundredths. *)
decay_multiplier(c) ==
  LET overdue == c.rounds_without_improvement - StagnationRounds
  IN  IF overdue <= 0 THEN 100
      ELSE Larger(DecayMinShare, 100 - DecayPerRound * overdue)

-----------------------------------------------------------------------------
(***************************************************************************)
(* History variables, for properties only.  `observed' keeps whether the   *)
(* round was noisy, who dominated the champion as docs/architecture.md     *)
(* words it (ahead by the margin and by the statistical gap on aggregate,  *)
(* not materially worse on any cell the champion was scored on), and who   *)
(* of those scored highest.  `earned' counts, since the crown last changed *)
(* hands, the rounds in which an artifact dominated (total) and how many   *)
(* of those make up the unbroken sequence of rounds that ends now          *)
(* (consecutive); both stop at Warmup.                                     *)
(***************************************************************************)
Dominant(aggs) ==
  {a \in Challengers(aggs) :
     /\ aggs[a].generalist_score >= IncumbentScore(aggs) + Margin
     /\ aggs[a].generalist_score >= IncumbentScore(aggs) + required_gap(aggs[a])
     /\ \A c \in DOMAIN IncumbentCells(aggs) :
          IncumbentCells(aggs)[c] - aggs[a].cell_scores[c] <= CellTolerance}

Leaders(aggs) ==
  {a \in Dominant(aggs) : \A b \in Dominant(aggs) :
     aggs[b].generalist_score <= aggs[a].generalist_score}

Quiet(aggs) ==
  observed' = [noisy |-> FALSE, dominant |-> Dominant(aggs), leaders |-> Leaders(aggs)]

Unchallenged(noisy) ==
  observed' = [noisy |-> noisy, dominant |-> {}, leaders |-> {}]

NothingEarned == [a \in Artifacts |-> [total |-> 0, consecutive |-> 0]]

Earn(dominant) ==
  earned' =
    [a \in Artifacts |->
       IF a \in dominant
         THEN [total       |-> Smaller(earned[a].total + 1, Warmup),
               consecutive |-> Smaller(earned[a].consecutive + 1, Warmup)]
         ELSE [earned[a] EXCEPT !.consecutive = 0]]

-----------------------------------------------------------------------------
(***************************************************************************)
(* ChampionRegistry.evaluate, one action per way out of it.                *)
(***************************************************************************)

(* self.round_number += 1, on every path. *)
CountRound ==
  /\ round_number < MaxRounds
  /\ round_number' = round_number + 1

(* `if not aggregates: return None'. *)
NothingScored(noisy) ==
  /\ CountRound
  /\ UNCHANGED <<champion, sustained>>
  /\ Unchallenged(noisy)
  /\ Earn({})

(* No champion yet and no artifact cleared the screen. *)
NoCandidate(aggs, noisy) ==
  /\ CountRound
  /\ champion = NoChampion
  /\ DOMAIN aggs # {}
  /\ \A a \in DOMAIN aggs : ~aggs[a].screened
  /\ UNCHANGED <<champion, sustained>>
  /\ Unchallenged(noisy)
  /\ Earn({})

(* No champion yet: the best screened artifact is crowned, in any round. *)
Bootstrap(aggs, noisy) ==
  \E best \in Artifacts :
    /\ CountRound
    /\ champion = NoChampion
    /\ IsBest(aggs, {a \in DOMAIN aggs : aggs[a].screened}, best)
    /\ champion' = Crowned(aggs, best)
    /\ UNCHANGED sustained
    /\ Unchallenged(noisy)
    /\ earned' = NothingEarned

(* A voided task: the champion is tracked, challenges are not heard. *)
NoisyRound(aggs) ==
  /\ CountRound
  /\ champion # NoChampion
  /\ DOMAIN aggs # {}
  /\ champion' = Advanced(aggs)
  /\ UNCHANGED sustained
  /\ Unchallenged(TRUE)
  /\ Earn({})

(* Challenges are heard and nobody has sustained one long enough. *)
Hold(aggs) ==
  /\ CountRound
  /\ champion # NoChampion
  /\ DOMAIN aggs # {}
  /\ Contenders(aggs) = {}
  /\ champion' = Advanced(aggs)
  /\ sustained' = StreaksAfter(aggs)
  /\ Quiet(aggs)
  /\ Earn(Dominant(aggs))

(* Seeded fault: the streaks survive the handover. *)
DethroneKeepsStreaks(aggs) ==
  \E winner \in Artifacts :
    /\ CountRound
    /\ champion # NoChampion
    /\ IsBest(aggs, Contenders(aggs), winner)
    /\ champion' = Crowned(aggs, winner)
    /\ sustained' = StreaksAfter(aggs)
    /\ Quiet(aggs)
    /\ earned' = NothingEarned

(* The best contender takes the crown and every streak is cleared. *)
Dethrone(aggs) ==
  \E winner \in Artifacts :
    /\ CountRound
    /\ champion # NoChampion
    /\ IsBest(aggs, Contenders(aggs), winner)
    /\ champion' = Crowned(aggs, winner)
    /\ sustained' = [a \in Artifacts |-> 0]
    /\ Quiet(aggs)
    /\ earned' = NothingEarned

evaluate(aggs, noisy) ==
  \/ DOMAIN aggs = {} /\ NothingScored(noisy)
  \/ NoCandidate(aggs, noisy)
  \/ Bootstrap(aggs, noisy)
  \/ noisy /\ NoisyRound(aggs)
  \/ ~noisy /\ Hold(aggs)
  \/ ~noisy /\ Dethrone(aggs)

Init ==
  /\ champion = NoChampion
  /\ round_number = 0
  /\ sustained = [a \in Artifacts |-> 0]
  /\ observed = [noisy |-> FALSE, dominant |-> {}, leaders |-> {}]
  /\ earned = NothingEarned

Next == \E aggs \in Aggregates, noisy \in BOOLEAN : evaluate(aggs, noisy)

Spec == Init /\ [][Next]_vars

-----------------------------------------------------------------------------
(***************************************************************************)
(* Properties.                                                             *)
(***************************************************************************)

(* Type invariant of the registry and of the history variables. *)
TypeOK ==
  /\ champion \in Champion \cup {NoChampion}
  /\ round_number \in Nat
  /\ sustained \in [Artifacts -> Nat]
  /\ observed \in [noisy    : BOOLEAN,
                  dominant : SUBSET Artifacts,
                  leaders  : SUBSET Artifacts]
  /\ earned \in [Artifacts -> [total : 0..Warmup, consecutive : 0..Warmup]]

(* The crown passes from one artifact to another in this step. *)
HandsOver ==
  /\ champion # NoChampion
  /\ champion'.artifact_digest # champion.artifact_digest

(* Defender advantage, the waiting side: evaluate never leaves a           *)
(* challenger that has sustained its challenge for the warm-up waiting.    *)
NoSustainedChallengerWaits == \A a \in Artifacts : sustained[a] < Warmup

(* Streaks are earned under the present champion only: none is longer than *)
(* its reign, and there is none without a champion.                        *)
StreaksWithinReign ==
  \A a \in Artifacts :
    IF champion = NoChampion
      THEN sustained[a] = 0
      ELSE sustained[a] <= round_number - champion.crowned_round

(* Defender advantage: a reign ended by a challenger has lasted at least   *)
(* the warm-up, however the rounds before the crowning went.               *)
ReignLastsWarmup ==
  [][HandsOver =>
       champion'.crowned_round >= champion.crowned_round + Warmup]_vars

(* Dominance band and defender advantage: whoever takes the crown from a   *)
(* champion dominates it in that round, which is a quiet one, and did so   *)
(* in at least Warmup - 1 earlier rounds of the same reign.                *)
CrownIsEarned ==
  [][HandsOver =>
       /\ ~observed'.noisy
       /\ champion'.artifact_digest \in observed'.dominant
       /\ earned[champion'.artifact_digest].total >= Warmup - 1]_vars

(* Tie-break by commitment order: of the artifacts that completed the      *)
(* warm-up without a gap, none scored higher than the new champion, and    *)
(* none that scored as high committed earlier.                             *)
StrongestThenEarliest ==
  [][HandsOver =>
       \A b \in observed'.leaders :
         earned[b].consecutive >= Warmup - 1 =>
           /\ champion'.artifact_digest \in observed'.leaders
           /\ CommittedAt[champion'.artifact_digest] <= CommittedAt[b]]_vars

(* Stagnation payout: within a reign the multiplier recovers only when the *)
(* champion beats the score it was crowned with.                           *)
PayoutRecoversByImproving ==
  [][(/\ champion # NoChampion
      /\ champion'.artifact_digest = champion.artifact_digest
      /\ decay_multiplier(champion') > decay_multiplier(champion))
     => champion'.crowned_score > champion.crowned_score]_vars

(* Stagnation is counted in rounds of the reign, never in more. *)
StagnationWithinReign ==
  champion # NoChampion =>
    champion.crowned_round + champion.rounds_without_improvement <= round_number

(* The other side of the warm-up: an artifact that dominates in Warmup      *)
(* rounds without a gap has taken the crown by the last of them, or lost   *)
(* it to a stronger one.                                                   *)
UnbrokenDominanceWins == \A a \in Artifacts : earned[a].consecutive < Warmup

=============================================================================
