------------------------- MODULE DethronementProofs -------------------------
(***************************************************************************)
(* Theorems about Dethronement, for every set of artifacts, cells and      *)
(* standings, every margin and every warm-up.  The inductive invariant is  *)
(* IInv: the streaks the registry keeps are shorter than the warm-up, no   *)
(* longer than the reign they were earned in, and backed by the rounds the *)
(* history variables recorded.                                             *)
(***************************************************************************)
EXTENDS Dethronement, TLAPS

USE DEF Standing, Champion

(* A reign starts in a round that has been evaluated. *)
ReignStarted ==
  champion # NoChampion => champion.crowned_round <= round_number

(* Every streak is accounted for: a round counted in it was a round of     *)
(* domination, and an unbroken sequence of those is counted in it.         *)
StreaksAreEarned ==
  \A a \in Artifacts :
    /\ earned[a].consecutive <= sustained[a]
    /\ sustained[a] <= earned[a].total

IInv ==
  /\ TypeOK
  /\ NoSustainedChallengerWaits
  /\ StreaksWithinReign
  /\ StagnationWithinReign
  /\ ReignStarted
  /\ StreaksAreEarned

-----------------------------------------------------------------------------

(* The standings of a round are those of some of the artifacts. *)
LEMMA AggregatesType ==
  ASSUME NEW aggs \in Aggregates
  PROVE  /\ DOMAIN aggs \subseteq Artifacts
         /\ \A a \in DOMAIN aggs : aggs[a] \in Standing
  BY StandingsAssumption DEF Aggregates

(* The gap asked of a challenger is a number, whatever its evidence. *)
LEMMA RequiredGapType ==
  ASSUME NEW agg \in Standing
  PROVE  required_gap(agg) \in Nat
  BY BandAssumption DEF required_gap, Larger, Smaller

(* What the incumbent is measured by. *)
LEMMA IncumbentType ==
  ASSUME NEW aggs \in Aggregates, TypeOK, champion # NoChampion
  PROVE  /\ IncumbentScore(aggs) \in Nat
         /\ DOMAIN IncumbentCells(aggs) \subseteq Cells
         /\ \A c \in DOMAIN IncumbentCells(aggs) : IncumbentCells(aggs)[c] \in Nat
<1>1. champion \in Champion
  BY DEF TypeOK
<1>2. IncumbentScore(aggs) \in Nat
  BY <1>1, AggregatesType DEF IncumbentScore
<1>3. CASE champion.artifact_digest \in DOMAIN aggs /\ aggs[champion.artifact_digest].screened
  <2>1. aggs[champion.artifact_digest].cell_scores \in [Cells -> Nat]
    BY <1>3, AggregatesType
  <2>2. IncumbentCells(aggs) = aggs[champion.artifact_digest].cell_scores
    BY <1>3 DEF IncumbentCells
  <2> QED BY <1>2, <2>1, <2>2
<1>4. CASE ~(champion.artifact_digest \in DOMAIN aggs /\ aggs[champion.artifact_digest].screened)
  <2>1. IncumbentCells(aggs) = [c \in {} |-> 0]
    BY <1>4 DEF IncumbentCells
  <2> QED BY <1>2, <2>1
<1> QED BY <1>3, <1>4

(* The registry's test and the documented one pick the same challengers. *)
LEMMA ClearingIsDominant ==
  ASSUME NEW aggs \in Aggregates, TypeOK, champion # NoChampion
  PROVE  Clearing(aggs) = Dominant(aggs)
<1> SUFFICES ASSUME NEW a \in Challengers(aggs)
             PROVE  ClearsBand(aggs[a], IncumbentScore(aggs), IncumbentCells(aggs))
                    <=> /\ aggs[a].generalist_score >= IncumbentScore(aggs) + Margin
                        /\ aggs[a].generalist_score
                             >= IncumbentScore(aggs) + required_gap(aggs[a])
                        /\ \A c \in DOMAIN IncumbentCells(aggs) :
                             IncumbentCells(aggs)[c] - aggs[a].cell_scores[c]
                               <= CellTolerance
  BY DEF Clearing, Dominant
<1>1. aggs[a] \in Standing
  BY AggregatesType DEF Challengers
<1>2. required_gap(aggs[a]) \in Nat
  BY <1>1, RequiredGapType
<1> DEFINE score == aggs[a].generalist_score
           gap   == required_gap(aggs[a])
           inc   == IncumbentScore(aggs)
           cells == IncumbentCells(aggs)
<1>3. score \in Nat /\ gap \in Nat /\ inc \in Nat /\ Margin \in Nat
  BY <1>1, <1>2, IncumbentType, BandAssumption
<1>4. score - inc >= Larger(Margin, gap) <=> score >= inc + Margin /\ score >= inc + gap
  <2> HIDE DEF score, gap, inc
  <2> QED BY <1>3 DEF Larger
<1>5. \A c \in DOMAIN cells :
        aggs[a].cell_scores[c] >= cells[c] - CellTolerance
        <=> cells[c] - aggs[a].cell_scores[c] <= CellTolerance
  <2> TAKE c \in DOMAIN cells
  <2>1. cells[c] \in Nat /\ c \in Cells
    BY IncumbentType
  <2>2. aggs[a].cell_scores[c] \in Nat
    BY <1>1, <2>1
  <2> QED BY <2>1, <2>2, BandAssumption
<1> QED BY <1>4, <1>5 DEF ClearsBand

-----------------------------------------------------------------------------
(***************************************************************************)
(* One lemma per way out of evaluate: it preserves the invariant.          *)
(***************************************************************************)

(* Advancing the champion keeps who it is and when it was crowned, and     *)
(* counts at most one more round of stagnation.                            *)
LEMMA AdvancedType ==
  ASSUME NEW aggs \in Aggregates, TypeOK, champion # NoChampion
  PROVE  /\ Advanced(aggs) \in Champion
         /\ Advanced(aggs).artifact_digest = champion.artifact_digest
         /\ Advanced(aggs).crowned_round = champion.crowned_round
         /\ Advanced(aggs).rounds_without_improvement
              <= champion.rounds_without_improvement + 1
<1>1. champion \in Champion
  BY DEF TypeOK
<1>2. \A a \in DOMAIN aggs : aggs[a].generalist_score \in Nat
  BY AggregatesType
<1> QED BY <1>1, <1>2 DEF Advanced, Improved

(* A crowned artifact has the round being evaluated as its crowned round.  *)
LEMMA CrownedType ==
  ASSUME NEW aggs \in Aggregates, TypeOK, NEW a \in DOMAIN aggs
  PROVE  /\ Crowned(aggs, a) \in Champion
         /\ Crowned(aggs, a) # NoChampion
         /\ Crowned(aggs, a).artifact_digest = a
         /\ Crowned(aggs, a).crowned_round = round_number + 1
         /\ Crowned(aggs, a).rounds_without_improvement = 0
  BY AggregatesType, NoChampionAssumption DEF Crowned, TypeOK

(* What a set of dominating artifacts does to the history. *)
LEMMA EarnType ==
  ASSUME NEW dominant \in SUBSET Artifacts, TypeOK, Earn(dominant)
  PROVE  /\ earned' \in [Artifacts -> [total : 0..Warmup, consecutive : 0..Warmup]]
         /\ \A a \in Artifacts :
              /\ earned[a].total <= earned'[a].total
              /\ a \in dominant =>
                   /\ earned'[a].total = Smaller(earned[a].total + 1, Warmup)
                   /\ earned'[a].consecutive = Smaller(earned[a].consecutive + 1, Warmup)
              /\ a \notin dominant => earned'[a].consecutive = 0
<1>1. Warmup \in Nat \ {0}
  BY WarmupAssumption
<1>2. \A a \in Artifacts : earned[a] \in [total : 0..Warmup, consecutive : 0..Warmup]
  BY DEF TypeOK
<1>3. ASSUME NEW a \in Artifacts
      PROVE  /\ earned'[a] \in [total : 0..Warmup, consecutive : 0..Warmup]
             /\ earned[a].total <= earned'[a].total
             /\ a \in dominant =>
                  /\ earned'[a].total = Smaller(earned[a].total + 1, Warmup)
                  /\ earned'[a].consecutive = Smaller(earned[a].consecutive + 1, Warmup)
             /\ a \notin dominant => earned'[a].consecutive = 0
  <2>1. CASE a \in dominant
    <3>1. earned'[a] = [total       |-> Smaller(earned[a].total + 1, Warmup),
                        consecutive |-> Smaller(earned[a].consecutive + 1, Warmup)]
      BY <2>1 DEF Earn
    <3> QED BY <1>1, <1>2, <2>1, <3>1 DEF Smaller
  <2>2. CASE a \notin dominant
    <3>1. earned'[a] = [earned[a] EXCEPT !.consecutive = 0]
      BY <2>2 DEF Earn
    <3> QED BY <1>1, <1>2, <2>2, <3>1
  <2> QED BY <2>1, <2>2
<1>4. earned' = [a \in Artifacts |-> earned'[a]]
  BY DEF Earn
<1> QED BY <1>3, <1>4

(* A round in which nobody is challenged. *)
LEMMA UnchallengedStep ==
  ASSUME NEW noisy \in BOOLEAN, IInv, CountRound, Unchallenged(noisy), Earn({}),
         sustained' = sustained,
         \/ champion' = champion
         \/ /\ champion # NoChampion
            /\ champion' \in Champion
            /\ champion'.crowned_round = champion.crowned_round
            /\ champion'.rounds_without_improvement
                 <= champion.rounds_without_improvement + 1
  PROVE  IInv'
<1>1. TypeOK'
  BY EarnType DEF IInv, TypeOK, CountRound, Unchallenged
<1>2. NoSustainedChallengerWaits'
  BY DEF IInv, NoSustainedChallengerWaits
<1>3. StagnationWithinReign' /\ ReignStarted'
  BY NoChampionAssumption
  DEF IInv, TypeOK, StagnationWithinReign, ReignStarted, CountRound
<1>4. StreaksWithinReign'
  BY NoChampionAssumption DEF IInv, TypeOK, StreaksWithinReign, CountRound
<1>5. StreaksAreEarned'
  BY EarnType DEF IInv, TypeOK, StreaksAreEarned
<1> QED BY <1>1, <1>2, <1>3, <1>4, <1>5 DEF IInv

(* A crowning: every streak starts again. *)
LEMMA CrowningStep ==
  ASSUME IInv, CountRound, NEW aggs \in Aggregates, NEW a \in DOMAIN aggs,
         champion' = Crowned(aggs, a),
         sustained' = [b \in Artifacts |-> 0],
         earned' = NothingEarned,
         observed' \in [noisy    : BOOLEAN,
                        dominant : SUBSET Artifacts,
                        leaders  : SUBSET Artifacts]
  PROVE  IInv'
<1>1. round_number \in Nat /\ round_number' = round_number + 1
  BY DEF IInv, TypeOK, CountRound
<1>2. champion' \in Champion /\ champion' # NoChampion
      /\ champion'.crowned_round = round_number + 1
      /\ champion'.rounds_without_improvement = 0
  BY CrownedType DEF IInv
<1>3. TypeOK'
  BY <1>1, <1>2, WarmupAssumption DEF TypeOK, NothingEarned
<1>4. NoSustainedChallengerWaits'
  BY WarmupAssumption DEF NoSustainedChallengerWaits
<1>5. StreaksWithinReign' /\ StagnationWithinReign' /\ ReignStarted'
  BY <1>1, <1>2 DEF StreaksWithinReign, StagnationWithinReign, ReignStarted
<1>6. StreaksAreEarned'
  BY DEF StreaksAreEarned, NothingEarned
<1> QED BY <1>3, <1>4, <1>5, <1>6 DEF IInv

(* A round whose challenges nobody has sustained. *)
LEMMA HoldStep ==
  ASSUME IInv, NEW aggs \in Aggregates, Hold(aggs)
  PROVE  IInv'
<1>1. /\ champion # NoChampion /\ champion \in Champion /\ TypeOK
      /\ round_number \in Nat /\ round_number' = round_number + 1
      /\ Warmup \in Nat \ {0}
  BY WarmupAssumption DEF IInv, TypeOK, Hold, CountRound
<1>2. /\ champion' \in Champion /\ champion' # NoChampion
      /\ champion'.crowned_round = champion.crowned_round
      /\ champion'.rounds_without_improvement
           <= champion.rounds_without_improvement + 1
  BY <1>1, AdvancedType, NoChampionAssumption DEF Hold
<1>3. Clearing(aggs) = Dominant(aggs) /\ Clearing(aggs) \subseteq Artifacts
  BY <1>1, ClearingIsDominant, AggregatesType DEF Clearing, Challengers
<1>4. /\ earned' \in [Artifacts -> [total : 0..Warmup, consecutive : 0..Warmup]]
      /\ \A a \in Artifacts :
           /\ earned[a].total <= earned'[a].total
           /\ a \in Clearing(aggs) =>
                /\ earned'[a].total = Smaller(earned[a].total + 1, Warmup)
                /\ earned'[a].consecutive = Smaller(earned[a].consecutive + 1, Warmup)
           /\ a \notin Clearing(aggs) => earned'[a].consecutive = 0
  BY <1>1, <1>3, EarnType DEF Hold
<1>5. \A a \in Artifacts : a \in Clearing(aggs) => sustained[a] + 1 < Warmup
  BY <1>1 DEF Hold, Contenders, TypeOK
<1>6. sustained' \in [Artifacts -> Nat]
      /\ \A a \in Artifacts :
           /\ a \in Clearing(aggs) => sustained'[a] = sustained[a] + 1
           /\ a \notin Clearing(aggs) => sustained'[a] = 0 \/ sustained'[a] = sustained[a]
  BY <1>1 DEF Hold, StreaksAfter, TypeOK
<1>7. TypeOK'
  <2>1. observed' \in [noisy    : BOOLEAN,
                       dominant : SUBSET Artifacts,
                       leaders  : SUBSET Artifacts]
    BY <1>3 DEF Hold, Quiet, Leaders
  <2> QED BY <1>1, <1>2, <1>4, <1>6, <2>1 DEF TypeOK
<1>8. NoSustainedChallengerWaits'
  BY <1>1, <1>5, <1>6 DEF IInv, NoSustainedChallengerWaits
<1>9. StreaksWithinReign'
  <2> SUFFICES ASSUME NEW a \in Artifacts
               PROVE  sustained'[a] <= round_number + 1 - champion.crowned_round
    BY <1>1, <1>2 DEF StreaksWithinReign
  <2>1. sustained[a] \in Nat /\ sustained[a] <= round_number - champion.crowned_round
    BY <1>1 DEF IInv, StreaksWithinReign, TypeOK
  <2>2. sustained'[a] <= sustained[a] + 1
    BY <1>6, <2>1
  <2>3. sustained'[a] \in Nat
    BY <1>6
  <2> QED BY <1>1, <2>1, <2>2, <2>3
<1>10. StagnationWithinReign' /\ ReignStarted'
  BY <1>1, <1>2 DEF IInv, StagnationWithinReign, ReignStarted
<1>11. StreaksAreEarned'
  <2> SUFFICES ASSUME NEW a \in Artifacts
               PROVE  earned'[a].consecutive <= sustained'[a]
                      /\ sustained'[a] <= earned'[a].total
    BY DEF StreaksAreEarned
  <2>1. /\ sustained[a] \in Nat /\ sustained'[a] \in Nat
        /\ earned[a].total \in Nat /\ earned[a].consecutive \in Nat
        /\ earned'[a].total \in Nat /\ earned'[a].consecutive \in Nat
        /\ earned[a].consecutive <= sustained[a] /\ sustained[a] <= earned[a].total
    BY <1>1, <1>4, <1>6 DEF IInv, StreaksAreEarned, TypeOK
  <2>2. CASE a \in Clearing(aggs)
    BY <1>1, <1>4, <1>5, <1>6, <2>1, <2>2 DEF Smaller
  <2>3. CASE a \notin Clearing(aggs)
    BY <1>4, <1>6, <2>1, <2>3
  <2> QED BY <2>2, <2>3
<1> QED BY <1>7, <1>8, <1>9, <1>10, <1>11 DEF IInv

-----------------------------------------------------------------------------
(***************************************************************************)
(* The invariant.                                                          *)
(***************************************************************************)

(* IInv holds before the first round. *)
LEMMA InitIInv == Init => IInv
<1> SUFFICES ASSUME Init PROVE IInv
  OBVIOUS
<1>1. Warmup \in Nat \ {0}
  BY WarmupAssumption
<1>2. TypeOK
  BY <1>1 DEF Init, TypeOK, NothingEarned
<1>3. NoSustainedChallengerWaits /\ StreaksWithinReign
  BY <1>1 DEF Init, NoSustainedChallengerWaits, StreaksWithinReign
<1>4. StagnationWithinReign /\ ReignStarted
  BY DEF Init, StagnationWithinReign, ReignStarted
<1>5. StreaksAreEarned
  BY DEF Init, StreaksAreEarned, NothingEarned
<1> QED BY <1>2, <1>3, <1>4, <1>5 DEF IInv

(* One round, by whichever way it leaves evaluate, preserves IInv. *)
LEMMA EvaluateIInv ==
  ASSUME IInv, NEW aggs \in Aggregates, NEW noisy \in BOOLEAN, evaluate(aggs, noisy)
  PROVE  IInv'
<1>1. CASE NothingScored(noisy)
  BY <1>1, UnchallengedStep DEF NothingScored
<1>2. CASE NoCandidate(aggs, noisy)
  BY <1>2, UnchallengedStep DEF NoCandidate
<1>3. CASE Bootstrap(aggs, noisy)
  <2>1. PICK best \in Artifacts :
          /\ IsBest(aggs, {a \in DOMAIN aggs : aggs[a].screened}, best)
          /\ champion' = Crowned(aggs, best)
    BY <1>3 DEF Bootstrap
  <2>2. best \in DOMAIN aggs
    BY <2>1 DEF IsBest
  <2>3. /\ CountRound
        /\ UNCHANGED sustained
        /\ earned' = NothingEarned
        /\ champion = NoChampion
        /\ observed' \in [noisy    : BOOLEAN,
                          dominant : SUBSET Artifacts,
                          leaders  : SUBSET Artifacts]
    BY <1>3 DEF Bootstrap, Unchallenged
  <2>4. sustained' = [b \in Artifacts |-> 0]
    BY <2>3 DEF IInv, TypeOK, StreaksWithinReign
  <2> QED BY <2>1, <2>2, <2>3, <2>4, CrowningStep
<1>4. CASE NoisyRound(aggs)
  <2>1. /\ Advanced(aggs) \in Champion
        /\ Advanced(aggs).crowned_round = champion.crowned_round
        /\ Advanced(aggs).rounds_without_improvement
             <= champion.rounds_without_improvement + 1
    BY <1>4, AdvancedType DEF NoisyRound, IInv
  <2> QED BY <1>4, <2>1, UnchallengedStep DEF NoisyRound
<1>5. CASE Hold(aggs)
  BY <1>5, HoldStep
<1>6. CASE Dethrone(aggs)
  <2>1. PICK winner \in Artifacts :
          /\ IsBest(aggs, Contenders(aggs), winner)
          /\ champion' = Crowned(aggs, winner)
    BY <1>6 DEF Dethrone
  <2>2. winner \in DOMAIN aggs
    BY <2>1 DEF IsBest, Contenders, Clearing, Challengers
  <2>3. DOMAIN aggs \subseteq Artifacts
    BY AggregatesType
  <2>4. observed' \in [noisy    : BOOLEAN,
                       dominant : SUBSET Artifacts,
                       leaders  : SUBSET Artifacts]
    BY <1>6, <2>3 DEF Dethrone, Quiet, Dominant, Leaders, Challengers
  <2> QED BY <1>6, <2>1, <2>2, <2>4, CrowningStep DEF Dethrone
<1> QED BY <1>1, <1>2, <1>3, <1>4, <1>5, <1>6 DEF evaluate

(* Every step of the registry preserves IInv. *)
LEMMA NextIInv == IInv /\ [Next]_vars => IInv'
<1> SUFFICES ASSUME IInv, [Next]_vars PROVE IInv'
  OBVIOUS
<1>1. CASE Next
  BY <1>1, EvaluateIInv DEF Next
<1>2. CASE UNCHANGED vars
  BY <1>2 DEF vars, IInv, TypeOK, NoSustainedChallengerWaits, StreaksWithinReign,
              StagnationWithinReign, ReignStarted, StreaksAreEarned
<1> QED BY <1>1, <1>2

(* So IInv holds throughout. *)
LEMMA SpecIInv == Spec => []IInv
  BY InitIInv, NextIInv, PTL DEF Spec

(* Type correctness of the registry. *)
THEOREM TypeCorrect == Spec => []TypeOK
<1>1. IInv => TypeOK
  BY DEF IInv
<1> QED BY <1>1, SpecIInv, PTL

(* Defender advantage, the waiting side: evaluate crowns a challenger in   *)
(* the round its streak reaches the warm-up, so none is left with it.      *)
THEOREM SustainedChallengeIsAnswered == Spec => []NoSustainedChallengerWaits
<1>1. IInv => NoSustainedChallengerWaits
  BY DEF IInv
<1> QED BY <1>1, SpecIInv, PTL

(* The same of the rounds themselves: no artifact dominates the champion   *)
(* in Warmup rounds on end while the crown stays where it is.              *)
THEOREM UnbrokenDominanceIsCrowned == Spec => []UnbrokenDominanceWins
<1>1. IInv => UnbrokenDominanceWins
  <2> SUFFICES ASSUME IInv, NEW a \in Artifacts
               PROVE  earned[a].consecutive < Warmup
    BY DEF UnbrokenDominanceWins
  <2>1. earned[a].consecutive \in 0..Warmup /\ sustained[a] \in Nat
    BY DEF IInv, TypeOK
  <2> QED BY <2>1, WarmupAssumption DEF IInv, NoSustainedChallengerWaits, StreaksAreEarned
<1> QED BY <1>1, SpecIInv, PTL

(* No streak predates the crown it is a challenge to. *)
THEOREM StreaksBelongToTheReign == Spec => []StreaksWithinReign
<1>1. IInv => StreaksWithinReign
  BY DEF IInv
<1> QED BY <1>1, SpecIInv, PTL

(* _advance_champion counts a champion's stagnation within its reign only. *)
THEOREM StagnationBelongsToTheReign == Spec => []StagnationWithinReign
<1>1. IInv => StagnationWithinReign
  BY DEF IInv
<1> QED BY <1>1, SpecIInv, PTL

-----------------------------------------------------------------------------
(***************************************************************************)
(* What a step may do to the crown.                                        *)
(***************************************************************************)

(* The crown passes from one artifact to another through Dethrone alone. *)
LEMMA HandoverIsDethrone ==
  ASSUME IInv, [Next]_vars, HandsOver
  PROVE  \E aggs \in Aggregates : Dethrone(aggs)
<1>1. Next
  BY DEF HandsOver, vars
<1>2. PICK aggs \in Aggregates, noisy \in BOOLEAN : evaluate(aggs, noisy)
  BY <1>1 DEF Next
<1>3. TypeOK /\ champion # NoChampion
  BY DEF IInv, HandsOver
<1>4. ~NothingScored(noisy)
  BY DEF HandsOver, NothingScored
<1>5. ~NoCandidate(aggs, noisy) /\ ~Bootstrap(aggs, noisy)
  BY <1>3 DEF NoCandidate, Bootstrap
<1>6. Advanced(aggs).artifact_digest = champion.artifact_digest
  BY <1>3, AdvancedType
<1>7. ~NoisyRound(aggs) /\ ~Hold(aggs)
  BY <1>6 DEF HandsOver, NoisyRound, Hold
<1> QED BY <1>2, <1>4, <1>5, <1>7 DEF evaluate

(* What a handover shows of the winner and of the round. *)
LEMMA DethroneFacts ==
  ASSUME IInv, NEW aggs \in Aggregates, Dethrone(aggs)
  PROVE  LET w == champion'.artifact_digest
         IN  /\ w \in Artifacts
             /\ IsBest(aggs, Contenders(aggs), w)
             /\ w \in DOMAIN aggs
             /\ w \in Dominant(aggs)
             /\ sustained[w] + 1 >= Warmup
             /\ champion'.crowned_round = round_number + 1
             /\ observed' = [noisy    |-> FALSE,
                             dominant |-> Dominant(aggs),
                             leaders  |-> Leaders(aggs)]
<1>1. PICK w \in Artifacts :
        IsBest(aggs, Contenders(aggs), w) /\ champion' = Crowned(aggs, w)
  BY DEF Dethrone
<1>2. w \in Clearing(aggs) /\ sustained[w] + 1 >= Warmup
  BY <1>1 DEF IsBest, Contenders
<1>3. w \in DOMAIN aggs
  BY <1>2 DEF Clearing, Challengers
<1>4. champion'.artifact_digest = w /\ champion'.crowned_round = round_number + 1
  BY <1>1, <1>3, CrownedType DEF IInv
<1>5. w \in Dominant(aggs)
  BY <1>2, ClearingIsDominant DEF Dethrone, IInv
<1> QED BY <1>1, <1>2, <1>3, <1>4, <1>5 DEF Dethrone, Quiet

(* A streak starts with the reign it challenges, and a winner has a streak *)
(* of the warm-up's length.                                                *)
LEMMA HandoverAfterWarmup ==
  ASSUME IInv, [Next]_vars, HandsOver
  PROVE  champion'.crowned_round >= champion.crowned_round + Warmup
<1>1. PICK aggs \in Aggregates : Dethrone(aggs)
  BY HandoverIsDethrone
<1> DEFINE w == champion'.artifact_digest
<1>2. w \in Artifacts /\ sustained[w] + 1 >= Warmup
      /\ champion'.crowned_round = round_number + 1
  BY <1>1, DethroneFacts
<1>3. champion \in Champion /\ round_number \in Nat /\ sustained[w] \in Nat
  BY <1>2 DEF IInv, TypeOK, HandsOver
<1>4. sustained[w] <= round_number - champion.crowned_round
  BY <1>2 DEF IInv, StreaksWithinReign, HandsOver
<1> HIDE DEF w
<1> QED BY <1>2, <1>3, <1>4, WarmupAssumption

(* Defender advantage: a reign ended by a challenger lasted at least the   *)
(* warm-up.                                                                *)
THEOREM DefenderAdvantage == Spec => ReignLastsWarmup
<1>1. IInv /\ [Next]_vars
      => [HandsOver => champion'.crowned_round >= champion.crowned_round + Warmup]_vars
  BY HandoverAfterWarmup
<1> QED BY <1>1, SpecIInv, PTL DEF Spec, ReignLastsWarmup

(* Dominance band: the crown is taken in a quiet round, by an artifact     *)
(* that dominates the champion in that round and did in Warmup - 1 rounds  *)
(* of the same reign before.                                               *)
THEOREM CrownsAreEarned == Spec => CrownIsEarned
<1> DEFINE P == HandsOver =>
                  /\ ~observed'.noisy
                  /\ champion'.artifact_digest \in observed'.dominant
                  /\ earned[champion'.artifact_digest].total >= Warmup - 1
<1>1. ASSUME IInv, [Next]_vars, HandsOver
      PROVE  /\ ~observed'.noisy
             /\ champion'.artifact_digest \in observed'.dominant
             /\ earned[champion'.artifact_digest].total >= Warmup - 1
  <2>1. PICK aggs \in Aggregates : Dethrone(aggs)
    BY <1>1, HandoverIsDethrone
  <2> DEFINE w == champion'.artifact_digest
  <2>2. /\ w \in Artifacts /\ w \in Dominant(aggs)
        /\ sustained[w] + 1 >= Warmup
        /\ observed' = [noisy    |-> FALSE,
                        dominant |-> Dominant(aggs),
                        leaders  |-> Leaders(aggs)]
    BY <1>1, <2>1, DethroneFacts
  <2>3. ~observed'.noisy /\ w \in observed'.dominant
    BY <2>2
  <2>4. earned[w].total \in Nat /\ sustained[w] \in Nat /\ sustained[w] <= earned[w].total
    BY <1>1, <2>2, WarmupAssumption DEF IInv, TypeOK, StreaksAreEarned
  <2>5. earned[w].total >= Warmup - 1
    <3> HIDE DEF w
    <3> QED BY <2>2, <2>4, WarmupAssumption
  <2> QED BY <2>3, <2>5
<1>2. IInv /\ [Next]_vars => [P]_vars
  BY <1>1
<1> QED BY <1>2, SpecIInv, PTL DEF Spec, CrownIsEarned

(* Tie-break: an artifact that led the round after an unbroken warm-up     *)
(* loses the crown only to one that scored as high and committed no later. *)
THEOREM StrongestThenEarliestWins == Spec => StrongestThenEarliest
<1> DEFINE P == HandsOver =>
                  \A b \in observed'.leaders :
                    earned[b].consecutive >= Warmup - 1 =>
                      /\ champion'.artifact_digest \in observed'.leaders
                      /\ CommittedAt[champion'.artifact_digest] <= CommittedAt[b]
<1>1. ASSUME IInv, [Next]_vars, HandsOver,
             NEW b \in observed'.leaders, earned[b].consecutive >= Warmup - 1
      PROVE  /\ champion'.artifact_digest \in observed'.leaders
             /\ CommittedAt[champion'.artifact_digest] <= CommittedAt[b]
  <2>1. PICK aggs \in Aggregates : Dethrone(aggs)
    BY <1>1, HandoverIsDethrone
  <2> DEFINE w == champion'.artifact_digest
  <2>2. /\ w \in Artifacts /\ w \in Dominant(aggs)
        /\ IsBest(aggs, Contenders(aggs), w)
        /\ observed'.leaders = Leaders(aggs)
    BY <1>1, <2>1, DethroneFacts
  <2>3. b \in Dominant(aggs) /\ b \in Artifacts
        /\ \A d \in Dominant(aggs) : aggs[d].generalist_score <= aggs[b].generalist_score
    BY <1>1, <2>2, AggregatesType DEF Leaders, Dominant, Challengers
  <2>4. b \in Clearing(aggs)
    BY <1>1, <2>1, <2>3, ClearingIsDominant DEF IInv, Dethrone
  <2>5. sustained[b] + 1 >= Warmup
    <3>1. earned[b].consecutive \in Nat /\ sustained[b] \in Nat
          /\ earned[b].consecutive <= sustained[b]
      BY <1>1, <2>3, WarmupAssumption DEF IInv, TypeOK, StreaksAreEarned
    <3> QED BY <1>1, <3>1, WarmupAssumption
  <2>6. Precedes(aggs, w, b)
    BY <2>2, <2>4, <2>5 DEF Contenders, IsBest
  <2>7. aggs[w].generalist_score \in Nat /\ aggs[b].generalist_score \in Nat
    BY <2>2, <2>3, AggregatesType DEF Dominant, Challengers
  <2>8. aggs[w].generalist_score = aggs[b].generalist_score
    BY <2>2, <2>3, <2>6, <2>7 DEF Precedes
  <2>9. w \in Leaders(aggs)
    BY <2>2, <2>3, <2>8 DEF Leaders
  <2>10. CommittedAt[w] \in Nat /\ CommittedAt[b] \in Nat
    BY <2>2, <2>3, OrderAssumption
  <2>11. CommittedAt[w] <= CommittedAt[b]
    BY <2>6, <2>7, <2>8, <2>10 DEF Precedes
  <2> QED BY <2>2, <2>9, <2>11
<1>2. IInv /\ [Next]_vars => [P]_vars
  BY <1>1
<1> QED BY <1>2, SpecIInv, PTL DEF Spec, StrongestThenEarliest

(* Stagnation payout: one more round without improvement never raises the  *)
(* multiplier.                                                             *)
LEMMA DecayIsMonotone ==
  ASSUME NEW c \in Champion, NEW d \in Champion,
         d.rounds_without_improvement = c.rounds_without_improvement + 1
  PROVE  ~(decay_multiplier(d) > decay_multiplier(c))
<1> DEFINE n == c.rounds_without_improvement - StagnationRounds
<1>1. /\ n \in Int
      /\ d.rounds_without_improvement - StagnationRounds = n + 1
  BY DecayAssumption
<1>2. DecayPerRound * (n + 1) = DecayPerRound * n + DecayPerRound
  BY <1>1, DecayAssumption
<1>3. DecayPerRound * n \in Int
  BY <1>1, DecayAssumption
<1>4. n > 0 => DecayPerRound * n \in Nat
  BY <1>1, DecayAssumption
<1>5. decay_multiplier(c) = IF n <= 0 THEN 100
                            ELSE Larger(DecayMinShare, 100 - DecayPerRound * n)
  BY DEF decay_multiplier
<1>6. decay_multiplier(d) = IF n + 1 <= 0 THEN 100
                            ELSE Larger(DecayMinShare, 100 - DecayPerRound * (n + 1))
  BY <1>1 DEF decay_multiplier
<1>7. n = 0 => DecayPerRound * n = 0
  BY DecayAssumption
<1> DEFINE p == DecayPerRound * n
<1>8. n + 1 > 0 => p \in Nat
  BY <1>1, <1>4, <1>7
<1>9. CASE n + 1 <= 0
  BY <1>1, <1>5, <1>6, <1>9
<1>10. CASE n + 1 > 0
  <2>1. decay_multiplier(d) = Larger(DecayMinShare, 100 - (p + DecayPerRound))
    BY <1>1, <1>2, <1>6, <1>10
  <2>2. decay_multiplier(c) = 100
        \/ decay_multiplier(c) = Larger(DecayMinShare, 100 - p)
    BY <1>5
  <2>3. p \in Nat
    BY <1>8, <1>10
  <2> HIDE DEF p, n
  <2> QED BY <2>1, <2>2, <2>3, DecayAssumption DEF Larger
<1> QED BY <1>1, <1>9, <1>10

(* Stagnation payout: within a reign the multiplier recovers only when the *)
(* champion beats the score it was crowned with.                           *)
THEOREM StagnantPayoutOnlyFalls == Spec => PayoutRecoversByImproving
<1> DEFINE Recovers == /\ champion # NoChampion
                       /\ champion'.artifact_digest = champion.artifact_digest
                       /\ decay_multiplier(champion') > decay_multiplier(champion)
<1>1. ASSUME IInv, Next, Recovers
      PROVE  champion'.crowned_score > champion.crowned_score
  <2>1. PICK aggs \in Aggregates, noisy \in BOOLEAN : evaluate(aggs, noisy)
    BY <1>1 DEF Next
  <2>2. TypeOK /\ champion # NoChampion /\ champion \in Champion
    BY <1>1 DEF IInv, TypeOK
  <2>3. CASE champion' = Advanced(aggs)
    <3>1. champion' \in Champion
      BY <2>2, <2>3, AdvancedType
    <3>2. CASE Improved(aggs)
      BY <2>3, <3>2 DEF Advanced, Improved
    <3>3. CASE ~Improved(aggs)
      <4>1. champion'.rounds_without_improvement = champion.rounds_without_improvement + 1
        BY <2>3, <3>3 DEF Advanced
      <4> QED BY <1>1, <2>2, <3>1, <4>1, DecayIsMonotone
    <3> QED BY <3>2, <3>3
  <2>4. CASE champion' = champion
    <3>1. decay_multiplier(champion) \in Int
      BY <2>2, DecayAssumption DEF decay_multiplier, Larger
    <3> QED BY <1>1, <2>4, <3>1
  <2>5. CASE Dethrone(aggs)
    <3>1. champion'.artifact_digest \in Challengers(aggs)
      BY <1>1, <2>5, DethroneFacts DEF Dominant
    <3> QED BY <1>1, <3>1 DEF Challengers
  <2> QED BY <2>1, <2>2, <2>3, <2>4, <2>5
          DEF evaluate, NothingScored, NoCandidate, Bootstrap, NoisyRound, Hold
<1>2. IInv /\ [Next]_vars
      => [Recovers => champion'.crowned_score > champion.crowned_score]_vars
  BY <1>1
<1> QED BY <1>2, SpecIInv, PTL DEF Spec, PayoutRecoversByImproving

=============================================================================
