----------------------------- MODULE Algorithms -----------------------------
(***************************************************************************)
(* The pure computations of a validator, each called once with inputs of   *)
(* every sort: the task plan of a round (Selection), the weight vectors    *)
(* (Emissions), the reading and the score of a measurement (Measurement)   *)
(* and the equivalence of two executions (Comparators).                    *)
(***************************************************************************)
EXTENDS Selection, Emissions, Measurement, Comparators

CONSTANTS
  Plans,         \* inputs of derive_round: the roots and the entropy
  Rounds,        \* of the allocator: aggregates, records, champion
  Readings,      \* of measure: the work of each process, and the version
  Measurements,  \* of the score: repeats, bound, reference and evidence
  Comparisons,   \* of a comparator: two observations and a contract
  Pending        \* no answer yet

(* A draw is a number, of which the code takes the remainder. *)
ASSUME PlansAssumption ==
  \A plan \in Plans :
    /\ plan.roots \in Seq(Seq(Packages))
    /\ \A i \in 1 .. PublicCount : plan.entropy.public[i] \in Nat
    /\ \A i \in 1 .. HiddenCount : plan.entropy.hidden[i] \in Nat

(* Records count what record_round counts, at most one failure a round; a  *)
(* champion keeps the least share of decay_multiplier, which is not 0.     *)
ASSUME RoundsAssumption ==
  \A round \in Rounds :
    /\ DOMAIN round.aggs \subseteq Digests
    /\ round.aggs \in [DOMAIN round.aggs -> [Tasks -> Nat \cup {Failed}]]
    /\ \A d \in DOMAIN round.aggs :
         round.records[d].rounds \in Nat
         /\ round.records[d].failures \in 0 .. round.records[d].rounds
    /\ round.champion \in [digest : Digests \cup {None}, hotkey : Hotkeys \cup {None},
                            decay : 1 .. 20]

(* Valgrind counts no event of a process without an instruction. *)
ASSUME ReadingsAssumption ==
  \A reading \in Readings :
    /\ reading.works \in Seq([1 .. Events -> Nat])
    /\ \A p \in DOMAIN reading.works :
         reading.works[p][1] = 0 => reading.works[p] = [e \in 1 .. Events |-> 0]

(* Repeats counted instructions, as parse_callgrind_output makes sure, and *)
(* so does the bound of the bootstrap; an agreement is in thousandths.     *)
ASSUME MeasurementsAssumption ==
  LET Samples == Seq(Nat \ {0}) \ {<<>>}
      Pair == {Absent} \cup (Nat \X Nat)
  IN  Measurements \subseteq
        [base : Samples, cand : Samples, lcb : [num : Nat \ {0}, den : Nat \ {0}],
         s_ref : Nat, hidden : BOOLEAN,
         evidence : [peak_rss : Pair, p95 : Pair, compile_time : Pair,
                     agreement : {Absent} \cup 0 .. 1000]]

(* A budget in units of the last place does not bridge the gap that        *)
(* _ulp_distance leaves between the signs, 2 ^ 53 for doubles.             *)
ASSUME ComparisonsAssumption ==
  /\ Unset # {}
  /\ \A comparison \in Comparisons :
       LET contract == comparison.contract
           Float == [negative : BOOLEAN, bits : 0 .. Infinite]
       IN  /\ comparison.b.stdout.numbers \in Seq(Float)
           /\ comparison.c.stdout.numbers \in Seq(Float)
           /\ contract.discipline \in Disciplines
           /\ contract.ulp # Unset => contract.ulp \in 0 .. 2 * (Magnitude - Infinite) - 1
           /\ contract.relative # Unset => contract.relative \in Nat

VARIABLES
  call,   \* the computation and its input
  answer  \* what it returned

vars == <<call, answer>>

Called(computation) == answer = Pending /\ call.of = computation

Return(result) == answer' = result /\ UNCHANGED call

DeriveRound ==
  Called("plan") /\ Return(derive_round(call.input.roots, call.input.entropy))

Allocate == Called("vectors") /\ Return(Allocation(call.input))

ReadCounters ==
  /\ Called("reading")
  /\ Return(measure([p \in DOMAIN call.input.works |->
                       Written(call.input.works[p], call.input.version)]))

ScoreTask == Called("score") /\ Return(Score(call.input))

Compare ==
  /\ Called("verdict")
  /\ Return(Divergences(call.input.b, call.input.c, call.input.contract))

Init ==
  /\ call \in [of : {"plan"}, input : Plans] \cup [of : {"vectors"}, input : Rounds]
              \cup [of : {"reading"}, input : Readings]
              \cup [of : {"score"}, input : Measurements]
              \cup [of : {"verdict"}, input : Comparisons]
  /\ answer = Pending

Next == DeriveRound \/ Allocate \/ ReadCounters \/ ScoreTask \/ Compare

Spec == Init /\ [][Next]_vars

-----------------------------------------------------------------------------
(***************************************************************************)
(* Properties.                                                             *)
(***************************************************************************)

Answered(computation) == answer # Pending /\ call.of = computation

Decays == {r.champion.decay : r \in Rounds}

(* The choice of packages is fair: none is drawn twice or from the wrong   *)
(* side, and no other remainders would have drawn the same packages in the *)
(* same order, so every order is as likely as every other; the profile of  *)
(* a package is drawn by as many points as it has weight, rounded.         *)
SelectionIsFair ==
  Answered("plan") /\ ~answer.refused =>
    LET packages == load(call.input.roots).packages
        public == Pool(packages, FALSE)
        hidden == Pool(packages, TRUE)
        mine == call.input.entropy
    IN  /\ DrawnOnce(answer.public, packages, FALSE)
        /\ DrawnOnce(answer.hidden, packages, TRUE)
        /\ \A plan \in Plans :
             LET other == derive_round(plan.roots, plan.entropy)
                 theirs == plan.entropy
             IN  plan.roots = call.input.roots =>
                   /\ Chosen(other.public) = Chosen(answer.public) =>
                        Remainders(public, PublicCount, theirs.public)
                          = Remainders(public, PublicCount, mine.public)
                   /\ Chosen(other.hidden) = Chosen(answer.hidden) =>
                        Remainders(hidden, HiddenCount, theirs.hidden)
                          = Remainders(hidden, HiddenCount, mine.hidden)
        /\ \A i \in DOMAIN packages : WeightsAreKept(packages[i].weights)

(* Validators with the same packages derive the same tasks, however their  *)
(* corpora are split over roots and in whatever order they are listed.     *)
PlanIgnoresLoadOrder ==
  Answered("plan") /\ ~answer.refused =>
    \A plan \in Plans :
      /\ plan.entropy = call.input.entropy
      /\ ~load(plan.roots).refused
      /\ ToSet(load(plan.roots).packages) = ToSet(load(call.input.roots).packages)
      => derive_round(plan.roots, plan.entropy) = answer

(* Emission is never withheld from a round with verified work. *)
NothingIsWithheld == Answered("vectors") => AllocatesAll(call.input, answer)

(* The share a stagnant champion loses goes to others, if there are any. *)
StagnationIsNotRewarded == Answered("vectors") => DecayBites(call.input, answer, Decays)

(* Survivors of the screen are paid by what generalises. *)
SurvivorsEarnByHeldOut == Answered("vectors") => PoolFollowsHeldOut(call.input, answer)

(* A reading holds the work of every process, and nothing else, whatever   *)
(* version of valgrind wrote it.                                           *)
ReadingIsTheWork ==
  Answered("reading") => answer = AllWork(call.input.works)

(* Uncertainty costs the miner and never the network. *)
UncertaintyCostsTheMiner == Answered("score") => UncertaintyCosts(call.input, answer)

(* What is accepted agrees in every side effect the contract declares and  *)
(* in what its discipline judges, numbers within its budget; and without a *)
(* budget relative to the baseline it would be accepted the other way too. *)
AcceptanceIsBacked ==
  Answered("verdict") /\ answer = {} =>
    AcceptanceHolds(call.input.b, call.input.c, call.input.contract)

=============================================================================
