--------------------------- MODULE RoundStandings ---------------------------
(***************************************************************************)
(* One validator's rounds from patches to standings: RoundRunner.verify    *)
(* (validator/round.py) evaluates the produced patches one after another,  *)
(* RoundAggregator (scoring/aggregate.py) turns what is left of them into  *)
(* one outcome per artifact and task, and EmissionAllocator.record_round   *)
(* (scoring/emissions.py) keeps each artifact's reliability history.       *)
(*                                                                         *)
(* A patch is abstracted to what evaluating it comes to, its verdict; a    *)
(* score is a small number, 0 for an honest null.                          *)
(***************************************************************************)
EXTENDS Integers, FiniteSets

CONSTANTS
  Artifacts,    \* image digests of the frozen set
  Tasks,        \* the tasks of the round plan
  Hidden,       \* those from held-out packages
  DigestOrder,  \* position of an artifact in sorted(artifacts)
  PlanOrder,    \* position of a task in plan.tasks
  Scores,       \* the scores a patch can get
  NoPatch,      \* no accepted patch for a task
  MaxRounds     \* bound on the rounds explored

ASSUME PlanAssumption == Hidden \subseteq Tasks

ASSUME OrderAssumption ==
  /\ DigestOrder \in [Artifacts -> Nat]
  /\ \A a, b \in Artifacts : DigestOrder[a] = DigestOrder[b] => a = b
  /\ PlanOrder \in [Tasks -> Nat]
  /\ \A t, u \in Tasks : PlanOrder[t] = PlanOrder[u] => t = u

ASSUME ScoreAssumption == Scores \subseteq Nat

ASSUME BoundAssumption == MaxRounds \in Nat

Pairs == Artifacts \X Tasks

(* What became of a pair: the agent broke the interface or could not run   *)
(* ("refused") or returned no patch ("empty"), and verify never sees it;   *)
(* the task turned out unmeasurable ("void"); the evaluator crashed        *)
(* ("error"); a gate failed ("gate"); every gate passed ("scored").        *)
Kinds == {"unseen", "refused", "empty", "void", "error", "gate", "scored"}

Verdict == [kind : Kinds, score : Scores \cup {0}]

Unseen == [kind |-> "unseen", score |-> 0]

(* The fields of a ScoreArtifact the round goes by. *)
ScoreArtifact ==
  [artifact : Artifacts, task : Tasks, voided : BOOLEAN, passed : BOOLEAN,
   score : Scores \cup {0}]

ReliabilityRecord ==
  [rounds_participated : Nat, correctness_failures : Nat, consecutive_clean_rounds : Nat]

Best == [artifact : Artifacts, score : Scores]

ASSUME NoPatchAssumption == NoPatch \notin Best

VARIABLES
  phase,            \* "preparing", "verifying", "closing"
  todo,             \* pairs verify has not come to
  voided_tasks,     \* RoundResult.voided_tasks
  score_artifacts,  \* RoundResult.score_artifacts
  best_by_task,     \* task -> best score so far and the artifact it is from
  reliability,      \* EmissionAllocator.reliability
  rounds,           \* rounds closed
  verdicts          \* history: what became of each pair of this round

result == <<voided_tasks, score_artifacts, best_by_task>>
vars == <<phase, todo, result, reliability, rounds, verdicts>>

-----------------------------------------------------------------------------
(***************************************************************************)
(* RoundRunner.verify.                                                     *)
(***************************************************************************)

(* assign_producers: tasks as in the plan, and for each the artifacts by   *)
(* digest.  produce_patches and verify keep that order.                    *)
Before(p, q) ==
  \/ PlanOrder[p[2]] < PlanOrder[q[2]]
  \/ p[2] = q[2] /\ DigestOrder[p[1]] < DigestOrder[q[1]]

IsNextPair(p) == p \in todo /\ \A q \in todo : q # p => Before(p, q)

(* _prepare_cases: a task without hidden inputs is voided at the outset. *)
Prepare(unpreparable) ==
  /\ phase = "preparing"
  /\ rounds < MaxRounds
  /\ phase' = "verifying"
  /\ todo' = Pairs
  /\ voided_tasks' = unpreparable
  /\ score_artifacts' = {}
  /\ best_by_task' = [t \in Tasks |-> NoPatch]
  /\ verdicts' = [p \in Pairs |-> Unseen]
  /\ UNCHANGED <<reliability, rounds>>

(* The loop comes to pair p, whose verdict is v. *)
Visit(p, v) ==
  /\ phase = "verifying"
  /\ IsNextPair(p)
  /\ todo' = todo \ {p}
  /\ verdicts' = [verdicts EXCEPT ![p] = v]
  /\ UNCHANGED <<phase, reliability, rounds>>

(* No patch was produced for the pair. *)
NoPatchProduced(p, kind) ==
  /\ Visit(p, [kind |-> kind, score |-> 0])
  /\ UNCHANGED result

(* The pair's task was voided before: its patch is not looked at. *)
SkipVoided(p) ==
  /\ p[2] \in voided_tasks
  /\ Visit(p, Unseen)
  /\ UNCHANGED result

(* TaskVoided: dropped for everyone, those already scored included. *)
VoidTask(p) ==
  /\ p[2] \notin voided_tasks
  /\ Visit(p, [kind |-> "void", score |-> 0])
  /\ voided_tasks' = voided_tasks \cup {p[2]}
  /\ score_artifacts' = {s \in score_artifacts : s.task # p[2]}
  /\ UNCHANGED best_by_task

(* Seeded fault: a crash leaves a sentinel score. *)
EvaluationErrorScored(p) ==
  /\ p[2] \notin voided_tasks
  /\ Visit(p, [kind |-> "error", score |-> 0])
  /\ score_artifacts' = score_artifacts \cup
       {[artifact |-> p[1], task |-> p[2], voided |-> TRUE, passed |-> TRUE, score |-> -1]}
  /\ UNCHANGED <<voided_tasks, best_by_task>>

(* The evaluator raised anything else: an artifact marked voided. *)
EvaluationError(p) ==
  /\ p[2] \notin voided_tasks
  /\ Visit(p, [kind |-> "error", score |-> 0])
  /\ score_artifacts' = score_artifacts \cup
       {[artifact |-> p[1], task |-> p[2], voided |-> TRUE, passed |-> TRUE, score |-> 0]}
  /\ UNCHANGED <<voided_tasks, best_by_task>>

(* A gate failed: a zero. *)
GateFailure(p) ==
  /\ p[2] \notin voided_tasks
  /\ Visit(p, [kind |-> "gate", score |-> 0])
  /\ score_artifacts' = score_artifacts \cup
       {[artifact |-> p[1], task |-> p[2], voided |-> FALSE, passed |-> FALSE, score |-> 0]}
  /\ UNCHANGED <<voided_tasks, best_by_task>>

(* Seeded fault: an equal score replaces the best. *)
BeatsOrTies(score, prior) == score > 0 /\ (prior = NoPatch \/ score >= prior.score)

(* Better than the best so far: an earlier patch is kept on a tie. *)
Beats(score, prior) == score > 0 /\ (prior = NoPatch \/ score > prior.score)

(* Every gate passed. *)
Score(p, score) ==
  /\ p[2] \notin voided_tasks
  /\ Visit(p, [kind |-> "scored", score |-> score])
  /\ score_artifacts' = score_artifacts \cup
       {[artifact |-> p[1], task |-> p[2], voided |-> FALSE, passed |-> TRUE, score |-> score]}
  /\ best_by_task' =
       IF Beats(score, best_by_task[p[2]])
         THEN [best_by_task EXCEPT ![p[2]] = [artifact |-> p[1], score |-> score]]
         ELSE best_by_task
  /\ UNCHANGED voided_tasks

FinishVerify ==
  /\ phase = "verifying"
  /\ todo = {}
  /\ phase' = "closing"
  /\ UNCHANGED <<todo, result, reliability, rounds, verdicts>>

(* What the audit bundle publishes for a task. *)
accepted_patches ==
  [t \in Tasks |->
     IF t \in voided_tasks \/ t \in Hidden THEN NoPatch ELSE best_by_task[t]]

-----------------------------------------------------------------------------
(***************************************************************************)
(* RoundAggregator.                                                        *)
(***************************************************************************)

(* Seeded fault: artifacts marked voided are added like the others. *)
ByPairAll(a, t) ==
  {s \in score_artifacts : s.artifact = a /\ s.task = t /\ t \notin voided_tasks}

(* add skips artifacts marked voided; void_task drops its task's. *)
ByPair(a, t) ==
  {s \in score_artifacts :
     /\ s.artifact = a /\ s.task = t
     /\ ~s.voided
     /\ t \notin voided_tasks}

(* The artifacts aggregate() returns a standing for. *)
Aggregated == {a \in Artifacts : \E t \in Tasks : ByPair(a, t) # {}}

(* Seeded fault: voided tasks stay in the denominator. *)
ActiveAll == Tasks

(* The tasks a standing covers: each registered task that was not voided,  *)
(* attempted or not.                                                       *)
Active == Tasks \ voided_tasks

(* gates_passed of the outcome of a on t; an outcome added for coverage    *)
(* has not passed.                                                         *)
gates_passed(a, t) == ByPair(a, t) # {} /\ \A s \in ByPair(a, t) : s.passed

(* Its score: a task not cleared counts zero. *)
OutcomeScore(a, t) ==
  IF gates_passed(a, t) THEN (CHOOSE s \in ByPair(a, t) : TRUE).score ELSE 0

aggregate == [a \in Aggregated |-> [t \in Active |-> OutcomeScore(a, t)]]

-----------------------------------------------------------------------------
(***************************************************************************)
(* EmissionAllocator.record_round.                                         *)
(***************************************************************************)

Failed(a) == \E t \in Active : ~gates_passed(a, t)

(* Seeded fault: a failure does not end the clean rounds. *)
RecordedWithoutReset(a) ==
  LET prior == reliability[a]
  IN  [rounds_participated      |-> prior.rounds_participated + 1,
       correctness_failures     |-> prior.correctness_failures + (IF Failed(a) THEN 1 ELSE 0),
       consecutive_clean_rounds |-> prior.consecutive_clean_rounds + 1]

(* The record an aggregated artifact has after the round. *)
Recorded(a) ==
  LET prior == reliability[a]
  IN  [rounds_participated      |-> prior.rounds_participated + 1,
       correctness_failures     |-> prior.correctness_failures + (IF Failed(a) THEN 1 ELSE 0),
       consecutive_clean_rounds |-> IF Failed(a) THEN 0
                                    ELSE prior.consecutive_clean_rounds + 1]

RecordRound ==
  /\ phase = "closing"
  /\ phase' = "preparing"
  /\ reliability' = [a \in Artifacts |->
                       IF a \in Aggregated THEN Recorded(a) ELSE reliability[a]]
  /\ rounds' = rounds + 1
  /\ UNCHANGED <<todo, result, verdicts>>

(* ReliabilityRecord(digest), which .get defaults to. *)
NoHistory ==
  [rounds_participated |-> 0, correctness_failures |-> 0, consecutive_clean_rounds |-> 0]

Init ==
  /\ phase = "preparing"
  /\ todo = {}
  /\ voided_tasks = {}
  /\ score_artifacts = {}
  /\ best_by_task = [t \in Tasks |-> NoPatch]
  /\ reliability = [a \in Artifacts |-> NoHistory]
  /\ rounds = 0
  /\ verdicts = [p \in Pairs |-> Unseen]

VisitPair(p) ==
  \/ \E kind \in {"refused", "empty"} : NoPatchProduced(p, kind)
  \/ SkipVoided(p)
  \/ VoidTask(p)
  \/ EvaluationError(p)
  \/ GateFailure(p)
  \/ \E score \in Scores : Score(p, score)

Next ==
  \/ \E unpreparable \in SUBSET Tasks : Prepare(unpreparable)
  \/ \E p \in Pairs : VisitPair(p)
  \/ FinishVerify
  \/ RecordRound

Spec == Init /\ [][Next]_vars

-----------------------------------------------------------------------------
(***************************************************************************)
(* Properties.                                                             *)
(***************************************************************************)

(* Type invariant. *)
TypeOK ==
  /\ phase \in {"preparing", "verifying", "closing"}
  /\ todo \in SUBSET Pairs
  /\ voided_tasks \in SUBSET Tasks
  /\ score_artifacts \in SUBSET ScoreArtifact
  /\ best_by_task \in [Tasks -> Best \cup {NoPatch}]
  /\ reliability \in [Artifacts -> ReliabilityRecord]
  /\ rounds \in 0..MaxRounds
  /\ verdicts \in [Pairs -> Verdict]

(* The round's standings as they follow from its verdicts alone, in        *)
(* whatever order those came: one for each artifact that was measured on a *)
(* task nobody voided, with a score for each such task.                    *)
Measured(a) == {t \in Active : verdicts[<<a, t>>].kind \in {"gate", "scored"}}

Standings ==
  [a \in {b \in Artifacts : Measured(b) # {}} |->
     [t \in Active |-> verdicts[<<a, t>>].score]]

(* Voiding a task in the middle of the loop, after some of its patches     *)
(* were scored and before the rest are looked at, leaves every standing    *)
(* what it would be in any other order.                                    *)
StandingsMatchVerdicts == phase = "closing" => aggregate = Standings

(* The audit bundle publishes, for each public task that was not voided,   *)
(* the patch that scored best, the first of equals by digest, and nothing  *)
(* else.                                                                   *)
PublishedPatchIsBest ==
  phase = "closing" =>
    \A t \in Tasks :
      LET winners == {a \in Artifacts : verdicts[<<a, t>>].kind = "scored"
                                        /\ verdicts[<<a, t>>].score > 0}
      IN  IF t \in Hidden \/ t \in voided_tasks \/ winners = {}
            THEN accepted_patches[t] = NoPatch
            ELSE \E a \in winners :
                   /\ accepted_patches[t] =
                        [artifact |-> a, score |-> verdicts[<<a, t>>].score]
                   /\ \A b \in winners \ {a} :
                        \/ verdicts[<<b, t>>].score < verdicts[<<a, t>>].score
                        \/ /\ verdicts[<<b, t>>].score = verdicts[<<a, t>>].score
                           /\ DigestOrder[a] < DigestOrder[b]

(* "The task is dropped for everyone": an artifact that passed every gate  *)
(* on the tasks that were left has a clean round, whatever it came to on a *)
(* task that was voided before or after.                                   *)
VoidIsNobodysPenalty ==
  [][\A a \in Artifacts :
       (/\ rounds' = rounds + 1
        /\ Active # {}
        /\ \A t \in Active : verdicts[<<a, t>>].kind = "scored")
       => reliability'[a] =
            [rounds_participated      |-> reliability[a].rounds_participated + 1,
             correctness_failures     |-> reliability[a].correctness_failures,
             consecutive_clean_rounds |-> reliability[a].consecutive_clean_rounds + 1]]_vars

(* A record counts each round once, as a failure or as clean: the clean    *)
(* rate that weights the floor pool stays between zero and one.            *)
RecordsAddUp ==
  \A a \in Artifacts :
    /\ reliability[a].correctness_failures + reliability[a].consecutive_clean_rounds
         <= reliability[a].rounds_participated
    /\ reliability[a].rounds_participated <= rounds

=============================================================================
