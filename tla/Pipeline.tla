------------------------------ MODULE Pipeline ------------------------------
(***************************************************************************)
(* The evaluation of one task's patches by one validator: the loop of      *)
(* RoundRunner.verify (validator/round.py) over the patches, and for each  *)
(* the stages of Evaluator.evaluate (evaluation/pipeline.py), with the     *)
(* baseline cache and the evaluator that the patches share.                *)
(*                                                                         *)
(* What a check reports follows from what the patch, the task and the host *)
(* are in truth (Patches).  The validator's own trouble - an exception     *)
(* nobody foresaw, a container that times out - can strike at any stage.   *)
(* Trouble that makes the programs it starts exit with an error, as a host *)
(* without memory or without valgrind does, cannot be told from theirs and *)
(* is not modelled.                                                        *)
(***************************************************************************)
EXTENDS Patches, Integers

CONSTANTS
  Candidates,            \* the patches produced for the task
  CandidatePatches,      \* the kinds of patch they can be
  Tasks,                 \* the kinds of task
  sign_agreement_reruns, \* SPEC.measurement.sign_agreement_reruns
  MaxNoise,              \* bound on the readings of a pair that noise can turn round
  NoArtifact, NoPair     \* nothing recorded for a pair, no pair under evaluation

ASSUME InputAssumption == CandidatePatches \subseteq Patch /\ Tasks \subseteq Task

(* A confident reading with the wrong sign is rare: never as many of them  *)
(* for one pair as it takes to void.                                       *)
ASSUME NoiseAssumption ==
  /\ sign_agreement_reruns \in Nat
  /\ MaxNoise \in 0..sign_agreement_reruns

(* Builder.build: flags of the last build in a workspace. *)
Tree == [level : {"none", "O1", "O2"}, sanitizer : {"none", "asan", "ubsan"}]

Built(level) == [level |-> level, sanitizer |-> "none"]

GateResult == [name : GateName, passed : BOOLEAN]

ScoreArtifact ==
  [voided : BOOLEAN, gates : SUBSET GateResult, tier_b : {"none", "agreed", "contradicted"},
   positive : BOOLEAN, honest_null : BOOLEAN]

ASSUME NoArtifactAssumption == NoArtifact \notin ScoreArtifact
ASSUME NoPairAssumption == NoPair \notin Candidates

(* Where evaluate goes when the gates of a stage hold. *)
After ==
  [baseline_stable |-> "patch_hygiene", patch_hygiene |-> "patch_applies",
   patch_applies |-> "immutable_tree", immutable_tree |-> "build", build |-> "interface",
   interface |-> "public_tests", public_tests |-> "differential", differential |-> "asan",
   asan |-> "ubsan", ubsan |-> "fuzz", fuzz |-> "second_opt_level",
   second_opt_level |-> "tier_a", tier_a |-> "tier_b", tier_b |-> "score"]

Stages == DOMAIN After \cup {"score"}

VARIABLES
  patch, task, host,  \* what is evaluated, and where
  cache,      \* BaselineBuilder has stored measurements of the task's baseline
  pair,       \* candidate under evaluation
  stage,      \* of its evaluation, "idle" between two
  gates,      \* Evaluator._gates
  tree,       \* the candidate's workspace as built last
  attempt,    \* of _measure_tier_b's loop
  noise,      \* readings of this pair noise has turned round
  tier_b,     \* the wall-clock evidence for this pair
  artifacts,  \* RoundResult.score_artifacts of the task
  voided      \* the task is among RoundResult.voided_tasks

given == <<patch, task, host>>
vars == <<given, cache, pair, stage, gates, tree, attempt, noise, tier_b, artifacts, voided>>

-----------------------------------------------------------------------------
(* How a stage ends *)

Result(name, passed) == [name |-> name, passed |-> passed]

Failed(results) == \E g \in results : ~g.passed

(* The workspaces are removed however evaluate is left. *)
Cleanup ==
  /\ pair' = NoPair
  /\ stage' = "idle"
  /\ tree' = Built("none")
  /\ attempt' = 0
  /\ noise' = 0
  /\ tier_b' = "none"

Leave(artifact) ==
  /\ artifacts' = [artifacts EXCEPT ![pair] = artifact]
  /\ Cleanup
  /\ UNCHANGED voided

(* _finish, and verify appending the artifact. *)
Finish(results, evidence, positive, null) ==
  Leave([voided |-> FALSE, gates |-> results, tier_b |-> evidence,
         positive |-> positive /\ ~Failed(results), honest_null |-> null /\ ~Failed(results)])

(* verify's handler for any exception but TaskVoided. *)
EvaluationError ==
  Leave([voided |-> TRUE, gates |-> {}, tier_b |-> "none",
         positive |-> FALSE, honest_null |-> FALSE])

(* verify's handler for TaskVoided.  One raised in a verification          *)
(* container ends it without an artifact, which verify meets as a          *)
(* SandboxVerifyError.                                                     *)
TaskVoided ==
  IF host.sandbox
    THEN EvaluationError
    ELSE /\ voided' = TRUE
         /\ artifacts' = [c \in Candidates |-> NoArtifact]
         /\ Cleanup

Continue(built) ==
  /\ stage' = After[stage]
  /\ tree' = built
  /\ UNCHANGED <<pair, attempt, noise, tier_b, artifacts, voided>>

(* _record, and _finish if a gate has failed. *)
Record(results, built) ==
  /\ gates' = gates \cup results
  /\ IF Failed(gates') THEN Finish(gates', "none", FALSE, FALSE) ELSE Continue(built)

Flawed(gate) == patch[pair].flaw = gate

Hangs(gate) == Flawed(gate) /\ patch[pair].hangs

(* The unmodified repository fails the gate too, or its build does.        *)
Ailing(gate) ==
  \/ task.trouble = gate
  \/ task.trouble = "flaky_build" /\ gate \in Building

(* A gate looks at the patched tree only.  What ails the repository may    *)
(* show in it or not: it comes and goes, or the patch happens to mend it.  *)
Outcomes(gate) ==
  IF Flawed(gate) THEN {FALSE} ELSE IF Ailing(gate) THEN BOOLEAN ELSE {TRUE}

(* Gates decided together. *)
Decide(checks, built) ==
  \E outcome \in [checks -> BOOLEAN] :
    /\ \A g \in checks : outcome[g] \in Outcomes(g)
    /\ Record({Result(g, outcome[g]) : g \in checks}, built)

(* Seeded fault: the process runs under no time limit. *)
RunGateUntimed(gate, built) == ~Hangs(gate) /\ Decide({gate}, built)

(* A gate whose process runs under a timeout that nobody catches. *)
RunGate(gate, built) ==
  IF Hangs(gate)
    THEN EvaluationError /\ UNCHANGED gates
    ELSE Decide({gate}, built)

-----------------------------------------------------------------------------
(* Stage 1: BaselineBuilder.reproduce *)

(* Seeded fault: the shared evaluator keeps the gates of the pair before.  *)
VisitKeepingGates(c) ==
  /\ stage = "idle"
  /\ ~voided
  /\ artifacts[c] = NoArtifact
  /\ pair' = c
  /\ stage' = "baseline_stable"
  /\ cache' = (cache /\ ~host.sandbox)
  /\ UNCHANGED <<given, gates, tree, attempt, noise, tier_b, artifacts, voided>>

Visit(c) ==
  /\ stage = "idle"
  /\ ~voided
  /\ artifacts[c] = NoArtifact
  /\ pair' = c
  /\ stage' = "baseline_stable"
  /\ gates' = {}
  /\ cache' = (cache /\ ~host.sandbox)
  /\ UNCHANGED <<given, tree, attempt, noise, tier_b, artifacts, voided>>

(* Every pair builds the baseline anew, only the measurements are cached.  *)
ReproduceBaseline ==
  /\ stage = "baseline_stable"
  /\ task.trouble \notin {"unbuildable", "unmeasurable", "hang"}
  /\ cache' = TRUE
  /\ Record({Result("baseline_stable", TRUE)}, tree)
  /\ UNCHANGED given

BaselineUnstable ==
  /\ stage = "baseline_stable"
  /\ \/ task.trouble \in {"unbuildable", "flaky_build"} /\ UNCHANGED gates
     \/ ~cache /\ task.trouble = "unmeasurable" /\ UNCHANGED gates
     \/ /\ ~cache
        /\ task.trouble = "nondeterministic"
        /\ gates' = gates \cup {Result("baseline_stable", FALSE)}
  /\ TaskVoided
  /\ UNCHANGED <<given, cache>>

BaselineTimesOut ==
  /\ stage = "baseline_stable"
  /\ ~cache
  /\ task.trouble = "hang"
  /\ EvaluationError
  /\ UNCHANGED <<given, cache, gates>>

-----------------------------------------------------------------------------
(* Stages 2 to 4: gates *)

(* Checks of the patch and of the patched tree that run nothing. *)
Screen ==
  /\ stage \in {"patch_hygiene", "patch_applies", "immutable_tree"}
  /\ Decide({stage}, tree)
  /\ UNCHANGED <<given, cache>>

Build ==
  /\ stage = "build"
  /\ RunGate("build", Built("O2"))
  /\ UNCHANGED <<given, cache>>

Interface ==
  /\ stage = "interface"
  /\ Decide({"test_inventory", "api_abi"}, tree)
  /\ UNCHANGED <<given, cache>>

PublicTests ==
  /\ stage = "public_tests"
  /\ RunGate("public_tests", tree)
  /\ UNCHANGED <<given, cache>>

(* A time limit exceeded here is an observation like any other. *)
Differential ==
  /\ stage = "differential"
  /\ Decide({"differential"}, tree)
  /\ UNCHANGED <<given, cache>>

Sanitizers ==
  /\ stage \in {"asan", "ubsan"}
  /\ RunGate(stage, [level |-> "O1", sanitizer |-> stage])
  /\ UNCHANGED <<given, cache>>

(* A target that hangs on an input reports it; one that hangs before its   *)
(* first input exceeds the time limit.                                     *)
Fuzz ==
  /\ stage = "fuzz"
  /\ \/ ~task.fuzz_targets /\ Continue(tree) /\ UNCHANGED gates
     \/ /\ task.fuzz_targets
        /\ RunGate("fuzz", tree) \/ Decide({"fuzz"}, tree)
  /\ UNCHANGED <<given, cache>>

(* What the benchmark prints in a tree.  Code whose behaviour depends on   *)
(* the optimization level prints one thing at -O2 and another at -O1, and  *)
(* either when it is instrumented; the repository may be such code.        *)
Output(built) ==
  IF ~Flawed("second_opt_level") /\ task.trouble # "second_opt_level" THEN {"expected"}
  ELSE IF built.sanitizer # "none"   THEN {"expected", "other"}
  ELSE IF built.level = "O2"         THEN {"expected"}
                                     ELSE {"other"}

(* The gate: the build at the other level may fail, or what it prints is   *)
(* compared with what the tree prints that the sanitizers left.            *)
PassesAtSecondLevel ==
  {passed \in BOOLEAN :
     \/ ~passed /\ Ailing("second_opt_level")
     \/ \E reference \in Output(tree), output \in Output(Built("O1")) :
          passed <=> output = reference}

(* What the -O2 build afterwards leaves, whose result nobody looks at.     *)
Restored ==
  IF task.trouble = "flaky_build" THEN {Built("O2"), Built("O1"), Built("none")}
                                  ELSE {Built("O2")}

CompareLevels(left) ==
  /\ stage = "second_opt_level"
  /\ \/ /\ Hangs("second_opt_level")
        /\ EvaluationError
        /\ UNCHANGED gates
     \/ /\ ~Hangs("second_opt_level")
        /\ \E passed \in PassesAtSecondLevel, built \in left :
             Record({Result("second_opt_level", passed)}, built)
  /\ UNCHANGED <<given, cache>>

(* Seeded fault: the -O2 build is left out. *)
SecondOptLevelUnrestored == CompareLevels({Built("O1")})

SecondOptLevel == CompareLevels(Restored)

-----------------------------------------------------------------------------
(* Stage 5: measurement and scoring *)

(* The baseline's counters are the cached ones; the tree of the candidate  *)
(* may hold no program any more.                                           *)
MeasureTierA ==
  /\ stage = "tier_a"
  /\ \/ tree # Built("none") /\ RunGate("candidate_measurable", tree)
     \/ /\ task.trouble = "nondeterministic" \/ tree = Built("none")
        /\ Record({Result("candidate_measurable", FALSE)}, tree)
  /\ UNCHANGED <<given, cache>>

tier_b_available == host.calibrated /\ ~host.sandbox

(* What the tiers see of the patch: of its -O2 build what it is, of        *)
(* another one anything.                                                   *)
Seen == IF tree = Built("O2") THEN {patch[pair].gain} ELSE Gains

(* The wall-clock evidence the pair goes on to scoring with. *)
Evidence(e) ==
  /\ stage' = "score"
  /\ tier_b' = e
  /\ UNCHANGED <<given, cache, pair, gates, tree, attempt, noise, artifacts, voided>>

(* There is no calibrated host, the benchmark fails on it, or it drifted.  *)
TierBUnavailable ==
  /\ stage = "tier_b"
  /\ Evidence("none")

TiersAgree ==
  /\ stage = "tier_b"
  /\ tier_b_available
  /\ ~(Seen \subseteq Divergent)
  /\ Evidence("agreed")

(* A confident reading of the other sign: a real one, or noise. *)
Contradicted ==
  /\ stage = "tier_b"
  /\ tier_b_available
  /\ Seen \cap Divergent # {} \/ noise < MaxNoise

Rerun ==
  /\ Contradicted
  /\ attempt < sign_agreement_reruns
  /\ attempt' = attempt + 1
  /\ noise' = IF Seen \cap Divergent # {} THEN noise ELSE noise + 1
  /\ UNCHANGED <<given, cache, pair, stage, gates, tree, tier_b, artifacts, voided>>

(* Seeded fault: the loop ends before the attempt that voids. *)
DivergencePersisting ==
  /\ Contradicted
  /\ attempt = sign_agreement_reruns
  /\ Evidence("contradicted")

PersistentDivergence ==
  /\ Contradicted
  /\ attempt = sign_agreement_reruns
  /\ TaskVoided
  /\ UNCHANGED <<given, cache, gates>>

(* Memory, tail latency and compile time can make a score positive that    *)
(* has no capture.                                                         *)
Score ==
  /\ stage = "score"
  /\ \/ task.trouble = "no_reference" /\ TaskVoided
     \/ task.trouble = "low_reference" /\ EvaluationError
     \/ /\ task.trouble \notin {"no_reference", "low_reference"}
        /\ \E gain \in Seen, secondary \in BOOLEAN :
             Finish(gates, tier_b, gain \notin Null \/ secondary, gain \in Null)
  /\ UNCHANGED <<given, cache, gates>>

(* Any other exception: the disk, the toolchain, the container. *)
HostFault ==
  /\ stage # "idle"
  /\ EvaluationError
  /\ UNCHANGED <<given, cache, gates>>

-----------------------------------------------------------------------------

Init ==
  /\ patch \in [Candidates -> CandidatePatches]
  /\ task \in Tasks
  /\ host \in Host
  /\ cache = FALSE
  /\ pair = NoPair
  /\ stage = "idle"
  /\ gates = {}
  /\ tree = Built("none")
  /\ attempt = 0
  /\ noise = 0
  /\ tier_b = "none"
  /\ artifacts = [c \in Candidates |-> NoArtifact]
  /\ voided = FALSE

Gates ==
  \/ Screen
  \/ Build
  \/ Interface
  \/ PublicTests
  \/ Differential
  \/ Sanitizers
  \/ Fuzz
  \/ SecondOptLevel

Measurement ==
  \/ MeasureTierA
  \/ TierBUnavailable
  \/ TiersAgree
  \/ Rerun
  \/ PersistentDivergence
  \/ Score

Proceed ==
  \/ \E c \in Candidates : Visit(c)
  \/ ReproduceBaseline
  \/ BaselineUnstable
  \/ BaselineTimesOut
  \/ Gates
  \/ Measurement

Next == Proceed \/ HostFault

Spec == Init /\ [][Next]_vars

(* verify is a loop that waits for nothing but the programs it starts, and *)
(* those run under time limits.  That a host fault ends a pair is not      *)
(* relied upon.                                                            *)
FairSpec == Spec /\ WF_vars(Proceed)

-----------------------------------------------------------------------------
(* Properties *)

TypeOK ==
  /\ patch \in [Candidates -> CandidatePatches]
  /\ task \in Tasks
  /\ host \in Host
  /\ cache \in BOOLEAN
  /\ pair \in Candidates \cup {NoPair}
  /\ stage \in Stages \cup {"idle"}
  /\ gates \in SUBSET GateResult
  /\ tree \in Tree
  /\ attempt \in 0..sign_agreement_reruns
  /\ noise \in 0..MaxNoise
  /\ tier_b \in {"none", "agreed", "contradicted"}
  /\ artifacts \in [Candidates -> ScoreArtifact \cup {NoArtifact}]
  /\ voided \in BOOLEAN

(* What verify hands on about a pair, in the words of the failure contract *)
(* (docs/architecture.md, "Who gets blamed when something goes wrong").    *)
VerdictOf(a) ==
  IF a = NoArtifact        THEN "none"
  ELSE IF a.voided         THEN "evaluation_error"
  ELSE IF Failed(a.gates)  THEN "gate_failure"
  ELSE IF a.honest_null    THEN "honest_null"
                           ELSE "scored"

A == INSTANCE Attribution WITH verdict <- [c \in Candidates |-> VerdictOf(artifacts[c])]

(* The evaluation keeps the contract of Attribution: however the gates,    *)
(* the four builds of one tree, the two tiers, the shared evaluator and    *)
(* the cache play together, an author is charged only for his own patch or *)
(* for what ails the repository beyond stage 1, and credited for his own,  *)
(* once; the task is dropped only with cause.  Where the repository's      *)
(* builds do not fail, what is credited is the -O2 build of the patch,     *)
(* though three other builds of the tree come before the measurement.      *)
Attributed == A!Spec

(* A patch on which the tiers diverge for good is in a score artifact only *)
(* where no wall clock was to be had, or where another build of it may     *)
(* have been measured: one reading of the calibrated host more or less     *)
(* never lets it through (_measure_tier_b, check_sign_agreement).          *)
ContradictionIsNotScored ==
  \A c \in Candidates :
    artifacts[c] # NoArtifact /\ patch[c].gain \in Divergent =>
      artifacts[c].tier_b = "none" \/ task.trouble = "flaky_build"

(* verify comes to an end: each pair gets an artifact or the task is       *)
(* voided, whatever hangs.                                                 *)
EveryPairSettles == <>[](voided \/ \A c \in Candidates : artifacts[c] # NoArtifact)

(* "If observable behaviour changes with the optimization level, the patch *)
(* is unsound regardless of what the benchmark says"                       *)
(* (docs/architecture.md:157-160): such a patch is neither scored nor an   *)
(* honest null.  The code lets it pass, see SecondOptLevel.                *)
LevelDependentPatchFails ==
  \A c \in Candidates :
    patch[c].flaw = "second_opt_level" =>
      VerdictOf(artifacts[c]) \notin {"scored", "honest_null"}

=============================================================================
