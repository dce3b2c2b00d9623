--------------------------- MODULE PipelineProofs ---------------------------
(***************************************************************************)
(* The evaluation keeps the failure contract of Attribution, for any set   *)
(* of patches, tasks and hosts and any number of re-runs.                  *)
(*                                                                         *)
(* The contract speaks of verdicts; the invariant behind it says what an   *)
(* evaluation that has come to a stage has ruled out: flaws of the patch   *)
(* (Cleared), troubles of the task (Reproduced), that noise alone accounts *)
(* for the re-runs of a patch the tiers do not diverge on (NoiseRules),    *)
(* and what the measurement has before it (Measured): the -O2 build, if    *)
(* the repository's builds do not fail at times.                           *)
(***************************************************************************)
EXTENDS Pipeline, TLAPS

(* The gates behind a pair at each stage, but the one gate that lets its   *)
(* own kind of flaw through. *)
Behind ==
  [baseline_stable |-> {},
   patch_hygiene |-> {},
   patch_applies |-> {"patch_hygiene"},
   immutable_tree |-> {"patch_hygiene", "patch_applies"},
   build |-> {"patch_hygiene", "patch_applies", "immutable_tree"},
   interface |-> {"patch_hygiene", "patch_applies", "immutable_tree", "build"},
   public_tests |-> {"patch_hygiene", "patch_applies", "immutable_tree", "build",
     "test_inventory", "api_abi"},
   differential |-> {"patch_hygiene", "patch_applies", "immutable_tree", "build",
     "test_inventory", "api_abi", "public_tests"},
   asan |-> {"patch_hygiene", "patch_applies", "immutable_tree", "build",
     "test_inventory", "api_abi", "public_tests", "differential"},
   ubsan |-> {"patch_hygiene", "patch_applies", "immutable_tree", "build",
     "test_inventory", "api_abi", "public_tests", "differential", "asan"},
   fuzz |-> PatchGates \ {"fuzz", "second_opt_level", "candidate_measurable"},
   second_opt_level |-> PatchGates \ {"fuzz", "second_opt_level", "candidate_measurable"},
   tier_a |-> PatchGates \ {"fuzz", "second_opt_level", "candidate_measurable"},
   tier_b |-> PatchGates \ {"fuzz", "second_opt_level"},
   score |-> PatchGates \ {"fuzz", "second_opt_level"}]

Early == {"idle", "baseline_stable"}

(* One pair at a time, not yet recorded, on a task not yet dropped, with   *)
(* no failed gate. *)
Open ==
  /\ stage = "idle" <=> pair = NoPair
  /\ stage # "idle" => /\ artifacts[pair] = NoArtifact
                       /\ ~voided
                       /\ ~Failed(gates)

Reproduced == stage \notin Early => task.trouble \notin {"unbuildable", "unmeasurable", "hang"}

Cleared == stage # "idle" => patch[pair].flaw \notin Behind[stage]

Fuzzed ==
  stage \in {"second_opt_level", "tier_a", "tier_b", "score"} =>
    (patch[pair].flaw = "fuzz" => ~task.fuzz_targets)

NoiseRules ==
  /\ stage \notin {"tier_b", "score"} => attempt = 0 /\ noise = 0
  /\ stage = "tier_b" => (Seen \cap Divergent = {} => noise = attempt)

Flaky == task.trouble = "flaky_build"

(* No other build than the one at -O2 is measured unless builds fail. *)
ReleaseBuild == stage \in {"tier_a", "tier_b", "score"} => tree = Built("O2") \/ Flaky

(* The wall clock does not agree with what it contradicts. *)
Unrefuted ==
  stage = "score" => (patch[pair].gain \in Divergent => tier_b = "none" \/ Flaky)

Fate == Open /\ Reproduced /\ Cleared /\ Fuzzed /\ NoiseRules

Measured == ReleaseBuild /\ Unrefuted /\ ContradictionIsNotScored

IInv == TypeOK /\ Fate /\ Measured

-----------------------------------------------------------------------------
(* Ways to leave a stage *)

LEMMA StageFacts ==
  /\ Stages = {"baseline_stable", "patch_hygiene", "patch_applies", "immutable_tree", "build",
               "interface", "public_tests", "differential", "asan", "ubsan", "fuzz",
               "second_opt_level", "tier_a", "tier_b", "score"}
  /\ "idle" \notin Stages
BY DEF Stages, After

(* A pair under evaluation is a candidate. *)
LEMMA PairIsCandidate ==
  ASSUME TypeOK, Open, stage # "idle"
  PROVE  pair \in Candidates /\ patch[pair] \in Patch
BY InputAssumption DEF TypeOK, Open

(* Leaving a pair with an artifact settles that pair and nothing else.     *)
LEMMA LeaveSettles ==
  ASSUME TypeOK, Open, stage # "idle", NEW a \in ScoreArtifact, Leave(a), UNCHANGED given
  PROVE  A!Settle(pair, VerdictOf(a))
<1>1. pair \in Candidates /\ artifacts[pair] = NoArtifact /\ ~voided
  BY PairIsCandidate DEF Open
<1>2. artifacts' = [artifacts EXCEPT ![pair] = a] /\ voided' = voided
  BY DEF Leave
<1>3. artifacts \in [Candidates -> ScoreArtifact \cup {NoArtifact}]
  BY DEF TypeOK
<1>4. [c \in Candidates |-> VerdictOf(artifacts[c])][pair] = "none"
  BY <1>1 DEF VerdictOf
<1>5. [c \in Candidates |-> VerdictOf(artifacts[c])]'
      = [[c \in Candidates |-> VerdictOf(artifacts[c])] EXCEPT ![pair] = VerdictOf(a)]
  <2>1. \A c \in Candidates :
          VerdictOf(artifacts'[c]) = IF c = pair THEN VerdictOf(a) ELSE VerdictOf(artifacts[c])
    BY <1>1, <1>2, <1>3
  <2> QED
    BY <2>1, <1>1
<1> QED
  BY <1>1, <1>2, <1>4, <1>5 DEF A!Settle, given

(* Between two evaluations the invariant asks little. *)
LEMMA LeaveKeepsInv ==
  ASSUME IInv, stage # "idle", NEW a \in ScoreArtifact, Leave(a),
         patch[pair].gain \in Divergent => a.tier_b = "none" \/ Flaky,
         UNCHANGED given, cache' \in BOOLEAN, gates' \in SUBSET GateResult
  PROVE  IInv'
<1>1. pair' = NoPair /\ stage' = "idle" /\ tree' \in Tree /\ attempt' = 0 /\ noise' = 0
      /\ tier_b' = "none" /\ voided' = voided
  BY DEF Leave, Cleanup, Built, Tree
<1>2. artifacts' \in [Candidates -> ScoreArtifact \cup {NoArtifact}]
  BY DEF Leave, IInv, TypeOK
<1>3. TypeOK'
  BY <1>1, <1>2, NoiseAssumption DEF IInv, TypeOK, given
<1>4. Fate'
  BY <1>1 DEF Fate, Open, Reproduced, Cleared, Fuzzed, NoiseRules, Early
<1>5. ContradictionIsNotScored'
  <2>1. /\ artifacts' = [artifacts EXCEPT ![pair] = a] /\ patch' = patch
        /\ artifacts \in [Candidates -> ScoreArtifact \cup {NoArtifact}]
    BY DEF Leave, IInv, TypeOK, given
  <2>2. \A c \in Candidates : artifacts'[c] = IF c = pair THEN a ELSE artifacts[c]
    BY <2>1
  <2> QED
    BY <2>1, <2>2 DEF IInv, Measured, Flaky, ContradictionIsNotScored, given
<1> QED
  BY <1>1, <1>3, <1>4, <1>5 DEF IInv, Measured, ReleaseBuild, Unrefuted, Flaky

LEMMA ErrorStep ==
  ASSUME IInv, stage # "idle", EvaluationError, UNCHANGED given,
         cache' \in BOOLEAN, gates' \in SUBSET GateResult
  PROVE  IInv' /\ A!Excuse(pair) /\ pair \in Candidates
<1> DEFINE a == [voided |-> TRUE, gates |-> {}, tier_b |-> "none",
                 positive |-> FALSE, honest_null |-> FALSE]
<1>1. a \in ScoreArtifact
  BY DEF ScoreArtifact
<1>2. VerdictOf(a) = "evaluation_error"
  <2>1. a # NoArtifact
    BY <1>1, NoArtifactAssumption
  <2> QED
    BY <2>1 DEF VerdictOf
<1>3. Leave(a)
  BY DEF EvaluationError
<1>4. IInv'
  BY <1>1, <1>3, LeaveKeepsInv
<1>5. A!Settle(pair, VerdictOf(a))
  BY <1>1, <1>3, LeaveSettles DEF IInv, Fate
<1> QED
  BY <1>2, <1>4, <1>5, PairIsCandidate DEF A!Excuse, IInv, Fate

LEMMA VoidStep ==
  ASSUME IInv, stage # "idle", TaskVoided, UNCHANGED given, A!Voidable,
         cache' \in BOOLEAN, gates' \in SUBSET GateResult
  PROVE  IInv' /\ A!Next
<1>1. CASE host.sandbox
  BY <1>1, ErrorStep DEF TaskVoided, A!Next
<1>2. CASE ~host.sandbox
  <2>1. /\ voided' = TRUE
        /\ artifacts' = [c \in Candidates |-> NoArtifact]
        /\ pair' = NoPair /\ stage' = "idle" /\ tree' \in Tree /\ attempt' = 0 /\ noise' = 0
        /\ tier_b' = "none"
    BY <1>2 DEF TaskVoided, Cleanup, Built, Tree
  <2>2. TypeOK'
    BY <2>1, NoiseAssumption DEF IInv, TypeOK, given
  <2>3. IInv'
    <3>1. Fate'
      BY <2>1 DEF Fate, Open, Reproduced, Cleared, Fuzzed, NoiseRules, Early
    <3>2. Measured'
      BY <2>1 DEF Measured, ReleaseBuild, Unrefuted, Flaky, ContradictionIsNotScored
    <3> QED
      BY <2>2, <3>1, <3>2 DEF IInv
  <2>4. [c \in Candidates |-> VerdictOf(artifacts[c])]' = [c \in Candidates |-> "none"]
    BY <2>1 DEF VerdictOf
  <2>5. A!Void
    BY <2>1, <2>4 DEF A!Void, IInv, Fate, Open, given
  <2> QED
    BY <2>3, <2>5 DEF A!Next
<1> QED
  BY <1>1, <1>2

(* A failed gate charges the pair, one of its own making or not.           *)
LEMMA ChargeStep ==
  ASSUME IInv, stage # "idle", UNCHANGED given, cache' \in BOOLEAN,
         gates' \in SUBSET GateResult, Failed(gates'),
         Finish(gates', "none", FALSE, FALSE), A!Chargeable(pair)
  PROVE  IInv' /\ A!Next
<1> DEFINE a == [voided |-> FALSE, gates |-> gates', tier_b |-> "none",
                 positive |-> FALSE, honest_null |-> FALSE]
<1>1. a \in ScoreArtifact
  BY DEF ScoreArtifact
<1>2. VerdictOf(a) = "gate_failure"
  <2>1. a # NoArtifact
    BY <1>1, NoArtifactAssumption
  <2> QED
    BY <2>1 DEF VerdictOf
<1>3. Leave(a)
  BY DEF Finish
<1>4. IInv'
  BY <1>1, <1>3, LeaveKeepsInv
<1>5. A!Settle(pair, VerdictOf(a))
  BY <1>1, <1>3, LeaveSettles DEF IInv, Fate
<1> QED
  BY <1>2, <1>4, <1>5, PairIsCandidate DEF A!Charge, A!Next, IInv, Fate

(* Going on to the next stage changes no verdict. *)
LEMMA ContinueStep ==
  ASSUME IInv, stage \in DOMAIN After, stage # "tier_b", UNCHANGED given,
         cache' \in BOOLEAN, gates' \in SUBSET GateResult, ~Failed(gates'),
         NEW built \in Tree, Continue(built),
         stage = "baseline_stable" =>
           task.trouble \notin {"unbuildable", "unmeasurable", "hang"},
         patch[pair].flaw \notin Behind[After[stage]],
         After[stage] \in {"tier_a", "tier_b"} => built = Built("O2") \/ Flaky,
         stage = "fuzz" => (patch[pair].flaw = "fuzz" => ~task.fuzz_targets)
  PROVE  IInv' /\ UNCHANGED A!vars
<1>1. /\ stage' = After[stage] /\ tree' = built
      /\ UNCHANGED <<pair, attempt, noise, tier_b, artifacts, voided, patch, task, host>>
  BY DEF Continue, given
<1>2. stage \in Stages /\ stage # "score" /\ stage # "idle"
  BY DEF Stages, After
<1>3. stage' \in Stages /\ stage' # "idle" /\ stage' # "baseline_stable"
  BY <1>1 DEF Stages, After
<1>4. TypeOK'
  BY <1>1, <1>3 DEF IInv, TypeOK
<1>5. Open'
  BY <1>1, <1>2, <1>3 DEF IInv, Fate, Open
<1>6. Reproduced'
  BY <1>1, <1>2 DEF IInv, Fate, Reproduced, Early
<1>7. Cleared'
  BY <1>1 DEF Cleared
<1>8. Fuzzed'
  <2>1. stage' \in {"second_opt_level", "tier_a", "tier_b", "score"} =>
          stage \in {"fuzz", "second_opt_level", "tier_a", "tier_b", "score"}
    BY <1>1 DEF After
  <2> QED
    BY <2>1, <1>1 DEF IInv, Fate, Fuzzed
<1>9. NoiseRules'
  <2>1. stage \notin {"tier_b", "score"}
    BY <1>2
  <2>2. attempt' = 0 /\ noise' = 0
    BY <2>1, <1>1 DEF IInv, Fate, NoiseRules
  <2> QED
    BY <2>2 DEF NoiseRules
<1>10. Measured'
  <2>1. stage' # "score"
    BY <1>1 DEF After
  <2> QED
    BY <2>1, <1>1
       DEF IInv, Measured, ReleaseBuild, Unrefuted, Flaky, ContradictionIsNotScored, Built
<1> QED
  BY <1>1, <1>4, <1>5, <1>6, <1>7, <1>8, <1>9, <1>10 DEF IInv, Fate, A!vars

LEMMA ResultIsGate ==
  ASSUME NEW name \in GateName, NEW passed \in BOOLEAN
  PROVE  Result(name, passed) \in GateResult /\ Result(name, passed).passed = passed
BY DEF Result, GateResult

LEMMA OneResult ==
  ASSUME NEW name \in GateName, NEW passed \in BOOLEAN
  PROVE  /\ {Result(name, passed)} \in SUBSET GateResult
         /\ Failed({Result(name, passed)}) <=> ~passed
BY ResultIsGate DEF Failed

(* Recording gates either charges the pair or brings it to the next stage. *)
LEMMA RecordStep ==
  ASSUME IInv, stage \in DOMAIN After, stage # "tier_b", UNCHANGED given, cache' \in BOOLEAN,
         NEW results \in SUBSET GateResult, NEW built \in Tree, Record(results, built),
         After[stage] \in {"tier_a", "tier_b"} => built = Built("O2") \/ Flaky,
         Failed(results) => A!Chargeable(pair),
         ~Failed(results) =>
           /\ patch[pair].flaw \notin Behind[After[stage]]
           /\ stage = "fuzz" => (patch[pair].flaw = "fuzz" => ~task.fuzz_targets),
         stage = "baseline_stable" =>
           task.trouble \notin {"unbuildable", "unmeasurable", "hang"}
  PROVE  IInv' /\ [A!Next]_(A!vars)
<1>1. gates' = gates \cup results /\ gates' \in SUBSET GateResult
  BY DEF Record, IInv, TypeOK
<1>2. stage # "idle"
  BY DEF After
<1>3. ~Failed(gates)
  BY <1>2 DEF IInv, Fate, Open
<1>4. Failed(gates') <=> Failed(results)
  BY <1>1, <1>3 DEF Failed
<1>5. CASE Failed(gates')
  BY <1>1, <1>2, <1>4, <1>5, ChargeStep DEF Record
<1>6. CASE ~Failed(gates')
  <2>1. Continue(built)
    BY <1>6 DEF Record
  <2> QED
    BY <1>1, <1>4, <1>6, <2>1, ContinueStep
<1> QED
  BY <1>5, <1>6

(* What ails the repository beyond stage 1 the patch inherits. *)
LEMMA AilingIsInherited ==
  ASSUME IInv, stage # "idle", NEW gate \in PatchGates, Ailing(gate)
  PROVE  A!Chargeable(pair)
<1>1. task.trouble \in Troubles
  BY InputAssumption DEF IInv, TypeOK, Task
<1>2. task.trouble \in {"flaky_build"} \cup OwnGates
  <2>1. Troubles \cap PatchGates = OwnGates
    BY DEF Troubles, PatchGates, OwnGates
  <2> QED
    BY <1>1, <2>1 DEF Ailing
<1> QED
  BY <1>2 DEF A!Chargeable, A!Inherited, A!OwnGates, OwnGates

(* Gates decided together, each for the flaw of its name. *)
LEMMA DecideStep ==
  ASSUME IInv, stage \in DOMAIN After \ {"baseline_stable", "tier_b"},
         UNCHANGED given, cache' = cache,
         NEW checks \in SUBSET PatchGates, NEW built \in Tree, Decide(checks, built),
         Behind[After[stage]] \subseteq Behind[stage] \cup checks,
         After[stage] \in {"tier_a", "tier_b"} => built = Built("O2") \/ Flaky,
         stage = "fuzz" => "fuzz" \in checks
  PROVE  IInv' /\ [A!Next]_(A!vars)
<1>1. PICK outcome \in [checks -> BOOLEAN] :
        /\ \A g \in checks : outcome[g] \in Outcomes(g)
        /\ Record({Result(g, outcome[g]) : g \in checks}, built)
  BY DEF Decide
<1> DEFINE results == {Result(g, outcome[g]) : g \in checks}
<1>2. \A g \in checks : g \in GateName /\ outcome[g] \in BOOLEAN
  BY <1>1 DEF GateName
<1>3. results \in SUBSET GateResult
  BY <1>2, ResultIsGate
<1>4. Failed(results) <=> \E g \in checks : ~outcome[g]
  <2>1. \A g \in checks : Result(g, outcome[g]).passed = outcome[g]
    BY <1>2, ResultIsGate
  <2> QED
    BY <2>1 DEF Failed
<1>5. stage # "idle" /\ cache' \in BOOLEAN
  BY DEF After, IInv, TypeOK
<1>6. ASSUME NEW g \in checks, ~outcome[g]
      PROVE  A!Chargeable(pair)
  <2>1. Flawed(g) \/ Ailing(g)
    BY <1>1, <1>6 DEF Outcomes
  <2>2. CASE Flawed(g)
    <3>1. g # NoFlaw
      BY DEF PatchGates, NoFlaw
    <3> QED
      BY <2>2, <3>1 DEF Flawed, A!Chargeable, NoFlaw, A!NoFlaw
  <2>3. CASE Ailing(g)
    BY <1>5, <2>3, AilingIsInherited
  <2> QED
    BY <2>1, <2>2, <2>3
<1>7. ASSUME \A g \in checks : outcome[g]
      PROVE  /\ patch[pair].flaw \notin Behind[After[stage]]
             /\ stage = "fuzz" => (patch[pair].flaw = "fuzz" => ~task.fuzz_targets)
  <2>1. \A g \in checks : patch[pair].flaw # g
    BY <1>1, <1>7 DEF Outcomes, Flawed
  <2>2. patch[pair].flaw \notin Behind[stage]
    BY <1>5 DEF IInv, Fate, Cleared
  <2> QED
    BY <2>1, <2>2
<1>8. Failed(results) => A!Chargeable(pair)
  BY <1>4, <1>6
<1>9. ~Failed(results) =>
        /\ patch[pair].flaw \notin Behind[After[stage]]
        /\ stage = "fuzz" => (patch[pair].flaw = "fuzz" => ~task.fuzz_targets)
  BY <1>2, <1>4, <1>7
<1>10. Record(results, built)
  BY <1>1
<1> HIDE DEF results
<1> QED
  BY <1>3, <1>5, <1>8, <1>9, <1>10, RecordStep

(* A single gate. *)
LEMMA GateStep ==
  ASSUME IInv, stage \in DOMAIN After \ {"baseline_stable", "tier_b"},
         UNCHANGED given, cache' = cache,
         NEW gate \in PatchGates, NEW built \in Tree, Decide({gate}, built),
         Behind[After[stage]] \subseteq Behind[stage] \cup {gate},
         After[stage] \in {"tier_a", "tier_b"} => built = Built("O2") \/ Flaky,
         stage = "fuzz" => gate = "fuzz"
  PROVE  IInv' /\ [A!Next]_(A!vars)
<1> DEFINE checks == {gate}
<1>1. checks \in SUBSET PatchGates /\ Decide(checks, built)
      /\ Behind[After[stage]] \subseteq Behind[stage] \cup checks
      /\ (stage = "fuzz" => "fuzz" \in checks)
  OBVIOUS
<1> HIDE DEF checks
<1> QED
  BY <1>1, DecideStep

LEMMA RunGateStep ==
  ASSUME IInv, stage \in DOMAIN After \ {"baseline_stable", "tier_b"},
         UNCHANGED given, cache' = cache,
         NEW gate \in PatchGates, NEW built \in Tree, RunGate(gate, built),
         Behind[After[stage]] \subseteq Behind[stage] \cup {gate},
         After[stage] \in {"tier_a", "tier_b"} => built = Built("O2") \/ Flaky,
         stage = "fuzz" => gate = "fuzz"
  PROVE  IInv' /\ [A!Next]_(A!vars)
<1>1. CASE Hangs(gate)
  <2>1. stage # "idle" /\ cache' \in BOOLEAN
    BY DEF After, IInv, TypeOK
  <2>2. EvaluationError /\ gates' \in SUBSET GateResult
    BY <1>1 DEF RunGate, IInv, TypeOK
  <2> QED
    BY <2>1, <2>2, ErrorStep DEF A!Next
<1>2. CASE ~Hangs(gate)
  BY <1>2, GateStep DEF RunGate
<1> QED
  BY <1>1, <1>2

-----------------------------------------------------------------------------
(* The actions *)

LEMMA InitIInv == Init => IInv
<1> SUFFICES ASSUME Init PROVE IInv
  OBVIOUS
<1>1. TypeOK
  <2>1. attempt \in 0..sign_agreement_reruns /\ noise \in 0..MaxNoise
    BY NoiseAssumption DEF Init
  <2>2. tree \in Tree /\ gates \in SUBSET GateResult
    BY DEF Init, Built, Tree
  <2>3. artifacts \in [Candidates -> ScoreArtifact \cup {NoArtifact}]
    BY DEF Init
  <2> QED
    BY <2>1, <2>2, <2>3 DEF Init, TypeOK
<1>2. Fate
  BY DEF Init, Fate, Open, Reproduced, Cleared, Fuzzed, NoiseRules, Early
<1>3. Measured
  BY DEF Init, Measured, ReleaseBuild, Unrefuted, Flaky, ContradictionIsNotScored
<1> QED
  BY <1>1, <1>2, <1>3 DEF IInv

LEMMA VisitStep ==
  ASSUME IInv, NEW c \in Candidates, Visit(c)
  PROVE  IInv' /\ UNCHANGED A!vars
<1>1. TypeOK'
  BY StageFacts DEF Visit, IInv, TypeOK, given
<1>2. Open'
  BY NoPairAssumption DEF Visit, IInv, Fate, Open, Failed
<1>3. Reproduced' /\ Cleared' /\ Fuzzed'
  BY DEF Visit, Reproduced, Cleared, Fuzzed, Behind, Early
<1>4. NoiseRules'
  BY DEF Visit, IInv, Fate, NoiseRules
<1>5. Measured'
  BY DEF Visit, given, IInv, Measured, ReleaseBuild, Unrefuted, Flaky, ContradictionIsNotScored
<1> QED
  BY <1>1, <1>2, <1>3, <1>4, <1>5 DEF Visit, given, IInv, Fate, A!vars

LEMMA BaselineStep ==
  ASSUME IInv, ReproduceBaseline \/ BaselineUnstable \/ BaselineTimesOut
  PROVE  IInv' /\ [A!Next]_(A!vars)
<1>1. stage = "baseline_stable" /\ UNCHANGED given
  BY DEF ReproduceBaseline, BaselineUnstable, BaselineTimesOut
<1>2. CASE ReproduceBaseline
  <2> DEFINE results == {Result("baseline_stable", TRUE)}
  <2>1. results \in SUBSET GateResult /\ ~Failed(results)
    BY DEF Result, GateResult, GateName, Failed
  <2>2. patch[pair].flaw \notin Behind[After[stage]] /\ After[stage] \notin {"tier_a", "tier_b"}
    BY <1>1 DEF After, Behind
  <2>3. tree \in Tree
    BY DEF IInv, TypeOK
  <2> HIDE DEF results
  <2>4. Record(results, tree) /\ cache' \in BOOLEAN
        /\ task.trouble \notin {"unbuildable", "unmeasurable", "hang"}
    BY <1>2 DEF ReproduceBaseline, results
  <2>5. stage \in DOMAIN After /\ stage # "tier_b" /\ stage # "fuzz"
    BY <1>1 DEF After
  <2> QED
    BY <1>1, <2>1, <2>2, <2>3, <2>4, <2>5, RecordStep
<1>3. CASE BaselineUnstable
  <2>1. A!Voidable
    BY <1>3 DEF BaselineUnstable, A!Voidable
  <2>2. gates' \in SUBSET GateResult /\ cache' \in BOOLEAN /\ TaskVoided
    <3>1. "baseline_stable" \in GateName
      BY DEF GateName
    <3>2. {Result("baseline_stable", FALSE)} \in SUBSET GateResult
      BY <3>1, OneResult
    <3> QED
      BY <1>3, <3>2 DEF BaselineUnstable, IInv, TypeOK
  <2> QED
    BY <1>1, <2>1, <2>2, VoidStep
<1>4. CASE BaselineTimesOut
  <2>1. gates' \in SUBSET GateResult /\ cache' \in BOOLEAN /\ EvaluationError
    BY <1>4 DEF BaselineTimesOut, IInv, TypeOK
  <2> QED
    BY <1>1, <2>1, ErrorStep DEF A!Next
<1> QED
  BY <1>2, <1>3, <1>4

LEMMA ScreenStep ==
  ASSUME IInv, Screen
  PROVE  IInv' /\ [A!Next]_(A!vars)
<1>1. stage \in DOMAIN After \ {"baseline_stable", "tier_b"} /\ stage \in PatchGates
      /\ stage # "fuzz" /\ UNCHANGED given /\ cache' = cache /\ tree \in Tree
  BY DEF Screen, After, PatchGates, IInv, TypeOK
<1>2. Behind[After[stage]] \subseteq Behind[stage] \cup {stage}
      /\ After[stage] \notin {"tier_a", "tier_b"}
  BY DEF Screen, After, Behind
<1> QED
  BY <1>1, <1>2, GateStep DEF Screen

LEMMA BuildStep ==
  ASSUME IInv, Build
  PROVE  IInv' /\ [A!Next]_(A!vars)
<1>1. stage \in DOMAIN After \ {"baseline_stable", "tier_b"} /\ "build" \in PatchGates
      /\ stage # "fuzz" /\ UNCHANGED given /\ cache' = cache /\ Built("O2") \in Tree
  BY DEF Build, After, PatchGates, Built, Tree
<1>2. Behind[After[stage]] \subseteq Behind[stage] \cup {"build"}
      /\ After[stage] \notin {"tier_a", "tier_b"}
  BY DEF Build, After, Behind
<1> QED
  BY <1>1, <1>2, RunGateStep DEF Build

LEMMA InterfaceStep ==
  ASSUME IInv, Interface
  PROVE  IInv' /\ [A!Next]_(A!vars)
<1> DEFINE checks == {"test_inventory", "api_abi"}
<1>1. stage = "interface" /\ UNCHANGED given /\ cache' = cache /\ tree \in Tree
      /\ Decide(checks, tree)
  BY DEF Interface, IInv, TypeOK
<1>2. checks \in SUBSET PatchGates
  BY DEF PatchGates
<1>3. Behind[After[stage]] \subseteq Behind[stage] \cup checks
  BY <1>1 DEF After, Behind
<1>4. stage \in DOMAIN After \ {"baseline_stable", "tier_b"} /\ stage # "fuzz"
      /\ After[stage] \notin {"tier_a", "tier_b"}
  BY <1>1 DEF After
<1> HIDE DEF checks
<1> QED
  BY <1>1, <1>2, <1>3, <1>4, DecideStep

LEMMA RunStep ==
  ASSUME IInv, PublicTests \/ Differential \/ Sanitizers
  PROVE  IInv' /\ [A!Next]_(A!vars)
<1>1. tree \in Tree /\ UNCHANGED given /\ cache' = cache
  BY DEF PublicTests, Differential, Sanitizers, IInv, TypeOK
<1>2. CASE PublicTests
  <2>1. stage = "public_tests" /\ RunGate("public_tests", tree)
    BY <1>2 DEF PublicTests
  <2>2. Behind[After[stage]] \subseteq Behind[stage] \cup {"public_tests"}
        /\ After[stage] \notin {"tier_a", "tier_b"}
    BY <2>1 DEF After, Behind
  <2>3. stage \in DOMAIN After \ {"baseline_stable", "tier_b"} /\ "public_tests" \in PatchGates
        /\ stage # "fuzz"
    BY <2>1 DEF After, PatchGates
  <2> QED
    BY <1>1, <2>1, <2>2, <2>3, RunGateStep
<1>3. CASE Differential
  <2>1. stage = "differential"
        /\ Decide({"differential"}, tree)
    BY <1>3 DEF Differential
  <2>2. Behind[After[stage]] \subseteq Behind[stage] \cup {"differential"}
        /\ After[stage] \notin {"tier_a", "tier_b"}
    BY <2>1 DEF After, Behind
  <2>3. stage \in DOMAIN After \ {"baseline_stable", "tier_b"} /\ "differential" \in PatchGates
        /\ stage # "fuzz"
    BY <2>1 DEF After, PatchGates
  <2> QED
    BY <1>1, <2>1, <2>2, <2>3, GateStep
<1>4. CASE Sanitizers
  <2>1. stage \in {"asan", "ubsan"} /\ RunGate(stage, [level |-> "O1", sanitizer |-> stage])
    BY <1>4 DEF Sanitizers
  <2>2. Behind[After[stage]] \subseteq Behind[stage] \cup {stage}
        /\ After[stage] \notin {"tier_a", "tier_b"}
    BY <2>1 DEF After, Behind, PatchGates
  <2>3. stage \in DOMAIN After \ {"baseline_stable", "tier_b"} /\ stage \in PatchGates
        /\ stage # "fuzz" /\ [level |-> "O1", sanitizer |-> stage] \in Tree
    BY <2>1 DEF After, PatchGates, Tree
  <2> QED
    BY <1>1, <2>1, <2>2, <2>3, RunGateStep
<1> QED
  BY <1>2, <1>3, <1>4

LEMMA FuzzStep ==
  ASSUME IInv, Fuzz
  PROVE  IInv' /\ [A!Next]_(A!vars)
<1>1. stage = "fuzz" /\ tree \in Tree /\ UNCHANGED given /\ cache' = cache
  BY DEF Fuzz, IInv, TypeOK
<1>2. Behind[After[stage]] = Behind[stage] /\ After[stage] \notin {"tier_a", "tier_b"}
  BY <1>1 DEF After, Behind
<1>3. stage \in DOMAIN After \ {"baseline_stable", "tier_b"} /\ "fuzz" \in PatchGates
  BY <1>1 DEF After, PatchGates
<1>4. CASE task.fuzz_targets
  BY <1>1, <1>2, <1>3, <1>4, RunGateStep, GateStep DEF Fuzz
<1>5. CASE ~task.fuzz_targets
  <2>1. Continue(tree) /\ gates' = gates
    BY <1>5 DEF Fuzz
  <2>2. gates' \in SUBSET GateResult /\ ~Failed(gates') /\ cache' \in BOOLEAN
        /\ patch[pair].flaw \notin Behind[After[stage]]
    BY <1>1, <1>2, <2>1 DEF IInv, TypeOK, Fate, Open, Cleared
  <2> QED
    BY <1>1, <1>2, <1>3, <1>5, <2>1, <2>2, ContinueStep
<1> QED
  BY <1>4, <1>5

(* The other level may only fail a patch that depends on it, or whose      *)
(* repository does or does not always build.                               *)
LEMMA SecondOptLevelStep ==
  ASSUME IInv, SecondOptLevel
  PROVE  IInv' /\ [A!Next]_(A!vars)
<1>1. stage = "second_opt_level" /\ UNCHANGED given /\ cache' \in BOOLEAN
  BY DEF SecondOptLevel, CompareLevels, IInv, TypeOK
<1>2. CASE Hangs("second_opt_level")
  <2>1. EvaluationError /\ gates' \in SUBSET GateResult
    BY <1>2 DEF SecondOptLevel, CompareLevels, IInv, TypeOK
  <2> QED
    BY <1>1, <2>1, ErrorStep DEF A!Next
<1>3. CASE ~Hangs("second_opt_level")
  <2>1. PICK passed \in PassesAtSecondLevel, built \in Restored :
          Record({Result("second_opt_level", passed)}, built)
    BY <1>3 DEF SecondOptLevel, CompareLevels
  <2> DEFINE results == {Result("second_opt_level", passed)}
  <2>2. passed \in BOOLEAN
    BY <2>1 DEF PassesAtSecondLevel
  <2>3. "second_opt_level" \in GateName /\ "second_opt_level" \in PatchGates
    BY DEF GateName, PatchGates
  <2>4. results \in SUBSET GateResult /\ (Failed(results) <=> ~passed)
    BY <2>2, <2>3, OneResult
  <2>5. ~passed => Flawed("second_opt_level") \/ Ailing("second_opt_level")
    <3>1. ~Flawed("second_opt_level") /\ task.trouble # "second_opt_level" =>
            \A t \in Tree : Output(t) = {"expected"}
      BY DEF Output
    <3>2. tree \in Tree /\ Built("O1") \in Tree
      BY DEF IInv, TypeOK, Built, Tree
    <3> QED
      BY <2>1, <3>1, <3>2 DEF PassesAtSecondLevel, Ailing
  <2>6. Failed(results) => A!Chargeable(pair)
    <3>1. Flawed("second_opt_level") => A!Chargeable(pair)
      BY DEF Flawed, A!Chargeable, A!NoFlaw
    <3>2. Ailing("second_opt_level") => A!Chargeable(pair)
      BY <1>1, <2>3, AilingIsInherited
    <3> QED
      BY <2>4, <2>5, <3>1, <3>2
  <2>7. patch[pair].flaw \notin Behind[After[stage]]
    BY <1>1 DEF IInv, Fate, Cleared, After, Behind
  <2>8. stage \in DOMAIN After /\ stage \notin {"tier_b", "fuzz", "baseline_stable"}
    BY <1>1 DEF After
  <2>9. built \in Tree /\ (built = Built("O2") \/ Flaky)
    BY <2>1 DEF Restored, Flaky, Built, Tree
  <2> HIDE DEF results
  <2>10. Record(results, built)
    BY <2>1 DEF results
  <2> QED
    BY <1>1, <2>4, <2>6, <2>7, <2>8, <2>9, <2>10, RecordStep
<1> QED
  BY <1>2, <1>3

LEMMA MeasureTierAStep ==
  ASSUME IInv, MeasureTierA
  PROVE  IInv' /\ [A!Next]_(A!vars)
<1>1. stage = "tier_a" /\ tree \in Tree /\ UNCHANGED given /\ cache' = cache /\ cache' \in BOOLEAN
  BY DEF MeasureTierA, IInv, TypeOK
<1>2. stage \in DOMAIN After \ {"baseline_stable", "tier_b"} /\ "candidate_measurable" \in PatchGates
      /\ stage # "fuzz"
  BY <1>1 DEF After, PatchGates
<1>3. tree = Built("O2") \/ Flaky
  BY <1>1 DEF IInv, Measured, ReleaseBuild
<1>4. CASE RunGate("candidate_measurable", tree)
  <2>1. Behind[After[stage]] \subseteq Behind[stage] \cup {"candidate_measurable"}
    BY <1>1 DEF After, Behind
  <2> QED
    BY <1>1, <1>2, <1>3, <1>4, <2>1, RunGateStep
<1>5. CASE /\ task.trouble = "nondeterministic" \/ tree = Built("none")
           /\ Record({Result("candidate_measurable", FALSE)}, tree)
  <2> DEFINE results == {Result("candidate_measurable", FALSE)}
  <2>1. results \in SUBSET GateResult /\ Failed(results)
    BY DEF Result, GateResult, GateName, PatchGates, Failed
  <2>2. task.trouble \in {"nondeterministic", "flaky_build"}
    <3>1. Built("none") # Built("O2")
      BY DEF Built
    <3> QED
      BY <1>3, <1>5, <3>1 DEF Flaky
  <2>3. A!Chargeable(pair)
    BY <2>2 DEF A!Chargeable, A!Inherited
  <2> HIDE DEF results
  <2>4. Record(results, tree)
    BY <1>5 DEF results
  <2> QED
    BY <1>1, <1>2, <1>3, <2>1, <2>3, <2>4, RecordStep
<1> QED
  BY <1>4, <1>5 DEF MeasureTierA

LEMMA TierBStep ==
  ASSUME IInv, TierBUnavailable \/ TiersAgree \/ Rerun
  PROVE  IInv' /\ UNCHANGED A!vars
<1>1. stage = "tier_b" /\ UNCHANGED <<given, cache, pair, gates, tree, artifacts, voided>>
  BY DEF TierBUnavailable, TiersAgree, Rerun, Contradicted, Evidence
<1>2. CASE TierBUnavailable \/ TiersAgree
  <2>1. stage' = "score" /\ tier_b' \in {"none", "agreed"} /\ attempt' = attempt /\ noise' = noise
    BY <1>2 DEF TierBUnavailable, TiersAgree, Evidence
  <2>2. TypeOK' /\ Open'
    BY <1>1, <2>1, StageFacts DEF IInv, Fate, TypeOK, Open, given
  <2>3. Cleared' /\ Reproduced' /\ Fuzzed' /\ NoiseRules'
    BY <1>1, <2>1 DEF IInv, Fate, Cleared, Reproduced, Fuzzed, NoiseRules, Behind, given, Early
  <2>4. Measured'
    BY <1>1, <1>2, <2>1 DEF TiersAgree, TierBUnavailable, Evidence, Seen, given, IInv, Measured,
                            ReleaseBuild, Unrefuted, Flaky, ContradictionIsNotScored
  <2> QED
    BY <1>1, <2>2, <2>3, <2>4 DEF IInv, Fate, A!vars, given
<1>3. CASE Rerun
  <2>1. /\ attempt < sign_agreement_reruns /\ attempt' = attempt + 1
        /\ noise' = IF Seen \cap Divergent # {} THEN noise ELSE noise + 1
        /\ Seen \cap Divergent # {} \/ noise < MaxNoise
        /\ stage' = stage /\ tier_b' = tier_b
    BY <1>3 DEF Rerun, Contradicted
  <2>2. attempt' \in 0..sign_agreement_reruns /\ noise' \in 0..MaxNoise
    BY <2>1, NoiseAssumption DEF IInv, TypeOK
  <2>3. TypeOK' /\ Open'
    BY <1>1, <2>1, <2>2 DEF IInv, Fate, TypeOK, Open, given
  <2>4. Cleared' /\ Reproduced' /\ Fuzzed' /\ NoiseRules'
    BY <1>1, <2>1 DEF IInv, Fate, Cleared, Reproduced, Fuzzed, NoiseRules, given, Early, Seen
  <2>5. Measured'
    BY <1>1, <2>1 DEF given, IInv, Measured, ReleaseBuild, Unrefuted, Flaky,
                      ContradictionIsNotScored
  <2> QED
    BY <1>1, <2>3, <2>4, <2>5 DEF IInv, Fate, A!vars, given
<1> QED
  BY <1>2, <1>3

(* Noise is spent one reading per re-run, so what still disagrees after    *)
(* the last one is not noise: the patch diverges, or another build of it   *)
(* than the one at -O2.                                                    *)
LEMMA DivergenceStep ==
  ASSUME IInv, PersistentDivergence
  PROVE  IInv' /\ [A!Next]_(A!vars)
<1>1. stage = "tier_b" /\ attempt = sign_agreement_reruns /\ UNCHANGED given
      /\ (Seen \cap Divergent # {} \/ noise < MaxNoise)
  BY DEF PersistentDivergence, Contradicted
<1>2. Seen \cap Divergent # {}
  BY <1>1, NoiseAssumption DEF IInv, Fate, NoiseRules, TypeOK
<1>3. A!Voidable
  <2>1. CASE tree = Built("O2")
    <3>1. patch[pair].gain \in Divergent
      BY <1>2, <2>1 DEF Seen
    <3> QED
      BY <1>1, <3>1, PairIsCandidate DEF A!Voidable, A!Divergent, Divergent, IInv, Fate
  <2>2. CASE Flaky
    BY <2>2 DEF A!Voidable, Flaky
  <2> QED
    BY <1>1, <2>1, <2>2 DEF IInv, Measured, ReleaseBuild
<1>4. TaskVoided /\ cache' \in BOOLEAN /\ gates' \in SUBSET GateResult
  BY DEF PersistentDivergence, IInv, TypeOK
<1> QED
  BY <1>1, <1>3, <1>4, VoidStep

LEMMA ScoreStep ==
  ASSUME IInv, Score
  PROVE  IInv' /\ [A!Next]_(A!vars)
<1>1. stage = "score" /\ UNCHANGED given /\ cache' \in BOOLEAN /\ gates' = gates
      /\ gates' \in SUBSET GateResult
  BY DEF Score, IInv, TypeOK
<1>2. CASE task.trouble = "no_reference" /\ TaskVoided
  BY <1>1, <1>2, VoidStep DEF A!Voidable
<1>3. CASE task.trouble = "low_reference" /\ EvaluationError
  BY <1>1, <1>3, ErrorStep DEF A!Next
<1>4. CASE /\ task.trouble \notin {"no_reference", "low_reference"}
           /\ \E gain \in Seen, secondary \in BOOLEAN :
                Finish(gates, tier_b, gain \notin Null \/ secondary, gain \in Null)
  <2>1. PICK gain \in Seen, secondary \in BOOLEAN :
          Finish(gates, tier_b, gain \notin Null \/ secondary, gain \in Null)
    BY <1>4
  <2>2. ~Failed(gates)
    BY <1>1 DEF IInv, Fate, Open
  <2> DEFINE a == [voided |-> FALSE, gates |-> gates, tier_b |-> tier_b,
                   positive |-> (gain \notin Null \/ secondary) /\ ~Failed(gates),
                   honest_null |-> gain \in Null /\ ~Failed(gates)]
  <2>3. a \in ScoreArtifact
    BY <2>2 DEF ScoreArtifact, IInv, TypeOK
  <2>4. a # NoArtifact
    BY <2>3, NoArtifactAssumption
  <2>5. VerdictOf(a) = IF gain \in Null THEN "honest_null" ELSE "scored"
    BY <2>2, <2>4 DEF VerdictOf
  <2>6. Leave(a)
    BY <2>1 DEF Finish
  <2>6a. patch[pair].gain \in Divergent => a.tier_b = "none" \/ Flaky
    BY <1>1 DEF IInv, Measured, Unrefuted
  <2>7. IInv'
    BY <1>1, <2>3, <2>6, <2>6a, LeaveKeepsInv
  <2>8. A!Settle(pair, VerdictOf(a))
    BY <1>1, <2>3, <2>6, LeaveSettles DEF IInv, Fate
  <2>9. pair \in Candidates /\ patch[pair] \in Patch
    BY <1>1, PairIsCandidate DEF IInv, Fate
  <2>9a. gain \in A!Seen(pair)
    <3>1. tree = Built("O2") \/ Flaky
      BY <1>1 DEF IInv, Measured, ReleaseBuild
    <3>2. patch[pair].gain \in Gains
      BY <2>9 DEF Patch
    <3> QED
      BY <2>1, <3>1, <3>2 DEF Seen, Flaky, A!Seen, A!Gains, Gains
  <2>10. A!Creditable(pair)
    <3>1. task.trouble \in {"sound"} \cup Inherited
      <4>1. task.trouble \in Troubles
        BY InputAssumption DEF IInv, TypeOK, Task
      <4>2. task.trouble \notin {"unbuildable", "unmeasurable", "hang"}
        BY <1>1 DEF IInv, Fate, Reproduced, Early
      <4> QED
        BY <1>4, <4>1, <4>2 DEF Troubles, Inherited
    <3>2. patch[pair].flaw \in {NoFlaw, "fuzz", "second_opt_level"}
      <4>1. patch[pair].flaw \in PatchGates \cup {NoFlaw}
        BY <2>9 DEF Patch
      <4>2. patch[pair].flaw \notin PatchGates \ {"fuzz", "second_opt_level"}
        BY <1>1 DEF IInv, Fate, Cleared, Behind
      <4> QED
        BY <4>1, <4>2
    <3>3. patch[pair].flaw = "fuzz" => ~task.fuzz_targets
      BY <1>1 DEF IInv, Fate, Fuzzed
    <3> QED
      BY <3>1, <3>2, <3>3
      DEF A!Creditable, A!NoFlaw, NoFlaw, A!Inherited, Inherited, A!OwnGates, OwnGates
  <2> HIDE DEF a
  <2> QED
    BY <2>5, <2>7, <2>8, <2>9, <2>9a, <2>10 DEF A!Credit, A!Next, A!Null, Null
<1> QED
  BY <1>2, <1>3, <1>4 DEF Score

LEMMA FaultStep ==
  ASSUME IInv, HostFault
  PROVE  IInv' /\ [A!Next]_(A!vars)
<1>1. stage # "idle" /\ EvaluationError /\ UNCHANGED given
      /\ cache' \in BOOLEAN /\ gates' \in SUBSET GateResult
  BY DEF HostFault, IInv, TypeOK
<1> QED
  BY <1>1, ErrorStep DEF A!Next

(* Every step of the evaluation is a step of the contract, or none. *)
LEMMA NextStep ==
  ASSUME IInv, [Next]_vars
  PROVE  IInv' /\ [A!Next]_(A!vars)
<1>1. CASE UNCHANGED vars
  <2>1. IInv'
    BY <1>1 DEF vars, given, IInv, TypeOK, Fate, Open, Reproduced, Cleared, Fuzzed, NoiseRules,
         Seen, Measured, ReleaseBuild, Unrefuted, Flaky, ContradictionIsNotScored
  <2> QED
    BY <1>1, <2>1 DEF vars, given, A!vars
<1>2. CASE \E c \in Candidates : Visit(c)
  BY <1>2, VisitStep
<1>3. CASE ReproduceBaseline \/ BaselineUnstable \/ BaselineTimesOut
  BY <1>3, BaselineStep
<1>4. CASE Gates
  BY <1>4, ScreenStep, BuildStep, InterfaceStep, RunStep, FuzzStep, SecondOptLevelStep DEF Gates
<1>5. CASE Measurement
  BY <1>5, MeasureTierAStep, TierBStep, DivergenceStep, ScoreStep DEF Measurement
<1>6. CASE HostFault
  BY <1>6, FaultStep
<1> QED
  BY <1>1, <1>2, <1>3, <1>4, <1>5, <1>6 DEF Next, Proceed

LEMMA InitRefines == Init => A!Init
<1> SUFFICES ASSUME Init PROVE A!Init
  OBVIOUS
<1>1. patch \in [Candidates -> A!Patch] /\ task \in A!Task
  <2>1. patch \in [Candidates -> Patch] /\ task \in Task
    BY InputAssumption DEF Init
  <2>2. A!Patch = Patch
    BY DEF A!Patch, Patch, A!Gains, Gains, A!PatchGates, PatchGates, A!NoFlaw, NoFlaw, A!Timed, Timed
  <2>3. A!Task = Task
    BY DEF A!Task, Task, A!Troubles, Troubles, A!OwnGates, OwnGates
  <2> QED
    BY <2>1, <2>2, <2>3
<1>2. [c \in Candidates |-> VerdictOf(artifacts[c])] = [c \in Candidates |-> "none"]
  BY DEF Init, VerdictOf
<1> QED
  BY <1>1, <1>2 DEF Init, A!Init

-----------------------------------------------------------------------------

(* Every variable keeps its type: evaluate and verify leave no counter or  *)
(* record out of range, with any number of patches. *)
THEOREM TypeCorrect == Spec => []TypeOK
<1>1. Init => IInv
  BY InitIInv
<1>2. IInv /\ [Next]_vars => IInv'
  BY NextStep
<1>3. IInv => TypeOK
  BY DEF IInv
<1> QED
  BY <1>1, <1>2, <1>3, PTL DEF Spec

(* However many re-runs are allowed, the patch the calibrated host         *)
(* contradicts in all of them has no score with wall-clock evidence, if    *)
(* the builds of the repository do not fail at times (_measure_tier_b).    *)
THEOREM DivergenceIsNotScored == Spec => []ContradictionIsNotScored
<1>1. Init => IInv
  BY InitIInv
<1>2. IInv /\ [Next]_vars => IInv'
  BY NextStep
<1>3. IInv => ContradictionIsNotScored
  BY DEF IInv, Measured
<1> QED
  BY <1>1, <1>2, <1>3, PTL DEF Spec

(* The evaluation implements the failure contract of Attribution, which is *)
(* that of docs/architecture.md with the two concessions stated there: the *)
(* gate sequence of evaluate and the handlers of verify charge a patch     *)
(* only for itself or for what its repository inherits to it, credit the   *)
(* -O2 build of it unless a build of the repository failed, and void only  *)
(* with cause, for any patches, tasks, hosts and number of re-runs.        *)
THEOREM Implements == Spec => Attributed
<1>1. Init => IInv /\ A!Init
  BY InitIInv, InitRefines
<1>2. IInv /\ [Next]_vars => IInv' /\ [A!Next]_(A!vars)
  BY NextStep
<1> QED
  BY <1>1, <1>2, PTL DEF Spec, Attributed, A!Spec

=============================================================================
