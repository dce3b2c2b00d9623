# CompilerForge in TLA+

Specifications, model-checking configurations and machine-checked proofs for the
CompilerForge subnet (`src/compilerforge`): a Bittensor validator that runs
miners' optimisation agents on C packages, verifies and measures the patches they
produce, decides a champion, and pays miners by submitting weight vectors on
chain. The reference is the source at this commit; line numbers below and in
`PROJECT.json` are of that source.

## Inventory

What runs: one validator process with two threads (the round loop of
`ValidatorNeuron.run` and the weight heartbeat), one inference proxy serving
requests of several connections, containers that run artifacts, miner processes
that publish commitments, and the chain, which is external.

| Component | State it keeps | Operations | Hard part |
|---|---|---|---|
| Crown: `ChampionRegistry` (`scoring/dethronement.py`) | champion, round number, `_sustained` streaks | `evaluate`, `_challenge`, `_advance_champion`, `decay_multiplier` | conditions that build up over rounds: warm-up, noisy rounds, unscreened artifacts, several winners at once |
| Durable state (`base/validator.py`, `validator/neuron.py`) | `state.json`, `state.json.tmp` | `save_state`, `load_state`, the loop of `run` | kills between any two steps |
| Weights (`base/validator.py`, `chain/access.py`) | `last_weights`, the chain's vectors, `mechanism_count` | `submit_round_weights`, heartbeat, `set_weights_for_mechanism` | two writers, refusals, lost confirmations, absent mechanisms, the activity cutoff |
| Verification (`validator/round.py`) | voided tasks, score artifacts, best patches | `verify`, `_prepare_cases`, `assign_producers` | a task voided in the middle of the loop; whose fault a failure is |
| Aggregation (`scoring/aggregate.py`) | score artifacts by pair, voided tasks | `add`, `void_task`, `aggregate` | coverage: what a missing outcome means |
| Emission (`scoring/emissions.py`) | reliability records | `allocate_generalist`, `allocate_specialist_and_bounty`, `record_round` | remainders: decayed share, empty cells, empty floor |
| Inference proxy (`sandbox/proxy.py`) | a token ledger per run | `reserve`, `record`, `remaining`, the chat handler | requests that overlap at an `await` |
| Round lifecycle (`validator/forward.py`) | the round in progress | freeze, wait, draw, produce, verify, crown, weigh, publish | an abort or kill at each step; reads of the chain at different blocks |
| Evaluation pipeline (`evaluation/`) | workspaces and their last build, the gates of the pair, baseline cache | `evaluate`: baseline, gate sequence, tiers A and B, score | attribution: gate failure, void, evaluation error; rebuilds of one tree; hangs |
| Task selection (`evaluation/selection.py`) | none | `derive_round`, sampling | same plan on every validator; entropy after freeze |
| Chain access (`chain/access.py`, `chain/commitments.py`) | commitments cache | reads with retries, `metagraph`, `set_weights` | stale and mixed snapshots |
| Audit repository, sealed inputs (`chain/audit.py`, `chain/sealed.py`) | index and bundles on disk | `publish`, `seal`, `open_envelope` | crash between bundle and index |
| Artifact runner (`sandbox/runner.py`, `sandbox/verify.py`, `sandbox/isolation.py`) | run directories | `pull`, `run`, `verify_interface`, `run_in_sandbox` | timeouts, leftovers of another run |
| Miner (`base/miner.py`, `miner/`) | cached commitment | `commit`, `current_commitment`, save and load | a cache that differs from the chain |
| Protocol types, corpus, SDK, command lines, utilities | none that outlives a call | parsing, validation, authoring, configuration | sequential |

How they interact: `forward` reads a metagraph snapshot (chain access), freezes
the artifacts, waits for a later block whose hash seeds task selection, has the
runner produce a patch per artifact and task, hands them to
`RoundRunner.verify`, folds the verdicts into aggregates, gives those to the
registry (crown) and to the allocator (records, weights), submits the weights,
and publishes a bundle. The heartbeat thread shares `last_weights` and the chain
connection with it. `run` saves the state after every iteration, however it
ended.

What makes each part correct is stated by the properties below. The hazards list
of `PROJECT.json` names each place where the code is hard to test, with the
properties that cover it.

## Modules

Modules named `...Proofs` hold theorems about the module of that name, modules
named `MC...` give constants values for TLC. Integers stand for the floats of the
code: scores, gaps and shares are in hundredths in `Dethronement`, whole numbers
of parts in `Emissions`.

| Module | Of | Composed with |
|---|---|---|
| `Dethronement` | `ChampionRegistry` | |
| `ValidatorState` | `state.json` and the loop of `run` | extends `Dethronement` |
| `RoundLifecycle` | `forward` from the round number to the audit index | extends `ValidatorState`, implements it |
| `WeightHeartbeat` | `submit_round_weights`, the heartbeat thread, the chain | |
| `RoundStandings` | `RoundRunner.verify`, `RoundAggregator`, `record_round` | |
| `Patches`, `Attribution`, `Pipeline` | `Evaluator.evaluate` | `Pipeline` implements `Attribution` |
| `TokenProxy` | the token ledger and the chat handler | |
| `ArtifactRunner` | `produce_patches` and `ArtifactRunner` | extends `TokenProxy` |
| `Miner` | `MinerNeuron`, `BaseMinerNeuron`, the commitment slots | |
| `Freeze` | the chain reads of a round, entropy, hidden inputs | extends `Miner` |
| `Selection`, `Emissions`, `Measurement`, `Comparators` | computations without state | called by `Algorithms` |

**Definitions marked "Seeded fault"** are variants of the definition that
follows them, each with one plausible mistake. No specification uses them; they
are substituted for that definition, one at a time, to confirm that the property
they are paired with in `PROJECT.json` fails when the code is wrong.

### `Dethronement`: the crown

`champion`, `round_number`, `sustained` are the fields of `ChampionRegistry`.
`evaluate(aggs, noisy)` is one call, with an action for each way out of it:
nothing scored, no candidate, bootstrap, noisy round, hold, dethrone. What the
call receives is chosen freely: for any subset of the artifacts a standing from
`Standings` (the generalist score, the score per cell, whether it was screened,
and z times the standard error), and whether a task was voided. `sustained` is a
total function, 0 for an artifact the dictionary does not hold. `miner_hotkey`
and `committed_at` of a champion decide nothing and are left out.

`observed` and `earned` are history variables: who dominated the champion in the
last round in the words of `docs/architecture.md`, and for how many rounds of the
reign each artifact did, in total and without a gap. They let the properties say
who *should* have been crowned without using the streaks the code keeps.

The comparison of gaps with 1e-9 is exact in the model; `CommittedAt` is a
constant order, which is what the code is given. (In the code as it stands
`earliest_commitment_times` gives all artifacts of a round the same time, so
ties fall through to the digest order: the case of equal `CommittedAt`.)

### `ValidatorState`: the crown on disk

Extends `Dethronement` with the loop of `run`: `due` is `sync` (which ends by
saving), `forward` (a call of `evaluate`, or an exception before it) and the save
of the `finally` clause. `save_state` takes three steps: open and truncate the
temporary file, finish writing, rename. `Restart` is a kill at any point and
`load_state`.

### `RoundLifecycle`: whole rounds, and the audit repository

Extends `ValidatorState` with what happens between the steps of the loop:
`step` is where `forward` is, from the increment of `round_number` to the update
of `index.json`. `LeaveEarly` is every way to end without a bundle (no corpus, no
metagraph, no artifacts, no entropy, no plan, a `sync` that raised), `LeaveLate`
an exception once weights were submitted: the read of `self.block`
(`base/validator.py:190`) or a write. `KillAndRestart` may come anywhere, and puts
`round_number` and `last_weights` back to the last save, so that a published
number can be used a second time. The rounds themselves are named by the
order they were begun in (`attempt`), which tells such rounds apart.

A bundle is `round.json` and `BUNDLE_HASH`, each truncated and then written in place
(`chain/audit.py:99,108`), and an index entry, whose file is replaced atomically. A
kill or a failure between truncation and write leaves the file `Torn`, and with a
number used again that is behind the index entry of a round that had been
published in full. The patches of accepted tasks are not modelled: `bundle_hash`
does not cover them, and those an earlier round of the same number left in
`patches/` stay there.

`last_weights` is kept by mechanism, with the round each vector is from.
`SubmitWeights(took, confirms)` is a round's submission for every outcome: the chain
took the vectors of some mechanisms and `set_weights` returned for some of those.
Only the latter are remembered, so that a bundle may show vectors of two rounds, and
a vector that landed without a word is on chain and not in the bundle. `landed` and
`confirmed` are history.

`LSpec => SSpec` is proved: every property of `ValidatorState` holds of whole
rounds, and the run `validator_state` checks them there.

### `WeightHeartbeat`: who writes the weights

The round thread computes vectors, reads `mechanism_count` (or takes 1 when the
read fails), folds the lanes of absent mechanisms into mechanism 0, submits one
mechanism after another, remembers the accepted ones under the lock and saves.
The heartbeat thread copies under the lock and submits outside it. A submission
is accepted, refused, not sent because no hotkey resolves, or lands without a
confirmation. A vector is the round that computed it and the lanes it pays.
`mechanism_count` may be raised by the owner at any time; `PassCutoff` is the
chain's activity cutoff. `owed` and `accepted` are history.

### `RoundStandings`: from patches to standings

`verify` visits the pairs in the order of `assign_producers`; each comes to one
of: no patch (refused or empty), skipped because its task was voided, the task
voided, an evaluation error, a failed gate, a score. `ByPair`, `Active`,
`gates_passed`, `OutcomeScore` and `aggregate` are `RoundAggregator`, and
`RecordRound` is `record_round`. `verdicts` is a history variable, what became
of each pair, from which the properties compute what the round should have come
to. Artifacts are distinct digests. The digest challenge of
`verify` is left out: the runner computes the digest from the patch it returns
(`sandbox/runner.py:210`), so the two cannot differ.

### `Attribution` and `Pipeline`: whose fault it is

`Patches` says what decides the fate of a patch: the first gate it is unfit for
and whether it hangs there, what it does for the program (an improvement, none,
or something on which the simulated CPU and real hardware disagree for good), and
the troubles of tasks and hosts. The code sees none of this; it sees what its
checks report, and the reports follow from it.

`Attribution` is the abstract specification, the contract of "Who gets blamed
when something goes wrong" (`docs/architecture.md`) without gates or order: a
pair is settled at most once, charged only for a flaw of its own patch or for
what ails the repository beyond what the baseline shows, credited only if nothing is
wrong with the patch and the task can be scored, excused otherwise, and a task is
voided only with cause.

`Pipeline` is the code: the loop of `RoundRunner.verify` over the patches of one
task, and `Evaluator.evaluate` with one action per stage. `gates` is
`Evaluator._gates`, kept by the evaluator all pairs share; `tree` is what
`Builder.build` made of the candidate's workspace last (level and sanitizer);
`cache` is whether `BaselineBuilder` has stored measurements; `attempt` counts
the re-runs of `_measure_tier_b`; `artifacts` and `voided` are what
`RoundResult` holds of the task. Operators name the ways out of a stage:
`Record` (go on, or finish with a failed gate), `EvaluationError` and
`TaskVoided` (the two handlers of `verify`; in a verification container the
second becomes the first, because the exception ends the container without an
artifact). A pair's verdict is read off its artifact (`VerdictOf`), which is the
refinement mapping.

The contract has two concessions to the code, where the documents say more:

- *The repository's trouble.* The gates look at the patched tree only. A build that
  fails at times (`evaluation/pipeline.py:206-220`, `evaluation/safety.py:105-112`
  and `276-283`), tests that fail on the unmodified repository too
  (`evaluation/build.py:414`), and what a sanitizer, a fuzz target or another
  optimization level finds in it are gate failures of the patch (`Ailing`,
  `Outcomes`), though of a gate failure `docs/architecture.md` says that the
  candidate genuinely failed. `Inherited` lists these troubles; a task with one of
  them may charge a sound patch, or not.
- *A divergent patch.* The table of the contract voids a task for persistent tier
  divergence, and the code does (`evaluation/pipeline.py:459-463`); but what diverges
  is a patch, so its author can void the task, which "a miner must not be able to" do
  (`docs/architecture.md:694-698`). `Voidable` has the code's side.

A patch whose behaviour depends on the optimization level is not told apart (see the
run `pipeline_level`). `SecondOptLevel` ends with the build that puts the tree back to
-O2 "before measurement"; its result is not looked at (`evaluation/pipeline.py:354`).
Where the repository builds only at times the tree may then hold another build or
none (`Restored`), so that another program is measured, or a sound patch is
unmeasurable: `Seen` is what can be measured. Elsewhere the -O2 build is measured,
which `Attributed` needs.

Assumed: a confident reading of the wrong sign is rare, never as many for one
pair as it takes to void (`MaxNoise` at most `sign_agreement_reruns`), and a patch
on which the tiers diverge is always confidently contradicted where there is
wall-clock evidence (`evaluation/pipeline.py:459-463`). A gate reports
what is so: a sanitizer finds what it is there to find. A host fault shows as an
exception. A host on which the *started programs* fail - no memory, no valgrind -
cannot be told from programs that fail: the code charges the patch or voids the
task, and the model does not have such hosts. Left out: `score=False` and
baselines passed in (the SDK), and memory-only Tier B results, which carry no
sign and count as "none".

### `TokenProxy`: the token budget

`Admit` is the handler up to its `await`, `Answer` and `UpstreamFails` what
follows. A request is its estimate, any of `Estimates`: `int(max_tokens or 1024)` is
what the caller says, and may be negative (`sandbox/proxy.py:139`). The usage of an
answer is any up to `MaxUsage`: the prompt is estimated by the text of its messages,
so that tools, `response_format` and other content cost nothing in advance
(`sandbox/proxy.py:187-197`). `OverspendBounded` is about runs whose requests so far
were fair, estimated at something and used up to `Slack` beyond it: `fair` is the
history of that. Of others the handler promises nothing, and no bound is claimed.

Nothing in the repository registers a run's ledger with the proxy or hands its run id
to the container, so that every request would be refused; the model is of a run that
has both.

### `ArtifactRunner`: where patches come from

`produce_patches` goes through the pairs one at a time: `Pull`, `StartContainer`,
the wait, `Collect`, with a failure of each that leaves the pair without a patch.
Run directories are named by task and second (`directory`), and what is in them is
modelled as the pair that wrote the patch and whether the report is in order.
Containers are actors of their own: they write any number of times, end when they
like or never, and go on after `TimeOut`, which kills the client only
(`sandbox/runner.py:270`). One pair uses the proxy: its requests are the callers of
`TokenProxy`, new ones only while its container runs.

### `Miner` and `Freeze`: commitments and entropy

`Miner` is the loop of `MinerNeuron.run` for each hotkey: read the slot, compare
with the configured artifact, `commit()` with its cache and each outcome of the
extrinsic (accepted, refused, landed without a confirmation), the save, and stops
and starts at any point, with the artifact of before or another. The slot has
other writers: `cf-miner submit`, other tools (whose payload does not decode), and
a reorg that takes a commitment back.

`Freeze` puts a validator beside them on the same chain: the first read gives the
neuron table and perhaps the commitments, perhaps the block; a second read gives
the commitments or, when it fails, the last good set; the block number may come
from a third. Between steps miners and chain go on. Then it waits `Lead` blocks,
draws the hash, and prepares hidden inputs from the seal, once that can be opened,
or the generator. `ReadBlocks` bounds the blocks between the metagraph and the
commitments; that it is no more than `Lead` is the assumption under which entropy
postdates the freeze (`freeze_lead_blocks` is 300 by default, a read takes
seconds, with retries at most minutes).

### `Selection`, `Emissions`, `Measurement`, `Comparators`, called by `Algorithms`

Computations without state. `Algorithms` has one action for each: it is given an
input of a set of them and returns the result. TLC checks what the results promise
for every input of bounded sets; the proofs take the sets as they come, under the
assumptions of `Selection` and `Algorithms` on what an input is: task counts that
are numbers and at least one point (`CountsAssumption`), roots that are sequences of
packages and a remainder for every draw (`PlansAssumption`), records that count at most one
failure a round and a champion whose decay leaves it something
(`RoundsAssumption`), processes that count no event without an instruction
(`ReadingsAssumption`), repeats that counted something, which the parser sees to
(`MeasurementsAssumption`), and a declared ulp budget that does not bridge the two
signs (`ComparisonsAssumption`; the gap is 2^53 for doubles, and the one budget the
corpus declares, in `corpus/matrix-stats/package.yaml`, is 64).

- `Selection`: `Corpus.load` with its refusal of duplicates, the pools in the order
  of ids, `derive_round`, the prefix of a Fisher-Yates shuffle, and the weighted
  choice of a profile. `Pool` says where a stable sort puts each package: at the
  place after those with a smaller id, and those with the same id loaded before it
  (`Ahead`). A sort is that for any list; that the pool does not depend on the order
  of loading needs that ids are distinct, which `load` sees to. What sha256 makes of
  the block hash is opaque: a draw is any remainder. A point of the weighted draw
  falls to one profile, so that a profile is drawn by its part of the points but for
  less than one (`WeightsAreKept`); the part is exact only if the total weight
  divides it.
- `Emissions`: both vectors of a round in exact shares. The three cases of
  `allocate_generalist` (no survivor, a champion that survives, survivors without
  the champion), the pool by held-out capture or evenly, the floor by gate passes
  and reliability, the decayed share, the ranks of a cell with the geometric
  decrease, and what the cells leave to the floor. Ranks are by the product of
  1 + capture, which orders as the geometric mean does; shares by held-out capture
  are exact for a single hidden task, which is what the instance has, and in the
  right order for more. Sums and products are folds over finite sets
  (`SumFunctionOnSet`, `Product`). A hotkey has one artifact a round, because its
  commitment slot holds one (`MinersAssumption`).
- `Measurement`: what callgrind writes by version and `parse_callgrind_output`,
  adding up the processes counter by counter, the spread that is refused, the lower
  bound capped by the point estimate, the capture, and the components. Order
  statistics are by `Ranked`: the k-th of the samples is the least that k of them do
  not exceed. The bootstrap may return any ratio of a baseline repeat to a candidate
  repeat, which is what resampled medians are.
- `Comparators`: the six disciplines over observations whose channels are abstract,
  floats as sign and magnitude with `_ulp_distance` as the code computes it, and
  both budgets. `AcceptanceHolds` states what acceptance promises: the declared side
  effects agree (`SameEffects`), and what the discipline judges does
  (`SameBehaviour`), numbers within a relative or an ulp budget. `round_trip` judges
  each side alone; that both were given the same input, or encode it alike, nobody
  compares. With a relative budget acceptance depends on which side is the baseline.

## Runs

| Run | Shows | Bounds, and why they are enough |
|---|---|---|
| `dethronement` | five properties of the crown and its types | 3 artifacts (a champion and two rivals: ties and interleaved warm-ups), 2 cells, 5 standings at the edges of the band, warm-up 3 as in the spec, 5 rounds (a crowning, a warm-up, a handover and the round after it) |
| `validator_state` | the state file is always readable, at most a round old and keeps the defender advantage; rounds with an effect can be audited but for one a mishap, index entries lead to their bundles but for one a mishap, and bundles show of each mechanism the newest vector it accepted | 2 artifacts, warm-up 2, 3 rounds on record and 3 begun (an older, a newer, and one over a number freed by a kill), 2 kills or failures anywhere, 2 mechanisms, which nothing tells apart (symmetry); history only `Dethronement`'s properties read is left out of the view |
| `weight_heartbeat` | only accepted vectors are re-asserted, no lane is dropped, and the liveness of the heartbeat | 2 rounds (an older and a newer vector), 1 kill, all outcomes, both mechanism counts |
| `weight_heartbeat_race` | violated: a heartbeat can put an older vector on chain | 2 rounds, no kill, no lost confirmation: the race alone does it |
| `artifact_runner` | the overrun of a budget is bounded, pairs are credited with their own patches, production ends | 3 pairs (two artifacts on a task, one of them on another), 2 seconds, 2 overlapping requests of one pair on a budget of two, estimated at one or less than nothing and used up to three |
| `round_standings` | standings, published patches and records follow from the verdicts | 2 artifacts, a public and a hidden task, 3 scores (none, some, more), 2 rounds (a record to build on) |
| `pipeline` | refinement of the contract, divergence is not scored, every pair settles | 2 patches (what one leaves behind for the next), each of 16 kinds: sound with every gain, unfit or hanging at gates of each sort; 17 kinds of task (every trouble, and no fuzz targets), 4 of host; 1 re-run as in the spec |
| `pipeline_level` | violated: a patch that depends on the optimization level passes | as above, on sound tasks |
| `freeze` | entropy postdates the freeze; a neuron's cache agrees with the chain; a miner's artifact goes live | 1 hotkey, 2 artifacts and another tool's payload, 2 mishaps, 2 blocks, a lead and a read of 1, one round with any number of re-reads before it |
| `miner_recommit` | violated: a commitment that was overwritten is not put back | 2 mishaps, no round |
| `sealed_replay` | violated: a seal supplies inputs that were public before the freeze | a seal that opens at block 1, 4 blocks, 1 round, no mishap |
| `algorithms` | eight properties of the computations | six corpora of up to five packages (over one, two and three roots, with duplicates, without held-out or public ones), every draw of two and 100 points; up to 3 artifacts with every outcome of a public and a hidden task, four champions and three records; up to 3 processes; repeats that are equal, tolerated and refused; floats of 4 bits with both signs |

Runs stop at their bounds (`MaxRounds`, `MaxKills`, `MaxMishaps`; production ends
and a computation returns), so `CHECK_DEADLOCK FALSE` is set in all but those of
`Freeze`, where a miner's loop always goes on.

The four violated properties each state what a comment or document says; the
findings in `PROJECT.json` quote it beside what the code does.

### Other disagreements

Met while modelling, and visible in the models, but not run.

The crown, its state and the weights:

- The warm-up rounds that crown a challenger need not be consecutive: a noisy
  round, or one it is not screened in, keeps its streak
  (`scoring/dethronement.py:155`; `docs/architecture.md:496-497`).
- `ChampionRegistry.evaluate` crowns the first champion before it looks at
  `round_was_noisy` (`scoring/dethronement.py:112`), while "the crown changes only at
  a decisive checkpoint after warm-up rounds, [...] and never on a round whose
  baseline stability gate fired" (lines 19-21). `CrownIsEarned` is stated of a crown
  that is taken from a champion.
- All artifacts of a round are frozen at one block (`validator/forward.py:275`), and
  `earliest_commitment_times` orders by that block, so that "the one committed first
  wins" (`chain/commitments.py:43-45`) never decides: ties fall through to the
  digest. `StrongestThenEarliest` says that the registry keeps to an order that
  does tell artifacts apart.
- `save_state` does not save the streaks of challengers
  (`base/validator.py:254`; "This file holds the champion registry", line 298).
- The bundle shows, under this round's number, the vector of an earlier round for each
  mechanism that refused this one's or did not confirm it, where it may have landed
  (`validator/forward.py:208`). `BundleShowsAcceptedWeights` says which.
- `round.json` and `BUNDLE_HASH` are written in place, where the state file and the
  index are replaced ("Written atomically: a crash mid-write would otherwise leave a
  truncated index behind", `chain/audit.py:196-197`): see `IndexLeadsToBundles`.
- The audit repository is "append-only" (`chain/audit.py:143`), yet after a kill
  before the save a round overwrites the bundle of the one whose number it takes.

Verification and emissions:

- An evaluation error of a pair is counted by coverage as a task the artifact
  failed, and by `record_round` as a failure (`scoring/aggregate.py:216`;
  `docs/architecture.md:674` and `683`).
- In a verification container an unstable baseline is an evaluation error of one
  pair and does not drop the task (`sandbox/verify.py:230`;
  `docs/architecture.md:705`).
- Trouble of the unmodified repository that shows in a gate is charged to the patch, a
  divergent patch voids its task, and the build restored before measurement may not be
  the -O2 one: see `Attribution` and `Pipeline` above.
- An artifact that returns only empty patches has no standing, so the floor pool
  cannot pay it (`validator/forward.py:317`; the comment below it).
- The docstring of `allocate_generalist` says that miners that failed the screen
  earn nothing; the floor, when nobody else survives, pays them
  (`scoring/emissions.py:170`). `SurvivorsEarnByHeldOut` is stated accordingly.

Production and the proxy:

- Requests that overlap are all admitted against the same remainder, so the budget
  is overrun even with exact estimates (`sandbox/proxy.py:69`; the module docstring,
  lines 7-9). `OverspendBounded` says by how much, if requests are fair. One that is
  estimated at nothing or less is admitted on a spent budget
  (`sandbox/proxy.py:139`).
- Two runs of a task started within a second share a directory, so that "only this
  artifact's own output" is in it (`sandbox/runner.py:243`) does not hold of them;
  nor is "the whole process group" reaped on a timeout (line 269), only the client.
- The tokens an agent reports are not compared with the proxy's ledger.

Chain and miner:

- The freeze is not one read at one block (`validator/forward.py:69-71`): the
  commitments may come from a second read and the block number from a third, and a
  cache served for a failed read may be of any age ("at most slightly stale",
  `chain/access.py:263`). That entropy comes later holds in spite of it.
- `_ulp_distance` says its line is monotone, but negative numbers end up above the
  positive ones, so 0.0 and -0.0 are far apart (`corpus/equivalence.py:235`). It
  errs on the side of refusing; `AcceptanceIsBacked` holds.
- The state of services is accepted when neither side reports any, while the other
  disciplines refuse (`corpus/equivalence.py:312`).
- The comment at `scoring/capture.py:84-86` gives unchanged build time the full
  component; the code gives it none.

### Fairness

`pipeline` checks that every pair settles under weak fairness of `Proceed`, one
step of the loop: `verify` waits for nothing but programs it starts, each under a
time limit (`evaluation/*.py`, `subprocess.run` with `timeout=`) but for those that
run no code of the patch and are taken to return: `git apply` and `patch`
(`evaluation/build.py:233-244`) and `abidiff`. Host faults are not fair.

`artifact_runner` checks that production ends under weak fairness of `Produce`: a
pull returns, and a wait has its time limit (`sandbox/runner.py:266`). Containers
are not fair: they need not end, nor write.

`freeze` checks `ArtifactGoesLive` under `MinerFairness`: the loop of `run` goes on
(each call returns or raises, and the sleep ends), an operator starts a neuron that
stopped, and of reads and commits tried again and again some succeed (strong
fairness; without it a chain that refuses for ever would make it impossible for any
code). The validator, the other writers and stops are not fair. The property
excuses hotkeys whose slot somebody else wrote to, whose confirmation was lost or
that were killed before a save: those are what `miner_recommit` is about.

`weight_heartbeat` checks liveness under its `FairSpec`:

- Submitting, remembering and saving are weakly fair: each call to the chain
  returns or raises, and the round thread goes on either way
  (`base/validator.py:176-192`, `validator/neuron.py:184`).
- The heartbeat thread is weakly fair: its loop waits for an interval and catches
  every exception (`base/validator.py:208-226`).
- For a mechanism that exists, a beat that the heartbeat keeps making is accepted
  in the end (strong fairness of the accepted outcome), as above.
- Starting a round is not fair: how long a round measures has no bound, which is
  what the heartbeat is for. A kill is never fair, and there are `MaxKills`.

## Proofs

The proofs hold for every value of the constants that satisfies the named
assumptions of the module: any number of artifacts, any standings, any bounds.
The assumptions are those that give constants their types, that the warm-up and
the margin are at least one, that the digest order is a total order, that
the reserved values (`NoChampion`, `Absent`, ...) are distinct from what they
stand beside, and those on the inputs of `Algorithms` given above. TLC evaluates
them in the runs.

- `DethronementProofs`. The inductive invariant joins the types, that no streak
  reaches the warm-up, that streaks and stagnation fit into the reign, and the
  link between the code's streaks and the history: an artifact's streak is at
  most the rounds it has dominated in this reign and at least the unbroken run
  of them. `CrownIsEarned` needs the first half of the link,
  `UnbrokenDominanceWins` and `StrongestThenEarliest` the second.
  `ReignLastsWarmup` needs that a streak is no longer than the reign.
- `ValidatorStateProofs`. The crown on disk is the crown in memory or the one a
  round ago, depending on where the loop and the save are; from there a handover
  on disk is a handover in memory, whose champion reigned long enough. The
  argument uses the invariant of `Dethronement` in every step, and that a restart
  only drops streaks, which makes handovers later.
- `WeightHeartbeatProofs`. Everything remembered, copied, saved or landed was
  accepted (`OnlyAcceptedIsReasserted` strengthened by what landed), and the
  lanes of a round are owed only while a vector that pays them is still to be
  sent. `KillForgetsOnlyUnsaved` needs that what is saved equals what is
  remembered except while a save is due, and that rounds only grow.
- `RoundStandingsProofs`. The score artifacts of a round are those of the
  verdicts whose task is not voided, the best patch of a task is the best of the
  verdicts so far, and a record counts a round once. Each is preserved by every
  way a pair can turn out, voiding included.
- `PipelineProofs`. That `Pipeline` implements `Attribution` needs to know, at
  each stage, what the stages before have ruled out: the flaws whose gates are
  behind the pair (`Cleared`), the troubles the baseline would have shown
  (`Reproduced`), that from the second-level check on the tree is the -O2 build, but on
  a task that builds only at times, that at the sign-agreement loop noise alone explains the re-runs
  of a patch the tiers agree on (`NoiseRules`), and that no gate of an earlier
  pair is left (`Open`). Five lemmas say what each way out of a stage does to the
  contract's verdicts; each action then cites one of them. `NoArtifact` being no
  artifact and the bound on noise are the assumptions used.

- `ValidatorStateProofs`, second part. Each action of `RoundLifecycle` is a step of
  `ValidatorState` or none, so `LSpec => SSpec`. For bundles: what is remembered,
  saved or half saved was accepted by its mechanism, of the vectors a mechanism
  accepted what is remembered lacks at most one a mishap, and what is saved at most that
  beside the round in progress (`FInv`), so that a kill costs one; between the submission and the bundle a round's own vector is remembered
  where it was accepted.
- `ValidatorStateProofs`, third part: the two counts of the audit repository.
  `AuditMissesOnlyMishaps` and `IndexLeadsToBundles` are not inductive, because a
  bundle that is in place can still be lost: a kill before the save frees the number
  of a published round, and the next round overwrites its directory, with no mishap
  of its own. The invariant `AInv` therefore books a loss when it becomes possible
  and not when it happens: `AtRisk` are the rounds whose bundle is missing or in the
  directory the next round will write to, `StaleEntries` the index entries likewise,
  and each has at most as many members as there were mishaps. A kill adds one member
  to each, a failed read or write at most one, every other step none; publication
  takes one away, if it does anything. To know which directory the next round writes
  to, the invariant says how the number in use, the one saved and the one being
  saved relate (`NumbersFollowSaves`), and which files of a bundle exist
  (`BundlesInOrder`).
- `ArtifactRunnerProofs`, which begin with `TokenProxy`. Each request in flight was
  admitted within the budget, so the ledger plus what is in flight is bounded by the
  budget plus what all but the last admitted can add; the sum over the callers is
  bounded by their number. That is inductive as long as every request was fair, which
  `fair` remembers, and claimed of nothing else. For the runner: that a pair is credited with a patch of
  its own task and second needs to be known whose patch lies in a directory, which
  holds because a pair is started once and in order, so that the second its
  directory is named by never changes under a container still writing.
- `FreezeProofs`. What is in a slot or in the cache was written at a block that
  exists, and the commitments of a snapshot are read within `ReadBlocks` of the
  metagraph. `LeadAssumption` (`ReadBlocks <= Lead`) is used once, where the
  snapshot is frozen. `CacheTellsTheTruth` is inductive beside the types of the
  miners. It is argued for one neuron at a time: a step leaves the others as they
  were, and its own cache is written only from what the chain confirmed; a lost
  confirmation, a kill before a save and another writer each mark the slot.
- `AlgorithmsProofs`. The invariant is small (`Returned`: the answer is the one the
  definition gives for an input of the set); the work is in what the definitions
  compute, for every finite set of artifacts, hotkeys, tasks, cells, processes and
  events.
  - Folds. `SumFunctionOnSet` and `Product` are folds in an order that CHOOSE picks.
    Set induction, instantiated at fixed predicates, shows that a function on the
    subsets of a finite set obeys the equation of the fold and that two such
    functions agree; the equation gives the sum and the product of a set from those
    of a smaller one, and from there bounds, positivity and distributivity.
  - Loops. The state of a loop after i passes is a function on 0..k; induction at
    fixed predicates carries a fact from one pass to the next.
  - `TasksAreDrawnFairly`. A pass of the shuffle exchanges two places, the later of
    them not before the pass, so the pool stays a rearrangement and the places
    already drawn stay as they are. Hence no package is drawn twice; and of two
    shuffles with the same result the pools agree after every pass, so the pass that
    would first differ took the same place, and the remainders were the same. For
    profiles the points that draw one are an interval, whose length is counted
    against the weight.
  - `PlansAgree`. The places of a stable sort are those of a permutation: sets of
    those ahead grow strictly along the order, so their cardinalities name the
    places 1..n. Lists of the same packages with distinct ids have the same pool,
    since at each place both have the package with so many smaller ids; plan and
    refusal depend on the pools alone.
  - `WorkIsAlwaysPaid`. A split pays someone as soon as one value is positive: the
    floor by the gate passes of an eligible artifact, the pool by its even split.
    What the cells leave to the floor is positive unless they gave out something.
  - `StagnationAlwaysCosts`. The generalist vector of a champion in parts of one
    whole, as a function of the decay: the champion's hotkey has less than all of the
    pool, since another artifact with a claim has a part of it (by
    `MinersAssumption` under another hotkey), so the crown falls by more than comes
    back.
  - `PoolPaysWhatGeneralises`. Outside the crown the vector is one multiple of the
    held-out values, which are 0 for those outside the pool.
  - `ReadingsAddUp`. What the parser returns for either version of the file is the
    work of the process, and processes without an instruction, which are skipped, add
    nothing to a sum.
  - `UncertaintyIsCharged`. Every division rounds down and is monotone; the bound is
    at most the point estimate, so its capture is at most that of the medians; each
    piece of evidence earns between nothing and its weight, and the score is the sum.
  - `AcceptanceCanBeTrusted`. No divergence in a declared channel means that the
    channel agrees, and for each discipline no divergence means that what it judges
    does. Of numbers: within the assumed budget only those of one sign are ever
    close, and between them `_ulp_distance` is the number of representable steps; a
    relative budget is an interval about the baseline's.

The type invariants of `ValidatorState`, `RoundLifecycle`, `WeightHeartbeat`,
`TokenProxy`, `Pipeline`, `ArtifactRunner` and `Freeze` are proved and not run, as are three facts about
streaks and stagnation in `DethronementProofs`. `AInv` was checked by TLC on the
instance of `validator_state` before it was proved.

Only model-checked: liveness (`StaysInConsensus`, `RememberedVectorReturns`,
`EveryPairSettles`, `ProductionEnds`, `ArtifactGoesLive`). It needs the fairness
conditions, whose ENABLED the prover does not expand. Every other property of a
passing run is the statement of a theorem.

## Not modelled

- Running valgrind, perf and compilers, the Tier B sample loop and its thermal and
  calibration checks, and the random numbers of the bootstrap: numerical or
  external, taken as nondeterministic outcomes where a model needs them.
- The container runtime and the arguments that isolate it (`sandbox/isolation.py`),
  beyond a profile that is refused.
- The timelock cryptography: a seal can be opened by anyone from a block on. In the
  code that is a round of drand, not a block.
- Bounties and the emergency burn: `forward` awards no bounty and never calls
  `emergency_burn`.
- The cache of hyperparameters, the object shapes of the SDK, and the conversion of
  weights to 16 bits: reads and formatting.
- Kills while the baseline cache is written: `_load` discards a file it cannot parse.
- Corpus authoring, glob matching and hashing of trees, the SDK, the command lines,
  configuration and logging: sequential code for one user, without state that
  outlives a call.

## Plan

All modules named above exist, and every safety and action property a passing run
checks is proved. What would add most:

1. `Freeze` and `RoundLifecycle` on one chain, so that a round that is killed
   between freeze and bundle is followed from commitment to audit.
2. The verdicts of `Pipeline` handed to `RoundStandings` by composition.
3. The crown of `Dethronement` handed to `Emissions`, so that a decay other than
   those of `decay_multiplier` is excluded by proof and not by assumption.
