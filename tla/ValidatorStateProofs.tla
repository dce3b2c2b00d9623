------------------------ MODULE ValidatorStateProofs ------------------------
(***************************************************************************)
(* Theorems about ValidatorState, and about the rounds of RoundLifecycle   *)
(* that take its steps.  The inductive invariant says how far              *)
(* the registry in memory may have run ahead of the one on disk: not at    *)
(* all between rounds, by one evaluation until save_state has renamed its  *)
(* file.  Restart then is the step that drops whatever was ahead.          *)
(*                                                                         *)
(* RoundLifecycle implements ValidatorState, whose theorems so hold of it. *)
(* What its bundles show has an invariant of its own (LInv), and what the  *)
(* audit repository is missing one that counts (AInv).                     *)
(***************************************************************************)
EXTENDS RoundLifecycle, DethronementProofs, FiniteSetTheorems

(* What load_state restores from the file. *)
Saved == IF state_file = Absent
           THEN [champion |-> NoChampion, round_number |-> 0]
           ELSE state_file

(* A crown that can be loaded: it was won in a round that was counted. *)
Loadable(p) ==
  /\ p \in Payload
  /\ p.champion # NoChampion =>
       p.champion.crowned_round + p.champion.rounds_without_improvement
         <= p.round_number

(* p is at most one evaluation ahead of q: another artifact holds the      *)
(* crown only if its reign began a warm-up after the one it ended.         *)
Follows(p, q) ==
  /\ q.round_number <= p.round_number
  /\ p.round_number <= q.round_number + 1
  /\ q.champion # NoChampion =>
       /\ p.champion # NoChampion
       /\ \/ p.champion.artifact_digest = q.champion.artifact_digest
          \/ p.champion.crowned_round >= q.champion.crowned_round + Warmup

SInv ==
  /\ STypeOK
  /\ IInv
  /\ StateFileReadable
  /\ Loadable(Saved)
  /\ Follows(payload, Saved)
  /\ due \in {"sync", "forward"} => payload = Saved
  /\ write # "none" => due # "forward"
  /\ write = "done" => tmp_file = payload

-----------------------------------------------------------------------------

(* A crown is never vacated. *)
LEMMA CrownIsKept ==
  ASSUME IInv, NEW aggs \in Aggregates, NEW noisy \in BOOLEAN,
         evaluate(aggs, noisy), champion # NoChampion
  PROVE  champion' # NoChampion
<1>1. TypeOK
  BY DEF IInv
<1>2. Advanced(aggs) # NoChampion
  BY <1>1, AdvancedType, NoChampionAssumption
<1>3. CASE Dethrone(aggs)
  <2>1. PICK w \in Artifacts :
          IsBest(aggs, Contenders(aggs), w) /\ champion' = Crowned(aggs, w)
    BY <1>3 DEF Dethrone
  <2>2. w \in DOMAIN aggs
    BY <2>1 DEF IsBest, Contenders, Clearing, Challengers
  <2> QED BY <1>1, <2>1, <2>2, CrownedType
<1> QED BY <1>2, <1>3
        DEF evaluate, NothingScored, NoCandidate, Bootstrap, NoisyRound, Hold

(* One evaluation moves the registry one step ahead of where it was. *)
LEMMA EvaluateFollows ==
  ASSUME IInv, NEW aggs \in Aggregates, NEW noisy \in BOOLEAN, evaluate(aggs, noisy)
  PROVE  Follows(payload', payload)
<1>1. round_number \in Nat /\ round_number' = round_number + 1
  BY DEF IInv, TypeOK, evaluate, CountRound,
         NothingScored, NoCandidate, Bootstrap, NoisyRound, Hold, Dethrone
<1>2. champion # NoChampion => champion' # NoChampion
  BY CrownIsKept
<1>3. [Next]_vars
  BY DEF Next
<1>4. HandsOver => champion'.crowned_round >= champion.crowned_round + Warmup
  BY <1>3, HandoverAfterWarmup
<1> QED BY <1>1, <1>2, <1>4 DEF Follows, payload, HandsOver

(* The registry in memory can always be loaded back once it is saved. *)
LEMMA PayloadLoadable ==
  ASSUME IInv
  PROVE  Loadable(payload)
  BY DEF IInv, TypeOK, StagnationWithinReign, Loadable, payload, Payload

(* Nothing is ahead of itself. *)
LEMMA PayloadFollowsItself ==
  ASSUME IInv
  PROVE  Follows(payload, payload)
  BY DEF IInv, TypeOK, Follows, payload

(* A loaded crown with no streaks satisfies the registry's invariant. *)
LEMMA RestartIInv ==
  ASSUME SInv, Restart
  PROVE  IInv' /\ payload' = Saved
<1>1. champion' = Saved.champion /\ round_number' = Saved.round_number
  BY DEF Restart, Saved
<1>2. Saved \in Payload /\ Loadable(Saved)
  BY DEF SInv, Loadable
<1>3. payload' = Saved
  BY <1>1, <1>2 DEF payload, Payload
<1>4. /\ champion' \in Champion \cup {NoChampion}
      /\ round_number' \in Nat
      /\ champion' # NoChampion =>
           champion'.crowned_round + champion'.rounds_without_improvement <= round_number'
  BY <1>1, <1>2 DEF Payload, Loadable
<1>5. /\ sustained' = [a \in Artifacts |-> 0]
      /\ earned' = NothingEarned
      /\ observed' = [noisy |-> FALSE, dominant |-> {}, leaders |-> {}]
  BY DEF Restart, Unchallenged
<1>6. Warmup \in Nat \ {0}
  BY WarmupAssumption
<1>7. TypeOK'
  BY <1>4, <1>5, <1>6 DEF TypeOK, NothingEarned
<1>8. champion' # NoChampion =>
        /\ champion'.crowned_round \in Nat
        /\ champion'.crowned_round <= round_number'
  <2> SUFFICES ASSUME champion' # NoChampion
               PROVE  /\ champion'.crowned_round \in Nat
                      /\ champion'.crowned_round <= round_number'
    OBVIOUS
  <2>1. /\ champion'.crowned_round \in Nat
        /\ champion'.rounds_without_improvement \in Nat
    BY <1>4 DEF Champion
  <2> QED BY <1>4, <2>1
<1>9. NoSustainedChallengerWaits' /\ StreaksWithinReign'
  BY <1>4, <1>5, <1>6, <1>8 DEF NoSustainedChallengerWaits, StreaksWithinReign
<1>10. StagnationWithinReign' /\ ReignStarted'
  BY <1>4, <1>8 DEF StagnationWithinReign, ReignStarted
<1>11. StreaksAreEarned'
  BY <1>5 DEF StreaksAreEarned, NothingEarned
<1> QED BY <1>3, <1>7, <1>9, <1>10, <1>11 DEF IInv

(* The validator starts with nothing in memory and nothing on disk. *)
LEMMA SInitSInv == SInit => SInv
<1> SUFFICES ASSUME SInit PROVE SInv
  OBVIOUS
<1>1. IInv
  BY InitIInv DEF SInit
<1>2. payload = Saved
  BY DEF SInit, Init, payload, Saved
<1>3. Loadable(Saved) /\ Follows(payload, Saved)
  BY <1>1, <1>2, PayloadLoadable, PayloadFollowsItself
<1> QED BY <1>1, <1>2, <1>3, FileAssumption
        DEF SInv, STypeOK, IInv, SInit, Stages, Writes, StateFileReadable

(* Every step of the validator preserves SInv. *)
LEMMA SNextSInv == SInv /\ [SNext]_svars => SInv'
<1> SUFFICES ASSUME SInv, [SNext]_svars PROVE SInv'
  OBVIOUS
<1> USE DEF SInv
<1>1. CASE ScoreRound
  <2>1. PICK aggs \in Aggregates, noisy \in BOOLEAN : evaluate(aggs, noisy)
    BY <1>1 DEF ScoreRound
  <2>2. IInv'
    BY <2>1, EvaluateIInv
  <2>3. Saved' = Saved /\ payload = Saved /\ due' = "save"
    BY <1>1 DEF ScoreRound, disk, Saved
  <2>4. Follows(payload', Saved')
    BY <2>1, <2>3, EvaluateFollows
  <2> QED BY <1>1, <2>2, <2>3, <2>4
          DEF ScoreRound, disk, STypeOK, IInv, Stages, Writes, StateFileReadable, Loadable
<1>2. CASE UNCHANGED <<vars, state_file>>
           /\ due' \in {due, "save"} /\ write' \in Writes
           /\ tmp_file' \in Payload \cup {Absent, Torn}
           /\ (write' # "none" => due' # "forward")
           /\ (write' = "done" => tmp_file' = payload)
  <2>1. IInv' /\ payload' = payload /\ Saved' = Saved
    BY <1>2, NextIInv DEF vars, payload, Saved
  <2>2. STypeOK' /\ StateFileReadable'
    BY <1>2, <2>1 DEF STypeOK, IInv, Stages, Writes, StateFileReadable
  <2> QED BY <1>2, <2>1, <2>2 DEF Follows, Loadable
<1>3. payload \in Payload
  BY PayloadLoadable DEF Loadable
<1>4. CASE AbortRound
  BY <1>2, <1>4 DEF AbortRound, disk, STypeOK, Writes
<1>5. CASE BeginWrite
  BY <1>2, <1>5 DEF BeginWrite, Writes
<1>6. CASE EndWrite
  BY <1>2, <1>3, <1>6 DEF EndWrite, Writes
<1>7. CASE Replace
  <2>1. IInv' /\ payload' = payload
    BY <1>7, NextIInv DEF Replace, vars, payload
  <2>2. state_file' = payload /\ Saved' = payload
    BY <1>3, <1>7, FileAssumption DEF Replace, Saved
  <2>3. STypeOK' /\ StateFileReadable'
    BY <1>3, <1>7, <2>1, <2>2, FileAssumption
       DEF Replace, STypeOK, IInv, Stages, Writes, StateFileReadable
  <2> QED BY <1>7, <2>1, <2>2, <2>3, PayloadLoadable, PayloadFollowsItself
          DEF Replace
<1>8. CASE Restart
  <2>1. IInv' /\ payload' = Saved /\ Saved' = Saved
    BY <1>8, RestartIInv DEF Restart, disk, Saved
  <2>2. STypeOK' /\ StateFileReadable'
    BY <1>8, <2>1 DEF Restart, disk, STypeOK, IInv, Stages, Writes, StateFileReadable
  <2>3. Loadable(Saved') /\ Follows(payload', Saved')
    BY <2>1 DEF Loadable, Follows, Payload
  <2> QED BY <1>8, <2>1, <2>2, <2>3 DEF Restart
<1>9. CASE UNCHANGED svars
  <2>1. IInv' /\ payload' = payload /\ Saved' = Saved
    BY <1>9, NextIInv DEF svars, vars, disk, payload, Saved
  <2> QED BY <1>9, <2>1 DEF svars, disk, STypeOK, IInv, StateFileReadable, Follows, Loadable
<1> QED BY <1>1, <1>4, <1>5, <1>6, <1>7, <1>8, <1>9 DEF SNext

(* So SInv holds throughout. *)
LEMMA SSpecSInv == SSpec => []SInv
  BY SInitSInv, SNextSInv, PTL DEF SSpec

-----------------------------------------------------------------------------

(* Type correctness of the durable state. *)
THEOREM DurableTypeCorrect == SSpec => []STypeOK
<1>1. SInv => STypeOK
  BY DEF SInv
<1> QED BY <1>1, SSpecSInv, PTL

(* The rename is what makes the write of state.json atomic: a validator    *)
(* killed at any step of save_state finds a file it can read.              *)
THEOREM StateSurvivesAnyKill == SSpec => []StateFileReadable
<1>1. SInv => StateFileReadable
  BY DEF SInv
<1> QED BY <1>1, SSpecSInv, PTL

(* A kill costs the round in progress and no other. *)
THEOREM OneRoundAtRisk == SSpec => []CrashForgetsOneRound
<1>1. SInv => CrashForgetsOneRound
  BY DEF SInv, CrashForgetsOneRound, SavedRounds, Follows, Saved, payload
<1> QED BY <1>1, SSpecSInv, PTL

(* The crown on disk obeys the defender advantage whenever the validator   *)
(* is killed and however often, although the streaks are lost each time.   *)
THEOREM DurableDefenderAdvantage == SSpec => DurableReignLastsWarmup
<1> DEFINE Late == /\ state_file'.champion # NoChampion
                   /\ state_file'.champion.crowned_round
                        >= state_file.champion.crowned_round + Warmup
<1>1. ASSUME SInv, [SNext]_svars, DurableHandover PROVE Late
  <2>1. Saved = state_file /\ state_file' # state_file
    BY <1>1, FileAssumption DEF DurableHandover, Saved
  <2>2. Replace
    BY <1>1, <2>1 DEF SNext, svars, disk, ScoreRound, AbortRound, BeginWrite, EndWrite, Restart
  <2>3. state_file' = payload
    BY <1>1, <2>2 DEF Replace, SInv
  <2>4. Follows(state_file', state_file)
    BY <1>1, <2>1, <2>3 DEF SInv
  <2> QED BY <1>1, <2>4 DEF Follows, DurableHandover
<1>2. SInv /\ [SNext]_svars => [DurableHandover => Late]_svars
  BY <1>1
<1> QED BY <1>2, SSpecSInv, PTL DEF SSpec, DurableReignLastsWarmup

-----------------------------------------------------------------------------
(***************************************************************************)
(* RoundLifecycle.                                                         *)
(***************************************************************************)

(* Every step of a round, of its bundle and of a kill is a step of         *)
(* ValidatorState or leaves what that speaks of alone, so its theorems     *)
(* hold of whole rounds (forward, ValidatorNeuron.run).                    *)
THEOREM RoundsImplementDurableState == LSpec => SSpec
<1>1. LInit => SInit
  BY DEF LInit
<1>2. [LNext]_lvars => [SNext]_svars
  <2> SUFFICES ASSUME [LNext]_lvars PROVE [SNext]_svars
    OBVIOUS
  <2>1. CASE Forward
    BY <2>1 DEF Forward, BeginRound, LeaveEarly, ReachCrown, SubmitWeights, ReadBlock,
                Submitted, OpenBundle, WriteBundle, OpenHash, WriteHash, UpdateIndex,
                LeaveLate, SNext
  <2>2. CASE SaveState
    BY <2>2 DEF SaveState, SNext
  <2>3. CASE KillAndRestart
    BY <2>3 DEF KillAndRestart, SNext
  <2>4. CASE UNCHANGED lvars
    BY <2>4 DEF lvars
  <2> QED
    BY <2>1, <2>2, <2>3, <2>4 DEF LNext
<1> QED
  BY <1>1, <1>2, PTL DEF LSpec, SSpec

(* What mechanism m may be shown to have: a vector it accepted, or none.   *)
Accepted(m) == confirmed[m] \cup {0}

AcceptedVectors == {v \in [Mechanisms -> Nat] : \A m \in Mechanisms : v[m] \in Accepted(m)}

(* A bundle, if it is whole, shows what was accepted, and what was of its  *)
(* own round if that was.                                                  *)
Shows(d) ==
  /\ d.json \in 0..attempt
  /\ \A m \in Mechanisms :
       /\ d.weights[m] <= d.json
       /\ d.json \in confirmed[m] => d.weights[m] = d.json

(* What the bundles need: last_weights, in memory and on disk, was always  *)
(* accepted; once the round in progress has had a vector accepted it holds *)
(* that; and no directory is of a round yet to be weighed.                 *)
LInv ==
  /\ attempt \in Nat
  /\ landed \subseteq 1..attempt
  /\ confirmed \in [Mechanisms -> SUBSET landed]
  /\ last_weights \in AcceptedVectors
  /\ state_rest.last_weights \in AcceptedVectors
  /\ tmp_rest.last_weights \in AcceptedVectors
  /\ step \in {"block", "bundle", "json"} =>
       \A m \in Mechanisms : attempt \in confirmed[m] => last_weights[m] = attempt
  /\ step \in {"round", "weights"} => attempt > 0 /\ attempt \notin landed
  /\ dirs \in [1..MaxAttempts -> [json : Nat \cup {Torn}, hash : Nat \cup {Torn},
                                  weights : AcceptedVectors]]
  /\ step \in {"round", "weights"} => \A n \in 1..MaxAttempts : dirs[n].json # attempt
  /\ \A n \in 1..MaxAttempts : dirs[n].json # Torn => Shows(dirs[n])

(* Rounds leave, save or are killed: nothing is accepted or published.     *)
Uneventful ==
  /\ UNCHANGED <<attempt, landed, confirmed, dirs>>
  /\ last_weights' \in AcceptedVectors
  /\ state_rest'.last_weights \in AcceptedVectors
  /\ tmp_rest'.last_weights \in AcceptedVectors
  /\ \/ step' \in {"out", "patches", "hash", "index"}
     \/ /\ last_weights' = last_weights
        /\ \/ step' = step
           \/ step = "block" /\ step' = "bundle"
           \/ step = "round" /\ step' = "weights"

LEMMA QuietKeeps ==
  ASSUME LInv, Uneventful
  PROVE  LInv'
<1>1. UNCHANGED <<attempt, landed, confirmed, dirs>>
  BY DEF Uneventful
<1>2. AcceptedVectors' = AcceptedVectors
  BY <1>1 DEF AcceptedVectors, Accepted
<1>3. \A n \in 1..MaxAttempts : Shows(dirs[n])' <=> Shows(dirs[n])
  BY <1>1 DEF Shows
<1>4. /\ step' \in {"block", "bundle", "json"} =>
           \A m \in Mechanisms : attempt \in confirmed[m] => last_weights'[m] = attempt
      /\ step' \in {"round", "weights"} =>
           attempt > 0 /\ attempt \notin landed /\ \A n \in 1..MaxAttempts : dirs[n].json # attempt
  BY DEF LInv, Uneventful
<1> QED
  BY <1>1, <1>2, <1>3, <1>4 DEF LInv, Uneventful

LEMMA BeginRoundKeeps ==
  ASSUME LInv, BeginRound
  PROVE  LInv'
<1>1. /\ attempt' = attempt + 1 /\ step' = "round"
      /\ UNCHANGED <<landed, confirmed, last_weights, state_rest, tmp_rest, dirs>>
  BY DEF BeginRound, rest, audit
<1>2. attempt' \in Nat /\ attempt' > 0 /\ landed \subseteq 1..attempt' /\ attempt' \notin landed
  BY <1>1 DEF LInv
<1>3. AcceptedVectors' = AcceptedVectors
  BY <1>1 DEF AcceptedVectors, Accepted
<1>4. \A n \in 1..MaxAttempts : dirs[n].json # Torn => Shows(dirs[n])'
  BY <1>1 DEF LInv, Shows
<1>5. \A n \in 1..MaxAttempts : dirs[n].json # attempt'
  <2> SUFFICES ASSUME NEW n \in 1..MaxAttempts, dirs[n].json = attempt' PROVE FALSE
    OBVIOUS
  <2>1. dirs[n].json # Torn
    BY <1>2, LifecycleAssumption
  <2> QED
    BY <1>1, <2>1 DEF LInv, Shows
<1> QED
  BY <1>1, <1>2, <1>3, <1>4, <1>5 DEF LInv

LEMMA SubmitWeightsKeeps ==
  ASSUME LInv, NEW took \in SUBSET Mechanisms, NEW confirms \in SUBSET took,
         SubmitWeights(took, confirms)
  PROVE  LInv'
<1>1. /\ step = "weights" /\ step' = "block"
      /\ UNCHANGED <<attempt, state_rest, tmp_rest, dirs>>
      /\ landed' = IF took = {} THEN landed ELSE landed \cup {attempt}
      /\ confirmed' = [m \in Mechanisms |-> IF m \in confirms
                                              THEN confirmed[m] \cup {attempt}
                                              ELSE confirmed[m]]
      /\ last_weights' = [m \in Mechanisms |-> IF m \in confirms THEN attempt
                                                                 ELSE last_weights[m]]
  BY DEF SubmitWeights, Submitted, rest, audit
<1>2. attempt \in Nat /\ attempt > 0 /\ attempt \in 1..attempt /\ attempt \notin landed
  BY <1>1 DEF LInv
<1>3. landed' \subseteq 1..attempt' /\ confirmed' \in [Mechanisms -> SUBSET landed']
  <2>1. landed' \subseteq 1..attempt' /\ landed \subseteq landed'
    BY <1>1, <1>2 DEF LInv
  <2>2. confirms # {} => took # {}
    OBVIOUS
  <2> QED
    BY <1>1, <2>1, <2>2 DEF LInv
<1>4. /\ \A m \in Mechanisms : Accepted(m) \subseteq Accepted(m)'
      /\ AcceptedVectors \subseteq AcceptedVectors'
  <2>1. \A m \in Mechanisms : Accepted(m) \subseteq Accepted(m)'
    BY <1>1 DEF Accepted
  <2> QED
    BY <2>1 DEF AcceptedVectors
<1>5. last_weights' \in AcceptedVectors'
  BY <1>1, <1>2, <1>4 DEF LInv, AcceptedVectors, Accepted
<1>6. \A m \in Mechanisms : attempt \in confirmed'[m] => last_weights'[m] = attempt
  BY <1>1, <1>2 DEF LInv
<1>7. \A n \in 1..MaxAttempts : dirs[n].json # Torn => Shows(dirs[n])'
  BY <1>1 DEF LInv, Shows
<1>8. dirs' \in [1..MaxAttempts -> [json : Nat \cup {Torn}, hash : Nat \cup {Torn},
                                    weights : AcceptedVectors']]
  BY <1>1, <1>4 DEF LInv
<1> QED
  BY <1>1, <1>3, <1>4, <1>5, <1>6, <1>7, <1>8 DEF LInv

(* A file is opened, or BUNDLE_HASH written. *)
LEMMA WriteFileKeeps ==
  ASSUME LInv, OpenBundle \/ OpenHash \/ WriteHash
  PROVE  LInv'
<1>1. /\ UNCHANGED <<attempt, landed, confirmed, last_weights, state_rest, tmp_rest>>
      /\ \/ /\ step = "bundle" /\ step' = "json"
            /\ dirs' = [dirs EXCEPT ![number].json = Torn]
         \/ /\ step' \in {"hash", "index"}
            /\ dirs' = [dirs EXCEPT ![number].hash = Torn]
         \/ /\ step' \in {"hash", "index"}
            /\ dirs' = [dirs EXCEPT ![number].hash = attempt]
  BY DEF OpenBundle, OpenHash, WriteHash, rest, history
<1>2. dirs' \in [1..MaxAttempts -> [json : Nat \cup {Torn}, hash : Nat \cup {Torn},
                                    weights : AcceptedVectors]]
  BY <1>1 DEF LInv
<1>3. \A n \in 1..MaxAttempts :
        dirs'[n].json \in {dirs[n].json, Torn} /\ dirs'[n].weights = dirs[n].weights
  <2> SUFFICES ASSUME NEW n \in 1..MaxAttempts
               PROVE  /\ dirs'[n].json \in {dirs[n].json, Torn}
                      /\ dirs'[n].weights = dirs[n].weights
    OBVIOUS
  <2>1. DOMAIN dirs = 1..MaxAttempts
        /\ dirs[n] \in [json : Nat \cup {Torn}, hash : Nat \cup {Torn},
                        weights : AcceptedVectors]
    BY DEF LInv
  <2>2. CASE dirs' = [dirs EXCEPT ![number].json = Torn]
    BY <2>1, <2>2
  <2>3. ASSUME NEW h, dirs' = [dirs EXCEPT ![number].hash = h]
        PROVE  dirs'[n].json = dirs[n].json /\ dirs'[n].weights = dirs[n].weights
    BY <2>1, <2>3
  <2> QED
    BY <1>1, <2>2, <2>3
<1>4. ASSUME NEW n \in 1..MaxAttempts, dirs'[n].json # Torn PROVE Shows(dirs[n])'
  <2>1. dirs'[n].json = dirs[n].json /\ dirs'[n].weights = dirs[n].weights
    BY <1>3, <1>4
  <2>2. Shows(dirs[n])
    BY <1>4, <2>1 DEF LInv
  <2> QED
    BY <1>1, <2>1, <2>2 DEF Shows
<1>5. AcceptedVectors' = AcceptedVectors
  BY <1>1 DEF AcceptedVectors, Accepted
<1> QED
  BY <1>1, <1>2, <1>4, <1>5 DEF LInv

LEMMA WriteBundleKeeps ==
  ASSUME LInv, WriteBundle
  PROVE  LInv'
<1>1. /\ step = "json" /\ step' = "patches"
      /\ UNCHANGED <<attempt, landed, confirmed, last_weights, state_rest, tmp_rest>>
      /\ dirs' = [dirs EXCEPT ![number].json = attempt, ![number].weights = last_weights]
  BY DEF WriteBundle, rest, history
<1>2. dirs' \in [1..MaxAttempts -> [json : Nat \cup {Torn}, hash : Nat \cup {Torn},
                                    weights : AcceptedVectors]]
  BY <1>1 DEF LInv
<1>3. \A n \in 1..MaxAttempts :
        \/ dirs'[n] = dirs[n]
        \/ dirs'[n].json = attempt /\ dirs'[n].weights = last_weights
  BY <1>1 DEF LInv
<1>4. \A m \in Mechanisms :
        last_weights[m] <= attempt /\ (attempt \in confirmed[m] => last_weights[m] = attempt)
  <2> SUFFICES ASSUME NEW m \in Mechanisms
               PROVE  last_weights[m] <= attempt
                      /\ (attempt \in confirmed[m] => last_weights[m] = attempt)
    OBVIOUS
  <2>1. last_weights[m] \in confirmed[m] \cup {0} /\ confirmed[m] \subseteq 1..attempt
    BY DEF LInv, AcceptedVectors, Accepted
  <2> QED
    BY <1>1, <2>1 DEF LInv
<1>5. \A n \in 1..MaxAttempts : dirs'[n].json # Torn => Shows(dirs[n])'
  BY <1>1, <1>3, <1>4 DEF LInv, Shows
<1>6. AcceptedVectors' = AcceptedVectors
  BY <1>1 DEF AcceptedVectors, Accepted
<1> QED
  BY <1>1, <1>2, <1>5, <1>6 DEF LInv

LEMMA NoVectorsAccepted == NoVectors \in AcceptedVectors
  BY DEF NoVectors, AcceptedVectors, Accepted

LEMMA LNextLInv == LInv /\ [LNext]_lvars => LInv'
<1> SUFFICES ASSUME LInv, [LNext]_lvars PROVE LInv'
  OBVIOUS
<1>1. /\ last_weights \in AcceptedVectors
      /\ state_rest.last_weights \in AcceptedVectors
      /\ tmp_rest.last_weights \in AcceptedVectors
  BY DEF LInv
<1>2. CASE BeginRound
  BY <1>2, BeginRoundKeeps
<1>3. CASE LeaveEarly \/ ReachCrown \/ ReadBlock \/ UpdateIndex \/ LeaveLate
  <2>1. /\ UNCHANGED <<attempt, landed, confirmed, dirs, last_weights, state_rest, tmp_rest>>
        /\ \/ step' = "out"
           \/ step = "block" /\ step' = "bundle"
           \/ step = "round" /\ step' = "weights"
    BY <1>3
    DEF LeaveEarly, ReachCrown, ReadBlock, UpdateIndex, LeaveLate, rest, audit, history
  <2> QED
    BY <1>1, <2>1, QuietKeeps DEF Uneventful
<1>4. ASSUME NEW took \in SUBSET Mechanisms, NEW confirms \in SUBSET took,
             SubmitWeights(took, confirms)
      PROVE  LInv'
  BY <1>4, SubmitWeightsKeeps
<1>5. CASE WriteBundle
  BY <1>5, WriteBundleKeeps
<1>6. CASE OpenBundle \/ OpenHash \/ WriteHash
  BY <1>6, WriteFileKeeps
<1>7. CASE SaveState
  <2>1. /\ UNCHANGED <<attempt, landed, confirmed, dirs, step, last_weights>>
        /\ state_rest' \in {state_rest, tmp_rest}
        /\ tmp_rest' \in {tmp_rest, the_rest, NoRest}
    BY <1>7 DEF SaveState, rest, audit, history
  <2>2. the_rest.last_weights \in AcceptedVectors /\ NoRest.last_weights \in AcceptedVectors
    BY <1>1, NoVectorsAccepted DEF the_rest, NoRest
  <2> QED
    BY <1>1, <2>1, <2>2, QuietKeeps DEF Uneventful
<1>8. CASE KillAndRestart
  <2>1. NoRest.last_weights \in AcceptedVectors
    BY NoVectorsAccepted DEF NoRest
  <2>2. /\ UNCHANGED <<attempt, landed, confirmed, dirs, state_rest>>
        /\ last_weights' = state_rest.last_weights
        /\ tmp_rest' = NoRest
        /\ step' = "out"
    BY <1>8 DEF KillAndRestart, audit
  <2> QED
    BY <1>1, <2>1, <2>2, QuietKeeps DEF Uneventful
<1>9. CASE UNCHANGED lvars
  <2>1. UNCHANGED <<attempt, landed, confirmed, dirs, last_weights, state_rest, tmp_rest, step>>
    BY <1>9 DEF lvars, rest, audit, history
  <2> QED
    BY <1>1, <2>1, QuietKeeps DEF Uneventful
<1> QED
  BY <1>2, <1>3, <1>4, <1>5, <1>6, <1>7, <1>8, <1>9 DEF LNext, Forward

LEMMA LInitLInv == LInit => LInv
<1> SUFFICES ASSUME LInit PROVE LInv
  OBVIOUS
<1>1. dirs \in [1..MaxAttempts -> [json : Nat \cup {Torn}, hash : Nat \cup {Torn},
                                   weights : AcceptedVectors]]
  BY NoVectorsAccepted DEF LInit, NoDir
<1>2. \A n \in 1..MaxAttempts : Shows(dirs[n])
  BY DEF LInit, NoDir, NoVectors, Shows
<1> QED
  BY <1>1, <1>2, NoVectorsAccepted DEF LInit, LInv, NoRest

-----------------------------------------------------------------------------
(***************************************************************************)
(* What the audit repository is missing.                                   *)
(*                                                                         *)
(* Neither count is inductive: a bundle in place may still be overwritten, *)
(* namely in the directory whose number the next round will have, or the   *)
(* one in progress has.  A kill before the save is the mishap that frees   *)
(* it, so a bundle counts as missing from then on.                         *)
(***************************************************************************)

(* The bundle in directory n is to be overwritten, or may yet be. *)
Overwritten(n) ==
  \/ step = "out" /\ n = number + 1
  \/ step \in {"round", "weights", "block", "bundle"} /\ n = number

(* The bundle of round a is in place and will stay. *)
Safe(a) ==
  \E n \in 1..MaxAttempts :
    dirs[n].json = a /\ dirs[n].hash = a /\ index[n] = a /\ ~Overwritten(n)

AtRisk == {a \in Effective : ~Safe(a)}

(* Entries that do not lead to a bundle of theirs that will stay. *)
StaleEntries ==
  {n \in 1..MaxAttempts :
     /\ index[n] # 0
     /\ dirs[n].json # index[n] \/ dirs[n].hash # index[n] \/ Overwritten(n)}

(* A round is begun once the number before it was saved; until it is saved *)
(* itself, its number is one ahead of the file.                            *)
NumbersFollowSaves ==
  /\ number \in Nat /\ state_rest.number \in Nat
  /\ state_rest.number <= number /\ number <= attempt
  /\ attempt <= MaxAttempts
  /\ step = "out" =>
       /\ due \in {"sync", "forward"} => number = state_rest.number
       /\ number <= state_rest.number + 1
       /\ write # "none" => due # "forward"
       /\ write = "done" => tmp_rest.number = number
  /\ step # "out" =>
       /\ step \in Steps
       /\ number = state_rest.number + 1
       /\ due = (IF step = "round" THEN "forward" ELSE "save")
       /\ write = "none"

(* Files are written in order, the index last, and not beyond the number   *)
(* in use.                                                                 *)
BundlesInOrder ==
  /\ index \in [1..MaxAttempts -> Nat]
  /\ \A n \in 1..MaxAttempts :
       /\ n > state_rest.number + 1 => index[n] = 0
       /\ index[n] <= attempt
       /\ step # "out" => index[n] # attempt
       /\ index[n] # 0 /\ dirs[n].json # Torn => dirs[n].json >= index[n]
       /\ index[n] # 0 /\ dirs[n].hash # Torn => dirs[n].hash >= index[n]
  /\ step = "json" => dirs[number].json = Torn
  /\ step \in {"patches", "hash", "index"} => dirs[number].json = attempt
  /\ step = "hash" => dirs[number].hash = Torn
  /\ step = "index" => dirs[number].hash = attempt

AInv ==
  /\ LInv
  /\ due \in Stages
  /\ NumbersFollowSaves
  /\ BundlesInOrder
  /\ mishaps \in Nat
  /\ Cardinality(AtRisk) <= mishaps
  /\ Cardinality(StaleEntries) <= mishaps

-----------------------------------------------------------------------------

LEMMA NoMore ==
  ASSUME NEW S, NEW T, IsFiniteSet(S), T \subseteq S
  PROVE  /\ IsFiniteSet(T)
         /\ Cardinality(T) \in Nat /\ Cardinality(S) \in Nat
         /\ Cardinality(T) <= Cardinality(S)
  BY FS_Subset, FS_CardinalityType

LEMMA OneMore ==
  ASSUME NEW S, NEW T, NEW x, IsFiniteSet(S), T \subseteq S \cup {x}
  PROVE  /\ IsFiniteSet(T)
         /\ Cardinality(T) \in Nat /\ Cardinality(S) \in Nat
         /\ Cardinality(T) <= Cardinality(S) + 1
<1>1. Cardinality(S) \in Nat
  BY FS_CardinalityType
<1>2. IsFiniteSet(S \cup {x}) /\ Cardinality(S \cup {x}) <= Cardinality(S) + 1
  BY <1>1, FS_AddElement
<1>3. /\ IsFiniteSet(T)
      /\ Cardinality(T) \in Nat /\ Cardinality(S \cup {x}) \in Nat
      /\ Cardinality(T) <= Cardinality(S \cup {x})
  BY <1>2, NoMore
<1> QED
  BY <1>1, <1>2, <1>3

(* Both sets are of rounds begun, and of directories there are. *)
LEMMA BooksAreFinite ==
  ASSUME LInv
  PROVE  IsFiniteSet(AtRisk) /\ IsFiniteSet(StaleEntries)
<1>1. Effective \subseteq landed
  BY DEF Effective
<1>2. AtRisk \subseteq 1..attempt
  BY <1>1 DEF LInv, AtRisk
<1>3. StaleEntries \subseteq 1..MaxAttempts
  BY DEF StaleEntries
<1>4. attempt \in Nat /\ MaxAttempts \in Nat
  BY LifecycleAssumption DEF LInv
<1>5. IsFiniteSet(1..attempt) /\ IsFiniteSet(1..MaxAttempts)
  BY <1>4, FS_Interval
<1> QED
  BY <1>2, <1>3, <1>5, NoMore

(* What the steps preserve: the order of things, and the books up to one   *)
(* entry for a mishap.                                                     *)
NothingLost == AtRisk' \subseteq AtRisk /\ StaleEntries' \subseteq StaleEntries

OneLost ==
  \E a, n : /\ AtRisk' \subseteq AtRisk \cup {a}
            /\ StaleEntries' \subseteq StaleEntries \cup {n}

Kept ==
  /\ due' \in Stages
  /\ NumbersFollowSaves'
  /\ BundlesInOrder'
  /\ \/ mishaps' = mishaps /\ NothingLost
     \/ mishaps' = mishaps + 1 /\ OneLost

LEMMA KeptSuffices ==
  ASSUME AInv, LInv', Kept
  PROVE  AInv'
<1>1. IsFiniteSet(AtRisk) /\ IsFiniteSet(StaleEntries)
  BY BooksAreFinite DEF AInv
<1>2. mishaps' \in Nat
  BY DEF AInv, Kept
<1>3. CASE mishaps' = mishaps /\ NothingLost
  BY <1>1, <1>2, <1>3, NoMore DEF AInv, Kept, NothingLost
<1>4. CASE mishaps' = mishaps + 1 /\ OneLost
  <2>1. PICK a, n : /\ AtRisk' \subseteq AtRisk \cup {a}
                    /\ StaleEntries' \subseteq StaleEntries \cup {n}
    BY <1>4 DEF OneLost
  <2>2. Cardinality(AtRisk') <= Cardinality(AtRisk) + 1 /\ Cardinality(AtRisk') \in Nat
        /\ Cardinality(AtRisk) \in Nat
    BY <1>1, <2>1, OneMore
  <2>3. Cardinality(StaleEntries') <= Cardinality(StaleEntries) + 1
        /\ Cardinality(StaleEntries') \in Nat /\ Cardinality(StaleEntries) \in Nat
    BY <1>1, <2>1, OneMore
  <2> QED
    BY <1>2, <1>4, <2>2, <2>3 DEF AInv, Kept
<1> QED
  BY <1>3, <1>4 DEF Kept

(* What is in place while the files and the directory in use stay as they  *)
(* are: a round is at risk only if it was, or is the one left unfinished.  *)
LEMMA SameFilesSameBooks ==
  ASSUME LInv, UNCHANGED <<dirs, index>>,
         \A n \in 1..MaxAttempts : index[n] # 0 /\ Overwritten(n)' => Overwritten(n)
  PROVE  /\ \A a \in Effective : a # 0 /\ Safe(a) => Safe(a)'
         /\ StaleEntries' \subseteq StaleEntries
<1>1. ASSUME NEW a, a # 0, Safe(a) PROVE Safe(a)'
  BY <1>1 DEF Safe
<1> QED
  BY <1>1 DEF StaleEntries

(* The directory after the number in use has no entry while that number    *)
(* is one ahead of the file.                                               *)
LEMMA NextIsFree ==
  ASSUME AInv, step # "out", NEW n \in 1..MaxAttempts, n = number + 1
  PROVE  index[n] = 0
  BY DEF AInv, NumbersFollowSaves, BundlesInOrder

(* The number in use has a directory. *)
LEMMA NumberHasDirectory ==
  ASSUME AInv, step # "out"
  PROVE  number \in 1..MaxAttempts /\ attempt \in Nat \ {0}
  BY LifecycleAssumption DEF AInv, LInv, NumbersFollowSaves

LEMMA BeginRoundBooks ==
  ASSUME AInv, BeginRound
  PROVE  Kept
<1>1. /\ step = "out" /\ step' = "round" /\ due = "forward"
      /\ attempt < MaxAttempts /\ attempt' = attempt + 1 /\ number' = number + 1
      /\ UNCHANGED <<due, write, state_rest, tmp_rest, dirs, index, landed, mishaps>>
  BY DEF BeginRound, rest, audit, svars
<1>2. NumbersFollowSaves' /\ due' \in Stages
  BY <1>1, LifecycleAssumption DEF AInv, NumbersFollowSaves, Steps, LInv
<1>3. BundlesInOrder'
  <2>1. attempt \in Nat
    BY DEF AInv, LInv
  <2>2. \A n \in 1..MaxAttempts : index[n] \in Nat /\ index[n] <= attempt
    BY DEF AInv, BundlesInOrder
  <2>3. \A n \in 1..MaxAttempts : index'[n] <= attempt' /\ index'[n] # attempt'
    BY <1>1, <2>1, <2>2
  <2> QED
    BY <1>1, <2>3 DEF AInv, BundlesInOrder
<1>4. \A n : Overwritten(n)' <=> Overwritten(n)
  BY <1>1 DEF Overwritten
<1>5. Effective' \subseteq Effective /\ \A a : Safe(a)' <=> Safe(a)
  BY <1>1, <1>4 DEF Effective, Safe
<1>6. NothingLost
  BY <1>1, <1>4, <1>5 DEF NothingLost, AtRisk, StaleEntries
<1> QED
  BY <1>1, <1>2, <1>3, <1>6 DEF Kept

LEMMA LeaveEarlyBooks ==
  ASSUME AInv, LeaveEarly
  PROVE  Kept
<1>1. /\ step \in {"out", "round"} /\ step' = "out"
      /\ due' = "save" /\ write' = "none"
      /\ UNCHANGED <<number, state_rest, tmp_rest, dirs, index, attempt, landed, mishaps>>
  BY DEF LeaveEarly, AbortRound, rest, audit, history, AInv, NumbersFollowSaves, Stages, Steps
<1>2. NumbersFollowSaves' /\ due' \in Stages
  BY <1>1 DEF AInv, NumbersFollowSaves, Stages, Steps
<1>3. BundlesInOrder'
  BY <1>1 DEF AInv, BundlesInOrder
<1>4. \A n \in 1..MaxAttempts : index[n] # 0 /\ Overwritten(n)' => Overwritten(n)
  BY <1>1, NextIsFree DEF Overwritten
<1>5. Effective' \subseteq Effective /\ 0 \notin Effective
  BY <1>1 DEF AInv, LInv, Effective
<1>6. NothingLost
  BY <1>1, <1>4, <1>5, SameFilesSameBooks DEF AInv, LInv, NothingLost, AtRisk
<1> QED
  BY <1>1, <1>2, <1>3, <1>6 DEF Kept

(* Up to the bundle, the directory in use stays in use. *)
LEMMA ToTheBundleBooks ==
  ASSUME AInv,
         \/ ReachCrown \/ ReadBlock
         \/ \E took \in SUBSET Mechanisms : \E confirms \in SUBSET took :
              SubmitWeights(took, confirms)
  PROVE  Kept
<1>1. /\ \/ step = "round" /\ step' = "weights" /\ due' = "save"
         \/ step = "weights" /\ step' = "block" /\ due' = due
         \/ step = "block" /\ step' = "bundle" /\ due' = due
      /\ landed' \subseteq landed \cup {attempt}
      /\ UNCHANGED <<number, write, state_rest, tmp_rest, dirs, index, attempt, mishaps>>
  BY DEF ReachCrown, ScoreRound, ReadBlock, SubmitWeights, Submitted, rest, audit, history,
         svars, disk
<1>2. NumbersFollowSaves' /\ due' \in Stages
  BY <1>1 DEF AInv, NumbersFollowSaves, Stages, Steps
<1>3. BundlesInOrder'
  BY <1>1 DEF AInv, BundlesInOrder
<1>4. \A n \in 1..MaxAttempts : Overwritten(n)' <=> Overwritten(n)
  BY <1>1 DEF Overwritten
<1>5. Effective' \subseteq Effective /\ 0 \notin Effective
  BY <1>1 DEF AInv, LInv, Effective
<1>6. NothingLost
  BY <1>1, <1>4, <1>5, SameFilesSameBooks DEF AInv, LInv, NothingLost, AtRisk
<1> QED
  BY <1>1, <1>2, <1>3, <1>6 DEF Kept

(* Rounds over are numbers, files cut short are not. *)
LEMMA EffectiveRounds ==
  ASSUME LInv
  PROVE  \A a \in Effective : a \in Nat \ {0} /\ a # Torn
<1>1. Effective \subseteq landed
  BY DEF Effective
<1>2. \A a \in Effective : a \in 1..attempt
  BY <1>1 DEF LInv
<1>3. attempt \in Nat /\ Torn \notin Nat
  BY LifecycleAssumption DEF LInv
<1> QED
  BY <1>2, <1>3

(* To open the first file is to lose a bundle that counted as lost. *)
LEMMA OpenBundleBooks ==
  ASSUME AInv, OpenBundle
  PROVE  Kept
<1>1. /\ step = "bundle" /\ step' = "json"
      /\ dirs' = [dirs EXCEPT ![number].json = Torn]
      /\ UNCHANGED <<due, write, number, state_rest, tmp_rest, index, attempt, landed, mishaps>>
  BY DEF OpenBundle, rest, history, svars
<1>2. NumbersFollowSaves' /\ due' \in Stages
  BY <1>1 DEF AInv, NumbersFollowSaves, Stages, Steps
<1>3. number \in 1..MaxAttempts /\ attempt \in Nat \ {0}
  BY <1>1, NumberHasDirectory
<1>4. dirs'[number].json = Torn
      /\ \A n \in 1..MaxAttempts :
           dirs'[n].hash = dirs[n].hash /\ (n # number => dirs'[n] = dirs[n])
  BY <1>1, <1>3 DEF AInv, LInv
<1>5. BundlesInOrder'
  BY <1>1, <1>3, <1>4 DEF AInv, BundlesInOrder
<1>6. \A n : (Overwritten(n) <=> n = number) /\ ~Overwritten(n)'
  BY <1>1 DEF Overwritten
<1>7. Effective' = Effective /\ \A a \in Effective : Safe(a) => Safe(a)'
  BY <1>1, <1>4, <1>6 DEF Effective, Safe
<1>8. StaleEntries' \subseteq StaleEntries
  BY <1>1, <1>4, <1>6 DEF StaleEntries
<1> QED
  BY <1>1, <1>2, <1>5, <1>7, <1>8 DEF Kept, NothingLost, AtRisk

(* The other writes, and then the index, complete the bundle in progress.  *)
(* Until then its directory's entry, if it has one, is another's.          *)
LEMMA WriteFileBooks ==
  ASSUME AInv, WriteBundle \/ OpenHash \/ WriteHash
  PROVE  Kept
<1>1. /\ \/ /\ step = "json" /\ step' = "patches"
            /\ dirs' = [dirs EXCEPT ![number].json = attempt, ![number].weights = last_weights]
         \/ /\ step = "patches" /\ step' = "hash"
            /\ dirs' = [dirs EXCEPT ![number].hash = Torn]
         \/ /\ step = "hash" /\ step' = "index"
            /\ dirs' = [dirs EXCEPT ![number].hash = attempt]
      /\ UNCHANGED <<due, write, number, state_rest, tmp_rest, index, attempt, landed, mishaps>>
  BY DEF WriteBundle, OpenHash, WriteHash, rest, history, svars
<1>2. NumbersFollowSaves' /\ due' \in Stages
  BY <1>1 DEF AInv, NumbersFollowSaves, Stages, Steps
<1>3. number \in 1..MaxAttempts /\ attempt \in Nat \ {0} /\ Torn # attempt
  BY <1>1, NumberHasDirectory, LifecycleAssumption
<1>4. /\ \A n \in 1..MaxAttempts : n # number => dirs'[n] = dirs[n]
      /\ dirs[number].json \in {Torn, attempt}
      /\ step = "json" => dirs'[number].json = attempt /\ dirs'[number].hash = dirs[number].hash
      /\ step # "json" => dirs'[number].json = attempt /\ dirs[number].json = attempt
      /\ step = "patches" => dirs'[number].hash = Torn
      /\ step = "hash" => dirs'[number].hash = attempt
  BY <1>1, <1>3 DEF AInv, LInv, BundlesInOrder
<1>5. BundlesInOrder'
  BY <1>1, <1>3, <1>4 DEF AInv, BundlesInOrder
<1>6. \A n : ~Overwritten(n) /\ ~Overwritten(n)'
  BY <1>1 DEF Overwritten
<1>7. Effective' = Effective /\ attempt \notin Effective
  BY <1>1 DEF Effective
<1>8. \A a \in Effective : Safe(a) => Safe(a)'
  BY <1>1, <1>3, <1>4, <1>6, <1>7, EffectiveRounds DEF Safe, AInv
<1>9. index[number] \in Nat /\ index[number] # attempt
  BY <1>1, <1>3 DEF AInv, BundlesInOrder
<1>10. index[number] # dirs[number].json
  BY <1>4, <1>9, LifecycleAssumption
<1>11. StaleEntries' \subseteq StaleEntries
  BY <1>1, <1>3, <1>4, <1>6, <1>10 DEF StaleEntries
<1> QED
  BY <1>1, <1>2, <1>5, <1>7, <1>8, <1>11 DEF Kept, NothingLost, AtRisk

LEMMA UpdateIndexBooks ==
  ASSUME AInv, UpdateIndex
  PROVE  Kept
<1>1. /\ step = "index" /\ step' = "out"
      /\ index' = [index EXCEPT ![number] = attempt]
      /\ UNCHANGED <<due, write, number, state_rest, tmp_rest, dirs, attempt, landed, mishaps>>
  BY DEF UpdateIndex, rest, history, svars
<1>2. NumbersFollowSaves' /\ due' \in Stages
  BY <1>1 DEF AInv, NumbersFollowSaves, Stages, Steps
<1>3. /\ number \in 1..MaxAttempts /\ attempt \in Nat \ {0}
      /\ dirs[number].json = attempt /\ dirs[number].hash = attempt
  BY <1>1, NumberHasDirectory DEF AInv, BundlesInOrder
<1>4. index'[number] = attempt /\ \A n \in 1..MaxAttempts : n # number => index'[n] = index[n]
  BY <1>1, <1>3 DEF AInv, BundlesInOrder
<1>5. BundlesInOrder'
  BY <1>1, <1>3, <1>4 DEF AInv, BundlesInOrder, NumbersFollowSaves
<1>6. \A n \in 1..MaxAttempts : Overwritten(n)' => n # number /\ index'[n] = 0
  BY <1>1, <1>4, NextIsFree DEF Overwritten, AInv, NumbersFollowSaves
<1>7. Safe(attempt)'
  BY <1>1, <1>3, <1>4, <1>6 DEF Safe
<1>8. /\ Effective' \subseteq Effective \cup {attempt}
      /\ attempt \notin Effective /\ 0 \notin Effective
  BY <1>1 DEF Effective, AInv, LInv
<1>9. \A a \in Effective : Safe(a) => Safe(a)'
  BY <1>1, <1>3, <1>4, <1>6, <1>8 DEF Safe
<1>10. StaleEntries' \subseteq StaleEntries
  BY <1>1, <1>3, <1>4, <1>6 DEF StaleEntries
<1> QED
  BY <1>1, <1>2, <1>5, <1>7, <1>8, <1>9, <1>10 DEF Kept, NothingLost, AtRisk

(* An exception leaves the round in progress without a bundle. *)
LEMMA LeaveLateBooks ==
  ASSUME AInv, LeaveLate
  PROVE  Kept
<1>1. /\ step \in {"block", "bundle", "json", "patches", "hash", "index"} /\ step' = "out"
      /\ mishaps' = mishaps + 1
      /\ UNCHANGED <<due, write, number, state_rest, tmp_rest, dirs, index, attempt, landed>>
  BY DEF LeaveLate, Mishap, rest, audit, svars
<1>2. NumbersFollowSaves' /\ due' \in Stages
  BY <1>1 DEF AInv, NumbersFollowSaves, Stages, Steps
<1>3. BundlesInOrder'
  BY <1>1 DEF AInv, BundlesInOrder
<1>4. \A n \in 1..MaxAttempts : index[n] # 0 /\ Overwritten(n)' => Overwritten(n)
  BY <1>1, NextIsFree DEF Overwritten
<1>5. Effective' \subseteq Effective \cup {attempt} /\ 0 \notin Effective
  BY <1>1 DEF AInv, LInv, Effective
<1>6. AtRisk' \subseteq AtRisk \cup {attempt} /\ StaleEntries' \subseteq StaleEntries
  BY <1>1, <1>4, <1>5, SameFilesSameBooks DEF AInv, AtRisk
<1> QED
  BY <1>1, <1>2, <1>3, <1>6 DEF Kept, OneLost

LEMMA SaveStateBooks ==
  ASSUME AInv, SaveState
  PROVE  Kept
<1>1. /\ step = "out"
      /\ UNCHANGED <<number, step, dirs, index, attempt, landed, mishaps>>
      /\ \/ /\ due \in {"sync", "save"} /\ due' = due /\ write' = "open"
            /\ UNCHANGED <<state_rest, tmp_rest>>
         \/ /\ write # "none" /\ due' = due /\ write' = "done"
            /\ tmp_rest' = the_rest /\ UNCHANGED state_rest
         \/ /\ write = "done" /\ write' = "none"
            /\ due' \in {"sync", "forward"} /\ state_rest' = tmp_rest
  BY DEF SaveState, BeginWrite, EndWrite, Replace, rest, audit, history
<1>2. NumbersFollowSaves' /\ due' \in Stages
  BY <1>1 DEF AInv, NumbersFollowSaves, Stages, the_rest
<1>3. BundlesInOrder'
  BY <1>1 DEF AInv, BundlesInOrder, NumbersFollowSaves
<1>4. \A n : Overwritten(n)' <=> Overwritten(n)
  BY <1>1 DEF Overwritten
<1>5. NothingLost
  BY <1>1, <1>4 DEF NothingLost, AtRisk, Effective, Safe, StaleEntries
<1> QED
  BY <1>1, <1>2, <1>3, <1>5 DEF Kept

(* A kill loses the round in progress or, before the save, frees the       *)
(* number of the one that ended: its bundle may be overwritten.            *)
LEMMA KillAndRestartBooks ==
  ASSUME AInv, KillAndRestart
  PROVE  Kept
<1>1. /\ step' = "out" /\ due' = "sync" /\ write' = "none"
      /\ number' = state_rest.number /\ mishaps' = mishaps + 1
      /\ UNCHANGED <<state_rest, dirs, index, attempt, landed>>
  BY DEF KillAndRestart, Restart, Mishap, audit
<1>2. NumbersFollowSaves' /\ due' \in Stages
  BY <1>1, LifecycleAssumption DEF AInv, LInv, NumbersFollowSaves, Stages
<1>3. BundlesInOrder'
  BY <1>1 DEF AInv, BundlesInOrder
<1> DEFINE freed == state_rest.number + 1
<1>4. \A n : Overwritten(n)' <=> n = freed
  BY <1>1 DEF Overwritten
<1>5. StaleEntries' \subseteq StaleEntries \cup {freed}
  BY <1>1, <1>4 DEF StaleEntries
<1>6. CASE step = "out"
  <2>1. Effective' = Effective
    BY <1>1, <1>6 DEF Effective
  <2>2. \A a \in Effective : a # index[freed] /\ Safe(a) => Safe(a)'
    BY <1>1, <1>4 DEF Safe
  <2>3. AtRisk' \subseteq AtRisk \cup {index[freed]}
    BY <2>1, <2>2 DEF AtRisk
  <2> QED
    BY <1>1, <1>2, <1>3, <1>5, <2>3 DEF Kept, OneLost
<1>7. CASE step # "out"
  <2>1. Effective' \subseteq Effective \cup {attempt} /\ attempt \notin Effective
    BY <1>1, <1>7 DEF Effective
  <2>2. number = freed /\ step \in Steps
    BY <1>7 DEF AInv, NumbersFollowSaves
  <2>3. step \notin {"json", "patches", "hash", "index"} => Overwritten(freed)
    BY <1>7, <2>2 DEF Overwritten, Steps
  <2>4. step \in {"json", "patches", "hash", "index"} => dirs[freed].json \in {Torn, attempt}
    BY <2>2 DEF AInv, BundlesInOrder
  <2>5. \A a \in Effective : Safe(a) => Safe(a)'
    BY <1>1, <1>4, <2>1, <2>3, <2>4, EffectiveRounds DEF Safe, AInv
  <2>6. AtRisk' \subseteq AtRisk \cup {attempt}
    BY <2>1, <2>5 DEF AtRisk
  <2> QED
    BY <1>1, <1>2, <1>3, <1>5, <2>6 DEF Kept, OneLost
<1> QED
  BY <1>6, <1>7

LEMMA LNextAInv == AInv /\ [LNext]_lvars => AInv'
<1> SUFFICES ASSUME AInv, [LNext]_lvars PROVE AInv'
  OBVIOUS
<1>1. LInv'
  BY LNextLInv DEF AInv
<1>2. CASE LNext
  BY <1>1, <1>2, KeptSuffices, BeginRoundBooks, LeaveEarlyBooks, ToTheBundleBooks,
     OpenBundleBooks, WriteFileBooks, UpdateIndexBooks, LeaveLateBooks,
     SaveStateBooks, KillAndRestartBooks
  DEF LNext, Forward
<1>3. CASE UNCHANGED lvars
  <2>1. UNCHANGED <<due, write, number, step, state_rest, tmp_rest, dirs, index,
                    attempt, landed, mishaps>>
    BY <1>3 DEF lvars, rest, audit, history, svars
  <2> QED
    BY <1>1, <2>1 DEF AInv, NumbersFollowSaves, BundlesInOrder, AtRisk, StaleEntries,
                      Safe, Overwritten, Effective
<1> QED
  BY <1>2, <1>3

LEMMA LInitAInv == LInit => AInv
<1> SUFFICES ASSUME LInit PROVE AInv
  OBVIOUS
<1>1. AtRisk = {} /\ StaleEntries = {}
  BY DEF LInit, AtRisk, StaleEntries, Effective
<1>2. NumbersFollowSaves /\ due \in Stages
  BY LifecycleAssumption DEF LInit, SInit, NumbersFollowSaves, Stages, NoRest
<1>3. BundlesInOrder
  BY DEF LInit, BundlesInOrder
<1> QED
  BY <1>1, <1>2, <1>3, LInitLInv, FS_EmptySet DEF AInv, LInit

LEMMA LSpecAInv == LSpec => []AInv
  BY LInitAInv, LNextAInv, PTL DEF LSpec

(* Every round that moved weights can be audited, but for one a mishap,    *)
(* however many rounds, kills and failed writes there are (the bundle of   *)
(* forward, which overwrites one whose number was never saved).            *)
THEOREM AuditMissesOneRoundAMishap == LSpec => []AuditMissesOnlyMishaps
<1>1. AInv => AuditMissesOnlyMishaps
  <2> SUFFICES ASSUME AInv PROVE AuditMissesOnlyMishaps
    OBVIOUS
  <2>1. {a \in Effective : ~Published(a)} \subseteq AtRisk
    BY DEF AtRisk, Published, Safe
  <2>2. IsFiniteSet(AtRisk)
    BY BooksAreFinite DEF AInv
  <2> QED
    BY <2>1, <2>2, NoMore DEF AInv, AuditMissesOnlyMishaps
<1> QED
  BY <1>1, LSpecAInv, PTL

(* An entry of index.json never runs ahead of its directory, and leads to  *)
(* the whole bundle of the round it names but for one entry a mishap,      *)
(* whichever file a kill or a failed write cuts short (_update_index after *)
(* RoundBundle.write, which writes in place).                              *)
THEOREM IndexEntriesLeadToBundles == LSpec => []IndexLeadsToBundles
<1>1. AInv => IndexLeadsToBundles
  <2> SUFFICES ASSUME AInv PROVE IndexLeadsToBundles
    OBVIOUS
  <2> DEFINE indexed == {n \in 1..MaxAttempts : index[n] # 0}
  <2>1. \A n \in indexed : /\ dirs[n].json # Torn => dirs[n].json >= index[n]
                           /\ dirs[n].hash # Torn => dirs[n].hash >= index[n]
    BY DEF AInv, BundlesInOrder
  <2>2. {n \in indexed : ~Published(index[n])} \subseteq StaleEntries
    BY DEF StaleEntries, Published
  <2>3. IsFiniteSet(StaleEntries)
    BY BooksAreFinite DEF AInv
  <2>4. Cardinality({n \in indexed : ~Published(index[n])}) <= mishaps
    BY <2>2, <2>3, NoMore DEF AInv
  <2> QED
    BY <2>1, <2>4 DEF IndexLeadsToBundles
<1> QED
  BY <1>1, LSpecAInv, PTL

-----------------------------------------------------------------------------
(***************************************************************************)
(* What the bundles show (last_weights).                                   *)
(*                                                                         *)
(* The memory runs ahead of the file by the round in progress alone, so a  *)
(* kill before the save forgets one accepted vector of a mechanism.        *)
(***************************************************************************)

(* The vectors mechanism m accepted after the one that v holds of it. *)
Newer(v, m) == {a \in confirmed[m] : v[m] < a}

WeightsFollowSaves ==
  /\ step = "out" /\ due \in {"sync", "forward"} => last_weights = state_rest.last_weights
  /\ step \in {"round", "weights"} => last_weights = state_rest.last_weights
  /\ step = "out" /\ write = "done" => tmp_rest.last_weights = last_weights

FInv ==
  /\ WeightsFollowSaves
  /\ \A m \in Mechanisms :
       /\ Cardinality(Newer(state_rest.last_weights, m) \ {attempt}) <= mishaps
       /\ Cardinality(Newer(last_weights, m)) <= mishaps
       /\ \A n \in 1..MaxAttempts :
            dirs[n].json # Torn =>
              Cardinality(Forgotten(dirs[n].weights, m, dirs[n].json)) <= mishaps

LEMMA ForgottenIsFinite ==
  ASSUME LInv, NEW m \in Mechanisms, NEW v, NEW upto
  PROVE  /\ IsFiniteSet(Newer(v, m)) /\ Cardinality(Newer(v, m)) \in Nat
         /\ IsFiniteSet(Forgotten(v, m, upto)) /\ Cardinality(Forgotten(v, m, upto)) \in Nat
<1>1. attempt \in Nat /\ confirmed[m] \subseteq 1..attempt
  BY DEF LInv
<1>2. Newer(v, m) \subseteq 1..attempt /\ Forgotten(v, m, upto) \subseteq 1..attempt
  BY <1>1 DEF Newer, Forgotten
<1>3. IsFiniteSet(1..attempt)
  BY <1>1, FS_Interval
<1> QED
  BY <1>2, <1>3, NoMore

LEMMA FewForgotten ==
  ASSUME AInv, FInv, NEW m \in Mechanisms
  PROVE  /\ Cardinality(Newer(state_rest.last_weights, m) \ {attempt}) \in Nat
         /\ Cardinality(Newer(state_rest.last_weights, m) \ {attempt}) <= mishaps
         /\ IsFiniteSet(Newer(last_weights, m))
         /\ Cardinality(Newer(last_weights, m)) \in Nat
         /\ Cardinality(Newer(last_weights, m)) <= mishaps
         /\ mishaps \in Nat
<1>1. LInv /\ mishaps \in Nat
  BY DEF AInv
<1>2. IsFiniteSet(Newer(state_rest.last_weights, m))
  BY <1>1, ForgottenIsFinite
<1>3. Cardinality(Newer(state_rest.last_weights, m) \ {attempt}) \in Nat
  BY <1>2, NoMore
<1>4. IsFiniteSet(Newer(last_weights, m)) /\ Cardinality(Newer(last_weights, m)) \in Nat
  BY <1>1, ForgottenIsFinite
<1> QED
  BY <1>1, <1>3, <1>4 DEF FInv

LEMMA FewerForgotten ==
  ASSUME AInv, FInv, NEW m \in Mechanisms, NEW T, T \subseteq Newer(last_weights, m)
  PROVE  Cardinality(T) \in Nat /\ Cardinality(T) <= mishaps
<1>1. /\ IsFiniteSet(Newer(last_weights, m))
      /\ Cardinality(Newer(last_weights, m)) \in Nat
      /\ Cardinality(Newer(last_weights, m)) <= mishaps /\ mishaps \in Nat
  BY FewForgotten
<1>2. Cardinality(T) \in Nat /\ Cardinality(T) <= Cardinality(Newer(last_weights, m))
  BY <1>1, NoMore
<1> QED
  BY <1>1, <1>2

(* Nothing is remembered, saved or confirmed; round.json stays as it is or *)
(* is torn.                                                                *)
LEMMA QuietForgets ==
  ASSUME AInv, FInv, WeightsFollowSaves',
         UNCHANGED <<confirmed, last_weights>>,
         state_rest'.last_weights \in {state_rest.last_weights, last_weights},
         attempt' = attempt \/ state_rest'.last_weights = last_weights,
         mishaps' = mishaps \/ mishaps' = mishaps + 1,
         \A n \in 1..MaxAttempts : dirs'[n].json # Torn =>
           dirs'[n].json = dirs[n].json /\ dirs'[n].weights = dirs[n].weights
  PROVE  FInv'
<1> SUFFICES ASSUME NEW m \in Mechanisms
             PROVE  /\ Cardinality((Newer(state_rest.last_weights, m) \ {attempt})') <= mishaps'
                    /\ Cardinality(Newer(last_weights, m)') <= mishaps'
                    /\ \A n \in 1..MaxAttempts :
                         dirs'[n].json # Torn =>
                           Cardinality(Forgotten(dirs[n].weights, m, dirs[n].json)') <= mishaps'
  BY DEF FInv
<1>1. mishaps \in Nat /\ mishaps <= mishaps' /\ mishaps' \in Nat
  BY DEF AInv
<1>2. Newer(last_weights, m)' = Newer(last_weights, m)
  BY DEF Newer
<1>3. Cardinality((Newer(state_rest.last_weights, m) \ {attempt})') <= mishaps'
  <2>1. CASE state_rest'.last_weights = last_weights
    <3>1. (Newer(state_rest.last_weights, m) \ {attempt})' \subseteq Newer(last_weights, m)
      BY <2>1 DEF Newer
    <3>2. /\ Cardinality((Newer(state_rest.last_weights, m) \ {attempt})') \in Nat
          /\ Cardinality((Newer(state_rest.last_weights, m) \ {attempt})') <= mishaps
      BY <3>1, FewerForgotten
    <3> QED
      BY <1>1, <3>2
  <2>2. CASE state_rest'.last_weights = state_rest.last_weights /\ attempt' = attempt
    <3>1. (Newer(state_rest.last_weights, m) \ {attempt})' = Newer(state_rest.last_weights, m) \ {attempt}
      BY <2>2 DEF Newer
    <3>2. /\ Cardinality((Newer(state_rest.last_weights, m) \ {attempt})') \in Nat
          /\ Cardinality((Newer(state_rest.last_weights, m) \ {attempt})') <= mishaps
      BY <3>1, FewForgotten
    <3> QED
      BY <1>1, <3>1, <3>2
  <2> QED
    BY <2>1, <2>2
<1>4. Cardinality(Newer(last_weights, m)') <= mishaps'
  <2>1. Cardinality(Newer(last_weights, m)) \in Nat /\ Cardinality(Newer(last_weights, m)) <= mishaps
    BY FewForgotten
  <2> QED
    BY <1>1, <1>2, <2>1
<1>5. ASSUME NEW n \in 1..MaxAttempts, dirs'[n].json # Torn
      PROVE  Cardinality(Forgotten(dirs[n].weights, m, dirs[n].json)') <= mishaps'
  <2>1. dirs'[n].json = dirs[n].json /\ dirs'[n].weights = dirs[n].weights
    BY <1>5
  <2>2. Forgotten(dirs[n].weights, m, dirs[n].json)' = Forgotten(dirs[n].weights, m, dirs[n].json)
    BY <2>1 DEF Forgotten
  <2>3. Cardinality(Forgotten(dirs[n].weights, m, dirs[n].json)) \in Nat
    BY ForgottenIsFinite DEF AInv
  <2>4. Cardinality(Forgotten(dirs[n].weights, m, dirs[n].json)) <= mishaps
    BY <1>5, <2>1 DEF FInv
  <2> QED
    BY <1>1, <2>2, <2>3, <2>4
<1> QED
  BY <1>3, <1>4, <1>5

(* A vector accepted is the newest; the others are as old as they were, on *)
(* disk as in memory.                                                      *)
LEMMA SubmitWeightsForgets ==
  ASSUME AInv, FInv, NEW took \in SUBSET Mechanisms, NEW confirms \in SUBSET took,
         SubmitWeights(took, confirms)
  PROVE  FInv'
<1>1. /\ step = "weights" /\ step' = "block"
      /\ UNCHANGED <<attempt, state_rest, dirs, mishaps>>
      /\ confirmed' = [m \in Mechanisms |-> IF m \in confirms
                                              THEN confirmed[m] \cup {attempt}
                                              ELSE confirmed[m]]
      /\ last_weights' = [m \in Mechanisms |-> IF m \in confirms THEN attempt
                                                                 ELSE last_weights[m]]
  BY DEF SubmitWeights, Submitted, rest, audit
<1>2. WeightsFollowSaves'
  BY <1>1 DEF WeightsFollowSaves
<1> SUFFICES ASSUME NEW m \in Mechanisms
             PROVE  /\ Cardinality((Newer(state_rest.last_weights, m) \ {attempt})') <= mishaps'
                    /\ Cardinality(Newer(last_weights, m)') <= mishaps'
                    /\ \A n \in 1..MaxAttempts :
                         dirs'[n].json # Torn =>
                           Cardinality(Forgotten(dirs[n].weights, m, dirs[n].json)') <= mishaps'
  BY <1>2 DEF FInv
<1>3. attempt \in Nat /\ confirmed[m] \subseteq 1..attempt /\ mishaps \in Nat
  BY DEF AInv, LInv
<1>5. Cardinality((Newer(state_rest.last_weights, m) \ {attempt})') <= mishaps'
  <2>1. (Newer(state_rest.last_weights, m) \ {attempt})' = Newer(state_rest.last_weights, m) \ {attempt}
    BY <1>1 DEF Newer
  <2> QED
    BY <1>1, <2>1 DEF FInv
<1>6. Cardinality(Newer(last_weights, m)') <= mishaps'
  <2>1. CASE m \in confirms
    <3>1. last_weights'[m] = attempt /\ confirmed'[m] = confirmed[m] \cup {attempt}
      BY <1>1, <2>1
    <3>2. \A a \in confirmed'[m] : ~(last_weights'[m] < a)
      BY <1>3, <3>1
    <3>3. Newer(last_weights, m)' = {}
      BY <3>2 DEF Newer
    <3>4. Cardinality(Newer(last_weights, m)') = Cardinality({})
      BY <3>3
    <3>5. Cardinality(Newer(last_weights, m)') = 0
      BY <3>4, FS_EmptySet
    <3>6. mishaps' \in Nat
      BY <1>1, <1>3
    <3> QED
      BY <3>5, <3>6
  <2>2. CASE m \notin confirms
    BY <1>1, <2>2 DEF FInv, Newer
  <2> QED
    BY <2>1, <2>2
<1>7. ASSUME NEW n \in 1..MaxAttempts, dirs'[n].json # Torn
      PROVE  Cardinality(Forgotten(dirs[n].weights, m, dirs[n].json)') <= mishaps'
  <2>1. dirs[n].json \in Nat /\ dirs[n].json < attempt
    <3>1. dirs[n].json \in 0..attempt /\ dirs[n].json # attempt
      BY <1>1, <1>7 DEF AInv, LInv, Shows
    <3> QED
      BY <1>3, <3>1
  <2>2. Forgotten(dirs[n].weights, m, dirs[n].json)' = Forgotten(dirs[n].weights, m, dirs[n].json)
    BY <1>1, <1>3, <2>1 DEF Forgotten
  <2> QED
    BY <1>1, <1>7, <2>2 DEF FInv
<1> QED
  BY <1>5, <1>6, <1>7

(* What round.json is written with is what the memory holds. *)
LEMMA WriteBundleForgets ==
  ASSUME AInv, FInv, WriteBundle
  PROVE  FInv'
<1>1. /\ step = "json" /\ step' = "patches"
      /\ UNCHANGED <<attempt, confirmed, last_weights, state_rest, mishaps>>
      /\ dirs' = [dirs EXCEPT ![number].json = attempt, ![number].weights = last_weights]
  BY DEF WriteBundle, rest, history
<1>2. WeightsFollowSaves'
  BY <1>1 DEF WeightsFollowSaves
<1>3. \A m \in Mechanisms :
        /\ Newer(state_rest.last_weights, m)' = Newer(state_rest.last_weights, m)
        /\ Newer(last_weights, m)' = Newer(last_weights, m)
  BY <1>1 DEF Newer
<1>4. ASSUME NEW m \in Mechanisms, NEW n \in 1..MaxAttempts, dirs'[n].json # Torn
      PROVE  Cardinality(Forgotten(dirs[n].weights, m, dirs[n].json)') <= mishaps
  <2>1. CASE dirs'[n] = dirs[n]
    <3>1. Forgotten(dirs[n].weights, m, dirs[n].json)' = Forgotten(dirs[n].weights, m, dirs[n].json)
      BY <1>1, <2>1 DEF Forgotten
    <3> QED
      BY <1>4, <2>1, <3>1 DEF FInv
  <2>2. CASE dirs'[n].json = attempt /\ dirs'[n].weights = last_weights
    <3>1. Forgotten(dirs[n].weights, m, dirs[n].json)' \subseteq Newer(last_weights, m)
      BY <1>1, <2>2 DEF Forgotten, Newer
    <3> QED
      BY <3>1, FewerForgotten
  <2> QED
    BY <1>1, <2>1, <2>2 DEF AInv, LInv
<1> QED
  BY <1>1, <1>2, <1>3, <1>4 DEF FInv

(* What a kill takes back is the vector of the round it interrupts. *)
LEMMA KillForgets ==
  ASSUME AInv, FInv, KillAndRestart
  PROVE  FInv'
<1>1. /\ step' = "out" /\ due' = "sync" /\ write' = "none"
      /\ last_weights' = state_rest.last_weights /\ mishaps' = mishaps + 1
      /\ UNCHANGED <<state_rest, dirs, attempt, confirmed>>
  BY DEF KillAndRestart, Restart, Mishap, audit
<1>2. WeightsFollowSaves'
  BY <1>1 DEF WeightsFollowSaves
<1>3. mishaps \in Nat
  BY DEF AInv
<1>4. ASSUME NEW m \in Mechanisms
      PROVE  Cardinality(Newer(last_weights, m)') <= mishaps'
  <2> DEFINE old == Newer(state_rest.last_weights, m) \ {attempt}
  <2>1. Newer(last_weights, m)' \subseteq old \cup {attempt}
    BY <1>1 DEF Newer
  <2>2. IsFiniteSet(old) /\ Cardinality(old) \in Nat
    <3>1. IsFiniteSet(Newer(state_rest.last_weights, m))
      BY ForgottenIsFinite DEF AInv
    <3> QED
      BY <3>1, NoMore
  <2>3. /\ Cardinality(Newer(last_weights, m)') <= Cardinality(old) + 1
        /\ Cardinality(Newer(last_weights, m)') \in Nat
    <3> HIDE DEF old
    <3> QED
      BY <2>1, <2>2, OneMore
  <2> QED
    BY <1>1, <1>3, <2>2, <2>3 DEF FInv
<1>5. ASSUME NEW m \in Mechanisms, NEW n \in 1..MaxAttempts, dirs'[n].json # Torn
      PROVE  Cardinality(Forgotten(dirs[n].weights, m, dirs[n].json)') <= mishaps'
  <2>1. Forgotten(dirs[n].weights, m, dirs[n].json)' = Forgotten(dirs[n].weights, m, dirs[n].json)
    BY <1>1 DEF Forgotten
  <2>2. Cardinality(Forgotten(dirs[n].weights, m, dirs[n].json)) \in Nat
    BY ForgottenIsFinite DEF AInv
  <2>3. Cardinality(Forgotten(dirs[n].weights, m, dirs[n].json)) <= mishaps
    BY <1>1, <1>5 DEF FInv
  <2> QED
    BY <1>1, <1>3, <2>1, <2>2, <2>3
<1>6. ASSUME NEW m \in Mechanisms
      PROVE  Cardinality((Newer(state_rest.last_weights, m) \ {attempt})') <= mishaps'
  <2>1. (Newer(state_rest.last_weights, m) \ {attempt})' \subseteq Newer(last_weights, m)'
    BY <1>1 DEF Newer
  <2>2. Newer(last_weights, m)' = Newer(state_rest.last_weights, m)
    BY <1>1 DEF Newer
  <2>3. IsFiniteSet(Newer(last_weights, m)')
    BY <2>2, ForgottenIsFinite DEF AInv
  <2> QED
    BY <1>1, <1>3, <1>4, <2>1, <2>3, NoMore
<1> QED
  BY <1>2, <1>4, <1>5, <1>6 DEF FInv

LEMMA LNextFInv == AInv /\ FInv /\ [LNext]_lvars => FInv'
<1> SUFFICES ASSUME AInv, FInv, [LNext]_lvars PROVE FInv'
  OBVIOUS
<1>1. CASE BeginRound
  <2>1. /\ due = "forward" /\ step = "out" /\ step' = "round"
        /\ UNCHANGED <<confirmed, last_weights, state_rest, tmp_rest, dirs, mishaps>>
    BY <1>1 DEF BeginRound, rest, audit
  <2>2. last_weights = state_rest.last_weights
    BY <2>1 DEF FInv, WeightsFollowSaves
  <2>3. WeightsFollowSaves'
    BY <2>1, <2>2 DEF WeightsFollowSaves
  <2> QED
    BY <2>1, <2>2, <2>3, QuietForgets
<1>2. CASE LeaveEarly \/ ReachCrown \/ ReadBlock \/ UpdateIndex \/ LeaveLate
  <2>1. /\ UNCHANGED <<attempt, confirmed, last_weights, state_rest, tmp_rest, dirs>>
        /\ mishaps' = mishaps \/ mishaps' = mishaps + 1
        /\ \/ step' = "out" /\ due' = "save" /\ write' = "none"
           \/ step' = "bundle"
           \/ step = "round" /\ step' = "weights"
    BY <1>2
    DEF LeaveEarly, AbortRound, ReachCrown, ReadBlock, UpdateIndex, LeaveLate, Mishap,
        rest, audit, history, svars, AInv, NumbersFollowSaves
  <2>2. WeightsFollowSaves'
    BY <2>1 DEF FInv, WeightsFollowSaves
  <2> QED
    BY <2>1, <2>2, QuietForgets
<1>3. ASSUME NEW took \in SUBSET Mechanisms, NEW confirms \in SUBSET took,
             SubmitWeights(took, confirms)
      PROVE  FInv'
  BY <1>3, SubmitWeightsForgets
<1>4. CASE OpenBundle \/ OpenHash \/ WriteHash
  <2>1. /\ UNCHANGED <<attempt, confirmed, last_weights, state_rest, tmp_rest, mishaps>>
        /\ step' \in {"json", "hash", "index"}
        /\ \/ dirs' = [dirs EXCEPT ![number].json = Torn]
           \/ dirs' = [dirs EXCEPT ![number].hash = Torn]
           \/ dirs' = [dirs EXCEPT ![number].hash = attempt]
    BY <1>4 DEF OpenBundle, OpenHash, WriteHash, rest, history
  <2>2. WeightsFollowSaves'
    BY <2>1 DEF WeightsFollowSaves
  <2>3. \A n \in 1..MaxAttempts : dirs'[n].json # Torn =>
          dirs'[n].json = dirs[n].json /\ dirs'[n].weights = dirs[n].weights
    <3>1. CASE dirs' = [dirs EXCEPT ![number].json = Torn]
      BY <3>1 DEF AInv, LInv
    <3>2. ASSUME NEW h, dirs' = [dirs EXCEPT ![number].hash = h]
          PROVE  \A n \in 1..MaxAttempts :
                   dirs'[n].json = dirs[n].json /\ dirs'[n].weights = dirs[n].weights
      BY <3>2 DEF AInv, LInv
    <3> QED
      BY <2>1, <3>1, <3>2
  <2> QED
    BY <2>1, <2>2, <2>3, QuietForgets
<1>5. CASE WriteBundle
  BY <1>5, WriteBundleForgets
<1>6. CASE SaveState
  <2>1. /\ step = "out" /\ step' = step
        /\ UNCHANGED <<attempt, confirmed, last_weights, dirs, mishaps>>
        /\ \/ /\ due \in {"sync", "save"} /\ due' = due /\ write' = "open"
              /\ UNCHANGED <<state_rest, tmp_rest>>
           \/ /\ due' = due /\ write' = "done"
              /\ tmp_rest' = the_rest /\ UNCHANGED state_rest
           \/ /\ write = "done" /\ write' = "none" /\ state_rest' = tmp_rest
    BY <1>6 DEF SaveState, BeginWrite, EndWrite, Replace, rest, audit, history
  <2>2. the_rest.last_weights = last_weights
    BY DEF the_rest
  <2>3. WeightsFollowSaves' /\ state_rest'.last_weights \in {state_rest.last_weights, last_weights}
    BY <2>1, <2>2 DEF FInv, WeightsFollowSaves
  <2> QED
    BY <2>1, <2>3, QuietForgets
<1>7. CASE KillAndRestart
  BY <1>7, KillForgets
<1>8. CASE UNCHANGED lvars
  <2>1. UNCHANGED <<due, write, step, attempt, confirmed, last_weights, state_rest, tmp_rest,
                    dirs, mishaps>>
    BY <1>8 DEF lvars, rest, audit, history, svars
  <2>2. WeightsFollowSaves'
    BY <2>1 DEF FInv, WeightsFollowSaves
  <2> QED
    BY <2>1, <2>2, QuietForgets
<1> QED
  BY <1>1, <1>2, <1>3, <1>4, <1>5, <1>6, <1>7, <1>8 DEF LNext, Forward

LEMMA LInitFInv == LInit => FInv
<1> SUFFICES ASSUME LInit PROVE FInv
  OBVIOUS
<1>1. \A m \in Mechanisms : \A v, upto : Newer(v, m) = {} /\ Forgotten(v, m, upto) = {}
  BY DEF LInit, Newer, Forgotten
<1>2. Cardinality({}) = 0 /\ mishaps = 0
  BY FS_EmptySet DEF LInit
<1>3. WeightsFollowSaves
  BY DEF LInit, SInit, NoRest, WeightsFollowSaves
<1> QED
  BY <1>1, <1>2, <1>3 DEF FInv

(* What a whole round.json shows of a mechanism was accepted by it, is of  *)
(* the bundle's round if that was, and lags the newest accepted by one     *)
(* round a mishap at most, however the vectors of the other mechanisms     *)
(* fared and whatever kills and failed writes came before                  *)
(* (submit_round_weights, RoundBundle.write).                              *)
THEOREM BundlesShowAcceptedWeights == LSpec => []BundleShowsAcceptedWeights
<1>1. AInv /\ FInv => BundleShowsAcceptedWeights
  <2> SUFFICES ASSUME AInv, FInv,
                      NEW n \in 1..MaxAttempts, NEW m \in Mechanisms, dirs[n].json # Torn
               PROVE  /\ dirs[n].weights[m] \in confirmed[m] \cup {0}
                      /\ dirs[n].weights[m] <= dirs[n].json
                      /\ dirs[n].json \in confirmed[m] => dirs[n].weights[m] = dirs[n].json
                      /\ Cardinality(Forgotten(dirs[n].weights, m, dirs[n].json)) <= mishaps
    BY DEF BundleShowsAcceptedWeights
  <2>1. dirs[n].weights \in AcceptedVectors /\ Shows(dirs[n])
    BY DEF AInv, LInv
  <2> QED
    BY <2>1 DEF AcceptedVectors, Accepted, Shows, FInv
<1>2. LInit => AInv /\ FInv
  BY LInitAInv, LInitFInv
<1>3. AInv /\ FInv /\ [LNext]_lvars => AInv' /\ FInv'
  BY LNextAInv, LNextFInv
<1> QED
  BY <1>1, <1>2, <1>3, PTL DEF LSpec

-----------------------------------------------------------------------------

(* AInv keeps numbers and rounds within their bounds. *)
LEMMA LNextLTypeOK == AInv /\ AInv' /\ LTypeOK /\ [LNext]_lvars => LTypeOK'
<1> SUFFICES ASSUME AInv, AInv', LTypeOK, [LNext]_lvars PROVE LTypeOK'
  OBVIOUS
<1>1. /\ attempt \in Rounds /\ attempt' \in Rounds
      /\ number' \in Rounds /\ last_weights' \in Vectors
      /\ landed' \subseteq 1..attempt' /\ mishaps' \in Nat
      /\ confirmed' \in [Mechanisms -> SUBSET landed']
  <2>1. attempt \in Rounds /\ attempt' \in Rounds /\ number' \in Rounds
    BY LifecycleAssumption DEF AInv, LInv, NumbersFollowSaves, Rounds
  <2>2. /\ last_weights' \in [Mechanisms -> Nat]
        /\ \A m \in Mechanisms : last_weights'[m] \in confirmed'[m] \cup {0}
        /\ landed' \subseteq 1..attempt' /\ mishaps' \in Nat
        /\ confirmed' \in [Mechanisms -> SUBSET landed']
    BY DEF AInv, LInv, AcceptedVectors, Accepted
  <2>3. attempt' \in Nat /\ attempt' <= MaxAttempts
    BY <2>1, LifecycleAssumption DEF Rounds
  <2>4. \A m \in Mechanisms : last_weights'[m] \in Rounds
    <3>1. \A m \in Mechanisms : last_weights'[m] \in (1..attempt') \cup {0}
      BY <2>2
    <3> QED
      BY <2>3, <3>1, LifecycleAssumption DEF Rounds
  <2>5. last_weights' \in Vectors
    <3> DEFINE v == last_weights'
    <3>1. v \in [Mechanisms -> Nat] /\ \A m \in Mechanisms : v[m] \in Rounds
      BY <2>2, <2>4
    <3> HIDE DEF v
    <3>2. v \in [Mechanisms -> Rounds]
      BY <3>1
    <3> QED
      BY <3>2 DEF Vectors, v
  <2> QED
    BY <2>1, <2>2, <2>5
<1>2. the_rest \in Rest /\ NoRest \in Rest
  BY LifecycleAssumption DEF LTypeOK, the_rest, NoRest, NoVectors, Vectors, Rest, Rounds
<1>3. step' \in Steps
  BY DEF AInv, NumbersFollowSaves, Steps
<1>4. state_rest' \in {state_rest, tmp_rest} /\ tmp_rest' \in {tmp_rest, the_rest, NoRest}
  BY DEF LNext, Forward, BeginRound, LeaveEarly, ReachCrown, SubmitWeights, ReadBlock,
         Submitted, OpenBundle, WriteBundle, OpenHash, WriteHash, UpdateIndex, LeaveLate,
         SaveState, KillAndRestart,
         lvars, rest
<1>5. \/ dirs' = dirs
      \/ dirs' = [dirs EXCEPT ![number].json = attempt, ![number].weights = last_weights]
      \/ \E h \in {attempt, Torn} : dirs' = [dirs EXCEPT ![number].hash = h]
      \/ dirs' = [dirs EXCEPT ![number].json = Torn]
  BY DEF LNext, Forward, BeginRound, LeaveEarly, ReachCrown, SubmitWeights, ReadBlock,
         Submitted, OpenBundle, WriteBundle, OpenHash, WriteHash, UpdateIndex, LeaveLate,
         SaveState, KillAndRestart,
         lvars, audit
<1>6. index' = index \/ index' = [index EXCEPT ![number] = attempt]
  BY DEF LNext, Forward, BeginRound, LeaveEarly, ReachCrown, SubmitWeights, ReadBlock,
         Submitted, OpenBundle, WriteBundle, OpenHash, WriteHash, UpdateIndex, LeaveLate,
         SaveState, KillAndRestart,
         lvars, audit
<1>7. dirs' \in [1..MaxAttempts -> Dir]
  BY <1>1, <1>5 DEF LTypeOK, Dir
<1>8. index' \in [1..MaxAttempts -> Rounds]
  BY <1>1, <1>6 DEF LTypeOK
<1> QED
  BY <1>1, <1>2, <1>3, <1>4, <1>7, <1>8 DEF LTypeOK

(* Type correctness of whole rounds and of the audit repository. *)
THEOREM LifecycleTypeCorrect == LSpec => []LTypeOK
<1>1. LInit => LTypeOK
  BY LifecycleAssumption DEF LInit, LTypeOK, Rounds, Steps, Rest, NoRest, Vectors, NoVectors,
                             Dir, NoDir
<1> QED
  BY <1>1, LSpecAInv, LNextLTypeOK, PTL DEF LSpec

=============================================================================
