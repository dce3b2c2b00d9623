------------------------ MODULE WeightHeartbeatProofs ------------------------
(***************************************************************************)
(* Safety of WeightHeartbeat for any number of rounds, kills and whatever  *)
(* submissions come to.  The inductive invariant follows a vector through  *)
(* to_submit, landed, last_weights, the disk and the heartbeat's copy: it  *)
(* is accepted before it is remembered, never older than what it replaces, *)
(* and what is remembered is on disk except while a round is being saved.  *)
(***************************************************************************)
EXTENDS WeightHeartbeat, TLAPS

(* The vectors of the round in hand carry its number. *)
InHandIsCurrent ==
  /\ \A m \in Present(to_submit) : to_submit[m].round = computed
  /\ stage = "submitting" => \A m \in Present(landed) : landed[m].round = computed

(* No remembered vector comes from a later round. *)
RememberedIsPast ==
  \A m \in Present(last_weights) : last_weights[m].round <= computed

LandedIsAccepted == \A m \in Present(landed) : landed[m] \in accepted[m]

RememberedIsSaved == stage # "saving" => saved = last_weights

(* Nor does a saved one. *)
SavedIsPast == \A m \in Present(saved) : saved[m].round <= computed

IInv ==
  /\ TypeOK
  /\ OnlyAcceptedIsReasserted
  /\ NoLaneIsDropped
  /\ InHandIsCurrent
  /\ RememberedIsPast
  /\ LandedIsAccepted
  /\ RememberedIsSaved
  /\ SavedIsPast

USE DEF Mechanisms, Lanes, GENERALIST, SPECIALIST_AND_BOUNTY, Present, Vectors, Vector

-----------------------------------------------------------------------------

(* Every vector of f comes from round r. *)
ComesFrom(f, r) == \A m \in Present(f) : f[m].round = r

(* Folding yields vectors of the round that pay every lane it was given. *)
LEMMA FoldedPaysEveryLane ==
  ASSUME NEW lanes \in SUBSET Lanes, NEW available \in {1, 2}, NEW r \in 1..MaxRounds,
         NEW f, f = Folded(lanes, available, r)
  PROVE  /\ f \in Vectors
         /\ ComesFrom(f, r)
         /\ lanes \subseteq UNION {f[m].lanes : m \in Present(f)}
<1> DEFINE bucket(m) == {lane \in lanes : target(lane, available) = m}
<1>1. f = [m \in Mechanisms |-> IF bucket(m) = {} THEN NoVector
                                ELSE [round |-> r, lanes |-> bucket(m)]]
  BY DEF Folded
<1>2. \A m \in Mechanisms : bucket(m) \subseteq Lanes
  OBVIOUS
<1>3. f \in Vectors
  BY <1>1, <1>2
<1>4. \A m \in Present(f) : f[m] = [round |-> r, lanes |-> bucket(m)]
  BY <1>1
<1>5. ASSUME NEW lane \in lanes
      PROVE  lane \in UNION {f[m].lanes : m \in Present(f)}
  <2> DEFINE m == target(lane, available)
  <2>1. m \in Mechanisms /\ lane \in bucket(m)
    BY DEF target
  <2>2. f[m] = [round |-> r, lanes |-> bucket(m)]
    BY <1>1, <2>1
  <2>3. [round |-> r, lanes |-> bucket(m)] \in Vector
    BY <2>1
  <2>4. m \in Present(f) /\ lane \in f[m].lanes
    BY <2>1, <2>2, <2>3, NoVectorAssumption
  <2> QED BY <2>4
<1>6. ComesFrom(f, r)
  <2> SUFFICES ASSUME NEW m \in Present(f) PROVE f[m].round = r
    BY DEF ComesFrom
  <2>1. f[m] = [round |-> r, lanes |-> bucket(m)]
    BY <1>4
  <2> HIDE DEF bucket
  <2> QED BY <2>1
<1>7. lanes \subseteq UNION {f[m].lanes : m \in Present(f)}
  BY <1>5
<1> QED BY <1>3, <1>6, <1>7

(* A submission records as accepted at most the vector it sent. *)
LEMMA SetWeightsType ==
  ASSUME TypeOK, NEW m \in Mechanisms, NEW v \in Vector, NEW outcome,
         SetWeights(m, v, outcome)
  PROVE  /\ on_chain' \in Vectors
         /\ stale' \in BOOLEAN
         /\ mechanism_count' = mechanism_count
         /\ accepted' \in [Mechanisms -> SUBSET Vector]
         /\ \A n \in Mechanisms : accepted[n] \subseteq accepted'[n]
         /\ outcome = "accepted" => v \in accepted'[m]
<1>1. v \in Vector \cup {NoVector}
  OBVIOUS
<1>2. on_chain' \in Vectors /\ stale' \in BOOLEAN /\ mechanism_count' = mechanism_count
  <2>1. \/ on_chain' = [on_chain EXCEPT ![m] = v] /\ stale' = FALSE
        \/ on_chain' = on_chain /\ stale' = stale
    BY DEF SetWeights
  <2>2. on_chain \in Vectors /\ stale \in BOOLEAN
    BY DEF TypeOK
  <2>3. mechanism_count' = mechanism_count
    BY DEF SetWeights
  <2> QED BY <1>1, <2>1, <2>2, <2>3
<1>3. CASE outcome = "accepted"
  <2>1. accepted' = [accepted EXCEPT ![m] = accepted[m] \cup {v}]
    BY <1>3 DEF SetWeights
  <2>2. accepted[m] \cup {v} \in SUBSET Vector
    BY DEF TypeOK
  <2> QED BY <1>2, <2>1, <2>2 DEF TypeOK
<1>4. CASE outcome # "accepted"
  BY <1>2, <1>4 DEF TypeOK, SetWeights
<1> QED BY <1>3, <1>4

(* The process starts with nothing to re-assert. *)
LEMMA InitIInv == Init => IInv
<1> SUFFICES ASSUME Init PROVE IInv
  OBVIOUS
<1>1. TypeOK
  BY BoundAssumption DEF Init, TypeOK, Nothing, Stages
<1> QED BY <1>1 DEF Init, IInv, Nothing, OnlyAcceptedIsReasserted, NoLaneIsDropped,
                    InHandIsCurrent, RememberedIsPast, LandedIsAccepted, RememberedIsSaved, SavedIsPast

(* ComputeWeights: the lanes with weights are all folded into to_submit. *)
LEMMA ComputeWeightsIInv ==
  ASSUME IInv, ComputeWeights
  PROVE  IInv'
<1> USE DEF IInv
<1>1. PICK lanes \in SUBSET Lanes, available \in {1, mechanism_count} :
        to_submit' = Folded(lanes, available, computed + 1) /\ owed' = lanes
  BY DEF ComputeWeights
<1>2. available \in {1, 2} /\ computed + 1 \in 1..MaxRounds /\ computed \in Nat
  BY BoundAssumption DEF TypeOK, ComputeWeights
<1>3. /\ to_submit' \in Vectors
      /\ \A m \in Present(to_submit)' : to_submit'[m].round = computed'
      /\ owed' \subseteq UNION {to_submit'[m].lanes : m \in Present(to_submit)'}
  <2>1. PICK r \in 1..MaxRounds : r = computed + 1
    BY <1>2
  <2>2. available \in {1, 2}
    BY <1>2
  <2>3. PICK f : f = Folded(lanes, available, r)
    OBVIOUS
  <2>4. /\ f \in Vectors
        /\ ComesFrom(f, r)
        /\ lanes \subseteq UNION {f[m].lanes : m \in Present(f)}
    <3>1. lanes \in SUBSET Lanes
      BY <1>1
    <3>2. r \in 1..MaxRounds
      BY <2>1
    <3> HIDE DEF Present, Vectors, Vector, Lanes, Mechanisms
    <3>3. f \in Vectors
      BY <3>1, <3>2, <2>2, <2>3, FoldedPaysEveryLane
    <3>4. ComesFrom(f, r)
      BY <3>1, <3>2, <2>2, <2>3, FoldedPaysEveryLane
    <3>5. lanes \subseteq UNION {f[m].lanes : m \in Present(f)}
      BY <3>1, <3>2, <2>2, <2>3, FoldedPaysEveryLane
    <3> QED BY <3>3, <3>4, <3>5
  <2>5. to_submit' = f /\ owed' = lanes /\ computed' = r
    BY <1>1, <2>1, <2>3 DEF ComputeWeights
  <2> QED BY <2>4, <2>5 DEF ComesFrom
<1>4. TypeOK'
  BY <1>1, <1>2, <1>3 DEF TypeOK, ComputeWeights, chain, Nothing, Stages
<1>5. NoLaneIsDropped' /\ InHandIsCurrent'
  BY <1>3 DEF NoLaneIsDropped, InHandIsCurrent, ComputeWeights, Nothing
<1>6. RememberedIsPast'
  BY <1>2 DEF TypeOK, RememberedIsPast, ComputeWeights
<1>7. SavedIsPast'
  BY <1>2 DEF TypeOK, SavedIsPast, ComputeWeights
<1>8. OnlyAcceptedIsReasserted' /\ LandedIsAccepted' /\ RememberedIsSaved'
  BY DEF ComputeWeights, OnlyAcceptedIsReasserted, LandedIsAccepted, RememberedIsSaved, Nothing
<1> QED BY <1>4, <1>5, <1>6, <1>7, <1>8

(* Submit: a vector leaves to_submit with the lanes it pays, and counts as *)
(* landed only if it was accepted.                                         *)
LEMMA SubmitIInv ==
  ASSUME IInv, NEW outcome, Submit(outcome)
  PROVE  IInv'
<1> USE DEF IInv
<1>1. PICK m \in Present(to_submit) :
        /\ stage = "submitting"
        /\ SetWeights(m, to_submit[m], outcome)
        /\ landed' = IF outcome = "accepted"
                       THEN [landed EXCEPT ![m] = to_submit[m]]
                       ELSE landed
        /\ to_submit' = [to_submit EXCEPT ![m] = NoVector]
        /\ owed' = owed \ to_submit[m].lanes
        /\ UNCHANGED <<computed, stage, last_weights, pending, saved, kills>>
  BY DEF Submit
<1>2. m \in Mechanisms /\ to_submit[m] \in Vector
  BY <1>1 DEF TypeOK
<1>3. /\ on_chain' \in Vectors /\ stale' \in BOOLEAN
      /\ mechanism_count' = mechanism_count
      /\ accepted' \in [Mechanisms -> SUBSET Vector]
      /\ \A n \in Mechanisms : accepted[n] \subseteq accepted'[n]
      /\ outcome = "accepted" => to_submit[m] \in accepted'[m]
  BY <1>1, <1>2, SetWeightsType
<1>4. TypeOK'
  BY <1>1, <1>2, <1>3 DEF TypeOK
<1>5. OnlyAcceptedIsReasserted'
  BY <1>1, <1>3 DEF OnlyAcceptedIsReasserted
<1>6. LandedIsAccepted'
  BY <1>1, <1>2, <1>3 DEF LandedIsAccepted, TypeOK
<1>7. InHandIsCurrent'
  BY <1>1, <1>2 DEF InHandIsCurrent, TypeOK
<1>8. NoLaneIsDropped'
  <2> SUFFICES ASSUME NEW lane \in owed'
               PROVE  \E n \in Present(to_submit)' : lane \in to_submit'[n].lanes
    BY DEF NoLaneIsDropped
  <2>1. lane \in owed /\ lane \notin to_submit[m].lanes
    BY <1>1
  <2>2. PICK n \in Present(to_submit) : lane \in to_submit[n].lanes
    BY <1>1, <2>1 DEF NoLaneIsDropped
  <2>3. n # m /\ to_submit'[n] = to_submit[n]
    BY <1>1, <2>1, <2>2 DEF TypeOK
  <2> QED BY <2>2, <2>3
<1> QED BY <1>1, <1>4, <1>5, <1>6, <1>7, <1>8 DEF RememberedIsPast, RememberedIsSaved, SavedIsPast

(* Remember: what the chain accepted replaces what was remembered. *)
LEMMA RememberIInv ==
  ASSUME IInv, Remember
  PROVE  IInv'
<1> USE DEF IInv
<1>1. TypeOK'
  BY DEF TypeOK, Remember, chain, history, Stages
<1>2. OnlyAcceptedIsReasserted'
  <2>1. \A m \in Present(last_weights)' : last_weights'[m] \in accepted'[m]
    BY DEF Remember, OnlyAcceptedIsReasserted, LandedIsAccepted, history
  <2> QED BY <2>1 DEF Remember, OnlyAcceptedIsReasserted, history
<1>3. RememberedIsPast'
  <2>1. computed \in Nat
    BY BoundAssumption DEF TypeOK
  <2> QED BY <2>1 DEF Remember, RememberedIsPast, InHandIsCurrent
<1> QED BY <1>1, <1>2, <1>3 DEF Remember, NoLaneIsDropped, InHandIsCurrent,
                                LandedIsAccepted, RememberedIsSaved, SavedIsPast, history

(* Every other step moves vectors between the disk, last_weights and the   *)
(* heartbeat's copy, or is the chain's.                                    *)
LEMMA NextIInv == IInv /\ [Next]_vars => IInv'
<1> SUFFICES ASSUME IInv, [Next]_vars PROVE IInv'
  OBVIOUS
<1> USE DEF IInv
<1>1. CASE ComputeWeights
  BY <1>1, ComputeWeightsIInv
<1>2. CASE \E o \in Outcomes : Submit(o)
  BY <1>2, SubmitIInv
<1>3. CASE Remember
  BY <1>3, RememberIInv
<1>4. CASE Save
  BY <1>4 DEF Save, chain, history, TypeOK, Stages, OnlyAcceptedIsReasserted,
              NoLaneIsDropped, InHandIsCurrent, RememberedIsPast, LandedIsAccepted,
              RememberedIsSaved, SavedIsPast
<1>5. CASE Wake
  BY <1>5 DEF Wake, chain, round, history, TypeOK, OnlyAcceptedIsReasserted,
              NoLaneIsDropped, InHandIsCurrent, RememberedIsPast, LandedIsAccepted,
              RememberedIsSaved, SavedIsPast
<1>6. CASE \E m \in Mechanisms, o \in Outcomes : Beat(m, o)
  <2>1. PICK m \in Mechanisms, o \in Outcomes : Beat(m, o)
    BY <1>6
  <2>2. pending[m] \in Vector
    BY <2>1 DEF Beat, TypeOK
  <2>3. /\ on_chain' \in Vectors /\ stale' \in BOOLEAN
        /\ mechanism_count' = mechanism_count
        /\ accepted' \in [Mechanisms -> SUBSET Vector]
        /\ \A n \in Mechanisms : accepted[n] \subseteq accepted'[n]
    BY <2>1, <2>2, SetWeightsType DEF Beat
  <2>4. TypeOK'
    BY <2>1, <2>3 DEF Beat, round, TypeOK
  <2>5. OnlyAcceptedIsReasserted'
    BY <2>1, <2>3 DEF Beat, round, TypeOK, OnlyAcceptedIsReasserted
  <2>6. LandedIsAccepted'
    BY <2>1, <2>3 DEF Beat, round, LandedIsAccepted
  <2> QED BY <2>1, <2>4, <2>5, <2>6
          DEF Beat, round, NoLaneIsDropped, InHandIsCurrent, RememberedIsPast, RememberedIsSaved, SavedIsPast
<1>7. CASE Restart
  <2>1. kills \in Nat /\ MaxKills \in Nat
    BY BoundAssumption DEF TypeOK
  <2>2. TypeOK'
    BY <1>7, <2>1 DEF Restart, chain, history, Nothing, TypeOK, Stages
  <2>3. RememberedIsPast'
    BY <1>7 DEF Restart, RememberedIsPast, SavedIsPast
  <2> QED BY <1>7, <2>2, <2>3
          DEF Restart, chain, history, Nothing, OnlyAcceptedIsReasserted, NoLaneIsDropped,
              InHandIsCurrent, LandedIsAccepted, RememberedIsSaved, SavedIsPast
<1>8. CASE RaiseMechanismCount \/ PassCutoff \/ UNCHANGED vars
  <2>1. /\ mechanism_count' \in {1, 2} /\ stale' \in BOOLEAN
        /\ UNCHANGED <<on_chain, round, last_weights, pending, saved, kills, history>>
    BY <1>8 DEF RaiseMechanismCount, PassCutoff, vars, chain, TypeOK
  <2> QED BY <2>1 DEF round, history, TypeOK, OnlyAcceptedIsReasserted, NoLaneIsDropped,
                      InHandIsCurrent, RememberedIsPast, LandedIsAccepted,
                      RememberedIsSaved, SavedIsPast
<1> QED BY <1>1, <1>2, <1>3, <1>4, <1>5, <1>6, <1>7, <1>8
        DEF Next, RoundThread, HeartbeatThread

(* So IInv holds throughout. *)
LEMMA SpecIInv == Spec => []IInv
  BY InitIInv, NextIInv, PTL DEF Spec

-----------------------------------------------------------------------------

(* Type correctness. *)
THEOREM HeartbeatTypeCorrect == Spec => []TypeOK
<1>1. IInv => TypeOK
  BY DEF IInv
<1> QED BY <1>1, SpecIInv, PTL

(* Only what the chain accepted is ever re-asserted, by this process or by *)
(* the one started after a kill.                                           *)
THEOREM HeartbeatSendsAcceptedVectors == Spec => []OnlyAcceptedIsReasserted
<1>1. IInv => OnlyAcceptedIsReasserted
  BY DEF IInv
<1> QED BY <1>1, SpecIInv, PTL

(* Folding and partial failure leave no lane with weights unsubmitted. *)
THEOREM EveryLaneIsSubmitted == Spec => []NoLaneIsDropped
<1>1. IInv => NoLaneIsDropped
  BY DEF IInv
<1> QED BY <1>1, SpecIInv, PTL

(* Once a round is saved no kill makes the validator fall back behind it. *)
THEOREM SavedVectorsSurviveKills == Spec => KillForgetsOnlyUnsaved
<1> DEFINE P == \A m \in Present(last_weights) :
                  OlderThan(last_weights'[m], last_weights[m]) => stage = "saving"
<1>1. ASSUME IInv, Next PROVE P
  <2> SUFFICES ASSUME NEW m \in Present(last_weights), stage # "saving"
               PROVE  ~OlderThan(last_weights'[m], last_weights[m])
    OBVIOUS
  <2>1. last_weights[m] \in Vector /\ last_weights[m].round <= computed
    BY <1>1 DEF IInv, TypeOK, RememberedIsPast
  <2>2. CASE last_weights'[m] = last_weights[m]
    BY <2>1, <2>2, NoVectorAssumption DEF OlderThan
  <2>3. CASE Remember /\ m \in Present(landed)
    <3>1. last_weights'[m] = landed[m] /\ landed[m].round = computed
      BY <1>1, <2>3 DEF Remember, IInv, InHandIsCurrent
    <3>2. landed[m] # NoVector /\ computed \in Nat
      BY <1>1, <2>3, BoundAssumption DEF IInv, TypeOK
    <3> QED BY <2>1, <3>1, <3>2 DEF OlderThan
  <2>4. CASE Restart
    BY <1>1, <2>2, <2>4 DEF Restart, IInv, RememberedIsSaved
  <2> QED BY <1>1, <2>2, <2>3, <2>4
          DEF Next, RoundThread, HeartbeatThread, ComputeWeights, Submit, Remember, Save, Wake,
              Beat, RaiseMechanismCount, PassCutoff
<1>2. IInv /\ [Next]_vars => [P]_vars
  BY <1>1
<1> QED BY <1>2, SpecIInv, PTL DEF Spec, KillForgetsOnlyUnsaved

=============================================================================
