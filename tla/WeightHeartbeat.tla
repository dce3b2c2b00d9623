--------------------------- MODULE WeightHeartbeat ---------------------------
(***************************************************************************)
(* Who writes the validator's weights on chain: the round thread, which    *)
(* submits a vector per mechanism at the end of a round and remembers the  *)
(* accepted ones in last_weights, and the heartbeat thread, which copies   *)
(* last_weights under the lock and re-asserts the copy outside it          *)
(* (base/validator.py).  last_weights is saved after a round and loaded    *)
(* when the process starts.                                                *)
(*                                                                         *)
(* A vector is abstracted to the round that computed it and the lanes it   *)
(* pays; which miners and how much is left out.                            *)
(***************************************************************************)
EXTENDS Integers, FiniteSets

CONSTANTS
  Outcomes,   \* what a submission can come to, see OutcomesAssumption
  NoVector,   \* no entry for the mechanism
  MaxRounds,  \* bound on the rounds explored
  MaxKills    \* bound on the kills of the process

(* set_weights_for_mechanism: the chain accepted the vector; it refused;   *)
(* no hotkey resolved and nothing was sent; or the vector landed but the   *)
(* SDK raised before it could say so.                                      *)
ASSUME OutcomesAssumption ==
  Outcomes \subseteq {"accepted", "rejected", "unresolved", "unconfirmed"}

ASSUME BoundAssumption == MaxRounds \in Nat /\ MaxKills \in Nat

GENERALIST == 0
SPECIALIST_AND_BOUNTY == 1
Mechanisms == {GENERALIST, SPECIALIST_AND_BOUNTY}

(* A lane is named after the mechanism designed for it. *)
Lanes == Mechanisms

Vector == [round : 1..MaxRounds, lanes : SUBSET Lanes]

ASSUME NoVectorAssumption == NoVector \notin Vector

VARIABLES
  mechanism_count,  \* chain: mechanisms the subnet runs
  on_chain,         \* chain: mechanism -> this validator's vector
  stale,            \* chain: the last update predates the activity cutoff
  computed,         \* rounds whose weights were computed
  stage,            \* round thread: see Stages
  to_submit,        \* round thread: mechanism -> vector still to be sent
  landed,           \* round thread: mechanism -> vector the chain accepted
  last_weights,     \* shared: mechanism -> vector to re-assert
  pending,          \* heartbeat thread: its copy of last_weights, less what it sent
  saved,            \* disk: last_weights of state.json
  kills,            \* kills so far
  accepted,         \* history: per mechanism, the vectors reported accepted
  owed              \* history: lanes of the round the chain was not asked to pay

chain == <<mechanism_count, on_chain, stale>>
round == <<computed, stage, to_submit, landed>>
history == <<accepted, owed>>
vars == <<chain, round, last_weights, pending, saved, kills, history>>

Stages == {"measuring", "submitting", "saving"}

Vectors == [Mechanisms -> Vector \cup {NoVector}]
Nothing == [m \in Mechanisms |-> NoVector]
Present(v) == {m \in Mechanisms : v[m] # NoVector}

-----------------------------------------------------------------------------
(***************************************************************************)
(* The chain.                                                              *)
(***************************************************************************)

(* The owner creates the second mechanism. *)
RaiseMechanismCount ==
  /\ mechanism_count = 1
  /\ mechanism_count' = 2
  /\ UNCHANGED <<on_chain, stale, round, last_weights, pending, saved, kills, history>>

(* Time passes until the activity cutoff has overtaken the last update. *)
PassCutoff ==
  /\ ~stale
  /\ stale' = TRUE
  /\ UNCHANGED <<mechanism_count, on_chain, round, last_weights, pending, saved,
                 kills, history>>

(* set_weights_for_mechanism(v, m). *)
SetWeights(m, v, outcome) ==
  /\ outcome \in {"accepted", "unconfirmed"} => m < mechanism_count
  /\ IF outcome \in {"accepted", "unconfirmed"}
       THEN on_chain' = [on_chain EXCEPT ![m] = v] /\ stale' = FALSE
       ELSE UNCHANGED <<on_chain, stale>>
  /\ accepted' = IF outcome = "accepted"
                   THEN [accepted EXCEPT ![m] = @ \cup {v}]
                   ELSE accepted
  /\ UNCHANGED mechanism_count

-----------------------------------------------------------------------------
(***************************************************************************)
(* The round thread: submit_round_weights and the save that follows.       *)
(***************************************************************************)

(* The mechanism a lane is submitted on: its own if the chain has it. *)
target(lane, available) == IF lane < available THEN lane ELSE GENERALIST

(* Seeded fault: the lanes of absent mechanisms are skipped. *)
FoldedWithoutAbsent(lanes, available, r) ==
  [m \in Mechanisms |->
     IF m \in lanes /\ m < available THEN [round |-> r, lanes |-> {m}] ELSE NoVector]

(* The vectors to submit for the lanes that have weights. *)
Folded(lanes, available, r) ==
  [m \in Mechanisms |->
     LET bucket == {lane \in lanes : target(lane, available) = m}
     IN  IF bucket = {} THEN NoVector ELSE [round |-> r, lanes |-> bucket]]

(* A round has computed its vectors.  The count of mechanisms is read      *)
(* here; a read that fails is taken for 1.                                 *)
ComputeWeights ==
  /\ stage = "measuring"
  /\ computed < MaxRounds
  /\ computed' = computed + 1
  /\ \E lanes \in SUBSET Lanes, available \in {1, mechanism_count} :
       /\ to_submit' = Folded(lanes, available, computed + 1)
       /\ owed' = lanes
  /\ landed' = Nothing
  /\ stage' = "submitting"
  /\ UNCHANGED <<chain, last_weights, pending, saved, kills, accepted>>

(* Seeded fault: refused vectors are remembered as well. *)
SubmitRemembersAll(outcome) ==
  \E m \in Present(to_submit) :
    /\ stage = "submitting"
    /\ \A n \in Present(to_submit) : m <= n
    /\ SetWeights(m, to_submit[m], outcome)
    /\ landed' = [landed EXCEPT ![m] = to_submit[m]]
    /\ to_submit' = [to_submit EXCEPT ![m] = NoVector]
    /\ owed' = owed \ to_submit[m].lanes
    /\ UNCHANGED <<computed, stage, last_weights, pending, saved, kills>>

(* Mechanisms in ascending order; a refusal does not stop the next one. *)
Submit(outcome) ==
  \E m \in Present(to_submit) :
    /\ stage = "submitting"
    /\ \A n \in Present(to_submit) : m <= n
    /\ SetWeights(m, to_submit[m], outcome)
    /\ landed' = IF outcome = "accepted"
                   THEN [landed EXCEPT ![m] = to_submit[m]]
                   ELSE landed
    /\ to_submit' = [to_submit EXCEPT ![m] = NoVector]
    /\ owed' = owed \ to_submit[m].lanes
    /\ UNCHANGED <<computed, stage, last_weights, pending, saved, kills>>

(* Seeded fault: the round's vectors replace all that was remembered. *)
RememberOnlyLanded ==
  /\ stage = "submitting"
  /\ Present(to_submit) = {}
  /\ last_weights' = landed
  /\ stage' = "saving"
  /\ UNCHANGED <<chain, computed, to_submit, landed, pending, saved, kills, history>>

(* self.last_weights.update(landed), under the lock. *)
Remember ==
  /\ stage = "submitting"
  /\ Present(to_submit) = {}
  /\ last_weights' = [m \in Mechanisms |->
                        IF m \in Present(landed) THEN landed[m] ELSE last_weights[m]]
  /\ stage' = "saving"
  /\ UNCHANGED <<chain, computed, to_submit, landed, pending, saved, kills, history>>

(* Seeded fault: the weights are left out of the payload. *)
SaveWithoutWeights ==
  /\ stage = "saving"
  /\ stage' = "measuring"
  /\ UNCHANGED <<chain, computed, to_submit, landed, last_weights, pending,
                 saved, kills, history>>

(* save_state, in the `finally' clause of run(). *)
Save ==
  /\ stage = "saving"
  /\ saved' = last_weights
  /\ stage' = "measuring"
  /\ UNCHANGED <<chain, computed, to_submit, landed, last_weights, pending,
                 kills, history>>

-----------------------------------------------------------------------------
(***************************************************************************)
(* The heartbeat thread.                                                   *)
(***************************************************************************)

(* The interval has passed: copy last_weights, under the lock. *)
Wake ==
  /\ Present(pending) = {}
  /\ Present(last_weights) # {}
  /\ pending' = last_weights
  /\ UNCHANGED <<chain, round, last_weights, saved, kills, history>>

(* Seeded fault: a vector the chain refuses once is forgotten. *)
BeatForgetsRefused(m, outcome) ==
  /\ m \in Present(pending)
  /\ SetWeights(m, pending[m], outcome)
  /\ pending' = [pending EXCEPT ![m] = NoVector]
  /\ last_weights' = IF outcome = "accepted"
                       THEN last_weights
                       ELSE [last_weights EXCEPT ![m] = NoVector]
  /\ UNCHANGED <<round, saved, kills, owed>>

(* Re-assert one vector of the copy, outside the lock. *)
Beat(m, outcome) ==
  /\ m \in Present(pending)
  /\ SetWeights(m, pending[m], outcome)
  /\ pending' = [pending EXCEPT ![m] = NoVector]
  /\ UNCHANGED <<round, last_weights, saved, kills, owed>>

-----------------------------------------------------------------------------

(* The process is killed and started again: load_state. *)
Restart ==
  /\ kills < MaxKills
  /\ kills' = kills + 1
  /\ last_weights' = saved
  /\ pending' = Nothing
  /\ stage' = "measuring"
  /\ to_submit' = Nothing
  /\ landed' = Nothing
  /\ UNCHANGED <<chain, computed, saved, history>>

Init ==
  /\ mechanism_count \in {1, 2}
  /\ on_chain = Nothing
  /\ stale = TRUE
  /\ computed = 0
  /\ stage = "measuring"
  /\ to_submit = Nothing
  /\ landed = Nothing
  /\ last_weights = Nothing
  /\ pending = Nothing
  /\ saved = Nothing
  /\ kills = 0
  /\ accepted = [m \in Mechanisms |-> {}]
  /\ owed = {}

RoundThread == ComputeWeights \/ (\E o \in Outcomes : Submit(o)) \/ Remember \/ Save
HeartbeatThread == Wake \/ (\E m \in Mechanisms, o \in Outcomes : Beat(m, o))

Next == RoundThread \/ HeartbeatThread \/ Restart \/ RaiseMechanismCount \/ PassCutoff

Spec == Init /\ [][Next]_vars

(* The threads keep running once they have something to do (how long a     *)
(* round measures is not bounded, so ComputeWeights is not fair), and a    *)
(* mechanism the heartbeat keeps asking sometimes accepts.                 *)
Fairness ==
  /\ WF_vars(\E o \in Outcomes : Submit(o))
  /\ WF_vars(Remember)
  /\ WF_vars(Save)
  /\ WF_vars(HeartbeatThread)
  /\ \A m \in Mechanisms :
       SF_vars(m < mechanism_count /\ Beat(m, "accepted"))

FairSpec == Spec /\ Fairness

-----------------------------------------------------------------------------
(***************************************************************************)
(* Properties.                                                             *)
(***************************************************************************)

(* Type invariant. *)
TypeOK ==
  /\ mechanism_count \in {1, 2}
  /\ on_chain \in Vectors
  /\ stale \in BOOLEAN
  /\ computed \in 0..MaxRounds
  /\ stage \in Stages
  /\ to_submit \in Vectors
  /\ landed \in Vectors
  /\ last_weights \in Vectors
  /\ pending \in Vectors
  /\ saved \in Vectors
  /\ kills \in 0..MaxKills
  /\ accepted \in [Mechanisms -> SUBSET Vector]
  /\ owed \in SUBSET Lanes

(* "Only re-assert what the chain accepted": whatever the heartbeat may    *)
(* send, now or after a restart, the chain accepted on that mechanism.     *)
OnlyAcceptedIsReasserted ==
  \A v \in {last_weights, pending, saved} :
    \A m \in Present(v) : v[m] \in accepted[m]

(* "every scored miner earns", and "one mechanism failing does not prevent *)
(* the other": the chain is asked to pay every lane that has weights,      *)
(* whether or not it runs the lane's mechanism or refused another vector.  *)
NoLaneIsDropped ==
  stage = "submitting" =>
    owed \subseteq UNION {to_submit[m].lanes : m \in Present(to_submit)}

OlderThan(v, w) == v = NoVector \/ v.round < w.round

(* A vector is forgotten for an older one only by a kill that comes before *)
(* the save of the round that sent it.                                     *)
KillForgetsOnlyUnsaved ==
  [][\A m \in Present(last_weights) :
       OlderThan(last_weights'[m], last_weights[m]) => stage = "saving"]_vars

(* "A weight heartbeat": a validator the cutoff has overtaken updates its  *)
(* weights again, round or no round, once a round of it has been saved.    *)
StaysInConsensus == (stale /\ Present(saved) # {}) ~> ~stale

(* A vector the chain carries in place of the remembered one, whichever    *)
(* race or kill put it there, does not stay.                               *)
RememberedVectorReturns ==
  \A m \in Mechanisms :
    saved[m] # NoVector ~> on_chain[m] = last_weights[m]

(* "re-asserts the last commit every few hours": a heartbeat leaves the    *)
(* vectors on chain as they are.                                           *)
HeartbeatReassertsLastCommit ==
  [][HeartbeatThread => UNCHANGED on_chain]_vars

=============================================================================
