--------------------------- MODULE RoundLifecycle ---------------------------
(***************************************************************************)
(* A round of the validator from its number to its audit bundle            *)
(* (validator/forward.py), with the bundle's files on disk                 *)
(* (chain/audit.py) beside the state file of ValidatorState, and a kill of *)
(* the process between any two steps.                                      *)
(*                                                                         *)
(* The round number is the validator's own: it counts the rounds begun,    *)
(* aborted ones included, where the registry's counts those evaluated.  It *)
(* names the bundle's directory and its entry in the index.                *)
(***************************************************************************)
EXTENDS ValidatorState, FiniteSets

CONSTANTS
  Mechanisms,   \* the mechanisms vectors are submitted to
  MaxAttempts,  \* bound on the rounds begun
  MaxMishaps    \* bound on kills, failed reads of the block and failed writes

ASSUME LifecycleAssumption ==
  MaxAttempts \in Nat /\ MaxMishaps \in Nat /\ Torn \notin Nat

VARIABLES
  number,        \* BaseValidatorNeuron.round_number
  step,          \* where forward is: see Steps
  last_weights,  \* mechanism -> the round whose vector last_weights holds
  state_rest,    \* the rest of state.json: number and last_weights
  tmp_rest,      \* and of state.json.tmp
  dirs,          \* round number -> what the files of its directory come from
  index,         \* round number -> the round its entry in index.json shows
  attempt,       \* history: rounds begun so far; names the round in progress
  landed,        \* history: rounds of whose vectors the chain took some
  confirmed,     \* history: mechanism -> rounds whose vector it accepted,
                 \*   and set_weights said so
  mishaps        \* history: kills, failed reads of the block, failed writes

audit == <<dirs, index>>
rest == <<state_rest, tmp_rest>>
history == <<attempt, landed, confirmed, mishaps>>
lvars == <<svars, number, step, last_weights, rest, audit, history>>

(* Out of forward; up to the crown; setting weights; reading the block;    *)
(* before round.json and inside its write; the same of BUNDLE_HASH; and    *)
(* the index.                                                              *)
Steps == {"out", "round", "weights", "block",
          "bundle", "json", "patches", "hash", "index"}

(* Rounds are named by the order they were begun in; 0 is none. *)
Rounds == 0..MaxAttempts

(* The rounds that the vectors of the mechanisms are from. *)
Vectors == [Mechanisms -> Rounds]
NoVectors == [m \in Mechanisms |-> 0]

Rest == [number : Rounds, last_weights : Vectors]
NoRest == [number |-> 0, last_weights |-> NoVectors]

(* A directory: the rounds that round.json and BUNDLE_HASH are from, or    *)
(* that their write was cut short; and the vectors round.json shows.       *)
Dir == [json : Rounds \cup {Torn}, hash : Rounds \cup {Torn}, weights : Vectors]
NoDir == [json |-> 0, hash |-> 0, weights |-> NoVectors]

the_rest == [number |-> number, last_weights |-> last_weights]

Mishap == /\ mishaps < MaxMishaps
          /\ mishaps' = mishaps + 1

-----------------------------------------------------------------------------
(***************************************************************************)
(* forward.                                                                *)
(***************************************************************************)

(* self.round_number += 1 *)
BeginRound ==
  /\ due = "forward" /\ step = "out"
  /\ attempt < MaxAttempts
  /\ attempt' = attempt + 1
  /\ number' = number + 1
  /\ step' = "round"
  /\ UNCHANGED <<svars, last_weights, rest, audit, landed, confirmed, mishaps>>

(* No corpus, no metagraph, no entropy, no plan; or no artifacts; or sync  *)
(* raised.  The round has no bundle.                                       *)
LeaveEarly ==
  /\ AbortRound
  /\ due = "sync" \/ step = "round"
  /\ step' = "out"
  /\ UNCHANGED <<number, last_weights, rest, audit, history>>

(* Production, verification and the crown. *)
ReachCrown ==
  /\ step = "round"
  /\ ScoreRound
  /\ step' = "weights"
  /\ UNCHANGED <<number, last_weights, rest, audit, history>>

(* What the chain makes of the vectors of this round: `took' are the       *)
(* mechanisms whose vector it took, `confirms' those it said so of.        *)
Submitted(took, confirms) ==
  /\ step = "weights"
  /\ step' = "block"
  /\ landed' = IF took = {} THEN landed ELSE landed \cup {attempt}
  /\ confirmed' = [m \in Mechanisms |-> IF m \in confirms
                                          THEN confirmed[m] \cup {attempt}
                                          ELSE confirmed[m]]
  /\ UNCHANGED <<svars, number, rest, audit, attempt, mishaps>>

(* Seeded fault: the vectors of all mechanisms are remembered when one was *)
(* accepted.                                                               *)
SubmitWeightsRemembering(took, confirms) ==
  /\ Submitted(took, confirms)
  /\ last_weights' = IF confirms = {} THEN last_weights
                                      ELSE [m \in Mechanisms |-> attempt]

(* submit_round_weights, mechanism by mechanism: a vector is accepted and  *)
(* remembered; or refused, or there is none; or the chain takes it and     *)
(* set_weights raises all the same, so that it is not remembered.  (What   *)
(* was accepted is remembered after the loop: an exception that leaves the *)
(* loop, or a kill inside it, is this step with no vector confirmed,       *)
(* followed by LeaveLate or a kill.)                                       *)
SubmitWeights(took, confirms) ==
  /\ Submitted(took, confirms)
  /\ last_weights' = [m \in Mechanisms |-> IF m \in confirms THEN attempt
                                                             ELSE last_weights[m]]

(* self.last_weight_block = self.block, which reads the chain, ... *)
ReadBlock ==
  /\ step = "block"
  /\ step' = "bundle"
  /\ UNCHANGED <<svars, number, last_weights, rest, audit, history>>

(* Seeded fault: the index is updated before the bundle is written. *)
OpenBundleIndexed ==
  /\ step = "bundle"
  /\ step' = "json"
  /\ dirs' = [dirs EXCEPT ![number].json = Torn]
  /\ index' = [index EXCEPT ![number] = attempt]
  /\ UNCHANGED <<svars, number, last_weights, rest, history>>

(* RoundBundle.write: write_text truncates round.json, ...                 *)
OpenBundle ==
  /\ step = "bundle"
  /\ step' = "json"
  /\ dirs' = [dirs EXCEPT ![number].json = Torn]
  /\ UNCHANGED <<svars, number, last_weights, rest, index, history>>

(* ... and writes it. *)
WriteBundle ==
  /\ step = "json"
  /\ step' = "patches"
  /\ dirs' = [dirs EXCEPT ![number].json = attempt, ![number].weights = last_weights]
  /\ UNCHANGED <<svars, number, last_weights, rest, index, history>>

(* After the patches, it truncates BUNDLE_HASH, ... *)
OpenHash ==
  /\ step = "patches"
  /\ step' = "hash"
  /\ dirs' = [dirs EXCEPT ![number].hash = Torn]
  /\ UNCHANGED <<svars, number, last_weights, rest, index, history>>

(* ... and writes it; publish adds VERIFY.md. *)
WriteHash ==
  /\ step = "hash"
  /\ step' = "index"
  /\ dirs' = [dirs EXCEPT ![number].hash = attempt]
  /\ UNCHANGED <<svars, number, last_weights, rest, index, history>>

(* Seeded fault: the entries of other rounds are not read back. *)
UpdateIndexAlone ==
  /\ step = "index"
  /\ step' = "out"
  /\ index' = [n \in DOMAIN index |-> IF n = number THEN attempt ELSE 0]
  /\ UNCHANGED <<svars, number, last_weights, rest, dirs, history>>

(* _update_index: the entry of this number is replaced.  The index is      *)
(* written to a file of its own that is renamed, so never torn.            *)
UpdateIndex ==
  /\ step = "index"
  /\ step' = "out"
  /\ index' = [index EXCEPT ![number] = attempt]
  /\ UNCHANGED <<svars, number, last_weights, rest, dirs, history>>

(* An exception, of that read or of a write, leaves forward. *)
LeaveLate ==
  /\ step \in {"block", "bundle", "json", "patches", "hash", "index"}
  /\ Mishap
  /\ step' = "out"
  /\ UNCHANGED <<svars, number, last_weights, rest, audit, attempt, landed, confirmed>>

-----------------------------------------------------------------------------
(***************************************************************************)
(* The state file, with the rest of its payload, and kills.                *)
(***************************************************************************)

SaveState ==
  /\ step = "out"
  /\ \/ BeginWrite /\ UNCHANGED rest
     \/ EndWrite /\ tmp_rest' = the_rest /\ UNCHANGED state_rest
     \/ Replace /\ state_rest' = tmp_rest /\ tmp_rest' = NoRest
  /\ UNCHANGED <<number, step, last_weights, audit, history>>

(* The process is killed and started again. *)
KillAndRestart ==
  /\ Restart
  /\ Mishap
  /\ step' = "out"
  /\ number' = state_rest.number
  /\ last_weights' = state_rest.last_weights
  /\ tmp_rest' = NoRest
  /\ UNCHANGED <<state_rest, audit, attempt, landed, confirmed>>

LInit ==
  /\ SInit
  /\ number = 0
  /\ step = "out"
  /\ last_weights = NoVectors
  /\ state_rest = NoRest
  /\ tmp_rest = NoRest
  /\ dirs = [n \in 1..MaxAttempts |-> NoDir]
  /\ index = [n \in 1..MaxAttempts |-> 0]
  /\ attempt = 0
  /\ landed = {}
  /\ confirmed = [m \in Mechanisms |-> {}]
  /\ mishaps = 0

Forward ==
  \/ BeginRound \/ LeaveEarly \/ ReachCrown
  \/ \E took \in SUBSET Mechanisms : \E confirms \in SUBSET took :
       SubmitWeights(took, confirms)
  \/ ReadBlock \/ OpenBundle \/ WriteBundle \/ OpenHash \/ WriteHash
  \/ UpdateIndex \/ LeaveLate

LNext == Forward \/ SaveState \/ KillAndRestart

LSpec == LInit /\ [][LNext]_lvars

-----------------------------------------------------------------------------
(***************************************************************************)
(* Properties.                                                             *)
(***************************************************************************)

(* Type invariant of the round and of the audit repository. *)
LTypeOK ==
  /\ number \in Rounds
  /\ step \in Steps
  /\ last_weights \in Vectors
  /\ state_rest \in Rest /\ tmp_rest \in Rest
  /\ dirs \in [1..MaxAttempts -> Dir]
  /\ index \in [1..MaxAttempts -> Rounds]
  /\ attempt \in Rounds
  /\ landed \subseteq 1..attempt
  /\ confirmed \in [Mechanisms -> SUBSET landed]
  /\ mishaps \in Nat

(* The bundle of a round is in place: files and index entry are all its.   *)
Published(a) ==
  \E n \in 1..MaxAttempts :
    dirs[n].json = a /\ dirs[n].hash = a /\ index[n] = a

(* Rounds that moved the chain's weights and are over. *)
Effective == landed \ (IF step = "out" THEN {} ELSE {attempt})

(* Every round that moved weights, whether or not the validator was told,  *)
(* can be audited, but for one a mishap: a kill, a read of the block that  *)
(* fails, or a write that fails, with or without a file cut short.  A kill *)
(* before the save also gives the number of a published round to the next, *)
(* which overwrites it; still only one is lost.                            *)
AuditMissesOnlyMishaps ==
  Cardinality({a \in Effective : ~Published(a)}) <= mishaps

(* An index entry never runs ahead of its directory: a file there that is  *)
(* whole is from the round of the entry or a later one.  And entries that  *)
(* do not lead to the whole bundle of their round, because a file is torn, *)
(* or from a round that was given the number again, are one a mishap.      *)
IndexLeadsToBundles ==
  LET indexed == {n \in 1..MaxAttempts : index[n] # 0}
  IN  /\ \A n \in indexed :
           /\ dirs[n].json # Torn => dirs[n].json >= index[n]
           /\ dirs[n].hash # Torn => dirs[n].hash >= index[n]
      /\ Cardinality({n \in indexed : ~Published(index[n])}) <= mishaps

(* The rounds in 1..upto whose vector mechanism m accepted after the one   *)
(* that `vectors' holds of it.                                             *)
Forgotten(vectors, m, upto) == {a \in confirmed[m] : vectors[m] < a /\ a <= upto}

(* The weights a whole round.json shows, mechanism by mechanism: a vector  *)
(* the mechanism accepted, of an earlier round if it did not accept this   *)
(* round's, and the newest it accepted up to then but for one a mishap (a  *)
(* kill before the save).  It need not be the one on chain: a vector taken *)
(* without a word is not shown.                                            *)
BundleShowsAcceptedWeights ==
  \A n \in 1..MaxAttempts, m \in Mechanisms :
    dirs[n].json # Torn =>
      LET own == dirs[n].json
          shown == dirs[n].weights[m]
      IN  /\ shown \in confirmed[m] \cup {0}
          /\ shown <= own
          /\ own \in confirmed[m] => shown = own
          /\ Cardinality(Forgotten(dirs[n].weights, m, own)) <= mishaps

=============================================================================
