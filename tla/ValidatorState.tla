--------------------------- MODULE ValidatorState ---------------------------
(***************************************************************************)
(* The durable half of the crown: BaseValidatorNeuron.save_state and       *)
(* load_state (base/validator.py) around the rounds of the registry, as    *)
(* ValidatorNeuron.run (validator/neuron.py) drives them.  The process may *)
(* be killed between any two of these steps and started again.             *)
(*                                                                         *)
(* save_state writes state.json.tmp and renames it over state.json; the    *)
(* registry's streaks are not in the payload.                              *)
(***************************************************************************)
EXTENDS Dethronement

CONSTANTS
  Absent,  \* no such file
  Torn     \* a file whose write was cut short

VARIABLES
  due,         \* where run() is: see Stages
  write,       \* how far save_state is: see Writes
  state_file,  \* state.json
  tmp_file     \* state.json.tmp

disk == <<state_file, tmp_file>>
svars == <<vars, due, write, disk>>

(* An iteration of run(): sync, which ends by saving; forward; and the      *)
(* save of the `finally' clause.                                           *)
Stages == {"sync", "forward", "save"}

(* save_state: not begun, inside tmp.write_text, after it. *)
Writes == {"none", "open", "done"}

Payload == [champion : Champion \cup {NoChampion}, round_number : Nat]

ASSUME FileAssumption ==
  /\ Absent \notin Payload
  /\ Torn \notin Payload
  /\ Absent # Torn

(* The crown as the payload of save_state holds it. *)
payload == [champion |-> champion, round_number |-> round_number]

-----------------------------------------------------------------------------

(* Seeded fault: the next round starts before the crown is saved. *)
ScoreRoundUnsaved ==
  /\ due = "forward"
  /\ \E aggs \in Aggregates, noisy \in BOOLEAN : evaluate(aggs, noisy)
  /\ UNCHANGED <<due, write, disk>>

(* forward reaches ChampionRegistry.evaluate. *)
ScoreRound ==
  /\ due = "forward"
  /\ \E aggs \in Aggregates, noisy \in BOOLEAN : evaluate(aggs, noisy)
  /\ due' = "save"
  /\ UNCHANGED <<write, disk>>

(* sync raises, in its save or before it; or forward raises or returns     *)
(* before it reaches the registry.                                         *)
AbortRound ==
  /\ due \in {"sync", "forward"}
  /\ due' = "save"
  /\ write' = "none"
  /\ UNCHANGED <<vars, disk>>

(* Seeded fault: state.json is written in place. *)
BeginWriteInPlace ==
  /\ due \in {"sync", "save"}
  /\ write = "none"
  /\ write' = "open"
  /\ state_file' = Torn
  /\ UNCHANGED <<vars, due, tmp_file>>

(* tmp.write_text(...) begins: the file is truncated. *)
BeginWrite ==
  /\ due \in {"sync", "save"}
  /\ write = "none"
  /\ write' = "open"
  /\ tmp_file' = Torn
  /\ UNCHANGED <<vars, due, state_file>>

(* ... and ends. *)
EndWrite ==
  /\ write = "open"
  /\ write' = "done"
  /\ tmp_file' = payload
  /\ UNCHANGED <<vars, due, state_file>>

(* tmp.replace(self.state_path) *)
Replace ==
  /\ write = "done"
  /\ write' = "none"
  /\ due' = IF due = "sync" THEN "forward" ELSE "sync"
  /\ state_file' = tmp_file
  /\ tmp_file' = Absent
  /\ UNCHANGED vars

(* Seeded fault: only the round number is restored. *)
RestartUncrowned ==
  /\ state_file # Torn
  /\ due' = "sync"
  /\ write' = "none"
  /\ champion' = NoChampion
  /\ round_number' = IF state_file = Absent THEN 0 ELSE state_file.round_number
  /\ sustained' = [a \in Artifacts |-> 0]
  /\ Unchallenged(FALSE)
  /\ earned' = NothingEarned
  /\ UNCHANGED disk

(* The process is killed and started again: load_state restores the crown  *)
(* from state.json, an empty registry if there is none, and refuses to     *)
(* start on a file it cannot read.  Streaks start again from nothing, and  *)
(* with them the history variables.                                        *)
Restart ==
  /\ state_file # Torn
  /\ due' = "sync"
  /\ write' = "none"
  /\ LET restored == IF state_file = Absent
                       THEN [champion |-> NoChampion, round_number |-> 0]
                       ELSE state_file
     IN  /\ champion' = restored.champion
         /\ round_number' = restored.round_number
  /\ sustained' = [a \in Artifacts |-> 0]
  /\ Unchallenged(FALSE)
  /\ earned' = NothingEarned
  /\ UNCHANGED disk

SInit ==
  /\ Init
  /\ due = "sync"
  /\ write = "none"
  /\ state_file = Absent
  /\ tmp_file = Absent

SNext == ScoreRound \/ AbortRound \/ BeginWrite \/ EndWrite \/ Replace \/ Restart

SSpec == SInit /\ [][SNext]_svars

-----------------------------------------------------------------------------
(***************************************************************************)
(* Properties.                                                             *)
(***************************************************************************)

(* Type invariant of the validator's durable state. *)
STypeOK ==
  /\ TypeOK
  /\ due \in Stages
  /\ write \in Writes
  /\ state_file \in Payload \cup {Absent, Torn}
  /\ tmp_file \in Payload \cup {Absent, Torn}

(* "A corrupt validator state file is fatal": no kill of the process, at   *)
(* any step of save_state, leaves one behind.                              *)
StateFileReadable == state_file # Torn

(* The rounds the disk knows of. *)
SavedRounds == IF state_file = Absent THEN 0 ELSE state_file.round_number

(* A kill forgets at most the round it interrupts. *)
CrashForgetsOneRound ==
  StateFileReadable => /\ SavedRounds <= round_number
                       /\ round_number <= SavedRounds + 1

(* The champion on disk is replaced by another artifact in this step. *)
DurableHandover ==
  /\ state_file \in Payload /\ state_file' \in Payload
  /\ state_file.champion # NoChampion
  /\ \/ state_file'.champion = NoChampion
     \/ state_file'.champion.artifact_digest # state_file.champion.artifact_digest

(* The defender advantage survives kills and restarts: on disk too, a      *)
(* reign gives way to another artifact's, never to an empty registry, and  *)
(* not before the warm-up has passed.                                      *)
DurableReignLastsWarmup ==
  [][DurableHandover =>
       /\ state_file'.champion # NoChampion
       /\ state_file'.champion.crowned_round
            >= state_file.champion.crowned_round + Warmup]_svars

=============================================================================
