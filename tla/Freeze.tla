------------------------------- MODULE Freeze -------------------------------
(***************************************************************************)
(* A validator freezes the artifacts of a round (validator/forward.py,     *)
(* chain/access.py) while miners go on committing: it reads the chain,     *)
(* waits Lead blocks, and takes the hash of that later block as the        *)
(* entropy that selects the tasks.                                         *)
(*                                                                         *)
(* The frozen set may come from one read of the chain or from three at     *)
(* different blocks, depending on what the SDK returns: the neuron table   *)
(* (the metagraph), the commitments, and the block number.  A failed read  *)
(* of the commitments is answered with the last good set.                  *)
(*                                                                         *)
(* When the candidates have been produced, the hidden inputs of the task   *)
(* are prepared (validator/round.py): from the sealed corpus of its        *)
(* package once the timelock is open, else by the generator, which is      *)
(* seeded with the entropy of the round.                                   *)
(***************************************************************************)
EXTENDS Miner

CONSTANTS
  Lead,        \* --neuron.freeze_lead_blocks
  ReadBlocks,  \* blocks that pass at most between metagraph and commitments
  MaxRounds,   \* bound on the rounds begun
  Reveals,     \* blocks the timelock of the sealed corpus may open at
  Nobody       \* no read kept

(* Entropy is only as late as the read is quick. *)
ASSUME LeadAssumption ==
  /\ Lead \in Nat /\ ReadBlocks \in Nat
  /\ ReadBlocks <= Lead
  /\ MaxRounds \in Nat
  /\ Reveals \subseteq Nat

VARIABLES
  step,          \* where forward is: see RoundSteps
  rounds,        \* rounds begun
  raw,           \* the metagraph read: its block, and which hotkeys have a uid
  commitments,   \* the commitments that go with it, then those frozen
  cache,         \* ChainAccess._commitments_cache, or Nobody
  freeze_block,  \* MetagraphSnapshot.block
  reveal,        \* block at which the sealed corpus can be opened, by anyone
  inputs         \* where the hidden inputs come from: see InputSources

validator == <<step, rounds, raw, commitments, cache, freeze_block, reveal, inputs>>
fvars == <<mvars, validator>>

ASSUME NobodyAssumption == Nobody \notin [Hotkeys -> Commitment]

(* Between rounds; the metagraph is read; the commitments are; the block   *)
(* number is; waiting for the task-selecting block; its hash is drawn; the *)
(* hidden inputs are prepared.                                             *)
RoundSteps == {"idle", "metagraph", "commitments", "waiting", "drawn", "prepared"}

(* None yet; the sealed corpus; the generator; neither, and the task is    *)
(* voided.                                                                 *)
InputSources == {"none", "sealed", "generated", "voided"}

(* Seeded fault: the tasks are drawn from the block of the freeze. *)
select_at_freeze == freeze_block

select_block == freeze_block + Lead

(* freeze_artifacts: what parses, of hotkeys with a uid. *)
Frozen == [h \in {g \in raw.uids : Decoded(commitments[g].payload) # None}
             |-> commitments[h]]

-----------------------------------------------------------------------------

Unread == [uids |-> {}, block |-> 0, dated |-> FALSE]
Empty == [h \in {} |-> slot[h]]

(* ChainAccess.metagraph, first read: the neuron table, with its block if  *)
(* the SDK gives one (`dated'), and the commitments if it carries them and *)
(* there are any.                                                          *)
ReadMetagraph(carried, dated) ==
  /\ step = "idle"
  /\ rounds < MaxRounds
  /\ rounds' = rounds + 1
  /\ \E uids \in SUBSET Hotkeys :
       raw' = [uids |-> uids, block |-> block, dated |-> dated]
  /\ IF carried /\ \E h \in Hotkeys : slot[h].payload # None
       THEN step' = "commitments" /\ commitments' = slot
       ELSE step' = "metagraph" /\ UNCHANGED commitments
  /\ UNCHANGED <<mvars, cache, freeze_block, reveal, inputs>>

(* Second read: ChainAccess.commitments. *)
ReadCommitments ==
  /\ step = "metagraph"
  /\ step' = "commitments"
  /\ commitments' = slot
  /\ cache' = slot
  /\ UNCHANGED <<mvars, rounds, raw, freeze_block, reveal, inputs>>

(* It fails, and the last good set is served, however old. *)
ServeCache ==
  /\ step = "metagraph"
  /\ cache # Nobody
  /\ step' = "commitments"
  /\ commitments' = cache
  /\ UNCHANGED <<mvars, rounds, raw, cache, freeze_block, reveal, inputs>>

(* The block of the snapshot, by a third read if the first did not give    *)
(* it; then freeze_artifacts.                                              *)
FreezeArtifacts ==
  /\ step = "commitments"
  /\ step' = "waiting"
  /\ freeze_block' = IF raw.dated THEN raw.block ELSE block
  /\ commitments' = Frozen
  /\ raw' = Unread
  /\ UNCHANGED <<mvars, rounds, cache, reveal, inputs>>

(* wait_for_block is through, and block_hash draws the entropy, which it   *)
(* refuses for a block not yet produced.                                   *)
DrawEntropy ==
  /\ step = "waiting"
  /\ commitments # Empty
  /\ block >= select_block
  /\ step' = "drawn"
  /\ UNCHANGED <<mvars, rounds, raw, commitments, cache, freeze_block, reveal, inputs>>

(* _open_sealed_cases, once every patch is produced, and _prepare_cases:   *)
(* a seal that opens takes precedence, and the generator steps in for one  *)
(* that is not open yet or cannot be opened.                               *)
PrepareCases(opens, generates) ==
  /\ step = "drawn"
  /\ opens => block >= reveal
  /\ step' = "prepared"
  /\ inputs' = CASE opens -> "sealed"
                 [] ~opens /\ generates -> "generated"
                 [] OTHER -> "voided"
  /\ UNCHANGED <<mvars, rounds, raw, commitments, cache, freeze_block, reveal>>

(* The round is over: it is evaluated, there were no artifacts, or a read  *)
(* of the chain failed for good (RoundAborted, or the ChainError of        *)
(* wait_for_block).                                                        *)
EndRound ==
  /\ step # "idle"
  /\ step' = "idle"
  /\ raw' = Unread
  /\ commitments' = Empty
  /\ freeze_block' = 0
  /\ inputs' = "none"
  /\ UNCHANGED <<mvars, rounds, cache, reveal>>

(* sync, between rounds, re-reads the metagraph and with it the            *)
(* commitments.                                                            *)
ResyncMetagraph ==
  /\ step = "idle"
  /\ cache' = slot
  /\ UNCHANGED <<mvars, step, rounds, raw, commitments, freeze_block, reveal, inputs>>

(* The validator is restarted: the cache is not kept. *)
ForgetCache ==
  /\ step = "idle"
  /\ cache # Nobody
  /\ cache' = Nobody
  /\ UNCHANGED <<mvars, step, rounds, raw, commitments, freeze_block, reveal, inputs>>

(* The chain and the miners go on; between the first two reads no more     *)
(* than ReadBlocks blocks.                                                 *)
Elsewhere ==
  /\ MinerNext
  /\ step = "metagraph" => block' <= raw.block + ReadBlocks
  /\ UNCHANGED validator

FreezeInit ==
  /\ MinerInit
  /\ step = "idle"
  /\ rounds = 0
  /\ raw = Unread
  /\ commitments = Empty
  /\ cache = Nobody
  /\ freeze_block = 0
  /\ reveal \in Reveals
  /\ inputs = "none"

FreezeNext ==
  \/ Elsewhere
  \/ \E carried, dated \in BOOLEAN : ReadMetagraph(carried, dated)
  \/ \E opens, generates \in BOOLEAN : PrepareCases(opens, generates)
  \/ ReadCommitments \/ ServeCache \/ FreezeArtifacts
  \/ DrawEntropy \/ EndRound \/ ResyncMetagraph \/ ForgetCache

FreezeSpec == FreezeInit /\ [][FreezeNext]_fvars /\ MinerFairness

-----------------------------------------------------------------------------
(***************************************************************************)
(* Properties.                                                             *)
(***************************************************************************)

(* Type invariant of the freeze. *)
FreezeTypeOK ==
  /\ MinerTypeOK
  /\ step \in RoundSteps
  /\ rounds \in Nat
  /\ raw \in [uids : SUBSET Hotkeys, block : Nat, dated : BOOLEAN]
  /\ step = "commitments" => DOMAIN commitments = Hotkeys
  /\ DOMAIN commitments \subseteq Hotkeys
  /\ commitments \in [DOMAIN commitments -> Commitment]
  /\ cache \in [Hotkeys -> Commitment] \cup {Nobody}
  /\ freeze_block \in Nat
  /\ reveal \in Reveals
  /\ inputs \in InputSources

(* No miner can have chosen its artifact knowing the tasks: every frozen   *)
(* commitment is on chain no later than the block whose hash selects them, *)
(* from however many reads, at whatever blocks, and from however old a     *)
(* cache the set was put together.  The hash is drawn once that block      *)
(* exists.                                                                 *)
EntropyPostdatesFreeze ==
  step \in {"waiting", "drawn", "prepared"} =>
    /\ \A h \in DOMAIN commitments : commitments[h].block <= select_block
    /\ step # "waiting" => select_block <= block

(* "They did not exist when you froze your artifact": no hidden input could *)
(* be read by anyone when a frozen artifact was committed.  A seal that has *)
(* opened goes on supplying the inputs of every round after it.             *)
HiddenInputsAreNew ==
  inputs = "sealed" => \A h \in DOMAIN commitments : commitments[h].block <= reveal

=============================================================================
