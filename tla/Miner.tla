------------------------------- MODULE Miner -------------------------------
(***************************************************************************)
(* The miner neuron (base/miner.py, miner/neuron.py) and the commitment    *)
(* slot of its hotkey on chain.  The neuron has no serving loop: it reads  *)
(* the slot back at intervals and commits the configured artifact when the *)
(* slot holds another.  What it committed last is cached, in memory and in *)
(* miner_state.json.                                                       *)
(*                                                                         *)
(* The neuron is not alone with its slot.  `cf-miner submit' and other     *)
(* tools write to it, and a reorg of the chain may take a commitment back. *)
(***************************************************************************)
EXTENDS Integers, FiniteSets

CONSTANTS
  Hotkeys,
  Digests,    \* artifacts a miner may commit
  Foreign,    \* payload of another tool, not an artifact commitment
  None,       \* no commitment
  MaxBlock,   \* bound on the blocks of the chain
  MaxMeddles  \* bound on what happens to the slots besides the neurons

ASSUME PayloadAssumption ==
  /\ Foreign \notin Digests
  /\ None \notin Digests \cup {Foreign}

ASSUME BlockAssumption == MaxBlock \in Nat /\ MaxMeddles \in Nat

VARIABLES
  block,       \* the chain's height
  slot,        \* hotkey -> the commitment on chain: payload and block
  stage,       \* hotkey -> where run() is: see MinerStages
  configured,  \* hotkey -> the digest of --artifact
  committed,   \* hotkey -> BaseMinerNeuron.committed, or None
  miner_file,  \* hotkey -> miner_state.json
  on_chain,    \* hotkey -> what current_commitment returned, until acted on
  meddled,     \* history: hotkeys whose slot others wrote to, or whose
               \* commitment was undone, unconfirmed or lost from the cache
  meddles      \* how often that was (bounded by MaxMeddles)

chain == <<block, slot>>
neuron == <<stage, configured, committed, miner_file, on_chain>>
mvars == <<chain, neuron, meddled, meddles>>

(* Not running; at the top of the loop; with the slot read; committed but  *)
(* not yet saved; asleep.                                                  *)
MinerStages == {"down", "sync", "read", "save", "sleep"}

Commitment == [payload : Digests \cup {Foreign, None}, block : Nat]

(* The artifact a payload stands for: another tool's is logged and taken   *)
(* for none.                                                               *)
Decoded(payload) == IF payload \in Digests THEN payload ELSE None

Live(h) == slot[h].payload = configured[h]

Put(h, payload) == slot' = [slot EXCEPT ![h] = [payload |-> payload, block |-> block]]

Goto(h, next) == stage' = [stage EXCEPT ![h] = next]

-----------------------------------------------------------------------------
(***************************************************************************)
(* The neuron.                                                             *)
(***************************************************************************)

(* The operator starts it, with the artifact of before or another;         *)
(* load_state restores the cache.                                          *)
Start(h) ==
  /\ stage[h] = "down"
  /\ Goto(h, "sync")
  /\ \E d \in Digests : configured' = [configured EXCEPT ![h] = d]
  /\ committed' = [committed EXCEPT ![h] = miner_file[h]]
  /\ UNCHANGED <<chain, miner_file, on_chain, meddled, meddles>>

(* sync, which ends by saving, and current_commitment; a read that fails   *)
(* returns no commitment.                                                  *)
ReadSlot(h, succeeds) ==
  /\ stage[h] = "sync"
  /\ Goto(h, "read")
  /\ on_chain' = [on_chain EXCEPT
                    ![h] = IF succeeds THEN Decoded(slot[h].payload) ELSE None]
  /\ miner_file' = [miner_file EXCEPT
                      ![h] = IF committed[h] = None THEN @ ELSE committed[h]]
  /\ UNCHANGED <<chain, configured, committed, meddled, meddles>>

(* The slot shows the configured artifact. *)
FindLive(h) ==
  /\ stage[h] = "read"
  /\ on_chain[h] = configured[h]
  /\ Goto(h, "sleep")
  /\ on_chain' = [on_chain EXCEPT ![h] = None]
  /\ UNCHANGED <<chain, configured, committed, miner_file, meddled, meddles>>

(* It does not, and commit() takes the cache's word that it is committed.  *)
AlreadyCommitted(h) ==
  /\ stage[h] = "read"
  /\ on_chain[h] # configured[h]
  /\ committed[h] = configured[h]
  /\ Goto(h, "sleep")
  /\ on_chain' = [on_chain EXCEPT ![h] = None]
  /\ UNCHANGED <<chain, configured, committed, miner_file, meddled, meddles>>

(* commit() is to publish the configured artifact. *)
Committing(h) ==
  /\ stage[h] = "read"
  /\ on_chain[h] # configured[h]
  /\ committed[h] # configured[h]
  /\ on_chain' = [on_chain EXCEPT ![h] = None]
  /\ UNCHANGED <<block, configured, miner_file>>

(* The chain confirms it. *)
CommitAccepted(h) ==
  /\ Committing(h)
  /\ Put(h, configured[h])
  /\ committed' = [committed EXCEPT ![h] = configured[h]]
  /\ Goto(h, "save")
  /\ UNCHANGED <<meddled, meddles>>

(* Seeded fault: the cache is written before the chain has answered. *)
CommitRejectedCached(h) ==
  /\ Committing(h)
  /\ committed' = [committed EXCEPT ![h] = configured[h]]
  /\ Goto(h, "sleep")
  /\ UNCHANGED <<slot, meddled, meddles>>

(* The chain refuses it, or it is not sent. *)
CommitRejected(h) ==
  /\ Committing(h)
  /\ Goto(h, "sleep")
  /\ UNCHANGED <<slot, committed, meddled, meddles>>

(* It lands and the confirmation is lost. *)
CommitUnconfirmed(h) ==
  /\ Committing(h)
  /\ meddles < MaxMeddles
  /\ Put(h, configured[h])
  /\ Goto(h, "sleep")
  /\ meddled' = meddled \cup {h}
  /\ meddles' = meddles + 1
  /\ UNCHANGED committed

(* commit() ends with save_state. *)
SaveCommitted(h) ==
  /\ stage[h] = "save"
  /\ miner_file' = [miner_file EXCEPT ![h] = committed[h]]
  /\ Goto(h, "sleep")
  /\ UNCHANGED <<chain, configured, committed, on_chain, meddled, meddles>>

Wake(h) ==
  /\ stage[h] = "sleep"
  /\ Goto(h, "sync")
  /\ UNCHANGED <<chain, configured, committed, miner_file, on_chain, meddled, meddles>>

(* The process ends: killed, stopped, or by an exception of sync.  The     *)
(* cache outlives it as far as it was saved.                               *)
Stop(h) ==
  /\ stage[h] # "down"
  /\ meddles < MaxMeddles
  /\ Goto(h, "down")
  /\ meddled' = meddled \cup (IF stage[h] = "save" THEN {h} ELSE {})
  /\ meddles' = meddles + 1
  /\ committed' = [committed EXCEPT ![h] = None]
  /\ on_chain' = [on_chain EXCEPT ![h] = None]
  /\ UNCHANGED <<chain, configured, miner_file>>

-----------------------------------------------------------------------------
(***************************************************************************)
(* The chain and the other writers of a slot.                              *)
(***************************************************************************)

NewBlock ==
  /\ block < MaxBlock
  /\ block' = block + 1
  /\ UNCHANGED <<slot, neuron, meddled, meddles>>

(* `cf-miner submit' with another artifact, another tool, or a reorg that  *)
(* takes the commitment back.                                              *)
Meddle(h) ==
  /\ meddles < MaxMeddles
  /\ \E payload \in Digests \cup {Foreign, None} :
       /\ payload # slot[h].payload
       /\ Put(h, payload)
  /\ meddled' = meddled \cup {h}
  /\ meddles' = meddles + 1
  /\ UNCHANGED <<block, neuron>>

MinerInit ==
  /\ block = 0
  /\ slot = [h \in Hotkeys |-> [payload |-> None, block |-> 0]]
  /\ stage = [h \in Hotkeys |-> "down"]
  /\ configured \in [Hotkeys -> Digests]
  /\ committed = [h \in Hotkeys |-> None]
  /\ miner_file = [h \in Hotkeys |-> None]
  /\ on_chain = [h \in Hotkeys |-> None]
  /\ meddled = {}
  /\ meddles = 0

(* What run() does by itself. *)
Run(h) == ReadSlot(h, FALSE) \/ FindLive(h) \/ AlreadyCommitted(h)
          \/ CommitRejected(h) \/ SaveCommitted(h) \/ Wake(h) \/ Start(h)

MinerNext ==
  \/ NewBlock
  \/ \E h \in Hotkeys :
       \/ Run(h) \/ ReadSlot(h, TRUE) \/ CommitAccepted(h)
       \/ CommitUnconfirmed(h) \/ Stop(h) \/ Meddle(h)

(* The loop goes on, the operator restarts a neuron that stopped, and of   *)
(* reads and commits tried again and again some succeed.                   *)
MinerFairness ==
  \A h \in Hotkeys : /\ WF_mvars(Run(h))
                     /\ SF_mvars(ReadSlot(h, TRUE))
                     /\ SF_mvars(CommitAccepted(h))

MinerSpec == MinerInit /\ [][MinerNext]_mvars /\ MinerFairness

-----------------------------------------------------------------------------
(***************************************************************************)
(* Properties.                                                             *)
(***************************************************************************)

(* Type invariant of the neurons and their slots. *)
MinerTypeOK ==
  /\ block \in Nat
  /\ slot \in [Hotkeys -> Commitment]
  /\ stage \in [Hotkeys -> MinerStages]
  /\ configured \in [Hotkeys -> Digests]
  /\ committed \in [Hotkeys -> Digests \cup {None}]
  /\ miner_file \in [Hotkeys -> Digests \cup {None}]
  /\ on_chain \in [Hotkeys -> Digests \cup {None}]
  /\ meddled \subseteq Hotkeys
  /\ meddles \in Nat

(* The cache is the chain's word: what the neuron remembers to have        *)
(* committed is on chain, and what miner_state.json would have it believe  *)
(* after a restart is too, but between a commitment and its save.  Only a  *)
(* slot others meddled with can make a liar of it.                         *)
CacheTellsTheTruth ==
  \A h \in Hotkeys \ meddled :
    /\ committed[h] # None => slot[h].payload = committed[h]
    /\ miner_file[h] # None /\ stage[h] # "save" => slot[h].payload = miner_file[h]

(* Refusals, failed reads and kills do not keep an artifact off the chain: *)
(* as long as nobody else touches the slot, no confirmation is lost and no *)
(* kill comes before a commitment is saved, the configured artifact is on  *)
(* chain again and again.                                                  *)
ArtifactGoesLive == \A h \in Hotkeys : []<>(Live(h) \/ h \in meddled)

(* "Commit the configured artifact and keep the commitment alive": whatever *)
(* happens to the slot, for a while.                                       *)
CommitmentIsKeptAlive == \A h \in Hotkeys : []<>Live(h)

=============================================================================
