---------------------------- MODULE FreezeProofs ----------------------------
(***************************************************************************)
(* Proofs about the freeze, for any number of miners, any lead and any     *)
(* delay between the reads that the lead covers.                           *)
(*                                                                         *)
(* That entropy postdates the frozen commitments is not inductive: it      *)
(* needs where each part of the snapshot comes from.  What is in a slot or *)
(* in the cache was written at a block that exists (SlotsArePast,          *)
(* CacheIsPast), and the commitments of a snapshot are read within         *)
(* ReadBlocks of the metagraph (SnapshotIsTight).                          *)
(***************************************************************************)
EXTENDS Freeze, TLAPS

SlotsArePast == \A h \in Hotkeys : slot[h].block <= block

CacheIsPast == cache # Nobody => \A h \in Hotkeys : cache[h].block <= block

SnapshotIsTight ==
  /\ step \in {"metagraph", "commitments"} => raw.block <= block
  /\ step = "metagraph" => block <= raw.block + ReadBlocks
  /\ step = "commitments" =>
       \A h \in Hotkeys : commitments[h].block <= raw.block + ReadBlocks

FInv ==
  /\ FreezeTypeOK
  /\ SlotsArePast
  /\ CacheIsPast
  /\ SnapshotIsTight
  /\ EntropyPostdatesFreeze

-----------------------------------------------------------------------------
(***************************************************************************)
(* The miners.                                                             *)
(***************************************************************************)

(* What the chain and the neurons do to the chain. *)
ChainGrows ==
  /\ MinerTypeOK'
  /\ SlotsArePast'
  /\ block <= block'

LEMMA PutKeeps ==
  ASSUME MinerTypeOK, SlotsArePast, NEW h \in Hotkeys,
         NEW payload \in Digests \cup {Foreign, None},
         Put(h, payload), UNCHANGED block
  PROVE  /\ slot' \in [Hotkeys -> Commitment]
         /\ SlotsArePast'
<1>1. [payload |-> payload, block |-> block] \in Commitment
  BY DEF MinerTypeOK, Commitment
<1>2. slot' \in [Hotkeys -> Commitment]
  BY <1>1 DEF MinerTypeOK, Put
<1>3. SlotsArePast'
  <2> SUFFICES ASSUME NEW g \in Hotkeys PROVE slot'[g].block <= block
    BY DEF SlotsArePast
  <2>1. CASE g = h
    BY <2>1 DEF MinerTypeOK, Put
  <2>2. CASE g # h
    BY <2>2 DEF MinerTypeOK, Put, SlotsArePast
  <2> QED
    BY <2>1, <2>2
<1> QED
  BY <1>2, <1>3

LEMMA DecodedIsArtifact ==
  ASSUME NEW payload PROVE Decoded(payload) \in Digests \cup {None}
  BY DEF Decoded

LEMMA NeuronKeeps ==
  ASSUME MinerTypeOK, SlotsArePast, NEW h \in Hotkeys, Run(h) \/ ReadSlot(h, TRUE)
  PROVE  ChainGrows
<1> USE DEF MinerTypeOK, ChainGrows, SlotsArePast, chain, Goto, MinerStages
<1>1. ASSUME NEW succeeds \in BOOLEAN, ReadSlot(h, succeeds) PROVE ChainGrows
  BY <1>1, DecodedIsArtifact DEF ReadSlot
<1>2. CASE FindLive(h)
  BY <1>2 DEF FindLive
<1>3. CASE AlreadyCommitted(h)
  BY <1>3 DEF AlreadyCommitted
<1>4. CASE CommitRejected(h)
  BY <1>4 DEF CommitRejected, Committing
<1>5. CASE SaveCommitted(h)
  BY <1>5 DEF SaveCommitted
<1>6. CASE Wake(h)
  BY <1>6 DEF Wake
<1>7. CASE Start(h)
  BY <1>7 DEF Start
<1> QED
  BY <1>1, <1>2, <1>3, <1>4, <1>5, <1>6, <1>7 DEF Run

LEMMA MinerKeeps ==
  ASSUME MinerTypeOK, SlotsArePast, MinerNext
  PROVE  ChainGrows
<1>1. CASE NewBlock
  <2>1. MinerTypeOK' /\ block <= block'
    BY <1>1 DEF NewBlock, neuron, MinerTypeOK
  <2>2. SlotsArePast'
    BY <1>1 DEF NewBlock, MinerTypeOK, SlotsArePast, Commitment
  <2> QED
    BY <2>1, <2>2 DEF ChainGrows
<1>2. ASSUME NEW h \in Hotkeys, Run(h) \/ ReadSlot(h, TRUE) PROVE ChainGrows
  BY <1>2, NeuronKeeps
<1>3. ASSUME NEW h \in Hotkeys, CommitAccepted(h) PROVE ChainGrows
  <2>1. slot' \in [Hotkeys -> Commitment] /\ SlotsArePast'
    BY <1>3, PutKeeps DEF MinerTypeOK, CommitAccepted, Committing
  <2>2. MinerTypeOK'
    BY <1>3, <2>1 DEF CommitAccepted, Committing, MinerTypeOK, Goto, MinerStages
  <2>3. block <= block'
    BY <1>3 DEF CommitAccepted, Committing, MinerTypeOK
  <2> QED
    BY <2>1, <2>2, <2>3 DEF ChainGrows
<1>4. ASSUME NEW h \in Hotkeys, CommitUnconfirmed(h) PROVE ChainGrows
  <2>1. slot' \in [Hotkeys -> Commitment] /\ SlotsArePast'
    BY <1>4, PutKeeps DEF MinerTypeOK, CommitUnconfirmed, Committing
  <2>2. MinerTypeOK'
    <3>1. meddles' \in Nat /\ meddled' \subseteq Hotkeys
      BY <1>4 DEF CommitUnconfirmed, MinerTypeOK
    <3>2. stage' \in [Hotkeys -> MinerStages]
      BY <1>4 DEF CommitUnconfirmed, MinerTypeOK, Goto, MinerStages
    <3>3. /\ block' \in Nat
          /\ configured' \in [Hotkeys -> Digests]
          /\ committed' \in [Hotkeys -> Digests \cup {None}]
          /\ miner_file' \in [Hotkeys -> Digests \cup {None}]
          /\ on_chain' \in [Hotkeys -> Digests \cup {None}]
      BY <1>4 DEF CommitUnconfirmed, Committing, MinerTypeOK
    <3> QED
      BY <2>1, <3>1, <3>2, <3>3 DEF MinerTypeOK
  <2>3. block <= block'
    BY <1>4 DEF CommitUnconfirmed, Committing, MinerTypeOK
  <2> QED
    BY <2>1, <2>2, <2>3 DEF ChainGrows
<1>5. ASSUME NEW h \in Hotkeys, Stop(h) PROVE ChainGrows
  BY <1>5 DEF Stop, chain, MinerTypeOK, ChainGrows, SlotsArePast, Goto, MinerStages
<1>6. ASSUME NEW h \in Hotkeys, Meddle(h) PROVE ChainGrows
  <2>1. slot' \in [Hotkeys -> Commitment] /\ SlotsArePast'
    BY <1>6, PutKeeps DEF Meddle
  <2> QED
    BY <1>6, <2>1 DEF Meddle, neuron, MinerTypeOK, ChainGrows
<1> QED
  BY <1>1, <1>2, <1>3, <1>4, <1>5, <1>6 DEF MinerNext

-----------------------------------------------------------------------------
(***************************************************************************)
(* The validator.                                                          *)
(***************************************************************************)

LEMMA FInitHolds == FreezeInit => FInv
<1> SUFFICES ASSUME FreezeInit PROVE FInv
  OBVIOUS
<1>1. MinerTypeOK /\ SlotsArePast
  BY DEF FreezeInit, MinerInit, MinerTypeOK, SlotsArePast, Commitment, MinerStages
<1>2. FreezeTypeOK
  BY <1>1 DEF FreezeInit, FreezeTypeOK, RoundSteps, InputSources, Unread, Empty
<1>3. CacheIsPast /\ SnapshotIsTight /\ EntropyPostdatesFreeze
  BY DEF FreezeInit, CacheIsPast, SnapshotIsTight, EntropyPostdatesFreeze
<1> QED
  BY <1>1, <1>2, <1>3 DEF FInv

LEMMA ReadMetagraphKeeps ==
  ASSUME FInv, NEW carried \in BOOLEAN, NEW dated \in BOOLEAN,
         ReadMetagraph(carried, dated)
  PROVE  FInv'
<1>1. MinerTypeOK' /\ SlotsArePast' /\ CacheIsPast'
  BY DEF FInv, FreezeTypeOK, MinerTypeOK, SlotsArePast, CacheIsPast, ReadMetagraph, mvars,
         chain, neuron
<1>2. /\ raw' \in [uids : SUBSET Hotkeys, block : Nat, dated : BOOLEAN]
      /\ raw'.block = block
      /\ block' = block
      /\ block \in Nat
  BY DEF FInv, FreezeTypeOK, MinerTypeOK, ReadMetagraph, mvars, chain
<1>3. \/ step' = "metagraph" /\ commitments' = commitments
      \/ step' = "commitments" /\ commitments' = slot
  BY DEF ReadMetagraph
<1>4. slot \in [Hotkeys -> Commitment] /\ DOMAIN slot = Hotkeys
  BY DEF FInv, FreezeTypeOK, MinerTypeOK
<1>5. FreezeTypeOK'
  BY <1>1, <1>2, <1>3, <1>4 DEF FInv, FreezeTypeOK, ReadMetagraph, RoundSteps, InputSources
<1>6. SnapshotIsTight'
  BY <1>2, <1>3, <1>4, LeadAssumption
  DEF FInv, SlotsArePast, SnapshotIsTight, Commitment
<1>7. EntropyPostdatesFreeze'
  BY <1>3 DEF EntropyPostdatesFreeze
<1> QED
  BY <1>1, <1>5, <1>6, <1>7 DEF FInv

(* The commitments read, or the cache, hold nothing later than now. *)
LEMMA TakeCommitmentsKeeps ==
  ASSUME FInv, ReadCommitments \/ ServeCache
  PROVE  FInv'
<1>1. MinerTypeOK' /\ SlotsArePast'
  BY DEF FInv, FreezeTypeOK, MinerTypeOK, SlotsArePast, ReadCommitments, ServeCache, mvars,
         chain, neuron
<1>2. /\ commitments' \in [Hotkeys -> Commitment]
      /\ \A h \in Hotkeys : commitments'[h].block <= block
      /\ step = "metagraph" /\ step' = "commitments"
      /\ raw' = raw /\ block' = block
      /\ cache' \in [Hotkeys -> Commitment] \cup {Nobody}
      /\ CacheIsPast'
  BY DEF FInv, FreezeTypeOK, MinerTypeOK, SlotsArePast, CacheIsPast, ReadCommitments,
         ServeCache, mvars, chain
<1>3. FreezeTypeOK'
  BY <1>1, <1>2
  DEF FInv, FreezeTypeOK, ReadCommitments, ServeCache, RoundSteps, InputSources
<1>4. SnapshotIsTight'
  <2>1. block \in Nat /\ raw.block \in Nat /\ ReadBlocks \in Nat
    BY LeadAssumption DEF FInv, FreezeTypeOK, MinerTypeOK
  <2>2. raw.block <= block /\ block <= raw.block + ReadBlocks
    BY <1>2 DEF FInv, SnapshotIsTight
  <2>3. \A h \in Hotkeys : commitments'[h].block \in Nat
    BY <1>2 DEF Commitment
  <2> QED
    BY <1>2, <2>1, <2>2, <2>3 DEF SnapshotIsTight
<1>5. EntropyPostdatesFreeze'
  BY <1>2 DEF EntropyPostdatesFreeze
<1> QED
  BY <1>1, <1>2, <1>3, <1>4, <1>5 DEF FInv

(* The block of the snapshot is not before the metagraph, so the lead      *)
(* covers the time the reads took.                                         *)
LEMMA FreezeKeeps ==
  ASSUME FInv, FreezeArtifacts
  PROVE  FInv'
<1>1. MinerTypeOK' /\ SlotsArePast' /\ CacheIsPast'
  BY DEF FInv, FreezeTypeOK, MinerTypeOK, SlotsArePast, CacheIsPast, FreezeArtifacts, mvars,
         chain, neuron
<1>2. /\ commitments \in [Hotkeys -> Commitment]
      /\ block \in Nat /\ raw.block \in Nat
      /\ raw.block <= block
      /\ \A h \in Hotkeys : commitments[h].block <= raw.block + ReadBlocks
  BY DEF FInv, FreezeTypeOK, MinerTypeOK, SnapshotIsTight, FreezeArtifacts
<1>3. /\ freeze_block' \in Nat
      /\ raw.block <= freeze_block'
  BY <1>2 DEF FreezeArtifacts
<1>4. /\ DOMAIN commitments' \subseteq Hotkeys
      /\ commitments' \in [DOMAIN commitments' -> Commitment]
      /\ \A h \in DOMAIN commitments' : commitments'[h] = commitments[h]
  BY <1>2 DEF FInv, FreezeTypeOK, FreezeArtifacts, Frozen
<1>5. FreezeTypeOK'
  BY <1>1, <1>3, <1>4
  DEF FInv, FreezeTypeOK, FreezeArtifacts, Unread, RoundSteps, InputSources
<1>6. SnapshotIsTight'
  BY DEF SnapshotIsTight, FreezeArtifacts
<1>7. EntropyPostdatesFreeze'
  <2> SUFFICES ASSUME NEW h \in DOMAIN commitments'
               PROVE  commitments'[h].block <= freeze_block' + Lead
    BY DEF EntropyPostdatesFreeze, select_block, FreezeArtifacts
  <2>1. commitments[h].block \in Nat /\ commitments[h].block <= raw.block + ReadBlocks
    BY <1>2, <1>4 DEF Commitment
  <2> QED
    BY <2>1, <1>2, <1>3, <1>4, LeadAssumption
<1> QED
  BY <1>1, <1>5, <1>6, <1>7 DEF FInv

LEMMA RestOfRoundKeeps ==
  ASSUME FInv,
         \/ DrawEntropy
         \/ \E opens, generates \in BOOLEAN : PrepareCases(opens, generates)
         \/ EndRound
         \/ ResyncMetagraph
         \/ ForgetCache
  PROVE  FInv'
<1>1. MinerTypeOK' /\ SlotsArePast'
  BY DEF FInv, FreezeTypeOK, MinerTypeOK, SlotsArePast, DrawEntropy, PrepareCases, EndRound,
         ResyncMetagraph, ForgetCache, mvars, chain, neuron
<1>2. CacheIsPast'
  BY DEF FInv, CacheIsPast, SlotsArePast, DrawEntropy, PrepareCases, EndRound,
         ResyncMetagraph, ForgetCache, mvars, chain
<1>3. FreezeTypeOK'
  <2>1. CASE DrawEntropy
    BY <1>1, <2>1 DEF FInv, FreezeTypeOK, DrawEntropy, RoundSteps
  <2>2. ASSUME NEW opens \in BOOLEAN, NEW generates \in BOOLEAN, PrepareCases(opens, generates)
        PROVE  FreezeTypeOK'
    BY <1>1, <2>2 DEF FInv, FreezeTypeOK, PrepareCases, RoundSteps, InputSources
  <2>3. CASE EndRound
    BY <1>1, <2>3 DEF FInv, FreezeTypeOK, EndRound, RoundSteps, InputSources, Unread, Empty
  <2>4. CASE ForgetCache
    BY <1>1, <2>4 DEF FInv, FreezeTypeOK, ForgetCache
  <2>5. CASE ResyncMetagraph
    BY <1>1, <2>5 DEF FInv, FreezeTypeOK, MinerTypeOK, ResyncMetagraph
  <2> QED
    BY <2>1, <2>2, <2>3, <2>4, <2>5
<1>4. SnapshotIsTight'
  BY DEF FInv, SnapshotIsTight, DrawEntropy, PrepareCases, EndRound, ResyncMetagraph,
         ForgetCache, mvars, chain
<1>5. EntropyPostdatesFreeze'
  BY DEF FInv, EntropyPostdatesFreeze, select_block, DrawEntropy, PrepareCases, EndRound,
         ResyncMetagraph, ForgetCache, mvars, chain
<1> QED
  BY <1>1, <1>2, <1>3, <1>4, <1>5 DEF FInv

LEMMA ElsewhereKeeps ==
  ASSUME FInv, Elsewhere
  PROVE  FInv'
<1>1. MinerTypeOK' /\ SlotsArePast' /\ block <= block'
  BY MinerKeeps DEF FInv, FreezeTypeOK, ChainGrows, Elsewhere
<1>2. block \in Nat /\ block' \in Nat
  BY <1>1 DEF FInv, FreezeTypeOK, MinerTypeOK
<1>3. FreezeTypeOK'
  BY <1>1 DEF FInv, FreezeTypeOK, Elsewhere, validator
<1>4. CacheIsPast'
  <2> SUFFICES ASSUME cache # Nobody, NEW h \in Hotkeys PROVE cache[h].block <= block'
    BY DEF CacheIsPast, Elsewhere, validator
  <2>1. cache[h].block \in Nat /\ cache[h].block <= block
    BY DEF FInv, FreezeTypeOK, CacheIsPast, Commitment
  <2> QED
    BY <2>1, <1>1, <1>2
<1>5. SnapshotIsTight'
  BY <1>1, <1>2 DEF FInv, FreezeTypeOK, SnapshotIsTight, Elsewhere, validator
<1>6. EntropyPostdatesFreeze'
  BY <1>1, <1>2, LeadAssumption
  DEF FInv, FreezeTypeOK, EntropyPostdatesFreeze, select_block, Elsewhere, validator
<1> QED
  BY <1>1, <1>3, <1>4, <1>5, <1>6 DEF FInv

LEMMA StutterKeeps == FInv /\ UNCHANGED fvars => FInv'
  BY DEF FInv, FreezeTypeOK, MinerTypeOK, SlotsArePast, CacheIsPast, SnapshotIsTight,
         EntropyPostdatesFreeze, select_block, fvars, mvars, chain, neuron, validator

LEMMA FNextKeeps == FInv /\ [FreezeNext]_fvars => FInv'
<1> SUFFICES ASSUME FInv, [FreezeNext]_fvars PROVE FInv'
  OBVIOUS
<1>1. CASE Elsewhere
  BY <1>1, ElsewhereKeeps
<1>2. ASSUME NEW carried \in BOOLEAN, NEW dated \in BOOLEAN, ReadMetagraph(carried, dated)
      PROVE  FInv'
  BY <1>2, ReadMetagraphKeeps
<1>3. CASE ReadCommitments \/ ServeCache
  BY <1>3, TakeCommitmentsKeeps
<1>4. CASE FreezeArtifacts
  BY <1>4, FreezeKeeps
<1>5. CASE \/ DrawEntropy
           \/ \E opens, generates \in BOOLEAN : PrepareCases(opens, generates)
           \/ EndRound
           \/ ResyncMetagraph
           \/ ForgetCache
  BY <1>5, RestOfRoundKeeps
<1>6. CASE UNCHANGED fvars
  BY <1>6, StutterKeeps
<1> QED
  BY <1>1, <1>2, <1>3, <1>4, <1>5, <1>6 DEF FreezeNext

-----------------------------------------------------------------------------
(***************************************************************************)
(* The caches of the miners.  What a neuron remembers, and what it would   *)
(* remember after a restart, is what its slot holds; every step of the     *)
(* neuron keeps that, and a step of another marks the slot as meddled      *)
(* with.                                                                   *)
(***************************************************************************)

(* CacheTellsTheTruth of one neuron. *)
CacheTrue(h) ==
  h \notin meddled =>
    /\ committed[h] # None => slot[h].payload = committed[h]
    /\ miner_file[h] # None /\ stage[h] # "save" => slot[h].payload = miner_file[h]

LEMMA EachCacheIsTrue ==
  ASSUME MinerTypeOK
  PROVE  CacheTellsTheTruth <=> \A h \in Hotkeys : CacheTrue(h)
  BY DEF CacheTellsTheTruth, CacheTrue

(* A step of one neuron, or at its slot, leaves the caches of the others   *)
(* as true as they were.                                                   *)
OthersStay(h) ==
  \A g \in Hotkeys \ {h} :
    /\ slot'[g] = slot[g]
    /\ committed'[g] = committed[g]
    /\ miner_file'[g] = miner_file[g]
    /\ stage'[g] = stage[g]
    /\ g \in meddled => g \in meddled'

LEMMA OneCacheAtATime ==
  ASSUME MinerTypeOK, MinerTypeOK', CacheTellsTheTruth, NEW h \in Hotkeys,
         OthersStay(h), CacheTrue(h)'
  PROVE  CacheTellsTheTruth'
<1>1. ASSUME NEW g \in Hotkeys \ {h} PROVE CacheTrue(g)'
  <2>1. CacheTrue(g)
    BY EachCacheIsTrue
  <2> QED
    BY <2>1 DEF OthersStay, CacheTrue
<1> QED
  BY <1>1 DEF CacheTellsTheTruth, CacheTrue

LEMMA NeuronStaysTrue ==
  ASSUME MinerTypeOK, MinerTypeOK', CacheTellsTheTruth, NEW h \in Hotkeys,
         \/ Run(h) \/ ReadSlot(h, TRUE) \/ CommitAccepted(h)
         \/ CommitUnconfirmed(h) \/ Stop(h) \/ Meddle(h)
  PROVE  CacheTellsTheTruth'
<1> SUFFICES OthersStay(h) /\ CacheTrue(h)'
  BY OneCacheAtATime
<1>1. CacheTrue(h)
  BY EachCacheIsTrue
<1>2. ASSUME NEW succeeds \in BOOLEAN, ReadSlot(h, succeeds)
      PROVE  OthersStay(h) /\ CacheTrue(h)'
  BY <1>1, <1>2 DEF ReadSlot, OthersStay, CacheTrue, MinerTypeOK, Goto, chain
<1>3. CASE FindLive(h) \/ AlreadyCommitted(h) \/ Wake(h)
  BY <1>1, <1>3
  DEF FindLive, AlreadyCommitted, Wake, OthersStay, CacheTrue, MinerTypeOK, Goto, chain
<1>4. CASE CommitRejected(h)
  BY <1>1, <1>4
  DEF CommitRejected, Committing, OthersStay, CacheTrue, MinerTypeOK, Goto
<1>5. CASE SaveCommitted(h)
  BY <1>1, <1>5 DEF SaveCommitted, OthersStay, CacheTrue, MinerTypeOK, Goto, chain
<1>6. CASE Start(h)
  BY <1>1, <1>6 DEF Start, OthersStay, CacheTrue, MinerTypeOK, Goto, chain
<1>7. CASE CommitAccepted(h)
  <2>1. OthersStay(h)
    BY <1>7 DEF CommitAccepted, Committing, OthersStay, MinerTypeOK, Goto, Put
  <2>2. /\ slot'[h].payload = configured[h]
        /\ committed'[h] = configured[h]
        /\ stage'[h] = "save"
    BY <1>7 DEF CommitAccepted, MinerTypeOK, Goto, Put
  <2> QED
    BY <2>1, <2>2 DEF CacheTrue
<1>8. CASE CommitUnconfirmed(h) \/ Meddle(h)
  <2>1. h \in meddled'
    BY <1>8 DEF CommitUnconfirmed, Meddle
  <2>2. OthersStay(h)
    BY <1>8
    DEF CommitUnconfirmed, Committing, Meddle, neuron, OthersStay, MinerTypeOK, Goto, Put
  <2> QED
    BY <2>1, <2>2 DEF CacheTrue
<1>9. CASE Stop(h)
  <2>1. OthersStay(h)
    BY <1>9 DEF Stop, OthersStay, MinerTypeOK, Goto, chain
  <2>2. CASE stage[h] = "save"
    BY <1>9, <2>1, <2>2 DEF Stop, CacheTrue
  <2>3. CASE stage[h] # "save"
    BY <1>1, <1>9, <2>1, <2>3 DEF Stop, CacheTrue, MinerTypeOK, chain
  <2> QED
    BY <2>2, <2>3
<1> QED
  BY <1>2, <1>3, <1>4, <1>5, <1>6, <1>7, <1>8, <1>9 DEF Run

LEMMA CachesStayTrue ==
  ASSUME MinerTypeOK, MinerTypeOK', CacheTellsTheTruth, [FreezeNext]_fvars
  PROVE  CacheTellsTheTruth'
<1>1. CASE UNCHANGED <<slot, committed, miner_file, stage, meddled>>
  BY <1>1 DEF CacheTellsTheTruth
<1>2. CASE MinerNext
  <2>1. CASE NewBlock
    BY <2>1, <1>1 DEF NewBlock, neuron
  <2> QED
    BY <2>1, <1>2, NeuronStaysTrue DEF MinerNext
<1>3. CASE Elsewhere
  BY <1>2, <1>3 DEF Elsewhere
<1>4. ASSUME ~Elsewhere PROVE UNCHANGED mvars
  BY <1>4
  DEF FreezeNext, fvars, ReadMetagraph, PrepareCases, ReadCommitments, ServeCache,
      FreezeArtifacts, DrawEntropy, EndRound, ResyncMetagraph, ForgetCache
<1> QED
  BY <1>1, <1>3, <1>4 DEF mvars, chain, neuron

-----------------------------------------------------------------------------

LEMMA FreezeInvariant == FreezeSpec => []FInv
<1> QED
  BY FInitHolds, FNextKeeps, PTL DEF FreezeSpec

(* Miners, chain and the validator's snapshot keep their types             *)
(* (base/miner.py, chain/access.py, freeze_artifacts).                     *)
THEOREM FreezeTypeCorrect == FreezeSpec => []FreezeTypeOK
<1>1. FInv => FreezeTypeOK
  BY DEF FInv
<1> QED
  BY <1>1, FreezeInvariant, PTL

(* From however many reads and however old a cache a frozen set was put    *)
(* together, the block that selects the tasks comes after its commitments, *)
(* as long as the lead covers the reads (forward, ChainAccess.metagraph).  *)
THEOREM EntropyComesAfterTheFreeze == FreezeSpec => []EntropyPostdatesFreeze
<1>1. FInv => EntropyPostdatesFreeze
  BY DEF FInv
<1> QED
  BY <1>1, FreezeInvariant, PTL

(* Neither a refusal nor a restart makes a neuron believe in a commitment  *)
(* that the chain does not hold, so long as the slot is its own            *)
(* (commit, load_state).                                                   *)
THEOREM CachesTellTheTruth == FreezeSpec => []CacheTellsTheTruth
<1>1. FreezeInit => CacheTellsTheTruth
  BY DEF FreezeInit, MinerInit, CacheTellsTheTruth
<1>2. FInv => MinerTypeOK
  BY DEF FInv, FreezeTypeOK
<1>3. CacheTellsTheTruth /\ MinerTypeOK /\ MinerTypeOK' /\ [FreezeNext]_fvars
        => CacheTellsTheTruth'
  BY CachesStayTrue
<1> QED
  BY <1>1, <1>2, <1>3, FreezeInvariant, PTL DEF FreezeSpec

=============================================================================
