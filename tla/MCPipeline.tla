----------------------------- MODULE MCPipeline -----------------------------
(***************************************************************************)
(* Pipeline for TLC: two patches of any of sixteen kinds - the sound ones  *)
(* and those that fail or hang at a gate of each sort - with every trouble *)
(* of task and host.                                                       *)
(***************************************************************************)
EXTENDS Pipeline

CONSTANTS p1, p2

MCCandidates == {p1, p2}

Sound(gain) == [flaw |-> NoFlaw, hangs |-> FALSE, gain |-> gain]
Unfit(gate) == [flaw |-> gate, hangs |-> FALSE, gain |-> "win"]
Hanging(gate) == [flaw |-> gate, hangs |-> TRUE, gain |-> "win"]

MCPatches ==
  {Sound(gain) : gain \in Gains}
    \cup {Unfit(gate) : gate \in {"patch_applies", "test_inventory", "asan", "fuzz",
                                  "second_opt_level", "candidate_measurable"}}
    \cup {Hanging(gate) : gate \in {"build", "differential", "ubsan", "fuzz", "second_opt_level",
                                    "candidate_measurable"}}

(* A package without fuzz targets has no other trouble. *)
MCTasks == {t \in Task : t.fuzz_targets \/ t.trouble = "sound"}

SoundTasks == {t \in Task : t.trouble = "sound"}

=============================================================================
