------------------------------ MODULE Patches ------------------------------
(***************************************************************************)
(* What decides the fate of a patch before anyone looks at it: what is     *)
(* wrong with the patch, with the task and with the host it is evaluated   *)
(* on.  The evaluation sees none of this; it sees what its checks report.  *)
(***************************************************************************)

(* The gates evaluate records for a candidate, in the order of             *)
(* evaluation/pipeline.py, and the one it records for the task.            *)
PatchGates ==
  {"patch_hygiene", "patch_applies", "immutable_tree", "build", "test_inventory", "api_abi",
   "public_tests", "differential", "asan", "ubsan", "fuzz", "second_opt_level",
   "candidate_measurable"}

GateName == PatchGates \cup {"baseline_stable"}

(* The gates that run code of the patch, where it can fail to return. *)
Timed ==
  {"build", "public_tests", "differential", "asan", "ubsan", "fuzz", "second_opt_level",
   "candidate_measurable"}

NoFlaw == "none"

(* flaw: the first gate the patch is unfit for; hangs: it is unfit because *)
(* it exceeds the time limit there; gain: what it does for the program -   *)
(* an improvement, none that is credible, or what real hardware confidently*)
(* contradicts: an improvement on the simulated CPU only, or only off it.  *)
Gains == {"win", "null", "false_win", "false_null"}

Divergent == {"false_win", "false_null"}

(* What Tier A counts no improvement for. *)
Null == {"null", "false_null"}

Patch ==
  {p \in [flaw : PatchGates \cup {NoFlaw}, hangs : BOOLEAN, gain : Gains] :
     p.hangs => p.flaw \in Timed}

(* The gates that build, and those the unmodified repository fails itself  *)
(* when this is its trouble: its build writes files the inventory or the   *)
(* headers count, its tests fail, it prints something else from run to     *)
(* run, a sanitizer or a fuzz target finds something in it, or it behaves  *)
(* differently at another optimization level.                              *)
Building == {"build", "asan", "ubsan", "second_opt_level"}

OwnGates ==
  {"test_inventory", "api_abi", "public_tests", "differential", "asan", "ubsan", "fuzz",
   "second_opt_level"}

(* Otherwise it does not build, builds only at times, fails under          *)
(* Callgrind, counts differently at times, or exceeds the benchmark's wall *)
(* time; or the package has no usable reference speedup.                   *)
Troubles ==
  {"sound", "unbuildable", "flaky_build", "unmeasurable", "nondeterministic", "hang",
   "no_reference", "low_reference"} \cup OwnGates

(* Troubles that show in the candidate's gates though stage 1 was passed.  *)
Inherited == {"flaky_build", "nondeterministic"} \cup OwnGates

Task == [trouble : Troubles, fuzz_targets : BOOLEAN]

(* sandbox: verify_in_sandbox; calibrated: the host has Tier B. *)
Host == [sandbox : BOOLEAN, calibrated : BOOLEAN]

=============================================================================
