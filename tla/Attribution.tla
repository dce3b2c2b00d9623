---------------------------- MODULE Attribution ----------------------------
(***************************************************************************)
(* Who gets blamed when something goes wrong: what the evaluation of one   *)
(* task's patches promises their authors, whatever the gates and their     *)
(* order.  A patch is charged only for what is wrong with it or with the   *)
(* repository it patches, credited only if nothing is wrong with it and    *)
(* the task can be scored; the task is taken from everybody only if it     *)
(* gives cause, or a patch on which the two tiers of measurement diverge.  *)
(*                                                                         *)
(* It is the contract of docs/architecture.md with two concessions to the  *)
(* code.  There a gate failure means that `the candidate genuinely failed' *)
(* and the task's trouble is nobody's; here the patch inherits what stage  *)
(* 1 does not look for (Inherited).  There `a miner must not be able to    *)
(* void a task', though the table before it voids for persistent tier      *)
(* divergence; here a divergent patch voids.                               *)
(***************************************************************************)
EXTENDS Patches

CONSTANT Candidates  \* the patches produced for the task

VARIABLES
  patch,    \* what each patch is in truth
  task,     \* what the task is in truth
  verdict,  \* what became of each patch so far
  voided    \* the task was dropped for everyone

vars == <<patch, task, verdict, voided>>

Verdicts == {"none", "gate_failure", "honest_null", "scored", "evaluation_error"}

Chargeable(c) == patch[c].flaw # NoFlaw \/ task.trouble \in Inherited

(* A patch whose behaviour depends on the optimization level is not told   *)
(* apart, see Pipeline; nor one only the fuzz targets would find out, when *)
(* the package has none.                                                   *)
Creditable(c) ==
  /\ \/ patch[c].flaw \in {NoFlaw, "second_opt_level"}
     \/ patch[c].flaw = "fuzz" /\ ~task.fuzz_targets
  /\ task.trouble \in {"sound"} \cup Inherited

(* What the measurement can make of a patch: what it is, unless the build  *)
(* that is measured is another one, after a rebuild that failed.           *)
Seen(c) == IF task.trouble = "flaky_build" THEN Gains ELSE {patch[c].gain}

Voidable ==
  \/ task.trouble \in {"unbuildable", "flaky_build", "unmeasurable", "nondeterministic",
                       "no_reference"}
  \/ \E c \in Candidates : patch[c].gain \in Divergent

-----------------------------------------------------------------------------

Settle(c, v) ==
  /\ ~voided
  /\ verdict[c] = "none"
  /\ verdict' = [verdict EXCEPT ![c] = v]
  /\ UNCHANGED <<patch, task, voided>>

Charge(c) == Chargeable(c) /\ Settle(c, "gate_failure")

Credit(c) ==
  /\ Creditable(c)
  /\ \E gain \in Seen(c) :
       Settle(c, IF gain \in Null THEN "honest_null" ELSE "scored")

Excuse(c) == Settle(c, "evaluation_error")

Void ==
  /\ Voidable
  /\ ~voided
  /\ voided' = TRUE
  /\ verdict' = [c \in Candidates |-> "none"]
  /\ UNCHANGED <<patch, task>>

Init ==
  /\ patch \in [Candidates -> Patch]
  /\ task \in Task
  /\ verdict = [c \in Candidates |-> "none"]
  /\ voided = FALSE

Next == Void \/ \E c \in Candidates : Charge(c) \/ Credit(c) \/ Excuse(c)

Spec == Init /\ [][Next]_vars

=============================================================================
