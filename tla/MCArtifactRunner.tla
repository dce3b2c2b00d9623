-------------------------- MODULE MCArtifactRunner --------------------------
(***************************************************************************)
(* ArtifactRunner for TLC: two artifacts on one task and one of them on    *)
(* another, two of the metered pair's requests overlapping.  A request     *)
(* estimated at less than nothing is not fair, nor is an answer of MaxUsage.*)
(***************************************************************************)
EXTENDS ArtifactRunner

CONSTANTS c1, c2, a1, a2, t1, t2

MCCallers == {c1, c2}
MCEstimates == {-1, 1}
MCAssignments == <<[artifact |-> a1, task |-> t1],
                   [artifact |-> a2, task |-> t1],
                   [artifact |-> a1, task |-> t2]>>

=============================================================================
