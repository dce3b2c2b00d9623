-------------------------- MODULE MCRoundLifecycle --------------------------
(***************************************************************************)
(* RoundLifecycle for TLC: two artifacts and one cell are enough for a     *)
(* crown to change hands across kills and restarts, and two mechanisms for *)
(* a round whose vectors fare differently.                                 *)
(***************************************************************************)
EXTENDS RoundLifecycle, TLC

CONSTANTS a1, a2, parsing, m0, m1

MCArtifacts == {a1, a2}
MCCells == {parsing}
MCMechanisms == {m0, m1}

At(score, screened) ==
  [generalist_score |-> score,
   cell_scores      |-> (parsing :> score),
   screened         |-> screened,
   evidence         |-> 3]

MCStandings == {At(40, FALSE), At(60, TRUE)}

MCDigestOrder == (a1 :> 1 @@ a2 :> 2)
MCCommittedAt == (a1 :> 7 @@ a2 :> 5)

(* States that differ only in Dethronement's history variables, which no   *)
(* action reads and no property here speaks of, are one to TLC.            *)
MCView == <<champion, round_number, sustained, due, write, disk,
            number, step, last_weights, rest, audit, history>>

(* No property tells the mechanisms apart. *)
MCSymmetry == Permutations(MCMechanisms)

=============================================================================
