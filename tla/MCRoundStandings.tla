-------------------------- MODULE MCRoundStandings --------------------------
(***************************************************************************)
(* RoundStandings for TLC: two artifacts on a public and a hidden task.    *)
(***************************************************************************)
EXTENDS RoundStandings, TLC

CONSTANTS a1, a2, public, hidden

MCArtifacts == {a1, a2}
MCTasks == {public, hidden}
MCHidden == {hidden}
MCDigestOrder == (a1 :> 1 @@ a2 :> 2)
MCPlanOrder == (public :> 1 @@ hidden :> 2)
MCScores == {0, 1, 2}

=============================================================================
