-------------------------- MODULE MCWeightHeartbeat --------------------------
(***************************************************************************)
(* WeightHeartbeat for TLC, with every outcome of a submission or with     *)
(* those of a chain whose answers are never lost.                          *)
(***************************************************************************)
EXTENDS WeightHeartbeat

AllOutcomes == {"accepted", "rejected", "unresolved", "unconfirmed"}
ConfirmedOutcomes == AllOutcomes \ {"unconfirmed"}

=============================================================================
