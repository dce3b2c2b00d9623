------------------------------ MODULE MCFreeze ------------------------------
(***************************************************************************)
(* Freeze for TLC: one hotkey that may commit either of two artifacts.     *)
(***************************************************************************)
EXTENDS Freeze

CONSTANTS h1, d1, d2

MCHotkeys == {h1}
MCDigests == {d1, d2}
MCReveals == {1}

=============================================================================
