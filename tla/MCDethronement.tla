--------------------------- MODULE MCDethronement ---------------------------
(***************************************************************************)
(* Dethronement for TLC: three artifacts, two cells, and standings at the  *)
(* boundaries of the band (hundredths, as in SPEC).                        *)
(***************************************************************************)
EXTENDS Dethronement, TLC

CONSTANTS a1, a2, a3, parsing, hashing

MCArtifacts == {a1, a2, a3}
MCCells == {parsing, hashing}

(* A standing that scores `p' on parsing and `h' on hashing. *)
At(score, p, h, screened, evidence) ==
  [generalist_score |-> score,
   cell_scores      |-> (parsing :> p @@ hashing :> h),
   screened         |-> screened,
   evidence         |-> evidence]

MCStandings ==
  {At(40, 40, 40, TRUE, 3),              \* an ordinary artifact
   At(44, 44, 44, TRUE, 3),              \* exactly the margin better
   At(60, 60, 60, TRUE, InfiniteError),  \* far better, on thin evidence
   At(59, 37, 84, TRUE, 3),              \* better, worse on one cell
   At(70, 70, 70, FALSE, 3)}             \* high, but not screened

MCDigestOrder == (a1 :> 1 @@ a2 :> 2 @@ a3 :> 3)

(* The commitment order disagrees with the digest order. *)
MCCommittedAt == (a1 :> 5 @@ a2 :> 9 @@ a3 :> 7)

=============================================================================
