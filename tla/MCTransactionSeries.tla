------------------------- MODULE MCTransactionSeries -------------------------
(* Instances of TransactionSeries for TLC.                                 *)
EXTENDS SeriesInvariants, TLC

CONSTANTS r1, r2, r3, c1, b1, m1, g1, g2

TwoTargets == g1 :> r1 @@ g2 :> r2
Empty == << >>
=============================================================================
