---------------------------- MODULE MCCoordinator ----------------------------
(* Instances of Coordinator for TLC.                                       *)
EXTENDS CoordinatorInvariants, TLC

CONSTANTS r1, r2, r3, s1, s2, c1, c2, b1, b2, m1, g1, g2, g3

(* Which resource each registration brings in.                             *)
OneTarget == g1 :> r1
TwoTargets == g1 :> r1 @@ g2 :> r2
ThreeTargets == g1 :> r1 @@ g2 :> r2 @@ g3 :> r3
=============================================================================
