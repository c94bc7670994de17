---------------------------- MODULE MCThreadPool ----------------------------
(* Instances of ThreadPool for TLC.                                        *)
EXTENDS ThreadPool, TLC

CONSTANTS q1, q2, q3, m1, m2

(* A call that adds a worker and sets another keep-alive time.             *)
Enlarging == m1 :> [keep |-> "timed", max |-> 2, min |-> 2]

(* The minimum is lowered, then the maximum: below the number of workers.  *)
Shrinking == m1 :> [keep |-> "timed", max |-> 1, min |-> 1]
          @@ m2 :> [keep |-> "timed", max |-> 1, min |-> 1]
=============================================================================
