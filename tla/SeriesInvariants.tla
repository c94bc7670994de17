--------------------------- MODULE SeriesInvariants ---------------------------
(***************************************************************************)
(* The inductive strengthening of the properties of TransactionSeries,     *)
(* apart from its proof so that TLC can check it first.  It is of a        *)
(* network without failures (MaxFaults = 0): a call that fails takes its   *)
(* resource out of the rollback, see the run unreachable_voter.            *)
(***************************************************************************)
EXTENDS TransactionSeries, CoordinatorInvariants

(***************************************************************************)
(* The client does one thing at a time.                                    *)
(***************************************************************************)
Untold == \A c \in Terminators : pc[c] = "idle"

CommitPlaces ==
    {"idle", "before", "dispatch", "onephase", "onephased", "prepare", "voted",
     "rollback", "undo", "undone", "undoAfter", "commit", "committed", "after", "done"}

RollbackPlaces == {"idle", "undo", "undone", "undoAfter", "done"}

(* Loops over the list that begin after its length was read.               *)
Looping ==
    {"before", "dispatch", "onephase", "onephased", "prepare", "voted", "undo",
     "undone", "commit", "committed"}

OneCall ==
    /\ \A c, d \in Terminators : pc[c] # "idle" /\ pc[d] # "idle" => c = d
    /\ (\E g \in Registrars : pc[g] \in {"begin", "enlist"}) => Untold
    /\ Untold => status \in {"Active", "MarkedRollback"}

InPlace(c) ==
    /\ pc[c] \in CommitPlaces
    /\ c \in Rollbackers => pc[c] \in RollbackPlaces
    /\ pc[c] \in Looping => len[c] = Len(rcv)
    /\ pc[c] = "prepare" => status \in {"Preparing", "MarkedRollback"}
    /\ pc[c] = "voted" => status = "Preparing"
    /\ pc[c] = "rollback" => status = "MarkedRollback"
    /\ pc[c] \in {"voted", "undone", "committed"} => ans[c] \notin NetworkFailure
    /\ pc[c] # "done" => reply[c] = "none"

(***************************************************************************)
(* The resources: a block that is open is of work whose outcome is open,   *)
(* and a resource that serves two transactions never becomes Active again. *)
(***************************************************************************)
Kept(p) ==
    /\ Open(p) <=> p.block \in {"INPROGRESS", "PREPARE"}
    /\ Open(p) => p.fate = "open"

Listed(r) == \E i \in 1..Len(rcv) : rcv[i].r = r

(* A connection whose block the next BEGIN opens has no outcome yet.       *)
Fresh(g) ==
    pc[g] \in {"idle", "begin"} =>
      /\ ~Listed(Target[g])
      /\ res[Target[g]].live /\ res[Target[g]].block = "DEFAULT" =>
            res[Target[g]].fate = "none"

(* Work in the block of an Active resource is of the current transaction,  *)
(* and only if it was registered with it.                                  *)
Own(r) == work[r] \subseteq {txn}

WorkInv(r) ==
    /\ Kept(res[r])
    /\ res[r].status = "Active" => Own(r)
    /\ res[r].status = "Active" /\ ~Listed(r) => work[r] = {}

(* The entries that a call has dealt with are not Active any more, and the *)
(* work it has been promised, and goes on to commit, is its own.           *)
Used(i) == res[rcv[i].r].status # "Active"

UsedUpTo(n) == \A i \in 1..Len(rcv) : i <= n => Used(i)

Progress(c) ==
    /\ pc[c] \in {"prepare", "undo"} => UsedUpTo(ix[c] - 1)
    /\ pc[c] \in {"voted", "undone"} => UsedUpTo(ix[c])
    /\ pc[c] \in {"onephased", "undoAfter", "commit", "committed", "after", "done"} =>
          UsedUpTo(Len(rcv))
    /\ pc[c] \in {"prepare", "voted"} /\ status = "Preparing" =>
          \A i \in 1..Len(rcv) : i < ix[c] => Own(rcv[i].r)
    /\ pc[c] = "voted" /\ ans[c] = "VoteCommit" => Own(rcv[ix[c]].r)
    /\ pc[c] \in {"commit", "committed"} => \A i \in 1..Len(rcv) : Own(rcv[i].r)

VotesUsed == \A i \in 1..Len(rcv) : rcv[i].rv # "NotPrepared" => Used(i)

(***************************************************************************)
(* What the client was told.                                               *)
(***************************************************************************)
Told(c) == reply[c] = IF c \in Rollbackers THEN "ok" ELSE "TRANSACTION_ROLLEDBACK"

(* The places of a call that has committed nothing.                        *)
Nothing(c) ==
    \/ pc[c] \in {"before", "dispatch", "onephase", "prepare", "voted", "rollback",
                  "undo", "undone", "undoAfter"}
    \/ pc[c] = "onephased" /\ ans[c] = "TRANSACTION_ROLLEDBACK"
    \/ Told(c)

ToldInv ==
    /\ Untold => txn \notin durable
    /\ \A c \in Terminators : Nothing(c) => txn \notin durable
    /\ txn \in undone => \E c \in Terminators : Told(c)
    /\ undone \cap durable = {}

SeriesInv ==
    /\ OneCall
    /\ \A c \in Terminators : InPlace(c) /\ Progress(c)
    /\ \A g \in Registrars : Fresh(g)
    /\ \A r \in Resources : WorkInv(r)
    /\ VotesUsed
    /\ ToldInv
=============================================================================
