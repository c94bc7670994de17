------------------------- MODULE TransactionService -------------------------
(***************************************************************************)
(* The transaction service as its callers see it: what create, commit,     *)
(* rollback and rollback_only of one transaction answer and leave behind   *)
(* (ots/src/CosTransactionsOTS_impl.cpp; Coordinator models what goes on   *)
(* inside).  The service is a sequence of transactions, a control is a     *)
(* position in it, and NoControl is the nil control.                       *)
(***************************************************************************)
EXTENDS Naturals, Sequences

NoControl == 0

(* view is what get_status answers; fate is what became of the work.  The  *)
(* two differ: a transaction whose only resource committed in one phase    *)
(* still says that it is active.  by tells who began it.                   *)
View == {"Active", "MarkedRollback", "NoTransaction"}
Fate == {"open", "committed", "aborted"}

Controls(service) == DOMAIN service

Answer(service, raised) == [service |-> service, raised |-> raised]

Create(service, by) ==
    Append(service, [view |-> "Active", fate |-> "open", by |-> by])

(* The work of x ends in this way, unless it ended before.                 *)
Ends(service, x, view, fate) ==
    [service EXCEPT ![x].view = view, ![x].fate = IF @ = "open" THEN fate ELSE @]

(* Without a resource, or with two and more, the coordinator finishes and  *)
(* answers; with one it leaves its status alone, and a deferred trigger    *)
(* that fails in it reaches the caller as UNKNOWN.                         *)
CommitActive(service, x) ==
    {Answer(Ends(service, x, "NoTransaction", "committed"), "none"),
     Answer(Ends(service, x, "NoTransaction", "aborted"), "TRANSACTION_ROLLEDBACK"),
     Answer(Ends(service, x, "Active", "committed"), "none"),
     Answer(Ends(service, x, "Active", "aborted"), "TRANSACTION_ROLLEDBACK"),
     Answer(Ends(service, x, "Active", "aborted"), "UNKNOWN")}

(* Mutant of CommitOutcomes: the mark is not looked at.                    *)
CommitOutcomesUnmarked(service, x) ==
    IF service[x].view = "NoTransaction"
    THEN {Answer(service, "none")}
    ELSE CommitActive(service, x)

(* A finished transaction answers a commit as if it had committed.         *)
CommitOutcomes(service, x) ==
    CASE service[x].view = "Active" -> CommitActive(service, x)
      [] service[x].view = "MarkedRollback" ->
            {Answer(Ends(service, x, "NoTransaction", "aborted"),
                    "TRANSACTION_ROLLEDBACK")}
      [] service[x].view = "NoTransaction" -> {Answer(service, "none")}

Rollback(service, x) ==
    IF service[x].view = "NoTransaction"
    THEN Answer(service, "INVALID_TRANSACTION")
    ELSE Answer(Ends(service, x, "NoTransaction", "aborted"), "none")

RollbackOnly(service, x) ==
    IF service[x].view = "NoTransaction"
    THEN Answer(service, "Inactive")
    ELSE Answer([service EXCEPT ![x].view = "MarkedRollback"], "none")
=============================================================================
