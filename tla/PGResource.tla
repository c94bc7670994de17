----------------------------- MODULE PGResource -----------------------------
(***************************************************************************)
(* The recoverable resource of one PostgreSQL connection: Resource_impl    *)
(* dispatches every operation to PG_Resource_impl                          *)
(* (ots/src/Resource_impl.cpp, ots/src/PostgreSQLResource_impl.cpp).       *)
(*                                                                         *)
(* A resource is a record: the connection of XaBackend and the field       *)
(* status, the member _ResourceStatus.  Every operator below is one        *)
(* operation: the state it leaves and the answer it gives.  An operation   *)
(* that the code turns into an endless loop has the answer "spins".        *)
(***************************************************************************)
EXTENDS XaBackend

ResourceStatus == {"Active", "Preparing", "Prepared", "Committing", "RollingBack"}

ResourceState ==
    [live : BOOLEAN, block : BlockState, trans : TransState, fate : Fate,
     status : ResourceStatus]

NewResource ==
    [live |-> TRUE, block |-> "DEFAULT", trans |-> "DEFAULT", fate |-> "none",
     status |-> "Active"]

ResourceAnswer ==
    {"VoteCommit", "VoteRollback", "ok", "NotPrepared", "HeuristicRollback",
     "TRANSACTION_ROLLEDBACK", "spins"}

Outcome(p, answer) == [p |-> p, answer |-> answer]

(* pg_BeginTrans: BEGIN on the connection.  The answer is its result; the  *)
(* status of a resource that served a transaction before is left as it is, *)
(* also by pg_forget, which is called before it and is empty.              *)
PgBeginTrans(p) == IF p.live THEN Outcome(Begin(p), "ok")
                             ELSE Outcome(p, "NotPrepared")

(* pg_prepare.  The status becomes Prepared whatever the vote was.         *)
(* RollingBack waits for a status that nothing assigns.                    *)
PgPrepare(p) ==
    CASE p.status = "Active" ->
            Outcome([XaPrepare(p) EXCEPT !.status = "Prepared"],
                    IF CanPrepare(p) THEN "VoteCommit" ELSE "VoteRollback")
      [] p.status = "RollingBack" -> Outcome(p, "spins")
      [] OTHER -> Outcome(p, "VoteRollback")

(* pg_PQsetdb: a new connection takes the place of the old one, which      *)
(* nobody closes; the status is left as it is.                             *)
PgSetdb(p) ==
    [p EXCEPT !.live = TRUE, !.block = "DEFAULT", !.trans = "DEFAULT", !.fate = "none"]

(* Mutant of PgRollback: a resource in any other status is made ready for  *)
(* its next transaction, without being rolled back.                        *)
PgRollbackReady(p) ==
    CASE p.status \in {"Active", "Prepared"} ->
            Outcome([XaRollback(p) EXCEPT !.status = "RollingBack"], "ok")
      [] p.status = "RollingBack" -> Outcome(p, "spins")
      [] OTHER -> Outcome([p EXCEPT !.status = "Active"], "ok")

(* pg_rollback.  Only Active and Prepared are rolled back; the default     *)
(* branch (Committing among others) returns normally without doing it.     *)
PgRollback(p) ==
    CASE p.status \in {"Active", "Prepared"} ->
            Outcome([XaRollback(p) EXCEPT !.status = "RollingBack"], "ok")
      [] p.status = "RollingBack" -> Outcome(p, "spins")
      [] OTHER -> Outcome(p, "ok")

(* pg_commit.  A resource that is Committing already returns normally.     *)
PgCommit(p, triggerFails) ==
    CASE p.status = "Prepared" ->
            Outcome([XaCommit(p, triggerFails) EXCEPT !.status = "Committing"],
                    IF XaCommitOk(p, triggerFails) THEN "ok" ELSE "HeuristicRollback")
      [] p.status = "RollingBack" -> Outcome(p, "spins")
      [] p.status \in {"Active", "Preparing"} -> Outcome(p, "NotPrepared")
      [] OTHER -> Outcome(p, "ok")

(* pg_commit_one_phase: pg_prepare, then pg_commit or pg_rollback.         *)
PgCommitOnePhase(p, triggerFails) ==
    LET prepared == PgPrepare(p)
        committed == PgCommit(prepared.p, triggerFails)
        undone == PgRollback(prepared.p)
    IN  CASE prepared.answer = "VoteCommit"   -> committed
          [] prepared.answer = "VoteRollback" ->
                IF undone.answer = "spins" THEN undone
                ELSE Outcome(undone.p, "TRANSACTION_ROLLEDBACK")
          [] OTHER -> prepared
=============================================================================
