------------------------------ MODULE XaBackend ------------------------------
(***************************************************************************)
(* The transaction block of one PostgreSQL connection, with the commands   *)
(* the project added to the server for two-phase commit: XAPREPARE,        *)
(* XACOMMIT and XAROLLBACK                                                 *)
(* (postgresql/src/backend/access/transam/xact.c).                         *)
(*                                                                         *)
(* Each operator is one whole command: StartTransactionCommand, the        *)
(* command's own function and CommitTransactionCommand (or, when the       *)
(* command raises an error, AbortCurrentTransaction).  The block states    *)
(* END, ENDABORT, XAEND and XAABORT exist only inside a command and do not *)
(* appear.  A connection is any record with the fields                     *)
(*                                                                         *)
(*   live   the connection to the server exists                            *)
(*   block  CurrentTransactionState->blockState between two commands       *)
(*   trans  CurrentTransactionState->state between two commands            *)
(*   fate   what became of the work done under the first BEGIN             *)
(*                                                                         *)
(* so that a resource can carry the connection it owns.                    *)
(***************************************************************************)

BlockState == {"DEFAULT", "INPROGRESS", "PREPARE", "ABORT"}
TransState == {"DEFAULT", "INPROGRESS", "PREPARE", "ABORT"}

(* "none" before the first BEGIN, "open" while undecided.                  *)
Fate == {"none", "open", "committed", "aborted"}

(* The fate of the first transaction is settled once and for all.          *)
Settle(b, f) == [b EXCEPT !.fate = IF @ = "open" THEN f ELSE @]

(* RecordTransactionCommit / RecordTransactionAbort, then back to DEFAULT. *)
Commits(b) == [Settle(b, "committed") EXCEPT !.block = "DEFAULT", !.trans = "DEFAULT"]
Aborts(b)  == [Settle(b, "aborted") EXCEPT !.block = "DEFAULT", !.trans = "DEFAULT"]

(* BEGIN: ignored in an aborted block (the server only answers that it  *)
(* ignores it), a NOTICE in any other open one; a prepared transaction     *)
(* falls back to the block state INPROGRESS while its state stays PREPARE. *)
Begin(b) ==
    CASE b.block = "ABORT"   -> b
      [] b.block = "DEFAULT" ->
            [b EXCEPT !.block = "INPROGRESS", !.trans = "INPROGRESS",
                      !.fate = IF @ = "none" THEN "open" ELSE @]
      [] OTHER -> [b EXCEPT !.block = "INPROGRESS"]

(* The vote of XAPREPARE: a transaction id (commit) only from INPROGRESS.  *)
(* PrepareTransaction never returns XAREADONLY, so 0 is never sent.        *)
CanPrepare(b) == b.live /\ b.block = "INPROGRESS" /\ b.trans = "INPROGRESS"

XaPrepare(b) ==
    CASE CanPrepare(b) -> [b EXCEPT !.block = "PREPARE", !.trans = "PREPARE"]
      [] ~b.live \/ b.block = "ABORT" -> b
      [] OTHER -> Aborts(b)

(* XACOMMIT.  A prepared transaction runs its deferred triggers only now   *)
(* (XaCommitTransaction calls DeferredTriggerEndXact): when one of them    *)
(* fails the transaction aborts although it voted to commit.  Outside any  *)
(* block the command ends the server process (CleanupTransaction is not in *)
(* the abort state).                                                       *)
XaCommit(b, triggerFails) ==
    CASE ~b.live -> b
      [] b.live /\ b.block \in {"PREPARE", "INPROGRESS"} ->
            IF triggerFails THEN Aborts(b) ELSE Commits(b)
      [] b.live /\ b.block = "ABORT"   -> Aborts(b)
      [] b.live /\ b.block = "DEFAULT" -> [b EXCEPT !.live = FALSE]

(* Whether XACOMMIT is answered with PGRES_COMMAND_OK: it is in an aborted *)
(* block too.                                                              *)
XaCommitOk(b, triggerFails) ==
    /\ b.live
    /\ b.block # "DEFAULT"
    /\ b.block = "ABORT" \/ ~triggerFails

(* XAROLLBACK: returns without leaving an aborted block.                   *)
XaRollback(b) ==
    IF b.live /\ b.block \in {"PREPARE", "INPROGRESS"} THEN Aborts(b) ELSE b

(* A statement of the component fails inside the transaction block.        *)
StatementFails(b) ==
    [Settle(b, "aborted") EXCEPT !.block = "ABORT", !.trans = "ABORT"]

(* The connection breaks.  The prepared state lives in the server process  *)
(* only, so it is lost with it.                                            *)
ConnectionLost(b) ==
    [Settle(b, "aborted") EXCEPT !.live = FALSE, !.block = "DEFAULT", !.trans = "DEFAULT"]
=============================================================================
