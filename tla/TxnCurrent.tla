----------------------------- MODULE TxnCurrent -----------------------------
(***************************************************************************)
(* The transaction of a thread: Current_impl                               *)
(* (ots/src/CosTransactionsCurrent_impl.cpp) over its slot, and what the   *)
(* interceptors of a request do with slots and service contexts.           *)
(* An operation takes the service and the slot of the thread and yields    *)
(* both as it leaves them, with the exception it raises.                   *)
(***************************************************************************)
EXTENDS TransactionService

Left(service, slot, raised) ==
    [service |-> service, slot |-> slot, raised |-> raised]

GetStatus(service, slot) ==
    IF slot = NoControl THEN "NoTransaction" ELSE service[slot].view

HasTransaction(service, slot) == GetStatus(service, slot) # "NoTransaction"

(* begin looks at the slot and not at the status of what is in it.         *)
Begin(service, slot, by) ==
    IF slot = NoControl
    THEN Left(Create(service, by), Len(service) + 1, "none")
    ELSE Left(service, slot, "SubtransactionsUnavailable")

(* The slot is cleared by a call that returns, and only by that.           *)
Cleared(answer, slot) ==
    Left(answer.service, IF answer.raised = "none" THEN NoControl ELSE slot,
         answer.raised)

CurrentCommit(service, slot) ==
    IF slot = NoControl
    THEN {Left(service, slot, "NoTransaction")}
    ELSE {Cleared(answer, slot) : answer \in CommitOutcomes(service, slot)}

CurrentRollback(service, slot) ==
    IF slot = NoControl
    THEN Left(service, slot, "NoTransaction")
    ELSE Cleared(Rollback(service, slot), slot)

CurrentRollbackOnly(service, slot) ==
    IF slot = NoControl THEN service ELSE RollbackOnly(service, slot).service

(* Mutant of Resume: the nil control of a thread that was cleared wins.    *)
ResumeNothing(slot, control) == slot

Resume(slot, control) == IF control = NoControl THEN slot ELSE control

(* The references of a container carry the policy ADAPTS, so a request     *)
(* takes along the transaction of its thread, if there is one.             *)
RequestContext(slot) == slot

(* send_reply and receive_reply: a system exception marks the transaction, *)
(* and a refusal to be marked is swallowed.                                *)
MarkOnException(service, context, raised) ==
    IF raised = "system" /\ context # NoControl
    THEN RollbackOnly(service, context).service
    ELSE service
=============================================================================
