--------------------------- MODULE TxnInterceptor ---------------------------
(***************************************************************************)
(* The transaction policies of the container: what TxnInterceptor          *)
(* (ccm/src/AppSvr/TxnInterceptor.cpp) does before and after an upcall,    *)
(* and which policy an operation has.  Before the upcall a policy leaves   *)
(* an action and a control in the cookie of the request; after it,         *)
(* postinvoke acts on them.                                                *)
(***************************************************************************)
EXTENDS TxnCurrent

CONSTANT
    Descriptor  \* the calls of setTxnPolicy, in order: interface, operation, policy

Policies ==
    {"self-managed", "not-supported", "required", "supports", "requires-new",
     "mandatory", "never"}

ASSUME DescriptorAssumption ==
    \A n \in DOMAIN Descriptor : Descriptor[n].policy \in Policies

(* Operations of the container's own interfaces take no part.              *)
Excluded == {"remove", "_is_a"}

(* The second operation of an interface is added to a copy of its table,   *)
(* and the insertion of the copy finds the interface there: the first one  *)
(* stays alone.                                                            *)
Installed(interface) ==
    {n \in DOMAIN Descriptor :
        /\ Descriptor[n].interface = interface
        /\ \A m \in DOMAIN Descriptor :
              Descriptor[m].interface = interface => n <= m}

PolicyOf(interface, operation) ==
    LET applying == {n \in Installed(interface) :
                        Descriptor[n].operation \in {operation, "*"}}
    IN  IF operation \in Excluded \/ applying = {}
        THEN "none"
        ELSE Descriptor[CHOOSE n \in applying : TRUE].policy

-----------------------------------------------------------------------------
Action == {"NOACTION", "RESUME", "COMMIT", "COMMITRESUME"}

NoCookie == [action |-> "NOACTION", control |-> NoControl]

Prepared(left, action, control) ==
    [service |-> left.service, slot |-> left.slot, raised |-> left.raised,
     cookie |-> [action |-> action, control |-> control]]

Unchanged(service, slot, raised) ==
    Prepared(Left(service, slot, raised), "NOACTION", NoControl)

NotSupported(service, slot) ==
    IF HasTransaction(service, slot)
    THEN Prepared(Left(service, NoControl, "none"), "RESUME", slot)
    ELSE Unchanged(service, slot, "none")

(* begin, and where it refuses, a rollback whose own refusal nobody        *)
(* catches.                                                                *)
BeginForRequest(service, slot, by) ==
    LET begun == Begin(service, slot, by)
        rolledBack == CurrentRollback(service, slot)
    IN  IF begun.raised = "none"
        THEN Prepared(begun, "COMMIT", begun.slot)
        ELSE Prepared(rolledBack, "NOACTION", NoControl)

(* Mutant of Required: the caller's transaction is put into the cookie.    *)
RequiredCommits(service, slot) ==
    IF HasTransaction(service, slot)
    THEN Prepared(Left(service, slot, "none"), "COMMIT", slot)
    ELSE BeginForRequest(service, slot, "container")

(* Mutant of Required: the cookie is left as it was made.                  *)
RequiredForgotten(service, slot) ==
    IF HasTransaction(service, slot)
    THEN Unchanged(service, slot, "none")
    ELSE Prepared(Begin(service, slot, "container"), "NOACTION", NoControl)

Required(service, slot) ==
    IF HasTransaction(service, slot)
    THEN Unchanged(service, slot, "none")
    ELSE BeginForRequest(service, slot, "container")

(* With a transaction the control in the cookie is the caller's, and the   *)
(* action is to commit and resume it.                                      *)
RequiresNew(service, slot) ==
    IF HasTransaction(service, slot)
    THEN Prepared(Begin(service, NoControl, "nested"), "COMMITRESUME", slot)
    ELSE BeginForRequest(service, slot, "container")

Mandatory(service, slot) ==
    Unchanged(service, slot,
        IF HasTransaction(service, slot) THEN "none" ELSE "TRANSACTION_REQUIRED")

Never(service, slot) ==
    Unchanged(service, slot,
        IF HasTransaction(service, slot) THEN "INVALID_TRANSACTION" ELSE "none")

Preinvoke(policy, service, slot) ==
    CASE policy = "not-supported" -> NotSupported(service, slot)
      [] policy = "required" -> Required(service, slot)
      [] policy = "requires-new" -> RequiresNew(service, slot)
      [] policy = "mandatory" -> Mandatory(service, slot)
      [] policy = "never" -> Never(service, slot)
      [] policy \in {"supports", "self-managed", "none"} ->
            Unchanged(service, slot, "none")

-----------------------------------------------------------------------------
(* terminator->commit(false).  A system exception is followed by a         *)
(* rollback of the same terminator; TRANSACTION_ROLLEDBACK is no system    *)
(* exception and leaves postinvoke, as does a refusal of the rollback.     *)
TerminatorCommit(service, control) ==
    {IF answer.raised = "UNKNOWN" THEN Rollback(answer.service, control) ELSE answer :
        answer \in CommitOutcomes(service, control)}

(* What postinvoke may leave.  The slot keeps a transaction that COMMIT    *)
(* has ended.                                                              *)
Postinvoke(cookie, service, slot) ==
    LET control == cookie.control
    IN  CASE cookie.action = "NOACTION" -> {Left(service, slot, "none")}
          [] cookie.action = "RESUME" ->
                {Left(service, Resume(slot, control), "none")}
          [] cookie.action = "COMMIT" ->
                {Left(answer.service, slot, answer.raised) :
                    answer \in TerminatorCommit(service, control)}
          [] cookie.action = "COMMITRESUME" ->
                {Left(answer.service,
                      IF answer.raised = "none" THEN Resume(slot, control) ELSE slot,
                      answer.raised) :
                    answer \in TerminatorCommit(service, control)}
=============================================================================
