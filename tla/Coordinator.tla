----------------------------- MODULE Coordinator -----------------------------
(***************************************************************************)
(* One transaction of the Object Transaction Service: the coordinator of   *)
(* ots/src/CosTransactionsOTS_impl.cpp with the PostgreSQL resources       *)
(* registered with it, the synchronizations it notifies and the calls that *)
(* other processes make on it.                                             *)
(*                                                                         *)
(* The coordinator has no lock, and it is written for an ORB that goes on  *)
(* dispatching requests while a call waits (its comments expect a repeated *)
(* call while the first has not finished, its busy loops another call that *)
(* changes the status).  So each call is a process with a program counter, *)
(* and it can be overtaken between any two remote calls and any two        *)
(* accesses of the shared members _TransStatus and _RCV_list_var.  A       *)
(* remote call is two steps: the resource executes it, and the coordinator *)
(* handles what came back.  A resource executes one operation at a time.   *)
(***************************************************************************)
EXTENDS Naturals, Sequences, PGResource

CONSTANTS
    Resources,          \* resource objects
    Syncs,              \* synchronization objects
    Committers,         \* calls of Terminator.commit
    Rollbackers,        \* calls of Terminator.rollback
    Late,               \* those of them made only once completion has begun
    Markers,            \* calls of Coordinator.rollback_only
    Registrars,         \* calls of Coordinator.register_resource
    Target,             \* the resource each of those registers
    ReportHeuristics,   \* the argument report_heuristics of every commit
    ThrowSpecsEnforced, \* TRUE: g++ build, a throw specification is checked
    ProxiesCached,      \* TRUE: equal references unmarshal to one pointer
    Failing,            \* resources on which a statement may fail
    Disconnecting,      \* resources whose connection may break
    Deferring,          \* resources whose work has deferred triggers
    MaxFaults           \* bound: remote calls that fail in the network

Terminators == Committers \cup Rollbackers
Calls == Terminators \cup Markers \cup Registrars

ASSUME CallsAssumption ==
    /\ Committers \cap Rollbackers = {}
    /\ Terminators \cap (Markers \cup Registrars) = {}
    /\ Markers \cap Registrars = {}
    /\ Late \subseteq Terminators

ASSUME TargetAssumption == Target \in [Registrars -> Resources]

ASSUME SwitchesAssumption ==
    /\ ReportHeuristics \in BOOLEAN
    /\ ThrowSpecsEnforced \in BOOLEAN
    /\ ProxiesCached \in BOOLEAN

ASSUME FaultsAssumption == MaxFaults \in Nat

VARIABLES
    status,  \* _TransStatus
    rcv,     \* _RCV_list_var: the registered resources and their votes
    syncs,   \* SynchronizationManager::_syncs
    before,  \* how often before_completion was called on each of them
    after,   \* how often after_completion was called on each of them
    res,     \* the resources, see PGResource
    pc,      \* where each call is
    ix,      \* the loop index of a terminating call
    len,     \* its tmp_len, the length of the list when it was read
    heur,    \* its flag heuristics
    ans,     \* the answer to its last remote call
    reply,   \* what each call returned or threw
    up,      \* the transaction service process runs
    faults   \* network failures so far

coordVars == <<status, rcv, syncs, before, after>>
callVars == <<ix, len, heur>>
vars == <<status, rcv, syncs, before, after, res, pc, ix, len, heur, ans,
          reply, up, faults>>
-----------------------------------------------------------------------------
TransactionStatus ==
    {"Active", "MarkedRollback", "Prepared", "Committed", "RolledBack",
     "Unknown", "NoTransaction", "Preparing", "Committing", "RollingBack"}

ResourceVote ==
    {"VoteCommit", "VoteRollback", "VoteReadOnly", "NotPrepared",
     "Committed", "RolledBack"}

NetworkFailure == {"COMM_FAILURE", "TRANSIENT"}

Answer == ResourceAnswer \cup NetworkFailure \cup {"none", "UNKNOWN"}

Reply ==
    {"none", "ok", "Inactive", "INVALID_TRANSACTION", "WRONG_TRANSACTION",
     "TRANSACTION_ROLLEDBACK", "HeuristicHazard", "HeuristicRollback",
     "NotPrepared", "COMM_FAILURE", "TRANSIENT", "UNKNOWN"}

Label ==
    {"idle", "before", "dispatch", "onephase", "onephased", "prepare", "voted",
     "rollback", "undo", "undone", "redo", "redone", "undoAfter", "commit",
     "committed", "recommit", "recommitted", "after", "spin", "begin",
     "enlist", "done"}

(* Exceptions that Coordinator_impl::commit and rollback throw although    *)
(* their throw specifications leave them out.                              *)
Escaping == {"HeuristicHazard", "HeuristicRollback", "NotPrepared"}

Init ==
    /\ status = "Active"
    /\ rcv = << >>
    /\ syncs = << >>
    /\ before = [s \in Syncs |-> 0]
    /\ after = [s \in Syncs |-> 0]
    /\ res = [r \in Resources |-> NewResource]
    /\ pc = [c \in Calls |-> "idle"]
    /\ ix = [c \in Terminators |-> 1]
    /\ len = [c \in Terminators |-> 0]
    /\ heur = [c \in Terminators |-> FALSE]
    /\ ans = [c \in Terminators |-> "none"]
    /\ reply = [c \in Calls |-> "none"]
    /\ up = TRUE
    /\ faults = 0
-----------------------------------------------------------------------------
Goto(c, label) ==
    /\ pc' = [pc EXCEPT ![c] = label]
    /\ UNCHANGED <<reply, up>>

Return(c, v) ==
    /\ pc' = [pc EXCEPT ![c] = "done"]
    /\ reply' = [reply EXCEPT ![c] = v]
    /\ UNCHANGED up

(* std::unexpected ends the service, and every client that waits for it    *)
(* sees its connection break.                                              *)
Terminate ==
    /\ up' = FALSE
    /\ pc' = [c \in Calls |-> IF pc[c] = "idle" THEN "idle" ELSE "done"]
    /\ reply' = [c \in Calls |-> IF pc[c] \in {"idle", "done"} THEN reply[c]
                                 ELSE "COMM_FAILURE"]

Throw(c, e) ==
    IF e \in Escaping /\ ThrowSpecsEnforced THEN Terminate ELSE Return(c, e)

(* A loop of the code starts over the first n entries of a list.           *)
Loop(c, n, label) ==
    /\ ix' = [ix EXCEPT ![c] = 1]
    /\ len' = [len EXCEPT ![c] = n]
    /\ Goto(c, label)

Advance(c) == ix' = [ix EXCEPT ![c] = @ + 1]

More(c) == ix[c] <= len[c]

Entry(c) == rcv[ix[c]]

(* The resource executes a call and the answer comes back, or the network  *)
(* fails before the call is executed or before its answer arrives.         *)
Invoke(c, outcome) ==
    \/ /\ res' = [res EXCEPT ![Entry(c).r] = outcome.p]
       /\ ans' = [ans EXCEPT ![c] = outcome.answer]
       /\ UNCHANGED faults
    \/ /\ faults < MaxFaults
       /\ faults' = faults + 1
       /\ \E f \in NetworkFailure : ans' = [ans EXCEPT ![c] = f]
       /\ UNCHANGED res
    \/ /\ faults < MaxFaults
       /\ faults' = faults + 1
       /\ ans' = [ans EXCEPT ![c] = "COMM_FAILURE"]
       /\ res' = [res EXCEPT ![Entry(c).r] = outcome.p]

(* A late call repeats an earlier one ("sent for more time after a period  *)
(* of waiting"): it is made only once the status has left Active and       *)
(* MarkedRollback.                                                         *)
MayCall(c) == c \in Late => status \notin {"Active", "MarkedRollback"}

(* Setting the vote of a list entry.  change_resourcevote searches for the *)
(* reference and changes the first entry that holds the same pointer.      *)
SetVote(i, v) == rcv' = [rcv EXCEPT ![i].rv = v]

ChangeResourceVote(i, v) ==
    rcv' = [j \in DOMAIN rcv |->
              IF \/ ~ProxiesCached /\ j = i
                 \/ /\ ProxiesCached
                    /\ rcv[j].r = rcv[i].r
                    /\ \A k \in 1..(j - 1) : rcv[k].r # rcv[i].r
              THEN [rcv[j] EXCEPT !.rv = v]
              ELSE rcv[j]]

TriggerFails(r) == IF r \in Deferring THEN BOOLEAN ELSE {FALSE}
-----------------------------------------------------------------------------
(* register_resource: the status is checked and the list searched, then    *)
(* BEGIN runs on the resource, then the entry is appended; the status is   *)
(* not looked at again.                                                    *)
Register(c) ==
    /\ up
    /\ pc[c] = "idle"
    /\ \/ /\ status = "Active"
          /\ IF ProxiesCached /\ \E i \in DOMAIN rcv : rcv[i].r = Target[c]
             THEN Return(c, "ok")
             ELSE Goto(c, "begin")
       \/ /\ status = "MarkedRollback"
          /\ Return(c, "TRANSACTION_ROLLEDBACK")
       \/ /\ status \notin {"Active", "MarkedRollback"}
          /\ Return(c, "Inactive")
    /\ UNCHANGED <<coordVars, callVars, res, ans, faults>>

BeginTrans(c) ==
    /\ up
    /\ pc[c] = "begin"
    /\ LET outcome == PgBeginTrans(res[Target[c]])
       IN  \/ /\ res' = [res EXCEPT ![Target[c]] = outcome.p]
              /\ IF outcome.answer = "ok" THEN Goto(c, "enlist")
                                          ELSE Return(c, "Inactive")
              /\ UNCHANGED faults
           \/ /\ faults < MaxFaults
              /\ faults' = faults + 1
              /\ res' \in {res, [res EXCEPT ![Target[c]] = outcome.p]}
              /\ Return(c, "COMM_FAILURE")
    /\ UNCHANGED <<coordVars, callVars, ans>>

Enlist(c) ==
    /\ up
    /\ pc[c] = "enlist"
    /\ rcv' = Append(rcv, [r |-> Target[c], rv |-> "NotPrepared"])
    /\ Return(c, "ok")
    /\ UNCHANGED <<status, syncs, before, after, callVars, res, ans, faults>>

RegisterSynchronization(s) ==
    /\ up
    /\ status = "Active"
    /\ \A i \in DOMAIN syncs : syncs[i] # s
    /\ syncs' = Append(syncs, s)
    /\ UNCHANGED <<status, rcv, before, after, callVars, res, pc, ans, reply,
                   up, faults>>

RollbackOnly(c) ==
    /\ up
    /\ pc[c] = "idle"
    /\ IF status \in {"Active", "MarkedRollback"}
       THEN status' = "MarkedRollback" /\ Return(c, "ok")
       ELSE UNCHANGED status /\ Return(c, "Inactive")
    /\ UNCHANGED <<rcv, syncs, before, after, callVars, res, ans, faults>>
-----------------------------------------------------------------------------
(* Mutant of Commit: a marked transaction is waited for instead of being   *)
(* rolled back.                                                            *)
CommitWaits(c) ==
    /\ up
    /\ pc[c] = "idle"
    /\ MayCall(c)
    /\ \/ status = "Active" /\ Loop(c, Len(rcv), "before")
       \/ status = "Committing" /\ Loop(c, Len(rcv), "recommit")
       \/ /\ status \in {"MarkedRollback", "RollingBack"}
          /\ Goto(c, "spin") /\ UNCHANGED <<ix, len>>
       \/ /\ status \in {"NoTransaction", "Preparing", "Committed",
                         "RolledBack", "Prepared", "Unknown"}
          /\ Return(c, IF status = "RolledBack" THEN "TRANSACTION_ROLLEDBACK"
                                                ELSE "ok")
          /\ UNCHANGED <<ix, len>>
    /\ UNCHANGED <<coordVars, heur, res, ans, faults>>

(* commit: the switch over _TransStatus.  The length of the list is read   *)
(* before before_completion is called.                                     *)
Commit(c) ==
    /\ up
    /\ pc[c] = "idle"
    /\ MayCall(c)
    /\ \/ status = "Active" /\ Loop(c, Len(rcv), "before")
       \/ status = "MarkedRollback" /\ Goto(c, "rollback") /\ UNCHANGED <<ix, len>>
       \/ status = "Committing" /\ Loop(c, Len(rcv), "recommit")
       \/ status = "RollingBack" /\ Goto(c, "spin") /\ UNCHANGED <<ix, len>>
       \/ /\ status \in {"NoTransaction", "Preparing", "Committed",
                         "RolledBack", "Prepared", "Unknown"}
          /\ Return(c, IF status = "RolledBack" THEN "TRANSACTION_ROLLEDBACK"
                                                ELSE "ok")
          /\ UNCHANGED <<ix, len>>
    /\ UNCHANGED <<coordVars, heur, res, ans, faults>>

BeforeCompletion(c) ==
    /\ up
    /\ pc[c] = "before"
    /\ IF ix[c] <= Len(syncs)
       THEN /\ before' = [before EXCEPT ![syncs[ix[c]]] = @ + 1]
            /\ Advance(c)
            /\ UNCHANGED <<pc, reply, up>>
       ELSE /\ Goto(c, "dispatch")
            /\ UNCHANGED <<before, ix>>
    /\ UNCHANGED <<status, rcv, syncs, after, len, heur, res, ans, faults>>

(* Mutant of Dispatch: two resources are committed in one phase.           *)
DispatchOffByOne(c) ==
    /\ up
    /\ pc[c] = "dispatch"
    /\ ix' = [ix EXCEPT ![c] = 1]
    /\ CASE len[c] = 0 -> status' = "NoTransaction" /\ Return(c, "ok")
         [] len[c] \in {1, 2} -> UNCHANGED status /\ Goto(c, "onephase")
         [] OTHER      -> status' = "Preparing" /\ Goto(c, "prepare")
    /\ UNCHANGED <<rcv, syncs, before, after, len, heur, res, ans, faults>>

(* switch (tmp_len): no resource, one resource, more than one.             *)
Dispatch(c) ==
    /\ up
    /\ pc[c] = "dispatch"
    /\ ix' = [ix EXCEPT ![c] = 1]
    /\ CASE len[c] = 0 -> status' = "NoTransaction" /\ Return(c, "ok")
         [] len[c] = 1 -> UNCHANGED status /\ Goto(c, "onephase")
         [] OTHER      -> status' = "Preparing" /\ Goto(c, "prepare")
    /\ UNCHANGED <<rcv, syncs, before, after, len, heur, res, ans, faults>>

(* The single resource decides.  The status stays Active.  A failing       *)
(* deferred trigger makes pg_commit_one_phase throw an exception its own   *)
(* throw specification forbids: the resource process ends, or the answer   *)
(* is one the coordinator's stub does not know.                            *)
CommitOnePhase(c) ==
    /\ up
    /\ pc[c] = "onephase"
    /\ \E t \in TriggerFails(Entry(c).r) :
         LET outcome == PgCommitOnePhase(res[Entry(c).r], t)
         IN  Invoke(c,
               IF outcome.answer # "HeuristicRollback" THEN outcome
               ELSE IF ThrowSpecsEnforced
                    THEN Outcome(ConnectionLost(outcome.p), "COMM_FAILURE")
                    ELSE Outcome(outcome.p, "UNKNOWN"))
    /\ Goto(c, "onephased")
    /\ UNCHANGED <<coordVars, callVars>>

OnePhaseAnswered(c) ==
    /\ up
    /\ pc[c] = "onephased"
    /\ ans[c] # "spins"
    /\ CASE ans[c] = "ok" -> Return(c, "ok")
         [] ans[c] = "COMM_FAILURE" ->
               IF ReportHeuristics THEN Throw(c, "HeuristicHazard")
                                   ELSE Return(c, "ok")
         [] OTHER -> Throw(c, ans[c])
    /\ UNCHANGED <<coordVars, callVars, res, ans, faults>>
-----------------------------------------------------------------------------
(* The voting phase.  It stops at the first vote to roll back.             *)
PrepareNext(c) ==
    /\ up
    /\ pc[c] = "prepare"
    /\ More(c)
    /\ status # "MarkedRollback"
    /\ Invoke(c, PgPrepare(res[Entry(c).r]))
    /\ Goto(c, "voted")
    /\ UNCHANGED <<coordVars, callVars>>

(* Mutants of Voted: the answer itself is stored as the vote; a vote to    *)
(* roll back does not mark the transaction.                                *)
VotedRaw(c) ==
    /\ up
    /\ pc[c] = "voted"
    /\ ans[c] # "spins"
    /\ SetVote(ix[c], ans[c])
    /\ status' = IF ans[c] = "VoteCommit" THEN status ELSE "MarkedRollback"
    /\ Advance(c)
    /\ Goto(c, "prepare")
    /\ UNCHANGED <<syncs, before, after, len, heur, res, ans, faults>>

VotedUnmarked(c) ==
    /\ up
    /\ pc[c] = "voted"
    /\ ans[c] # "spins"
    /\ SetVote(ix[c], IF ans[c] = "VoteCommit" THEN "VoteCommit" ELSE "RolledBack")
    /\ Advance(c)
    /\ Goto(c, "prepare")
    /\ UNCHANGED <<status, syncs, before, after, len, heur, res, ans, faults>>

(* A resource that cannot be reached counts as a vote to roll back; any    *)
(* other system exception leaves commit with the status Preparing.         *)
Voted(c) ==
    /\ up
    /\ pc[c] = "voted"
    /\ ans[c] # "spins"
    /\ \/ /\ ans[c] = "VoteCommit"
          /\ SetVote(ix[c], "VoteCommit")
          /\ Advance(c)
          /\ Goto(c, "prepare")
          /\ UNCHANGED status
       \/ /\ ans[c] \in {"VoteRollback", "COMM_FAILURE"}
          /\ SetVote(ix[c], "RolledBack")
          /\ status' = "MarkedRollback"
          /\ Advance(c)
          /\ Goto(c, "prepare")
       \/ /\ ans[c] \notin {"VoteCommit", "VoteRollback", "COMM_FAILURE"}
          /\ Throw(c, ans[c])
          /\ UNCHANGED <<status, rcv, ix>>
    /\ UNCHANGED <<syncs, before, after, len, heur, res, ans, faults>>

(* The decision.                                                           *)
Decide(c) ==
    /\ up
    /\ pc[c] = "prepare"
    /\ ~More(c) \/ status = "MarkedRollback"
    /\ IF status = "MarkedRollback"
       THEN Goto(c, "rollback") /\ UNCHANGED <<status, ix>>
       ELSE /\ status' = "Committing"
            /\ ix' = [ix EXCEPT ![c] = 1]
            /\ Goto(c, "commit")
    /\ UNCHANGED <<rcv, syncs, before, after, len, heur, res, ans, faults>>

(* The commit phase: every entry but one that voted to roll back.  The     *)
(* retry that a commit makes in status Committing takes the entries still  *)
(* marked VoteCommit.                                                      *)
CommitNext(c) ==
    /\ up
    /\ pc[c] \in {"commit", "recommit"}
    /\ More(c)
    /\ IF \/ pc[c] = "commit" /\ Entry(c).rv # "VoteRollback"
          \/ pc[c] = "recommit" /\ Entry(c).rv = "VoteCommit"
       THEN /\ \E t \in TriggerFails(Entry(c).r) :
                 Invoke(c, PgCommit(res[Entry(c).r], t))
            /\ Goto(c, IF pc[c] = "commit" THEN "committed" ELSE "recommitted")
            /\ UNCHANGED ix
       ELSE /\ Advance(c)
            /\ UNCHANGED <<res, pc, ans, reply, up, faults>>
    /\ UNCHANGED <<coordVars, len, heur>>

(* Mutant of CommitAnswered: a resource that cannot be reached is passed   *)
(* over without noting the heuristic outcome.                              *)
CommitAnsweredQuietly(c) ==
    /\ up
    /\ pc[c] \in {"committed", "recommitted"}
    /\ ans[c] # "spins"
    /\ IF ans[c] = "ok" THEN ChangeResourceVote(ix[c], "Committed")
                        ELSE UNCHANGED rcv
    /\ Advance(c)
    /\ Goto(c, IF pc[c] = "committed" THEN "commit" ELSE "recommit")
    /\ UNCHANGED <<status, syncs, before, after, len, heur, res, ans, faults>>

CommitAnswered(c) ==
    /\ up
    /\ pc[c] \in {"committed", "recommitted"}
    /\ ans[c] # "spins"
    /\ \/ /\ ans[c] = "ok"
          /\ ChangeResourceVote(ix[c], "Committed")
          /\ Advance(c)
          /\ Goto(c, IF pc[c] = "committed" THEN "commit" ELSE "recommit")
          /\ UNCHANGED heur
       \/ /\ ans[c] = "COMM_FAILURE"
          /\ pc[c] = "committed"
          /\ heur' = [heur EXCEPT ![c] = TRUE]
          /\ Advance(c)
          /\ Goto(c, "commit")
          /\ UNCHANGED rcv
       \/ /\ ans[c] # "ok"
          /\ ~(ans[c] = "COMM_FAILURE" /\ pc[c] = "committed")
          /\ Throw(c, ans[c])
          /\ UNCHANGED <<rcv, ix, heur>>
    /\ UNCHANGED <<status, syncs, before, after, len, res, ans, faults>>

(* Mutant of CommitEnds: the final status is not stored.                   *)
CommitEndsUnstored(c) ==
    /\ up
    /\ pc[c] \in {"commit", "recommit"}
    /\ ~More(c)
    /\ IF pc[c] = "commit"
       THEN Goto(c, "after") /\ ix' = [ix EXCEPT ![c] = 1]
       ELSE Return(c, "ok") /\ UNCHANGED ix
    /\ UNCHANGED <<status, rcv, syncs, before, after, len, heur, res, ans, faults>>

CommitEnds(c) ==
    /\ up
    /\ pc[c] \in {"commit", "recommit"}
    /\ ~More(c)
    /\ status' = "NoTransaction"
    /\ IF pc[c] = "commit"
       THEN Goto(c, "after") /\ ix' = [ix EXCEPT ![c] = 1]
       ELSE Return(c, "ok") /\ UNCHANGED ix
    /\ UNCHANGED <<rcv, syncs, before, after, len, heur, res, ans, faults>>
-----------------------------------------------------------------------------
(* rollback, called by a client or by commit.                              *)
RollbackReturns(c) ==
    Return(c, IF c \in Committers THEN "TRANSACTION_ROLLEDBACK" ELSE "ok")

(* Mutant of Rollback: a rollback that arrives while the commit phase runs *)
(* is carried out.                                                         *)
RollbackAnyTime(c) ==
    /\ up
    /\ IF c \in Committers THEN pc[c] = "rollback" ELSE pc[c] = "idle" /\ MayCall(c)
    /\ IF status \in {"Active", "MarkedRollback", "Preparing", "Committing"}
       THEN /\ status' = "RollingBack"
            /\ heur' = [heur EXCEPT ![c] = FALSE]
            /\ Loop(c, Len(rcv), "undo")
       ELSE /\ RollbackReturns(c)
            /\ UNCHANGED <<status, ix, len, heur>>
    /\ UNCHANGED <<rcv, syncs, before, after, res, ans, faults>>

(* Mutant of Rollback: a repeated call calls no resource, it takes the     *)
(* rollback for done.                                                      *)
RollbackTakenForDone(c) ==
    /\ up
    /\ IF c \in Committers THEN pc[c] = "rollback" ELSE pc[c] = "idle" /\ MayCall(c)
    /\ \/ /\ status \in {"Active", "MarkedRollback"}
          /\ status' = "RollingBack"
          /\ heur' = [heur EXCEPT ![c] = FALSE]
          /\ Loop(c, Len(rcv), "undo")
       \/ /\ status = "RollingBack"
          /\ Loop(c, Len(rcv), "undoAfter")
          /\ UNCHANGED <<status, heur>>
       \/ /\ status \notin {"Active", "MarkedRollback", "RollingBack"}
          /\ RollbackReturns(c)
          /\ UNCHANGED <<status, ix, len, heur>>
    /\ UNCHANGED <<rcv, syncs, before, after, res, ans, faults>>

Rollback(c) ==
    /\ up
    /\ IF c \in Committers THEN pc[c] = "rollback" ELSE pc[c] = "idle" /\ MayCall(c)
    /\ \/ /\ status \in {"Active", "MarkedRollback"}
          /\ status' = "RollingBack"
          /\ heur' = [heur EXCEPT ![c] = FALSE]
          /\ Loop(c, Len(rcv), "undo")
       \/ /\ status = "RollingBack"
          /\ Loop(c, Len(rcv), "redo")
          /\ UNCHANGED <<status, heur>>
       \/ /\ status \in {"NoTransaction", "Committed"}
          /\ Return(c, IF status = "Committed" THEN "WRONG_TRANSACTION"
                                               ELSE "INVALID_TRANSACTION")
          /\ UNCHANGED <<status, ix, len, heur>>
       \/ /\ status \in {"Preparing", "Committing", "Prepared", "RolledBack",
                         "Unknown"}
          /\ RollbackReturns(c)
          /\ UNCHANGED <<status, ix, len, heur>>
    /\ UNCHANGED <<rcv, syncs, before, after, res, ans, faults>>

(* Mutant of RollbackNext: only the resources that voted are rolled back.  *)
RollbackVoters(c) ==
    /\ up
    /\ pc[c] \in {"undo", "redo"}
    /\ More(c)
    /\ IF Entry(c).rv = "VoteCommit"
       THEN /\ Invoke(c, PgRollback(res[Entry(c).r]))
            /\ Goto(c, IF pc[c] = "undo" THEN "undone" ELSE "redone")
            /\ UNCHANGED ix
       ELSE /\ Advance(c)
            /\ UNCHANGED <<res, pc, ans, reply, up, faults>>
    /\ UNCHANGED <<coordVars, len, heur>>

RollbackNext(c) ==
    /\ up
    /\ pc[c] \in {"undo", "redo"}
    /\ More(c)
    /\ IF Entry(c).rv \in {"VoteCommit", "NotPrepared"}
       THEN /\ Invoke(c, PgRollback(res[Entry(c).r]))
            /\ Goto(c, IF pc[c] = "undo" THEN "undone" ELSE "redone")
            /\ UNCHANGED ix
       ELSE /\ Advance(c)
            /\ UNCHANGED <<res, pc, ans, reply, up, faults>>
    /\ UNCHANGED <<coordVars, len, heur>>

(* Mutants of RollbackAnswered: as CommitAnsweredQuietly; a resource that  *)
(* cannot be reached is called again.                                      *)
RollbackAnsweredQuietly(c) ==
    /\ up
    /\ pc[c] \in {"undone", "redone"}
    /\ ans[c] # "spins"
    /\ IF ans[c] = "ok" THEN ChangeResourceVote(ix[c], "RolledBack")
                        ELSE UNCHANGED rcv
    /\ Advance(c)
    /\ Goto(c, IF pc[c] = "undone" THEN "undo" ELSE "redo")
    /\ UNCHANGED <<status, syncs, before, after, len, heur, res, ans, faults>>

RollbackAnsweredRetry(c) ==
    /\ up
    /\ pc[c] \in {"undone", "redone"}
    /\ ans[c] # "spins"
    /\ \/ /\ ans[c] = "ok"
          /\ ChangeResourceVote(ix[c], "RolledBack")
          /\ Advance(c)
          /\ Goto(c, IF pc[c] = "undone" THEN "undo" ELSE "redo")
       \/ /\ ans[c] \in NetworkFailure
          /\ Goto(c, IF pc[c] = "undone" THEN "undo" ELSE "redo")
          /\ UNCHANGED <<rcv, ix>>
    /\ UNCHANGED <<status, syncs, before, after, len, heur, res, ans, faults>>

RollbackAnswered(c) ==
    /\ up
    /\ pc[c] \in {"undone", "redone"}
    /\ ans[c] # "spins"
    /\ \/ /\ ans[c] = "ok"
          /\ ChangeResourceVote(ix[c], "RolledBack")
          /\ Advance(c)
          /\ Goto(c, IF pc[c] = "undone" THEN "undo" ELSE "redo")
          /\ UNCHANGED heur
       \/ /\ ans[c] = "COMM_FAILURE"
          /\ pc[c] = "undone"
          /\ heur' = [heur EXCEPT ![c] = TRUE]
          /\ Advance(c)
          /\ Goto(c, "undo")
          /\ UNCHANGED rcv
       \/ /\ ans[c] # "ok"
          /\ ~(ans[c] = "COMM_FAILURE" /\ pc[c] = "undone")
          /\ Throw(c, ans[c])
          /\ UNCHANGED <<rcv, ix, heur>>
    /\ UNCHANGED <<status, syncs, before, after, len, res, ans, faults>>

(* Mutant of RollbackEnds: the final status is not stored.                 *)
RollbackEndsUnstored(c) ==
    /\ up
    /\ pc[c] \in {"undo", "redo"}
    /\ ~More(c)
    /\ IF pc[c] = "undo" /\ heur[c]
       THEN Throw(c, "HeuristicHazard") /\ UNCHANGED ix
       ELSE Goto(c, "undoAfter") /\ ix' = [ix EXCEPT ![c] = 1]
    /\ UNCHANGED <<status, rcv, syncs, before, after, len, heur, res, ans, faults>>

(* With a heuristic outcome the exception leaves before after_completion.  *)
RollbackEnds(c) ==
    /\ up
    /\ pc[c] \in {"undo", "redo"}
    /\ ~More(c)
    /\ status' = "NoTransaction"
    /\ IF pc[c] = "undo" /\ heur[c]
       THEN Throw(c, "HeuristicHazard") /\ UNCHANGED ix
       ELSE Goto(c, "undoAfter") /\ ix' = [ix EXCEPT ![c] = 1]
    /\ UNCHANGED <<rcv, syncs, before, after, len, heur, res, ans, faults>>
-----------------------------------------------------------------------------
AfterCompletion(c) ==
    /\ up
    /\ pc[c] \in {"after", "undoAfter"}
    /\ IF ix[c] <= Len(syncs)
       THEN /\ after' = [after EXCEPT ![syncs[ix[c]]] = @ + 1]
            /\ Advance(c)
            /\ UNCHANGED <<pc, reply, up>>
       ELSE /\ CASE pc[c] = "undoAfter" -> RollbackReturns(c)
                 [] pc[c] = "after" /\ ReportHeuristics /\ heur[c] ->
                       Throw(c, "HeuristicHazard")
                 [] OTHER -> Return(c, "ok")
            /\ UNCHANGED <<after, ix>>
    /\ UNCHANGED <<status, rcv, syncs, before, len, heur, res, ans, faults>>

(* do {} while (_TransStatus != StatusRolledBack), no path assigns it.     *)
Spin(c) ==
    /\ up
    /\ pc[c] = "spin"
    /\ IF status = "RolledBack" THEN Return(c, "TRANSACTION_ROLLEDBACK")
                                ELSE UNCHANGED <<pc, reply, up>>
    /\ UNCHANGED <<coordVars, callVars, res, ans, faults>>

(* The same kind of loop inside the resource: no answer ever comes.        *)
ResourceSpins(c) ==
    /\ up
    /\ pc[c] \in {"onephased", "voted", "undone", "redone", "committed",
                  "recommitted"}
    /\ ans[c] = "spins"
    /\ UNCHANGED vars
-----------------------------------------------------------------------------
(* The world around the service.  A client sends its statements before it  *)
(* has the transaction ended: the backend would accept one after the vote  *)
(* too (StartTransactionCommand), and if it failed abort the prepared      *)
(* block (AbortCurrentTransaction), which XACOMMIT then answers with OK.   *)
StatementFailsAt(r) ==
    /\ r \in Failing
    /\ res[r].live
    /\ res[r].block = "INPROGRESS"
    /\ res' = [res EXCEPT ![r] = StatementFails(res[r])]
    /\ UNCHANGED <<coordVars, callVars, pc, ans, reply, up, faults>>

Disconnect(r) ==
    /\ r \in Disconnecting
    /\ res[r].live
    /\ res' = [res EXCEPT ![r] = ConnectionLost(res[r])]
    /\ UNCHANGED <<coordVars, callVars, pc, ans, reply, up, faults>>

(* Nothing is left to do: no call runs and none can be made any more, or   *)
(* the service is gone.                                                    *)
Finished ==
    /\ \/ ~up
       \/ /\ \A c \in Calls \ Late : pc[c] = "done"
          /\ \A c \in Late : pc[c] \in {"idle", "done"}
    /\ UNCHANGED vars
-----------------------------------------------------------------------------
CommitStep(c) ==
    \/ BeforeCompletion(c) \/ Dispatch(c)
    \/ CommitOnePhase(c) \/ OnePhaseAnswered(c)
    \/ PrepareNext(c) \/ Voted(c) \/ Decide(c)
    \/ CommitNext(c) \/ CommitAnswered(c) \/ CommitEnds(c)
    \/ Spin(c)

RollbackStep(c) ==
    \/ RollbackNext(c) \/ RollbackAnswered(c) \/ RollbackEnds(c)
    \/ AfterCompletion(c)
    \/ ResourceSpins(c)

RegisterStep(c) == BeginTrans(c) \/ Enlist(c)

Next ==
    \/ \E c \in Committers : Commit(c) \/ CommitStep(c)
    \/ \E c \in Terminators : Rollback(c) \/ RollbackStep(c)
    \/ \E c \in Registrars : Register(c) \/ RegisterStep(c)
    \/ \E c \in Markers : RollbackOnly(c)
    \/ \E s \in Syncs : RegisterSynchronization(s)
    \/ \E r \in Resources : StatementFailsAt(r) \/ Disconnect(r)
    \/ Finished

Spec == Init /\ [][Next]_vars

(* A thread that the ORB has given a request to goes on running.  Nobody   *)
(* is bound to make a call.                                                *)
Fairness ==
    /\ \A c \in Committers : WF_vars(CommitStep(c))
    /\ \A c \in Committers : WF_vars(Rollback(c))
    /\ \A c \in Terminators : WF_vars(RollbackStep(c))
    /\ \A c \in Registrars : WF_vars(RegisterStep(c))

LiveSpec == Spec /\ Fairness
-----------------------------------------------------------------------------
(* What the coordinator keeps, what a call keeps on its stack, where the   *)
(* calls are, and the world outside the service.                           *)
CoordTypes ==
    /\ status \in TransactionStatus
    /\ rcv \in Seq([r : Resources, rv : ResourceVote])
    /\ syncs \in Seq(Syncs)
    /\ before \in [Syncs -> Nat]
    /\ after \in [Syncs -> Nat]

CallTypes ==
    /\ ix \in [Terminators -> Nat \ {0}]
    /\ len \in [Terminators -> Nat]
    /\ heur \in [Terminators -> BOOLEAN]
    /\ ans \in [Terminators -> Answer]

ControlTypes ==
    /\ pc \in [Calls -> Label]
    /\ reply \in [Calls -> Reply]
    /\ up \in BOOLEAN

WorldTypes ==
    /\ res \in [Resources -> ResourceState]
    /\ faults \in 0..MaxFaults

TypeOK == CoordTypes /\ CallTypes /\ ControlTypes /\ WorldTypes

(* The resources a terminating call has counted in the list.               *)
Counted(c) == {rcv[i].r : i \in 1..len[c]}

Members == UNION {Counted(c) : c \in Terminators \ Late}

FateOf(r) == IF res[r].trans = "PREPARE" /\ res[r].fate = "open"
             THEN "prepared" ELSE res[r].fate

(* Atomicity: of the resources that commit (Coordinator_impl::commit) or   *)
(* rollback counted when it read the list, none commits while another      *)
(* aborts.  (What a repeated call counts is not part of the decision.)     *)
AtomicOutcome ==
    \A r, s \in Members : ~(res[r].fate = "committed" /\ res[s].fate = "aborted")

(* A commit that returns normally to a caller who asked for heuristics has *)
(* committed every resource it counted; one that throws                    *)
(* TRANSACTION_ROLLEDBACK has left no resource committed, then or later.   *)
CommitAnswerTrue ==
    \A c \in Committers :
      /\ reply[c] = "ok" /\ ReportHeuristics =>
            \A r \in Counted(c) \cap Members : res[r].fate = "committed"
      /\ reply[c] = "TRANSACTION_ROLLEDBACK" =>
            \A r \in Resources : res[r].fate # "committed"

(* The rollback that ends a transaction, when it returns normally, has     *)
(* rolled back every resource it counted, and nothing commits afterwards.  *)
RollbackAnswerTrue ==
    \A c \in Rollbackers \ Late :
      reply[c] = "ok" => /\ \A r \in Counted(c) : res[r].fate = "aborted"
                         /\ \A r \in Resources : res[r].fate # "committed"

(* Without network failures no resource the decision counted is left       *)
(* undecided, with its transaction and its locks open, when the call, or a *)
(* repeated one that counted it too, is over.                              *)
NothingLeftOpen ==
    \A c \in Terminators :
      pc[c] = "done" /\ up /\ faults = 0 =>
        \A r \in Counted(c) \cap Members : res[r].fate \in {"committed", "aborted"}

(* after_completion is the last word: it comes at most once, in status     *)
(* NoTransaction, and from then on the transaction commits nothing; short  *)
(* of network failures its resources are all decided by then.              *)
AfterCompletionIsLast ==
    [][\A s \in Syncs : after[s] > 0 =>
          /\ after'[s] = after[s]
          /\ status' = "NoTransaction"
          /\ \A r \in Members : res'[r].fate # res[r].fate =>
                faults > 0 /\ res'[r].fate = "aborted"]_vars

(* Every call that the service accepted returns (commit, rollback and      *)
(* register_resource have no time limit of their own).                     *)
CallsReturn ==
    \A c \in Calls : pc[c] # "idle" ~> pc[c] = "done"

(* When a call comes to notify the synchronizations, short of network      *)
(* failures every resource that the decision counted is decided, also when *)
(* the call is a repeated one that has overtaken the first.                *)
CompletionAfterOutcome ==
    \A c \in Terminators :
      pc[c] \in {"after", "undoAfter"} /\ faults = 0 =>
        \A r \in Members : res[r].fate \in {"committed", "aborted"}

(* A call that repeats nothing returns, or at least has what it counted    *)
(* decided: the busy loops (of commit when the status is RollingBack, of a *)
(* resource that was rolled back twice) may keep the caller waiting, but   *)
(* short of network failures not the transaction open.                     *)
TransactionEnds ==
    \A c \in Terminators \ Late :
      pc[c] # "idle" ~>
        \/ pc[c] = "done"
        \/ faults > 0
        \/ /\ Counted(c) # {}
           /\ \A r \in Counted(c) : res[r].fate \in {"committed", "aborted"}

(* A transaction that rollback_only has marked, and told its caller so,    *)
(* commits nothing from then on.                                           *)
MarkedCommitsNothing ==
    [][(\E m \in Markers : reply[m] = "ok") =>
          \A r \in Resources : res'[r].fate = "committed" => res[r].fate = "committed"]_vars

(* When the commit phase is over every resource in the list is committed,  *)
(* or a heuristic outcome was noted.                                       *)
WholeListCommitted ==
    \A c \in Committers :
      pc[c] = "after" => heur[c] \/ \A i \in DOMAIN rcv : res[rcv[i].r].fate = "committed"

(* The transaction implements the abstract atomic commitment.              *)
Abstract == INSTANCE AtomicCommit WITH
              members <- Members,
              fate <- [r \in Resources |-> FateOf(r)]

ImplementsAtomicCommit == Abstract!ASpec
=============================================================================
