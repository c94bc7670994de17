-------------------------- MODULE TransactionSeries --------------------------
(***************************************************************************)
(* Transactions one after the other over the resources of a container's    *)
(* resource pool (ccm/src/AppSvr/ResourcePool_impl.cpp).                   *)
(*                                                                         *)
(* Coordinator is one transaction on new resources.  Here a client begins  *)
(* the next transaction when the last one is decided: the factory makes a  *)
(* new coordinator, but the pool hands out the resources it has, with the  *)
(* status and the transaction block that the last transaction left.        *)
(* Between its calls one client does one thing at a time: it gets          *)
(* resources, connects and registers them, and then ends the transaction   *)
(* with one call.                                                          *)
(***************************************************************************)
EXTENDS Coordinator, FiniteSets

CONSTANTS
    InitialPool,      \* the resources the pool is created with, in its order
    MaxCon,           \* the limit maxCon_ of the pool
    MaxTransactions   \* bound: transactions of a behaviour

ASSUME PoolAssumption ==
    /\ InitialPool \in Seq(Resources)
    /\ \A i, j \in DOMAIN InitialPool : InitialPool[i] = InitialPool[j] => i = j
    /\ MaxCon \in Nat
    /\ Cardinality(Resources) > MaxCon
    /\ MaxTransactions \in Nat \ {0}

(* Every resource has one call that may register it.                       *)
ASSUME OneRegistrarEach ==
    \A g, h \in Registrars : Target[g] = Target[h] => g = h

VARIABLES
    pool,      \* resList_: the resources and their flags isUsed
    con,       \* currentCon_
    held,      \* the resources the current transaction's component has got
    txn,       \* history: the number of the current transaction
    work,      \* history: whose work is in the open block of each resource
    durable,   \* history: the transactions some work of which was committed
    undone     \* history: the transactions whose client was told they rolled back

poolVars == <<pool, con, held>>
history == <<txn, work, durable, undone>>
svars == <<vars, poolVars, history>>

SeriesInit ==
    /\ Init
    /\ pool = [i \in DOMAIN InitialPool |-> [r |-> InitialPool[i], used |-> FALSE]]
    /\ con = Len(InitialPool)
    /\ held = {}
    /\ txn = 1
    /\ work = [r \in Resources |-> {}]
    /\ durable = {}
    /\ undone = {}
-----------------------------------------------------------------------------
Quiet == \A c \in Calls : pc[c] \in {"idle", "done"}

Decided == \E c \in Terminators : pc[c] = "done"

(* Between two calls of a transaction that is not decided yet.             *)
Working == up /\ Quiet /\ ~Decided

Pooled == {pool[i].r : i \in DOMAIN pool}

(* Mutant of GetResource: a new resource is not counted.                   *)
GetResourceUncounted ==
    /\ Working
    /\ con <= MaxCon
    /\ \/ \E i \in DOMAIN pool :
            /\ ~pool[i].used
            /\ \A j \in 1..(i - 1) : pool[j].used
            /\ held' = held \cup {pool[i].r}
            /\ UNCHANGED pool
       \/ /\ \A i \in DOMAIN pool : pool[i].used
          /\ \E r \in Resources \ Pooled :
               /\ pool' = <<[r |-> r, used |-> TRUE]>> \o pool
               /\ held' = held \cup {r}
    /\ UNCHANGED <<vars, con, history>>

(* getResource: the first resource that is not used is handed out as it    *)
(* is, and stays not used; without one a new resource is made, and counted. *)
(* Above the limit, which one resource may exceed, it raises NoResource    *)
(* even if a resource is free.                                             *)
GetResource ==
    /\ Working
    /\ con <= MaxCon
    /\ \/ \E i \in DOMAIN pool :
            /\ ~pool[i].used
            /\ \A j \in 1..(i - 1) : pool[j].used
            /\ held' = held \cup {pool[i].r}
            /\ UNCHANGED <<pool, con>>
       \/ /\ \A i \in DOMAIN pool : pool[i].used
          /\ \E r \in Resources \ Pooled :
               /\ pool' = <<[r |-> r, used |-> TRUE]>> \o pool
               /\ held' = held \cup {r}
          /\ con' = con + 1
    /\ UNCHANGED <<vars, history>>

(* removeResource clears the flag, and raises RemoveResFailed in any case. *)
RemoveResource(r) ==
    /\ up /\ Quiet
    /\ r \in held
    /\ pool' = [i \in DOMAIN pool |-> IF pool[i].r = r THEN [pool[i] EXCEPT !.used = FALSE]
                                                       ELSE pool[i]]
    /\ held' = held \ {r}
    /\ UNCHANGED <<vars, con, history>>

(* The component connects a resource it has got.  The work in the old      *)
(* connection is nobody's any more.                                        *)
Connect(r) ==
    /\ Working
    /\ r \in held
    /\ \A i \in DOMAIN rcv : rcv[i].r # r
    /\ res' = [res EXCEPT ![r] = PgSetdb(@)]
    /\ work' = [work EXCEPT ![r] = {}]
    /\ UNCHANGED <<coordVars, callVars, pc, ans, reply, up, faults, poolVars,
                   txn, durable, undone>>
-----------------------------------------------------------------------------
(* What the history records of a step of the transaction: the work of a    *)
(* component goes into the block that register_resource found or opened;   *)
(* it leaves it when the block ends, committed or not.                     *)
Open(p) == p.trans \in {"INPROGRESS", "PREPARE"}

Joins(r) == Len(rcv') > Len(rcv) /\ rcv'[Len(rcv')].r = r /\ Open(res[r])

Closes(r) == Open(res[r]) /\ ~Open(res'[r])

ToldUndone(c) ==
    reply'[c] = IF c \in Rollbackers THEN "ok" ELSE "TRANSACTION_ROLLEDBACK"

Record ==
    /\ work' = [r \in Resources |-> IF Closes(r) THEN {}
                                    ELSE IF Joins(r) THEN work[r] \cup {txn}
                                    ELSE work[r]]
    /\ durable' = durable \cup
          UNION {work[r] : r \in {q \in Resources :
                                    Closes(q) /\ res'[q].fate = "committed"}}
    /\ undone' = IF \E c \in Terminators : ToldUndone(c) THEN undone \cup {txn}
                                                         ELSE undone
    /\ UNCHANGED <<txn, poolVars>>

(* The client calls: it registers what it got from the pool, marks the     *)
(* transaction, or ends it with one call.                                  *)
CallRegister(c) == Working /\ Target[c] \in held /\ Register(c) /\ Record

CallMark(c) == Working /\ RollbackOnly(c) /\ Record

CallEnd(c) ==
    /\ Working
    /\ IF c \in Committers THEN Commit(c) ELSE Rollback(c)
    /\ Record

CommitGoesOn(c) == CommitStep(c) /\ Record

CommitRollsBack(c) == pc[c] = "rollback" /\ Rollback(c) /\ Record

RollbackGoesOn(c) == RollbackStep(c) /\ Record

RegisterGoesOn(c) == RegisterStep(c) /\ Record

StatementFailsIn(r) == StatementFailsAt(r) /\ Record

Breaks(r) == Disconnect(r) /\ Record

(* TransactionFactory_impl::create: a coordinator that knows nothing, and  *)
(* new calls.  (The field fate is an observation of one transaction block, *)
(* it starts anew unless the block is still open.)                         *)
NextTransaction ==
    /\ up /\ Quiet /\ Decided
    /\ txn < MaxTransactions
    /\ txn' = txn + 1
    /\ held' = {}
    /\ status' = "Active"
    /\ rcv' = << >>
    /\ syncs' = << >>
    /\ before' = [s \in Syncs |-> 0]
    /\ after' = [s \in Syncs |-> 0]
    /\ pc' = [c \in Calls |-> "idle"]
    /\ ix' = [c \in Terminators |-> 1]
    /\ len' = [c \in Terminators |-> 0]
    /\ heur' = [c \in Terminators |-> FALSE]
    /\ ans' = [c \in Terminators |-> "none"]
    /\ reply' = [c \in Calls |-> "none"]
    /\ res' = [r \in Resources |->
                 [res[r] EXCEPT !.fate = IF Open(res[r]) THEN "open" ELSE "none"]]
    /\ UNCHANGED <<up, faults, pool, con, work, durable, undone>>

(* The bound is reached, or the service is gone.                           *)
SeriesEnds ==
    /\ ~up \/ (Quiet /\ Decided /\ txn = MaxTransactions)
    /\ UNCHANGED svars
-----------------------------------------------------------------------------
SeriesNext ==
    \/ GetResource
    \/ \E r \in Resources : RemoveResource(r) \/ Connect(r) \/ StatementFailsIn(r)
                              \/ Breaks(r)
    \/ \E c \in Registrars : CallRegister(c) \/ RegisterGoesOn(c)
    \/ \E c \in Markers : CallMark(c)
    \/ \E c \in Terminators : CallEnd(c) \/ RollbackGoesOn(c)
    \/ \E c \in Committers : CommitGoesOn(c) \/ CommitRollsBack(c)
    \/ NextTransaction
    \/ SeriesEnds

SeriesSpec == SeriesInit /\ [][SeriesNext]_svars
-----------------------------------------------------------------------------
(* The pool counts the resources it lists, each once, and exceeds its      *)
(* limit by at most one (getResource compares with <=).                    *)
SeriesTypeOK ==
    /\ TypeOK
    /\ pool \in Seq([r : Resources, used : BOOLEAN])
    /\ \A i, j \in DOMAIN pool : pool[i].r = pool[j].r => i = j
    /\ con = Len(pool)
    /\ con <= MaxCon + 1 \/ con = Len(InitialPool)
    /\ held \subseteq Pooled
    /\ txn \in 1..MaxTransactions
    /\ work \in [Resources -> SUBSET (1..txn)]
    /\ durable \subseteq 1..txn
    /\ undone \subseteq 1..txn

(* A transaction whose client was told that it rolled back                 *)
(* (Coordinator_impl::commit throws TRANSACTION_ROLLEDBACK, or rollback    *)
(* returns) is never made durable, neither by its own commit nor by a      *)
(* later transaction that works on the same connection.                    *)
RolledBackStaysRolledBack == undone \cap durable = {}

(* The commit of a transaction makes no work durable that an earlier one   *)
(* left in the transaction block of a pooled connection (pg_commit sends   *)
(* XACOMMIT for whatever the block holds).                                 *)
CommitsOwnWork == [][durable' \subseteq durable \cup {txn}]_svars
=============================================================================
