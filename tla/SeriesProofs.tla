----------------------------- MODULE SeriesProofs -----------------------------
(***************************************************************************)
(* Transactions one after the other over the resources of a pool: type     *)
(* correctness, and that work which was rolled back stays rolled back, for *)
(* every pool, every set of resources and of calls, and any number of      *)
(* transactions.                                                           *)
(***************************************************************************)
EXTENDS SeriesInvariants, AnswerProofs

(***************************************************************************)
(* The steps: those of the current transaction, which the history records, *)
(* those of the pool, and the next transaction.                            *)
(***************************************************************************)
TerminatorStep(c) ==
    \/ c \in Committers /\ (Commit(c) \/ CommitStep(c))
    \/ Rollback(c) \/ RollbackStep(c)

(* A step of a terminating call.  A new one is made while no other runs.   *)
Ending(c) ==
    /\ TerminatorStep(c) /\ Record
    /\ pc[c] = "idle" => Working

OtherStep ==
    \/ \E g \in Registrars : Working /\ Target[g] \in held /\ Register(g)
    \/ \E g \in Registrars : RegisterStep(g)
    \/ \E m \in Markers : Working /\ RollbackOnly(m)
    \/ \E r \in Resources : StatementFailsAt(r) \/ Disconnect(r)

PoolStep == GetResource \/ \E r \in Resources : RemoveResource(r)

LEMMA SeriesSteps ==
  ASSUME TypeInv, SeriesNext
  PROVE  \/ \E c \in Terminators : Ending(c)
         \/ OtherStep /\ Record
         \/ PoolStep
         \/ \E r \in Resources : Connect(r)
         \/ NextTransaction
         \/ UNCHANGED svars
<1>1. ASSUME NEW c \in Terminators, CallEnd(c) PROVE Ending(c)
  BY <1>1 DEF CallEnd, Ending, TerminatorStep
<1>2. ASSUME NEW c \in Committers, CommitGoesOn(c) \/ CommitRollsBack(c)
      PROVE  c \in Terminators /\ Ending(c)
  <2>1. pc[c] # "idle"
    BY <1>2 DEF CommitGoesOn, CommitRollsBack, CommitStep, BeforeCompletion, Dispatch,
         CommitOnePhase, OnePhaseAnswered, PrepareNext, Voted, Decide, CommitNext,
         CommitAnswered, CommitEnds, Spin
  <2> QED
    BY <1>2, <2>1 DEF CommitGoesOn, CommitRollsBack, Ending, TerminatorStep, Terminators
<1>3. ASSUME NEW c \in Terminators, RollbackGoesOn(c) PROVE Ending(c)
  <2>1. pc[c] # "idle"
    BY <1>3 DEF RollbackGoesOn, RollbackStep, RollbackNext, RollbackAnswered, RollbackEnds,
         AfterCompletion, ResourceSpins
  <2> QED
    BY <1>3, <2>1 DEF RollbackGoesOn, Ending, TerminatorStep
<1>4. ASSUME NEW g \in Registrars, CallRegister(g) \/ RegisterGoesOn(g)
      PROVE  OtherStep /\ Record
  BY <1>4 DEF CallRegister, RegisterGoesOn, OtherStep
<1>5. ASSUME NEW m \in Markers, CallMark(m) PROVE OtherStep /\ Record
  BY <1>5 DEF CallMark, OtherStep
<1>6. ASSUME NEW r \in Resources, StatementFailsIn(r) \/ Breaks(r) PROVE OtherStep /\ Record
  BY <1>6 DEF StatementFailsIn, Breaks, OtherStep
<1> QED
  BY <1>1, <1>2, <1>3, <1>4, <1>5, <1>6 DEF SeriesNext, SeriesEnds, PoolStep

LEMMA StepsOfNext ==
  ASSUME \/ \E c \in Terminators : TerminatorStep(c)
         \/ OtherStep
  PROVE  Next
BY DEF TerminatorStep, OtherStep, Next
-----------------------------------------------------------------------------
(***************************************************************************)
(* Type correctness.                                                       *)
(***************************************************************************)
Pool == [r : Resources, used : BOOLEAN]

PoolTypes ==
    /\ pool \in Seq(Pool)
    /\ \A i, j \in DOMAIN pool : pool[i].r = pool[j].r => i = j
    /\ con = Len(pool)
    /\ con <= MaxCon + 1 \/ con = Len(InitialPool)
    /\ held \subseteq Pooled

HistoryTypes ==
    /\ txn \in 1..MaxTransactions
    /\ work \in [Resources -> SUBSET (1..txn)]
    /\ durable \subseteq 1..txn
    /\ undone \subseteq 1..txn

SeriesTypeInv == TypeInv /\ PoolTypes /\ HistoryTypes

LEMMA RecordTypes ==
  ASSUME HistoryTypes, Record
  PROVE  HistoryTypes' /\ UNCHANGED <<txn, pool, con, held>>
<1>1. UNCHANGED <<txn, pool, con, held>> /\ txn \in 1..txn /\ txn \in 1..MaxTransactions
  BY PoolAssumption DEF Record, poolVars, HistoryTypes
<1>2. work' \in [Resources -> SUBSET (1..txn)]
  BY <1>1 DEF Record, HistoryTypes
<1>3. durable' \subseteq 1..txn
  BY <1>1 DEF Record, HistoryTypes
<1>4. undone' \subseteq 1..txn
  BY <1>1 DEF Record, HistoryTypes
<1> QED
  BY <1>1, <1>2, <1>3, <1>4 DEF HistoryTypes

LEMMA PoolSequence ==
  ASSUME PoolTypes
  PROVE  /\ Len(pool) \in Nat /\ DOMAIN pool = 1..Len(pool)
         /\ \A i \in 1..Len(pool) : pool[i] \in Pool /\ pool[i].r \in Pooled
<1>1. Len(pool) \in Nat /\ DOMAIN pool = 1..Len(pool)
  BY LenProperties DEF PoolTypes
<1>2. \A i \in 1..Len(pool) : pool[i] \in Pool
  BY ElementOfSeq DEF PoolTypes
<1> QED
  BY <1>1, <1>2 DEF Pooled

LEMMA GetResourceTypes ==
  ASSUME PoolTypes, GetResource PROVE PoolTypes'
<1>1. CASE /\ UNCHANGED <<pool, con>>
           /\ \E i \in DOMAIN pool : held' = held \cup {pool[i].r}
  BY <1>1 DEF PoolTypes, Pooled
<1>2. ASSUME NEW r \in Resources \ Pooled,
             pool' = <<[r |-> r, used |-> TRUE]>> \o pool,
             held' = held \cup {r}, con' = con + 1, con <= MaxCon
      PROVE  PoolTypes'
  <2> DEFINE e == [r |-> r, used |-> TRUE]
  <2>1. e \in Pool /\ <<e>> \in Seq(Pool) /\ Len(<<e>>) = 1 /\ <<e>>[1] = e
    BY DEF Pool
  <2>2. pool \in Seq(Pool)
    BY DEF PoolTypes
  <2> HIDE DEF e
  <2>3. /\ pool' \in Seq(Pool) /\ Len(pool') = 1 + Len(pool) /\ pool'[1] = e
        /\ \A i \in 2..Len(pool') : pool'[i] = pool[i - 1]
    BY <1>2, <2>1, <2>2, ConcatProperties DEF e
  <2>4. DOMAIN pool' = 1..(1 + Len(pool))
    BY <2>3, LenProperties
  <2>5. e.r = r /\ r \notin Pooled
    BY DEF e
  <2>6. \A i, j \in DOMAIN pool' : pool'[i].r = pool'[j].r => i = j
    <3> SUFFICES ASSUME NEW i \in 1..(1 + Len(pool)), NEW j \in 1..(1 + Len(pool)),
                        pool'[i].r = pool'[j].r
                 PROVE  i = j
      BY <2>4
    <3>1. \A k \in 2..(1 + Len(pool)) : k - 1 \in 1..Len(pool) /\ pool'[k] = pool[k - 1]
      BY <2>3, PoolSequence
    <3>2. \A k \in 2..(1 + Len(pool)) : pool'[k].r # r
      BY <2>5, <3>1, PoolSequence
    <3>3. CASE i = 1 \/ j = 1
      BY <2>3, <2>5, <3>2, <3>3, PoolSequence
    <3>4. CASE i # 1 /\ j # 1
      <4>1. i \in 2..(1 + Len(pool)) /\ j \in 2..(1 + Len(pool))
        BY <3>4, PoolSequence
      <4>2. i - 1 = j - 1
        BY <3>1, <4>1, PoolSequence DEF PoolTypes
      <4> QED
        BY <4>1, <4>2
    <3> QED
      BY <3>3, <3>4
  <2>7. Pooled \cup {r} \subseteq Pooled'
    <3>1. r \in Pooled'
      BY <2>3, <2>4, <2>5, PoolSequence DEF Pooled
    <3>2. ASSUME NEW i \in 1..Len(pool) PROVE pool[i].r \in Pooled'
      <4>1. i + 1 \in DOMAIN pool' /\ pool'[i + 1] = pool[i]
        BY <2>3, <2>4, PoolSequence
      <4> QED
        BY <4>1 DEF Pooled
    <3> QED
      BY <3>1, <3>2, PoolSequence DEF Pooled
  <2>8. con' = Len(pool') /\ con' <= MaxCon + 1
    BY <1>2, <2>3, PoolSequence, PoolAssumption DEF PoolTypes
  <2> QED
    BY <1>2, <2>3, <2>6, <2>7, <2>8 DEF PoolTypes
<1> QED
  BY <1>1, <1>2 DEF GetResource

LEMMA RemoveResourceTypes ==
  ASSUME PoolTypes, NEW r \in Resources, RemoveResource(r) PROVE PoolTypes'
<1>1. pool' \in [1..Len(pool) -> Pool] /\ \A i \in 1..Len(pool) : pool'[i].r = pool[i].r
  BY PoolSequence DEF RemoveResource, Pool
<1>2. pool' \in Seq(Pool)
  BY <1>1, PoolSequence, SeqDef
<1>3. Len(pool') = Len(pool) /\ DOMAIN pool' = 1..Len(pool)
  BY <1>1, <1>2, PoolSequence, LenProperties
<1>4. Pooled' = Pooled
  BY <1>1, <1>3, PoolSequence DEF Pooled
<1> QED
  BY <1>1, <1>2, <1>3, <1>4, PoolSequence DEF RemoveResource, PoolTypes

LEMMA SetdbTypes ==
  ASSUME NEW p \in ResourceState PROVE PgSetdb(p) \in ResourceState
BY DEF PgSetdb, ResourceState, BlockState, TransState, Fate

LEMMA ConnectTypes ==
  ASSUME SeriesTypeInv, NEW r \in Resources, Connect(r) PROVE SeriesTypeInv'
<1>1. res \in [Resources -> ResourceState] /\ res' = [res EXCEPT ![r] = PgSetdb(res[r])]
  BY DEF Connect, SeriesTypeInv, TypeInv, TypeOK, WorldTypes
<1>2. res' \in [Resources -> ResourceState]
  BY <1>1, SetdbTypes
<1>3. UNCHANGED <<coordVars, callVars, pc, ans, reply, up, faults>>
  BY DEF Connect
<1>4. TypeInv'
  BY <1>2, <1>3
     DEF SeriesTypeInv, TypeInv, TypeOK, CoordTypes, CallTypes, ControlTypes, WorldTypes,
         LoopsInside, LoopInside, coordVars, callVars
<1>5. PoolTypes'
  BY DEF Connect, SeriesTypeInv, PoolTypes, Pooled, poolVars
<1>6. HistoryTypes'
  BY DEF Connect, SeriesTypeInv, HistoryTypes
<1> QED
  BY <1>4, <1>5, <1>6 DEF SeriesTypeInv

LEMMA NextTransactionTypes ==
  ASSUME SeriesTypeInv, NextTransaction PROVE SeriesTypeInv'
<1>1. rcv' \in Seq([r : Resources, rv : ResourceVote]) /\ syncs' \in Seq(Syncs) /\ Len(rcv') = 0
  BY DEF NextTransaction
<1>2. CoordTypes'
  BY <1>1 DEF NextTransaction, CoordTypes, TransactionStatus
<1>3. CallTypes'
  BY DEF NextTransaction, CallTypes, Answer
<1>4. ControlTypes'
  BY DEF NextTransaction, ControlTypes, Label, Reply, SeriesTypeInv, TypeInv, TypeOK
<1>5. WorldTypes'
  <2>1. res \in [Resources -> ResourceState] /\ faults' \in 0..MaxFaults
    BY DEF NextTransaction, SeriesTypeInv, TypeInv, TypeOK, WorldTypes
  <2>2. \A r \in Resources : \A f \in Fate : [res[r] EXCEPT !.fate = f] \in ResourceState
    BY <2>1 DEF ResourceState
  <2>3. res' \in [Resources -> ResourceState]
    BY <2>2 DEF NextTransaction, Fate
  <2> QED
    BY <2>1, <2>3 DEF WorldTypes
<1>6. LoopsInside'
  BY <1>1 DEF NextTransaction, LoopsInside, LoopInside, Answered, Terminators, Calls
<1>7. PoolTypes'
  BY DEF NextTransaction, SeriesTypeInv, PoolTypes, Pooled
<1>8. HistoryTypes'
  <2>1. txn' \in 1..MaxTransactions /\ txn' = txn + 1 /\ txn \in Nat
    BY PoolAssumption DEF NextTransaction, SeriesTypeInv, HistoryTypes
  <2>2. 1..txn \subseteq 1..txn'
    BY <2>1
  <2> QED
    BY <2>1, <2>2 DEF NextTransaction, SeriesTypeInv, HistoryTypes
<1> QED
  BY <1>2, <1>3, <1>4, <1>5, <1>6, <1>7, <1>8 DEF SeriesTypeInv, TypeInv, TypeOK

LEMMA SeriesTypeInit == SeriesInit => SeriesTypeInv
<1> SUFFICES ASSUME SeriesInit PROVE SeriesTypeInv
  OBVIOUS
<1>1. TypeInv
  BY TypeInit DEF SeriesInit
<1>2. PoolTypes
  <2>1. /\ InitialPool \in Seq(Resources) /\ Len(InitialPool) \in Nat
        /\ DOMAIN InitialPool = 1..Len(InitialPool)
        /\ \A i \in 1..Len(InitialPool) : InitialPool[i] \in Resources
    BY PoolAssumption, LenProperties, ElementOfSeq
  <2>2. /\ pool \in [1..Len(InitialPool) -> Pool]
        /\ \A i \in 1..Len(InitialPool) : pool[i].r = InitialPool[i]
    BY <2>1 DEF SeriesInit, Pool
  <2>3. pool \in Seq(Pool)
    BY <2>1, <2>2, SeqDef
  <2>4. Len(pool) = Len(InitialPool) /\ DOMAIN pool = 1..Len(InitialPool)
    BY <2>1, <2>2, <2>3, LenProperties
  <2> QED
    BY <2>1, <2>2, <2>3, <2>4, PoolAssumption DEF SeriesInit, PoolTypes
<1>3. HistoryTypes
  BY PoolAssumption DEF SeriesInit, HistoryTypes
<1> QED
  BY <1>1, <1>2, <1>3 DEF SeriesTypeInv

LEMMA SeriesTypeStep == SeriesTypeInv /\ [SeriesNext]_svars => SeriesTypeInv'
<1> SUFFICES ASSUME SeriesTypeInv, [SeriesNext]_svars PROVE SeriesTypeInv'
  OBVIOUS
<1>a. TypeInv /\ PoolTypes /\ HistoryTypes
  BY DEF SeriesTypeInv
<1>1. CASE (OtherStep \/ \E c \in Terminators : TerminatorStep(c)) /\ Record
  <2>1. TypeInv'
    BY <1>1, <1>a, StepsOfNext, TypeStep
  <2>2. HistoryTypes' /\ UNCHANGED <<pool, con, held>>
    BY <1>1, <1>a, RecordTypes
  <2>3. PoolTypes'
    BY <1>a, <2>2 DEF PoolTypes, Pooled
  <2> QED
    BY <2>1, <2>2, <2>3 DEF SeriesTypeInv
<1>b. ASSUME UNCHANGED vars PROVE TypeInv'
  BY <1>a, <1>b, TypeStep
<1>2. CASE PoolStep
  <2>1. UNCHANGED vars /\ UNCHANGED history
    BY <1>2 DEF PoolStep, GetResource, RemoveResource
  <2>2. PoolTypes'
    BY <1>2, <1>a, GetResourceTypes, RemoveResourceTypes DEF PoolStep
  <2>3. HistoryTypes'
    BY <1>a, <2>1 DEF history, HistoryTypes
  <2> QED
    BY <1>b, <2>1, <2>2, <2>3 DEF SeriesTypeInv
<1>3. CASE UNCHANGED svars
  BY <1>3, <1>a, <1>b DEF svars, poolVars, history, SeriesTypeInv, PoolTypes, Pooled, HistoryTypes
<1> QED
  BY <1>a, <1>1, <1>2, <1>3, SeriesSteps, ConnectTypes, NextTransactionTypes DEF Ending

(* The pool counts the resources it lists, each of them once, and goes at  *)
(* most one above its limit (ResourcePool_impl::getResource), and every    *)
(* other variable keeps its type, whatever the transactions do.            *)
THEOREM PoolCounts == SeriesSpec => []SeriesTypeOK
<1>1. SeriesSpec => []SeriesTypeInv
  BY SeriesTypeInit, SeriesTypeStep, PTL DEF SeriesSpec
<1>2. SeriesTypeInv => SeriesTypeOK
  BY DEF SeriesTypeInv, SeriesTypeOK, TypeInv, PoolTypes, HistoryTypes, Pool
<1> QED
  BY <1>1, <1>2, PTL
-----------------------------------------------------------------------------
(***************************************************************************)
(* What the operations of a resource do to the work in its block.          *)
(***************************************************************************)
(* The block commits nothing, and the resource does not become Active.     *)
Spares(p, q) ==
    /\ Kept(q)
    /\ q.status = "Active" => p.status = "Active"
    /\ Open(p) /\ ~Open(q) => q.fate # "committed"

LEMMA PrepareSpares ==
  ASSUME NEW p \in ResourceState, Kept(p)
  PROVE  LET q == PgPrepare(p)
         IN  /\ Spares(p, q.p) /\ q.p.status # "Active"
             /\ q.answer = "VoteCommit" => p.status = "Active"
BY DEF PgPrepare, XaPrepare, CanPrepare, Aborts, Settle, Outcome, Kept, Open, Spares,
       ResourceState, BlockState, TransState, Fate, ResourceStatus

LEMMA RollbackSpares ==
  ASSUME NEW p \in ResourceState, Kept(p)
  PROVE  LET q == PgRollback(p)
         IN  Spares(p, q.p) /\ q.p.status # "Active"
BY DEF PgRollback, XaRollback, Aborts, Settle, Outcome, Kept, Open, Spares,
       ResourceState, BlockState, TransState, Fate, ResourceStatus

LEMMA CommitKeeps ==
  ASSUME NEW p \in ResourceState, Kept(p), NEW t \in BOOLEAN
  PROVE  LET q == PgCommit(p, t)
         IN  /\ Kept(q.p)
             /\ q.p.status = "Active" => p.status = "Active"
             /\ q.answer = "HeuristicRollback" => Spares(p, q.p)
BY DEF PgCommit, XaCommit, XaCommitOk, Commits, Aborts, Settle, Outcome, Kept, Open, Spares,
       ResourceState, BlockState, TransState, Fate, ResourceStatus

LEMMA FaultSpares ==
  ASSUME NEW p \in ResourceState, Kept(p)
  PROVE  /\ Spares(p, StatementFails(p))
         /\ Spares(p, ConnectionLost(p))
         /\ StatementFails(p).status = p.status /\ ConnectionLost(p).status = p.status
BY DEF StatementFails, ConnectionLost, Settle, Kept, Open, Spares,
       ResourceState, BlockState, TransState, Fate, ResourceStatus

LEMMA BeginSpares ==
  ASSUME NEW p \in ResourceState, Kept(p), p.live /\ p.block = "DEFAULT" => p.fate = "none"
  PROVE  LET q == PgBeginTrans(p).p
         IN  Spares(p, q) /\ q.status = p.status
BY DEF PgBeginTrans, Begin, Outcome, Kept, Open, Spares,
       ResourceState, BlockState, TransState, Fate, ResourceStatus

(* What the coordinator gets to know of a commit in one phase.             *)
OnePhaseOutcome(p, t) ==
    LET outcome == PgCommitOnePhase(p, t)
    IN  IF outcome.answer # "HeuristicRollback" THEN outcome
        ELSE IF ThrowSpecsEnforced
             THEN Outcome(ConnectionLost(outcome.p), "COMM_FAILURE")
             ELSE Outcome(outcome.p, "UNKNOWN")

LEMMA OnePhaseKeeps ==
  ASSUME NEW p \in ResourceState, Kept(p), NEW t \in BOOLEAN
  PROVE  LET q == OnePhaseOutcome(p, t)
         IN  /\ Kept(q.p) /\ q.p.status # "Active"
             /\ Spares(p, q.p) \/ (p.status = "Active" /\ q.answer # "TRANSACTION_ROLLEDBACK")
<1> DEFINE v == PgPrepare(p)
           k == PgCommit(v.p, t)
           u == PgRollback(v.p)
           o == PgCommitOnePhase(p, t)
<1>1. /\ v.p \in ResourceState /\ Spares(p, v.p) /\ v.p.status # "Active"
      /\ v.answer \in {"VoteCommit", "VoteRollback", "spins"}
      /\ v.answer = "VoteCommit" => p.status = "Active"
      /\ Open(v.p) => Open(p)
  <2>1. Open(v.p) => Open(p)
    BY DEF PgPrepare, XaPrepare, CanPrepare, Aborts, Settle, Outcome, Open,
           ResourceState, BlockState, TransState, Fate, ResourceStatus
  <2> QED
    BY <2>1, PgTypes, PrepareSpares
<1>2. /\ k.p \in ResourceState /\ Kept(k.p) /\ (k.p.status = "Active" => v.p.status = "Active")
      /\ k.answer = "HeuristicRollback" => Spares(v.p, k.p)
      /\ k.answer \in {"ok", "HeuristicRollback", "NotPrepared", "spins"}
  BY <1>1, PgTypes, CommitKeeps DEF Spares
<1>3. /\ u.p \in ResourceState /\ Spares(v.p, u.p) /\ u.p.status # "Active"
      /\ u.answer \in {"ok", "spins"}
  BY <1>1, PgTypes, RollbackSpares DEF Spares
<1>4. o = CASE v.answer = "VoteCommit"   -> k
            [] v.answer = "VoteRollback" ->
                  IF u.answer = "spins" THEN u ELSE Outcome(u.p, "TRANSACTION_ROLLEDBACK")
            [] OTHER -> v
  BY DEF PgCommitOnePhase
<1>5. OnePhaseOutcome(p, t) =
        IF o.answer # "HeuristicRollback" THEN o
        ELSE IF ThrowSpecsEnforced THEN Outcome(ConnectionLost(o.p), "COMM_FAILURE")
             ELSE Outcome(o.p, "UNKNOWN")
  BY DEF OnePhaseOutcome
<1> HIDE DEF v, k, u, o
<1>6. CASE v.answer = "VoteCommit"
  <2>1. o = k /\ p.status = "Active" /\ Kept(k.p) /\ k.p.status # "Active"
    BY <1>1, <1>2, <1>4, <1>6
  <2>2. k.answer # "TRANSACTION_ROLLEDBACK"
    BY <1>2
  <2>3. Kept(ConnectionLost(k.p)) /\ ConnectionLost(k.p).status # "Active"
    BY <1>2, <2>1, FaultSpares DEF Spares
  <2> QED
    BY <1>5, <2>1, <2>2, <2>3 DEF Outcome
<1>7. CASE v.answer = "VoteRollback"
  <2>1. o.p = u.p /\ o.answer \in {"spins", "TRANSACTION_ROLLEDBACK"}
    BY <1>3, <1>4, <1>7 DEF Outcome
  <2>2. Spares(p, u.p)
    <3>1. Kept(u.p) /\ (u.p.status = "Active" => p.status = "Active")
      BY <1>3 DEF Spares
    <3>2. ASSUME Open(p), ~Open(u.p), u.p.fate = "committed" PROVE FALSE
      <4>1. ~Open(v.p) /\ v.p.fate # "committed"
        BY <1>1, <1>3, <3>2 DEF Spares
      <4>2. u.p.fate = v.p.fate
        BY <4>1, <1>1 DEF u, PgRollback, XaRollback, Aborts, Settle, Outcome, Open, Spares, Kept,
           ResourceState, BlockState, TransState, Fate, ResourceStatus
      <4> QED
        BY <3>2, <4>1, <4>2
    <3> QED
      BY <3>1, <3>2 DEF Spares
  <2> QED
    BY <1>3, <1>5, <2>1, <2>2 DEF Spares
<1>8. CASE v.answer = "spins"
  BY <1>1, <1>4, <1>5, <1>8 DEF Spares
<1> QED
  BY <1>1, <1>6, <1>7, <1>8
-----------------------------------------------------------------------------
(***************************************************************************)
(* The steps of the call that ends the transaction.                        *)
(***************************************************************************)
Running(c) ==
    /\ SeriesTypeInv /\ SeriesTypeInv' /\ SeriesInv /\ MaxFaults = 0
    /\ Record
    /\ pc[c] = "idle" => Working

(* What such a step leaves: the call goes on from a place where it knows   *)
(* what it did, and what it commits is the work of its transaction.        *)
Carries(c) ==
    /\ pc'[c] # "idle" /\ InPlace(c)' /\ Progress(c)' /\ VotesUsed'
    /\ Len(rcv') = Len(rcv) /\ \A i \in 1..Len(rcv) : rcv'[i].r = rcv[i].r
    /\ \A r \in Resources :
         /\ ~Listed(r) => res'[r] = res[r]
         /\ Kept(res'[r])
         /\ res'[r].status = "Active" => res[r].status = "Active"
         /\ Open(res[r]) /\ ~Open(res'[r]) /\ res'[r].fate = "committed" =>
               Own(r) /\ ~Nothing(c)'
    /\ Nothing(c)' => Nothing(c) \/ Untold

LEMMA RecordFacts ==
  ASSUME SeriesTypeInv, Record
  PROVE  /\ txn' = txn /\ txn \in Nat
         /\ \A r \in Resources :
              /\ work'[r] \subseteq work[r] \cup {txn}
              /\ Len(rcv') = Len(rcv) => work'[r] \subseteq work[r]
              /\ Own(r) => Own(r)'
         /\ \A t \in durable' \ durable : \E r \in Resources :
              t \in work[r] /\ Closes(r) /\ res'[r].fate = "committed"
         /\ durable \subseteq durable' /\ undone \subseteq undone'
         /\ \A t \in undone' \ undone : t = txn /\ \E c \in Terminators : Told(c)'
         /\ Len(rcv') = Len(rcv) => \A r \in Resources : ~Joins(r)
<1>1. txn' = txn /\ txn \in Nat
  BY PoolAssumption DEF Record, SeriesTypeInv, HistoryTypes
<1>2. Len(rcv') = Len(rcv) => \A r \in Resources : ~Joins(r)
  <2>1. Len(rcv) \in Nat
    BY ListTypes DEF SeriesTypeInv, TypeInv, TypeOK
  <2> QED
    BY <2>1 DEF Joins
<1>3. ASSUME NEW r \in Resources
      PROVE  /\ work'[r] \subseteq work[r] \cup {txn}
             /\ Len(rcv') = Len(rcv) => work'[r] \subseteq work[r]
             /\ Own(r) => Own(r)'
  <2>1. work'[r] = IF Closes(r) THEN {} ELSE IF Joins(r) THEN work[r] \cup {txn} ELSE work[r]
    BY DEF Record
  <2> QED
    BY <1>1, <1>2, <2>1 DEF Own
<1>4. \A t \in durable' \ durable : \E r \in Resources :
        t \in work[r] /\ Closes(r) /\ res'[r].fate = "committed"
  BY DEF Record
<1>5. durable \subseteq durable' /\ undone \subseteq undone'
  BY DEF Record
<1>6. \A t \in undone' \ undone : t = txn /\ \E c \in Terminators : Told(c)'
  BY DEF Record, ToldUndone, Told
<1> QED
  BY <1>1, <1>2, <1>3, <1>4, <1>5, <1>6

LEMMA RunningFacts ==
  ASSUME NEW c \in Terminators, Running(c)
  PROVE  /\ TypeInv /\ TypeInv' /\ CoordTypes /\ CallTypes /\ ControlTypes
         /\ InPlace(c) /\ Progress(c) /\ VotesUsed /\ faults = 0 /\ MaxFaults = 0
         /\ pc[c] = "idle" => Untold /\ status \in {"Active", "MarkedRollback"}
         /\ pc[c] # "done" => \A d \in Terminators : d # c => pc[d] = "idle"
         /\ \A d \in Terminators : InPlace(d)
         /\ \A g \in Registrars : pc[g] \notin {"begin", "enlist"}
         /\ \A r \in Resources :
              /\ res[r] \in ResourceState /\ Kept(res[r])
              /\ res[r].status = "Active" => Own(r)
              /\ Own(r) => Own(r)'
         /\ c \in Committers \/ c \in Rollbackers
         /\ ~(c \in Committers /\ c \in Rollbackers)
<1>1. /\ TypeInv /\ TypeInv' /\ SeriesInv /\ CoordTypes /\ CallTypes /\ ControlTypes
      /\ InPlace(c) /\ Progress(c) /\ VotesUsed /\ MaxFaults = 0
      /\ \A d \in Terminators : InPlace(d)
  BY DEF Running, SeriesTypeInv, TypeInv, TypeOK, SeriesInv
<1>2. faults = 0
  BY <1>1 DEF TypeInv, TypeOK, WorldTypes
<1>3. pc[c] = "idle" => Untold
  BY DEF Running, Working, Quiet, Decided, Untold, Calls
<1>4. /\ pc[c] = "idle" => status \in {"Active", "MarkedRollback"}
      /\ pc[c] # "done" => \A d \in Terminators : d # c => pc[d] = "idle"
      /\ \A g \in Registrars : pc[g] \notin {"begin", "enlist"}
  BY <1>1, <1>3 DEF SeriesInv, OneCall, Untold, Running, Working, Quiet, Calls
<1>5. \A r \in Resources :
        /\ res[r] \in ResourceState /\ Kept(res[r])
        /\ res[r].status = "Active" => Own(r)
        /\ Own(r) => Own(r)'
  BY <1>1, RecordFacts, CallFacts DEF SeriesInv, WorkInv, Running
<1> QED
  BY <1>1, <1>2, <1>3, <1>4, <1>5, CallsAssumption DEF Terminators

(* A step that changes neither the list nor a resource.                    *)
LEMMA CarriesCalmly ==
  ASSUME NEW c \in Terminators, Running(c), UNCHANGED <<rcv, res>>,
         pc'[c] # "idle", InPlace(c)', Progress(c)', Nothing(c)' => Nothing(c) \/ Untold
  PROVE  Carries(c)
<1>1. VotesUsed'
  BY RunningFacts DEF VotesUsed, Used
<1> QED
  BY <1>1, RunningFacts DEF Carries

LEMMA CarriesNothing ==
  ASSUME NEW c \in Terminators, Running(c), UNCHANGED vars, pc[c] # "idle"
  PROVE  Carries(c)
<1>a. /\ InPlace(c) /\ Progress(c) /\ Len(rcv) \in Nat /\ ix[c] \in Nat \ {0} /\ len[c] \in Nat
      /\ len[c] <= Len(rcv) /\ (pc[c] \in Answered => ix[c] <= len[c])
      /\ \A i \in 1..Len(rcv) : rcv[i].r \in Resources
      /\ \A r \in Resources : Own(r) => Own(r)'
      /\ UNCHANGED <<status, rcv, res, pc, ix, len, ans, reply>>
  BY RunningFacts, CallFacts DEF vars
<1>1. InPlace(c)'
  BY <1>a DEF InPlace
<1>2. Progress(c)'
  BY <1>a DEF Progress, UsedUpTo, Used, Answered
<1>3. Nothing(c)' => Nothing(c)
  BY <1>a DEF Nothing, Told
<1> QED
  BY <1>a, <1>1, <1>2, <1>3, CarriesCalmly

(* The control of a call, and where it takes it.                           *)
LEMMA CommitCarries ==
  ASSUME NEW c \in Committers, Running(c), Commit(c)
  PROVE  Carries(c)
<1>a. /\ c \in Terminators /\ c \notin Rollbackers /\ c \in Calls
      /\ pc[c] = "idle" /\ Untold /\ status \in {"Active", "MarkedRollback"}
      /\ reply[c] = "none" /\ ControlTypes /\ CallTypes /\ UNCHANGED <<status, rcv, res>>
  BY RunningFacts, CallFacts DEF Commit, InPlace, Terminators, coordVars
<1>1. /\ reply' = reply
      /\ \/ pc'[c] = "before" /\ len'[c] = Len(rcv)
         \/ pc'[c] = "rollback" /\ status = "MarkedRollback"
  BY <1>a DEF Commit, Loop, Goto, ControlTypes, CallTypes
<1>2. InPlace(c)'
  BY <1>a, <1>1 DEF InPlace, CommitPlaces, Looping
<1>3. Progress(c)'
  BY <1>1 DEF Progress
<1> QED
  BY <1>a, <1>1, <1>2, <1>3, CarriesCalmly

LEMMA BeforeCompletionCarries ==
  ASSUME NEW c \in Committers, Running(c), BeforeCompletion(c)
  PROVE  Carries(c)
<1>a. /\ c \in Terminators /\ c \notin Rollbackers /\ c \in Calls
      /\ pc[c] = "before" /\ len[c] = Len(rcv) /\ reply[c] = "none"
      /\ ControlTypes /\ UNCHANGED <<rcv, res, len>>
  BY RunningFacts, CallFacts DEF BeforeCompletion, InPlace, Looping, Terminators
<1>1. reply' = reply /\ pc'[c] \in {"before", "dispatch"}
  BY <1>a DEF BeforeCompletion, Goto, ControlTypes
<1>2. InPlace(c)' /\ Progress(c)'
  BY <1>a, <1>1 DEF InPlace, Progress, CommitPlaces, Looping
<1>3. Nothing(c)
  BY <1>a DEF Nothing
<1> QED
  BY <1>a, <1>1, <1>2, <1>3, CarriesCalmly

LEMMA DispatchCarries ==
  ASSUME NEW c \in Committers, Running(c), Dispatch(c)
  PROVE  Carries(c)
<1>a. /\ c \in Terminators /\ c \notin Rollbackers /\ c \in Calls
      /\ pc[c] = "dispatch" /\ len[c] = Len(rcv) /\ reply[c] = "none"
      /\ ControlTypes /\ CallTypes /\ UNCHANGED <<rcv, res, len>> /\ Len(rcv) \in Nat
      /\ ix'[c] = 1
  BY RunningFacts, CallFacts DEF Dispatch, InPlace, Looping, Terminators
<1>1. \/ pc'[c] = "done" /\ len[c] = 0 /\ reply'[c] = "ok"
      \/ pc'[c] = "onephase" /\ reply' = reply
      \/ pc'[c] = "prepare" /\ reply' = reply /\ status' = "Preparing"
  BY <1>a DEF Dispatch, Return, Goto, ControlTypes
<1>2. InPlace(c)'
  BY <1>a, <1>1 DEF InPlace, CommitPlaces, Looping
<1>3. Progress(c)'
  BY <1>a, <1>1 DEF Progress, UsedUpTo
<1>4. Nothing(c)
  BY <1>a DEF Nothing
<1> QED
  BY <1>a, <1>1, <1>2, <1>3, <1>4, CarriesCalmly

(* How a call ends when it throws.                                         *)
LEMMA Thrown ==
  ASSUME ControlTypes, NEW c \in Calls, NEW v, Throw(c, v), pc[c] \notin {"idle", "done"}
  PROVE  pc'[c] = "done" /\ reply'[c] \in {v, "COMM_FAILURE"}
BY DEF Throw, Return, Terminate, ControlTypes

LEMMA OnePhaseAnsweredCarries ==
  ASSUME NEW c \in Committers, Running(c), OnePhaseAnswered(c)
  PROVE  Carries(c)
<1>a. /\ c \in Terminators /\ c \notin Rollbackers /\ c \in Calls
      /\ pc[c] = "onephased" /\ ControlTypes /\ UNCHANGED <<rcv, res>>
      /\ Progress(c)
  BY RunningFacts, CallFacts DEF OnePhaseAnswered, Terminators, coordVars
<1>1. /\ pc'[c] = "done"
      /\ reply'[c] = "TRANSACTION_ROLLEDBACK" => ans[c] = "TRANSACTION_ROLLEDBACK"
  <2>1. CASE Return(c, "ok")
    BY <1>a, <2>1 DEF Return, ControlTypes
  <2>2. CASE Throw(c, "HeuristicHazard") \/ Throw(c, ans[c])
    BY <1>a, <2>2, Thrown
  <2> QED
    BY <2>1, <2>2 DEF OnePhaseAnswered
<1>2. InPlace(c)'
  BY <1>a, <1>1 DEF InPlace, CommitPlaces, Looping
<1>3. Progress(c)'
  BY <1>a, <1>1 DEF Progress, UsedUpTo, Used
<1>4. Nothing(c)' => Nothing(c)
  BY <1>a, <1>1 DEF Nothing, Told
<1> QED
  BY <1>a, <1>1, <1>2, <1>3, <1>4, CarriesCalmly

LEMMA DecideCarries ==
  ASSUME NEW c \in Committers, Running(c), Decide(c)
  PROVE  Carries(c)
<1>a. /\ c \in Terminators /\ c \notin Rollbackers /\ c \in Calls
      /\ pc[c] = "prepare" /\ len[c] = Len(rcv) /\ reply[c] = "none"
      /\ status \in {"Preparing", "MarkedRollback"}
      /\ ControlTypes /\ UNCHANGED <<rcv, res, len>> /\ Progress(c)
      /\ Len(rcv) \in Nat /\ ix[c] \in Nat /\ \A i \in 1..Len(rcv) : rcv[i].r \in Resources
      /\ \A r \in Resources : Own(r) => Own(r)'
  BY RunningFacts, CallFacts DEF Decide, InPlace, Looping, Terminators
<1>1. /\ reply' = reply
      /\ \/ pc'[c] = "rollback" /\ status' = "MarkedRollback"
         \/ pc'[c] = "commit" /\ status = "Preparing" /\ ix[c] > len[c]
  <2>1. CASE status = "MarkedRollback"
    BY <1>a, <2>1 DEF Decide, Goto, ControlTypes
  <2>2. CASE status # "MarkedRollback"
    <3>1. ~(ix[c] <= len[c]) /\ Goto(c, "commit")
      BY <2>2 DEF Decide, More
    <3> QED
      BY <1>a, <2>2, <3>1 DEF Goto, ControlTypes
  <2> QED
    BY <2>1, <2>2
<1>2. InPlace(c)'
  BY <1>a, <1>1 DEF InPlace, CommitPlaces, Looping
<1>3. Progress(c)'
  BY <1>a, <1>1 DEF Progress, UsedUpTo, Used
<1>4. Nothing(c)
  BY <1>a DEF Nothing
<1> QED
  BY <1>a, <1>1, <1>2, <1>3, <1>4, CarriesCalmly

LEMMA CommitEndsCarries ==
  ASSUME NEW c \in Committers, Running(c), CommitEnds(c)
  PROVE  Carries(c)
<1>a. /\ c \in Terminators /\ c \notin Rollbackers /\ c \in Calls
      /\ pc[c] = "commit" /\ reply[c] = "none" /\ ControlTypes /\ UNCHANGED <<rcv, res>>
      /\ Progress(c)
  BY RunningFacts, CallFacts DEF CommitEnds, InPlace, CommitPlaces, Terminators
<1>1. reply' = reply /\ pc'[c] = "after"
  BY <1>a DEF CommitEnds, Goto, ControlTypes
<1>2. InPlace(c)' /\ Progress(c)'
  BY <1>a, <1>1 DEF InPlace, CommitPlaces, Looping, Progress, UsedUpTo, Used
<1>3. ~Nothing(c)'
  BY <1>a, <1>1 DEF Nothing, Told
<1> QED
  BY <1>a, <1>1, <1>2, <1>3, CarriesCalmly

LEMMA RollbackCarries ==
  ASSUME NEW c \in Terminators, Running(c), Rollback(c)
  PROVE  Carries(c)
<1>a. /\ c \in Calls /\ pc[c] \in {"idle", "rollback"} /\ (pc[c] = "idle" => Untold)
      /\ status \in {"Active", "MarkedRollback"}
      /\ reply[c] = "none" /\ ControlTypes /\ CallTypes /\ UNCHANGED <<rcv, res>>
      /\ Len(rcv) \in Nat
  BY RunningFacts, CallFacts DEF Rollback, InPlace
<1>1. reply' = reply /\ pc'[c] = "undo" /\ len'[c] = Len(rcv) /\ ix'[c] = 1
  BY <1>a DEF Rollback, Loop, Goto, ControlTypes, CallTypes
<1>2. InPlace(c)'
  BY <1>a, <1>1 DEF InPlace, CommitPlaces, RollbackPlaces, Looping
<1>3. Progress(c)'
  BY <1>a, <1>1 DEF Progress, UsedUpTo
<1>4. Nothing(c) \/ Untold
  BY <1>a DEF Nothing
<1> QED
  BY <1>a, <1>1, <1>2, <1>3, <1>4, CarriesCalmly

LEMMA RollbackEndsCarries ==
  ASSUME NEW c \in Terminators, Running(c), RollbackEnds(c)
  PROVE  Carries(c)
<1>a. /\ c \in Calls /\ pc[c] = "undo" /\ len[c] = Len(rcv) /\ reply[c] = "none"
      /\ ControlTypes /\ CallTypes /\ UNCHANGED <<rcv, res>> /\ Progress(c)
      /\ Len(rcv) \in Nat /\ ix[c] \in Nat /\ ix[c] > len[c]
      /\ \A i \in 1..Len(rcv) : rcv[i].r \in Resources
  <2>1. /\ c \in Calls /\ InPlace(c) /\ Progress(c) /\ ControlTypes /\ CallTypes
        /\ Len(rcv) \in Nat /\ ix[c] \in Nat /\ len[c] \in Nat
        /\ \A i \in 1..Len(rcv) : rcv[i].r \in Resources
    BY RunningFacts, CallFacts
  <2>2. pc[c] = "undo" /\ UNCHANGED <<rcv, res>> /\ ~(ix[c] <= len[c])
    BY <2>1 DEF RollbackEnds, InPlace, CommitPlaces, More
  <2> QED
    BY <2>1, <2>2 DEF InPlace, Looping
<1>1. \/ reply' = reply /\ pc'[c] = "undoAfter"
      \/ pc'[c] = "done"
  <2>1. CASE Goto(c, "undoAfter")
    BY <1>a, <2>1 DEF Goto, ControlTypes
  <2>2. CASE Throw(c, "HeuristicHazard")
    BY <1>a, <2>2, Thrown
  <2> QED
    BY <1>a, <2>1, <2>2 DEF RollbackEnds
<1>2. InPlace(c)'
  BY <1>a, <1>1 DEF InPlace, CommitPlaces, RollbackPlaces, Looping
<1>3. Progress(c)'
  BY <1>a, <1>1 DEF Progress, UsedUpTo, Used
<1>4. Nothing(c)
  BY <1>a DEF Nothing
<1> QED
  BY <1>a, <1>1, <1>2, <1>3, <1>4, CarriesCalmly

LEMMA AfterCompletionCarries ==
  ASSUME NEW c \in Terminators, Running(c), AfterCompletion(c)
  PROVE  Carries(c)
<1>a. /\ c \in Calls /\ pc[c] \in {"after", "undoAfter"} /\ reply[c] = "none"
      /\ (pc[c] = "after" => c \in Committers /\ c \notin Rollbackers)
      /\ ControlTypes /\ CallTypes /\ UNCHANGED <<rcv, res>> /\ Progress(c) /\ InPlace(c)
  BY RunningFacts, CallFacts DEF AfterCompletion, InPlace, RollbackPlaces
<1>1. \/ reply' = reply /\ pc'[c] = pc[c]
      \/ pc'[c] = "done" /\ (pc[c] = "after" => reply'[c] \in {"ok", "HeuristicHazard", "COMM_FAILURE"})
  <2>1. CASE UNCHANGED <<pc, reply, up>>
    BY <2>1
  <2>2. CASE pc[c] = "undoAfter" /\ RollbackReturns(c)
    BY <1>a, <2>2 DEF RollbackReturns, Return, ControlTypes
  <2>3. CASE pc[c] = "after" /\ Throw(c, "HeuristicHazard")
    BY <1>a, <2>3, Thrown
  <2>4. CASE Return(c, "ok") /\ pc[c] = "after"
    BY <1>a, <2>4 DEF Return, ControlTypes
  <2> QED
    BY <1>a, <2>1, <2>2, <2>3, <2>4 DEF AfterCompletion
<1>2. InPlace(c)'
  BY <1>a, <1>1 DEF InPlace, CommitPlaces, RollbackPlaces, Looping
<1>3. Progress(c)'
  BY <1>a, <1>1 DEF Progress, UsedUpTo, Used
<1>4. Nothing(c)' => Nothing(c)
  BY <1>a, <1>1 DEF Nothing, Told
<1> QED
  BY <1>a, <1>1, <1>2, <1>3, <1>4, CarriesCalmly

(* The resource executes a call of the coordinator.                        *)
LEMMA InvokeOnce ==
  ASSUME NEW c \in Terminators, Running(c), NEW outcome, Invoke(c, outcome), ix[c] <= len[c]
  PROVE  LET s == rcv[ix[c]].r
         IN  /\ ix[c] \in 1..Len(rcv) /\ s \in Resources /\ res[s] \in ResourceState /\ Listed(s)
             /\ res'[s] = outcome.p /\ ans'[c] = outcome.answer
             /\ \A r \in Resources : r # s => res'[r] = res[r]
<1>1. ~(faults < MaxFaults) /\ TypeInv
  BY RunningFacts
<1>2. /\ ix[c] \in 1..Len(rcv) /\ rcv[ix[c]].r \in Resources
      /\ res \in [Resources -> ResourceState] /\ ans \in [Terminators -> Answer]
  BY <1>1, CallFacts
<1>3. /\ res' = [res EXCEPT ![rcv[ix[c]].r] = outcome.p]
      /\ ans' = [ans EXCEPT ![c] = outcome.answer]
  BY <1>1 DEF Invoke, Entry
<1> QED
  BY <1>2, <1>3 DEF Listed

LEMMA CarriesCall ==
  ASSUME NEW c \in Terminators, Running(c), NEW s \in Resources, Listed(s),
         UNCHANGED rcv, pc'[c] # "idle", InPlace(c)', Progress(c)',
         \A r \in Resources : r # s => res'[r] = res[r],
         Kept(res'[s]), res'[s].status = "Active" => res[s].status = "Active",
         Spares(res[s], res'[s]) \/ (Own(s) /\ ~Nothing(c)'),
         Nothing(c)' => Nothing(c)
  PROVE  Carries(c)
<1>1. \A r \in Resources :
        /\ ~Listed(r) => res'[r] = res[r]
        /\ Kept(res'[r])
        /\ res'[r].status = "Active" => res[r].status = "Active"
        /\ Open(res[r]) /\ ~Open(res'[r]) /\ res'[r].fate = "committed" =>
              Own(r) /\ ~Nothing(c)'
  BY RunningFacts DEF Spares
<1>2. VotesUsed'
  <2>1. VotesUsed /\ \A i \in 1..Len(rcv) : rcv[i].r \in Resources
    BY RunningFacts, CallFacts
  <2> QED
    BY <1>1, <2>1 DEF VotesUsed, Used
<1> QED
  BY <1>1, <1>2 DEF Carries

LEMMA PrepareNextCarries ==
  ASSUME NEW c \in Committers, Running(c), PrepareNext(c)
  PROVE  Carries(c)
<1> DEFINE s == rcv[ix[c]].r
           o == PgPrepare(res[s])
<1>a. /\ c \in Terminators /\ c \notin Rollbackers /\ c \in Calls
      /\ pc[c] = "prepare" /\ len[c] = Len(rcv) /\ reply[c] = "none" /\ status = "Preparing"
      /\ ControlTypes /\ UNCHANGED <<status, rcv, ix, len>> /\ Progress(c)
      /\ Len(rcv) \in Nat /\ ix[c] \in Nat /\ ix[c] <= len[c]
      /\ \A i \in 1..Len(rcv) : rcv[i].r \in Resources
      /\ \A r \in Resources : (res[r].status = "Active" => Own(r)) /\ (Own(r) => Own(r)')
  <2>1. /\ c \in Terminators /\ c \in Calls /\ c \notin Rollbackers
        /\ InPlace(c) /\ Progress(c) /\ ControlTypes
        /\ Len(rcv) \in Nat /\ ix[c] \in Nat
        /\ \A i \in 1..Len(rcv) : rcv[i].r \in Resources
        /\ \A r \in Resources : (res[r].status = "Active" => Own(r)) /\ (Own(r) => Own(r)')
    BY RunningFacts, CallFacts DEF Terminators
  <2>2. /\ pc[c] = "prepare" /\ status # "MarkedRollback" /\ ix[c] <= len[c]
        /\ UNCHANGED <<status, rcv, ix, len>>
    BY DEF PrepareNext, More, coordVars, callVars
  <2> QED
    BY <2>1, <2>2 DEF InPlace, Looping
<1>1. Invoke(c, o) /\ pc'[c] = "voted" /\ reply' = reply
  BY <1>a DEF PrepareNext, Entry, Goto, ControlTypes
<1>2. /\ s \in Resources /\ Listed(s) /\ res[s] \in ResourceState /\ Kept(res[s])
      /\ res'[s] = o.p /\ ans'[c] = o.answer /\ ix[c] \in 1..Len(rcv)
      /\ \A r \in Resources : r # s => res'[r] = res[r]
  <2> HIDE DEF o
  <2> QED
    BY <1>a, <1>1, InvokeOnce, RunningFacts
<1>3. /\ Spares(res[s], res'[s]) /\ res'[s].status # "Active"
      /\ ans'[c] = "VoteCommit" => Own(s)
      /\ ans'[c] \notin NetworkFailure
  <2>1. /\ Spares(res[s], o.p) /\ o.p.status # "Active"
        /\ o.answer = "VoteCommit" => res[s].status = "Active"
    BY <1>2, PrepareSpares
  <2>2. o.answer \in {"VoteCommit", "VoteRollback", "spins"}
    BY <1>2, PgTypes
  <2> HIDE DEF s, o
  <2> QED
    BY <1>a, <1>2, <2>1, <2>2 DEF NetworkFailure
<1> HIDE DEF s, o
<1>4. InPlace(c)'
  BY <1>a, <1>1, <1>3 DEF InPlace, CommitPlaces, Looping
<1>5. Progress(c)'
  <2>1. \A i \in 1..Len(rcv) : i <= ix[c] => Used(i)'
    <3>1. \A i \in 1..Len(rcv) : i < ix[c] => Used(i)
      BY <1>a DEF Progress, UsedUpTo
    <3>2. \A i \in 1..Len(rcv) : rcv[i].r # s => (Used(i) => Used(i)')
      BY <1>a, <1>2 DEF Used
    <3>3. \A i \in 1..Len(rcv) : rcv[i].r = s => Used(i)'
      BY <1>a, <1>3 DEF Used
    <3>4. \A i \in 1..Len(rcv) : i < ix[c] \/ (i <= ix[c] => rcv[i].r = s)
      BY <1>a DEF s
    <3> QED
      BY <3>1, <3>2, <3>3, <3>4
  <2>2. \A i \in 1..Len(rcv) : i < ix[c] => Own(rcv[i].r)'
    BY <1>a DEF Progress
  <2>3. ans'[c] = "VoteCommit" => Own(rcv[ix[c]].r)'
    BY <1>a, <1>2, <1>3 DEF s
  <2> QED
    BY <1>a, <1>1, <2>1, <2>2, <2>3 DEF Progress, UsedUpTo, Own
<1>6. Nothing(c)
  BY <1>a DEF Nothing
<1> QED
  BY <1>a, <1>1, <1>2, <1>3, <1>4, <1>5, <1>6, CarriesCall DEF Spares

LEMMA CommitOnePhaseCarries ==
  ASSUME NEW c \in Committers, Running(c), CommitOnePhase(c)
  PROVE  Carries(c)
<1> DEFINE s == rcv[ix[c]].r
<1>a. /\ c \in Terminators /\ c \notin Rollbackers /\ c \in Calls
      /\ pc[c] = "onephase" /\ len[c] = 1 /\ ix[c] = 1 /\ Len(rcv) = 1 /\ reply[c] = "none"
      /\ ControlTypes /\ UNCHANGED <<status, rcv, ix, len>>
      /\ \A i \in 1..Len(rcv) : rcv[i].r \in Resources
      /\ \A r \in Resources : res[r].status = "Active" => Own(r)
  <2>1. /\ c \in Terminators /\ c \in Calls /\ c \notin Rollbackers
        /\ InPlace(c) /\ ControlTypes /\ LoopInside(c)
        /\ \A i \in 1..Len(rcv) : rcv[i].r \in Resources
        /\ \A r \in Resources : res[r].status = "Active" => Own(r)
    BY RunningFacts, CallFacts DEF Terminators, TypeInv, LoopsInside
  <2>2. pc[c] = "onephase" /\ UNCHANGED <<status, rcv, ix, len>>
    BY DEF CommitOnePhase, coordVars, callVars
  <2> QED
    BY <2>1, <2>2 DEF InPlace, Looping, LoopInside
<1>1. pc'[c] = "onephased" /\ reply' = reply
  BY <1>a DEF CommitOnePhase, Goto, ControlTypes
<1>2. PICK t \in BOOLEAN : Invoke(c, OnePhaseOutcome(res[s], t))
  BY DEF CommitOnePhase, OnePhaseOutcome, Entry, TriggerFails
<1> DEFINE o == OnePhaseOutcome(res[s], t)
<1>3. /\ s \in Resources /\ Listed(s) /\ res[s] \in ResourceState /\ Kept(res[s])
      /\ res'[s] = o.p /\ ans'[c] = o.answer
      /\ \A r \in Resources : r # s => res'[r] = res[r]
  <2>1. Invoke(c, o) /\ ix[c] <= len[c]
    BY <1>2, <1>a
  <2> HIDE DEF o
  <2> QED
    BY <1>a, <2>1, InvokeOnce, RunningFacts
<1>4. /\ Kept(res'[s]) /\ res'[s].status # "Active"
      /\ \/ Spares(res[s], res'[s])
         \/ Own(s) /\ ans'[c] # "TRANSACTION_ROLLEDBACK"
  BY <1>a, <1>3, OnePhaseKeeps
<1> HIDE DEF o
<1>5. InPlace(c)'
  BY <1>a, <1>1 DEF InPlace, CommitPlaces, Looping
<1>6. Progress(c)'
  <2>1. \A i \in 1..Len(rcv) : i = ix[c]
    BY <1>a
  <2>2. \A i \in 1..Len(rcv) : Used(i)'
    BY <1>a, <1>4, <2>1 DEF Used
  <2> QED
    BY <1>a, <1>1, <2>2 DEF Progress, UsedUpTo
<1>7. Nothing(c) /\ (Nothing(c)' => ans'[c] = "TRANSACTION_ROLLEDBACK")
  BY <1>a, <1>1 DEF Nothing, Told
<1> HIDE DEF s
<1> QED
  BY <1>a, <1>1, <1>3, <1>4, <1>5, <1>6, <1>7, CarriesCall

LEMMA CommitNextCarries ==
  ASSUME NEW c \in Committers, Running(c), CommitNext(c)
  PROVE  Carries(c)
<1> DEFINE s == rcv[ix[c]].r
<1>a. /\ c \in Terminators /\ c \notin Rollbackers /\ c \in Calls
      /\ pc[c] = "commit" /\ len[c] = Len(rcv) /\ reply[c] = "none"
      /\ ControlTypes /\ UNCHANGED <<status, rcv, len>> /\ Progress(c)
      /\ Len(rcv) \in Nat /\ ix[c] \in Nat \ {0} /\ ix[c] <= len[c]
      /\ \A i \in 1..Len(rcv) : rcv[i].r \in Resources
      /\ \A r \in Resources : Own(r) => Own(r)'
  <2>1. /\ c \in Terminators /\ c \in Calls /\ c \notin Rollbackers
        /\ InPlace(c) /\ Progress(c) /\ ControlTypes
        /\ Len(rcv) \in Nat /\ ix[c] \in Nat \ {0}
        /\ \A i \in 1..Len(rcv) : rcv[i].r \in Resources
        /\ \A r \in Resources : Own(r) => Own(r)'
    BY RunningFacts, CallFacts DEF Terminators
  <2>2. /\ pc[c] = "commit" /\ ix[c] <= len[c] /\ UNCHANGED <<status, rcv, len>>
    BY <2>1 DEF CommitNext, More, coordVars, InPlace, CommitPlaces
  <2> QED
    BY <2>1, <2>2 DEF InPlace, Looping
<1>1. /\ \A i \in 1..Len(rcv) : Used(i) /\ Own(rcv[i].r) /\ Own(rcv[i].r)'
      /\ s \in Resources /\ Listed(s) /\ Own(s)
  BY <1>a DEF Progress, UsedUpTo, Listed
<1>b. ASSUME \A i \in 1..Len(rcv) : Used(i)', pc'[c] \in {"commit", "committed"}
      PROVE  Progress(c)'
  BY <1>a, <1>1, <1>b DEF Progress, UsedUpTo
<1>2. CASE UNCHANGED <<res, pc, ans, reply, up, faults>>
  <2>1. InPlace(c)'
    BY <1>a, <1>2 DEF InPlace, CommitPlaces, Looping
  <2>2. Progress(c)'
    BY <1>a, <1>1, <1>2, <1>b DEF Used
  <2>3. ~Nothing(c)'
    BY <1>a, <1>2 DEF Nothing, Told
  <2> QED
    BY <1>a, <1>2, <2>1, <2>2, <2>3, CarriesCalmly
<1>3. ASSUME NEW t \in BOOLEAN, Invoke(c, PgCommit(res[s], t)), Goto(c, "committed"),
             UNCHANGED ix
      PROVE  Carries(c)
  <2> DEFINE o == PgCommit(res[s], t)
  <2>1. /\ res[s] \in ResourceState /\ Kept(res[s]) /\ res'[s] = o.p /\ ans'[c] = o.answer
        /\ \A r \in Resources : r # s => res'[r] = res[r]
    <3>1. Invoke(c, o) /\ ix[c] <= len[c]
      BY <1>3, <1>a
    <3> HIDE DEF o
    <3> QED
      BY <1>1, <3>1, <1>a, InvokeOnce, RunningFacts
  <2>2. /\ Kept(res'[s]) /\ (res'[s].status = "Active" => res[s].status = "Active")
        /\ ans'[c] \notin NetworkFailure
    BY <2>1, CommitKeeps, PgTypes DEF NetworkFailure
  <2>3. pc'[c] = "committed" /\ reply' = reply
    BY <1>a, <1>3 DEF Goto, ControlTypes
  <2> HIDE DEF o, s
  <2>4. InPlace(c)'
    BY <1>a, <1>3, <2>2, <2>3 DEF InPlace, CommitPlaces, Looping
  <2>5. Progress(c)'
    <3>1. \A i \in 1..Len(rcv) : rcv[i].r # s => (Used(i) => Used(i)')
      BY <1>a, <2>1 DEF Used
    <3>2. \A i \in 1..Len(rcv) : rcv[i].r = s => (Used(i) => Used(i)')
      BY <1>a, <2>2 DEF Used
    <3> QED
      BY <1>1, <1>b, <2>3, <3>1, <3>2
  <2>6. ~Nothing(c)'
    BY <1>a, <2>3 DEF Nothing, Told
  <2> QED
    BY <1>a, <1>1, <2>1, <2>2, <2>3, <2>4, <2>5, <2>6, CarriesCall
<1>4. \/ UNCHANGED <<res, pc, ans, reply, up, faults>>
      \/ \E t \in BOOLEAN : Invoke(c, PgCommit(res[s], t)) /\ Goto(c, "committed") /\ UNCHANGED ix
  BY <1>a DEF CommitNext, Entry, TriggerFails
<1> QED
  BY <1>2, <1>3, <1>4

LEMMA RollbackNextCarries ==
  ASSUME NEW c \in Terminators, Running(c), RollbackNext(c)
  PROVE  Carries(c)
<1> DEFINE s == rcv[ix[c]].r
           o == PgRollback(res[s])
<1>a. /\ c \in Calls
      /\ pc[c] = "undo" /\ len[c] = Len(rcv) /\ reply[c] = "none"
      /\ ControlTypes /\ CallTypes /\ UNCHANGED <<status, rcv, len>> /\ Progress(c)
      /\ Len(rcv) \in Nat /\ ix[c] \in Nat \ {0} /\ ix[c] <= len[c]
      /\ \A i \in 1..Len(rcv) : rcv[i].r \in Resources
      /\ VotesUsed
  <2>1. /\ c \in Calls /\ InPlace(c) /\ Progress(c) /\ ControlTypes /\ CallTypes /\ VotesUsed
        /\ Len(rcv) \in Nat /\ ix[c] \in Nat \ {0}
        /\ \A i \in 1..Len(rcv) : rcv[i].r \in Resources
    BY RunningFacts, CallFacts
  <2>2. /\ pc[c] = "undo" /\ ix[c] <= len[c] /\ UNCHANGED <<status, rcv, len>>
    BY <2>1 DEF RollbackNext, More, coordVars, InPlace, CommitPlaces
  <2> QED
    BY <2>1, <2>2 DEF InPlace, Looping
<1>1. /\ \A i \in 1..Len(rcv) : i < ix[c] => Used(i)
      /\ Nothing(c)
  BY <1>a DEF Progress, UsedUpTo, Nothing
<1>2. CASE /\ Entry(c).rv \notin {"VoteCommit", "NotPrepared"}
           /\ Advance(c) /\ UNCHANGED <<res, pc, ans, reply, up, faults>>
  <2>1. InPlace(c)'
    <3>1. InPlace(c)
      BY RunningFacts
    <3> QED
      BY <1>a, <1>2, <3>1 DEF InPlace, CommitPlaces, RollbackPlaces, Looping
  <2>2. Progress(c)'
    <3>1. Used(ix[c])
      BY <1>a, <1>2 DEF Entry, VotesUsed
    <3>2. \A i \in 1..Len(rcv) : i <= ix[c] => Used(i)'
      <4>1. \A i \in 1..Len(rcv) : i <= ix[c] => i < ix[c] \/ i = ix[c]
        BY <1>a
      <4> QED
        BY <1>a, <1>1, <1>2, <3>1, <4>1 DEF Used
    <3>3. ix'[c] - 1 = ix[c]
      BY <1>a, <1>2 DEF Advance, CallTypes
    <3> QED
      BY <1>a, <1>2, <3>2, <3>3 DEF Progress, UsedUpTo
  <2> QED
    BY <1>a, <1>1, <1>2, <2>1, <2>2, CarriesCalmly
<1>3. CASE Invoke(c, o) /\ Goto(c, "undone") /\ UNCHANGED ix
  <2>1. /\ s \in Resources /\ Listed(s) /\ res[s] \in ResourceState /\ Kept(res[s])
        /\ res'[s] = o.p /\ ans'[c] = o.answer
        /\ \A r \in Resources : r # s => res'[r] = res[r]
    <3>1. Invoke(c, o)
      BY <1>3
    <3> HIDE DEF o
    <3> QED
      BY <1>a, <3>1, InvokeOnce, RunningFacts
  <2>2. /\ Spares(res[s], res'[s]) /\ res'[s].status # "Active"
        /\ ans'[c] \notin NetworkFailure
    BY <2>1, RollbackSpares, PgTypes DEF NetworkFailure
  <2>3. pc'[c] = "undone" /\ reply' = reply
    BY <1>a, <1>3 DEF Goto, ControlTypes
  <2> HIDE DEF o, s
  <2>4. InPlace(c)'
    BY <1>a, <1>3, <2>2, <2>3 DEF InPlace, CommitPlaces, RollbackPlaces, Looping
  <2>5. Progress(c)'
    <3>1. \A i \in 1..Len(rcv) : rcv[i].r # s => (Used(i) => Used(i)')
      BY <1>a, <2>1 DEF Used
    <3>2. \A i \in 1..Len(rcv) : rcv[i].r = s => Used(i)'
      BY <1>a, <2>2 DEF Used
    <3>3. \A i \in 1..Len(rcv) : i < ix[c] \/ (i <= ix[c] => rcv[i].r = s)
      BY <1>a DEF s
    <3>4. \A i \in 1..Len(rcv) : i <= ix[c] => Used(i)'
      BY <1>1, <3>1, <3>2, <3>3
    <3> QED
      BY <1>a, <1>3, <2>3, <3>4 DEF Progress, UsedUpTo
  <2> QED
    BY <1>a, <1>1, <2>1, <2>2, <2>3, <2>4, <2>5, CarriesCall DEF Spares
<1>4. \/ /\ Entry(c).rv \notin {"VoteCommit", "NotPrepared"}
         /\ Advance(c) /\ UNCHANGED <<res, pc, ans, reply, up, faults>>
      \/ Invoke(c, o) /\ Goto(c, "undone") /\ UNCHANGED ix
  BY <1>a DEF RollbackNext, Entry
<1> QED
  BY <1>2, <1>3, <1>4

(* The coordinator notes an answer: the resource is not Active any more.   *)
LEMMA CarriesNote ==
  ASSUME NEW c \in Terminators, Running(c), UNCHANGED res,
         NEW i \in 1..Len(rcv), Used(i), NEW v \in ResourceVote,
         SetVote(i, v) \/ ChangeResourceVote(i, v),
         pc'[c] # "idle", InPlace(c)', Progress(c)', Nothing(c)' => Nothing(c)
  PROVE  Carries(c)
<1>a. /\ TypeInv /\ CoordTypes /\ VotesUsed /\ DOMAIN rcv = 1..Len(rcv) /\ Len(rcv) \in Nat
      /\ \A j \in 1..Len(rcv) : rcv[j] \in [r : Resources, rv : ResourceVote]
  BY RunningFacts, ListTypes
<1>1. Len(rcv') = Len(rcv) /\ \A j \in 1..Len(rcv) : rcv'[j].r = rcv[j].r
  BY <1>a, ListChanges
<1>2. \A j \in 1..Len(rcv) : rcv'[j].rv = rcv[j].rv \/ rcv[j].r = rcv[i].r
  BY <1>a DEF SetVote, ChangeResourceVote
<1>3. VotesUsed'
  BY <1>a, <1>1, <1>2 DEF VotesUsed, Used
<1> QED
  BY <1>1, <1>3, RunningFacts DEF Carries

LEMMA VotedCarries ==
  ASSUME NEW c \in Committers, Running(c), Voted(c)
  PROVE  Carries(c)
<1>a. /\ c \in Terminators /\ c \notin Rollbackers /\ c \in Calls
      /\ pc[c] = "voted" /\ len[c] = Len(rcv) /\ reply[c] = "none" /\ status = "Preparing"
      /\ ControlTypes /\ CallTypes /\ UNCHANGED <<res, len>> /\ Progress(c)
      /\ Len(rcv) \in Nat /\ ix[c] \in 1..Len(rcv)
      /\ ans[c] \in {"VoteCommit", "VoteRollback"}
      /\ \A i \in 1..Len(rcv) : rcv[i].r \in Resources
      /\ \A r \in Resources : Own(r) => Own(r)'
      /\ CoordTypes
  <2>1. /\ c \in Terminators /\ c \in Calls /\ c \notin Rollbackers
        /\ InPlace(c) /\ Progress(c) /\ ControlTypes /\ CallTypes /\ CoordTypes
        /\ Len(rcv) \in Nat /\ ix[c] \in Nat \ {0} /\ len[c] <= Len(rcv) /\ len[c] \in Nat
        /\ pc[c] \in Answered => ix[c] <= len[c] /\ ans[c] \in AnswerTo(pc[c])
        /\ \A i \in 1..Len(rcv) : rcv[i].r \in Resources
        /\ \A r \in Resources : Own(r) => Own(r)'
    BY RunningFacts, CallFacts DEF Terminators
  <2>2. /\ pc[c] = "voted" /\ ans[c] # "spins" /\ UNCHANGED <<res, len>>
    BY DEF Voted
  <2>3. ans[c] \in AnswerTo("voted") /\ ix[c] \in 1..Len(rcv)
    BY <2>1, <2>2 DEF Answered
  <2> QED
    BY <2>1, <2>2, <2>3 DEF InPlace, Looping, AnswerTo
<1>1. /\ \A i \in 1..Len(rcv) : i <= ix[c] => Used(i)
      /\ \A i \in 1..Len(rcv) : i < ix[c] => Own(rcv[i].r)
      /\ ans[c] = "VoteCommit" => Own(rcv[ix[c]].r)
      /\ Nothing(c)
  BY <1>a DEF Progress, UsedUpTo, Nothing
<1>2. /\ \E v \in {"VoteCommit", "RolledBack"} : SetVote(ix[c], v)
      /\ pc'[c] = "prepare" /\ reply' = reply /\ ix'[c] = ix[c] + 1
      /\ \/ status' = "Preparing" /\ ans[c] = "VoteCommit"
         \/ status' = "MarkedRollback"
  <2>1. CASE ans[c] = "VoteCommit"
    BY <1>a, <2>1 DEF Voted, Advance, Goto, ControlTypes, CallTypes
  <2>2. CASE ans[c] = "VoteRollback"
    BY <1>a, <2>2 DEF Voted, Advance, Goto, ControlTypes, CallTypes
  <2> QED
    BY <1>a, <2>1, <2>2
<1>3. PICK v \in {"VoteCommit", "RolledBack"} : SetVote(ix[c], v)
  BY <1>2
<1>4. Len(rcv') = Len(rcv) /\ \A j \in 1..Len(rcv) : rcv'[j].r = rcv[j].r
  BY <1>a, <1>3, ListChanges DEF ResourceVote
<1>5. InPlace(c)'
  BY <1>a, <1>2, <1>4 DEF InPlace, CommitPlaces, Looping
<1>6. Progress(c)'
  <2>1. \A i \in 1..Len(rcv) : i <= ix'[c] - 1 => Used(i)'
    BY <1>a, <1>1, <1>2, <1>4 DEF Used
  <2>2. ASSUME ans[c] = "VoteCommit"
        PROVE  \A i \in 1..Len(rcv) : i < ix'[c] => Own(rcv[i].r)'
    <3>1. \A i \in 1..Len(rcv) : i < ix'[c] => i < ix[c] \/ i = ix[c]
      BY <1>a, <1>2
    <3>2. \A i \in 1..Len(rcv) : i < ix'[c] => Own(rcv[i].r)
      BY <1>1, <2>2, <3>1
    <3> QED
      BY <1>a, <1>4, <3>2 DEF Own
  <2> QED
    BY <1>2, <1>4, <2>1, <2>2 DEF Progress, UsedUpTo, Own
<1> QED
  BY <1>a, <1>1, <1>2, <1>3, <1>5, <1>6, CarriesNote DEF ResourceVote

LEMMA CommitAnsweredCarries ==
  ASSUME NEW c \in Committers, Running(c), CommitAnswered(c)
  PROVE  Carries(c)
<1>a. /\ c \in Terminators /\ c \notin Rollbackers /\ c \in Calls
      /\ pc[c] = "committed" /\ len[c] = Len(rcv) /\ reply[c] = "none"
      /\ ControlTypes /\ CallTypes /\ UNCHANGED <<res, len>> /\ Progress(c)
      /\ Len(rcv) \in Nat /\ ix[c] \in 1..Len(rcv)
      /\ ans[c] \in {"ok", "HeuristicRollback", "NotPrepared"}
      /\ \A i \in 1..Len(rcv) : rcv[i].r \in Resources
      /\ \A r \in Resources : Own(r) => Own(r)'
      /\ CoordTypes
  <2>1. /\ c \in Terminators /\ c \in Calls /\ c \notin Rollbackers
        /\ InPlace(c) /\ Progress(c) /\ ControlTypes /\ CallTypes /\ CoordTypes
        /\ Len(rcv) \in Nat /\ ix[c] \in Nat \ {0} /\ len[c] <= Len(rcv) /\ len[c] \in Nat
        /\ pc[c] \in Answered => ix[c] <= len[c] /\ ans[c] \in AnswerTo(pc[c])
        /\ \A i \in 1..Len(rcv) : rcv[i].r \in Resources
        /\ \A r \in Resources : Own(r) => Own(r)'
    BY RunningFacts, CallFacts DEF Terminators
  <2>2. pc[c] = "committed" /\ ans[c] # "spins" /\ UNCHANGED <<res, len>>
    BY <2>1 DEF CommitAnswered, InPlace, CommitPlaces
  <2>3. ans[c] \in AnswerTo("committed") /\ ix[c] \in 1..Len(rcv)
    BY <2>1, <2>2 DEF Answered
  <2> QED
    BY <2>1, <2>2, <2>3 DEF InPlace, Looping, AnswerTo
<1>1. \A i \in 1..Len(rcv) : Used(i) /\ Own(rcv[i].r)
  BY <1>a DEF Progress, UsedUpTo
<1>2. CASE ans[c] = "ok"
  <2>1. /\ ChangeResourceVote(ix[c], "Committed") /\ pc'[c] = "commit" /\ reply' = reply
    BY <1>a, <1>2 DEF CommitAnswered, Goto, ControlTypes
  <2>2. Len(rcv') = Len(rcv) /\ \A j \in 1..Len(rcv) : rcv'[j].r = rcv[j].r
    BY <1>a, <2>1, ListChanges DEF ResourceVote
  <2>3. InPlace(c)'
    BY <1>a, <2>1, <2>2 DEF InPlace, CommitPlaces, Looping
  <2>4. Progress(c)'
    BY <1>a, <1>1, <2>1, <2>2 DEF Progress, UsedUpTo, Used, Own
  <2>5. ~Nothing(c)'
    BY <1>a, <2>1 DEF Nothing, Told
  <2> QED
    BY <1>a, <1>1, <2>1, <2>3, <2>4, <2>5, CarriesNote DEF ResourceVote
<1>3. CASE ans[c] # "ok"
  <2>1. Throw(c, ans[c]) /\ UNCHANGED rcv
    BY <1>a, <1>3 DEF CommitAnswered
  <2>2. pc'[c] = "done" /\ reply'[c] \in {ans[c], "COMM_FAILURE"}
    BY <1>a, <2>1, Thrown
  <2>3. InPlace(c)'
    BY <1>a, <2>2 DEF InPlace, CommitPlaces, Looping
  <2>4. Progress(c)'
    BY <1>a, <1>1, <2>1, <2>2 DEF Progress, UsedUpTo, Used
  <2>5. ~Nothing(c)'
    BY <1>a, <2>2 DEF Nothing, Told
  <2> QED
    BY <1>a, <2>1, <2>2, <2>3, <2>4, <2>5, CarriesCalmly
<1> QED
  BY <1>2, <1>3

LEMMA RollbackAnsweredCarries ==
  ASSUME NEW c \in Terminators, Running(c), RollbackAnswered(c)
  PROVE  Carries(c)
<1>a. /\ c \in Calls
      /\ pc[c] = "undone" /\ len[c] = Len(rcv) /\ reply[c] = "none"
      /\ ControlTypes /\ CallTypes /\ UNCHANGED <<res, len>> /\ Progress(c) /\ InPlace(c)
      /\ Len(rcv) \in Nat /\ ix[c] \in 1..Len(rcv) /\ ans[c] = "ok"
      /\ \A i \in 1..Len(rcv) : rcv[i].r \in Resources
      /\ CoordTypes
  <2>1. /\ c \in Calls
        /\ InPlace(c) /\ Progress(c) /\ ControlTypes /\ CallTypes /\ CoordTypes
        /\ Len(rcv) \in Nat /\ ix[c] \in Nat \ {0} /\ len[c] <= Len(rcv) /\ len[c] \in Nat
        /\ pc[c] \in Answered => ix[c] <= len[c] /\ ans[c] \in AnswerTo(pc[c])
        /\ \A i \in 1..Len(rcv) : rcv[i].r \in Resources
    BY RunningFacts, CallFacts
  <2>2. pc[c] = "undone" /\ ans[c] # "spins" /\ UNCHANGED <<res, len>>
    BY <2>1 DEF RollbackAnswered, InPlace, CommitPlaces
  <2>3. ans[c] \in AnswerTo("undone") /\ ix[c] \in 1..Len(rcv)
    BY <2>1, <2>2 DEF Answered
  <2> QED
    BY <2>1, <2>2, <2>3 DEF InPlace, Looping, AnswerTo
<1>1. (\A i \in 1..Len(rcv) : i <= ix[c] => Used(i)) /\ Nothing(c)
  BY <1>a DEF Progress, UsedUpTo, Nothing
<1>2. /\ ChangeResourceVote(ix[c], "RolledBack") /\ pc'[c] = "undo" /\ reply' = reply
      /\ ix'[c] = ix[c] + 1
  BY <1>a DEF RollbackAnswered, Advance, Goto, ControlTypes, CallTypes
<1>3. Len(rcv') = Len(rcv) /\ \A j \in 1..Len(rcv) : rcv'[j].r = rcv[j].r
  BY <1>a, <1>2, ListChanges DEF ResourceVote
<1>4. InPlace(c)'
  BY <1>a, <1>2, <1>3 DEF InPlace, CommitPlaces, RollbackPlaces, Looping
<1>5. Progress(c)'
  BY <1>a, <1>1, <1>2, <1>3 DEF Progress, UsedUpTo, Used
<1> QED
  BY <1>a, <1>1, <1>2, <1>4, <1>5, CarriesNote DEF ResourceVote

LEMMA EndingCarries ==
  ASSUME NEW c \in Terminators, Running(c), TerminatorStep(c)
  PROVE  Carries(c)
<1>1. CASE c \in Committers /\ Spin(c)
  BY <1>1, RunningFacts DEF Spin, InPlace, CommitPlaces
<1>2. CASE ResourceSpins(c)
  BY <1>2, CarriesNothing DEF ResourceSpins
<1>3. CASE c \in Committers /\ (Commit(c) \/ (CommitStep(c) /\ ~Spin(c)))
  BY <1>3, CommitCarries, BeforeCompletionCarries, DispatchCarries, CommitOnePhaseCarries,
     OnePhaseAnsweredCarries, PrepareNextCarries, VotedCarries, DecideCarries,
     CommitNextCarries, CommitAnsweredCarries, CommitEndsCarries DEF CommitStep
<1>4. CASE Rollback(c) \/ (RollbackStep(c) /\ ~ResourceSpins(c))
  BY <1>4, RollbackCarries, RollbackNextCarries, RollbackAnsweredCarries, RollbackEndsCarries,
     AfterCompletionCarries DEF RollbackStep
<1> QED
  BY <1>1, <1>2, <1>3, <1>4 DEF TerminatorStep

LEMMA OthersIdle ==
  ASSUME NEW c \in Terminators, Running(c), TerminatorStep(c),
         NEW d \in Terminators, d # c
  PROVE  pc[d] = "idle" /\ pc'[d] = "idle" /\ reply[d] = "none" /\ reply'[d] = "none"
<1>1. pc[c] # "done"
  BY DEF TerminatorStep, Commit, CommitStep, Rollback, RollbackStep, BeforeCompletion, Dispatch,
         CommitOnePhase, OnePhaseAnswered, PrepareNext, Voted, Decide, CommitNext,
         CommitAnswered, CommitEnds, Spin, RollbackNext, RollbackAnswered, RollbackEnds,
         AfterCompletion, ResourceSpins
<1>2. pc[d] = "idle" /\ reply[d] = "none"
  BY <1>1, RunningFacts DEF InPlace
<1>3. Undisturbed(d)
  BY RunningFacts, OthersUndisturbed DEF TerminatorStep
<1> QED
  BY <1>2, <1>3 DEF Undisturbed

LEMMA EndingCommitsOwn ==
  ASSUME NEW c \in Terminators, Running(c), TerminatorStep(c)
  PROVE  durable' \subseteq durable \cup {txn}
<1>1. ASSUME NEW t \in durable' \ durable PROVE t = txn
  <2>1. PICK r \in Resources : t \in work[r] /\ Closes(r) /\ res'[r].fate = "committed"
    BY <1>1, RecordFacts DEF Running
  <2>2. Own(r)
    BY <2>1, EndingCarries DEF Carries, Closes
  <2> QED
    BY <2>1, <2>2 DEF Own
<1> QED
  BY <1>1

LEMMA EndingKeeps ==
  ASSUME NEW c \in Terminators, Running(c), TerminatorStep(c)
  PROVE  SeriesInv'
<1>a. /\ Carries(c) /\ SeriesInv /\ Len(rcv) \in Nat /\ CoordTypes
      /\ \A i \in 1..Len(rcv) : rcv[i].r \in Resources
      /\ \A d \in Terminators : d # c =>
            pc'[d] = "idle" /\ reply'[d] = "none" /\ pc[d] = "idle" /\ reply[d] = "none"
      /\ pc'[c] # "idle" /\ pc[c] # "done"
  <2>1. pc[c] # "done"
    BY DEF TerminatorStep, Commit, CommitStep, Rollback, RollbackStep, BeforeCompletion, Dispatch,
           CommitOnePhase, OnePhaseAnswered, PrepareNext, Voted, Decide, CommitNext,
           CommitAnswered, CommitEnds, Spin, RollbackNext, RollbackAnswered, RollbackEnds,
           AfterCompletion, ResourceSpins
  <2>2. Carries(c)
    BY EndingCarries
  <2> QED
    BY <2>1, <2>2, OthersIdle, RunningFacts, CallFacts DEF Running, Carries
<1>b. /\ \A g \in Registrars : pc'[g] \notin {"begin", "enlist"}
      /\ \A g \in Registrars : pc'[g] \in {"idle", "begin"} => pc[g] \in {"idle", "begin"}
  <2>1. PICK L : Moves(c, L)
    BY RunningFacts, TerminatorMoves DEF TerminatorStep
  <2>2. \A g \in Registrars : g \in Calls \ {c}
    BY CallsAssumption DEF Calls
  <2> QED
    BY <2>1, <2>2, RunningFacts DEF Moves
<1>1. OneCall'
  BY <1>a, <1>b DEF OneCall, Untold
<1>2. \A d \in Terminators : InPlace(d)' /\ Progress(d)'
  <2>1. ASSUME NEW d \in Terminators, d # c PROVE InPlace(d)' /\ Progress(d)'
    BY <1>a, <2>1
       DEF InPlace, Progress, CommitPlaces, RollbackPlaces, Looping
  <2> QED
    BY <1>a, <2>1 DEF Carries
<1>3. \A r \in Resources : Listed(r)' <=> Listed(r)
  BY <1>a DEF Carries, Listed
<1>4. ASSUME NEW g \in Registrars PROVE Fresh(g)'
  <2>1. Target[g] \in Resources /\ Fresh(g)
    BY <1>a, TargetAssumption DEF SeriesInv
  <2>2. CASE pc'[g] \notin {"idle", "begin"}
    BY <2>2 DEF Fresh
  <2>3. CASE pc'[g] \in {"idle", "begin"}
    <3>1. ~Listed(Target[g]) /\ res'[Target[g]] = res[Target[g]]
      BY <1>a, <1>b, <2>1, <2>3 DEF Fresh, Carries
    <3>2. ~Listed(Target[g])'
      BY <1>3, <2>1, <3>1
    <3> QED
      BY <1>b, <2>1, <2>3, <3>1, <3>2 DEF Fresh
  <2> QED
    BY <2>2, <2>3
<1>5. ASSUME NEW r \in Resources PROVE WorkInv(r)'
  <2>1. /\ WorkInv(r) /\ work'[r] \subseteq work[r] /\ (Own(r) => Own(r)')
    BY <1>a, RecordFacts DEF SeriesInv, Running, Carries
  <2>2. Kept(res'[r]) /\ (res'[r].status = "Active" => res[r].status = "Active")
    BY <1>a DEF Carries
  <2> QED
    BY <1>3, <2>1, <2>2 DEF WorkInv
<1>6. ToldInv'
  <2>a. /\ txn' = txn /\ ToldInv /\ \A d \in Terminators : d # c => ~Told(d) /\ ~Told(d)'
    BY <1>a, RecordFacts DEF Running, SeriesInv, Told
  <2>b. ~Told(c)
    BY <1>a, RunningFacts DEF InPlace, Told
  <2>1. txn \notin undone
    BY <2>a, <2>b DEF ToldInv
  <2>2. Nothing(c)' => txn \notin durable'
    <3>1. ASSUME Nothing(c)', txn \in durable' PROVE FALSE
      <4>1. txn \notin durable
        BY <1>a, <2>a, <3>1 DEF Carries, ToldInv
      <4>2. PICK r \in Resources : txn \in work[r] /\ Closes(r) /\ res'[r].fate = "committed"
        BY <3>1, <4>1, RecordFacts DEF Running
      <4> QED
        BY <1>a, <3>1, <4>2 DEF Carries, Closes
    <3> QED
      BY <3>1
  <2>3. durable' \subseteq durable \cup {txn}
    BY EndingCommitsOwn
  <2>4. /\ undone' \subseteq undone \cup {txn}
        /\ txn \in undone' => \E d \in Terminators : Told(d)'
    BY <2>1, RecordFacts DEF Running
  <2>5. txn \in undone' => Nothing(c)'
    BY <2>a, <2>4 DEF Nothing, Told
  <2>6. ~Untold'
    BY <1>a DEF Untold
  <2>7. ASSUME NEW d \in Terminators, Nothing(d)' PROVE txn \notin durable'
    <3>1. CASE d = c
      BY <2>2, <2>7, <3>1
    <3>2. CASE d # c
      BY <1>a, <2>a, <2>7, <3>2 DEF Nothing
    <3> QED
      BY <3>1, <3>2
  <2>8. undone' \cap durable' = {}
    BY <2>a, <2>2, <2>3, <2>4, <2>5 DEF ToldInv
  <2> QED
    BY <2>a, <2>4, <2>6, <2>7, <2>8 DEF ToldInv
<1> QED
  BY <1>a, <1>1, <1>2, <1>4, <1>5, <1>6 DEF SeriesInv, Carries
-----------------------------------------------------------------------------
(***************************************************************************)
(* The steps around it: what registers, marks or disturbs the transaction. *)
(***************************************************************************)
Beside == SeriesTypeInv /\ SeriesTypeInv' /\ SeriesInv /\ MaxFaults = 0 /\ Record

Stays(d) ==
    /\ pc'[d] = pc[d] /\ reply'[d] = reply[d]
    /\ ix'[d] = ix[d] /\ len'[d] = len[d] /\ ans'[d] = ans[d]

SparesAll ==
    \A r \in Resources : Spares(res[r], res'[r]) /\ res'[r].status = res[r].status

LEMMA BesideFacts ==
  ASSUME Beside
  PROVE  /\ TypeInv /\ TypeInv' /\ CoordTypes /\ CallTypes /\ ControlTypes /\ faults = 0
         /\ Len(rcv) \in Nat /\ DOMAIN rcv = 1..Len(rcv)
         /\ \A i \in 1..Len(rcv) : rcv[i].r \in Resources
         /\ res \in [Resources -> ResourceState] /\ \A r \in Resources : Kept(res[r])
         /\ \A g \in Registrars : Target[g] \in Resources /\ Fresh(g)
         /\ Working => Untold /\ \A c \in Calls : pc[c] \in {"idle", "done"}
<1>1. /\ TypeInv /\ TypeInv' /\ CoordTypes /\ CallTypes /\ ControlTypes /\ faults = 0
      /\ res \in [Resources -> ResourceState]
  BY DEF Beside, SeriesTypeInv, TypeInv, TypeOK, WorldTypes
<1>2. /\ \A r \in Resources : Kept(res[r])
      /\ \A g \in Registrars : Target[g] \in Resources /\ Fresh(g)
  BY TargetAssumption DEF Beside, SeriesInv, WorkInv
<1>3. Working => Untold /\ \A c \in Calls : pc[c] \in {"idle", "done"}
  BY DEF Working, Quiet, Decided, Untold, Calls
<1> QED
  BY <1>1, <1>2, <1>3, ListTypes

LEMMA SparingSettlesNothing ==
  ASSUME Beside, SparesAll
  PROVE  durable' = durable
<1>1. \A r \in Resources : ~(Closes(r) /\ res'[r].fate = "committed")
  BY DEF SparesAll, Spares, Closes
<1> QED
  BY <1>1, RecordFacts DEF Beside

LEMMA SparingKeeps ==
  ASSUME Beside, SparesAll,
         \A d \in Terminators : Stays(d),
         Untold \/ UNCHANGED <<status, rcv>>,
         \A r \in Resources : Listed(r) \/ Joins(r) => Listed(r)',
         OneCall', VotesUsed', \A g \in Registrars : Fresh(g)'
  PROVE  SeriesInv' /\ durable' = durable
<1>a. /\ SeriesInv /\ durable' = durable /\ Len(rcv) \in Nat
      /\ \A i \in 1..Len(rcv) : rcv[i].r \in Resources
  BY BesideFacts, SparingSettlesNothing DEF Beside
<1>b. /\ txn' = txn /\ undone \subseteq undone'
      /\ \A t \in undone' \ undone : t = txn /\ \E c \in Terminators : Told(c)'
      /\ \A r \in Resources : (Own(r) => Own(r)') /\ (Joins(r) \/ work'[r] \subseteq work[r])
  <2>1. \A r \in Resources : Joins(r) \/ work'[r] \subseteq work[r]
    BY DEF Beside, Record
  <2> QED
    BY <2>1, RecordFacts DEF Beside
<1>1. ASSUME NEW d \in Terminators PROVE InPlace(d)' /\ Progress(d)'
  <2>1. InPlace(d) /\ Progress(d) /\ Stays(d)
    BY <1>a DEF SeriesInv
  <2>2. CASE UNCHANGED <<status, rcv>>
    <3>1. InPlace(d)'
      BY <2>1, <2>2 DEF InPlace, Stays
    <3>2. \A i \in 1..Len(rcv) : (Used(i) => Used(i)') /\ (Own(rcv[i].r) => Own(rcv[i].r)')
      BY <1>a, <1>b, <2>2 DEF Used, SparesAll, Own
    <3>3. pc[d] = "voted" => ix[d] \in 1..Len(rcv)
      BY BesideFacts, CallFacts, <1>a DEF Answered
    <3>4. Progress(d)'
      BY <1>a, <1>b, <2>1, <2>2, <3>2, <3>3 DEF Progress, UsedUpTo, Stays, Own
    <3> QED
      BY <3>1, <3>4
  <2>3. CASE Untold
    BY <2>1, <2>3 DEF InPlace, Progress, Stays, Untold, CommitPlaces, RollbackPlaces, Looping
  <2> QED
    BY <2>2, <2>3
<1>2. ASSUME NEW r \in Resources PROVE WorkInv(r)'
  BY <1>a, <1>b DEF SeriesInv, WorkInv, SparesAll, Spares
<1>3. ToldInv'
  <2>1. /\ Untold' <=> Untold
        /\ \A d \in Terminators : (Told(d)' <=> Told(d)) /\ (Nothing(d)' <=> Nothing(d))
    BY DEF Untold, Told, Nothing, Stays
  <2>2. txn \in undone' => txn \notin durable
    BY <1>a, <1>b, <2>1 DEF SeriesInv, ToldInv, Nothing
  <2>3. txn \in undone' => \E c \in Terminators : Told(c)'
    BY <1>a, <1>b, <2>1 DEF SeriesInv, ToldInv
  <2>4. undone' \cap durable' = {}
    BY <1>a, <1>b, <2>2 DEF SeriesInv, ToldInv
  <2> QED
    BY <1>a, <1>b, <2>1, <2>3, <2>4 DEF SeriesInv, ToldInv
<1> QED
  BY <1>a, <1>1, <1>2, <1>3 DEF SeriesInv

(* A step that leaves the list as it is, and the resources of the calls    *)
(* that have not begun theirs.                                             *)
LEMMA ListStays ==
  ASSUME Beside, UNCHANGED rcv, SparesAll
  PROVE  /\ \A r \in Resources : (Listed(r)' <=> Listed(r)) /\ ~Joins(r)
         /\ VotesUsed'
<1>1. \A r \in Resources : (Listed(r)' <=> Listed(r)) /\ ~Joins(r)
  BY BesideFacts DEF Listed, Joins
<1>2. VotesUsed'
  BY BesideFacts DEF VotesUsed, Used, SparesAll, Beside, SeriesInv
<1> QED
  BY <1>1, <1>2

LEMMA StandsSparing ==
  ASSUME Beside, UNCHANGED res PROVE SparesAll
BY BesideFacts DEF SparesAll, Spares

LEMMA CallsStay ==
  ASSUME Beside, Around, NEW d \in Terminators PROVE Stays(d)
BY BesideFacts, AroundUndisturbs DEF Stays, Undisturbed

LEMMA RegisterKeeps ==
  ASSUME Beside, NEW g \in Registrars, Working, Register(g) PROVE SeriesInv' /\ durable' = durable
<1>a. /\ UNCHANGED <<status, rcv, res>> /\ Untold /\ SparesAll /\ g \in Calls
      /\ \A c \in Calls : pc[c] \in {"idle", "done"}
      /\ pc \in [Calls -> Label] /\ pc[g] = "idle"
  BY BesideFacts, StandsSparing DEF Register, coordVars, Calls, ControlTypes
<1>1. \A d \in Terminators : Stays(d)
  BY CallsStay DEF Around
<1>2. \A h \in Registrars : pc'[h] \in {"idle", "begin"} => pc[h] \in {"idle", "begin"}
  BY <1>a DEF Register, Goto, Return, Calls
<1>3. \A h \in Registrars : Fresh(h)'
  BY <1>a, <1>2, BesideFacts, ListStays DEF Fresh
<1>4. Untold' /\ status' \in {"Active", "MarkedRollback"}
  BY <1>a, <1>1 DEF Untold, Stays, Beside, SeriesInv, OneCall
<1>5. OneCall'
  BY <1>4 DEF OneCall, Untold
<1> QED
  BY <1>a, <1>1, <1>3, <1>5, ListStays, SparingKeeps

LEMMA BeginTransKeeps ==
  ASSUME Beside, NEW g \in Registrars, BeginTrans(g) PROVE SeriesInv' /\ durable' = durable
<1> DEFINE s == Target[g]
           o == PgBeginTrans(res[s])
<1>a. /\ s \in Resources /\ res[s] \in ResourceState /\ Kept(res[s]) /\ Fresh(g)
      /\ pc[g] = "begin" /\ pc \in [Calls -> Label] /\ g \in Calls
      /\ res \in [Resources -> ResourceState] /\ faults = 0 /\ MaxFaults = 0
      /\ UNCHANGED <<status, rcv>>
  BY BesideFacts DEF BeginTrans, ControlTypes, coordVars, Beside, Calls
<1>1. /\ res' = [res EXCEPT ![s] = o.p]
      /\ \/ Goto(g, "enlist")
         \/ Return(g, "Inactive")
  BY <1>a DEF BeginTrans
<1>2. Spares(res[s], o.p) /\ o.p.status = res[s].status
  BY <1>a, BeginSpares DEF Fresh
<1> HIDE DEF o
<1>3. SparesAll
  BY <1>a, <1>1, <1>2, BesideFacts DEF SparesAll, Spares
<1>4. \A d \in Terminators : Stays(d)
  BY CallsStay DEF Around, RegisterStep
<1>5. Untold
  BY <1>a DEF Beside, SeriesInv, OneCall
<1>6. /\ pc'[g] \in {"enlist", "done"}
      /\ \A h \in Registrars : h # g => pc'[h] = pc[h]
  BY <1>a, <1>1 DEF Goto, Return, Calls
<1>7. ASSUME NEW h \in Registrars PROVE Fresh(h)'
  <2>1. CASE h = g
    BY <1>6, <2>1 DEF Fresh
  <2>2. CASE h # g
    <3>1. Target[h] # s /\ Target[h] \in Resources /\ Fresh(h)
      BY <2>2, OneRegistrarEach, BesideFacts
    <3>2. res'[Target[h]] = res[Target[h]] /\ pc'[h] = pc[h]
      BY <1>a, <1>1, <1>6, <2>2, <3>1
    <3> QED
      BY <1>a, <1>3, <3>1, <3>2, ListStays DEF Fresh
  <2> QED
    BY <2>1, <2>2
<1>8. OneCall'
  BY <1>4, <1>5, <1>a DEF OneCall, Untold, Stays, Beside, SeriesInv
<1> QED
  BY <1>a, <1>3, <1>4, <1>5, <1>7, <1>8, ListStays, SparingKeeps

LEMMA EnlistKeeps ==
  ASSUME Beside, NEW g \in Registrars, Enlist(g) PROVE SeriesInv' /\ durable' = durable
<1> DEFINE e == [r |-> Target[g], rv |-> "NotPrepared"]
<1>a. /\ pc[g] = "enlist" /\ pc \in [Calls -> Label] /\ g \in Calls
      /\ UNCHANGED <<status, res>> /\ SparesAll /\ rcv' = Append(rcv, e)
      /\ pc' = [pc EXCEPT ![g] = "done"]
      /\ Len(rcv) \in Nat /\ rcv \in Seq([r : Resources, rv : ResourceVote])
      /\ e \in [r : Resources, rv : ResourceVote]
      /\ e.r = Target[g] /\ e.rv = "NotPrepared"
  BY BesideFacts, StandsSparing DEF Enlist, Return, ControlTypes, CoordTypes, ResourceVote, Calls
<1> HIDE DEF e
<1>1. /\ Len(rcv') = Len(rcv) + 1 /\ rcv'[Len(rcv) + 1] = e
      /\ \A i \in 1..Len(rcv) : rcv'[i] = rcv[i]
  BY <1>a, AppendProperties
<1>2. \A i \in 1..Len(rcv') : i \in 1..Len(rcv) \/ i = Len(rcv')
  BY <1>a, <1>1
<1>3. \A r \in Resources : Listed(r)' <=> (Listed(r) \/ r = Target[g])
  <2>1. ASSUME NEW r \in Resources, Listed(r)' PROVE Listed(r) \/ r = Target[g]
    BY <1>a, <1>1, <1>2, <2>1 DEF Listed
  <2>2. ASSUME NEW r \in Resources, Listed(r) PROVE Listed(r)'
    BY <1>a, <1>1, <2>2 DEF Listed
  <2>3. Listed(Target[g])'
    <3>1. Len(rcv) + 1 \in 1..Len(rcv') /\ rcv'[Len(rcv) + 1].r = Target[g]
      BY <1>a, <1>1
    <3> QED
      BY <3>1 DEF Listed
  <2> QED
    BY <2>1, <2>2, <2>3
<1>4. \A r \in Resources : Joins(r) => r = Target[g]
  BY <1>a, <1>1 DEF Joins
<1>5. VotesUsed'
  <2>1. \A i \in 1..Len(rcv) : rcv[i].rv # "NotPrepared" => Used(i)
    BY DEF Beside, SeriesInv, VotesUsed
  <2> QED
    BY <1>a, <1>1, <1>2, <2>1 DEF VotesUsed, Used
<1>6. \A d \in Terminators : Stays(d)
  BY CallsStay DEF Around, RegisterStep
<1>7. Untold
  BY <1>a DEF Beside, SeriesInv, OneCall
<1>8. \A h \in Registrars : h # g => pc'[h] = pc[h]
  BY <1>a DEF Calls
<1>9. ASSUME NEW h \in Registrars PROVE Fresh(h)'
  <2>1. CASE h = g
    BY <1>a, <2>1 DEF Fresh
  <2>2. CASE h # g
    <3>1. Target[h] # Target[g] /\ Target[h] \in Resources /\ Fresh(h)
      BY <2>2, OneRegistrarEach, BesideFacts
    <3> QED
      BY <1>a, <1>3, <1>8, <2>2, <3>1 DEF Fresh
  <2> QED
    BY <2>1, <2>2
<1>10. OneCall'
  BY <1>6, <1>7, <1>a DEF OneCall, Untold, Stays, Beside, SeriesInv
<1> QED
  BY <1>a, <1>3, <1>4, <1>5, <1>6, <1>7, <1>9, <1>10, SparingKeeps

LEMMA MarkKeeps ==
  ASSUME Beside, NEW m \in Markers, Working, RollbackOnly(m) PROVE SeriesInv' /\ durable' = durable
<1>a. /\ UNCHANGED <<rcv, res>> /\ Untold /\ SparesAll /\ m \in Calls
      /\ \A c \in Calls : pc[c] \in {"idle", "done"}
      /\ pc \in [Calls -> Label] /\ pc[m] = "idle" /\ pc' = [pc EXCEPT ![m] = "done"]
      /\ status \in {"Active", "MarkedRollback"} /\ status' \in {status, "MarkedRollback"}
  BY BesideFacts, StandsSparing
     DEF RollbackOnly, Return, Calls, ControlTypes, Beside, SeriesInv, OneCall
<1>1. \A d \in Terminators : Stays(d)
  BY CallsStay DEF Around
<1>2. \A h \in Registrars : Fresh(h)'
  BY <1>a, BesideFacts, ListStays, CallsAssumption DEF Fresh, Calls
<1>3. OneCall'
  BY <1>a, <1>1 DEF OneCall, Untold, Stays
<1> QED
  BY <1>a, <1>1, <1>2, <1>3, ListStays, SparingKeeps

LEMMA FaultKeeps ==
  ASSUME Beside, NEW r \in Resources, StatementFailsAt(r) \/ Disconnect(r)
  PROVE  SeriesInv' /\ durable' = durable
<1>a. /\ UNCHANGED <<status, rcv, pc>> /\ \A d \in Terminators : Stays(d)
      /\ res[r] \in ResourceState /\ Kept(res[r]) /\ res \in [Resources -> ResourceState]
      /\ \/ res' = [res EXCEPT ![r] = StatementFails(res[r])]
         \/ res' = [res EXCEPT ![r] = ConnectionLost(res[r])]
  BY BesideFacts DEF StatementFailsAt, Disconnect, coordVars, callVars, Stays
<1>1. SparesAll
  BY <1>a, FaultSpares, BesideFacts DEF SparesAll, Spares
<1>2. res'[r].live => res'[r].block # "DEFAULT"
  BY <1>a DEF StatementFails, ConnectionLost, Settle, ResourceState
<1>3. \A h \in Registrars : Fresh(h)'
  <2>1. \A q \in Resources : q # r => res'[q] = res[q]
    BY <1>a
  <2> QED
    BY <1>a, <1>1, <1>2, <2>1, BesideFacts, ListStays DEF Fresh
<1>4. OneCall'
  BY <1>a DEF OneCall, Untold, Beside, SeriesInv
<1> QED
  BY <1>a, <1>1, <1>3, <1>4, ListStays, SparingKeeps

LEMMA OtherKeeps ==
  ASSUME Beside, OtherStep PROVE SeriesInv' /\ durable' = durable
BY RegisterKeeps, BeginTransKeeps, EnlistKeeps, MarkKeeps, FaultKeeps
   DEF OtherStep, RegisterStep
-----------------------------------------------------------------------------
(***************************************************************************)
(* The steps of the pool, and from one transaction to the next.            *)
(***************************************************************************)
LEMMA IdleKeeps ==
  ASSUME SeriesInv, UNCHANGED <<vars, history>>
  PROVE  SeriesInv' /\ durable' = durable
<1>a. UNCHANGED <<status, rcv, res, pc, ix, len, ans, reply, txn, work, durable, undone>>
  BY DEF vars, history
<1>1. OneCall' /\ VotesUsed'
  BY <1>a DEF SeriesInv, OneCall, Untold, VotesUsed, Used
<1>2. ASSUME NEW c \in Terminators PROVE InPlace(c)' /\ Progress(c)'
  BY <1>a DEF SeriesInv, InPlace, Progress, UsedUpTo, Used, Own
<1>3. (\A g \in Registrars : Fresh(g)') /\ \A r \in Resources : WorkInv(r)'
  BY <1>a DEF SeriesInv, Fresh, WorkInv, Listed, Own, Kept, Open
<1>4. ToldInv'
  BY <1>a DEF SeriesInv, ToldInv, Untold, Nothing, Told
<1> QED
  BY <1>a, <1>1, <1>2, <1>3, <1>4 DEF SeriesInv

LEMMA ConnectKeeps ==
  ASSUME SeriesTypeInv, SeriesInv, NEW r \in Resources, Connect(r)
  PROVE  SeriesInv' /\ durable' = durable
<1>a. /\ UNCHANGED <<status, rcv, pc, ix, len, ans, reply, txn, durable, undone>>
      /\ res \in [Resources -> ResourceState] /\ res' = [res EXCEPT ![r] = PgSetdb(res[r])]
      /\ work \in [Resources -> SUBSET (1..txn)] /\ work' = [work EXCEPT ![r] = {}]
      /\ DOMAIN rcv = 1..Len(rcv) /\ \A i \in 1..Len(rcv) : rcv[i].r # r /\ rcv[i].r \in Resources
  BY ListTypes DEF Connect, coordVars, callVars, SeriesTypeInv, HistoryTypes, TypeInv, TypeOK, WorldTypes
<1>b. /\ Untold /\ Untold'
  BY <1>a DEF Connect, Working, Quiet, Decided, Untold, Calls
<1>1. \A q \in Resources : q # r => res'[q] = res[q] /\ work'[q] = work[q]
  BY <1>a
<1>2. /\ res'[r].block = "DEFAULT" /\ res'[r].trans = "DEFAULT" /\ res'[r].fate = "none"
      /\ res'[r].status = res[r].status /\ work'[r] = {}
  BY <1>a DEF PgSetdb, ResourceState
<1>3. OneCall' /\ VotesUsed'
  <2>1. OneCall'
    BY <1>a DEF SeriesInv, OneCall, Untold
  <2>2. VotesUsed'
    BY <1>a, <1>1 DEF SeriesInv, VotesUsed, Used
  <2> QED
    BY <2>1, <2>2
<1>4. ASSUME NEW c \in Terminators PROVE InPlace(c)' /\ Progress(c)'
  BY <1>a, <1>b DEF SeriesInv, InPlace, Progress, Untold, CommitPlaces, RollbackPlaces, Looping
<1>5. ASSUME NEW g \in Registrars PROVE Fresh(g)'
  BY <1>a, <1>1, <1>2, TargetAssumption DEF SeriesInv, Fresh, Listed
<1>6. ASSUME NEW q \in Resources PROVE WorkInv(q)'
  BY <1>a, <1>1, <1>2 DEF SeriesInv, WorkInv, Kept, Open, Own, Listed
<1>7. ToldInv'
  BY <1>a DEF SeriesInv, ToldInv, Untold, Nothing, Told
<1> QED
  BY <1>a, <1>3, <1>4, <1>5, <1>6, <1>7 DEF SeriesInv

LEMMA NextTransactionKeeps ==
  ASSUME SeriesTypeInv, SeriesInv, NextTransaction
  PROVE  SeriesInv' /\ durable' = durable
<1>a. /\ \A c \in Calls : pc'[c] = "idle" /\ reply'[c] = "none"
      /\ status' = "Active" /\ Len(rcv') = 0 /\ txn' = txn + 1 /\ txn \in Nat
      /\ UNCHANGED <<work, durable, undone>>
      /\ durable \subseteq 1..txn /\ undone \subseteq 1..txn
      /\ Terminators \subseteq Calls /\ Registrars \subseteq Calls
      /\ DOMAIN rcv = 1..Len(rcv) /\ \A i \in 1..Len(rcv) : rcv[i].r \in Resources
      /\ \A i : i \notin 1..0
  BY PoolAssumption, ListTypes
     DEF NextTransaction, SeriesTypeInv, HistoryTypes, TypeInv, TypeOK, Calls
<1>1. OneCall' /\ VotesUsed' /\ Untold'
  BY <1>a DEF OneCall, VotesUsed, Untold
<1>2. ASSUME NEW c \in Terminators PROVE InPlace(c)' /\ Progress(c)'
  BY <1>a DEF InPlace, Progress, CommitPlaces, RollbackPlaces, Looping
<1>3. ASSUME NEW r \in Resources
      PROVE  /\ res'[r].live = res[r].live /\ res'[r].block = res[r].block
             /\ res'[r].trans = res[r].trans /\ res'[r].status = res[r].status
             /\ res'[r].fate = IF Open(res[r]) THEN "open" ELSE "none"
  BY DEF NextTransaction, SeriesTypeInv, TypeInv, TypeOK, WorldTypes, ResourceState
<1>4. ASSUME NEW r \in Resources, res[r].status = "Active" PROVE work[r] = {}
  <2>1. PICK c \in Terminators : pc[c] = "done"
    BY DEF NextTransaction, Decided
  <2>2. \A i \in 1..Len(rcv) : Used(i)
    <3>1. Len(rcv) \in Nat
      BY ListTypes DEF SeriesTypeInv, TypeInv, TypeOK
    <3> QED
      BY <2>1, <3>1 DEF SeriesInv, Progress, UsedUpTo
  <2>3. ~Listed(r)
    BY <1>4, <2>2 DEF Listed, Used
  <2> QED
    BY <1>4, <2>3 DEF SeriesInv, WorkInv
<1>5. ASSUME NEW r \in Resources PROVE WorkInv(r)'
  BY <1>a, <1>3, <1>4 DEF SeriesInv, WorkInv, Kept, Open, Own
<1>6. ASSUME NEW g \in Registrars PROVE Fresh(g)'
  <2>1. Kept(res[Target[g]]) /\ Target[g] \in Resources
    BY TargetAssumption DEF SeriesInv, WorkInv
  <2> QED
    BY <1>a, <1>3, <2>1 DEF Fresh, Listed, Kept, Open
<1>7. ToldInv'
  <2>1. txn' \notin durable /\ txn' \notin undone
    BY <1>a
  <2> QED
    BY <1>a, <2>1 DEF SeriesInv, ToldInv
<1> QED
  BY <1>a, <1>1, <1>2, <1>5, <1>6, <1>7 DEF SeriesInv

LEMMA SeriesInvInit == SeriesInit => SeriesInv
<1> SUFFICES ASSUME SeriesInit PROVE SeriesInv
  OBVIOUS
<1>a. /\ \A c \in Calls : pc[c] = "idle" /\ reply[c] = "none"
      /\ status = "Active" /\ Len(rcv) = 0 /\ durable = {} /\ undone = {}
      /\ \A r \in Resources : res[r] = NewResource /\ work[r] = {}
      /\ Terminators \subseteq Calls /\ Registrars \subseteq Calls
      /\ \A i : i \notin 1..0
  BY DEF SeriesInit, Init, Calls
<1>1. OneCall /\ VotesUsed
  BY <1>a DEF OneCall, Untold, VotesUsed
<1>2. ASSUME NEW c \in Terminators PROVE InPlace(c) /\ Progress(c)
  BY <1>a DEF InPlace, Progress, CommitPlaces, RollbackPlaces, Looping
<1>3. ASSUME NEW g \in Registrars PROVE Fresh(g)
  BY <1>a, TargetAssumption DEF Fresh, Listed, NewResource
<1>4. ASSUME NEW r \in Resources PROVE WorkInv(r)
  BY <1>a DEF WorkInv, Kept, Open, Own, NewResource
<1>5. ToldInv
  BY <1>a DEF ToldInv
<1> QED
  BY <1>1, <1>2, <1>3, <1>4, <1>5 DEF SeriesInv

LEMMA SeriesStep ==
  ASSUME MaxFaults = 0, SeriesTypeInv, SeriesTypeInv', SeriesInv, [SeriesNext]_svars
  PROVE  SeriesInv' /\ durable' \subseteq durable \cup {txn}
<1>1. ASSUME NEW c \in Terminators, Ending(c)
      PROVE  SeriesInv' /\ durable' \subseteq durable \cup {txn}
  <2>1. Running(c) /\ TerminatorStep(c)
    BY <1>1 DEF Running, Ending
  <2> QED
    BY <2>1, EndingKeeps, EndingCommitsOwn
<1>2. CASE OtherStep /\ Record
  <2>1. Beside
    BY <1>2 DEF Beside
  <2> QED
    BY <1>2, <2>1, OtherKeeps
<1>3. CASE PoolStep \/ UNCHANGED svars
  BY <1>3, IdleKeeps DEF PoolStep, GetResource, RemoveResource, svars
<1>4. TypeInv
  BY DEF SeriesTypeInv
<1> QED
  BY <1>1, <1>2, <1>3, <1>4, SeriesSteps, ConnectKeeps, NextTransactionKeeps

LEMMA SeriesInvariant ==
  ASSUME MaxFaults = 0 PROVE SeriesSpec => [](SeriesTypeInv /\ SeriesInv)
<1>1. SeriesInit => SeriesTypeInv /\ SeriesInv
  BY SeriesTypeInit, SeriesInvInit
<1>2. SeriesTypeInv /\ SeriesInv /\ [SeriesNext]_svars => (SeriesTypeInv /\ SeriesInv)'
  BY SeriesTypeStep, SeriesStep
<1> QED
  BY <1>1, <1>2, PTL DEF SeriesSpec

(* The invariant the two theorems below rest on: what each resource of the *)
(* pool still holds of earlier transactions, and why a commit never meets  *)
(* it (the status that nothing resets, PostgreSQLResource_impl.cpp).       *)
THEOREM SeriesHolds == ASSUME MaxFaults = 0 PROVE SeriesSpec => []SeriesInv
BY SeriesInvariant, PTL

(* A transaction whose client was told that it rolled back (commit threw   *)
(* TRANSACTION_ROLLEDBACK, or rollback returned) is never made durable,    *)
(* neither by its own commit nor by a later transaction on the same        *)
(* connection, as long as no remote call is lost: with a lost one it is    *)
(* false (run unreachable_voter).                                          *)
THEOREM RolledBackWorkStays ==
  ASSUME MaxFaults = 0 PROVE SeriesSpec => []RolledBackStaysRolledBack
<1>1. SeriesInv => RolledBackStaysRolledBack
  BY DEF SeriesInv, ToldInv, RolledBackStaysRolledBack
<1> QED
  BY <1>1, SeriesInvariant, PTL

(* The commit of a transaction makes durable no work that an earlier one   *)
(* left in the block of a pooled connection (pg_commit sends XACOMMIT for  *)
(* whatever the block holds), as long as no remote call is lost.           *)
THEOREM CommitsOnlyOwnWork ==
  ASSUME MaxFaults = 0 PROVE SeriesSpec => CommitsOwnWork
<1>1. /\ SeriesTypeInv /\ SeriesInv /\ SeriesTypeInv' /\ [SeriesNext]_svars
      => [durable' \subseteq durable \cup {txn}]_svars
  BY SeriesStep
<1> QED
  BY <1>1, SeriesInvariant, PTL DEF SeriesSpec, CommitsOwnWork
=============================================================================
