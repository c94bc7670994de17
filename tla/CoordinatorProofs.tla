-------------------------- MODULE CoordinatorProofs --------------------------
(***************************************************************************)
(* The type correctness of Coordinator and the atomicity of one decision,  *)
(* for every set of resources and of calls, whatever remote calls fail.    *)
(***************************************************************************)
EXTENDS CoordinatorInvariants, SequenceTheorems, TLAPS

(***************************************************************************)
(* The operations of a resource: what they leave and what they answer.     *)
(***************************************************************************)
LEMMA XaTypes ==
  ASSUME NEW p \in ResourceState, NEW t \in BOOLEAN
  PROVE  /\ Begin(p) \in ResourceState
         /\ XaPrepare(p) \in ResourceState
         /\ XaCommit(p, t) \in ResourceState
         /\ XaRollback(p) \in ResourceState
         /\ StatementFails(p) \in ResourceState
         /\ ConnectionLost(p) \in ResourceState
<1> USE DEF ResourceState, BlockState, TransState, Fate, Settle, Commits, Aborts
<1>1. Begin(p) \in ResourceState
  BY DEF Begin
<1>2. XaPrepare(p) \in ResourceState
  BY DEF XaPrepare, CanPrepare
<1>3. XaCommit(p, t) \in ResourceState
  BY DEF XaCommit
<1>4. XaRollback(p) \in ResourceState
  BY DEF XaRollback
<1>5. StatementFails(p) \in ResourceState
  BY DEF StatementFails
<1>6. ConnectionLost(p) \in ResourceState
  BY DEF ConnectionLost
<1> QED
  BY <1>1, <1>2, <1>3, <1>4, <1>5, <1>6

LEMMA PgTypes ==
  ASSUME NEW p \in ResourceState, NEW t \in BOOLEAN
  PROVE  /\ PgBeginTrans(p).p \in ResourceState
         /\ PgPrepare(p).p \in ResourceState
         /\ PgRollback(p).p \in ResourceState
         /\ PgCommit(p, t).p \in ResourceState
         /\ PgPrepare(p).answer \in {"VoteCommit", "VoteRollback", "spins"}
         /\ PgRollback(p).answer \in {"ok", "spins"}
         /\ PgCommit(p, t).answer \in {"ok", "HeuristicRollback", "NotPrepared", "spins"}
<1>1. PgBeginTrans(p).p \in ResourceState
  BY XaTypes DEF PgBeginTrans, Outcome
<1>2. /\ PgPrepare(p).p \in ResourceState
      /\ PgPrepare(p).answer \in {"VoteCommit", "VoteRollback", "spins"}
  BY XaTypes DEF PgPrepare, Outcome, ResourceState, ResourceStatus
<1>3. /\ PgRollback(p).p \in ResourceState
      /\ PgRollback(p).answer \in {"ok", "spins"}
  BY XaTypes DEF PgRollback, Outcome, ResourceState, ResourceStatus
<1>4. /\ PgCommit(p, t).p \in ResourceState
      /\ PgCommit(p, t).answer \in {"ok", "HeuristicRollback", "NotPrepared", "spins"}
  BY XaTypes DEF PgCommit, Outcome, ResourceState, ResourceStatus
<1> QED
  BY <1>1, <1>2, <1>3, <1>4

LEMMA OnePhaseTypes ==
  ASSUME NEW p \in ResourceState, NEW t \in BOOLEAN
  PROVE  /\ PgCommitOnePhase(p, t).p \in ResourceState
         /\ PgCommitOnePhase(p, t).answer \in
               {"ok", "HeuristicRollback", "TRANSACTION_ROLLEDBACK", "spins"}
<1> DEFINE q == PgPrepare(p)
<1>1. q.p \in ResourceState /\ q.answer \in {"VoteCommit", "VoteRollback", "spins"}
  BY PgTypes
<1>2. q.answer = "VoteCommit" => q.p.status = "Prepared"
  BY XaTypes DEF PgPrepare, Outcome, ResourceState, ResourceStatus
<1>3. q.answer = "VoteCommit" => PgCommit(q.p, t).answer \in {"ok", "HeuristicRollback"}
  BY <1>2 DEF PgCommit, Outcome
<1>4. /\ PgCommit(q.p, t).p \in ResourceState
      /\ PgRollback(q.p).p \in ResourceState
      /\ PgRollback(q.p).answer \in {"ok", "spins"}
  BY <1>1, PgTypes
<1> HIDE DEF q
<1>5. PgCommitOnePhase(p, t) =
        LET committed == PgCommit(q.p, t)
            undone == PgRollback(q.p)
        IN  CASE q.answer = "VoteCommit"   -> committed
              [] q.answer = "VoteRollback" ->
                    IF undone.answer = "spins" THEN undone
                    ELSE Outcome(undone.p, "TRANSACTION_ROLLEDBACK")
              [] OTHER -> q
  BY DEF PgCommitOnePhase, q
<1> QED
  BY <1>1, <1>3, <1>4, <1>5 DEF Outcome

-----------------------------------------------------------------------------
LEMMA TypeInit == Init => TypeInv
<1> SUFFICES ASSUME Init PROVE TypeInv
  OBVIOUS
<1> USE DEF Init
<1>1. rcv \in Seq([r : Resources, rv : ResourceVote]) /\ syncs \in Seq(Syncs) /\ Len(rcv) = 0
  OBVIOUS
<1>2. CoordTypes
  BY <1>1 DEF CoordTypes, TransactionStatus
<1>3. CallTypes
  BY DEF CallTypes, Answer
<1>4. ControlTypes
  BY DEF ControlTypes, Label, Reply
<1>5. WorldTypes
  BY FaultsAssumption
     DEF WorldTypes, NewResource, ResourceState, BlockState, TransState, Fate, ResourceStatus
<1>6. LoopsInside
  BY <1>1 DEF LoopsInside, LoopInside, Answered, Calls
<1> QED
  BY <1>2, <1>3, <1>4, <1>5, <1>6 DEF TypeInv, TypeOK

(* Control moves from c to one of the labels L; the other calls stay where *)
(* they are, or the service has ended.                                     *)
Moves(c, L) ==
    /\ ControlTypes'
    /\ pc'[c] \in L
    /\ \A d \in Calls \ {c} : pc'[d] = pc[d] \/ (pc[d] # "idle" /\ pc'[d] = "done")

LEMMA GotoMoves ==
  ASSUME ControlTypes, NEW c \in Calls, NEW label \in Label, Goto(c, label)
  PROVE  Moves(c, {label})
BY DEF ControlTypes, Goto, Moves

LEMMA ReturnMoves ==
  ASSUME ControlTypes, NEW c \in Calls, NEW v \in Reply, Return(c, v)
  PROVE  Moves(c, {"done"})
BY DEF ControlTypes, Return, Moves, Label

LEMMA ThrowMoves ==
  ASSUME ControlTypes, NEW c \in Calls, NEW v \in Reply, Throw(c, v), pc[c] # "idle"
  PROVE  Moves(c, {"done"})
<1>1. CASE Return(c, v)
  BY <1>1, ReturnMoves
<1>2. CASE Terminate
  <2>1. pc' \in [Calls -> Label] /\ reply' \in [Calls -> Reply] /\ up' = FALSE
    BY <1>2 DEF ControlTypes, Terminate, Label, Reply
  <2>2. \A d \in Calls : pc'[d] = IF pc[d] = "idle" THEN "idle" ELSE "done"
    BY <1>2 DEF Terminate
  <2> QED
    BY <2>1, <2>2 DEF ControlTypes, Moves
<1> QED
  BY <1>1, <1>2 DEF Throw

LEMMA StayMoves ==
  ASSUME ControlTypes, NEW c \in Calls, UNCHANGED <<pc, reply, up>>
  PROVE  Moves(c, {pc[c]})
BY DEF ControlTypes, Moves

(* An entry of the list can be read, and its vote be changed.              *)
LEMMA ListTypes ==
  ASSUME CoordTypes
  PROVE  /\ Len(rcv) \in Nat /\ DOMAIN rcv = 1..Len(rcv)
         /\ \A i \in 1..Len(rcv) : rcv[i] \in [r : Resources, rv : ResourceVote]
         /\ \A i \in 1..Len(rcv) : rcv[i].r \in Resources
         /\ Len(syncs) \in Nat
         /\ \A i \in 1..Len(syncs) : syncs[i] \in Syncs
<1>1. rcv \in Seq([r : Resources, rv : ResourceVote]) /\ syncs \in Seq(Syncs)
  BY DEF CoordTypes
<1>2. \A i \in 1..Len(rcv) : rcv[i] \in [r : Resources, rv : ResourceVote]
  BY <1>1, ElementOfSeq
<1> QED
  BY <1>1, <1>2, LenProperties, ElementOfSeq

LEMMA ListChanges ==
  ASSUME CoordTypes, NEW i \in 1..Len(rcv), NEW v \in ResourceVote,
         SetVote(i, v) \/ ChangeResourceVote(i, v)
  PROVE  /\ rcv' \in Seq([r : Resources, rv : ResourceVote])
         /\ Len(rcv') = Len(rcv)
         /\ \A j \in 1..Len(rcv) : rcv'[j].r = rcv[j].r
<1> DEFINE T == [r : Resources, rv : ResourceVote]
<1>1. rcv \in [1..Len(rcv) -> T] /\ DOMAIN rcv = 1..Len(rcv) /\ Len(rcv) \in Nat
  BY LenProperties DEF CoordTypes
<1>2. rcv' \in [1..Len(rcv) -> T] /\ \A j \in 1..Len(rcv) : rcv'[j].r = rcv[j].r
  BY <1>1 DEF SetVote, ChangeResourceVote
<1> HIDE DEF T
<1>3. \E n \in Nat : rcv' \in [1..n -> T]
  BY <1>1, <1>2
<1>4. rcv' \in Seq(T)
  BY <1>3, SeqDef
<1>5. DOMAIN rcv' = 1..Len(rcv) /\ DOMAIN rcv' = 1..Len(rcv') /\ Len(rcv') \in Nat
  BY <1>2, <1>4, LenProperties
<1>6. Len(rcv') = Len(rcv)
  BY <1>1, <1>5
<1> QED
  BY <1>2, <1>4, <1>6 DEF T

(* A step of c leaves the loops of the other calls inside the list.        *)
LEMMA OtherLoops ==
  ASSUME TypeInv, NEW c \in Calls, NEW L, Moves(c, L),
         Len(rcv') \in Nat, Len(rcv) <= Len(rcv'),
         \A d \in Terminators \ {c} :
            ix'[d] = ix[d] /\ len'[d] = len[d] /\ ans'[d] = ans[d]
  PROVE  \A d \in Terminators \ {c} : LoopInside(d)'
<1> SUFFICES ASSUME NEW d \in Terminators \ {c} PROVE LoopInside(d)'
  OBVIOUS
<1>1. /\ d \in Calls
      /\ pc'[d] = pc[d] \/ pc'[d] = "done"
      /\ LoopInside(d)
      /\ len[d] \in Nat /\ Len(rcv) \in Nat
  BY ListTypes DEF TypeInv, TypeOK, CallTypes, LoopsInside, Moves, Calls
<1>2. len'[d] <= Len(rcv')
  BY <1>1 DEF LoopInside
<1> QED
  BY <1>1, <1>2 DEF LoopInside, Answered

LEMMA StepTypes ==
  ASSUME TypeInv, NEW c \in Terminators, NEW L, Moves(c, L),
         CoordTypes', CallTypes', WorldTypes', LoopInside(c)',
         Len(rcv') = Len(rcv),
         \A d \in Terminators \ {c} :
            ix'[d] = ix[d] /\ len'[d] = len[d] /\ ans'[d] = ans[d]
  PROVE  TypeInv'
<1>1. c \in Calls /\ Len(rcv) \in Nat
  BY ListTypes DEF Calls, TypeInv, TypeOK
<1>2. \A d \in Terminators \ {c} : LoopInside(d)'
  BY <1>1, OtherLoops
<1> QED
  BY <1>2 DEF TypeInv, TypeOK, LoopsInside, Moves

LEMMA InvokeTypes ==
  ASSUME TypeInv, NEW c \in Terminators, NEW outcome, Invoke(c, outcome),
         ix[c] <= len[c], outcome.p \in ResourceState, outcome.answer \in Answer
  PROVE  /\ WorldTypes'
         /\ ans' \in [Terminators -> Answer]
         /\ ans'[c] \in NetworkFailure \cup {outcome.answer}
         /\ \A d \in Terminators \ {c} : ans'[d] = ans[d]
<1>1. ix[c] \in 1..Len(rcv) /\ Entry(c).r \in Resources
  BY ListTypes DEF TypeInv, TypeOK, CallTypes, LoopsInside, LoopInside, Entry
<1>2. CASE /\ res' = [res EXCEPT ![Entry(c).r] = outcome.p]
           /\ ans' = [ans EXCEPT ![c] = outcome.answer]
           /\ UNCHANGED faults
  BY <1>1, <1>2 DEF TypeInv, TypeOK, CallTypes, WorldTypes
<1>3. CASE /\ faults < MaxFaults /\ faults' = faults + 1
           /\ \E f \in NetworkFailure : ans' = [ans EXCEPT ![c] = f]
           /\ UNCHANGED res
  BY <1>3, FaultsAssumption DEF TypeInv, TypeOK, CallTypes, WorldTypes, Answer
<1>4. CASE /\ faults < MaxFaults /\ faults' = faults + 1
           /\ ans' = [ans EXCEPT ![c] = "COMM_FAILURE"]
           /\ res' = [res EXCEPT ![Entry(c).r] = outcome.p]
  BY <1>1, <1>4, FaultsAssumption
     DEF TypeInv, TypeOK, CallTypes, WorldTypes, Answer, NetworkFailure
<1> QED
  BY <1>2, <1>3, <1>4 DEF Invoke

LEMMA LoopTypes ==
  ASSUME TypeInv, NEW c \in Terminators, NEW label \in Label, Loop(c, Len(rcv), label)
  PROVE  /\ Moves(c, {label})
         /\ ix' \in [Terminators -> Nat \ {0}] /\ len' \in [Terminators -> Nat]
         /\ len'[c] = Len(rcv)
         /\ \A d \in Terminators \ {c} : ix'[d] = ix[d] /\ len'[d] = len[d]
<1>1. Len(rcv) \in Nat /\ c \in Calls /\ ControlTypes
  BY ListTypes DEF TypeInv, TypeOK, Calls
<1>2. Moves(c, {label})
  BY <1>1, GotoMoves DEF Loop
<1> QED
  BY <1>1, <1>2 DEF Loop, TypeInv, TypeOK, CallTypes

LEMMA AdvanceTypes ==
  ASSUME CallTypes, NEW c \in Terminators, Advance(c)
  PROVE  /\ ix' \in [Terminators -> Nat \ {0}]
         /\ \A d \in Terminators \ {c} : ix'[d] = ix[d]
BY DEF CallTypes, Advance

LEMMA CommitMoves ==
  ASSUME TypeInv, NEW c \in Committers, Commit(c)
  PROVE  Moves(c, {"before", "rollback", "recommit", "spin", "done"})
<1>a. /\ c \in Terminators /\ c \in Calls
      /\ CoordTypes /\ CallTypes /\ ControlTypes /\ WorldTypes /\ LoopInside(c)
  BY DEF Terminators, Calls, TypeInv, TypeOK, LoopsInside
<1> QED
  BY <1>a, GotoMoves, ReturnMoves, LoopTypes DEF Commit, Moves, Label, Reply

LEMMA CommitTypes ==
  ASSUME TypeInv, NEW c \in Committers, Commit(c) PROVE TypeInv'
<1>a. /\ c \in Terminators /\ c \in Calls
      /\ CoordTypes /\ CallTypes /\ ControlTypes /\ WorldTypes /\ LoopInside(c)
  BY DEF Terminators, Calls, TypeInv, TypeOK, LoopsInside
<1>b. \/ \E label \in {"before", "recommit"} : Loop(c, Len(rcv), label)
      \/ UNCHANGED <<ix, len>>
  BY DEF Commit
<1>c. /\ ix' \in [Terminators -> Nat \ {0}] /\ len' \in [Terminators -> Nat]
      /\ len'[c] \in {len[c], Len(rcv)}
      /\ \A d \in Terminators \ {c} : ix'[d] = ix[d] /\ len'[d] = len[d]
  <2>1. CASE UNCHANGED <<ix, len>>
    BY <1>a, <2>1 DEF CallTypes
  <2>2. CASE \E label \in {"before", "recommit"} : Loop(c, Len(rcv), label)
    BY <1>a, <2>2, LoopTypes DEF Label
  <2> QED
    BY <1>b, <2>1, <2>2
<1>1. Moves(c, {"before", "rollback", "recommit", "spin", "done"})
  BY CommitMoves
<1>2. CoordTypes' /\ Len(rcv') = Len(rcv)
  BY <1>a, ListTypes DEF Commit, CoordTypes, coordVars
<1>3. CallTypes' /\ WorldTypes'
  BY <1>a, <1>c DEF Commit, CallTypes, WorldTypes
<1>4. LoopInside(c)'
  BY <1>a, <1>1, <1>2, <1>c, ListTypes DEF Moves, CallTypes, LoopInside, Answered
<1>5. \A d \in Terminators \ {c} : ix'[d] = ix[d] /\ len'[d] = len[d] /\ ans'[d] = ans[d]
  BY <1>c DEF Commit
<1> QED
  BY <1>a, <1>1, <1>2, <1>3, <1>4, <1>5, StepTypes

LEMMA BeforeCompletionMoves ==
  ASSUME TypeInv, NEW c \in Committers, BeforeCompletion(c)
  PROVE  Moves(c, {"before", "dispatch"})
<1>a. /\ c \in Terminators /\ c \in Calls
      /\ CoordTypes /\ CallTypes /\ ControlTypes /\ WorldTypes /\ LoopInside(c)
  BY DEF Terminators, Calls, TypeInv, TypeOK, LoopsInside
<1> QED
  BY <1>a, GotoMoves, StayMoves DEF BeforeCompletion, Moves, Label

LEMMA BeforeCompletionTypes ==
  ASSUME TypeInv, NEW c \in Committers, BeforeCompletion(c) PROVE TypeInv'
<1>a. /\ c \in Terminators /\ c \in Calls
      /\ CoordTypes /\ CallTypes /\ ControlTypes /\ WorldTypes /\ LoopInside(c)
  BY DEF Terminators, Calls, TypeInv, TypeOK, LoopsInside
<1>b. ix[c] <= Len(syncs) => syncs[ix[c]] \in Syncs
  BY <1>a, ListTypes DEF CallTypes
<1>1. Moves(c, {"before", "dispatch"})
  BY BeforeCompletionMoves
<1>2. CoordTypes' /\ Len(rcv') = Len(rcv)
  <2>1. CASE ix[c] <= Len(syncs)
    <3>1. before' = [before EXCEPT ![syncs[ix[c]]] = @ + 1]
      BY <2>1 DEF BeforeCompletion
    <3>2. before \in [Syncs -> Nat]
      BY <1>a DEF CoordTypes
    <3>3. before' \in [Syncs -> Nat]
      BY <1>b, <2>1, <3>1, <3>2
    <3> QED
      BY <1>a, <3>3 DEF BeforeCompletion, CoordTypes
  <2>2. CASE ~(ix[c] <= Len(syncs))
    BY <1>a, <2>2 DEF BeforeCompletion, CoordTypes
  <2> QED
    BY <2>1, <2>2
<1>3. CallTypes' /\ WorldTypes'
  BY <1>a, AdvanceTypes DEF BeforeCompletion, CallTypes, WorldTypes
<1>4. LoopInside(c)'
  BY <1>a, <1>1, <1>2, ListTypes DEF BeforeCompletion, Moves, CallTypes, LoopInside, Answered, Advance
<1>5. \A d \in Terminators \ {c} : ix'[d] = ix[d] /\ len'[d] = len[d] /\ ans'[d] = ans[d]
  BY <1>a DEF BeforeCompletion, CallTypes, Advance
<1> QED
  BY <1>a, <1>1, <1>2, <1>3, <1>4, <1>5, StepTypes

LEMMA DispatchMoves ==
  ASSUME TypeInv, NEW c \in Committers, Dispatch(c)
  PROVE  Moves(c, {"onephase", "prepare", "done"})
<1>a. /\ c \in Terminators /\ c \in Calls
      /\ CoordTypes /\ CallTypes /\ ControlTypes /\ WorldTypes /\ LoopInside(c)
  BY DEF Terminators, Calls, TypeInv, TypeOK, LoopsInside
<1> QED
  BY <1>a, GotoMoves, ReturnMoves DEF Dispatch, Moves, Label, Reply

LEMMA DispatchTypes ==
  ASSUME TypeInv, NEW c \in Committers, Dispatch(c) PROVE TypeInv'
<1>a. /\ c \in Terminators /\ c \in Calls
      /\ CoordTypes /\ CallTypes /\ ControlTypes /\ WorldTypes /\ LoopInside(c)
  BY DEF Terminators, Calls, TypeInv, TypeOK, LoopsInside
<1>1. Moves(c, {"onephase", "prepare", "done"})
  BY DispatchMoves
<1>2. CoordTypes' /\ Len(rcv') = Len(rcv)
  BY <1>a, ListTypes DEF Dispatch, CoordTypes, coordVars, TransactionStatus
<1>3. CallTypes' /\ WorldTypes'
  BY <1>a, ListTypes DEF Dispatch, CallTypes, WorldTypes
<1>4. LoopInside(c)'
  BY <1>a, <1>2, ListTypes DEF Dispatch, ControlTypes, CallTypes, LoopInside, Answered, Goto, Return
<1>5. \A d \in Terminators \ {c} : ix'[d] = ix[d] /\ len'[d] = len[d] /\ ans'[d] = ans[d]
  BY <1>a DEF Dispatch, CallTypes, Goto, Return
<1> QED
  BY <1>a, <1>1, <1>2, <1>3, <1>4, <1>5, StepTypes

LEMMA CommitOnePhaseMoves ==
  ASSUME TypeInv, NEW c \in Committers, CommitOnePhase(c)
  PROVE  Moves(c, {"onephased"})
<1>a. /\ c \in Terminators /\ c \in Calls
      /\ CoordTypes /\ CallTypes /\ ControlTypes /\ WorldTypes /\ LoopInside(c)
  BY DEF Terminators, Calls, TypeInv, TypeOK, LoopsInside
<1> QED
  BY <1>a, GotoMoves DEF CommitOnePhase, Moves, Label

LEMMA CommitOnePhaseTypes ==
  ASSUME TypeInv, NEW c \in Committers, CommitOnePhase(c) PROVE TypeInv'
<1>a. /\ c \in Terminators /\ c \in Calls
      /\ CoordTypes /\ CallTypes /\ ControlTypes /\ WorldTypes /\ LoopInside(c)
  BY DEF Terminators, Calls, TypeInv, TypeOK, LoopsInside
<1>b. PICK outcome :
        /\ Invoke(c, outcome) /\ ix[c] <= len[c]
        /\ outcome.p \in ResourceState
        /\ outcome.answer \in {"ok", "TRANSACTION_ROLLEDBACK", "spins", "COMM_FAILURE", "UNKNOWN"}
  <2>1. PICK t \in TriggerFails(Entry(c).r) :
          LET o == PgCommitOnePhase(res[Entry(c).r], t)
          IN  Invoke(c, IF o.answer # "HeuristicRollback" THEN o
                        ELSE IF ThrowSpecsEnforced
                        THEN Outcome(ConnectionLost(o.p), "COMM_FAILURE")
                        ELSE Outcome(o.p, "UNKNOWN"))
    BY DEF CommitOnePhase
  <2>2. t \in BOOLEAN
    BY <2>1 DEF TriggerFails
  <2>3. ix[c] <= len[c] /\ res[Entry(c).r] \in ResourceState
    BY <1>a, ListTypes DEF CommitOnePhase, LoopInside, CallTypes, Entry, WorldTypes
  <2> QED
    BY <2>1, <2>2, <2>3, OnePhaseTypes, XaTypes DEF Outcome
<1>c. pc'[c] = "onephased" /\ UNCHANGED <<coordVars, callVars>> /\ pc[c] = "onephase"
  BY <1>a DEF CommitOnePhase, Goto, ControlTypes
<1>d. /\ WorldTypes' /\ ans' \in [Terminators -> Answer]
      /\ ans'[c] \in NetworkFailure \cup {outcome.answer}
      /\ \A d \in Terminators \ {c} : ans'[d] = ans[d]
  BY <1>a, <1>b, InvokeTypes DEF Answer, ResourceAnswer, NetworkFailure
<1>1. Moves(c, {"onephased"})
  BY CommitOnePhaseMoves
<1>2. CoordTypes' /\ Len(rcv') = Len(rcv)
  BY <1>a, ListTypes DEF CommitOnePhase, CoordTypes, coordVars
<1>3. CallTypes' /\ WorldTypes'
  BY <1>a, <1>c, <1>d DEF CallTypes, callVars
<1>4. LoopInside(c)'
  BY <1>a, <1>b, <1>c, <1>d DEF LoopInside, Answered, AnswerTo, NetworkFailure, callVars, coordVars
<1>5. \A d \in Terminators \ {c} : ix'[d] = ix[d] /\ len'[d] = len[d] /\ ans'[d] = ans[d]
  BY <1>c, <1>d DEF callVars
<1> QED
  BY <1>a, <1>1, <1>2, <1>3, <1>4, <1>5, StepTypes

LEMMA OnePhaseAnsweredMoves ==
  ASSUME TypeInv, NEW c \in Committers, OnePhaseAnswered(c)
  PROVE  Moves(c, {"done"})
<1>a. /\ c \in Terminators /\ c \in Calls
      /\ CoordTypes /\ CallTypes /\ ControlTypes /\ WorldTypes /\ LoopInside(c)
  BY DEF Terminators, Calls, TypeInv, TypeOK, LoopsInside
<1> QED
  BY <1>a, ReturnMoves, ThrowMoves DEF OnePhaseAnswered, Moves, LoopInside, Answered, AnswerTo, NetworkFailure, Reply

LEMMA OnePhaseAnsweredTypes ==
  ASSUME TypeInv, NEW c \in Committers, OnePhaseAnswered(c) PROVE TypeInv'
<1>a. /\ c \in Terminators /\ c \in Calls
      /\ CoordTypes /\ CallTypes /\ ControlTypes /\ WorldTypes /\ LoopInside(c)
  BY DEF Terminators, Calls, TypeInv, TypeOK, LoopsInside
<1>1. Moves(c, {"done"})
  BY OnePhaseAnsweredMoves
<1>2. CoordTypes' /\ Len(rcv') = Len(rcv)
  BY <1>a, ListTypes DEF OnePhaseAnswered, CoordTypes, coordVars
<1>3. CallTypes' /\ WorldTypes'
  BY <1>a, ListTypes DEF OnePhaseAnswered, CallTypes, WorldTypes, callVars
<1>4. LoopInside(c)'
  BY <1>a, <1>1, <1>2, ListTypes DEF OnePhaseAnswered, Moves, CallTypes, LoopInside, Answered, callVars
<1>5. \A d \in Terminators \ {c} : ix'[d] = ix[d] /\ len'[d] = len[d] /\ ans'[d] = ans[d]
  BY <1>a DEF OnePhaseAnswered, CallTypes, callVars
<1> QED
  BY <1>a, <1>1, <1>2, <1>3, <1>4, <1>5, StepTypes

LEMMA PrepareNextMoves ==
  ASSUME TypeInv, NEW c \in Committers, PrepareNext(c)
  PROVE  Moves(c, {"voted"})
<1>a. /\ c \in Terminators /\ c \in Calls
      /\ CoordTypes /\ CallTypes /\ ControlTypes /\ WorldTypes /\ LoopInside(c)
  BY DEF Terminators, Calls, TypeInv, TypeOK, LoopsInside
<1> QED
  BY <1>a, GotoMoves DEF PrepareNext, Moves, Label

LEMMA PrepareNextTypes ==
  ASSUME TypeInv, NEW c \in Committers, PrepareNext(c) PROVE TypeInv'
<1>a. /\ c \in Terminators /\ c \in Calls
      /\ CoordTypes /\ CallTypes /\ ControlTypes /\ WorldTypes /\ LoopInside(c)
  BY DEF Terminators, Calls, TypeInv, TypeOK, LoopsInside
<1> DEFINE outcome == PgPrepare(res[Entry(c).r])
<1>b. /\ Invoke(c, outcome) /\ ix[c] <= len[c]
      /\ pc'[c] = "voted" /\ UNCHANGED <<coordVars, callVars>>
  BY <1>a DEF PrepareNext, More, Goto, ControlTypes
<1>c. outcome.p \in ResourceState /\ outcome.answer \in {"VoteCommit", "VoteRollback", "spins"}
  BY <1>a, <1>b, ListTypes, PgTypes DEF CallTypes, LoopInside, Entry, WorldTypes
<1> HIDE DEF outcome
<1>d. /\ WorldTypes' /\ ans' \in [Terminators -> Answer]
      /\ ans'[c] \in NetworkFailure \cup {outcome.answer}
      /\ \A d \in Terminators \ {c} : ans'[d] = ans[d]
  BY <1>a, <1>b, <1>c, InvokeTypes DEF Answer, ResourceAnswer
<1>1. Moves(c, {"voted"})
  BY PrepareNextMoves
<1>2. CoordTypes' /\ Len(rcv') = Len(rcv)
  BY <1>a, ListTypes DEF PrepareNext, CoordTypes, coordVars
<1>3. CallTypes' /\ WorldTypes'
  BY <1>a, <1>b, <1>d DEF CallTypes, callVars
<1>4. LoopInside(c)'
  BY <1>a, <1>b, <1>c, <1>d DEF LoopInside, Answered, AnswerTo, callVars, coordVars
<1>5. \A d \in Terminators \ {c} : ix'[d] = ix[d] /\ len'[d] = len[d] /\ ans'[d] = ans[d]
  BY <1>b, <1>d DEF callVars
<1> QED
  BY <1>a, <1>1, <1>2, <1>3, <1>4, <1>5, StepTypes

LEMMA VotedMoves ==
  ASSUME TypeInv, NEW c \in Committers, Voted(c)
  PROVE  Moves(c, {"prepare", "done"})
<1>a. /\ c \in Terminators /\ c \in Calls
      /\ CoordTypes /\ CallTypes /\ ControlTypes /\ WorldTypes /\ LoopInside(c)
  BY DEF Terminators, Calls, TypeInv, TypeOK, LoopsInside
<1> QED
  BY <1>a, GotoMoves, ThrowMoves DEF Voted, Moves, LoopInside, Answered, AnswerTo, NetworkFailure, Label, Reply

LEMMA VotedTypes ==
  ASSUME TypeInv, NEW c \in Committers, Voted(c) PROVE TypeInv'
<1>a. /\ c \in Terminators /\ c \in Calls
      /\ CoordTypes /\ CallTypes /\ ControlTypes /\ WorldTypes /\ LoopInside(c)
  BY DEF Terminators, Calls, TypeInv, TypeOK, LoopsInside
<1>1. Moves(c, {"prepare", "done"})
  BY VotedMoves
<1>2. CoordTypes' /\ Len(rcv') = Len(rcv)
  <2>1. ix[c] \in 1..Len(rcv)
    BY <1>a, ListTypes DEF Voted, LoopInside, Answered, CallTypes
  <2>2. UNCHANGED <<syncs, before, after>>
    BY DEF Voted
  <2>3. status' \in TransactionStatus
    BY <1>a DEF Voted, CoordTypes, TransactionStatus
  <2>4. CASE SetVote(ix[c], "VoteCommit") \/ SetVote(ix[c], "RolledBack")
    BY <1>a, <2>1, <2>2, <2>3, <2>4, ListChanges DEF CoordTypes, ResourceVote
  <2>5. CASE UNCHANGED rcv
    BY <1>a, <2>2, <2>3, <2>5 DEF CoordTypes
  <2> QED
    BY <2>4, <2>5 DEF Voted
<1>3. CallTypes' /\ WorldTypes'
  BY <1>a, AdvanceTypes DEF Voted, CallTypes, WorldTypes
<1>4. LoopInside(c)'
  BY <1>a, <1>1, <1>2, ListTypes DEF Voted, Moves, CallTypes, LoopInside, Answered, Advance
<1>5. \A d \in Terminators \ {c} : ix'[d] = ix[d] /\ len'[d] = len[d] /\ ans'[d] = ans[d]
  BY <1>a DEF Voted, CallTypes, Advance
<1> QED
  BY <1>a, <1>1, <1>2, <1>3, <1>4, <1>5, StepTypes

LEMMA DecideMoves ==
  ASSUME TypeInv, NEW c \in Committers, Decide(c)
  PROVE  Moves(c, {"rollback", "commit"})
<1>a. /\ c \in Terminators /\ c \in Calls
      /\ CoordTypes /\ CallTypes /\ ControlTypes /\ WorldTypes /\ LoopInside(c)
  BY DEF Terminators, Calls, TypeInv, TypeOK, LoopsInside
<1> QED
  BY <1>a, GotoMoves DEF Decide, Moves, Label

LEMMA DecideTypes ==
  ASSUME TypeInv, NEW c \in Committers, Decide(c) PROVE TypeInv'
<1>a. /\ c \in Terminators /\ c \in Calls
      /\ CoordTypes /\ CallTypes /\ ControlTypes /\ WorldTypes /\ LoopInside(c)
  BY DEF Terminators, Calls, TypeInv, TypeOK, LoopsInside
<1>1. Moves(c, {"rollback", "commit"})
  BY DecideMoves
<1>2. CoordTypes' /\ Len(rcv') = Len(rcv)
  BY <1>a, ListTypes DEF Decide, CoordTypes, coordVars, TransactionStatus
<1>3. CallTypes' /\ WorldTypes'
  <2>1. ix' \in [Terminators -> Nat \ {0}]
    BY <1>a DEF Decide, CallTypes
  <2>2. UNCHANGED <<len, heur, res, ans, faults>>
    BY DEF Decide
  <2> QED
    BY <1>a, <2>1, <2>2 DEF CallTypes, WorldTypes
<1>4. LoopInside(c)'
  BY <1>a, <1>1, <1>2, ListTypes DEF Decide, Moves, CallTypes, LoopInside, Answered
<1>5. \A d \in Terminators \ {c} : ix'[d] = ix[d] /\ len'[d] = len[d] /\ ans'[d] = ans[d]
  BY <1>a DEF Decide, CallTypes
<1> QED
  BY <1>a, <1>1, <1>2, <1>3, <1>4, <1>5, StepTypes

LEMMA CommitNextMoves ==
  ASSUME TypeInv, NEW c \in Committers, CommitNext(c)
  PROVE  Moves(c, {"commit", "recommit", "committed", "recommitted"})
<1>a. /\ c \in Terminators /\ c \in Calls
      /\ CoordTypes /\ CallTypes /\ ControlTypes /\ WorldTypes /\ LoopInside(c)
  BY DEF Terminators, Calls, TypeInv, TypeOK, LoopsInside
<1> QED
  BY <1>a, GotoMoves, StayMoves DEF CommitNext, Moves, Label

LEMMA CommitNextTypes ==
  ASSUME TypeInv, NEW c \in Committers, CommitNext(c) PROVE TypeInv'
<1>a. /\ c \in Terminators /\ c \in Calls
      /\ CoordTypes /\ CallTypes /\ ControlTypes /\ WorldTypes /\ LoopInside(c)
  BY DEF Terminators, Calls, TypeInv, TypeOK, LoopsInside
<1>1. Moves(c, {"commit", "recommit", "committed", "recommitted"})
  BY CommitNextMoves
<1>2. CoordTypes' /\ Len(rcv') = Len(rcv)
  BY <1>a, ListTypes DEF CommitNext, CoordTypes, coordVars
<1>b. pc[c] \in {"commit", "recommit"} /\ UNCHANGED coordVars /\ UNCHANGED <<len, heur>>
  BY DEF CommitNext
<1>c. CASE Advance(c) /\ UNCHANGED <<res, pc, ans, reply, up, faults>>
  <2>1. CallTypes' /\ WorldTypes'
    BY <1>a, <1>b, <1>c, AdvanceTypes DEF CallTypes, WorldTypes
  <2>2. LoopInside(c)'
    BY <1>a, <1>b, <1>c DEF LoopInside, Answered, coordVars
  <2>3. \A d \in Terminators \ {c} : ix'[d] = ix[d] /\ len'[d] = len[d] /\ ans'[d] = ans[d]
    BY <1>a, <1>b, <1>c, AdvanceTypes
  <2> QED
    BY <1>a, <1>1, <1>2, <2>1, <2>2, <2>3, StepTypes
<1>d. ASSUME NEW outcome, Invoke(c, outcome), ix[c] <= len[c], UNCHANGED ix,
             pc'[c] \in {"committed", "recommitted"},
             outcome.p \in ResourceState,
             outcome.answer \in {"ok", "HeuristicRollback", "NotPrepared", "spins"}
      PROVE  TypeInv'
  <2>1. /\ WorldTypes' /\ ans' \in [Terminators -> Answer]
        /\ ans'[c] \in NetworkFailure \cup {outcome.answer}
        /\ \A d \in Terminators \ {c} : ans'[d] = ans[d]
    BY <1>a, <1>d, InvokeTypes DEF Answer, ResourceAnswer
  <2>2. CallTypes'
    BY <1>a, <1>b, <1>d, <2>1 DEF CallTypes
  <2>3. LoopInside(c)'
    BY <1>a, <1>b, <1>d, <2>1 DEF LoopInside, Answered, AnswerTo, coordVars
  <2> QED
    BY <1>a, <1>b, <1>d, <1>1, <1>2, <2>1, <2>2, <2>3, StepTypes
<1>e. CASE ~(Advance(c) /\ UNCHANGED <<res, pc, ans, reply, up, faults>>)
  <2>1. PICK t \in TriggerFails(Entry(c).r) : Invoke(c, PgCommit(res[Entry(c).r], t))
    BY <1>e DEF CommitNext
  <2>2. t \in BOOLEAN
    BY <2>1 DEF TriggerFails
  <2>4. ix[c] <= len[c] /\ res[Entry(c).r] \in ResourceState
    BY <1>a, <1>b, ListTypes DEF CommitNext, More, LoopInside, CallTypes, Entry, WorldTypes
  <2>3. UNCHANGED ix /\ pc'[c] \in {"committed", "recommitted"}
    BY <1>a, <1>e DEF CommitNext, Goto, ControlTypes
  <2> QED
    BY <1>d, <2>1, <2>2, <2>3, <2>4, PgTypes
<1> QED
  BY <1>c, <1>e

LEMMA CommitAnsweredMoves ==
  ASSUME TypeInv, NEW c \in Committers, CommitAnswered(c)
  PROVE  Moves(c, {"commit", "recommit", "done"})
<1>a. /\ c \in Terminators /\ c \in Calls
      /\ CoordTypes /\ CallTypes /\ ControlTypes /\ WorldTypes /\ LoopInside(c)
  BY DEF Terminators, Calls, TypeInv, TypeOK, LoopsInside
<1> QED
  BY <1>a, GotoMoves, ThrowMoves DEF CommitAnswered, Moves, LoopInside, Answered, AnswerTo, NetworkFailure, Label, Reply

LEMMA CommitAnsweredTypes ==
  ASSUME TypeInv, NEW c \in Committers, CommitAnswered(c) PROVE TypeInv'
<1>a. /\ c \in Terminators /\ c \in Calls
      /\ CoordTypes /\ CallTypes /\ ControlTypes /\ WorldTypes /\ LoopInside(c)
  BY DEF Terminators, Calls, TypeInv, TypeOK, LoopsInside
<1>1. Moves(c, {"commit", "recommit", "done"})
  BY CommitAnsweredMoves
<1>2. CoordTypes' /\ Len(rcv') = Len(rcv)
  <2>1. ix[c] \in 1..Len(rcv)
    BY <1>a, ListTypes DEF CommitAnswered, LoopInside, Answered, CallTypes
  <2>2. UNCHANGED <<status, syncs, before, after>>
    BY DEF CommitAnswered
  <2>3. CASE ChangeResourceVote(ix[c], "Committed")
    BY <1>a, <2>1, <2>2, <2>3, ListChanges DEF CoordTypes, ResourceVote
  <2>4. CASE UNCHANGED rcv
    BY <1>a, <2>2, <2>4 DEF CoordTypes
  <2> QED
    BY <2>3, <2>4 DEF CommitAnswered
<1>3. CallTypes' /\ WorldTypes'
  BY <1>a, AdvanceTypes DEF CommitAnswered, CallTypes, WorldTypes
<1>4. LoopInside(c)'
  BY <1>a, <1>1, <1>2, ListTypes DEF CommitAnswered, Moves, CallTypes, LoopInside, Answered, Advance
<1>5. \A d \in Terminators \ {c} : ix'[d] = ix[d] /\ len'[d] = len[d] /\ ans'[d] = ans[d]
  BY <1>a DEF CommitAnswered, CallTypes, Advance
<1> QED
  BY <1>a, <1>1, <1>2, <1>3, <1>4, <1>5, StepTypes

LEMMA CommitEndsMoves ==
  ASSUME TypeInv, NEW c \in Committers, CommitEnds(c)
  PROVE  Moves(c, {"after", "done"})
<1>a. /\ c \in Terminators /\ c \in Calls
      /\ CoordTypes /\ CallTypes /\ ControlTypes /\ WorldTypes /\ LoopInside(c)
  BY DEF Terminators, Calls, TypeInv, TypeOK, LoopsInside
<1> QED
  BY <1>a, GotoMoves, ReturnMoves DEF CommitEnds, Moves, Label, Reply

LEMMA CommitEndsTypes ==
  ASSUME TypeInv, NEW c \in Committers, CommitEnds(c) PROVE TypeInv'
<1>a. /\ c \in Terminators /\ c \in Calls
      /\ CoordTypes /\ CallTypes /\ ControlTypes /\ WorldTypes /\ LoopInside(c)
  BY DEF Terminators, Calls, TypeInv, TypeOK, LoopsInside
<1>1. Moves(c, {"after", "done"})
  BY CommitEndsMoves
<1>2. CoordTypes' /\ Len(rcv') = Len(rcv)
  BY <1>a, ListTypes DEF CommitEnds, CoordTypes, coordVars, TransactionStatus
<1>3. CallTypes' /\ WorldTypes'
  BY <1>a, ListTypes DEF CommitEnds, CallTypes, WorldTypes
<1>4. LoopInside(c)'
  BY <1>a, <1>1, <1>2, ListTypes DEF CommitEnds, Moves, CallTypes, LoopInside, Answered
<1>5. \A d \in Terminators \ {c} : ix'[d] = ix[d] /\ len'[d] = len[d] /\ ans'[d] = ans[d]
  BY <1>a DEF CommitEnds, CallTypes
<1> QED
  BY <1>a, <1>1, <1>2, <1>3, <1>4, <1>5, StepTypes

LEMMA SpinMoves ==
  ASSUME TypeInv, NEW c \in Committers, Spin(c)
  PROVE  Moves(c, {"done", "spin"})
<1>a. /\ c \in Terminators /\ c \in Calls
      /\ CoordTypes /\ CallTypes /\ ControlTypes /\ WorldTypes /\ LoopInside(c)
  BY DEF Terminators, Calls, TypeInv, TypeOK, LoopsInside
<1> QED
  BY <1>a, ReturnMoves, StayMoves DEF Spin, Moves, Reply

LEMMA SpinTypes ==
  ASSUME TypeInv, NEW c \in Committers, Spin(c) PROVE TypeInv'
<1>a. /\ c \in Terminators /\ c \in Calls
      /\ CoordTypes /\ CallTypes /\ ControlTypes /\ WorldTypes /\ LoopInside(c)
  BY DEF Terminators, Calls, TypeInv, TypeOK, LoopsInside
<1>1. Moves(c, {"done", "spin"})
  BY SpinMoves
<1>2. CoordTypes' /\ Len(rcv') = Len(rcv)
  BY <1>a, ListTypes DEF Spin, CoordTypes, coordVars
<1>3. CallTypes' /\ WorldTypes'
  BY <1>a, ListTypes DEF Spin, CallTypes, WorldTypes, callVars
<1>4. LoopInside(c)'
  BY <1>a, <1>1, <1>2, ListTypes DEF Spin, Moves, CallTypes, LoopInside, Answered, callVars
<1>5. \A d \in Terminators \ {c} : ix'[d] = ix[d] /\ len'[d] = len[d] /\ ans'[d] = ans[d]
  BY <1>a DEF Spin, CallTypes, callVars
<1> QED
  BY <1>a, <1>1, <1>2, <1>3, <1>4, <1>5, StepTypes

LEMMA RollbackMoves ==
  ASSUME TypeInv, NEW c \in Terminators, Rollback(c)
  PROVE  Moves(c, {"undo", "redo", "done"})
<1>a. /\ c \in Terminators /\ c \in Calls
      /\ CoordTypes /\ CallTypes /\ ControlTypes /\ WorldTypes /\ LoopInside(c)
  BY DEF Terminators, Calls, TypeInv, TypeOK, LoopsInside
<1> QED
  BY <1>a, GotoMoves, ReturnMoves, LoopTypes DEF Rollback, Moves, RollbackReturns, Label, Reply

LEMMA RollbackTypes ==
  ASSUME TypeInv, NEW c \in Terminators, Rollback(c) PROVE TypeInv'
<1>a. /\ c \in Terminators /\ c \in Calls
      /\ CoordTypes /\ CallTypes /\ ControlTypes /\ WorldTypes /\ LoopInside(c)
  BY DEF Terminators, Calls, TypeInv, TypeOK, LoopsInside
<1>b. \/ \E label \in {"undo", "redo"} : Loop(c, Len(rcv), label)
      \/ UNCHANGED <<ix, len>>
  BY DEF Rollback
<1>c. /\ ix' \in [Terminators -> Nat \ {0}] /\ len' \in [Terminators -> Nat]
      /\ len'[c] \in {len[c], Len(rcv)}
      /\ \A d \in Terminators \ {c} : ix'[d] = ix[d] /\ len'[d] = len[d]
  <2>1. CASE UNCHANGED <<ix, len>>
    BY <1>a, <2>1 DEF CallTypes
  <2>2. CASE \E label \in {"undo", "redo"} : Loop(c, Len(rcv), label)
    BY <1>a, <2>2, LoopTypes DEF Label
  <2> QED
    BY <1>b, <2>1, <2>2
<1>1. Moves(c, {"undo", "redo", "done"})
  BY RollbackMoves
<1>2. CoordTypes' /\ Len(rcv') = Len(rcv)
  BY <1>a, ListTypes DEF Rollback, CoordTypes, coordVars, TransactionStatus
<1>3. CallTypes' /\ WorldTypes'
  BY <1>a, <1>c DEF Rollback, CallTypes, WorldTypes
<1>4. LoopInside(c)'
  BY <1>a, <1>1, <1>2, <1>c, ListTypes DEF Moves, CallTypes, LoopInside, Answered
<1>5. \A d \in Terminators \ {c} : ix'[d] = ix[d] /\ len'[d] = len[d] /\ ans'[d] = ans[d]
  BY <1>c DEF Rollback
<1> QED
  BY <1>a, <1>1, <1>2, <1>3, <1>4, <1>5, StepTypes

LEMMA RollbackNextMoves ==
  ASSUME TypeInv, NEW c \in Terminators, RollbackNext(c)
  PROVE  Moves(c, {"undo", "redo", "undone", "redone"})
<1>a. /\ c \in Terminators /\ c \in Calls
      /\ CoordTypes /\ CallTypes /\ ControlTypes /\ WorldTypes /\ LoopInside(c)
  BY DEF Terminators, Calls, TypeInv, TypeOK, LoopsInside
<1> QED
  BY <1>a, GotoMoves, StayMoves DEF RollbackNext, Moves, Label

LEMMA RollbackNextTypes ==
  ASSUME TypeInv, NEW c \in Terminators, RollbackNext(c) PROVE TypeInv'
<1>a. /\ c \in Terminators /\ c \in Calls
      /\ CoordTypes /\ CallTypes /\ ControlTypes /\ WorldTypes /\ LoopInside(c)
  BY DEF Terminators, Calls, TypeInv, TypeOK, LoopsInside
<1>1. Moves(c, {"undo", "redo", "undone", "redone"})
  BY RollbackNextMoves
<1>2. CoordTypes' /\ Len(rcv') = Len(rcv)
  BY <1>a, ListTypes DEF RollbackNext, CoordTypes, coordVars
<1>b. pc[c] \in {"undo", "redo"} /\ UNCHANGED coordVars /\ UNCHANGED <<len, heur>>
  BY DEF RollbackNext
<1>c. CASE Advance(c) /\ UNCHANGED <<res, pc, ans, reply, up, faults>>
  <2>1. CallTypes' /\ WorldTypes'
    BY <1>a, <1>b, <1>c, AdvanceTypes DEF CallTypes, WorldTypes
  <2>2. LoopInside(c)'
    BY <1>a, <1>b, <1>c DEF LoopInside, Answered, coordVars
  <2>3. \A d \in Terminators \ {c} : ix'[d] = ix[d] /\ len'[d] = len[d] /\ ans'[d] = ans[d]
    BY <1>a, <1>b, <1>c, AdvanceTypes
  <2> QED
    BY <1>a, <1>1, <1>2, <2>1, <2>2, <2>3, StepTypes
<1>d. ASSUME NEW outcome, Invoke(c, outcome), ix[c] <= len[c], UNCHANGED ix,
             pc'[c] \in {"undone", "redone"},
             outcome.p \in ResourceState,
             outcome.answer \in {"ok", "spins"}
      PROVE  TypeInv'
  <2>1. /\ WorldTypes' /\ ans' \in [Terminators -> Answer]
        /\ ans'[c] \in NetworkFailure \cup {outcome.answer}
        /\ \A d \in Terminators \ {c} : ans'[d] = ans[d]
    BY <1>a, <1>d, InvokeTypes DEF Answer, ResourceAnswer
  <2>2. CallTypes'
    BY <1>a, <1>b, <1>d, <2>1 DEF CallTypes
  <2>3. LoopInside(c)'
    BY <1>a, <1>b, <1>d, <2>1 DEF LoopInside, Answered, AnswerTo, coordVars
  <2> QED
    BY <1>a, <1>b, <1>d, <1>1, <1>2, <2>1, <2>2, <2>3, StepTypes
<1>e. CASE ~(Advance(c) /\ UNCHANGED <<res, pc, ans, reply, up, faults>>)
  <2>1. Invoke(c, PgRollback(res[Entry(c).r])) /\ UNCHANGED ix
    BY <1>e DEF RollbackNext
  <2>2. ix[c] <= len[c] /\ res[Entry(c).r] \in ResourceState
    BY <1>a, <2>1, ListTypes DEF RollbackNext, More, LoopInside, CallTypes, Entry, WorldTypes
  <2>3. pc'[c] \in {"undone", "redone"}
    BY <1>a, <1>e DEF RollbackNext, Goto, ControlTypes
  <2> QED
    BY <1>d, <2>1, <2>2, <2>3, PgTypes
<1> QED
  BY <1>c, <1>e

LEMMA RollbackAnsweredMoves ==
  ASSUME TypeInv, NEW c \in Terminators, RollbackAnswered(c)
  PROVE  Moves(c, {"undo", "redo", "done"})
<1>a. /\ c \in Terminators /\ c \in Calls
      /\ CoordTypes /\ CallTypes /\ ControlTypes /\ WorldTypes /\ LoopInside(c)
  BY DEF Terminators, Calls, TypeInv, TypeOK, LoopsInside
<1> QED
  BY <1>a, GotoMoves, ThrowMoves DEF RollbackAnswered, Moves, LoopInside, Answered, AnswerTo, NetworkFailure, Label, Reply

LEMMA RollbackAnsweredTypes ==
  ASSUME TypeInv, NEW c \in Terminators, RollbackAnswered(c) PROVE TypeInv'
<1>a. /\ c \in Terminators /\ c \in Calls
      /\ CoordTypes /\ CallTypes /\ ControlTypes /\ WorldTypes /\ LoopInside(c)
  BY DEF Terminators, Calls, TypeInv, TypeOK, LoopsInside
<1>1. Moves(c, {"undo", "redo", "done"})
  BY RollbackAnsweredMoves
<1>2. CoordTypes' /\ Len(rcv') = Len(rcv)
  <2>1. ix[c] \in 1..Len(rcv)
    BY <1>a, ListTypes DEF RollbackAnswered, LoopInside, Answered, CallTypes
  <2>2. UNCHANGED <<status, syncs, before, after>>
    BY DEF RollbackAnswered
  <2>3. CASE ChangeResourceVote(ix[c], "RolledBack")
    BY <1>a, <2>1, <2>2, <2>3, ListChanges DEF CoordTypes, ResourceVote
  <2>4. CASE UNCHANGED rcv
    BY <1>a, <2>2, <2>4 DEF CoordTypes
  <2> QED
    BY <2>3, <2>4 DEF RollbackAnswered
<1>3. CallTypes' /\ WorldTypes'
  BY <1>a, AdvanceTypes DEF RollbackAnswered, CallTypes, WorldTypes
<1>4. LoopInside(c)'
  BY <1>a, <1>1, <1>2, ListTypes DEF RollbackAnswered, Moves, CallTypes, LoopInside, Answered, Advance
<1>5. \A d \in Terminators \ {c} : ix'[d] = ix[d] /\ len'[d] = len[d] /\ ans'[d] = ans[d]
  BY <1>a DEF RollbackAnswered, CallTypes, Advance
<1> QED
  BY <1>a, <1>1, <1>2, <1>3, <1>4, <1>5, StepTypes

LEMMA RollbackEndsMoves ==
  ASSUME TypeInv, NEW c \in Terminators, RollbackEnds(c)
  PROVE  Moves(c, {"done", "undoAfter"})
<1>a. /\ c \in Terminators /\ c \in Calls
      /\ CoordTypes /\ CallTypes /\ ControlTypes /\ WorldTypes /\ LoopInside(c)
  BY DEF Terminators, Calls, TypeInv, TypeOK, LoopsInside
<1> QED
  BY <1>a, GotoMoves, ThrowMoves DEF RollbackEnds, Moves, Label, Reply

LEMMA RollbackEndsTypes ==
  ASSUME TypeInv, NEW c \in Terminators, RollbackEnds(c) PROVE TypeInv'
<1>a. /\ c \in Terminators /\ c \in Calls
      /\ CoordTypes /\ CallTypes /\ ControlTypes /\ WorldTypes /\ LoopInside(c)
  BY DEF Terminators, Calls, TypeInv, TypeOK, LoopsInside
<1>1. Moves(c, {"done", "undoAfter"})
  BY RollbackEndsMoves
<1>2. CoordTypes' /\ Len(rcv') = Len(rcv)
  BY <1>a, ListTypes DEF RollbackEnds, CoordTypes, coordVars, TransactionStatus
<1>3. CallTypes' /\ WorldTypes'
  <2>1. ix' \in [Terminators -> Nat \ {0}]
    BY <1>a DEF RollbackEnds, CallTypes
  <2>2. UNCHANGED <<len, heur, res, ans, faults>>
    BY DEF RollbackEnds
  <2> QED
    BY <1>a, <2>1, <2>2 DEF CallTypes, WorldTypes
<1>4. LoopInside(c)'
  BY <1>a, <1>1, <1>2, ListTypes DEF RollbackEnds, Moves, CallTypes, LoopInside, Answered
<1>5. \A d \in Terminators \ {c} : ix'[d] = ix[d] /\ len'[d] = len[d] /\ ans'[d] = ans[d]
  BY <1>a DEF RollbackEnds, CallTypes
<1> QED
  BY <1>a, <1>1, <1>2, <1>3, <1>4, <1>5, StepTypes

LEMMA AfterCompletionMoves ==
  ASSUME TypeInv, NEW c \in Terminators, AfterCompletion(c)
  PROVE  Moves(c, {"done", "after", "undoAfter"})
<1>a. /\ c \in Terminators /\ c \in Calls
      /\ CoordTypes /\ CallTypes /\ ControlTypes /\ WorldTypes /\ LoopInside(c)
  BY DEF Terminators, Calls, TypeInv, TypeOK, LoopsInside
<1> QED
  BY <1>a, ReturnMoves, ThrowMoves, StayMoves DEF AfterCompletion, Moves, RollbackReturns, Reply

LEMMA AfterCompletionTypes ==
  ASSUME TypeInv, NEW c \in Terminators, AfterCompletion(c) PROVE TypeInv'
<1>a. /\ c \in Terminators /\ c \in Calls
      /\ CoordTypes /\ CallTypes /\ ControlTypes /\ WorldTypes /\ LoopInside(c)
  BY DEF Terminators, Calls, TypeInv, TypeOK, LoopsInside
<1>b. ix[c] <= Len(syncs) => syncs[ix[c]] \in Syncs
  BY <1>a, ListTypes DEF CallTypes
<1>1. Moves(c, {"done", "after", "undoAfter"})
  BY AfterCompletionMoves
<1>2. CoordTypes' /\ Len(rcv') = Len(rcv)
  <2>1. CASE ix[c] <= Len(syncs)
    <3>1. after' = [after EXCEPT ![syncs[ix[c]]] = @ + 1]
      BY <2>1 DEF AfterCompletion
    <3>2. after \in [Syncs -> Nat]
      BY <1>a DEF CoordTypes
    <3>3. after' \in [Syncs -> Nat]
      BY <1>b, <2>1, <3>1, <3>2
    <3> QED
      BY <1>a, <3>3 DEF AfterCompletion, CoordTypes
  <2>2. CASE ~(ix[c] <= Len(syncs))
    BY <1>a, <2>2 DEF AfterCompletion, CoordTypes
  <2> QED
    BY <2>1, <2>2
<1>3. CallTypes' /\ WorldTypes'
  BY <1>a, AdvanceTypes DEF AfterCompletion, CallTypes, WorldTypes
<1>4. LoopInside(c)'
  BY <1>a, <1>1, <1>2, ListTypes DEF AfterCompletion, Moves, CallTypes, LoopInside, Answered, Advance
<1>5. \A d \in Terminators \ {c} : ix'[d] = ix[d] /\ len'[d] = len[d] /\ ans'[d] = ans[d]
  BY <1>a DEF AfterCompletion, CallTypes, Advance
<1> QED
  BY <1>a, <1>1, <1>2, <1>3, <1>4, <1>5, StepTypes

LEMMA TypeStep == TypeInv /\ [Next]_vars => TypeInv'
<1> SUFFICES ASSUME TypeInv, [Next]_vars PROVE TypeInv'
  OBVIOUS
<1>a. CoordTypes /\ CallTypes /\ ControlTypes /\ WorldTypes
  BY DEF TypeInv, TypeOK
<1>b. /\ Registrars \subseteq Calls /\ Markers \subseteq Calls
      /\ \A d \in Terminators : d \notin Registrars /\ d \notin Markers
  BY CallsAssumption DEF Calls
(* Steps of calls that are not terminating the transaction.                *)
<1>c. ASSUME NEW c \in Registrars \cup Markers, NEW L, Moves(c, L),
             CoordTypes', WorldTypes', UNCHANGED <<ix, len, heur, ans>>,
             Len(rcv') \in Nat, Len(rcv) <= Len(rcv')
      PROVE  TypeInv'
  <2>1. \A d \in Terminators : LoopInside(d)'
    BY <1>b, <1>c, OtherLoops
  <2>2. CallTypes'
    BY <1>a, <1>c DEF CallTypes
  <2> QED
    BY <1>c, <2>1, <2>2 DEF TypeInv, TypeOK, LoopsInside, Moves
(* Steps that move no call at all.                                         *)
<1>d. ASSUME CoordTypes', WorldTypes', UNCHANGED <<ix, len, heur, ans, pc, reply, up, rcv>>
      PROVE  TypeInv'
  BY <1>a, <1>d DEF TypeInv, TypeOK, CallTypes, ControlTypes, LoopsInside, LoopInside
<1>1. ASSUME NEW c \in Registrars, Register(c) PROVE TypeInv'
  <2>1. Moves(c, {"begin", "done"})
    BY <1>a, <1>b, <1>1, GotoMoves, ReturnMoves DEF Register, Moves, Label, Reply
  <2>2. /\ CoordTypes' /\ WorldTypes' /\ UNCHANGED <<ix, len, heur, ans>>
        /\ Len(rcv') \in Nat /\ Len(rcv) <= Len(rcv')
    BY <1>a, <1>1, ListTypes DEF Register, CoordTypes, WorldTypes, coordVars, callVars
  <2> QED
    BY <1>c, <2>1, <2>2
<1>2. ASSUME NEW c \in Registrars, BeginTrans(c) PROVE TypeInv'
  <2>1. Moves(c, {"enlist", "done"})
    BY <1>a, <1>b, <1>2, GotoMoves, ReturnMoves DEF BeginTrans, Moves, Label, Reply
  <2>2. WorldTypes'
    <3> DEFINE outcome == PgBeginTrans(res[Target[c]])
    <3>1. Target[c] \in Resources /\ outcome.p \in ResourceState
      BY <1>a, PgTypes, TargetAssumption DEF WorldTypes
    <3> HIDE DEF outcome
    <3>2. /\ res' \in {res, [res EXCEPT ![Target[c]] = outcome.p]}
          /\ faults' = faults \/ (faults < MaxFaults /\ faults' = faults + 1)
      BY <1>2 DEF BeginTrans, outcome
    <3> QED
      BY <1>a, <3>1, <3>2, FaultsAssumption DEF WorldTypes
  <2>3. /\ CoordTypes' /\ UNCHANGED <<ix, len, heur, ans>>
        /\ Len(rcv') \in Nat /\ Len(rcv) <= Len(rcv')
    BY <1>a, <1>2, ListTypes DEF BeginTrans, CoordTypes, coordVars, callVars
  <2> QED
    BY <1>c, <2>1, <2>2, <2>3
<1>3. ASSUME NEW c \in Registrars, Enlist(c) PROVE TypeInv'
  <2>1. Moves(c, {"done"})
    BY <1>a, <1>b, <1>3, ReturnMoves DEF Enlist, Moves, Reply
  <2>2. [r |-> Target[c], rv |-> "NotPrepared"] \in [r : Resources, rv : ResourceVote]
    BY TargetAssumption DEF ResourceVote
  <2>3. /\ rcv' \in Seq([r : Resources, rv : ResourceVote])
        /\ Len(rcv') = Len(rcv) + 1 /\ Len(rcv) \in Nat
    BY <1>a, <1>3, <2>2, ListTypes, AppendProperties DEF Enlist, CoordTypes
  <2>4. CoordTypes'
    BY <1>a, <1>3, <2>3 DEF Enlist, CoordTypes
  <2> QED
    BY <1>a, <1>c, <1>3, <2>1, <2>3, <2>4 DEF Enlist, WorldTypes, callVars
<1>4. ASSUME NEW c \in Markers, RollbackOnly(c) PROVE TypeInv'
  <2>1. Moves(c, {"done"})
    BY <1>a, <1>b, <1>4, ReturnMoves DEF RollbackOnly, Moves, Reply
  <2>2. /\ CoordTypes' /\ WorldTypes' /\ UNCHANGED <<ix, len, heur, ans>>
        /\ Len(rcv') \in Nat /\ Len(rcv) <= Len(rcv')
    BY <1>a, <1>4, ListTypes
       DEF RollbackOnly, CoordTypes, WorldTypes, callVars, TransactionStatus
  <2> QED
    BY <1>c, <2>1, <2>2
<1>5. ASSUME NEW s \in Syncs, RegisterSynchronization(s) PROVE TypeInv'
  <2>1. syncs' \in Seq(Syncs)
    BY <1>a, <1>5, AppendProperties DEF RegisterSynchronization, CoordTypes
  <2> QED
    BY <1>a, <1>d, <1>5, <2>1 DEF RegisterSynchronization, CoordTypes, WorldTypes, callVars
<1>6. ASSUME NEW r \in Resources, StatementFailsAt(r) \/ Disconnect(r) PROVE TypeInv'
  BY <1>a, <1>d, <1>6, XaTypes
     DEF StatementFailsAt, Disconnect, CoordTypes, WorldTypes, coordVars, callVars
<1>7. ASSUME UNCHANGED vars PROVE TypeInv'
  BY <1>a, <1>d, <1>7 DEF vars, CoordTypes, WorldTypes
<1>8. ASSUME NEW c \in Committers, Commit(c) \/ CommitStep(c) PROVE TypeInv'
  BY <1>8, CommitTypes, BeforeCompletionTypes, DispatchTypes, CommitOnePhaseTypes,
     OnePhaseAnsweredTypes, PrepareNextTypes, VotedTypes, DecideTypes,
     CommitNextTypes, CommitAnsweredTypes, CommitEndsTypes, SpinTypes DEF CommitStep
<1>9. ASSUME NEW c \in Terminators, Rollback(c) \/ RollbackStep(c) PROVE TypeInv'
  BY <1>7, <1>9, RollbackTypes, RollbackNextTypes, RollbackAnsweredTypes,
     RollbackEndsTypes, AfterCompletionTypes DEF RollbackStep, ResourceSpins
<1> QED
  BY <1>1, <1>2, <1>3, <1>4, <1>5, <1>6, <1>7, <1>8, <1>9
     DEF Next, RegisterStep, Finished

(* Whatever calls are made on the service, in whatever order, and whatever *)
(* fails, every part of its state keeps its type.                          *)
THEOREM TypeCorrect == Spec => []TypeOK
<1>1. Spec => []TypeInv
  BY TypeInit, TypeStep, PTL DEF Spec
<1>2. TypeInv => TypeOK
  BY DEF TypeInv
<1> QED
  BY <1>1, <1>2, PTL
-----------------------------------------------------------------------------
(***************************************************************************)
(* Atomicity.                                                              *)
(***************************************************************************)
(***************************************************************************)
(* What the operations of a resource do to the outcome of its work.        *)
(***************************************************************************)
LEMMA PrepareEffect ==
  ASSUME NEW p \in ResourceState, Sane(p)
  PROVE  LET q == PgPrepare(p)
         IN  /\ Sane(q.p)
             /\ p.fate # "committed" => q.p.fate # "committed"
             /\ q.answer = "VoteCommit" => Ready(q.p)
BY DEF PgPrepare, XaPrepare, CanPrepare, Aborts, Settle, Outcome, Sane, Ready,
       ResourceState, BlockState, TransState, Fate, ResourceStatus

LEMMA RollbackEffect ==
  ASSUME NEW p \in ResourceState, Sane(p)
  PROVE  LET q == PgRollback(p)
         IN  /\ Sane(q.p)
             /\ p.fate # "committed" => q.p.fate # "committed"
BY DEF PgRollback, XaRollback, Aborts, Settle, Outcome, Sane,
       ResourceState, BlockState, TransState, Fate, ResourceStatus

LEMMA CommitEffect ==
  ASSUME NEW p \in ResourceState, Sane(p), NEW t \in BOOLEAN
  PROVE  LET q == PgCommit(p, t)
         IN  /\ Sane(q.p)
             /\ Ready(p) /\ ~t => Finally(q.p)
             /\ Finally(p) => q.p = p
BY DEF PgCommit, XaCommit, Commits, Aborts, Settle, Outcome, Sane, Ready, Finally,
       ResourceState, BlockState, TransState, Fate, ResourceStatus

LEMMA OnePhaseEffect ==
  ASSUME NEW p \in ResourceState, Sane(p), NEW t \in BOOLEAN
  PROVE  Sane(PgCommitOnePhase(p, t).p)
<1> DEFINE q == PgPrepare(p)
<1>1. q.p \in ResourceState /\ Sane(q.p)
  BY PgTypes, PrepareEffect
<1>2. Sane(PgCommit(q.p, t).p) /\ Sane(PgRollback(q.p).p)
  BY <1>1, CommitEffect, RollbackEffect
<1>3. q.answer \in {"VoteCommit", "VoteRollback", "spins"}
  BY PgTypes
<1> HIDE DEF q
<1>4. PgCommitOnePhase(p, t).p \in {q.p, PgCommit(q.p, t).p, PgRollback(q.p).p}
  <2>1. PgCommitOnePhase(p, t) =
          LET committed == PgCommit(q.p, t)
              undone == PgRollback(q.p)
          IN  CASE q.answer = "VoteCommit"   -> committed
                [] q.answer = "VoteRollback" ->
                      IF undone.answer = "spins" THEN undone
                      ELSE Outcome(undone.p, "TRANSACTION_ROLLEDBACK")
                [] OTHER -> q
    BY DEF PgCommitOnePhase, q
  <2> QED
    BY <1>3, <2>1 DEF Outcome
<1> QED
  BY <1>1, <1>2, <1>4

LEMMA FaultEffect ==
  ASSUME NEW p \in ResourceState, Sane(p)
  PROVE  /\ Sane(StatementFails(p)) /\ Sane(ConnectionLost(p))
         /\ p.fate # "committed" => StatementFails(p).fate # "committed"
BY DEF StatementFails, ConnectionLost, Settle, Sane,
       ResourceState, BlockState, TransState, Fate

LEMMA BeginEffect ==
  ASSUME NEW p \in ResourceState, Sane(p)
  PROVE  /\ p = NewResource => Sane(PgBeginTrans(p).p)
         /\ p = NewResource => PgBeginTrans(p).p.fate # "committed"
BY DEF PgBeginTrans, Begin, NewResource, Outcome, Sane,
       ResourceState, BlockState, TransState, Fate
-----------------------------------------------------------------------------
(***************************************************************************)
(* What a step does to the resources.                                      *)
(***************************************************************************)
LEMMA InvokeEffect ==
  ASSUME TypeInv, NEW c \in Terminators, NEW outcome, Invoke(c, outcome), ix[c] <= len[c]
  PROVE  /\ ix[c] \in 1..Len(rcv) /\ rcv[ix[c]].r \in Resources
         /\ res[rcv[ix[c]].r] \in ResourceState
         /\ \A r \in Resources : r # rcv[ix[c]].r => res'[r] = res[r]
         /\ res'[rcv[ix[c]].r] \in {res[rcv[ix[c]].r], outcome.p}
         /\ ans'[c] \notin NetworkFailure =>
               ans'[c] = outcome.answer /\ res'[rcv[ix[c]].r] = outcome.p
<1>1. /\ ix[c] \in 1..Len(rcv) /\ rcv[ix[c]].r \in Resources
      /\ res[rcv[ix[c]].r] \in ResourceState
  BY ListTypes DEF TypeInv, TypeOK, CallTypes, WorldTypes, LoopsInside, LoopInside
<1>2. res \in [Resources -> ResourceState] /\ ans \in [Terminators -> Answer]
  BY DEF TypeInv, TypeOK, CallTypes, WorldTypes
<1> QED
  BY <1>1, <1>2 DEF Invoke, Entry, NetworkFailure

LEMMA PrepareNextEffect ==
  ASSUME TypeInv, SaneResources, NEW c \in Committers, PrepareNext(c)
  PROVE  /\ SaneResources'
         /\ NothingCommitted => NothingCommitted'
         /\ \A r \in Resources : r # rcv[ix[c]].r => res'[r] = res[r]
         /\ ans'[c] = "VoteCommit" => Ready(res'[rcv[ix[c]].r])
<1> DEFINE r == rcv[ix[c]].r
           outcome == PgPrepare(res[r])
<1>1. c \in Terminators /\ Invoke(c, outcome) /\ ix[c] <= len[c]
  BY DEF PrepareNext, More, Entry, Terminators
<1>2. /\ r \in Resources /\ res[r] \in ResourceState /\ Sane(res[r])
      /\ \A s \in Resources : s # r => res'[s] = res[s]
      /\ res'[r] \in {res[r], outcome.p}
      /\ ans'[c] \notin NetworkFailure => ans'[c] = outcome.answer /\ res'[r] = outcome.p
  BY <1>1, InvokeEffect DEF SaneResources
<1>3. /\ Sane(outcome.p)
      /\ res[r].fate # "committed" => outcome.p.fate # "committed"
      /\ outcome.answer = "VoteCommit" => Ready(outcome.p)
  BY <1>2, PrepareEffect
<1> HIDE DEF outcome, r
<1>4. SaneResources'
  BY <1>2, <1>3 DEF SaneResources
<1>5. NothingCommitted => NothingCommitted'
  BY <1>2, <1>3 DEF NothingCommitted
<1>6. ans'[c] = "VoteCommit" => Ready(res'[r])
  BY <1>2, <1>3 DEF NetworkFailure
<1> QED
  BY <1>2, <1>4, <1>5, <1>6 DEF r

LEMMA RollbackNextEffect ==
  ASSUME TypeInv, SaneResources, NEW c \in Terminators, RollbackNext(c)
  PROVE  /\ SaneResources'
         /\ NothingCommitted => NothingCommitted'
         /\ \A g \in Resources :
               (\A i \in 1..Len(rcv) : rcv[i].r # g) => res'[g] = res[g]
<1>1. CASE UNCHANGED res
  BY <1>1 DEF SaneResources, NothingCommitted
<1>2. CASE ~UNCHANGED res
  <2> DEFINE r == rcv[ix[c]].r
             outcome == PgRollback(res[r])
  <2>1. Invoke(c, outcome) /\ ix[c] <= len[c]
    BY <1>2 DEF RollbackNext, More, Entry
  <2>2. /\ ix[c] \in 1..Len(rcv) /\ r \in Resources /\ res[r] \in ResourceState /\ Sane(res[r])
        /\ \A s \in Resources : s # r => res'[s] = res[s]
        /\ res'[r] \in {res[r], outcome.p}
    BY <2>1, InvokeEffect DEF SaneResources
  <2>3. /\ Sane(outcome.p)
        /\ res[r].fate # "committed" => outcome.p.fate # "committed"
    BY <2>2, RollbackEffect
  <2>4. \A g \in Resources : (\A i \in 1..Len(rcv) : rcv[i].r # g) => res'[g] = res[g]
    BY <2>2
  <2> HIDE DEF outcome, r
  <2> QED
    BY <2>2, <2>3, <2>4 DEF SaneResources, NothingCommitted
<1> QED
  BY <1>1, <1>2

(* Committing takes the prepared resources of the list to committed, and   *)
(* nothing else.                                                           *)
LEMMA CommitNextEffect ==
  ASSUME TypeInv, SaneResources, Deferring = {}, NEW c \in Committers, CommitNext(c)
  PROVE  /\ SaneResources'
         /\ \A r \in Resources :
               Ready(res[r]) \/ Finally(res[r]) => Ready(res'[r]) \/ Finally(res'[r])
         /\ \A g \in Resources :
               (\A i \in 1..Len(rcv) : rcv[i].r # g) => res'[g] = res[g]
<1>1. CASE UNCHANGED res
  BY <1>1 DEF SaneResources
<1>2. CASE ~UNCHANGED res
  <2> DEFINE r == rcv[ix[c]].r
             outcome == PgCommit(res[r], FALSE)
  <2>1. c \in Terminators /\ Invoke(c, outcome) /\ ix[c] <= len[c]
    BY <1>2 DEF CommitNext, More, Entry, Terminators, TriggerFails
  <2>2. /\ ix[c] \in 1..Len(rcv) /\ r \in Resources /\ res[r] \in ResourceState /\ Sane(res[r])
        /\ \A s \in Resources : s # r => res'[s] = res[s]
        /\ res'[r] \in {res[r], outcome.p}
    BY <2>1, InvokeEffect DEF SaneResources
  <2>3. /\ Sane(outcome.p)
        /\ Ready(res[r]) => Finally(outcome.p)
        /\ Finally(res[r]) => outcome.p = res[r]
    BY <2>2, CommitEffect
  <2>4. \A g \in Resources : (\A i \in 1..Len(rcv) : rcv[i].r # g) => res'[g] = res[g]
    BY <2>2
  <2> HIDE DEF outcome, r
  <2> QED
    BY <2>2, <2>3, <2>4 DEF SaneResources
<1> QED
  BY <1>1, <1>2

LEMMA CommitOnePhaseEffect ==
  ASSUME TypeInv, SaneResources, NEW c \in Committers, CommitOnePhase(c)
  PROVE  /\ SaneResources'
         /\ \A r \in Resources : r # rcv[ix[c]].r => res'[r] = res[r]
<1>1. PICK t \in TriggerFails(Entry(c).r) :
        LET o == PgCommitOnePhase(res[Entry(c).r], t)
        IN  Invoke(c, IF o.answer # "HeuristicRollback" THEN o
                      ELSE IF ThrowSpecsEnforced
                      THEN Outcome(ConnectionLost(o.p), "COMM_FAILURE")
                      ELSE Outcome(o.p, "UNKNOWN"))
  BY DEF CommitOnePhase
<1>2. t \in BOOLEAN
  BY <1>1 DEF TriggerFails
<1>3. c \in Terminators /\ ix[c] <= len[c]
  BY DEF CommitOnePhase, Terminators, TypeInv, LoopsInside, LoopInside
<1>4. res[Entry(c).r] \in ResourceState /\ Sane(res[Entry(c).r])
  BY <1>1, <1>3, InvokeEffect DEF Entry, SaneResources
<1>5. PICK outcome : Invoke(c, outcome) /\ Sane(outcome.p)
  BY <1>1, <1>2, <1>4, OnePhaseTypes, OnePhaseEffect, FaultEffect DEF Outcome
<1> QED
  BY <1>3, <1>5, InvokeEffect DEF SaneResources

(* A statement that fails spares what is prepared or committed.            *)
LEMMA StatementFailsEffect ==
  ASSUME TypeInv, SaneResources, NEW r \in Resources, StatementFailsAt(r)
  PROVE  /\ SaneResources'
         /\ NothingCommitted => NothingCommitted'
         /\ \A s \in Resources : Ready(res[s]) \/ Finally(res[s]) => res'[s] = res[s]
         /\ \A s \in Resources : res[s] = NewResource => res'[s] = res[s]
<1>1. /\ res[r] \in ResourceState /\ Sane(res[r]) /\ res[r].block = "INPROGRESS"
      /\ res' = [res EXCEPT ![r] = StatementFails(res[r])]
      /\ res \in [Resources -> ResourceState]
  BY DEF StatementFailsAt, SaneResources, TypeInv, TypeOK, WorldTypes
<1>2. res[r].fate = "open"
  BY <1>1 DEF Sane
<1>3. Sane(StatementFails(res[r])) /\ StatementFails(res[r]).fate # "committed"
  BY <1>1, <1>2, FaultEffect
<1>4. /\ ~Ready(res[r]) /\ ~Finally(res[r]) /\ res[r] # NewResource
  BY <1>1, <1>2 DEF Ready, Finally, NewResource
<1> QED
  BY <1>1, <1>3, <1>4 DEF SaneResources, NothingCommitted
-----------------------------------------------------------------------------
(***************************************************************************)
(* The list holds no resource twice.                                       *)
(***************************************************************************)
LEMMA ListKept ==
  ASSUME ListDistinct, NEW c \in Terminators, NEW L, Moves(c, L), Len(rcv') = Len(rcv),
         \A j \in 1..Len(rcv) : rcv'[j].r = rcv[j].r,
         \A r \in Resources : (\A i \in 1..Len(rcv) : rcv[i].r # r) => res'[r] = res[r]
  PROVE  ListDistinct'
<1>1. \A g \in Registrars : pc'[g] = pc[g] \/ pc'[g] = "done"
  BY CallsAssumption DEF Moves, Calls
<1>2. \A g \in Registrars : Target[g] \in Resources
  BY TargetAssumption
<1>3. \A i, j \in 1..Len(rcv') : rcv'[i].r = rcv'[j].r => i = j
  BY DEF ListDistinct
<1>4. ASSUME NEW g \in Registrars, pc'[g] \in {"idle", "begin", "enlist"}
      PROVE  \A i \in 1..Len(rcv') : rcv'[i].r # Target[g]
  BY <1>1, <1>4 DEF ListDistinct
<1>5. ASSUME NEW g \in Registrars, pc'[g] \in {"idle", "begin"}
      PROVE  res'[Target[g]] = NewResource
  BY <1>1, <1>2, <1>5 DEF ListDistinct
<1> QED
  BY <1>3, <1>4, <1>5 DEF ListDistinct

LEMMA CommitKeepsList ==
  ASSUME TypeInv, SaneResources, ListDistinct, Deferring = {},
         NEW c \in Committers, Commit(c) \/ CommitStep(c)
  PROVE  SaneResources' /\ ListDistinct'
<1>a. c \in Terminators /\ CoordTypes /\ CallTypes /\ LoopInside(c)
  BY DEF Terminators, TypeInv, TypeOK, LoopsInside
<1>b. ASSUME UNCHANGED <<rcv, res>>, NEW L, Moves(c, L)
      PROVE  SaneResources' /\ ListDistinct'
  BY <1>a, <1>b, ListKept DEF SaneResources
<1>c. ASSUME UNCHANGED res, NEW L, Moves(c, L), ix[c] \in 1..Len(rcv),
             NEW v \in ResourceVote, SetVote(ix[c], v) \/ ChangeResourceVote(ix[c], v)
      PROVE  SaneResources' /\ ListDistinct'
  BY <1>a, <1>c, ListKept, ListChanges DEF SaneResources
<1>1. CASE \/ Commit(c) \/ BeforeCompletion(c) \/ Dispatch(c) \/ OnePhaseAnswered(c)
           \/ Decide(c) \/ CommitEnds(c) \/ Spin(c)
  <2>1. UNCHANGED <<rcv, res>>
    BY <1>1 DEF Commit, BeforeCompletion, Dispatch, OnePhaseAnswered, Decide, CommitEnds,
                Spin, coordVars
  <2> QED
    BY <1>1, <1>b, <2>1, CommitMoves, BeforeCompletionMoves, DispatchMoves,
       OnePhaseAnsweredMoves, DecideMoves, CommitEndsMoves, SpinMoves
<1>2. CASE CommitOnePhase(c)
  <2>1. UNCHANGED rcv /\ ix[c] \in 1..Len(rcv)
    BY <1>2, <1>a, ListTypes DEF CommitOnePhase, coordVars, LoopInside
  <2> QED
    BY <1>2, <1>a, <2>1, CommitOnePhaseEffect, CommitOnePhaseMoves, ListKept
<1>3. CASE PrepareNext(c)
  <2>1. UNCHANGED rcv /\ ix[c] \in 1..Len(rcv)
    BY <1>3, <1>a, ListTypes DEF PrepareNext, More, coordVars, LoopInside, CallTypes
  <2> QED
    BY <1>3, <1>a, <2>1, PrepareNextEffect, PrepareNextMoves, ListKept
<1>4. CASE CommitNext(c)
  <2>1. UNCHANGED rcv
    BY <1>4 DEF CommitNext, coordVars
  <2> QED
    BY <1>4, <1>a, <2>1, CommitNextEffect, CommitNextMoves, ListKept
<1>5. CASE Voted(c) \/ CommitAnswered(c)
  <2>1. UNCHANGED res
    BY <1>5 DEF Voted, CommitAnswered
  <2>2. ix[c] \in 1..Len(rcv)
    BY <1>5, <1>a, ListTypes DEF Voted, CommitAnswered, LoopInside, Answered, CallTypes
  <2>3. \/ UNCHANGED rcv
        \/ \E v \in ResourceVote : SetVote(ix[c], v) \/ ChangeResourceVote(ix[c], v)
    BY <1>5 DEF Voted, CommitAnswered, ResourceVote
  <2>4. \E L : Moves(c, L)
    BY <1>5, VotedMoves, CommitAnsweredMoves
  <2> QED
    BY <1>b, <1>c, <2>1, <2>2, <2>3, <2>4
<1> QED
  BY <1>1, <1>2, <1>3, <1>4, <1>5 DEF CommitStep

LEMMA RollbackKeepsList ==
  ASSUME TypeInv, SaneResources, ListDistinct,
         NEW c \in Terminators, Rollback(c) \/ RollbackStep(c)
  PROVE  SaneResources' /\ ListDistinct'
<1>a. CoordTypes /\ CallTypes /\ ControlTypes /\ LoopInside(c) /\ c \in Calls
  BY DEF Calls, TypeInv, TypeOK, LoopsInside
<1>1. CASE Rollback(c) \/ RollbackEnds(c) \/ AfterCompletion(c) \/ ResourceSpins(c)
  <2>1. UNCHANGED <<rcv, res>>
    BY <1>1 DEF Rollback, RollbackEnds, AfterCompletion, ResourceSpins, vars
  <2>2. \E L : Moves(c, L)
    BY <1>1, <1>a, RollbackMoves, RollbackEndsMoves, AfterCompletionMoves, StayMoves
       DEF ResourceSpins, vars
  <2> QED
    BY <1>a, <2>1, <2>2, ListKept DEF SaneResources
<1>2. CASE RollbackNext(c)
  <2>1. UNCHANGED rcv
    BY <1>2 DEF RollbackNext, coordVars
  <2> QED
    BY <1>2, <1>a, <2>1, RollbackNextEffect, RollbackNextMoves, ListKept
<1>3. CASE RollbackAnswered(c)
  <2>1. UNCHANGED res
    BY <1>3 DEF RollbackAnswered
  <2>2. ix[c] \in 1..Len(rcv)
    BY <1>3, <1>a, ListTypes DEF RollbackAnswered, LoopInside, Answered, CallTypes
  <2>3. Len(rcv') = Len(rcv) /\ \A j \in 1..Len(rcv) : rcv'[j].r = rcv[j].r
    BY <1>3, <1>a, <2>2, ListChanges DEF RollbackAnswered, ResourceVote
  <2> QED
    BY <1>3, <2>1, <2>3, RollbackAnsweredMoves, ListKept DEF SaneResources
<1> QED
  BY <1>1, <1>2, <1>3 DEF RollbackStep

LEMMA WorldKeepsList ==
  ASSUME TypeInv, SaneResources, ListDistinct, OneDecision,
         \/ \E c \in Registrars : Register(c) \/ RegisterStep(c)
         \/ \E c \in Markers : RollbackOnly(c)
         \/ \E s \in Syncs : RegisterSynchronization(s)
         \/ \E r \in Resources : StatementFailsAt(r)
         \/ UNCHANGED vars
  PROVE  SaneResources' /\ ListDistinct'
<1>a. /\ CoordTypes /\ CallTypes /\ pc \in [Calls -> Label] /\ Len(rcv) \in Nat
      /\ res \in [Resources -> ResourceState]
      /\ Registrars \subseteq Calls /\ Markers \subseteq Calls
      /\ Registrars \cap Markers = {}
      /\ \A g \in Registrars : Target[g] \in Resources
  BY CallsAssumption, TargetAssumption, ListTypes
     DEF TypeInv, TypeOK, ControlTypes, WorldTypes, Calls
<1>1. ASSUME NEW c \in Registrars, Register(c) PROVE SaneResources' /\ ListDistinct'
  <2>1. UNCHANGED <<rcv, res>>
    BY <1>1 DEF Register, coordVars
  <2>2. \A g \in Registrars : \/ pc'[g] = pc[g] \/ pc'[g] = "done"
                              \/ pc[g] = "idle" /\ pc'[g] = "begin"
    BY <1>a, <1>1 DEF Register, Goto, Return
  <2> QED
    BY <2>1, <2>2 DEF SaneResources, ListDistinct
<1>2. ASSUME NEW c \in Registrars, BeginTrans(c) PROVE SaneResources' /\ ListDistinct'
  <2> DEFINE outcome == PgBeginTrans(res[Target[c]])
  <2>1. UNCHANGED rcv /\ res' \in {res, [res EXCEPT ![Target[c]] = outcome.p]}
    BY <1>2 DEF BeginTrans, coordVars
  <2>2. pc[c] = "begin" /\ pc'[c] \in {"enlist", "done"}
        /\ \A g \in Registrars \ {c} : pc'[g] = pc[g]
    <3>1. pc[c] = "begin" /\ (Goto(c, "enlist") \/ \E v \in Reply : Return(c, v))
      BY <1>2 DEF BeginTrans, Reply
    <3> QED
      BY <1>a, <3>1 DEF Goto, Return
  <2>3. Sane(outcome.p)
    BY <1>a, <2>2, BeginEffect DEF ListDistinct, SaneResources
  <2>4. \A g \in Registrars \ {c} : Target[g] # Target[c]
    BY DEF OneDecision
  <2> HIDE DEF outcome
  <2> QED
    BY <1>a, <2>1, <2>2, <2>3, <2>4 DEF SaneResources, ListDistinct
<1>3. ASSUME NEW c \in Registrars, Enlist(c) PROVE SaneResources' /\ ListDistinct'
  <2>1. /\ UNCHANGED res /\ pc[c] = "enlist" /\ pc'[c] = "done"
        /\ \A g \in Registrars \ {c} : pc'[g] = pc[g]
    BY <1>a, <1>3 DEF Enlist, Return
  <2>2. [r |-> Target[c], rv |-> "NotPrepared"] \in [r : Resources, rv : ResourceVote]
    BY <1>a DEF ResourceVote
  <2>3. /\ Len(rcv') = Len(rcv) + 1 /\ rcv'[Len(rcv) + 1].r = Target[c]
        /\ \A i \in 1..Len(rcv) : rcv'[i] = rcv[i]
    BY <1>a, <1>3, <2>2, AppendProperties DEF Enlist, CoordTypes
  <2>4. \A g \in Registrars \ {c} : Target[g] # Target[c]
    BY DEF OneDecision
  <2>5. \A i \in 1..Len(rcv') : i \in 1..Len(rcv) \/ i = Len(rcv) + 1
    BY <1>a, <2>3
  <2>6. \A i, j \in 1..Len(rcv') : rcv'[i].r = rcv'[j].r => i = j
    BY <2>1, <2>3, <2>5 DEF ListDistinct
  <2>7. \A g \in Registrars : pc'[g] \in {"idle", "begin", "enlist"} =>
           \A i \in 1..Len(rcv') : rcv'[i].r # Target[g]
    BY <2>1, <2>3, <2>4, <2>5 DEF ListDistinct
  <2>8. \A g \in Registrars : pc'[g] \in {"idle", "begin"} => res'[Target[g]] = NewResource
    BY <2>1 DEF ListDistinct
  <2> QED
    BY <2>1, <2>6, <2>7, <2>8 DEF SaneResources, ListDistinct
<1>4. ASSUME NEW c \in Markers, RollbackOnly(c) PROVE SaneResources' /\ ListDistinct'
  <2>1. UNCHANGED <<rcv, res>> /\ \A g \in Registrars : pc'[g] = pc[g]
    BY <1>a, <1>4 DEF RollbackOnly, Return
  <2> QED
    BY <2>1 DEF SaneResources, ListDistinct
<1>5. ASSUME NEW s \in Syncs, RegisterSynchronization(s) PROVE SaneResources' /\ ListDistinct'
  BY <1>5 DEF RegisterSynchronization, SaneResources, ListDistinct
<1>6. ASSUME NEW r \in Resources, StatementFailsAt(r) PROVE SaneResources' /\ ListDistinct'
  <2>1. UNCHANGED <<rcv, pc>>
    BY <1>6 DEF StatementFailsAt, coordVars
  <2> QED
    BY <1>a, <1>6, <2>1, StatementFailsEffect DEF ListDistinct
<1>7. ASSUME UNCHANGED vars PROVE SaneResources' /\ ListDistinct'
  BY <1>7 DEF vars, SaneResources, ListDistinct
<1> QED
  BY <1>1, <1>2, <1>3, <1>4, <1>5, <1>6, <1>7 DEF RegisterStep
-----------------------------------------------------------------------------
(***************************************************************************)
(* The phases of the transaction.                                          *)
(***************************************************************************)
LEMMA Actors ==
  ASSUME OneDecision, NEW d \in Deciders
  PROVE  /\ d \in Terminators /\ d \in Calls /\ d \notin Late
         /\ Late \subseteq Terminators /\ Late \subseteq Calls
         /\ \A c \in Terminators : c = d \/ c \in Late
BY CallsAssumption DEF OneDecision, Deciders, Terminators, Calls

(* The late calls stay where a phase wants them while d moves.             *)
LEMMA LateKept ==
  ASSUME OneDecision, NEW d \in Deciders, NEW L, Moves(d, L)
  PROVE  /\ LateAt({"idle"}) => LateAt({"idle"})'
         /\ \A M : LateAt(M) /\ "done" \in M => LateAt(M)'
BY Actors DEF Moves, LateAt

(* The facts about d and the list that the steps below read.               *)
LEMMA DeciderFacts ==
  ASSUME TypeInv, OneDecision, NEW d \in Deciders
  PROVE  /\ CoordTypes /\ CallTypes /\ ControlTypes /\ LoopInside(d)
         /\ ix[d] \in Nat \ {0} /\ len[d] \in Nat /\ Len(rcv) \in Nat
         /\ pc \in [Calls -> Label] /\ d \in Calls /\ d \in Terminators
         /\ res \in [Resources -> ResourceState]
         /\ \A i \in 1..Len(rcv) : rcv[i].r \in Resources
         /\ rcv \in [1..Len(rcv) -> [r : Resources, rv : ResourceVote]]
BY Actors, ListTypes, LenProperties
   DEF TypeInv, TypeOK, CoordTypes, CallTypes, ControlTypes, WorldTypes, LoopsInside

(* A step that leaves d and the late calls alone, and only adds to the     *)
(* list, keeps the phase.                                                  *)
LEMMA PhaseKept ==
  ASSUME TypeInv, OneDecision, NEW d \in Deciders, Phase(d),
         \A c \in Terminators : pc'[c] = pc[c],
         UNCHANGED <<ix, len, ans>>,
         status' = status \/ (status = "Active" /\ status' = "MarkedRollback"),
         NothingCommitted => NothingCommitted',
         \A i \in 1..Len(rcv) :
            /\ rcv'[i] = rcv[i]
            /\ Ready(res[rcv[i].r]) \/ Finally(res[rcv[i].r]) => res'[rcv[i].r] = res[rcv[i].r]
  PROVE  Phase(d)'
<1>a. /\ LoopInside(d) /\ d \in Terminators
      /\ ix[d] \in Nat \ {0} /\ len[d] \in Nat /\ Len(rcv) \in Nat
  BY DeciderFacts
<1>b. \A M : LateAt(M) => LateAt(M)'
  BY Actors DEF LateAt
<1>c. \A n \in Nat : n <= Len(rcv) /\ AllVoted(n) => AllVoted(n)'
  BY DEF AllVoted
<1>d. \A n \in Nat : n <= Len(rcv) /\ AllIn(n) => AllIn(n)'
  BY DEF AllIn
<1>1. CASE Undecided(d)
  BY <1>1, <1>a, <1>b DEF Undecided, Phase
<1>2. CASE OnePhase(d)
  BY <1>2, <1>a, <1>b DEF OnePhase, Phase
<1>3. CASE Voting(d)
  <2>1. pc[d] \in {"prepare", "voted"} => ix[d] - 1 \in Nat /\ ix[d] - 1 <= Len(rcv)
    BY <1>3, <1>a DEF Voting, LoopInside, Answered
  <2>2. pc[d] = "voted" => ix[d] \in 1..Len(rcv)
    BY <1>a DEF LoopInside, Answered
  <2>3. pc[d] \in {"prepare", "voted"} /\ AllVoted(ix[d] - 1) => AllVoted(ix[d] - 1)'
    BY <1>a, <1>c, <2>1
  <2>4. pc[d] = "voted" /\ Ready(res[rcv[ix[d]].r]) => Ready(res[rcv[ix[d]].r])'
    BY <2>2
  <2> QED
    BY <1>3, <1>a, <1>b, <2>3, <2>4 DEF Voting, Phase
<1>4. CASE Committing(d)
  <2>1. AllIn(len[d])'
    BY <1>4, <1>a, <1>d DEF Committing, LoopInside
  <2> QED
    BY <1>4, <1>a, <1>b, <2>1 DEF Committing, Phase
<1>5. CASE Undoing(d)
  BY <1>5, <1>a, <1>b DEF Undoing, Phase
<1> QED
  BY <1>1, <1>2, <1>3, <1>4, <1>5 DEF Phase

(* The call d starts to decide, and reaches its decision in one phase.     *)
LEMMA DeciderBegins ==
  ASSUME TypeInv, OneDecision, NEW d \in Deciders, Phase(d), d \in Committers,
         \/ Commit(d) \/ BeforeCompletion(d) \/ Dispatch(d)
         \/ CommitOnePhase(d) \/ OnePhaseAnswered(d)
  PROVE  Phase(d)'
<1>a. /\ pc \in [Calls -> Label] /\ d \in Calls /\ LoopInside(d)
      /\ len \in [Terminators -> Nat] /\ ix \in [Terminators -> Nat \ {0}] /\ d \in Terminators
  BY DeciderFacts DEF CallTypes
<1>1. CASE Commit(d)
  <2>1. Undecided(d)
    BY <1>1 DEF Commit, Phase, Undecided, OnePhase, Voting, Committing, Undoing
  <2>2. /\ pc'[d] = "before" \/ (pc'[d] = "rollback" /\ status = "MarkedRollback")
        /\ UNCHANGED <<status, res>>
    BY <1>1, <1>a, <2>1 DEF Undecided, Commit, Loop, Goto, coordVars
  <2>3. LateAt({"idle"})'
    BY <1>1, <2>1, CommitMoves, LateKept DEF Undecided
  <2> QED
    BY <2>1, <2>2, <2>3 DEF Phase, Undecided, Voting, LateAt, NothingCommitted
<1>2. CASE BeforeCompletion(d)
  <2>1. Undecided(d)
    BY <1>2 DEF BeforeCompletion, Phase, Undecided, OnePhase, Voting, Committing, Undoing
  <2>2. pc'[d] \in {"before", "dispatch"} /\ UNCHANGED <<status, res>>
    BY <1>2, <1>a DEF BeforeCompletion, Goto
  <2>3. LateAt({"idle"})'
    BY <1>2, <2>1, BeforeCompletionMoves, LateKept DEF Undecided
  <2> QED
    BY <2>1, <2>2, <2>3 DEF Phase, Undecided, NothingCommitted
<1>3. CASE Dispatch(d)
  <2>1. Undecided(d)
    BY <1>3 DEF Dispatch, Phase, Undecided, OnePhase, Voting, Committing, Undoing
  <2>2. LateAt({"idle"})' /\ LateAt({"idle", "done"})'
        /\ LateAt({"idle", "recommit", "recommitted", "done"})'
    BY <1>3, <2>1, DispatchMoves, LateKept DEF Undecided, LateAt
  <2>3. NothingCommitted' /\ len' = len /\ ix'[d] = 1
    BY <1>3, <1>a, <2>1 DEF Dispatch, Undecided, NothingCommitted
  <2>4. CASE len[d] = 0
    <3>1. pc'[d] = "done" /\ status' = "NoTransaction"
      BY <1>3, <1>a, <2>4 DEF Dispatch, Return
    <3>2. AllIn(len[d])'
      BY <2>3, <2>4 DEF AllIn
    <3> QED
      BY <2>2, <3>1, <3>2 DEF Phase, Committing
  <2>5. CASE len[d] = 1
    <3>1. pc'[d] = "onephase" /\ status' = status
      BY <1>3, <1>a, <2>5 DEF Dispatch, Goto
    <3> QED
      BY <2>1, <2>2, <2>3, <3>1 DEF Phase, Undecided
  <2>6. CASE len[d] \notin {0, 1}
    <3>1. pc'[d] = "prepare" /\ status' = "Preparing"
      BY <1>3, <1>a, <2>6 DEF Dispatch, Goto
    <3>2. AllVoted(ix[d] - 1)'
      BY <2>3 DEF AllVoted
    <3>3. ix'[d] <= len'[d] + 1
      BY <1>a, <2>3
    <3> QED
      BY <2>2, <2>3, <3>1, <3>2, <3>3 DEF Phase, Voting
  <2> QED
    BY <2>4, <2>5, <2>6
<1>4. CASE CommitOnePhase(d)
  <2>1. Undecided(d) /\ len[d] = 1
    BY <1>4, <1>a
       DEF CommitOnePhase, Phase, Undecided, OnePhase, Voting, Committing, Undoing, LoopInside
  <2>2. pc'[d] = "onephased" /\ UNCHANGED <<status, len>>
    BY <1>4, <1>a DEF CommitOnePhase, Goto, coordVars, callVars
  <2>3. LateAt({"idle"})'
    BY <1>4, <2>1, CommitOnePhaseMoves, LateKept DEF Undecided
  <2> QED
    BY <2>1, <2>2, <2>3 DEF Phase, Undecided, OnePhase
<1>5. CASE OnePhaseAnswered(d)
  <2>1. OnePhase(d)
    BY <1>5 DEF OnePhaseAnswered, Phase, Undecided, OnePhase, Voting, Committing, Undoing
  <2>2. pc'[d] = "done" /\ UNCHANGED <<status, len>>
    BY <1>5, OnePhaseAnsweredMoves DEF OnePhaseAnswered, coordVars, callVars, Moves
  <2>3. LateAt({"idle"})'
    BY <1>5, <2>1, OnePhaseAnsweredMoves, LateKept DEF OnePhase
  <2> QED
    BY <2>1, <2>2, <2>3 DEF Phase, OnePhase
<1> QED
  BY <1>1, <1>2, <1>3, <1>4, <1>5

(* The call d collects the votes and decides.                              *)
LEMMA DeciderVotes ==
  ASSUME TypeInv, SaneResources, ListDistinct, OneDecision,
         NEW d \in Deciders, Phase(d), d \in Committers,
         PrepareNext(d) \/ Voted(d) \/ Decide(d)
  PROVE  Phase(d)'
<1>a. /\ CoordTypes /\ pc \in [Calls -> Label] /\ d \in Calls /\ LoopInside(d)
      /\ len \in [Terminators -> Nat] /\ ix \in [Terminators -> Nat \ {0}]
      /\ d \in Terminators /\ Len(rcv) \in Nat /\ ix[d] \in Nat \ {0} /\ len[d] \in Nat
      /\ \A i \in 1..Len(rcv) : rcv[i].r \in Resources
      /\ rcv \in [1..Len(rcv) -> [r : Resources, rv : ResourceVote]]
  BY DeciderFacts DEF CallTypes
<1>b. Voting(d)
  BY DEF PrepareNext, Voted, Decide, Phase, Undecided, OnePhase, Voting, Committing, Undoing
<1>c. LateAt({"idle", "done"})'
  BY <1>b, PrepareNextMoves, VotedMoves, DecideMoves, LateKept DEF Voting
<1>1. CASE PrepareNext(d)
  <2>1. /\ ix[d] <= len[d] /\ ix[d] \in 1..Len(rcv)
        /\ UNCHANGED <<status, rcv, ix>> /\ pc'[d] = "voted" /\ pc[d] = "prepare"
        /\ status = "Preparing" /\ AllVoted(ix[d] - 1)
    BY <1>1, <1>a, <1>b DEF PrepareNext, More, Goto, coordVars, callVars, Voting, LoopInside
  <2>2. ASSUME NEW i \in 1..(ix[d] - 1) PROVE res'[rcv[i].r] = res[rcv[i].r]
    <3>1. i \in 1..Len(rcv) /\ i # ix[d]
      BY <1>a, <2>1
    <3>2. rcv[i].r # rcv[ix[d]].r /\ rcv[i].r \in Resources
      BY <1>a, <2>1, <3>1 DEF ListDistinct
    <3> QED
      BY <1>1, <3>2, PrepareNextEffect
  <2>3. AllVoted(ix[d] - 1)'
    BY <2>1, <2>2 DEF AllVoted
  <2>4. NothingCommitted' /\ (ans'[d] = "VoteCommit" => Ready(res[rcv[ix[d]].r])')
    BY <1>1, <1>b, <2>1, PrepareNextEffect DEF Voting
  <2> QED
    BY <1>c, <2>1, <2>3, <2>4 DEF Phase, Voting
<1>2. CASE Voted(d)
  <2>1. /\ pc[d] = "voted" /\ status = "Preparing" /\ AllVoted(ix[d] - 1)
        /\ ans[d] = "VoteCommit" => Ready(res[rcv[ix[d]].r])
        /\ UNCHANGED <<res, len>>
        /\ ix[d] \in 1..Len(rcv) /\ ix[d] <= len[d]
    BY <1>2, <1>a, <1>b DEF Voted, Voting, LoopInside, Answered
  <2>2. NothingCommitted'
    BY <1>b, <2>1 DEF Voting, NothingCommitted
  <2>3. CASE ans[d] = "VoteCommit"
    <3>1. /\ SetVote(ix[d], "VoteCommit") /\ ix'[d] = ix[d] + 1
          /\ pc'[d] = "prepare" /\ status' = status
      BY <1>2, <1>a, <2>3 DEF Voted, Advance, Goto
    <3>2. /\ \A j \in 1..Len(rcv) : rcv'[j].r = rcv[j].r
          /\ \A j \in 1..Len(rcv) : j # ix[d] => rcv'[j] = rcv[j]
          /\ rcv'[ix[d]].rv = "VoteCommit"
      BY <1>a, <2>1, <3>1 DEF SetVote
    <3>3. \A i \in 1..ix[d] : i \in 1..Len(rcv) /\ (i # ix[d] => i \in 1..(ix[d] - 1))
      BY <1>a, <2>1
    <3>4. \A i \in 1..ix[d] : rcv'[i].rv = "VoteCommit" /\ Ready(res'[rcv'[i].r])
      BY <2>1, <2>3, <3>2, <3>3 DEF AllVoted
    <3>5. ix'[d] - 1 = ix[d] /\ ix'[d] <= len'[d] + 1
      <4>1. ix[d] \in Nat /\ len[d] \in Nat /\ len'[d] = len[d] /\ ix[d] <= len[d]
        BY <1>a, <2>1
      <4> QED
        BY <3>1, <4>1
    <3>6. AllVoted(ix[d] - 1)'
      BY <3>4, <3>5 DEF AllVoted
    <3> QED
      BY <1>c, <2>1, <2>2, <3>1, <3>5, <3>6 DEF Phase, Voting
  <2>4. CASE ans[d] \in {"VoteRollback", "COMM_FAILURE"}
    <3>1. pc'[d] = "prepare" /\ status' = "MarkedRollback" /\ ix'[d] = ix[d] + 1
      BY <1>2, <1>a, <2>4 DEF Voted, Advance, Goto
    <3>2. ix'[d] <= len'[d] + 1
      BY <1>a, <2>1, <3>1
    <3> QED
      BY <1>c, <2>2, <3>1, <3>2 DEF Phase, Voting
  <2>5. CASE ans[d] \notin {"VoteCommit", "VoteRollback", "COMM_FAILURE"}
    <3>1. status' = status /\ pc'[d] = "done"
      <4>1. Throw(d, ans[d]) /\ status' = status
        BY <1>2, <2>5 DEF Voted
      <4>2. pc'[d] \in {"prepare", "done"}
        BY <1>2, VotedMoves DEF Moves
      <4> QED
        BY <1>a, <2>1, <4>1 DEF Throw, Terminate, Return
    <3> QED
      BY <1>c, <2>1, <2>2, <3>1 DEF Phase, Voting
  <2> QED
    BY <2>3, <2>4, <2>5
<1>3. CASE Decide(d)
  <2>1. UNCHANGED <<rcv, res, len>> /\ pc[d] = "prepare"
    BY <1>3 DEF Decide
  <2>2. CASE status = "MarkedRollback"
    <3>1. pc'[d] = "rollback" /\ status' = status
      BY <1>3, <1>a, <2>2 DEF Decide, Goto
    <3>2. NothingCommitted'
      BY <1>b, <2>1 DEF Voting, NothingCommitted
    <3> QED
      BY <1>c, <2>2, <3>1, <3>2 DEF Phase, Voting
  <2>3. CASE status # "MarkedRollback"
    <3>1. /\ pc'[d] = "commit" /\ status' = "Committing" /\ ~(ix[d] <= len[d])
          /\ status = "Preparing" /\ ix[d] <= len[d] + 1 /\ AllVoted(ix[d] - 1)
      BY <1>3, <1>a, <1>b, <2>1, <2>3 DEF Decide, Goto, More, Voting
    <3>2. ix[d] - 1 = len[d]
      BY <1>a, <3>1
    <3>3. AllIn(len[d])'
      BY <2>1, <3>1, <3>2 DEF AllIn, AllVoted
    <3>4. LateAt({"idle", "recommit", "recommitted", "done"})'
      BY <1>c DEF LateAt
    <3> QED
      BY <3>1, <3>3, <3>4 DEF Phase, Committing
  <2> QED
    BY <2>2, <2>3
<1> QED
  BY <1>1, <1>2, <1>3

(* Whoever carries out the commit, the resources that are in stay in.      *)
LEMMA AllInKept ==
  ASSUME TypeInv, SaneResources, Deferring = {}, NEW n \in Nat, n <= Len(rcv), AllIn(n),
         NEW c \in Committers, CommitNext(c) \/ CommitAnswered(c)
  PROVE  AllIn(n)'
<1>a. /\ CoordTypes /\ CallTypes /\ LoopInside(c) /\ Len(rcv) \in Nat
      /\ \A i \in 1..Len(rcv) : rcv[i].r \in Resources
      /\ rcv \in [1..Len(rcv) -> [r : Resources, rv : ResourceVote]]
      /\ c \in Terminators /\ ix[c] \in Nat \ {0} /\ len[c] \in Nat
  BY ListTypes, LenProperties
     DEF TypeInv, TypeOK, CoordTypes, CallTypes, LoopsInside, Terminators
<1>1. CASE CommitNext(c)
  <2>1. UNCHANGED rcv
    BY <1>1 DEF CommitNext, coordVars
  <2>2. \A r \in Resources :
          Ready(res[r]) \/ Finally(res[r]) => Ready(res'[r]) \/ Finally(res'[r])
    BY <1>1, CommitNextEffect
  <2>3. \A i \in 1..n : rcv[i].r \in Resources
    BY <1>a
  <2> QED
    BY <2>1, <2>2, <2>3 DEF AllIn
<1>2. CASE CommitAnswered(c)
  <2>1. UNCHANGED res /\ ix[c] \in 1..Len(rcv)
    BY <1>2, <1>a DEF CommitAnswered, LoopInside, Answered
  <2>2. UNCHANGED rcv \/ ChangeResourceVote(ix[c], "Committed")
    BY <1>2 DEF CommitAnswered
  <2>3. CASE UNCHANGED rcv
    BY <2>1, <2>3 DEF AllIn
  <2>4. CASE ChangeResourceVote(ix[c], "Committed")
    <3>1. \A j \in 1..Len(rcv) : rcv'[j].r = rcv[j].r /\ rcv'[j].rv \in {rcv[j].rv, "Committed"}
      BY <1>a, <2>1, <2>4 DEF ChangeResourceVote
    <3> QED
      BY <1>a, <2>1, <3>1 DEF AllIn
  <2> QED
    BY <2>2, <2>3, <2>4
<1> QED
  BY <1>1, <1>2

(* The call d carries out the commit.                                      *)
LEMMA DeciderCommits ==
  ASSUME TypeInv, SaneResources, OneDecision, NEW d \in Deciders, Phase(d), d \in Committers,
         CommitNext(d) \/ CommitAnswered(d) \/ CommitEnds(d) \/ Spin(d)
  PROVE  Phase(d)'
<1>a. /\ pc \in [Calls -> Label] /\ d \in Calls /\ LoopInside(d)
      /\ Len(rcv) \in Nat /\ len[d] \in Nat /\ d \in Terminators
  BY DeciderFacts
<1>b. Committing(d) /\ pc[d] \in {"commit", "committed"}
  BY DEF CommitNext, CommitAnswered, CommitEnds, Spin, Phase, Undecided, OnePhase, Voting,
         Committing, Undoing
<1>c. LateAt({"idle", "recommit", "recommitted", "done"})'
  BY <1>b, CommitNextMoves, CommitAnsweredMoves, CommitEndsMoves, SpinMoves, LateKept
     DEF Committing
<1>d. len[d] <= Len(rcv) /\ AllIn(len[d]) /\ Deferring = {}
  BY <1>a, <1>b DEF LoopInside, Committing, OneDecision
<1>1. CASE CommitNext(d) \/ CommitAnswered(d)
  <2>1. UNCHANGED <<status, len>>
    BY <1>1 DEF CommitNext, CommitAnswered, coordVars
  <2>2. AllIn(len[d])'
    BY <1>1, <1>a, <1>d, <2>1, AllInKept
  <2>3. pc'[d] \in {"commit", "committed", "done"}
    <3>1. CASE CommitNext(d)
      BY <1>a, <1>b, <3>1 DEF CommitNext, Goto
    <3>2. CASE CommitAnswered(d)
      <4>1. pc[d] = "committed"
        BY <1>b, <3>2 DEF CommitAnswered
      <4>2. Goto(d, "commit") \/ Throw(d, ans[d])
        BY <3>2, <4>1 DEF CommitAnswered
      <4> QED
        BY <1>a, <4>1, <4>2 DEF Goto, Throw, Terminate, Return
    <3> QED
      BY <1>1, <3>1, <3>2
  <2> QED
    BY <1>b, <1>c, <2>1, <2>2, <2>3 DEF Phase, Committing
<1>2. CASE CommitEnds(d)
  <2>1. /\ pc'[d] = "after" /\ status' = "NoTransaction" /\ UNCHANGED <<rcv, res, len>>
    BY <1>2, <1>a, <1>b DEF CommitEnds, Goto
  <2>2. AllIn(len[d])'
    BY <1>d, <2>1 DEF AllIn
  <2> QED
    BY <1>c, <2>1, <2>2 DEF Phase, Committing
<1>3. CASE Spin(d)
  BY <1>3, <1>b DEF Spin
<1> QED
  BY <1>1, <1>2, <1>3

(* The call d rolls back, or tells the synchronizations the outcome.       *)
LEMMA DeciderRollsBack ==
  ASSUME TypeInv, SaneResources, OneDecision, NEW d \in Deciders, Phase(d),
         Rollback(d) \/ RollbackStep(d)
  PROVE  Phase(d)'
<1>a. /\ pc \in [Calls -> Label] /\ d \in Calls /\ LoopInside(d)
      /\ Len(rcv) \in Nat /\ len[d] \in Nat /\ d \in Terminators
  BY DeciderFacts
<1>1. CASE Rollback(d)
  <2>1. /\ status \in {"Active", "MarkedRollback"} /\ NothingCommitted
        /\ LateAt({"idle", "redo", "redone", "undoAfter", "spin", "done"})
    BY <1>1 DEF Rollback, Phase, Undecided, OnePhase, Voting, Committing, Undoing, LateAt
  <2>2. LateAt({"idle", "redo", "redone", "undoAfter", "spin", "done"})'
    BY <1>1, <1>a, <2>1, RollbackMoves, LateKept
  <2>3. pc'[d] = "undo" /\ status' = "RollingBack" /\ UNCHANGED res
    BY <1>1, <1>a, <2>1 DEF Rollback, Loop, Goto
  <2> QED
    BY <2>1, <2>2, <2>3 DEF Phase, Undoing, NothingCommitted
<1>2. CASE RollbackNext(d) \/ RollbackAnswered(d) \/ RollbackEnds(d)
  <2>1. Undoing(d) /\ pc[d] \in {"undo", "undone"}
    BY <1>2 DEF RollbackNext, RollbackAnswered, RollbackEnds, Phase, Undecided, OnePhase,
                Voting, Committing, Undoing
  <2>2. LateAt({"idle", "redo", "redone", "undoAfter", "spin", "done"})'
    BY <1>2, <1>a, <2>1, RollbackNextMoves, RollbackAnsweredMoves, RollbackEndsMoves, LateKept
       DEF Undoing
  <2>3. NothingCommitted' /\ status' \in {status, "NoTransaction"}
    <3>1. CASE RollbackNext(d)
      BY <1>a, <2>1, <3>1, RollbackNextEffect DEF RollbackNext, coordVars, Undoing
    <3>2. CASE RollbackAnswered(d) \/ RollbackEnds(d)
      BY <2>1, <3>2 DEF RollbackAnswered, RollbackEnds, Undoing, NothingCommitted
    <3> QED
      BY <1>2, <3>1, <3>2
  <2>4. pc'[d] \in {"undo", "undone", "undoAfter", "done"}
    <3>1. CASE RollbackNext(d)
      BY <1>a, <2>1, <3>1 DEF RollbackNext, Goto
    <3>2. CASE RollbackAnswered(d)
      <4>1. pc[d] = "undone"
        BY <2>1, <3>2 DEF RollbackAnswered
      <4>2. Goto(d, "undo") \/ Throw(d, ans[d])
        BY <3>2, <4>1 DEF RollbackAnswered
      <4> QED
        BY <1>a, <4>1, <4>2 DEF Goto, Throw, Terminate, Return
    <3>3. CASE RollbackEnds(d)
      BY <1>a, <3>3, RollbackEndsMoves DEF Moves
    <3> QED
      BY <1>2, <3>1, <3>2, <3>3
  <2> QED
    BY <2>1, <2>2, <2>3, <2>4 DEF Phase, Undoing
<1>3. CASE AfterCompletion(d)
  <2>1. UNCHANGED <<status, rcv, res, len>>
    BY <1>3 DEF AfterCompletion
  <2>2. pc'[d] \in {pc[d], "done"}
    BY <1>3, <1>a, AfterCompletionMoves
       DEF AfterCompletion, Throw, Terminate, Return, RollbackReturns
  <2>3. CASE pc[d] = "after"
    <3>1. Committing(d)
      BY <2>3 DEF Phase, Undecided, OnePhase, Voting, Committing, Undoing
    <3>2. LateAt({"idle", "recommit", "recommitted", "done"})'
      BY <1>3, <1>a, <3>1, AfterCompletionMoves, LateKept DEF Committing
    <3> QED
      BY <2>1, <2>2, <3>1, <3>2 DEF Phase, Committing, AllIn
  <2>4. CASE pc[d] = "undoAfter"
    <3>1. Undoing(d)
      BY <2>4 DEF Phase, Undecided, OnePhase, Voting, Committing, Undoing
    <3>2. LateAt({"idle", "redo", "redone", "undoAfter", "spin", "done"})'
      BY <1>3, <1>a, <3>1, AfterCompletionMoves, LateKept DEF Undoing
    <3> QED
      BY <2>1, <2>2, <3>1, <3>2 DEF Phase, Undoing, NothingCommitted
  <2> QED
    BY <1>3, <2>3, <2>4 DEF AfterCompletion
<1>4. CASE ResourceSpins(d)
  <2>1. UNCHANGED vars
    BY <1>4 DEF ResourceSpins
  <2> QED
    BY <2>1, PhaseKept DEF vars, NothingCommitted
<1> QED
  BY <1>1, <1>2, <1>3, <1>4 DEF RollbackStep

(* A late call c repeats what d has decided, or finds nothing to do.       *)
LEMMA LateSteps ==
  ASSUME TypeInv, SaneResources, OneDecision, NEW d \in Deciders, Phase(d), NEW c \in Late,
         \/ c \in Committers /\ (Commit(c) \/ CommitStep(c))
         \/ Rollback(c) \/ RollbackStep(c)
  PROVE  Phase(d)'
<1>a. /\ pc \in [Calls -> Label] /\ d \in Calls /\ c \in Calls /\ c \in Terminators
      /\ c # d /\ d \in Terminators /\ Late \subseteq Calls
      /\ ix \in [Terminators -> Nat \ {0}] /\ len \in [Terminators -> Nat]
      /\ Len(rcv) \in Nat /\ len[d] \in Nat /\ LoopInside(d)
  BY DeciderFacts, Actors DEF CallTypes
<1>b. pc[c] = "idle" => MayCall(c) \/ ~(Commit(c) \/ Rollback(c))
  BY DEF Commit, Rollback
(* While c moves, d stays where it is unless the service ends.             *)
<1>c. ASSUME NEW L, Moves(c, L), NEW M, LateAt(M), L \subseteq M, "done" \in M
      PROVE  LateAt(M)' /\ pc'[d] \in {pc[d], "done"}
  BY <1>a, <1>c DEF Moves, LateAt
<1>1. CASE Undecided(d) \/ OnePhase(d)
  <2>1. pc[c] = "idle" /\ ~MayCall(c)
    BY <1>1 DEF Undecided, OnePhase, LateAt, MayCall
  <2> QED
    BY <1>b, <2>1
       DEF CommitStep, RollbackStep, BeforeCompletion, Dispatch, CommitOnePhase,
           OnePhaseAnswered, PrepareNext, Voted, Decide, CommitNext, CommitAnswered,
           CommitEnds, Spin, RollbackNext, RollbackAnswered, RollbackEnds,
           AfterCompletion, ResourceSpins
<1>2. CASE Voting(d)
  <2>1. pc[c] \in {"idle", "done"} /\ (pc[c] = "idle" /\ MayCall(c) => status = "Preparing")
    BY <1>2 DEF Voting, LateAt, MayCall
  <2>2. Commit(c) \/ Rollback(c)
    BY <2>1
       DEF CommitStep, RollbackStep, BeforeCompletion, Dispatch, CommitOnePhase,
           OnePhaseAnswered, PrepareNext, Voted, Decide, CommitNext, CommitAnswered,
           CommitEnds, Spin, RollbackNext, RollbackAnswered, RollbackEnds,
           AfterCompletion, ResourceSpins
  <2>3. pc[c] = "idle" /\ status = "Preparing"
    BY <1>b, <2>1, <2>2 DEF Commit, Rollback
  <2>4. /\ pc' = [pc EXCEPT ![c] = "done"]
        /\ UNCHANGED <<status, rcv, res, ix, len, ans>>
    BY <2>2, <2>3 DEF Commit, Rollback, Return, RollbackReturns, coordVars
  <2>5. pc'[d] = pc[d] /\ LateAt({"idle", "done"})'
    BY <1>2, <1>a, <2>4 DEF Voting, LateAt
  <2> QED
    BY <1>2, <2>4, <2>5 DEF Phase, Voting, AllVoted, NothingCommitted
<1>3. CASE Committing(d)
  <2> DEFINE M == {"idle", "recommit", "recommitted", "done"}
  <2>1. pc[c] \in M /\ status \in {"Committing", "NoTransaction"} /\ LateAt(M)
    BY <1>3 DEF Committing, LateAt
  <2>2. len[d] <= Len(rcv) /\ AllIn(len[d]) /\ Deferring = {}
    BY <1>3, <1>a DEF LoopInside, Committing, OneDecision
  <2>3. \/ Commit(c) \/ Rollback(c)
        \/ c \in Committers /\ (CommitNext(c) \/ CommitAnswered(c) \/ CommitEnds(c))
        \/ ResourceSpins(c)
    BY <2>1
       DEF CommitStep, RollbackStep, BeforeCompletion, Dispatch, CommitOnePhase,
           OnePhaseAnswered, PrepareNext, Voted, Decide, Spin, RollbackNext,
           RollbackAnswered, RollbackEnds, AfterCompletion
  <2>4. CASE Commit(c) \/ Rollback(c)
    <3>1. pc'[c] \in {"recommit", "done"} /\ UNCHANGED <<status, rcv, res>>
      BY <1>a, <2>1, <2>4 DEF Commit, Rollback, Loop, Goto, Return, RollbackReturns, coordVars
    <3>2. len'[d] = len[d] /\ \A e \in Calls \ {c} : pc'[e] = pc[e]
      BY <1>a, <2>1, <2>4 DEF Commit, Rollback, Loop, Goto, Return, RollbackReturns
    <3>3. LateAt(M)' /\ pc'[d] = pc[d]
      BY <1>a, <2>1, <3>1, <3>2 DEF LateAt
    <3> QED
      BY <1>3, <3>1, <3>2, <3>3 DEF Phase, Committing, AllIn
  <2>5. CASE c \in Committers /\ (CommitNext(c) \/ CommitAnswered(c))
    <3>1. UNCHANGED <<status, len>>
      BY <2>5 DEF CommitNext, CommitAnswered, coordVars
    <3>2. AllIn(len[d])'
      BY <1>a, <2>2, <2>5, <3>1, AllInKept
    <3>3. pc'[c] \in M /\ \E L : Moves(c, L)
      <4>1. CASE CommitNext(c)
        BY <1>a, <2>1, <2>5, <4>1, CommitNextMoves DEF CommitNext, Goto
      <4>2. CASE CommitAnswered(c)
        <5>1. pc[c] = "recommitted"
          BY <2>1, <4>2 DEF CommitAnswered
        <5>2. Goto(c, "recommit") \/ Throw(c, ans[c])
          BY <4>2, <5>1 DEF CommitAnswered
        <5> QED
          BY <1>a, <2>5, <4>2, <5>1, <5>2, CommitAnsweredMoves DEF Goto, Throw, Terminate, Return
      <4> QED
        BY <2>5, <4>1, <4>2
    <3>4. Moves(c, M)
      BY <3>3 DEF Moves
    <3>5. LateAt(M)' /\ pc'[d] \in {pc[d], "done"}
      BY <1>c, <2>1, <3>4
    <3> QED
      BY <1>3, <3>1, <3>2, <3>5 DEF Phase, Committing
  <2>6. CASE c \in Committers /\ CommitEnds(c)
    <3>1. /\ status' = "NoTransaction" /\ UNCHANGED <<rcv, res, len>>
          /\ pc' = [pc EXCEPT ![c] = "done"]
      BY <1>a, <2>1, <2>6 DEF CommitEnds, Return
    <3>2. LateAt(M)' /\ pc'[d] = pc[d]
      BY <1>a, <2>1, <3>1 DEF LateAt
    <3> QED
      BY <1>3, <3>1, <3>2 DEF Phase, Committing, AllIn
  <2>7. CASE ResourceSpins(c)
    BY <2>7, PhaseKept DEF ResourceSpins, vars, NothingCommitted
  <2> QED
    BY <2>3, <2>4, <2>5, <2>6, <2>7
<1>4. CASE Undoing(d)
  <2> DEFINE M == {"idle", "redo", "redone", "undoAfter", "spin", "done"}
  <2>1. pc[c] \in M /\ status \in {"RollingBack", "NoTransaction"} /\ LateAt(M)
    BY <1>4 DEF Undoing, LateAt
  <2>2. \/ c \in Committers /\ (Commit(c) \/ Spin(c))
        \/ Rollback(c) \/ RollbackStep(c)
    BY <2>1
       DEF CommitStep, BeforeCompletion, Dispatch, CommitOnePhase,
           OnePhaseAnswered, PrepareNext, Voted, Decide, CommitNext, CommitAnswered,
           CommitEnds
  <2>3. NothingCommitted' /\ status' \in {status, "NoTransaction"}
    <3>1. CASE RollbackNext(c)
      BY <1>4, <1>a, <3>1, RollbackNextEffect DEF RollbackNext, coordVars, Undoing
    <3>2. CASE \/ RollbackAnswered(c) \/ RollbackEnds(c) \/ AfterCompletion(c)
               \/ ResourceSpins(c) \/ Spin(c)
      BY <1>4, <3>2 DEF RollbackAnswered, RollbackEnds, AfterCompletion, ResourceSpins, Spin,
                        vars, coordVars, Undoing, NothingCommitted
    <3>3. CASE Commit(c) \/ Rollback(c)
      BY <1>4, <2>1, <3>3 DEF Commit, Rollback, coordVars, Undoing, NothingCommitted
    <3> QED
      BY <2>2, <3>1, <3>2, <3>3 DEF RollbackStep
  <2>4. \E L : Moves(c, L)
    <3>1. CASE ResourceSpins(c)
      BY <1>a, <3>1, DeciderFacts, StayMoves DEF ResourceSpins, vars
    <3> QED
      BY <1>a, <2>2, <3>1, CommitMoves, SpinMoves, RollbackMoves, RollbackNextMoves,
         RollbackAnsweredMoves, RollbackEndsMoves, AfterCompletionMoves DEF RollbackStep
  <2>5. pc'[c] \in M
    <3>1. CASE Commit(c) \/ Rollback(c)
      BY <1>a, <2>1, <3>1 DEF Commit, Rollback, Loop, Goto, Return, RollbackReturns
    <3>2. CASE RollbackNext(c)
      BY <1>a, <2>1, <3>2 DEF RollbackNext, Goto
    <3>3. CASE RollbackAnswered(c)
      <4>1. pc[c] = "redone"
        BY <2>1, <3>3 DEF RollbackAnswered
      <4>2. Goto(c, "redo") \/ Throw(c, ans[c])
        BY <3>3, <4>1 DEF RollbackAnswered
      <4> QED
        BY <1>a, <4>1, <4>2 DEF Goto, Throw, Terminate, Return
    <3>4. CASE RollbackEnds(c)
      BY <1>a, <3>4, RollbackEndsMoves DEF Moves
    <3>5. CASE AfterCompletion(c)
      <4>1. pc[c] = "undoAfter"
        BY <2>1, <3>5 DEF AfterCompletion
      <4> QED
        BY <1>a, <3>5, <4>1 DEF AfterCompletion, RollbackReturns, Return
    <3>6. CASE Spin(c) \/ ResourceSpins(c)
      BY <1>a, <2>1, <3>6 DEF Spin, Return, ResourceSpins, vars
    <3> QED
      BY <2>2, <3>1, <3>2, <3>3, <3>4, <3>5, <3>6 DEF RollbackStep
  <2>6. Moves(c, M)
    BY <2>4, <2>5 DEF Moves
  <2> QED
    BY <1>4, <1>c, <2>1, <2>3, <2>6 DEF Phase, Undoing
<1> QED
  BY <1>1, <1>2, <1>3, <1>4 DEF Phase

(* What goes on around the decision does not change its phase.             *)
LEMMA WorldKeepsPhase ==
  ASSUME TypeInv, SaneResources, ListDistinct, OneDecision, NEW d \in Deciders, Phase(d),
         \/ \E c \in Registrars : Register(c) \/ RegisterStep(c)
         \/ \E c \in Markers : RollbackOnly(c)
         \/ \E s \in Syncs : RegisterSynchronization(s)
         \/ \E r \in Resources : StatementFailsAt(r)
         \/ UNCHANGED vars
  PROVE  Phase(d)'
<1>a. /\ CoordTypes /\ pc \in [Calls -> Label] /\ Len(rcv) \in Nat
      /\ res \in [Resources -> ResourceState]
      /\ \A i \in 1..Len(rcv) : rcv[i].r \in Resources
      /\ \A g \in Registrars : Target[g] \in Resources
      /\ Terminators \subseteq Calls
      /\ \A c \in Terminators : c \notin Registrars /\ c \notin Markers
  BY CallsAssumption, TargetAssumption, ListTypes
     DEF TypeInv, TypeOK, ControlTypes, WorldTypes, Calls
<1>1. ASSUME NEW c \in Registrars, Register(c) PROVE Phase(d)'
  <2>1. UNCHANGED <<status, rcv, res, ix, len, ans>>
    BY <1>1 DEF Register, coordVars, callVars
  <2>2. \A e \in Terminators : pc'[e] = pc[e]
    BY <1>a, <1>1 DEF Register, Goto, Return
  <2> QED
    BY <2>1, <2>2, PhaseKept DEF NothingCommitted
<1>2. ASSUME NEW c \in Registrars, BeginTrans(c) PROVE Phase(d)'
  <2> DEFINE outcome == PgBeginTrans(res[Target[c]])
  <2>1. /\ UNCHANGED <<status, rcv, ix, len, ans>>
        /\ res' \in {res, [res EXCEPT ![Target[c]] = outcome.p]}
    BY <1>2 DEF BeginTrans, coordVars, callVars
  <2>2. \A e \in Terminators : pc'[e] = pc[e]
    BY <1>a, <1>2 DEF BeginTrans, Goto, Return
  <2>3. pc[c] = "begin"
    BY <1>2 DEF BeginTrans
  <2>4. outcome.p.fate # "committed" /\ \A i \in 1..Len(rcv) : rcv[i].r # Target[c]
    BY <1>a, <2>3, BeginEffect DEF ListDistinct, SaneResources
  <2> HIDE DEF outcome
  <2>5. NothingCommitted => NothingCommitted'
    BY <1>a, <2>1, <2>4 DEF NothingCommitted
  <2>6. \A i \in 1..Len(rcv) : res'[rcv[i].r] = res[rcv[i].r]
    BY <1>a, <2>1, <2>4
  <2> QED
    BY <2>1, <2>2, <2>5, <2>6, PhaseKept
<1>3. ASSUME NEW c \in Registrars, Enlist(c) PROVE Phase(d)'
  <2>1. UNCHANGED <<status, res, ix, len, ans>>
    BY <1>3 DEF Enlist, callVars
  <2>2. \A e \in Terminators : pc'[e] = pc[e]
    BY <1>a, <1>3 DEF Enlist, Return
  <2>3. [r |-> Target[c], rv |-> "NotPrepared"] \in [r : Resources, rv : ResourceVote]
    BY <1>a DEF ResourceVote
  <2>4. \A i \in 1..Len(rcv) : rcv'[i] = rcv[i]
    BY <1>a, <1>3, <2>3, AppendProperties DEF Enlist, CoordTypes
  <2> QED
    BY <2>1, <2>2, <2>4, PhaseKept DEF NothingCommitted
<1>4. ASSUME NEW c \in Markers, RollbackOnly(c) PROVE Phase(d)'
  <2>1. /\ UNCHANGED <<rcv, res, ix, len, ans>>
        /\ status' = status \/ (status = "Active" /\ status' = "MarkedRollback")
    BY <1>4 DEF RollbackOnly, callVars
  <2>2. \A e \in Terminators : pc'[e] = pc[e]
    BY <1>a, <1>4 DEF RollbackOnly, Return
  <2> QED
    BY <2>1, <2>2, PhaseKept DEF NothingCommitted
<1>5. ASSUME NEW s \in Syncs, RegisterSynchronization(s) PROVE Phase(d)'
  BY <1>5, PhaseKept DEF RegisterSynchronization, callVars, NothingCommitted
<1>6. ASSUME NEW r \in Resources, StatementFailsAt(r) PROVE Phase(d)'
  <2>1. UNCHANGED <<status, rcv, pc, ix, len, ans>>
    BY <1>6 DEF StatementFailsAt, coordVars, callVars
  <2> QED
    BY <1>6, <1>a, <2>1, StatementFailsEffect, PhaseKept
<1>7. ASSUME UNCHANGED vars PROVE Phase(d)'
  BY <1>7, PhaseKept DEF vars, NothingCommitted
<1> QED
  BY <1>1, <1>2, <1>3, <1>4, <1>5, <1>6, <1>7 DEF RegisterStep
-----------------------------------------------------------------------------
LEMMA AtomicInit == Init => AtomicInv
<1> SUFFICES ASSUME Init PROVE AtomicInv
  OBVIOUS
<1>1. SaneResources /\ NothingCommitted
  BY DEF Init, SaneResources, NothingCommitted, Sane, NewResource
<1>2. ListDistinct
  BY TargetAssumption DEF Init, ListDistinct
<1>3. ASSUME NEW d \in Deciders PROVE Phase(d)
  BY <1>1, CallsAssumption
     DEF Init, Phase, Undecided, LateAt, Deciders, Terminators, Calls
<1> QED
  BY <1>1, <1>2, <1>3 DEF AtomicInv

LEMMA AtomicStep == OneDecision /\ TypeInv /\ AtomicInv /\ [Next]_vars => AtomicInv'
<1> SUFFICES ASSUME OneDecision, TypeInv, AtomicInv, [Next]_vars PROVE AtomicInv'
  OBVIOUS
<1>a. SaneResources /\ ListDistinct /\ Deferring = {} /\ Disconnecting = {}
      /\ \A d \in Deciders : Phase(d)
  BY DEF AtomicInv, OneDecision
<1>1. CASE \E c \in Committers : Commit(c) \/ CommitStep(c)
  <2> PICK c \in Committers : Commit(c) \/ CommitStep(c)
    BY <1>1
  <2>1. SaneResources' /\ ListDistinct'
    BY <1>a, CommitKeepsList
  <2>2. ASSUME NEW d \in Deciders PROVE Phase(d)'
    <3>1. CASE c = d
      BY <1>a, <3>1, DeciderBegins, DeciderVotes, DeciderCommits DEF CommitStep
    <3>2. CASE c \in Late
      BY <1>a, <3>2, LateSteps
    <3> QED
      BY <3>1, <3>2, Actors DEF Terminators
  <2> QED
    BY <2>1, <2>2 DEF AtomicInv
<1>2. CASE \E c \in Terminators : Rollback(c) \/ RollbackStep(c)
  <2> PICK c \in Terminators : Rollback(c) \/ RollbackStep(c)
    BY <1>2
  <2>1. SaneResources' /\ ListDistinct'
    BY <1>a, RollbackKeepsList
  <2>2. ASSUME NEW d \in Deciders PROVE Phase(d)'
    <3>1. CASE c = d
      BY <1>a, <3>1, DeciderRollsBack
    <3>2. CASE c \in Late
      BY <1>a, <3>2, LateSteps
    <3> QED
      BY <3>1, <3>2, Actors
  <2> QED
    BY <2>1, <2>2 DEF AtomicInv
<1>3. CASE \/ \E c \in Registrars : Register(c) \/ RegisterStep(c)
           \/ \E c \in Markers : RollbackOnly(c)
           \/ \E s \in Syncs : RegisterSynchronization(s)
           \/ \E r \in Resources : StatementFailsAt(r)
           \/ UNCHANGED vars
  <2>1. SaneResources' /\ ListDistinct'
    BY <1>3, <1>a, WorldKeepsList
  <2>2. ASSUME NEW d \in Deciders PROVE Phase(d)'
    BY <1>3, <1>a, WorldKeepsPhase
  <2> QED
    BY <2>1, <2>2 DEF AtomicInv
<1>4. CASE \E r \in Resources : Disconnect(r)
  BY <1>4, <1>a DEF Disconnect
<1> QED
  BY <1>1, <1>2, <1>3, <1>4 DEF Next, Finished

LEMMA AtomicFromPhases == OneDecision /\ TypeInv /\ AtomicInv => AtomicOutcome
<1> SUFFICES ASSUME OneDecision, TypeInv, AtomicInv, NEW r \in Members, NEW s \in Members,
                    res[r].fate = "committed", res[s].fate = "aborted"
             PROVE  FALSE
  BY DEF AtomicOutcome
<1>1. PICK d \in Deciders : r \in Counted(d) /\ s \in Counted(d)
  BY DEF Members, Deciders, OneDecision
<1>2. PICK i \in 1..len[d], j \in 1..len[d] : r = rcv[i].r /\ s = rcv[j].r
  BY <1>1 DEF Counted
<1>3. r \in Resources /\ s \in Resources
  <2>1. len[d] <= Len(rcv) /\ len[d] \in Nat /\ Len(rcv) \in Nat
    BY DeciderFacts DEF LoopInside
  <2> QED
    BY <1>2, <2>1, DeciderFacts
<1>4. Phase(d) /\ Sane(res[r]) /\ Sane(res[s])
  BY <1>3 DEF AtomicInv, SaneResources
<1>5. ~NothingCommitted
  BY <1>3 DEF NothingCommitted
<1>6. CASE OnePhase(d)
  BY <1>2, <1>6 DEF OnePhase
<1>7. CASE Committing(d)
  BY <1>2, <1>4, <1>7 DEF Committing, AllIn, Ready, Finally, Sane
<1> QED
  BY <1>4, <1>5, <1>6, <1>7 DEF Phase, Undecided, Voting, Undoing

(* One decision is atomic: of the resources the commit or rollback of a    *)
(* transaction counted none commits while another aborts, for any number   *)
(* of resources, registrations in progress, failing statements, late       *)
(* repetitions of the call and failures of the network.                    *)
THEOREM Atomicity == ASSUME OneDecision PROVE Spec => []AtomicOutcome
<1>1. Spec => []TypeInv
  BY TypeInit, TypeStep, PTL DEF Spec
<1>2. Init => AtomicInv
  BY AtomicInit
<1>3. TypeInv /\ AtomicInv /\ [Next]_vars => AtomicInv'
  BY AtomicStep
<1>4. TypeInv /\ AtomicInv => AtomicOutcome
  BY AtomicFromPhases
<1> QED
  BY <1>1, <1>2, <1>3, <1>4, PTL DEF Spec
=============================================================================
