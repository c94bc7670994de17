----------------------------- MODULE AnswerProofs -----------------------------
(***************************************************************************)
(* What the coordinator answers is true, and a transaction implements the  *)
(* abstract atomic commitment: of one decision, for every set of resources *)
(* and of calls, whatever remote calls fail.                               *)
(***************************************************************************)
EXTENDS CoordinatorProofs

(***************************************************************************)
(* What the operations of a resource answer, and what they do to the fate  *)
(* of its work.                                                            *)
(***************************************************************************)
(* A decision about the work of a resource is never taken back.            *)
Settles(f, g) == g = f \/ (f = "open" /\ g \in {"committed", "aborted"})

LEMMA PrepareSettles ==
  ASSUME NEW p \in ResourceState
  PROVE  LET q == PgPrepare(p)
         IN  /\ Settles(p.fate, q.p.fate)
             /\ Sane(p) /\ Whole(p) => Whole(q.p)
             /\ /\ Sane(p) /\ Whole(p) /\ p.status = "Active"
                /\ p.fate \notin {"none", "committed"}
                /\ q.answer = "VoteRollback"
                => q.p.fate = "aborted"
BY DEF PgPrepare, XaPrepare, CanPrepare, Aborts, Settle, Outcome, Sane, Whole, Settles,
       ResourceState, BlockState, TransState, Fate, ResourceStatus

LEMMA RollbackSettles ==
  ASSUME NEW p \in ResourceState
  PROVE  LET q == PgRollback(p)
         IN  /\ Settles(p.fate, q.p.fate)
             /\ Sane(p) /\ Whole(p) => Whole(q.p)
             /\ /\ Sane(p) /\ Whole(p) /\ p.fate \notin {"none", "committed"}
                /\ q.answer = "ok"
                => q.p.fate = "aborted"
BY DEF PgRollback, XaRollback, Aborts, Settle, Outcome, Sane, Whole, Settles,
       ResourceState, BlockState, TransState, Fate, ResourceStatus

LEMMA CommitSettles ==
  ASSUME NEW p \in ResourceState, NEW t \in BOOLEAN
  PROVE  LET q == PgCommit(p, t)
         IN  /\ Settles(p.fate, q.p.fate)
             /\ Sane(p) /\ Whole(p) /\ (Ready(p) \/ Finally(p)) /\ ~t =>
                   Whole(q.p) /\ q.answer = "ok" /\ q.p.fate = "committed"
BY DEF PgCommit, XaCommit, XaCommitOk, Commits, Aborts, Settle, Outcome, Sane, Whole, Settles,
       Ready, Finally, ResourceState, BlockState, TransState, Fate, ResourceStatus

LEMMA OnePhaseSettles ==
  ASSUME NEW p \in ResourceState, NEW t \in BOOLEAN
  PROVE  LET q == PgCommitOnePhase(p, t)
         IN  /\ Settles(p.fate, q.p.fate)
             /\ Sane(p) /\ Whole(p) /\ ~t =>
                   /\ Whole(q.p) /\ q.answer # "HeuristicRollback"
                   /\ q.answer = "ok" => q.p.fate = "committed"
                   /\ q.answer = "TRANSACTION_ROLLEDBACK" /\ p.fate \notin {"none", "committed"} =>
                         q.p.fate = "aborted"
<1> DEFINE m == PgPrepare(p)
           o == PgCommitOnePhase(p, t)
           done == PgCommit(m.p, t)
           undone == PgRollback(m.p)
<1>1. /\ m.p \in ResourceState /\ m.answer \in {"VoteCommit", "VoteRollback", "spins"}
      /\ Settles(p.fate, m.p.fate)
      /\ Sane(p) => Sane(m.p)
      /\ Sane(p) /\ Whole(p) => Whole(m.p)
      /\ Sane(p) /\ m.answer = "VoteCommit" => Ready(m.p)
  BY PgTypes, PrepareSettles, PrepareEffect
<1>2. m.answer = "VoteRollback" /\ p.fate \notin {"none", "committed"} =>
         m.p.fate \notin {"none", "committed"}
  BY DEF PgPrepare, XaPrepare, CanPrepare, Aborts, Settle, Outcome,
         ResourceState, BlockState, TransState, Fate, ResourceStatus
<1>3. /\ m.answer = "VoteCommit" => o = done
      /\ m.answer = "VoteRollback" =>
            /\ o.p = undone.p
            /\ undone.answer = "spins" => o.answer = "spins"
            /\ undone.answer # "spins" => o.answer = "TRANSACTION_ROLLEDBACK"
      /\ m.answer = "spins" => o = m
  BY <1>1 DEF PgCommitOnePhase, Outcome
<1>4. /\ Settles(m.p.fate, done.p.fate)
      /\ Sane(m.p) /\ Whole(m.p) /\ Ready(m.p) /\ ~t =>
            Whole(done.p) /\ done.answer = "ok" /\ done.p.fate = "committed"
  BY <1>1, CommitSettles
<1>5. /\ Settles(m.p.fate, undone.p.fate) /\ undone.answer \in {"ok", "spins"}
      /\ Sane(m.p) /\ Whole(m.p) => Whole(undone.p)
      /\ /\ Sane(m.p) /\ Whole(m.p) /\ m.p.fate \notin {"none", "committed"}
         /\ undone.answer = "ok"
         => undone.p.fate = "aborted"
  <2>1. undone.answer \in {"ok", "spins"}
    BY <1>1, PgTypes
  <2>2. m.p \in ResourceState
    BY <1>1
  <2> HIDE DEF m
  <2> QED
    BY <2>1, <2>2, RollbackSettles
<1> HIDE DEF m, o, done, undone
<1>6. Settles(p.fate, o.p.fate)
  BY <1>1, <1>3, <1>4, <1>5 DEF Settles
<1>7. Sane(p) /\ Whole(p) /\ ~t =>
         /\ Whole(o.p) /\ o.answer # "HeuristicRollback"
         /\ o.answer = "ok" => o.p.fate = "committed"
  BY <1>1, <1>3, <1>4, <1>5
<1>8. Sane(p) /\ Whole(p) /\ ~t /\ o.answer = "TRANSACTION_ROLLEDBACK"
         /\ p.fate \notin {"none", "committed"} => o.p.fate = "aborted"
  BY <1>1, <1>2, <1>3, <1>4, <1>5
<1> QED
  BY <1>6, <1>7, <1>8 DEF o

LEMMA FaultSettles ==
  ASSUME NEW p \in ResourceState
  PROVE  /\ Settles(p.fate, StatementFails(p).fate)
         /\ Settles(p.fate, ConnectionLost(p).fate)
         /\ Sane(p) /\ Whole(p) /\ p.block = "INPROGRESS" =>
               Whole(StatementFails(p)) /\ StatementFails(p).status = p.status
BY DEF StatementFails, ConnectionLost, Settle, Sane, Whole, Settles,
       ResourceState, BlockState, TransState, Fate, ResourceStatus

LEMMA BeginSettles ==
  ASSUME NEW p \in ResourceState
  PROVE  /\ Settles(p.fate, PgBeginTrans(p).p.fate)
            \/ (p.fate = "none" /\ PgBeginTrans(p).p.fate = "open")
         /\ p = NewResource =>
               LET q == PgBeginTrans(p).p
               IN  Whole(q) /\ q.fate = "open" /\ q.status = "Active"
BY DEF PgBeginTrans, Begin, NewResource, Outcome, Whole, Settles,
       ResourceState, BlockState, TransState, Fate, ResourceStatus
-----------------------------------------------------------------------------
(***************************************************************************)
(* What every step keeps: fates only move forward, the list only grows,    *)
(* and a call is moved by its own steps, or by the end of the service.     *)
(***************************************************************************)
FateMoves(f, g) == Settles(f, g) \/ (f = "none" /\ g = "open")

Forward ==
    /\ \A r \in Resources : FateMoves(res[r].fate, res'[r].fate)
    /\ Len(rcv) <= Len(rcv')
    /\ \A i \in 1..Len(rcv) : rcv'[i].r = rcv[i].r
    /\ faults <= faults'

Undisturbed(e) ==
    /\ ix'[e] = ix[e] /\ len'[e] = len[e] /\ heur'[e] = heur[e] /\ ans'[e] = ans[e]
    /\ \/ pc'[e] = pc[e] /\ reply'[e] = reply[e] /\ (up' => up)
       \/ pc[e] # "idle" /\ pc'[e] = "done" /\ reply'[e] = "COMM_FAILURE" /\ ~up'

(* The facts about one call and the list that the steps below read.        *)
LEMMA CallFacts ==
  ASSUME TypeInv, NEW c \in Terminators
  PROVE  /\ c \in Calls /\ pc \in [Calls -> Label] /\ reply \in [Calls -> Reply] /\ up \in BOOLEAN
         /\ ix \in [Terminators -> Nat \ {0}] /\ len \in [Terminators -> Nat]
         /\ heur \in [Terminators -> BOOLEAN] /\ ans \in [Terminators -> Answer]
         /\ ix[c] \in Nat \ {0} /\ len[c] \in Nat /\ Len(rcv) \in Nat /\ len[c] <= Len(rcv)
         /\ res \in [Resources -> ResourceState] /\ faults \in Nat
         /\ rcv \in [1..Len(rcv) -> [r : Resources, rv : ResourceVote]]
         /\ \A i \in 1..Len(rcv) : rcv[i].r \in Resources
         /\ pc[c] \in Answered => ix[c] <= len[c] /\ ans[c] \in AnswerTo(pc[c])
BY ListTypes, LenProperties, FaultsAssumption
   DEF TypeInv, TypeOK, CoordTypes, CallTypes, ControlTypes, WorldTypes, LoopsInside, LoopInside,
       Calls

LEMMA InvokeForward ==
  ASSUME TypeInv, NEW c \in Terminators, NEW outcome, Invoke(c, outcome), ix[c] <= len[c],
         Settles(res[rcv[ix[c]].r].fate, outcome.p.fate)
  PROVE  /\ \A r \in Resources : FateMoves(res[r].fate, res'[r].fate)
         /\ faults <= faults'
<1>1. \A r \in Resources : FateMoves(res[r].fate, res'[r].fate)
  BY InvokeEffect DEF FateMoves, Settles
<1>2. faults <= faults'
  BY CallFacts DEF Invoke
<1> QED
  BY <1>1, <1>2

LEMMA CommitForward ==
  ASSUME TypeInv, NEW c \in Committers, Commit(c) \/ CommitStep(c)
  PROVE  Forward
<1>a. /\ c \in Terminators /\ CoordTypes /\ faults \in Nat /\ Len(rcv) \in Nat
      /\ ix[c] \in Nat \ {0} /\ len[c] \in Nat /\ len[c] <= Len(rcv)
      /\ res \in [Resources -> ResourceState] /\ \A i \in 1..Len(rcv) : rcv[i].r \in Resources
  BY CallFacts DEF Terminators, TypeInv, TypeOK
<1>b. ASSUME UNCHANGED rcv, NEW outcome, Invoke(c, outcome), ix[c] <= len[c],
             Settles(res[rcv[ix[c]].r].fate, outcome.p.fate)
      PROVE  Forward
  BY <1>a, <1>b, InvokeForward DEF Forward
<1>c. ix[c] <= len[c] => rcv[ix[c]].r \in Resources /\ res[rcv[ix[c]].r] \in ResourceState
  BY <1>a
<1>1. CASE \/ Commit(c) \/ BeforeCompletion(c) \/ Dispatch(c) \/ OnePhaseAnswered(c)
           \/ Decide(c) \/ CommitEnds(c) \/ Spin(c)
  <2>1. UNCHANGED <<rcv, res, faults>>
    BY <1>1 DEF Commit, BeforeCompletion, Dispatch, OnePhaseAnswered, Decide, CommitEnds,
                Spin, coordVars
  <2> QED
    BY <1>a, <2>1 DEF Forward, FateMoves, Settles
<1>2. CASE CommitOnePhase(c)
  <2>1. PICK t \in TriggerFails(Entry(c).r) :
          LET o == PgCommitOnePhase(res[Entry(c).r], t)
          IN  Invoke(c, IF o.answer # "HeuristicRollback" THEN o
                        ELSE IF ThrowSpecsEnforced
                        THEN Outcome(ConnectionLost(o.p), "COMM_FAILURE")
                        ELSE Outcome(o.p, "UNKNOWN"))
    BY <1>2 DEF CommitOnePhase
  <2>2. ix[c] <= len[c] /\ t \in BOOLEAN /\ UNCHANGED rcv
    <3>1. ix[c] = 1 /\ len[c] = 1 /\ UNCHANGED rcv
      BY <1>2, <1>a DEF CommitOnePhase, TypeInv, LoopsInside, LoopInside, coordVars
    <3>2. t \in BOOLEAN
      BY <2>1 DEF TriggerFails
    <3> QED
      BY <3>1, <3>2
  <2> DEFINE p == res[rcv[ix[c]].r]
             o == PgCommitOnePhase(p, t)
  <2>3. o.p \in ResourceState /\ Settles(p.fate, o.p.fate)
    BY <1>c, <2>2, OnePhaseTypes, OnePhaseSettles
  <2>4. Settles(o.p.fate, ConnectionLost(o.p).fate)
    BY <2>3, FaultSettles
  <2>5. PICK outcome : Invoke(c, outcome) /\ outcome.p \in {o.p, ConnectionLost(o.p)}
    BY <2>1 DEF Entry, Outcome
  <2> HIDE DEF o
  <2>6. Settles(p.fate, outcome.p.fate)
    BY <2>3, <2>4, <2>5 DEF Settles
  <2> QED
    BY <1>b, <2>2, <2>5, <2>6
<1>3. CASE PrepareNext(c)
  BY <1>3, <1>b, <1>c, PrepareSettles DEF PrepareNext, More, Entry, coordVars
<1>4. CASE CommitNext(c)
  <2>1. UNCHANGED rcv /\ ix[c] <= len[c]
    BY <1>4 DEF CommitNext, More, coordVars
  <2>2. CASE UNCHANGED <<res, faults>>
    BY <1>a, <2>1, <2>2 DEF Forward, FateMoves, Settles
  <2>3. CASE ~UNCHANGED <<res, faults>>
    <3>1. PICK t \in TriggerFails(Entry(c).r) : Invoke(c, PgCommit(res[Entry(c).r], t))
      BY <1>4, <2>3 DEF CommitNext
    <3>2. t \in BOOLEAN
      BY <3>1 DEF TriggerFails
    <3> QED
      BY <1>b, <1>c, <2>1, <3>1, <3>2, CommitSettles DEF Entry
  <2> QED
    BY <2>2, <2>3
<1>5. CASE Voted(c) \/ CommitAnswered(c)
  <2>1. UNCHANGED <<res, faults>>
    BY <1>5 DEF Voted, CommitAnswered
  <2>2. ix[c] \in 1..Len(rcv)
    BY <1>5, <1>a, CallFacts DEF Voted, CommitAnswered, Answered
  <2>3. Len(rcv') = Len(rcv) /\ \A j \in 1..Len(rcv) : rcv'[j].r = rcv[j].r
    BY <1>5, <1>a, <2>2, ListChanges DEF Voted, CommitAnswered, ResourceVote
  <2> QED
    BY <1>a, <2>1, <2>3 DEF Forward, FateMoves, Settles
<1> QED
  BY <1>1, <1>2, <1>3, <1>4, <1>5 DEF CommitStep

LEMMA RollbackForward ==
  ASSUME TypeInv, NEW c \in Terminators, Rollback(c) \/ RollbackStep(c)
  PROVE  Forward
<1>a. /\ CoordTypes /\ faults \in Nat /\ Len(rcv) \in Nat
      /\ ix[c] \in Nat \ {0} /\ len[c] \in Nat /\ len[c] <= Len(rcv)
      /\ res \in [Resources -> ResourceState] /\ \A i \in 1..Len(rcv) : rcv[i].r \in Resources
  BY CallFacts DEF TypeInv, TypeOK
<1>1. CASE Rollback(c) \/ RollbackEnds(c) \/ AfterCompletion(c) \/ ResourceSpins(c)
  <2>1. UNCHANGED <<rcv, res, faults>>
    BY <1>1 DEF Rollback, RollbackEnds, AfterCompletion, ResourceSpins, vars
  <2> QED
    BY <1>a, <2>1 DEF Forward, FateMoves, Settles
<1>2. CASE RollbackNext(c)
  <2>1. UNCHANGED rcv /\ ix[c] <= len[c]
    BY <1>2 DEF RollbackNext, More, coordVars
  <2>2. CASE UNCHANGED <<res, faults>>
    BY <1>a, <2>1, <2>2 DEF Forward, FateMoves, Settles
  <2>3. CASE ~UNCHANGED <<res, faults>>
    <3>1. Invoke(c, PgRollback(res[rcv[ix[c]].r]))
      BY <1>2, <2>3 DEF RollbackNext, Entry
    <3>2. res[rcv[ix[c]].r] \in ResourceState
      BY <1>a, <2>1
    <3>3. Settles(res[rcv[ix[c]].r].fate, PgRollback(res[rcv[ix[c]].r]).p.fate)
      BY <3>2, RollbackSettles
    <3> QED
      BY <1>a, <2>1, <3>1, <3>3, InvokeForward DEF Forward
  <2> QED
    BY <2>2, <2>3
<1>3. CASE RollbackAnswered(c)
  <2>1. UNCHANGED <<res, faults>>
    BY <1>3 DEF RollbackAnswered
  <2>2. ix[c] \in 1..Len(rcv)
    BY <1>3, <1>a, CallFacts DEF RollbackAnswered, Answered
  <2>3. Len(rcv') = Len(rcv) /\ \A j \in 1..Len(rcv) : rcv'[j].r = rcv[j].r
    BY <1>3, <1>a, <2>2, ListChanges DEF RollbackAnswered, ResourceVote
  <2> QED
    BY <1>a, <2>1, <2>3 DEF Forward, FateMoves, Settles
<1> QED
  BY <1>1, <1>2, <1>3 DEF RollbackStep

(* The steps that are no call's commit or rollback.                        *)
Around ==
    \/ \E c \in Registrars : Register(c) \/ RegisterStep(c)
    \/ \E c \in Markers : RollbackOnly(c)
    \/ \E s \in Syncs : RegisterSynchronization(s)
    \/ \E r \in Resources : StatementFailsAt(r)
    \/ UNCHANGED vars

LEMMA WorldForward ==
  ASSUME TypeInv, Around \/ \E r \in Resources : Disconnect(r)
  PROVE  Forward
<1>a. /\ CoordTypes /\ Len(rcv) \in Nat /\ res \in [Resources -> ResourceState] /\ faults \in Nat
      /\ \A g \in Registrars : Target[g] \in Resources
  BY TargetAssumption, FaultsAssumption, ListTypes DEF TypeInv, TypeOK, WorldTypes
<1>1. CASE UNCHANGED <<rcv, res, faults>>
  BY <1>a, <1>1 DEF Forward, FateMoves, Settles
<1>2. ASSUME NEW c \in Registrars, BeginTrans(c) PROVE Forward
  <2> DEFINE q == PgBeginTrans(res[Target[c]]).p
  <2>1. /\ UNCHANGED rcv /\ res' \in {res, [res EXCEPT ![Target[c]] = q]}
        /\ faults <= faults'
    BY <1>a, <1>2 DEF BeginTrans, coordVars
  <2>2. FateMoves(res[Target[c]].fate, q.fate)
    BY <1>a, BeginSettles DEF FateMoves
  <2> HIDE DEF q
  <2>3. \A r \in Resources : FateMoves(res[r].fate, res'[r].fate)
    BY <1>a, <2>1, <2>2 DEF FateMoves, Settles
  <2> QED
    BY <1>a, <2>1, <2>3 DEF Forward
<1>3. ASSUME NEW c \in Registrars, Enlist(c) PROVE Forward
  <2>1. [r |-> Target[c], rv |-> "NotPrepared"] \in [r : Resources, rv : ResourceVote]
    BY <1>a DEF ResourceVote
  <2>2. Len(rcv') = Len(rcv) + 1 /\ \A i \in 1..Len(rcv) : rcv'[i] = rcv[i]
    BY <1>a, <1>3, <2>1, AppendProperties DEF Enlist, CoordTypes
  <2>3. UNCHANGED <<res, faults>>
    BY <1>3 DEF Enlist
  <2> QED
    BY <1>a, <2>2, <2>3 DEF Forward, FateMoves, Settles
<1>4. ASSUME NEW r \in Resources, StatementFailsAt(r) \/ Disconnect(r) PROVE Forward
  <2>1. PICK q \in {StatementFails(res[r]), ConnectionLost(res[r])} :
          res' = [res EXCEPT ![r] = q]
    BY <1>4 DEF StatementFailsAt, Disconnect
  <2>2. FateMoves(res[r].fate, q.fate)
    BY <1>a, FaultSettles DEF FateMoves
  <2>3. \A s \in Resources : FateMoves(res[s].fate, res'[s].fate)
    BY <1>a, <2>1, <2>2 DEF FateMoves, Settles
  <2>4. UNCHANGED <<rcv, faults>>
    BY <1>4 DEF StatementFailsAt, Disconnect, coordVars
  <2> QED
    BY <1>a, <2>3, <2>4 DEF Forward
<1> QED
  BY <1>1, <1>2, <1>3, <1>4
     DEF Around, RegisterStep, Register, RollbackOnly, RegisterSynchronization, vars, coordVars

LEMMA ForwardStep == TypeInv /\ [Next]_vars => Forward
BY CommitForward, RollbackForward, WorldForward DEF Next, Finished, Around
-----------------------------------------------------------------------------
(* How a step of c moves control.                                          *)
Controls(c) ==
    \/ \E label : Goto(c, label)
    \/ \E v : Return(c, v) \/ Throw(c, v)
    \/ UNCHANGED <<pc, reply, up>>

LEMMA ControlsElsewhere ==
  ASSUME ControlTypes, NEW c \in Calls, Controls(c), NEW e \in Calls, e # c
  PROVE  \/ pc'[e] = pc[e] /\ reply'[e] = reply[e] /\ (up' => up)
         \/ pc[e] # "idle" /\ pc'[e] = "done" /\ reply'[e] = "COMM_FAILURE" /\ ~up'
<1>1. CASE Terminate
  BY <1>1 DEF Terminate, ControlTypes
<1>2. CASE \/ \E label : Goto(c, label)
           \/ \E v : Return(c, v)
           \/ UNCHANGED <<pc, reply, up>>
  BY <1>2 DEF Goto, Return, ControlTypes
<1> QED
  BY <1>1, <1>2 DEF Controls, Throw

LEMMA OthersUndisturbed ==
  ASSUME TypeInv, NEW c \in Terminators,
         \/ c \in Committers /\ (Commit(c) \/ CommitStep(c))
         \/ Rollback(c) \/ RollbackStep(c),
         NEW e \in Terminators, e # c
  PROVE  Undisturbed(e)
<1>a. /\ c \in Calls /\ e \in Calls /\ ControlTypes
      /\ ix \in [Terminators -> Nat \ {0}] /\ len \in [Terminators -> Nat]
      /\ heur \in [Terminators -> BOOLEAN] /\ ans \in [Terminators -> Answer]
  BY CallFacts DEF TypeInv, TypeOK
<1>1. Controls(c) /\ ix'[e] = ix[e] /\ len'[e] = len[e] /\ heur'[e] = heur[e] /\ ans'[e] = ans[e]
  <2>1. CASE Commit(c)
    BY <1>a, <2>1 DEF Commit, Loop, Controls, coordVars
  <2>2. CASE BeforeCompletion(c)
    BY <1>a, <2>2 DEF BeforeCompletion, Advance, Controls
  <2>3. CASE Dispatch(c)
    BY <1>a, <2>3 DEF Dispatch, Controls
  <2>4. CASE CommitOnePhase(c)
    <3>1. Controls(c) /\ UNCHANGED callVars
      BY <2>4 DEF CommitOnePhase, Controls
    <3>2. \E outcome : Invoke(c, outcome)
      BY <2>4 DEF CommitOnePhase
    <3> QED
      BY <1>a, <3>1, <3>2 DEF Invoke, callVars
  <2>5. CASE OnePhaseAnswered(c)
    BY <1>a, <2>5 DEF OnePhaseAnswered, Controls, callVars
  <2>6. CASE PrepareNext(c)
    <3>1. Controls(c) /\ UNCHANGED callVars /\ \E outcome : Invoke(c, outcome)
      BY <2>6 DEF PrepareNext, Controls
    <3> QED
      BY <1>a, <3>1 DEF Invoke, callVars
  <2>7. CASE Voted(c)
    BY <1>a, <2>7 DEF Voted, Advance, Controls
  <2>8. CASE Decide(c)
    BY <1>a, <2>8 DEF Decide, Controls
  <2>9. CASE CommitNext(c)
    <3>1. Controls(c) /\ UNCHANGED <<len, heur>>
      BY <2>9 DEF CommitNext, Controls
    <3>2. \/ UNCHANGED ix /\ \E outcome : Invoke(c, outcome)
          \/ Advance(c) /\ UNCHANGED ans
      BY <2>9 DEF CommitNext
    <3> QED
      BY <1>a, <3>1, <3>2 DEF Invoke, Advance
  <2>10. CASE CommitAnswered(c)
    BY <1>a, <2>10 DEF CommitAnswered, Advance, Controls
  <2>11. CASE CommitEnds(c)
    BY <1>a, <2>11 DEF CommitEnds, Controls
  <2>12. CASE Spin(c)
    BY <1>a, <2>12 DEF Spin, Controls, callVars
  <2>13. CASE Rollback(c)
    BY <1>a, <2>13 DEF Rollback, RollbackReturns, Loop, Controls
  <2>14. CASE RollbackNext(c)
    <3>1. Controls(c) /\ UNCHANGED <<len, heur>>
      BY <2>14 DEF RollbackNext, Controls
    <3>2. \/ UNCHANGED ix /\ \E outcome : Invoke(c, outcome)
          \/ Advance(c) /\ UNCHANGED ans
      BY <2>14 DEF RollbackNext
    <3> QED
      BY <1>a, <3>1, <3>2 DEF Invoke, Advance
  <2>15. CASE RollbackAnswered(c)
    BY <1>a, <2>15 DEF RollbackAnswered, Advance, Controls
  <2>16. CASE RollbackEnds(c)
    BY <1>a, <2>16 DEF RollbackEnds, Controls
  <2>17. CASE AfterCompletion(c)
    BY <1>a, <2>17 DEF AfterCompletion, RollbackReturns, Advance, Controls
  <2>18. CASE ResourceSpins(c)
    BY <1>a, <2>18 DEF ResourceSpins, Controls, vars
  <2> QED
    BY <2>1, <2>2, <2>3, <2>4, <2>5, <2>6, <2>7, <2>8, <2>9, <2>10, <2>11, <2>12, <2>13, <2>14,
       <2>15, <2>16, <2>17, <2>18 DEF CommitStep, RollbackStep
<1> QED
  BY <1>a, <1>1, ControlsElsewhere DEF Undisturbed

LEMMA AroundUndisturbs ==
  ASSUME TypeInv, Around, NEW e \in Terminators
  PROVE  Undisturbed(e) /\ pc'[e] = pc[e] /\ reply'[e] = reply[e]
<1>a. /\ pc \in [Calls -> Label] /\ reply \in [Calls -> Reply]
      /\ Registrars \subseteq Calls /\ Markers \subseteq Calls /\ e \in Calls
      /\ e \notin Registrars /\ e \notin Markers
  BY CallFacts, CallsAssumption DEF Calls
<1>1. ASSUME NEW c \in Registrars, Register(c) \/ RegisterStep(c)
      PROVE  pc'[e] = pc[e] /\ reply'[e] = reply[e] /\ UNCHANGED <<up, ix, len, heur, ans>>
  BY <1>a, <1>1 DEF Register, RegisterStep, BeginTrans, Enlist, Goto, Return, callVars
<1>2. ASSUME NEW c \in Markers, RollbackOnly(c)
      PROVE  pc'[e] = pc[e] /\ reply'[e] = reply[e] /\ UNCHANGED <<up, ix, len, heur, ans>>
  BY <1>a, <1>2 DEF RollbackOnly, Return, callVars
<1>3. CASE \/ \E s \in Syncs : RegisterSynchronization(s)
           \/ \E r \in Resources : StatementFailsAt(r)
           \/ UNCHANGED vars
  BY <1>3 DEF RegisterSynchronization, StatementFailsAt, vars, callVars, Undisturbed
<1> QED
  BY <1>1, <1>2, <1>3 DEF Around, Undisturbed
-----------------------------------------------------------------------------
(***************************************************************************)
(* What a call knows stays true while others move.                         *)
(***************************************************************************)
LEMMA SettledStay ==
  ASSUME TypeInv, Forward
  PROVE  /\ \A i \in 1..Len(rcv) :
              /\ res[rcv[i].r].fate = "committed" => res'[rcv'[i].r].fate = "committed"
              /\ res[rcv[i].r].fate = "aborted" => res'[rcv'[i].r].fate = "aborted"
              /\ res[rcv[i].r].fate # "none" => res'[rcv'[i].r].fate # "none"
         /\ faults' = 0 => faults = 0
<1>1. \A i \in 1..Len(rcv) : rcv[i].r \in Resources
  BY ListTypes DEF TypeInv, TypeOK
<1>2. faults \in Nat
  BY FaultsAssumption DEF TypeInv, TypeOK, WorldTypes
<1>3. faults' = 0 => faults = 0
  BY <1>2 DEF Forward
<1> QED
  BY <1>1, <1>3 DEF Forward, FateMoves, Settles

LEMMA CallKept ==
  ASSUME TypeInv, Forward, NEW d \in Deciders, NEW c \in Terminators,
         Undisturbed(c), CallInv(c, d), len'[d] = len[d] \/ len[c] = 0
  PROVE  CallInv(c, d)'
<1>a. /\ ix[c] \in Nat \ {0} /\ len[c] \in Nat /\ Len(rcv) \in Nat /\ len[c] <= Len(rcv)
      /\ pc[c] \in Answered => ix[c] <= len[c]
  BY CallFacts
<1>b. /\ \A i \in 1..len[c] :
           /\ res[rcv[i].r].fate = "committed" => res'[rcv'[i].r].fate = "committed"
           /\ res[rcv[i].r].fate = "aborted" => res'[rcv'[i].r].fate = "aborted"
      /\ faults' = 0 => faults = 0
  BY <1>a, SettledStay
<1>c. /\ ix'[c] = ix[c] /\ len'[c] = len[c] /\ heur'[c] = heur[c] /\ ans'[c] = ans[c]
      /\ pc'[c] # "done" => pc'[c] = pc[c] /\ reply'[c] = reply[c]
      /\ reply'[c] = "ok" => reply[c] = "ok"
      /\ pc'[c] = "done" /\ up' => pc[c] = "done" /\ up
  BY DEF Undisturbed
<1>1. AnswerTrue(c)'
  <2>1. CASE pc'[c] \in Answered
    <3>1. pc'[c] = pc[c] /\ ix[c] \in 1..len[c]
      BY <1>a, <1>c, <2>1 DEF Answered
    <3> QED
      BY <1>b, <1>c, <3>1 DEF CallInv, AnswerTrue
  <2>2. CASE pc'[c] \notin Answered
    BY <2>2 DEF AnswerTrue, Answered
  <2> QED
    BY <2>1, <2>2
<1>2. LoopTrue(c, d)'
  <2>1. Passed(c)' = Passed(c) /\ Passed(c) \subseteq 1..len[c]
    BY <1>c DEF Passed
  <2>2. Sure(c)' => Sure(c)
    BY <1>b, <1>c DEF Sure
  <2>3. \A J : J \subseteq 1..len[c] /\ AllCommitted(J) => AllCommitted(J)'
    BY <1>b DEF AllCommitted
  <2>4. \A J : J \subseteq 1..len[c] /\ AllAborted(J) => AllAborted(J)'
    BY <1>b DEF AllAborted
  <2>5. CASE len'[d] = len[d]
    <3>1. {i \in Passed(c) : i <= len[d]}' = {i \in Passed(c) : i <= len[d]}
          /\ {i \in Passed(c) : i <= len[d]} \subseteq 1..len[c]
      BY <2>1, <2>5
    <3> QED
      BY <1>b, <1>c, <2>1, <2>2, <2>3, <2>4, <2>5, <3>1 DEF CallInv, LoopTrue
  <2>6. CASE len[c] = 0
    <3>1. \A J : J \subseteq 1..len[c] => AllCommitted(J)' /\ AllAborted(J)'
      BY <2>6 DEF AllCommitted, AllAborted
    <3>2. {i \in Passed(c) : i <= len[d]}' \subseteq 1..len[c]
      BY <2>1
    <3>3. pc'[c] # "recommitted"
      BY <1>a, <1>c, <2>6 DEF Answered
    <3> QED
      BY <1>c, <2>1, <3>1, <3>2, <3>3 DEF LoopTrue
  <2> QED
    BY <2>5, <2>6
<1>3. ReplyTrue(c, d)'
  <2>1. len[c] = 0 => 1..len[c] = {}
    BY <1>a
  <2> QED
    BY <1>b, <1>c, <2>1 DEF CallInv, ReplyTrue, AllCommitted
<1> QED
  BY <1>1, <1>2, <1>3 DEF CallInv
-----------------------------------------------------------------------------
(***************************************************************************)
(* The resources: every one of them stays whole, and a failure that        *)
(* somebody noted has happened.                                            *)
(***************************************************************************)
(* The entries that the commit phase calls.                                *)
CommitCalls(c) ==
    \/ pc[c] = "commit" /\ Entry(c).rv # "VoteRollback"
    \/ pc[c] = "recommit" /\ Entry(c).rv = "VoteCommit"

(* A commit calls only resources that have voted for it.                   *)
LEMMA CommitCallsIn ==
  ASSUME TypeInv, OneDecision, NEW d \in Deciders, Phase(d), AskedInOrder(d),
         NEW c \in Committers, CommitNext(c), CommitCalls(c)
  PROVE  /\ Committing(d) /\ ix[c] \in 1..len[d]
         /\ Ready(res[rcv[ix[c]].r]) \/ Finally(res[rcv[ix[c]].r])
<1>a. /\ c \in Terminators /\ ix[c] \in Nat \ {0} /\ len[c] \in Nat /\ Len(rcv) \in Nat
      /\ len[c] <= Len(rcv) /\ len[d] \in Nat /\ (c = d \/ c \in Late)
  BY CallFacts, Actors DEF Terminators
<1>1. /\ pc[c] \in {"commit", "recommit"} /\ ix[c] <= len[c]
      /\ pc[c] = "recommit" => rcv[ix[c]].rv = "VoteCommit"
  BY DEF CommitNext, More, Entry, CommitCalls
<1>2. Committing(d) /\ pc[c] = IF c = d THEN "commit" ELSE "recommit"
  BY <1>a, <1>1 DEF Phase, Undecided, OnePhase, Voting, Committing, Undoing, LateAt
<1>3. ix[c] <= len[d]
  <2>1. CASE c = d
    BY <1>1, <2>1
  <2>2. CASE c \in Late
    <3>1. Unasked(len[d])
      BY <1>2, <2>2, Actors DEF AskedInOrder, LateAt
    <3>2. rcv[ix[c]].rv = "VoteCommit" /\ ix[c] \in 1..Len(rcv)
      BY <1>a, <1>1, <1>2, <2>2, Actors
    <3> QED
      BY <1>a, <3>1, <3>2 DEF Unasked
  <2> QED
    BY <1>a, <2>1, <2>2
<1> QED
  BY <1>a, <1>2, <1>3 DEF Committing, AllIn

LEMMA InvokeWhole ==
  ASSUME TypeInv, WholeResources, NEW c \in Terminators, NEW outcome, Invoke(c, outcome),
         ix[c] <= len[c], Whole(outcome.p)
  PROVE  WholeResources'
BY InvokeEffect DEF WholeResources

LEMMA CommitKeepsWhole ==
  ASSUME TypeInv, OneDecision, SaneResources, WholeResources,
         NEW d \in Deciders, Phase(d), AskedInOrder(d),
         NEW c \in Committers, Commit(c) \/ CommitStep(c)
  PROVE  WholeResources'
<1>a. c \in Terminators /\ LoopInside(c) /\ Deferring = {}
  BY DEF Terminators, TypeInv, LoopsInside, OneDecision
<1>b. ix[c] <= len[c] => /\ res[rcv[ix[c]].r] \in ResourceState
                         /\ Sane(res[rcv[ix[c]].r]) /\ Whole(res[rcv[ix[c]].r])
  BY <1>a, CallFacts DEF SaneResources, WholeResources
<1>1. CASE UNCHANGED res
  BY <1>1 DEF WholeResources
<1>2. CASE CommitOnePhase(c)
  <2>1. ix[c] <= len[c]
    BY <1>2, <1>a DEF CommitOnePhase, LoopInside
  <2> DEFINE o == PgCommitOnePhase(res[rcv[ix[c]].r], FALSE)
  <2>2. Whole(o.p) /\ o.answer # "HeuristicRollback"
    BY <1>b, <2>1, OnePhaseSettles
  <2>3. Invoke(c, o)
    BY <1>2, <1>a, <2>2 DEF CommitOnePhase, TriggerFails, Entry
  <2> HIDE DEF o
  <2> QED
    BY <1>a, <2>1, <2>2, <2>3, InvokeWhole
<1>3. CASE PrepareNext(c)
  <2>1. ix[c] <= len[c] /\ Invoke(c, PgPrepare(res[rcv[ix[c]].r]))
    BY <1>3 DEF PrepareNext, More, Entry
  <2> QED
    BY <1>a, <1>b, <2>1, PrepareSettles, InvokeWhole
<1>4. CASE CommitNext(c) /\ ~UNCHANGED res
  <2>1. ix[c] <= len[c] /\ Invoke(c, PgCommit(res[rcv[ix[c]].r], FALSE))
    BY <1>4, <1>a DEF CommitNext, More, Entry, TriggerFails
  <2>2. Ready(res[rcv[ix[c]].r]) \/ Finally(res[rcv[ix[c]].r])
    BY <1>4, CommitCallsIn DEF CommitNext, CommitCalls
  <2> QED
    BY <1>a, <1>b, <2>1, <2>2, CommitSettles, InvokeWhole
<1> QED
  BY <1>1, <1>2, <1>3, <1>4
     DEF CommitStep, Commit, BeforeCompletion, Dispatch, OnePhaseAnswered, Voted, Decide,
         CommitAnswered, CommitEnds, Spin, coordVars

LEMMA RollbackKeepsWhole ==
  ASSUME TypeInv, SaneResources, WholeResources,
         NEW c \in Terminators, Rollback(c) \/ RollbackStep(c)
  PROVE  WholeResources'
<1>1. CASE UNCHANGED res
  BY <1>1 DEF WholeResources
<1>2. CASE RollbackNext(c) /\ ~UNCHANGED res
  <2>1. ix[c] <= len[c] /\ Invoke(c, PgRollback(res[rcv[ix[c]].r]))
    BY <1>2 DEF RollbackNext, More, Entry
  <2>2. /\ res[rcv[ix[c]].r] \in ResourceState
        /\ Sane(res[rcv[ix[c]].r]) /\ Whole(res[rcv[ix[c]].r])
    BY <2>1, CallFacts DEF SaneResources, WholeResources
  <2> QED
    BY <2>1, <2>2, RollbackSettles, InvokeWhole
<1> QED
  BY <1>1, <1>2
     DEF RollbackStep, Rollback, RollbackAnswered, RollbackEnds, AfterCompletion, ResourceSpins,
         vars

LEMMA AroundKeepsWhole ==
  ASSUME TypeInv, SaneResources, ListDistinct, WholeResources, Around
  PROVE  WholeResources'
<1>a. /\ res \in [Resources -> ResourceState]
      /\ \A g \in Registrars : Target[g] \in Resources
  BY TargetAssumption DEF TypeInv, TypeOK, WorldTypes
<1>1. CASE UNCHANGED res
  BY <1>1 DEF WholeResources
<1>2. ASSUME NEW c \in Registrars, BeginTrans(c) PROVE WholeResources'
  <2> DEFINE q == PgBeginTrans(res[Target[c]]).p
  <2>1. res[Target[c]] = NewResource
    BY <1>2 DEF BeginTrans, ListDistinct
  <2>2. Whole(q)
    BY <1>a, <2>1, BeginSettles
  <2>3. res' \in {res, [res EXCEPT ![Target[c]] = q]}
    BY <1>2 DEF BeginTrans
  <2> HIDE DEF q
  <2> QED
    BY <1>a, <2>2, <2>3 DEF WholeResources
<1>3. ASSUME NEW r \in Resources, StatementFailsAt(r) PROVE WholeResources'
  <2>1. Whole(StatementFails(res[r]))
    BY <1>a, <1>3, FaultSettles DEF StatementFailsAt, SaneResources, WholeResources
  <2> QED
    BY <1>a, <1>3, <2>1 DEF StatementFailsAt, WholeResources
<1> QED
  BY <1>1, <1>2, <1>3
     DEF Around, RegisterStep, Register, Enlist, RollbackOnly, RegisterSynchronization, vars
-----------------------------------------------------------------------------
LEMMA TerminatorMoves ==
  ASSUME TypeInv, NEW c \in Terminators,
         \/ c \in Committers /\ (Commit(c) \/ CommitStep(c))
         \/ Rollback(c) \/ RollbackStep(c)
  PROVE  \E L : Moves(c, L)
<1>1. CASE ResourceSpins(c)
  BY <1>1, StayMoves DEF ResourceSpins, vars, Terminators, Calls, TypeInv, TypeOK
<1>2. CASE c \in Committers /\ (Commit(c) \/ CommitStep(c))
  BY <1>2, CommitMoves, BeforeCompletionMoves, DispatchMoves, CommitOnePhaseMoves,
     OnePhaseAnsweredMoves, PrepareNextMoves, VotedMoves, DecideMoves, CommitNextMoves,
     CommitAnsweredMoves, CommitEndsMoves, SpinMoves DEF CommitStep
<1>3. CASE \/ Rollback(c) \/ RollbackNext(c) \/ RollbackAnswered(c) \/ RollbackEnds(c)
           \/ AfterCompletion(c)
  BY <1>3, RollbackMoves, RollbackNextMoves, RollbackAnsweredMoves, RollbackEndsMoves,
     AfterCompletionMoves
<1> QED
  BY <1>1, <1>2, <1>3 DEF RollbackStep

(* A terminating call touches the resources of the list only, and adds     *)
(* nothing to it.                                                          *)
LEMMA ListOnly ==
  ASSUME TypeInv, SaneResources, Deferring = {}, NEW c \in Terminators,
         \/ c \in Committers /\ (Commit(c) \/ CommitStep(c))
         \/ Rollback(c) \/ RollbackStep(c)
  PROVE  /\ Len(rcv') = Len(rcv)
         /\ \A r \in Resources : (\A i \in 1..Len(rcv) : rcv[i].r # r) => res'[r] = res[r]
<1>a. /\ CoordTypes /\ Len(rcv) \in Nat /\ ix[c] \in Nat \ {0}
      /\ len[c] \in Nat /\ len[c] <= Len(rcv) /\ LoopInside(c)
  BY CallFacts DEF TypeInv, TypeOK, LoopsInside
<1>1. CASE CommitOnePhase(c) /\ c \in Committers
  <2>1. ix[c] \in 1..Len(rcv)
    BY <1>1, <1>a DEF CommitOnePhase, LoopInside
  <2> QED
    BY <1>1, <2>1, CommitOnePhaseEffect DEF CommitOnePhase, coordVars
<1>2. CASE PrepareNext(c) /\ c \in Committers
  <2>1. ix[c] \in 1..Len(rcv)
    BY <1>2, <1>a DEF PrepareNext, More
  <2> QED
    BY <1>2, <2>1, PrepareNextEffect DEF PrepareNext, coordVars
<1>3. CASE CommitNext(c) /\ c \in Committers
  BY <1>3, CommitNextEffect DEF CommitNext, coordVars
<1>4. CASE RollbackNext(c)
  BY <1>4, RollbackNextEffect DEF RollbackNext, coordVars
<1>5. CASE Voted(c) \/ CommitAnswered(c) \/ RollbackAnswered(c)
  <2>1. UNCHANGED res /\ ix[c] \in 1..Len(rcv)
    BY <1>5, <1>a, CallFacts DEF Voted, CommitAnswered, RollbackAnswered, Answered
  <2>2. Len(rcv') = Len(rcv)
    BY <1>5, <1>a, <2>1, ListChanges DEF Voted, CommitAnswered, RollbackAnswered, ResourceVote
  <2> QED
    BY <2>1, <2>2
<1>6. CASE UNCHANGED <<rcv, res>>
  BY <1>6
<1> QED
  BY <1>1, <1>2, <1>3, <1>4, <1>5, <1>6
     DEF CommitStep, RollbackStep, Commit, BeforeCompletion, Dispatch, OnePhaseAnswered, Decide,
         CommitEnds, Spin, Rollback, RollbackEnds, AfterCompletion, ResourceSpins, vars, coordVars

LEMMA TerminatorKeepsBegun ==
  ASSUME TypeInv, SaneResources, ListDistinct, ListBegun, Forward, Deferring = {},
         NEW c \in Terminators,
         \/ c \in Committers /\ (Commit(c) \/ CommitStep(c))
         \/ Rollback(c) \/ RollbackStep(c)
  PROVE  ListBegun'
<1>1. \A i \in 1..Len(rcv') : res'[rcv'[i].r].fate # "none"
  BY ListOnly, SettledStay DEF ListBegun
<1>2. \A g \in Registrars : pc'[g] = pc[g] \/ pc'[g] = "done"
  BY TerminatorMoves, CallsAssumption DEF Moves, Calls
<1>3. ASSUME NEW g \in Registrars, pc'[g] = "enlist"
      PROVE  res'[Target[g]].fate # "none" /\ res'[Target[g]].status = "Active"
  <2>1. pc[g] = "enlist" /\ Target[g] \in Resources
    BY <1>2, <1>3, TargetAssumption
  <2>2. res'[Target[g]] = res[Target[g]]
    BY <2>1, ListOnly DEF ListDistinct
  <2> QED
    BY <2>1, <2>2 DEF ListBegun
<1> QED
  BY <1>1, <1>3 DEF ListBegun

LEMMA AroundKeepsBegun ==
  ASSUME TypeInv, OneDecision, SaneResources, WholeResources, ListDistinct, ListBegun, Forward,
         Around
  PROVE  ListBegun'
<1>a. /\ CoordTypes /\ pc \in [Calls -> Label] /\ Len(rcv) \in Nat
      /\ res \in [Resources -> ResourceState]
      /\ Registrars \subseteq Calls /\ Markers \subseteq Calls /\ Registrars \cap Markers = {}
      /\ \A g \in Registrars : Target[g] \in Resources
  BY CallsAssumption, TargetAssumption, ListTypes
     DEF TypeInv, TypeOK, ControlTypes, WorldTypes, Calls
<1>b. ASSUME Len(rcv') = Len(rcv),
             \A g \in Registrars : pc'[g] = "enlist" =>
                res'[Target[g]].fate # "none" /\ res'[Target[g]].status = "Active"
      PROVE  ListBegun'
  BY <1>b, SettledStay DEF ListBegun
<1>1. ASSUME NEW c \in Registrars, Register(c) PROVE ListBegun'
  <2>1. UNCHANGED <<rcv, res>> /\ \A g \in Registrars : pc'[g] = "enlist" => pc[g] = "enlist"
    BY <1>a, <1>1 DEF Register, Goto, Return, coordVars
  <2> QED
    BY <2>1 DEF ListBegun
<1>2. ASSUME NEW c \in Registrars, BeginTrans(c) PROVE ListBegun'
  <2> DEFINE q == PgBeginTrans(res[Target[c]]).p
  <2>1. UNCHANGED rcv /\ pc[c] = "begin" /\ res' \in {res, [res EXCEPT ![Target[c]] = q]}
    BY <1>2 DEF BeginTrans, coordVars
  <2>2. /\ pc'[c] = "enlist" => res' = [res EXCEPT ![Target[c]] = q]
        /\ \A g \in Registrars \ {c} : pc'[g] = pc[g]
    <3>1. \/ res' = [res EXCEPT ![Target[c]] = q] /\ \E l \in Label : Goto(c, l)
          \/ res' = [res EXCEPT ![Target[c]] = q] /\ \E v : Return(c, v)
          \/ \E v : Return(c, v)
      BY <1>2 DEF BeginTrans, Label
    <3> HIDE DEF q
    <3> QED
      BY <1>a, <3>1 DEF Goto, Return
  <2>3. q.fate = "open" /\ q.status = "Active"
    BY <1>a, <2>1, BeginSettles DEF ListDistinct
  <2>4. \A g \in Registrars \ {c} : Target[g] # Target[c]
    BY DEF OneDecision
  <2> HIDE DEF q
  <2>5. \A g \in Registrars : pc'[g] = "enlist" =>
           res'[Target[g]].fate # "none" /\ res'[Target[g]].status = "Active"
    BY <1>a, <2>1, <2>2, <2>3, <2>4 DEF ListBegun
  <2> QED
    BY <1>b, <2>1, <2>5
<1>3. ASSUME NEW c \in Registrars, Enlist(c) PROVE ListBegun'
  <2>1. /\ UNCHANGED res /\ pc[c] = "enlist"
        /\ \A g \in Registrars : pc'[g] = "enlist" => pc[g] = "enlist"
    BY <1>a, <1>3 DEF Enlist, Return
  <2>2. [r |-> Target[c], rv |-> "NotPrepared"] \in [r : Resources, rv : ResourceVote]
    BY <1>a DEF ResourceVote
  <2>3. /\ Len(rcv') = Len(rcv) + 1 /\ rcv'[Len(rcv) + 1].r = Target[c]
        /\ \A i \in 1..Len(rcv) : rcv'[i] = rcv[i]
    BY <1>a, <1>3, <2>2, AppendProperties DEF Enlist, CoordTypes
  <2>4. \A i \in 1..Len(rcv') : i \in 1..Len(rcv) \/ i = Len(rcv) + 1
    BY <1>a, <2>3
  <2> QED
    BY <2>1, <2>3, <2>4 DEF ListBegun
<1>4. ASSUME NEW r \in Resources, StatementFailsAt(r) PROVE ListBegun'
  <2>1. UNCHANGED <<rcv, pc>> /\ res' = [res EXCEPT ![r] = StatementFails(res[r])]
    BY <1>4 DEF StatementFailsAt, coordVars
  <2>2. StatementFails(res[r]).status = res[r].status
    BY <1>a, <1>4, FaultSettles DEF StatementFailsAt, SaneResources, WholeResources
  <2>3. \A g \in Registrars : pc[g] = "enlist" =>
           res'[Target[g]].fate # "none" /\ res'[Target[g]].status = "Active"
    BY <1>a, <2>1, <2>2 DEF ListBegun, Forward, FateMoves, Settles
  <2> QED
    BY <1>b, <2>1, <2>3
<1>5. ASSUME NEW c \in Markers, RollbackOnly(c) PROVE ListBegun'
  <2>1. UNCHANGED <<rcv, res>> /\ \A g \in Registrars : pc'[g] = pc[g]
    BY <1>a, <1>5 DEF RollbackOnly, Return
  <2> QED
    BY <2>1 DEF ListBegun
<1>6. CASE UNCHANGED <<rcv, res, pc>>
  BY <1>6 DEF ListBegun
<1> QED
  BY <1>1, <1>2, <1>3, <1>4, <1>5, <1>6
     DEF Around, RegisterStep, RegisterSynchronization, vars
-----------------------------------------------------------------------------
(* A failure that a call notes has been counted.                           *)
FailureCounted(c) ==
    /\ pc[c] \in Answered /\ ans[c] \in NetworkFailure => faults > 0
    /\ heur[c] => faults > 0

LEMMA InvokeCounted ==
  ASSUME TypeInv, NEW c \in Terminators, FailureCounted(c), UNCHANGED heur,
         NEW outcome, Invoke(c, outcome), outcome.answer \notin NetworkFailure
  PROVE  FailureCounted(c)'
<1>1. faults \in Nat /\ ans \in [Terminators -> Answer]
  BY CallFacts
<1> QED
  BY <1>1 DEF FailureCounted, Invoke

LEMMA TerminatorCounts ==
  ASSUME TypeInv, SaneResources, WholeResources, Deferring = {}, NEW c \in Terminators,
         FailureCounted(c),
         \/ c \in Committers /\ (Commit(c) \/ CommitStep(c))
         \/ Rollback(c) \/ RollbackStep(c)
  PROVE  FailureCounted(c)'
<1>a. /\ faults \in Nat /\ heur \in [Terminators -> BOOLEAN] /\ LoopInside(c)
      /\ pc \in [Calls -> Label] /\ c \in Calls
  BY CallFacts DEF TypeInv, LoopsInside
<1>b. ix[c] <= len[c] => /\ res[rcv[ix[c]].r] \in ResourceState
                         /\ Sane(res[rcv[ix[c]].r]) /\ Whole(res[rcv[ix[c]].r])
  BY CallFacts DEF SaneResources, WholeResources
<1>1. CASE CommitOnePhase(c) /\ c \in Committers
  <2> DEFINE o == PgCommitOnePhase(res[rcv[ix[c]].r], FALSE)
  <2>1. ix[c] <= len[c]
    BY <1>1, <1>a DEF CommitOnePhase, LoopInside
  <2>2. o.answer \notin NetworkFailure /\ o.answer # "HeuristicRollback"
    BY <1>b, <2>1, OnePhaseSettles, OnePhaseTypes DEF NetworkFailure
  <2>3. Invoke(c, o) /\ UNCHANGED heur
    BY <1>1, <2>2 DEF CommitOnePhase, TriggerFails, Entry, callVars
  <2> HIDE DEF o
  <2> QED
    BY <2>2, <2>3, InvokeCounted
<1>2. CASE PrepareNext(c) /\ c \in Committers
  <2>1. ix[c] <= len[c] /\ Invoke(c, PgPrepare(res[rcv[ix[c]].r])) /\ UNCHANGED heur
    BY <1>2 DEF PrepareNext, More, Entry, callVars
  <2>2. PgPrepare(res[rcv[ix[c]].r]).answer \notin NetworkFailure
    BY <1>b, <2>1, PgTypes DEF NetworkFailure
  <2> QED
    BY <2>1, <2>2, InvokeCounted
<1>3. CASE CommitNext(c) /\ c \in Committers /\ ~UNCHANGED <<res, pc, ans, reply, up, faults>>
  <2>1. ix[c] <= len[c] /\ Invoke(c, PgCommit(res[rcv[ix[c]].r], FALSE)) /\ UNCHANGED heur
    BY <1>3 DEF CommitNext, More, Entry, TriggerFails
  <2>2. PgCommit(res[rcv[ix[c]].r], FALSE).answer \notin NetworkFailure
    BY <1>b, <2>1, PgTypes DEF NetworkFailure
  <2> QED
    BY <2>1, <2>2, InvokeCounted
<1>4. CASE RollbackNext(c) /\ ~UNCHANGED <<res, pc, ans, reply, up, faults>>
  <2>1. ix[c] <= len[c] /\ Invoke(c, PgRollback(res[rcv[ix[c]].r])) /\ UNCHANGED heur
    BY <1>4 DEF RollbackNext, More, Entry
  <2>2. PgRollback(res[rcv[ix[c]].r]).answer \notin NetworkFailure
    BY <1>b, <2>1, PgTypes DEF NetworkFailure
  <2> QED
    BY <2>1, <2>2, InvokeCounted
<1>5. CASE UNCHANGED <<faults, ans>> /\ heur'[c] = heur[c] /\ (pc'[c] \in Answered => pc'[c] = pc[c])
  BY <1>5 DEF FailureCounted
<1>6. CASE /\ c \in Committers
           /\ \/ Commit(c) \/ BeforeCompletion(c) \/ Dispatch(c) \/ OnePhaseAnswered(c)
              \/ Voted(c) \/ Decide(c) \/ CommitEnds(c) \/ Spin(c)
  <2>1. pc'[c] \notin Answered
    BY <1>6, CommitMoves, BeforeCompletionMoves, DispatchMoves, OnePhaseAnsweredMoves,
       VotedMoves, DecideMoves, CommitEndsMoves, SpinMoves DEF Moves, Answered
  <2>2. UNCHANGED <<faults, ans, heur>>
    BY <1>6 DEF Commit, BeforeCompletion, Dispatch, OnePhaseAnswered, Voted, Decide, CommitEnds,
                Spin, callVars
  <2> QED
    BY <2>1, <2>2 DEF FailureCounted
<1>7. CASE Rollback(c) \/ RollbackEnds(c) \/ AfterCompletion(c)
  <2>1. pc'[c] \notin Answered
    BY <1>7, RollbackMoves, RollbackEndsMoves, AfterCompletionMoves DEF Moves, Answered
  <2>2. UNCHANGED <<faults, ans>> /\ (heur'[c] => heur[c])
    BY <1>7, <1>a DEF Rollback, RollbackEnds, AfterCompletion
  <2> QED
    BY <2>1, <2>2 DEF FailureCounted
<1>8. CASE (CommitAnswered(c) /\ c \in Committers) \/ RollbackAnswered(c)
  <2>1. pc'[c] \notin Answered
    BY <1>8, CommitAnsweredMoves, RollbackAnsweredMoves DEF Moves, Answered
  <2>2. UNCHANGED <<faults, ans>> /\ pc[c] \in Answered
        /\ (heur'[c] => heur[c] \/ ans[c] \in NetworkFailure)
    BY <1>8, <1>a DEF CommitAnswered, RollbackAnswered, Answered, NetworkFailure
  <2> QED
    BY <2>1, <2>2 DEF FailureCounted
<1> QED
  BY <1>1, <1>2, <1>3, <1>4, <1>5, <1>6, <1>7, <1>8
     DEF CommitStep, RollbackStep, CommitNext, RollbackNext, ResourceSpins, vars

LEMMA CountedKept ==
  ASSUME TypeInv, TypeInv', Forward, NEW c \in Terminators, FailureCounted(c), Undisturbed(c)
  PROVE  FailureCounted(c)'
<1>1. faults > 0 => faults' > 0
  <2>1. faults \in Nat /\ faults' \in Nat
    BY FaultsAssumption DEF TypeInv, TypeOK, WorldTypes
  <2> QED
    BY <2>1 DEF Forward
<1>2. ~(pc'[c] \in Answered /\ pc'[c] # pc[c])
  BY DEF Undisturbed, Answered
<1> QED
  BY <1>1, <1>2 DEF FailureCounted, Undisturbed
-----------------------------------------------------------------------------
(***************************************************************************)
(* What a call knows after a step of its own.                              *)
(***************************************************************************)
(* The state before a step, and the little that is known of the state      *)
(* after it.                                                               *)
Standing(d) ==
    /\ TypeInv /\ OneDecision /\ SaneResources /\ ListDistinct /\ Phase(d)
    /\ WorldInv /\ DecisionInv(d)
    /\ TypeInv' /\ Forward

LEMMA StandingFacts ==
  ASSUME NEW d \in Deciders, Standing(d), NEW c \in Terminators
  PROVE  /\ AnswerTrue(c) /\ LoopTrue(c, d) /\ ReplyTrue(c, d)
         /\ c = d \/ c \in Late
         /\ d \in Terminators /\ d \notin Late /\ c \in Calls
         /\ pc \in [Calls -> Label] /\ reply \in [Calls -> Reply]
         /\ ix \in [Terminators -> Nat \ {0}] /\ len \in [Terminators -> Nat]
         /\ heur \in [Terminators -> BOOLEAN] /\ ans \in [Terminators -> Answer]
         /\ ix[c] \in Nat \ {0} /\ len[c] \in Nat /\ len[d] \in Nat
         /\ Len(rcv) \in Nat /\ len[c] <= Len(rcv)
         /\ pc[c] \in Answered => ix[c] <= len[c] /\ ans[c] \in AnswerTo(pc[c])
         /\ faults \in Nat /\ faults' \in Nat /\ (faults' = 0 => faults = 0)
         /\ pc[c] \in Answered /\ ans[c] \in NetworkFailure => faults > 0
         /\ heur[c] => faults > 0
         /\ \A i \in 1..Len(rcv) : rcv[i].r \in Resources /\ res[rcv[i].r].fate # "none"
<1>1. /\ TypeInv /\ OneDecision /\ WorldInv /\ CallInv(c, d) /\ Forward
      /\ faults' \in Nat
  BY FaultsAssumption DEF Standing, DecisionInv, TypeInv, TypeOK, WorldTypes
<1>2. d \in Terminators /\ d \notin Late /\ (c = d \/ c \in Late)
  BY <1>1, Actors
<1>3. len[d] \in Nat
  BY <1>1, <1>2, CallFacts
<1>4. /\ pc[c] \in Answered /\ ans[c] \in NetworkFailure => faults > 0
      /\ heur[c] => faults > 0
      /\ \A i \in 1..Len(rcv) : res[rcv[i].r].fate # "none"
  BY <1>1 DEF WorldInv, FailuresCounted, ListBegun
<1>5. faults' = 0 => faults = 0
  BY <1>1, SettledStay
<1> QED
  BY <1>1, <1>2, <1>3, <1>4, <1>5, CallFacts DEF CallInv

(* Fates that are decided stay, so does what is said of a list of them.    *)
LEMMA StandingStays ==
  ASSUME NEW d \in Deciders, Standing(d)
  PROVE  \A i \in 1..Len(rcv) :
           /\ res[rcv[i].r].fate = "committed" => res'[rcv'[i].r].fate = "committed"
           /\ res[rcv[i].r].fate = "aborted" => res'[rcv'[i].r].fate = "aborted"
BY SettledStay DEF Standing

(* A call that goes on has not answered yet.                               *)
LEMMA GoesOn ==
  ASSUME NEW d \in Deciders, Standing(d), NEW c \in Terminators,
         pc[c] # "done", pc'[c] \notin {"idle", "done"}, reply'[c] = reply[c]
  PROVE  ReplyTrue(c, d)'
<1>1. reply'[c] = "none"
  BY StandingFacts DEF ReplyTrue
<1> QED
  BY <1>1 DEF ReplyTrue

(* A call that read no list can say anything of it.                        *)
LEMMA ReadNothing ==
  ASSUME NEW d \in Deciders, Standing(d), NEW c \in Terminators,
         pc'[c] = "done", len'[c] = 0
  PROVE  CallInv(c, d)'
<1>1. 1..len'[c] = {}
  BY SMT
<1> QED
  BY <1>1 DEF CallInv, AnswerTrue, LoopTrue, ReplyTrue, AllCommitted

LEMMA CallWaits ==
  ASSUME NEW d \in Deciders, Standing(d), NEW c \in Terminators, UNCHANGED vars
  PROVE  CallInv(c, d)'
<1>1. Undisturbed(c) /\ len'[d] = len[d] /\ CallInv(c, d) /\ TypeInv /\ Forward
  BY DEF vars, Undisturbed, Standing, DecisionInv
<1> QED
  BY <1>1, CallKept

LEMMA CallBegins ==
  ASSUME NEW d \in Deciders, Standing(d), NEW c \in Committers,
         Commit(c) \/ BeforeCompletion(c) \/ Dispatch(c) \/ Spin(c)
  PROVE  CallInv(c, d)'
<1>a. c \in Terminators
  BY DEF Terminators
<1>b. /\ pc \in [Calls -> Label] /\ c \in Calls
      /\ ix \in [Terminators -> Nat \ {0}] /\ len \in [Terminators -> Nat]
      /\ pc[c] = "idle" => len[c] = 0
  BY <1>a, StandingFacts DEF ReplyTrue
<1>c. ASSUME pc'[c] \in {"before", "rollback", "spin", "dispatch", "onephase", "prepare"},
             pc[c] # "done", reply' = reply
      PROVE  CallInv(c, d)'
  BY <1>a, <1>c, GoesOn DEF CallInv, AnswerTrue, LoopTrue
<1>1. CASE Commit(c)
  <2>1. CASE /\ pc'[c] \in {"before", "rollback", "spin"} /\ pc[c] # "done" /\ reply' = reply
    BY <1>c, <2>1
  <2>2. CASE pc'[c] = "recommit" /\ ix'[c] = 1 /\ pc[c] # "done" /\ reply' = reply
    <3>1. Passed(c)' = {}
      BY <2>2 DEF Passed
    <3> QED
      BY <1>a, <2>2, <3>1, GoesOn DEF CallInv, AnswerTrue, LoopTrue, AllCommitted
  <2>3. CASE pc'[c] = "done" /\ len'[c] = 0
    BY <1>a, <2>3, ReadNothing
  <2> QED
    BY <1>1, <1>a, <1>b, <2>1, <2>2, <2>3 DEF Commit, Loop, Goto, Return
<1>2. CASE BeforeCompletion(c)
  BY <1>2, <1>b, <1>c DEF BeforeCompletion, Goto
<1>3. CASE Dispatch(c)
  <2>1. CASE len[c] = 0
    BY <1>3, <1>a, <1>b, <2>1, ReadNothing DEF Dispatch, Return
  <2>2. CASE len[c] # 0
    BY <1>3, <1>b, <1>c, <2>2 DEF Dispatch, Goto
  <2> QED
    BY <2>1, <2>2
<1>4. CASE Spin(c)
  <2>1. status # "RolledBack"
    BY DEF Standing, Phase, Undecided, OnePhase, Voting, Committing, Undoing
  <2> QED
    BY <1>4, <1>a, <2>1, CallWaits DEF Spin, vars, coordVars, callVars
<1> QED
  BY <1>1, <1>2, <1>3, <1>4

(* The decision's phase, told by where a call is.                          *)
LEMMA PhaseOfCall ==
  ASSUME NEW d \in Deciders, Standing(d), NEW c \in Terminators
  PROVE  /\ pc[c] \in {"before", "dispatch", "onephase"} => c = d /\ Undecided(d)
         /\ pc[c] = "onephased" => c = d /\ OnePhase(d)
         /\ pc[c] \in {"prepare", "voted", "rollback"} => c = d /\ Voting(d)
         /\ pc[c] \in {"commit", "committed", "after"} => c = d /\ Committing(d)
         /\ pc[c] \in {"recommit", "recommitted"} => c # d /\ Committing(d)
         /\ pc[c] \in {"undo", "undone"} => c = d /\ Undoing(d)
         /\ pc[c] \in {"redo", "redone"} => c # d /\ Undoing(d)
         /\ pc[c] \in {"undoAfter", "spin"} => Undoing(d)
<1>1. CASE c = d
  BY <1>1 DEF Standing, Phase, Undecided, OnePhase, Voting, Committing, Undoing
<1>2. CASE c \in Late
  BY <1>2, StandingFacts DEF Standing, Phase, Undecided, OnePhase, Voting, Committing, Undoing, LateAt
<1> QED
  BY <1>1, <1>2, StandingFacts

LEMMA CallAsks ==
  ASSUME NEW d \in Deciders, Standing(d), NEW c \in Committers,
         CommitOnePhase(c) \/ PrepareNext(c)
  PROVE  CallInv(c, d)'
<1>a. c \in Terminators
  BY DEF Terminators
<1>b. /\ pc \in [Calls -> Label] /\ c \in Calls /\ Deferring = {} /\ TypeInv
  BY <1>a, StandingFacts DEF Standing, OneDecision
<1>c. ix[c] \in 1..len[c] => /\ res[rcv[ix[c]].r] \in ResourceState
                             /\ Sane(res[rcv[ix[c]].r]) /\ Whole(res[rcv[ix[c]].r])
                             /\ res[rcv[ix[c]].r].fate # "none"
                             /\ rcv[ix[c]].r \in Resources
  <2>1. WholeResources
    BY DEF Standing, WorldInv
  <2> QED
    BY <1>a, <1>b, <2>1, StandingFacts, CallFacts DEF Standing, SaneResources, WholeResources
<1>1. CASE CommitOnePhase(c)
  <2>1. ix[c] \in 1..len[c] /\ UNCHANGED <<rcv, ix>> /\ pc'[c] = "onephased"
        /\ reply' = reply /\ pc[c] # "done"
    BY <1>1, <1>a, <1>b DEF CommitOnePhase, TypeInv, LoopsInside, LoopInside, coordVars, callVars,
                            Goto
  <2> DEFINE o == PgCommitOnePhase(res[rcv[ix[c]].r], FALSE)
  <2>2. /\ o.answer \in {"ok", "TRANSACTION_ROLLEDBACK", "spins"}
        /\ o.answer = "ok" => o.p.fate = "committed"
        /\ o.answer = "TRANSACTION_ROLLEDBACK" => o.p.fate = "aborted"
    <3>1. NothingCommitted
      BY <1>1, <1>a, PhaseOfCall DEF CommitOnePhase, Undecided
    <3>2. res[rcv[ix[c]].r].fate # "committed"
      BY <1>c, <2>1, <3>1 DEF NothingCommitted
    <3> QED
      BY <1>c, <2>1, <3>2, OnePhaseSettles, OnePhaseTypes
  <2>3. Invoke(c, o)
    BY <1>1, <1>b, <2>2 DEF CommitOnePhase, TriggerFails, Entry
  <2>4. ix[c] <= len[c]
    BY <2>1
  <2> HIDE DEF o
  <2>5. AnswerTrue(c)'
    BY <1>a, <1>b, <2>1, <2>2, <2>3, <2>4, InvokeEffect DEF AnswerTrue, NetworkFailure
  <2> QED
    BY <1>a, <2>1, <2>5, GoesOn DEF CallInv, LoopTrue
<1>2. CASE PrepareNext(c)
  <2>1. /\ ix[c] \in 1..len[c] /\ ix[c] <= len[c] /\ UNCHANGED <<rcv, ix>> /\ pc'[c] = "voted"
        /\ reply' = reply /\ pc[c] = "prepare"
    BY <1>2, <1>a, <1>b, StandingFacts DEF PrepareNext, More, coordVars, callVars, Goto
  <2>2. c = d /\ NothingCommitted /\ Unasked(ix[c] - 1)
    BY <1>a, <2>1, PhaseOfCall DEF Voting, Standing, DecisionInv, AskedInOrder
  <2>3. res[rcv[ix[c]].r].status = "Active" /\ res[rcv[ix[c]].r].fate # "committed"
    BY <1>a, <1>c, <2>1, <2>2, StandingFacts DEF Unasked, NothingCommitted
  <2> DEFINE o == PgPrepare(res[rcv[ix[c]].r])
  <2>4. o.answer = "VoteRollback" => o.p.fate = "aborted"
    BY <1>c, <2>1, <2>3, PrepareSettles
  <2>5. Invoke(c, o)
    BY <1>2 DEF PrepareNext, Entry
  <2> HIDE DEF o
  <2>6. AnswerTrue(c)'
    BY <1>a, <1>b, <2>1, <2>4, <2>5, InvokeEffect DEF AnswerTrue, NetworkFailure
  <2> QED
    BY <1>a, <2>1, <2>6, GoesOn DEF CallInv, LoopTrue
<1> QED
  BY <1>1, <1>2

(* The entry that a loop leaves behind.                                    *)
LEMMA PassOne ==
  ASSUME NEW d \in Deciders, Standing(d), NEW c \in Terminators,
         Advance(c), len'[c] = len[c]
  PROVE  \A i \in Passed(c)' : i \in Passed(c) \/ (i = ix[c] /\ i \in 1..len[c])
<1>1. ix'[c] = ix[c] + 1
  BY StandingFacts DEF Advance
<1> QED
  BY <1>1, StandingFacts DEF Passed

LEMMA CallCommits ==
  ASSUME NEW d \in Deciders, Standing(d), NEW c \in Committers, CommitNext(c)
  PROVE  CallInv(c, d)'
<1>a. c \in Terminators
  BY DEF Terminators
<1>b. /\ pc \in [Calls -> Label] /\ c \in Calls /\ Deferring = {} /\ TypeInv
      /\ len'[c] = len[c] /\ len'[d] = len[d] /\ heur'[c] = heur[c] /\ UNCHANGED rcv
      /\ pc[c] \in {"commit", "recommit"} /\ ix[c] \in 1..len[c] /\ ix[c] <= len[c]
      /\ \A i \in 1..len[c] : i \in 1..Len(rcv)
  BY <1>a, StandingFacts DEF Standing, OneDecision, CommitNext, More, coordVars
<1>c. Committing(d) /\ VotesTrue(d) /\ AskedInOrder(d) /\ Phase(d) /\ LoopTrue(c, d)
      /\ (pc[c] = "commit" <=> c = d)
  BY <1>a, <1>b, PhaseOfCall, StandingFacts DEF Standing, DecisionInv
<1>d. \A J : J \subseteq 1..Len(rcv) /\ AllCommitted(J) => AllCommitted(J)'
  BY StandingStays DEF AllCommitted
<1>1. CASE CommitCalls(c)
  <2>1. /\ ix[c] \in 1..len[d]
        /\ Ready(res[rcv[ix[c]].r]) \/ Finally(res[rcv[ix[c]].r])
    BY <1>1, CommitCallsIn DEF Standing, DecisionInv
  <2> DEFINE o == PgCommit(res[rcv[ix[c]].r], FALSE)
  <2>2. o.answer = "ok" /\ o.p.fate = "committed"
    <3>1. /\ res[rcv[ix[c]].r] \in ResourceState
          /\ Sane(res[rcv[ix[c]].r]) /\ Whole(res[rcv[ix[c]].r])
      BY <1>a, <1>b, CallFacts DEF Standing, SaneResources, WorldInv, WholeResources
    <3> QED
      BY <2>1, <3>1, CommitSettles
  <2>3. /\ Invoke(c, o) /\ UNCHANGED <<ix, reply>>
        /\ pc'[c] = IF pc[c] = "commit" THEN "committed" ELSE "recommitted"
    BY <1>1, <1>b DEF CommitNext, CommitCalls, TriggerFails, Entry, Goto
  <2> HIDE DEF o
  <2>4. AnswerTrue(c)'
    BY <1>a, <1>b, <2>2, <2>3, InvokeEffect DEF AnswerTrue, NetworkFailure
  <2>5. Passed(c)' = Passed(c) /\ Passed(c) \subseteq 1..Len(rcv)
    BY <1>b, <2>3 DEF Passed
  <2>6. {i \in Passed(c) : i <= len[d]}' = {i \in Passed(c) : i <= len[d]}
    BY <1>b, <2>5
  <2>7. LoopTrue(c, d)'
    <3>1. /\ pc'[c] \in {"committed", "recommitted"}
          /\ pc'[c] = "committed" <=> pc[c] = "commit"
      BY <1>b, <2>3
    <3>2. ix'[c] <= len'[d]
      BY <1>b, <2>1, <2>3
    <3>3. {i \in Passed(c) : i <= len[d]} \subseteq 1..Len(rcv)
      BY <2>5
    <3>4. pc'[c] = "committed" /\ ~heur'[c] => AllCommitted(Passed(c))'
      BY <1>b, <1>c, <1>d, <2>5, <3>1 DEF LoopTrue
    <3>5. pc'[c] = "recommitted" => AllCommitted({i \in Passed(c) : i <= len[d]})'
      <4>1. pc'[c] = "recommitted" => AllCommitted({i \in Passed(c) : i <= len[d]})
        BY <1>b, <1>c, <3>1 DEF LoopTrue
      <4> QED
        BY <1>d, <2>6, <3>3, <4>1
    <3> QED
      BY <3>1, <3>2, <3>4, <3>5 DEF LoopTrue
  <2> QED
    BY <1>a, <1>b, <2>3, <2>4, <2>7, GoesOn DEF CallInv
<1>2. CASE ~CommitCalls(c)
  <2>1. Advance(c) /\ UNCHANGED <<res, pc, reply>>
    BY <1>2 DEF CommitNext, CommitCalls
  <2>2. pc[c] = "recommit" /\ rcv[ix[c]].rv # "VoteCommit"
    <3>1. rcv[ix[c]].rv # "VoteRollback"
      BY <1>b, <1>c DEF VotesTrue
    <3> QED
      BY <1>2, <1>b, <3>1 DEF CommitCalls, Entry
  <2>3. ix[c] <= len[d] => res'[rcv'[ix[c]].r].fate = "committed"
    <3>1. ix[c] <= len[d] => rcv[ix[c]].rv = "Committed"
      BY <1>a, <1>b, <1>c, <2>2, StandingFacts DEF Committing, AllIn
    <3> QED
      BY <1>b, <1>c, <2>1, <3>1 DEF VotesTrue
  <2>4. AllCommitted({i \in Passed(c) : i <= len[d]})'
    <3>1. \A i \in Passed(c)' : i \in Passed(c) \/ (i = ix[c] /\ i \in 1..len[c])
      BY <1>a, <1>b, <2>1, PassOne
    <3>2. \A i \in Passed(c) : i <= len[d] => res[rcv[i].r].fate = "committed"
      BY <1>c, <2>2 DEF LoopTrue, AllCommitted
    <3> QED
      BY <1>b, <2>1, <2>3, <3>1, <3>2 DEF AllCommitted
  <2>5. LoopTrue(c, d)' /\ AnswerTrue(c)'
    BY <2>1, <2>2, <2>4 DEF LoopTrue, AnswerTrue
  <2> QED
    BY <1>a, <2>1, <2>2, <2>5, GoesOn DEF CallInv
<1> QED
  BY <1>1, <1>2

(* A loop that has called its entry, or passed it over.                    *)
LEMMA CallUndoes ==
  ASSUME NEW d \in Deciders, Standing(d), NEW c \in Terminators, RollbackNext(c)
  PROVE  CallInv(c, d)'
<1>b. /\ pc \in [Calls -> Label] /\ c \in Calls /\ TypeInv
      /\ len'[c] = len[c] /\ len'[d] = len[d] /\ heur'[c] = heur[c] /\ UNCHANGED rcv
      /\ pc[c] \in {"undo", "redo"} /\ ix[c] \in 1..len[c] /\ ix[c] <= len[c]
      /\ \A i \in 1..len[c] : i \in 1..Len(rcv)
  BY StandingFacts DEF Standing, RollbackNext, More, coordVars
<1>c. NothingCommitted /\ VotesTrue(d) /\ LoopTrue(c, d)
  BY <1>b, PhaseOfCall, StandingFacts DEF Standing, DecisionInv, Undoing
<1>d. Sure(c)' => Sure(c)
  BY <1>b, StandingFacts DEF Sure
<1>e. \A i \in Passed(c) : i \in 1..Len(rcv)
  BY <1>b DEF Passed
<1>1. CASE Entry(c).rv \in {"VoteCommit", "NotPrepared"}
  <2> DEFINE o == PgRollback(res[rcv[ix[c]].r])
  <2>1. o.answer = "ok" => o.p.fate = "aborted"
    <3>1. /\ res[rcv[ix[c]].r] \in ResourceState
          /\ Sane(res[rcv[ix[c]].r]) /\ Whole(res[rcv[ix[c]].r])
          /\ res[rcv[ix[c]].r].fate \notin {"none", "committed"}
      BY <1>b, <1>c, CallFacts, StandingFacts
         DEF Standing, SaneResources, WorldInv, WholeResources, NothingCommitted
    <3> QED
      BY <3>1, RollbackSettles
  <2>2. /\ Invoke(c, o) /\ UNCHANGED <<ix, reply>>
        /\ pc'[c] = IF pc[c] = "undo" THEN "undone" ELSE "redone"
    BY <1>1, <1>b DEF RollbackNext, Entry, Goto
  <2> HIDE DEF o
  <2>3. AnswerTrue(c)'
    BY <1>b, <2>1, <2>2, InvokeEffect DEF AnswerTrue, NetworkFailure
  <2>4. Passed(c)' = Passed(c)
    BY <1>b, <2>2 DEF Passed
  <2>5. LoopTrue(c, d)'
    <3>1. pc'[c] \in {"undone", "redone"} /\ (Sure(c)' => AllAborted(Passed(c)))
      BY <1>b, <1>c, <1>d, <2>2 DEF LoopTrue
    <3>2. Sure(c)' => AllAborted(Passed(c))'
      BY <1>e, <2>4, <3>1, StandingStays DEF AllAborted
    <3> QED
      BY <3>1, <3>2 DEF LoopTrue
  <2> QED
    BY <1>b, <2>2, <2>3, <2>5, GoesOn DEF CallInv
<1>2. CASE Entry(c).rv \notin {"VoteCommit", "NotPrepared"}
  <2>1. Advance(c) /\ UNCHANGED <<res, pc, reply>>
    BY <1>2 DEF RollbackNext
  <2>2. Sure(c) => res[rcv[ix[c]].r].fate = "aborted"
    <3>1. rcv[ix[c]].r \in Resources /\ rcv[ix[c]].rv \in {"Committed", "RolledBack"}
      BY <1>2, <1>b, <1>c, StandingFacts DEF VotesTrue, Entry
    <3>2. rcv[ix[c]].rv = "RolledBack"
      BY <1>b, <1>c, <3>1 DEF VotesTrue, NothingCommitted
    <3>3. Sure(c) => faults = 0 \/ d \in Rollbackers
      BY StandingFacts DEF Sure
    <3> QED
      BY <1>b, <1>c, <3>2, <3>3 DEF VotesTrue
  <2>3. Sure(c)' => AllAborted(Passed(c))'
    <3>1. \A i \in Passed(c)' : i \in Passed(c) \/ i = ix[c]
      BY <1>b, <2>1, PassOne
    <3>2. Sure(c) => \A i \in Passed(c) : res[rcv[i].r].fate = "aborted"
      BY <1>b, <1>c DEF LoopTrue, AllAborted
    <3> QED
      BY <1>b, <1>d, <2>1, <2>2, <3>1, <3>2 DEF AllAborted
  <2>4. LoopTrue(c, d)' /\ AnswerTrue(c)'
    BY <1>b, <2>1, <2>3 DEF LoopTrue, AnswerTrue
  <2> QED
    BY <1>b, <2>1, <2>4, GoesOn DEF CallInv
<1> QED
  BY <1>1, <1>2

(* What a call does with an answer, or with the end of the service.        *)
LEMMA CallEndsBadly ==
  ASSUME NEW d \in Deciders, Standing(d), NEW c \in Terminators, pc[c] \notin {"idle", "done"},
         NEW v \in Reply, Throw(c, v), v # "ok", UNCHANGED len,
         (up' /\ faults' = 0 =>
            \A i \in 1..len[c] : i <= len[d] => res'[rcv'[i].r].fate \in {"committed", "aborted"})
  PROVE  CallInv(c, d)'
<1>1. pc'[c] = "done" /\ reply'[c] # "ok"
  BY StandingFacts DEF Throw, Terminate, Return
<1> QED
  BY <1>1 DEF CallInv, AnswerTrue, LoopTrue, ReplyTrue

LEMMA CallHearsVote ==
  ASSUME NEW d \in Deciders, Standing(d), NEW c \in Committers, OnePhaseAnswered(c) \/ Voted(c)
  PROVE  CallInv(c, d)'
<1>a. c \in Terminators
  BY DEF Terminators
<1>b. /\ pc \in [Calls -> Label] /\ c \in Calls /\ UNCHANGED len /\ faults' = faults
      /\ pc[c] \in {"onephased", "voted"}
      /\ ans[c] \in AnswerTo(pc[c]) \ {"spins"} /\ AnswerTrue(c)
      /\ ans[c] \in NetworkFailure => faults > 0
      /\ \A i \in 1..len[c] : i \in 1..Len(rcv)
  BY <1>a, StandingFacts DEF OnePhaseAnswered, Voted, Answered, callVars
<1>1. CASE OnePhaseAnswered(c)
  <2>1. /\ pc[c] = "onephased" /\ UNCHANGED <<rcv, res>>
        /\ ix[c] = 1 /\ \A i \in 1..len[c] : i = 1
    BY <1>1, <1>a DEF OnePhaseAnswered, Standing, TypeInv, LoopsInside, LoopInside, coordVars
  <2>2. /\ ans[c] \in {"ok", "TRANSACTION_ROLLEDBACK"} \cup NetworkFailure
        /\ ans[c] = "ok" => \A i \in 1..len[c] : res'[rcv'[i].r].fate = "committed"
        /\ ans[c] = "TRANSACTION_ROLLEDBACK" =>
              \A i \in 1..len[c] : res'[rcv'[i].r].fate = "aborted"
    BY <1>b, <2>1 DEF AnswerTo, AnswerTrue
  <2>3. CASE \E v \in Reply \ {"ok"} : Throw(c, v) /\ ans[c] # "ok"
    <3>1. faults' = 0 =>
            \A i \in 1..len[c] : i <= len[d] => res'[rcv'[i].r].fate \in {"committed", "aborted"}
      BY <1>b, <2>2, <2>3, StandingFacts
    <3> QED
      BY <1>a, <1>b, <2>3, <3>1, CallEndsBadly
  <2>4. CASE Return(c, "ok") /\ (ReportHeuristics => ans[c] = "ok")
    <3>1. pc'[c] = "done" /\ reply'[c] = "ok" /\ ans[c] # "TRANSACTION_ROLLEDBACK"
      BY <1>1, <1>a, <1>b, <2>1, <2>4, StandingFacts DEF Return, OnePhaseAnswered, Throw, Escaping
    <3>2. faults' = 0 => \A i \in 1..len[c] : res'[rcv'[i].r].fate = "committed"
      BY <1>b, <2>2, <3>1, StandingFacts
    <3> QED
      BY <1>b, <2>2, <2>4, <3>1, <3>2 DEF CallInv, AnswerTrue, LoopTrue, ReplyTrue, AllCommitted
  <2> QED
    BY <1>1, <2>2, <2>3, <2>4 DEF OnePhaseAnswered, Reply, NetworkFailure
<1>2. CASE Voted(c)
  <2>1. CASE \E v \in Reply \ {"ok"} : Throw(c, v) /\ ans[c] \in NetworkFailure
    <3>1. faults' # 0
      BY <1>b, <2>1, StandingFacts
    <3> QED
      BY <1>a, <1>b, <2>1, <3>1, CallEndsBadly
  <2>2. CASE pc'[c] = "prepare" /\ reply' = reply
    BY <1>a, <1>b, <2>2, GoesOn DEF CallInv, AnswerTrue, LoopTrue
  <2> QED
    BY <1>2, <1>b, <2>1, <2>2 DEF Voted, Goto, AnswerTo, NetworkFailure, Reply
<1> QED
  BY <1>1, <1>2

LEMMA CallHears ==
  ASSUME NEW d \in Deciders, Standing(d), NEW c \in Terminators,
         (c \in Committers /\ CommitAnswered(c)) \/ RollbackAnswered(c)
  PROVE  CallInv(c, d)'
<1>b. /\ pc \in [Calls -> Label] /\ c \in Calls /\ UNCHANGED len /\ faults' = faults
      /\ UNCHANGED res /\ pc[c] \in {"committed", "recommitted", "undone", "redone"}
      /\ ans[c] \in AnswerTo(pc[c]) \ {"spins"} /\ AnswerTrue(c) /\ LoopTrue(c, d)
      /\ ans[c] \in NetworkFailure => faults > 0
      /\ ix[c] \in 1..len[c] /\ \A i \in 1..len[c] : i \in 1..Len(rcv)
      /\ heur \in [Terminators -> BOOLEAN]
  BY StandingFacts DEF CommitAnswered, RollbackAnswered, Answered
<1>c. ans[c] \in NetworkFailure \cup {"ok"}
  BY <1>b DEF AnswerTo, AnswerTrue
<1>1. CASE \E v \in Reply \ {"ok"} : Throw(c, v) /\ ans[c] \in NetworkFailure
  <2>1. faults' # 0
    BY <1>b, <1>1, StandingFacts
  <2> QED
    BY <1>b, <1>1, <2>1, CallEndsBadly
<1>2. CASE /\ Advance(c) /\ UNCHANGED reply
           /\ pc'[c] = CASE pc[c] = "committed" -> "commit" [] pc[c] = "recommitted" -> "recommit"
                         [] pc[c] = "undone" -> "undo" [] OTHER -> "redo"
           /\ \/ ans[c] = "ok" /\ heur'[c] = heur[c]
              \/ ans[c] \in NetworkFailure /\ heur'[c] = TRUE
                 /\ pc[c] \in {"committed", "undone"}
  <2>1. \A i \in Passed(c)' : i \in Passed(c) \/ i = ix[c]
    BY <1>b, <1>2, PassOne
  <2>2. \A i \in Passed(c) : i \in 1..Len(rcv)
    BY <1>b DEF Passed
  <2>3. CASE pc[c] \in {"committed", "recommitted"}
    <3>1. pc'[c] = "commit" /\ ~heur'[c] => AllCommitted(Passed(c))'
      <4>1. pc[c] = "committed" /\ ~heur[c] /\ ans[c] = "ok" =>
              /\ \A i \in Passed(c) : res[rcv[i].r].fate = "committed"
              /\ res[rcv[ix[c]].r].fate = "committed"
        BY <1>b DEF LoopTrue, AllCommitted, AnswerTrue
      <4>2. pc'[c] = "commit" /\ ~heur'[c] => pc[c] = "committed" /\ ~heur[c] /\ ans[c] = "ok"
        BY <1>2
      <4> QED
        BY <1>b, <2>1, <2>2, <4>1, <4>2, StandingStays DEF AllCommitted
    <3>2. pc'[c] = "recommit" => AllCommitted({i \in Passed(c) : i <= len[d]})'
      <4>1. pc[c] = "recommitted" /\ ans[c] = "ok" =>
              /\ \A i \in Passed(c) : i <= len[d] => res[rcv[i].r].fate = "committed"
              /\ res[rcv[ix[c]].r].fate = "committed"
        BY <1>b DEF LoopTrue, AllCommitted, AnswerTrue
      <4>2. pc'[c] = "recommit" => pc[c] = "recommitted" /\ ans[c] = "ok"
        BY <1>b, <1>2
      <4> QED
        BY <1>b, <2>1, <2>2, <4>1, <4>2, StandingStays DEF AllCommitted
    <3>3. pc'[c] \in {"commit", "recommit"}
      BY <1>2, <2>3
    <3>4. LoopTrue(c, d)' /\ AnswerTrue(c)'
      BY <3>1, <3>2, <3>3 DEF LoopTrue, AnswerTrue
    <3> QED
      BY <1>b, <1>2, <3>3, <3>4, GoesOn DEF CallInv
  <2>4. CASE pc[c] \in {"undone", "redone"}
    <3>1. pc'[c] \in {"undo", "redo"}
      BY <1>2, <2>4
    <3>2. Sure(c)' => Sure(c) /\ ans[c] = "ok"
      BY <1>b, <1>2, StandingFacts DEF Sure
    <3>3. Sure(c) /\ ans[c] = "ok" =>
             /\ \A i \in Passed(c) : res[rcv[i].r].fate = "aborted"
             /\ res[rcv[ix[c]].r].fate = "aborted"
      BY <1>b, <2>4 DEF LoopTrue, AllAborted, AnswerTrue
    <3>4. Sure(c)' => AllAborted(Passed(c))'
      BY <1>b, <2>1, <2>2, <3>2, <3>3, StandingStays DEF AllAborted
    <3>5. LoopTrue(c, d)' /\ AnswerTrue(c)'
      BY <3>1, <3>4 DEF LoopTrue, AnswerTrue
    <3> QED
      BY <1>b, <1>2, <3>1, <3>5, GoesOn DEF CallInv
  <2> QED
    BY <1>b, <2>3, <2>4
<1>3. CASE CommitAnswered(c)
  <2>1. pc[c] \in {"committed", "recommitted"}
    BY <1>3 DEF CommitAnswered
  <2> QED
    BY <1>1, <1>2, <1>3, <1>b, <1>c, <2>1, StandingFacts DEF CommitAnswered, Goto, NetworkFailure, Reply
<1>4. CASE RollbackAnswered(c)
  <2>1. pc[c] \in {"undone", "redone"}
    BY <1>4 DEF RollbackAnswered
  <2> QED
    BY <1>1, <1>2, <1>4, <1>b, <1>c, <2>1, StandingFacts DEF RollbackAnswered, Goto, NetworkFailure, Reply
<1> QED
  BY <1>3, <1>4

LEMMA CallEnds ==
  ASSUME NEW d \in Deciders, Standing(d), NEW c \in Terminators,
         \/ c \in Committers /\ (Decide(c) \/ CommitEnds(c))
         \/ Rollback(c) \/ RollbackEnds(c)
  PROVE  CallInv(c, d)'
<1>b. /\ pc \in [Calls -> Label] /\ c \in Calls /\ UNCHANGED <<rcv, res>> /\ faults' = faults
      /\ pc[c] # "done" /\ LoopTrue(c, d) /\ (heur[c] => faults > 0)
      /\ len \in [Terminators -> Nat] /\ ix \in [Terminators -> Nat \ {0}]
      /\ \A i \in 1..len[c] : i \in 1..Len(rcv)
      /\ ix[c] \in Nat /\ len[c] \in Nat /\ d \in Terminators
  BY StandingFacts DEF Decide, CommitEnds, Rollback, RollbackEnds
(* At the end of a loop every entry has been passed.                       *)
<1>c. ~More(c) => \A i \in 1..len[c] : i \in Passed(c)
  BY <1>b DEF More, Passed
(* A loop that starts has passed nothing.                                  *)
<1>d. ASSUME pc'[c] \in {"commit", "undo", "redo"}, ix'[c] = 1, reply' = reply
      PROVE  CallInv(c, d)'
  <2>1. Passed(c)' = {}
    BY <1>d DEF Passed
  <2> QED
    BY <1>b, <1>d, <2>1, GoesOn DEF CallInv, AnswerTrue, LoopTrue, AllCommitted, AllAborted
<1>1. CASE Decide(c)
  <2>1. CASE pc'[c] = "rollback" /\ reply' = reply
    BY <1>b, <2>1, GoesOn DEF CallInv, AnswerTrue, LoopTrue
  <2> QED
    BY <1>1, <1>b, <1>d, <2>1 DEF Decide, Goto
<1>2. CASE CommitEnds(c)
  <2>1. UNCHANGED <<len, heur>>
    BY <1>2 DEF CommitEnds
  <2>2. CASE pc[c] = "commit"
    <3>1. pc'[c] = "after" /\ reply' = reply
      BY <1>2, <1>b, <2>2 DEF CommitEnds, Goto
    <3>2. ~heur'[c] => AllCommitted(1..len[c])'
      BY <1>2, <1>b, <1>c, <2>1, <2>2 DEF CommitEnds, LoopTrue, AllCommitted
    <3> QED
      BY <1>b, <3>1, <3>2, GoesOn DEF CallInv, AnswerTrue, LoopTrue
  <2>3. CASE pc[c] = "recommit"
    <3>1. pc'[c] = "done"
      BY <1>2, <1>b, <2>3 DEF CommitEnds, Return
    <3>2. \A i \in 1..len[c] : i <= len[d] => res[rcv[i].r].fate = "committed"
      BY <1>2, <1>b, <1>c, <2>3 DEF CommitEnds, LoopTrue, AllCommitted
    <3> QED
      BY <1>b, <2>1, <3>1, <3>2 DEF CallInv, AnswerTrue, LoopTrue, ReplyTrue, AllCommitted
  <2> QED
    BY <1>2, <2>2, <2>3 DEF CommitEnds
<1>3. CASE Rollback(c)
  <2>1. CASE status \in {"Active", "MarkedRollback", "RollingBack"}
    BY <1>3, <1>b, <1>d, <2>1 DEF Rollback, Loop, Goto
  <2>2. CASE status \notin {"Active", "MarkedRollback", "RollingBack"}
    <3>1. pc[c] = "idle"
      BY <1>3, <1>b, <2>2, PhaseOfCall DEF Rollback, Voting
    <3>2. pc'[c] = "done" /\ UNCHANGED len
      BY <1>3, <1>b, <2>2 DEF Rollback, RollbackReturns, Return
    <3>3. len[c] = 0
      BY <3>1, StandingFacts DEF ReplyTrue
    <3> QED
      BY <3>2, <3>3, ReadNothing
  <2> QED
    BY <2>1, <2>2
<1>4. CASE RollbackEnds(c)
  <2>1. UNCHANGED <<len, heur>> /\ pc[c] \in {"undo", "redo"}
    BY <1>4 DEF RollbackEnds
  <2>2. CASE pc[c] = "undo" /\ heur[c]
    <3>1. Throw(c, "HeuristicHazard") /\ faults' # 0
      BY <1>4, <1>b, <2>2, StandingFacts DEF RollbackEnds
    <3> QED
      BY <1>b, <2>1, <3>1, CallEndsBadly DEF Reply
  <2>3. CASE ~(pc[c] = "undo" /\ heur[c])
    <3>1. pc'[c] = "undoAfter" /\ reply' = reply
      BY <1>4, <1>b, <2>3 DEF RollbackEnds, Goto
    <3>2. faults = 0 \/ c \in Rollbackers \ Late => Sure(c)
      BY <2>1, <2>3, PhaseOfCall, StandingFacts DEF Sure
    <3>3. Sure(c) => AllAborted(1..len[c])
      BY <1>4, <1>b, <1>c, <2>1 DEF RollbackEnds, LoopTrue, AllAborted
    <3>4. faults' = 0 \/ c \in Rollbackers \ Late => AllAborted(1..len[c])'
      BY <1>b, <2>1, <3>2, <3>3 DEF AllAborted
    <3> QED
      BY <1>b, <3>1, <3>4, GoesOn DEF CallInv, AnswerTrue, LoopTrue
  <2> QED
    BY <2>2, <2>3
<1> QED
  BY <1>1, <1>2, <1>3, <1>4

LEMMA CallCompletes ==
  ASSUME NEW d \in Deciders, Standing(d), NEW c \in Terminators, AfterCompletion(c)
  PROVE  CallInv(c, d)'
<1>b. /\ pc \in [Calls -> Label] /\ reply \in [Calls -> Reply] /\ c \in Calls
      /\ UNCHANGED <<rcv, res, len, heur>>
      /\ faults' = faults /\ pc[c] \in {"after", "undoAfter"}
      /\ LoopTrue(c, d) /\ (heur[c] => faults > 0) /\ faults \in Nat
  BY StandingFacts DEF AfterCompletion
<1>c. /\ pc[c] = "after" /\ ~heur[c] =>
           \A i \in 1..len[c] : res'[rcv'[i].r].fate = "committed"
      /\ pc[c] = "undoAfter" /\ faults' = 0 =>
           \A i \in 1..len[c] : res'[rcv'[i].r].fate = "aborted"
  BY <1>b DEF LoopTrue, AllCommitted, AllAborted
<1>1. CASE UNCHANGED <<pc, reply>>
  <2>1. LoopTrue(c, d)'
    BY <1>b, <1>1 DEF LoopTrue, AllCommitted, AllAborted
  <2> QED
    BY <1>b, <1>1, <2>1, GoesOn DEF CallInv, AnswerTrue
<1>2. CASE pc[c] = "undoAfter" /\ RollbackReturns(c)
  <2>1. pc'[c] = "done" /\ (c \in Committers => reply'[c] # "ok")
    BY <1>2, <1>b DEF RollbackReturns, Return
  <2> QED
    BY <1>b, <1>c, <1>2, <2>1 DEF CallInv, AnswerTrue, LoopTrue, ReplyTrue
<1>3. CASE pc[c] = "after" /\ ReportHeuristics /\ heur[c] /\ Throw(c, "HeuristicHazard")
  BY <1>b, <1>3, CallEndsBadly DEF Reply
<1>4. CASE pc[c] = "after" /\ (ReportHeuristics => ~heur[c]) /\ Return(c, "ok")
  <2>1. pc'[c] = "done"
    BY <1>4, <1>b DEF Return
  <2> QED
    BY <1>b, <1>c, <1>4, <2>1 DEF CallInv, AnswerTrue, LoopTrue, ReplyTrue, AllCommitted
<1> QED
  BY <1>b, <1>1, <1>2, <1>3, <1>4 DEF AfterCompletion

(* Every step of a call leaves it knowing the truth.                       *)
LEMMA CallMoves ==
  ASSUME NEW d \in Deciders, Standing(d), NEW c \in Terminators,
         \/ c \in Committers /\ (Commit(c) \/ CommitStep(c))
         \/ Rollback(c) \/ RollbackStep(c)
  PROVE  CallInv(c, d)'
BY CallBegins, CallAsks, CallCommits, CallUndoes, CallHearsVote, CallHears, CallEnds,
   CallCompletes, CallWaits DEF CommitStep, RollbackStep, ResourceSpins

LEMMA LengthKept ==
  ASSUME NEW d \in Deciders, Standing(d), NEW c \in Terminators,
         \/ c \in Committers /\ (Commit(c) \/ CommitStep(c))
         \/ Rollback(c) \/ RollbackStep(c),
         NEW e \in Terminators, e # c
  PROVE  len'[d] = len[d] \/ len[e] = 0
<1>1. CASE c # d
  BY <1>1, OthersUndisturbed, StandingFacts DEF Standing, Undisturbed
<1>2. CASE c = d
  <2>1. e \in Late
    BY <1>2, StandingFacts
  <2>2. pc[d] \in {"idle", "rollback"} => len[e] = 0
    BY <2>1 DEF Standing, DecisionInv, Places
  <2>3. Commit(d) \/ Rollback(d) => pc[d] \in {"idle", "rollback"}
    BY DEF Commit, Rollback
  <2>4. CASE ~(Commit(d) \/ Rollback(d))
    BY <1>2, <2>4
       DEF CommitStep, RollbackStep, BeforeCompletion, Dispatch, CommitOnePhase, OnePhaseAnswered,
           PrepareNext, Voted, Decide, CommitNext, CommitAnswered, CommitEnds, Spin,
           RollbackNext, RollbackAnswered, RollbackEnds, AfterCompletion, ResourceSpins,
           callVars, vars
  <2> QED
    BY <2>2, <2>3, <2>4
<1> QED
  BY <1>1, <1>2

LEMMA CallsKept ==
  ASSUME NEW d \in Deciders, Standing(d), Next \/ UNCHANGED vars
  PROVE  \A c \in Terminators : CallInv(c, d)'
<1>a. TypeInv /\ TypeInv' /\ OneDecision /\ Forward /\ Disconnecting = {}
      /\ \A c \in Terminators : CallInv(c, d)
  BY DEF Standing, OneDecision, DecisionInv
<1>1. ASSUME NEW c \in Terminators,
             \/ c \in Committers /\ (Commit(c) \/ CommitStep(c))
             \/ Rollback(c) \/ RollbackStep(c)
      PROVE  \A e \in Terminators : CallInv(e, d)'
  <2>1. CallInv(c, d)'
    BY <1>1, CallMoves
  <2>2. ASSUME NEW e \in Terminators, e # c PROVE CallInv(e, d)'
    <3>1. Undisturbed(e) /\ (len'[d] = len[d] \/ len[e] = 0)
      BY <1>a, <1>1, <2>2, OthersUndisturbed, LengthKept
    <3> QED
      BY <1>a, <3>1, CallKept
  <2> QED
    BY <2>1, <2>2
<1>2. ASSUME Around PROVE \A e \in Terminators : CallInv(e, d)'
  <2>1. d \in Terminators
    BY <1>a, Actors
  <2>2. \A e \in Terminators : Undisturbed(e)
    BY <1>a, <1>2, AroundUndisturbs
  <2>3. len'[d] = len[d]
    BY <2>1, <2>2 DEF Undisturbed
  <2> QED
    BY <1>a, <2>2, <2>3, CallKept
<1> QED
  BY <1>a, <1>1, <1>2 DEF Next, Around, Finished, Disconnect, Terminators

LEMMA WorldKept ==
  ASSUME NEW d \in Deciders, Standing(d), Next \/ UNCHANGED vars
  PROVE  WorldInv'
<1>a. /\ TypeInv /\ TypeInv' /\ OneDecision /\ Forward /\ SaneResources /\ ListDistinct
      /\ Disconnecting = {} /\ Deferring = {} /\ Phase(d) /\ AskedInOrder(d)
      /\ WholeResources /\ ListBegun /\ \A c \in Terminators : FailureCounted(c)
  BY DEF Standing, OneDecision, DecisionInv, WorldInv, FailuresCounted, FailureCounted
<1>b. ASSUME WholeResources', ListBegun', \A c \in Terminators : FailureCounted(c)'
      PROVE  WorldInv'
  BY <1>b DEF WorldInv, FailuresCounted, FailureCounted
<1>1. ASSUME NEW c \in Terminators,
             \/ c \in Committers /\ (Commit(c) \/ CommitStep(c))
             \/ Rollback(c) \/ RollbackStep(c)
      PROVE  WorldInv'
  <2>1. WholeResources'
    BY <1>a, <1>1, CommitKeepsWhole, RollbackKeepsWhole
  <2>2. ListBegun'
    BY <1>a, <1>1, TerminatorKeepsBegun
  <2>3. \A e \in Terminators : FailureCounted(e)'
    BY <1>a, <1>1, TerminatorCounts, OthersUndisturbed, CountedKept
  <2> QED
    BY <1>b, <2>1, <2>2, <2>3
<1>2. ASSUME Around PROVE WorldInv'
  BY <1>a, <1>b, <1>2, AroundKeepsWhole, AroundKeepsBegun, AroundUndisturbs, CountedKept
<1> QED
  BY <1>a, <1>1, <1>2 DEF Next, Around, Finished, Disconnect, Terminators
-----------------------------------------------------------------------------
(***************************************************************************)
(* The votes in the list.                                                  *)
(***************************************************************************)
(* With no resource listed twice, both ways of changing a vote change one. *)
LEMMA OneVoteChanges ==
  ASSUME CoordTypes,
         \A j, k \in 1..Len(rcv) : rcv[j].r = rcv[k].r => j = k,
         NEW i \in 1..Len(rcv), NEW v \in ResourceVote,
         SetVote(i, v) \/ ChangeResourceVote(i, v)
  PROVE  /\ Len(rcv') = Len(rcv)
         /\ \A j \in 1..Len(rcv) :
              rcv'[j].r = rcv[j].r /\ rcv'[j].rv = IF j = i THEN v ELSE rcv[j].rv
<1>1. Len(rcv') = Len(rcv) /\ \A j \in 1..Len(rcv) : rcv'[j].r = rcv[j].r
  BY ListChanges
<1>2. ASSUME NEW j \in 1..Len(rcv) PROVE rcv'[j].rv = IF j = i THEN v ELSE rcv[j].rv
  <2>1. DOMAIN rcv = 1..Len(rcv) /\ rcv[j] \in [r : Resources, rv : ResourceVote]
    BY ListTypes
  <2>2. \A k \in 1..(i - 1) : rcv[k].r # rcv[i].r
    BY ListTypes
  <2>3. CASE SetVote(i, v)
    BY <2>1, <2>3 DEF SetVote
  <2>4. CASE ChangeResourceVote(i, v)
    <3>1. rcv[j].r = rcv[i].r <=> j = i
      OBVIOUS
    <3> QED
      BY <2>1, <2>2, <2>4, <3>1 DEF ChangeResourceVote
  <2> QED
    BY <2>3, <2>4
<1> QED
  BY <1>1, <1>2

(* The entries of the list stay true when no vote changes.                 *)
LEMMA VotesKept ==
  ASSUME NEW d \in Deciders, Standing(d),
         \A i \in 1..Len(rcv') :
            \/ i \in 1..Len(rcv) /\ rcv'[i].rv = rcv[i].rv
            \/ rcv'[i].rv \in {"NotPrepared", "VoteCommit"}
            \/ i \in 1..Len(rcv) /\ rcv'[i].rv = "Committed"
                  /\ res[rcv[i].r].fate = "committed"
            \/ i \in 1..Len(rcv) /\ rcv'[i].rv = "RolledBack"
                  /\ (faults = 0 \/ d \in Rollbackers => res[rcv[i].r].fate = "aborted")
  PROVE  VotesTrue(d)'
<1>1. VotesTrue(d) /\ (faults' = 0 => faults = 0)
  BY SettledStay DEF Standing, DecisionInv
<1> QED
  BY <1>1, StandingStays DEF VotesTrue

LEMMA VotesStep ==
  ASSUME NEW d \in Deciders, Standing(d), Next \/ UNCHANGED vars
  PROVE  VotesTrue(d)'
<1>a. CoordTypes /\ ListDistinct /\ Disconnecting = {} /\ OneDecision
  BY DEF Standing, OneDecision, TypeInv, TypeOK
<1>1. CASE UNCHANGED rcv
  BY <1>1, VotesKept
<1>2. ASSUME NEW c \in Registrars, Enlist(c) PROVE VotesTrue(d)'
  <2>1. [r |-> Target[c], rv |-> "NotPrepared"] \in [r : Resources, rv : ResourceVote]
    BY TargetAssumption DEF ResourceVote
  <2>2. /\ Len(rcv') = Len(rcv) + 1 /\ rcv'[Len(rcv) + 1].rv = "NotPrepared"
        /\ \A i \in 1..Len(rcv) : rcv'[i] = rcv[i]
    BY <1>a, <1>2, <2>1, AppendProperties DEF Enlist, CoordTypes
  <2>3. \A i \in 1..Len(rcv') : i \in 1..Len(rcv) \/ i = Len(rcv) + 1
    BY <1>a, <2>2, ListTypes
  <2> QED
    BY <2>2, <2>3, VotesKept
<1>3. ASSUME NEW c \in Terminators,
             (c \in Committers /\ (Voted(c) \/ CommitAnswered(c))) \/ RollbackAnswered(c),
             ~UNCHANGED rcv
      PROVE  VotesTrue(d)'
  <2>1. ix[c] \in 1..Len(rcv) /\ AnswerTrue(c) /\ (ans[c] \in NetworkFailure => faults > 0)
    BY <1>3, StandingFacts DEF Voted, CommitAnswered, RollbackAnswered, Answered
  <2>2. PICK v \in ResourceVote :
          /\ SetVote(ix[c], v) \/ ChangeResourceVote(ix[c], v)
          /\ \/ v = "VoteCommit"
             \/ v = "Committed" /\ res[rcv[ix[c]].r].fate = "committed"
             \/ v = "RolledBack" /\
                  (faults = 0 \/ d \in Rollbackers => res[rcv[ix[c]].r].fate = "aborted")
    <3>1. CASE Voted(c) /\ c \in Committers
      <4>1. c = d /\ d \notin Rollbackers
        BY <3>1, <1>3, PhaseOfCall, CallsAssumption DEF Voted
      <4> QED
        BY <1>3, <2>1, <3>1, <4>1, StandingFacts DEF Voted, AnswerTrue, NetworkFailure, ResourceVote
    <3>2. CASE CommitAnswered(c) /\ c \in Committers
      BY <1>3, <2>1, <3>2 DEF CommitAnswered, AnswerTrue, ResourceVote
    <3>3. CASE RollbackAnswered(c)
      BY <1>3, <2>1, <3>3 DEF RollbackAnswered, AnswerTrue, ResourceVote
    <3> QED
      BY <1>3, <3>1, <3>2, <3>3
  <2>3. /\ Len(rcv') = Len(rcv)
        /\ \A j \in 1..Len(rcv) : rcv'[j].rv = IF j = ix[c] THEN v ELSE rcv[j].rv
    BY <1>a, <2>1, <2>2, OneVoteChanges DEF ListDistinct
  <2> QED
    BY <2>1, <2>2, <2>3, VotesKept
<1> QED
  BY <1>a, <1>1, <1>2, <1>3
     DEF Next, CommitStep, RollbackStep, RegisterStep, Commit, BeforeCompletion, Dispatch,
         CommitOnePhase, OnePhaseAnswered, PrepareNext, Decide, CommitNext, CommitEnds, Spin,
         Rollback, RollbackNext, RollbackEnds, AfterCompletion, ResourceSpins, Register,
         BeginTrans, RollbackOnly, RegisterSynchronization, StatementFailsAt, Disconnect,
         Finished, Terminators, coordVars, vars

(* Nobody is asked out of turn: the entries after the n-th stay untouched  *)
(* by a step that keeps to the first n, or to no entry.                    *)
LEMMA UnaskedByCall ==
  ASSUME NEW d \in Deciders, Standing(d), NEW c \in Terminators, NEW n \in Nat,
         Unasked(n),
         \/ c \in Committers /\ (CommitOnePhase(c) \/ PrepareNext(c) \/ Voted(c)
                                    \/ CommitNext(c) \/ CommitAnswered(c))
         \/ RollbackNext(c) \/ RollbackAnswered(c),
         UNCHANGED <<rcv, res>> \/ ix[c] <= n
  PROVE  Unasked(n)'
<1>a. /\ TypeInv /\ CoordTypes /\ ListDistinct /\ SaneResources /\ Deferring = {}
      /\ Len(rcv) \in Nat
  BY ListTypes DEF Standing, TypeInv, TypeOK, OneDecision
<1>1. CASE UNCHANGED <<rcv, res>>
  BY <1>1 DEF Unasked
<1>2. CASE ix[c] <= n /\ (Voted(c) \/ CommitAnswered(c) \/ RollbackAnswered(c))
  <2>1. UNCHANGED res /\ ix[c] \in 1..Len(rcv)
    BY <1>2, StandingFacts DEF Voted, CommitAnswered, RollbackAnswered, Answered
  <2>2. \/ UNCHANGED rcv
        \/ \E v \in ResourceVote : SetVote(ix[c], v) \/ ChangeResourceVote(ix[c], v)
    BY <1>2 DEF Voted, CommitAnswered, RollbackAnswered, ResourceVote
  <2>3. /\ Len(rcv') = Len(rcv)
        /\ \A j \in 1..Len(rcv) :
              rcv'[j].r = rcv[j].r /\ (j # ix[c] => rcv'[j].rv = rcv[j].rv)
    BY <1>a, <2>1, <2>2, OneVoteChanges DEF ListDistinct
  <2>4. \A j \in 1..Len(rcv) : j > n => j # ix[c]
    BY <1>2, <2>1
  <2> QED
    BY <2>1, <2>3, <2>4 DEF Unasked
<1>3. CASE ix[c] <= n /\ ~UNCHANGED res
  <2>1. UNCHANGED rcv /\ \E outcome : Invoke(c, outcome) /\ ix[c] <= len[c]
    <3>1. CASE CommitOnePhase(c)
      BY <3>1, <1>a DEF CommitOnePhase, coordVars, TypeInv, LoopsInside, LoopInside
    <3>2. CASE PrepareNext(c)
      BY <3>2 DEF PrepareNext, More, coordVars
    <3>3. CASE CommitNext(c)
      BY <1>3, <3>3 DEF CommitNext, More, coordVars
    <3>4. CASE RollbackNext(c)
      BY <1>3, <3>4 DEF RollbackNext, More, coordVars
    <3> QED
      BY <1>3, <3>1, <3>2, <3>3, <3>4 DEF Voted, CommitAnswered, RollbackAnswered
  <2>2. ix[c] \in 1..Len(rcv) /\ \A r \in Resources : r # rcv[ix[c]].r => res'[r] = res[r]
    BY <1>a, <2>1, InvokeEffect
  <2>3. \A j \in 1..Len(rcv) : j > n => rcv[j].r # rcv[ix[c]].r /\ rcv[j].r \in Resources
    BY <1>a, <1>3, <2>2, ListTypes DEF ListDistinct
  <2> QED
    BY <2>1, <2>2, <2>3 DEF Unasked
<1>4. CASE UNCHANGED res /\ (CommitOnePhase(c) \/ PrepareNext(c) \/ CommitNext(c) \/ RollbackNext(c))
  BY <1>1, <1>4 DEF CommitOnePhase, PrepareNext, CommitNext, RollbackNext, coordVars
<1> QED
  BY <1>1, <1>2, <1>3, <1>4

LEMMA UnaskedAround ==
  ASSUME NEW d \in Deciders, Standing(d), Around, NEW n \in Nat, Unasked(n)
  PROVE  Unasked(n)'
<1>a. /\ CoordTypes /\ ListDistinct /\ SaneResources /\ WholeResources /\ ListBegun
      /\ Len(rcv) \in Nat /\ res \in [Resources -> ResourceState]
      /\ \A i \in 1..Len(rcv) : rcv[i].r \in Resources
      /\ \A g \in Registrars : Target[g] \in Resources
  BY ListTypes, TargetAssumption DEF Standing, TypeInv, TypeOK, WorldTypes, WorldInv
<1>1. CASE UNCHANGED <<rcv, res>>
  BY <1>1 DEF Unasked
<1>2. ASSUME NEW c \in Registrars, BeginTrans(c) PROVE Unasked(n)'
  <2> DEFINE q == PgBeginTrans(res[Target[c]]).p
  <2>1. /\ UNCHANGED rcv /\ \A i \in 1..Len(rcv) : rcv[i].r # Target[c]
        /\ res' \in {res, [res EXCEPT ![Target[c]] = q]}
    BY <1>a, <1>2 DEF BeginTrans, coordVars, ListDistinct
  <2> HIDE DEF q
  <2> QED
    BY <1>a, <2>1 DEF Unasked
<1>3. ASSUME NEW c \in Registrars, Enlist(c) PROVE Unasked(n)'
  <2>1. [r |-> Target[c], rv |-> "NotPrepared"] \in [r : Resources, rv : ResourceVote]
    BY <1>a DEF ResourceVote
  <2>2. /\ Len(rcv') = Len(rcv) + 1
        /\ rcv'[Len(rcv) + 1].r = Target[c] /\ rcv'[Len(rcv) + 1].rv = "NotPrepared"
        /\ \A i \in 1..Len(rcv) : rcv'[i] = rcv[i]
    BY <1>a, <1>3, <2>1, AppendProperties DEF Enlist, CoordTypes
  <2>3. UNCHANGED res /\ res[Target[c]].status = "Active"
    BY <1>a, <1>3 DEF Enlist, ListBegun
  <2>4. \A i \in 1..Len(rcv') : i \in 1..Len(rcv) \/ i = Len(rcv) + 1
    BY <1>a, <2>2
  <2> QED
    BY <2>2, <2>3, <2>4 DEF Unasked
<1>4. ASSUME NEW r \in Resources, StatementFailsAt(r) PROVE Unasked(n)'
  <2>1. UNCHANGED rcv /\ res' = [res EXCEPT ![r] = StatementFails(res[r])]
    BY <1>4 DEF StatementFailsAt, coordVars
  <2>2. StatementFails(res[r]).status = res[r].status
    BY <1>a, <1>4, FaultSettles DEF StatementFailsAt, SaneResources, WholeResources
  <2>3. \A s \in Resources : res'[s].status = res[s].status
    BY <1>a, <2>1, <2>2
  <2> QED
    BY <1>a, <2>1, <2>3 DEF Unasked
<1> QED
  BY <1>1, <1>2, <1>3, <1>4
     DEF Around, RegisterStep, Register, RollbackOnly, RegisterSynchronization, coordVars, vars

(* Some late call repeats the commit phase.                                *)
Repeating == ~LateAt(Label \ {"recommit", "recommitted"})

(* Where the calls are after a step of c.                                  *)
LEMMA OthersStay ==
  ASSUME NEW d \in Deciders, Standing(d), NEW c \in Terminators,
         \/ c \in Committers /\ (Commit(c) \/ CommitStep(c))
         \/ Rollback(c) \/ RollbackStep(c)
  PROVE  /\ \A e \in Terminators \ {c} :
              /\ pc'[e] \in {pc[e], "done"} /\ ix'[e] = ix[e] /\ len'[e] = len[e]
              /\ ans'[e] = ans[e] /\ (reply'[e] \in {reply[e], "COMM_FAILURE"})
         /\ pc[c] # "done"
<1>1. \A e \in Terminators \ {c} : Undisturbed(e)
  BY OthersUndisturbed DEF Standing
<1>2. pc[c] # "done"
  BY CallsAssumption
     DEF Commit, CommitStep, Rollback, RollbackStep, BeforeCompletion, Dispatch, CommitOnePhase,
         OnePhaseAnswered, PrepareNext, Voted, Decide, CommitNext, CommitAnswered, CommitEnds,
         Spin, RollbackNext, RollbackAnswered, RollbackEnds, AfterCompletion, ResourceSpins
<1> QED
  BY <1>1, <1>2 DEF Undisturbed

LEMMA DeciderAsks ==
  ASSUME NEW d \in Deciders, Standing(d),
         \/ d \in Committers /\ (Commit(d) \/ CommitStep(d))
         \/ Rollback(d) \/ RollbackStep(d)
  PROVE  AskedInOrder(d)'
<1>a. /\ d \in Terminators /\ d \in Calls /\ pc \in [Calls -> Label] /\ AskedInOrder(d) /\ Phase(d)
      /\ ix \in [Terminators -> Nat \ {0}] /\ len \in [Terminators -> Nat]
      /\ ix[d] \in Nat \ {0} /\ len[d] \in Nat /\ Len(rcv) \in Nat /\ LoopInside(d)
      /\ Late \subseteq Terminators /\ d \notin Late /\ TypeInv
  BY StandingFacts, Actors DEF Standing, DecisionInv, TypeInv, LoopsInside
<1>b. Repeating' => Repeating
  BY <1>a, OthersStay DEF Repeating, LateAt, Label
<1>c. \A m, n \in Nat : m <= n /\ Unasked(m) => Unasked(n)
  BY <1>a DEF Unasked
<1>1. CASE d \in Committers /\ (Commit(d) \/ BeforeCompletion(d) \/ Dispatch(d))
  <2>1. Undecided(d) /\ UNCHANGED <<rcv, res>>
    BY <1>1, <1>a DEF Commit, BeforeCompletion, Dispatch, coordVars,
                      Phase, Undecided, OnePhase, Voting, Committing, Undoing
  <2>2. Unasked(0) /\ ~Repeating
    BY <2>1, <1>a DEF AskedInOrder, Undecided, Repeating, LateAt, Label
  <2>3. status' # "Committing" /\ pc'[d] # "voted" /\ (pc'[d] = "prepare" => ix'[d] = 1)
    BY <1>1, <1>a, <2>1 DEF Commit, BeforeCompletion, Dispatch, Loop, Goto, Return, coordVars,
                            Undecided
  <2>4. Unasked(0)'
    BY <2>1, <2>2 DEF Unasked
  <2>5. pc'[d] = "prepare" => Unasked(ix[d] - 1)'
    BY <2>3, <2>4
  <2> QED
    BY <1>b, <2>2, <2>3, <2>4, <2>5 DEF AskedInOrder, Repeating
<1>2. CASE d \in Committers /\ (CommitOnePhase(d) \/ OnePhaseAnswered(d))
  <2>1. pc'[d] \in {"onephased", "done"} /\ status' = status
        /\ pc[d] \in {"onephase", "onephased"}
    BY <1>2, <1>a, CommitOnePhaseMoves, OnePhaseAnsweredMoves
       DEF Moves, CommitOnePhase, OnePhaseAnswered, coordVars
  <2>2. status # "Committing" /\ ~Repeating
    BY <1>a, <2>1 DEF Phase, Undecided, OnePhase, Voting, Committing, Undoing, Repeating, LateAt, Label
  <2> QED
    BY <1>b, <2>1, <2>2 DEF AskedInOrder, Repeating
<1>3. CASE d \in Committers /\ (PrepareNext(d) \/ Voted(d))
  <2>1. Voting(d) /\ ~Repeating
    BY <1>3, <1>a DEF PrepareNext, Voted,
                      Phase, Undecided, OnePhase, Voting, Committing, Undoing, Repeating, LateAt, Label
  <2>2. status' # "Committing"
    BY <1>3, <2>1 DEF PrepareNext, Voted, coordVars, Voting
  <2>3. Unasked(ix[d])
    BY <1>3, <1>a, <1>c DEF PrepareNext, Voted, AskedInOrder
  <2> PICK n \in Nat : n = ix[d]
    BY <1>a
  <2>4. Unasked(n)'
    BY <1>3, <1>a, <2>3, UnaskedByCall
  <2>5. \/ pc'[d] = "voted" /\ ix'[d] = ix[d]
        \/ pc'[d] = "prepare" /\ ix'[d] = ix[d] + 1
        \/ pc'[d] = "done"
    <3>1. CASE PrepareNext(d)
      BY <3>1, <1>a DEF PrepareNext, Goto, callVars
    <3>2. CASE Voted(d) /\ pc'[d] = "done"
      BY <3>2
    <3>3. CASE Voted(d) /\ pc'[d] # "done"
      BY <3>3, <1>a DEF Voted, Goto, Advance, Throw, Terminate, Return
    <3> QED
      BY <1>3, <3>1, <3>2, <3>3
  <2>6. pc'[d] = "prepare" => ix'[d] - 1 = ix[d]
    BY <1>a, <2>5
  <2> QED
    BY <1>b, <2>1, <2>2, <2>4, <2>5, <2>6 DEF AskedInOrder, Repeating
<1>4. CASE d \in Committers /\ Decide(d)
  <2>1. Voting(d) /\ ~Repeating /\ UNCHANGED <<rcv, res, len>> /\ pc[d] = "prepare"
    BY <1>4, <1>a DEF Decide, Phase, Undecided, OnePhase, Voting, Committing, Undoing,
                      Repeating, LateAt, Label
  <2>2. pc'[d] = "commit" \/ (pc'[d] = "rollback" /\ status' # "Committing")
    BY <1>4, <1>a DEF Decide, Goto
  <2>3. pc'[d] = "commit" => ~More(d)
    BY <1>4, <1>a DEF Decide, Goto
  <2>4. pc'[d] = "commit" => Unasked(len[d])
    BY <1>a, <1>c, <2>1, <2>3 DEF More, Voting, AskedInOrder
  <2>5. pc'[d] = "commit" => Unasked(len[d])'
    BY <2>1, <2>4 DEF Unasked
  <2> QED
    BY <1>b, <2>1, <2>2, <2>5 DEF AskedInOrder, Repeating
<1>5. CASE d \in Committers /\ (CommitNext(d) \/ CommitAnswered(d))
  <2>1. Committing(d) /\ ix[d] <= len[d] /\ UNCHANGED <<status, len>>
    BY <1>5, <1>a DEF CommitNext, CommitAnswered, More, coordVars, LoopInside, Answered, Phase,
                      Undecided, OnePhase, Voting, Committing, Undoing
  <2>2. pc'[d] \in {"commit", "committed", "recommit", "recommitted", "done"}
    BY <1>5, <1>a, CommitNextMoves, CommitAnsweredMoves DEF Moves
  <2>3. Unasked(len[d]) => Unasked(len[d])'
    BY <1>5, <1>a, <2>1, UnaskedByCall
  <2> QED
    BY <1>a, <1>b, <2>1, <2>2, <2>3 DEF AskedInOrder, Repeating
<1>6. CASE d \in Committers /\ (CommitEnds(d) \/ Spin(d))
  <2>1. /\ UNCHANGED <<rcv, res, len>> /\ (status' = "Committing" => status = "Committing")
        /\ pc'[d] \in {"after", "done", "spin"}
    BY <1>6, <1>a, CommitEndsMoves, SpinMoves DEF Moves, CommitEnds, Spin, coordVars, callVars
  <2> QED
    BY <1>a, <1>b, <2>1 DEF AskedInOrder, Repeating, Unasked
<1>7. CASE Rollback(d) \/ RollbackNext(d) \/ RollbackAnswered(d) \/ RollbackEnds(d)
  <2>1. ~Repeating /\ status' # "Committing"
    <3>1. pc[d] \in {"idle", "rollback", "undo", "redo", "undone", "redone"}
      BY <1>7 DEF Rollback, RollbackNext, RollbackAnswered, RollbackEnds
    <3>2. ~Repeating /\ status # "Committing"
      BY <1>a, <3>1 DEF Phase, Undecided, OnePhase, Voting, Committing, Undoing, Repeating, LateAt, Label
    <3>3. status' # "Committing"
      BY <1>7, <3>2 DEF Rollback, RollbackNext, RollbackAnswered, RollbackEnds, coordVars
    <3> QED
      BY <3>2, <3>3
  <2>2. pc'[d] \in {"undo", "redo", "undone", "redone", "undoAfter", "done"}
    BY <1>7, <1>a, RollbackMoves, RollbackNextMoves, RollbackAnsweredMoves, RollbackEndsMoves
       DEF Moves
  <2> QED
    BY <1>b, <2>1, <2>2 DEF AskedInOrder, Repeating
<1>8. CASE AfterCompletion(d) \/ ResourceSpins(d)
  <2>1. /\ UNCHANGED <<rcv, res, len, status>>
        /\ \/ pc'[d] = pc[d] /\ ix'[d] = ix[d]
           \/ pc'[d] \in {"after", "undoAfter", "done"}
    BY <1>8, <1>a, AfterCompletionMoves DEF AfterCompletion, ResourceSpins, Moves, vars
  <2> QED
    BY <1>a, <1>b, <2>1 DEF AskedInOrder, Repeating, Unasked
<1> QED
  BY <1>1, <1>2, <1>3, <1>4, <1>5, <1>6, <1>7, <1>8 DEF CommitStep, RollbackStep

LEMMA LateAsks ==
  ASSUME NEW d \in Deciders, Standing(d), NEW c \in Terminators, c # d,
         \/ c \in Committers /\ (Commit(c) \/ CommitStep(c))
         \/ Rollback(c) \/ RollbackStep(c)
  PROVE  AskedInOrder(d)'
<1>a. /\ d \in Terminators /\ c \in Calls /\ pc \in [Calls -> Label] /\ AskedInOrder(d)
      /\ len[d] \in Nat /\ c \in Late /\ LoopTrue(c, d)
      /\ Late \subseteq Terminators /\ d \notin Late /\ TypeInv
      /\ ix'[d] = ix[d] /\ len'[d] = len[d] /\ pc'[d] \in {pc[d], "done"}
  BY StandingFacts, Actors, OthersStay DEF Standing, DecisionInv
<1>b. pc'[c] \notin {"recommit", "recommitted"} => (Repeating' => Repeating)
  <2>1. pc'[c] \in Label
    BY <1>a DEF Standing, TypeInv, TypeOK, ControlTypes
  <2> QED
    BY <1>a, <2>1, OthersStay DEF Repeating, LateAt, Label
<1>c. pc[c] \in {"recommit", "recommitted"} => Repeating
  BY <1>a DEF Repeating, LateAt
<1>d. pc[c] \notin {"before", "dispatch", "onephase", "onephased", "prepare", "voted", "commit",
                    "committed", "after", "undo", "undone", "rollback"}
  BY <1>a, PhaseOfCall
<1>1. CASE c \in Committers /\ Commit(c)
  <2>1. UNCHANGED <<rcv, res, status>> /\ (pc'[c] = "recommit" => status = "Committing")
        /\ pc'[c] # "recommitted"
    BY <1>1, <1>a DEF Commit, Loop, Goto, Return, coordVars
  <2> QED
    BY <1>a, <1>b, <2>1 DEF AskedInOrder, Repeating, Unasked
<1>2. CASE c \in Committers /\ (CommitNext(c) \/ CommitAnswered(c))
  <2>1. pc[c] \in {"recommit", "recommitted"} /\ UNCHANGED status
    BY <1>2, <1>d DEF CommitNext, CommitAnswered, coordVars
  <2>2. Committing(d) /\ Unasked(len[d])
    BY <1>a, <1>c, <2>1, PhaseOfCall DEF AskedInOrder, Repeating
  <2>3. UNCHANGED <<rcv, res>> \/ ix[c] <= len[d]
    <3>1. CASE CommitAnswered(c)
      BY <1>a, <1>d, <3>1 DEF CommitAnswered, LoopTrue
    <3>2. CASE CommitNext(c) /\ CommitCalls(c)
      BY <1>2, <3>2, CommitCallsIn DEF Standing, DecisionInv
    <3>3. CASE CommitNext(c) /\ ~CommitCalls(c)
      BY <3>3 DEF CommitNext, CommitCalls, coordVars
    <3> QED
      BY <1>2, <3>1, <3>2, <3>3
  <2>4. Unasked(len[d])'
    BY <1>2, <1>a, <2>2, <2>3, UnaskedByCall
  <2> QED
    BY <1>a, <2>2, <2>4 DEF AskedInOrder, Committing
<1>3. CASE RollbackNext(c) \/ RollbackAnswered(c)
  <2>1. pc[c] \in {"redo", "redone"} /\ UNCHANGED <<status>>
    BY <1>3, <1>d DEF RollbackNext, RollbackAnswered, coordVars
  <2>2. Undoing(d) /\ ~Repeating
    BY <1>a, <2>1, PhaseOfCall DEF Undoing, Repeating, LateAt, Label
  <2>3. pc'[c] \notin {"recommit", "recommitted"}
    BY <1>3, <1>a, RollbackNextMoves, RollbackAnsweredMoves DEF Moves
  <2> QED
    BY <1>a, <1>b, <2>1, <2>2, <2>3 DEF AskedInOrder, Undoing, Repeating
<1>4. CASE \/ c \in Committers /\ (CommitEnds(c) \/ Spin(c))
           \/ Rollback(c) \/ RollbackEnds(c) \/ AfterCompletion(c)
  <2>1. pc'[c] \notin {"recommit", "recommitted"}
    BY <1>4, <1>a, CommitEndsMoves, SpinMoves, RollbackMoves, RollbackEndsMoves,
       AfterCompletionMoves DEF Moves
  <2>2. UNCHANGED <<rcv, res>> /\ (status' = "Committing" => status = "Committing")
    BY <1>4 DEF CommitEnds, Spin, Rollback, RollbackEnds, AfterCompletion, coordVars
  <2> QED
    BY <1>a, <1>b, <2>1, <2>2 DEF AskedInOrder, Repeating, Unasked
<1>5. CASE UNCHANGED vars
  BY <1>5, <1>a DEF AskedInOrder, Unasked, LateAt, vars
<1> QED
  BY <1>d, <1>1, <1>2, <1>3, <1>4, <1>5
     DEF CommitStep, RollbackStep, BeforeCompletion, Dispatch, CommitOnePhase, OnePhaseAnswered,
         PrepareNext, Voted, Decide, ResourceSpins

LEMMA AroundAsks ==
  ASSUME NEW d \in Deciders, Standing(d), Around
  PROVE  AskedInOrder(d)'
<1>a. /\ d \in Terminators /\ Late \subseteq Terminators /\ TypeInv /\ AskedInOrder(d)
      /\ ix[d] \in Nat \ {0} /\ len[d] \in Nat
  BY StandingFacts, Actors DEF Standing, DecisionInv
<1>b. \A e \in Terminators : pc'[e] = pc[e] /\ ix'[e] = ix[e] /\ len'[e] = len[e]
  BY <1>a, AroundUndisturbs DEF Undisturbed
<1>c. \A n \in Nat : Unasked(n) => Unasked(n)'
  BY UnaskedAround
<1>d. status' = "Committing" => status = "Committing"
  BY DEF Around, RegisterStep, Register, BeginTrans, Enlist, RollbackOnly,
         RegisterSynchronization, StatementFailsAt, coordVars, vars
<1>e. Repeating' => Repeating
  BY <1>a, <1>b DEF Repeating, LateAt
<1> PICK m \in Nat, n \in Nat, l \in Nat : m = ix[d] - 1 /\ n = ix[d] /\ l = len[d]
  BY <1>a
<1>1. ix'[d] - 1 = m /\ ix'[d] = n /\ len'[d] = l /\ pc'[d] = pc[d]
  BY <1>a, <1>b
<1> QED
  BY <1>a, <1>c, <1>d, <1>e, <1>1 DEF AskedInOrder, Repeating

LEMMA OrderStep ==
  ASSUME NEW d \in Deciders, Standing(d), Next \/ UNCHANGED vars
  PROVE  AskedInOrder(d)'
BY DeciderAsks, LateAsks, AroundAsks
   DEF Next, Around, Finished, Disconnect, Standing, OneDecision, Terminators
-----------------------------------------------------------------------------
(***************************************************************************)
(* Where the calls are.                                                    *)
(***************************************************************************)
PlaceOf(c, d) ==
    /\ c = d /\ d \in Rollbackers => pc[c] \in {"idle", "undo", "undone", "undoAfter", "done"}
    /\ c \in Late \cap Committers => pc[c] \in {"idle", "recommit", "recommitted", "spin", "done"}
    /\ c \in Late \cap Rollbackers => pc[c] \in {"idle", "redo", "redone", "undoAfter", "done"}

LEMMA PlaceOfMover ==
  ASSUME NEW d \in Deciders, Standing(d), NEW c \in Terminators,
         \/ c \in Committers /\ (Commit(c) \/ CommitStep(c))
         \/ Rollback(c) \/ RollbackStep(c)
  PROVE  PlaceOf(c, d)'
<1>a. /\ PlaceOf(c, d) /\ c \in Calls /\ pc \in [Calls -> Label] /\ TypeInv
      /\ d \notin Late /\ (c \in Committers => c \notin Rollbackers) /\ Phase(d)
  BY StandingFacts, CallsAssumption DEF Standing, DecisionInv, Places, PlaceOf
<1>1. CASE c \in Committers /\ Commit(c)
  BY <1>1, <1>a DEF Commit, MayCall, Loop, Goto, Return, PlaceOf
<1>2. CASE c \in Committers /\ CommitStep(c)
  <2>1. CASE c \in Late
    <3>1. CommitNext(c) \/ CommitAnswered(c) \/ CommitEnds(c) \/ Spin(c)
      BY <1>2, <1>a, <2>1
         DEF CommitStep, PlaceOf, BeforeCompletion, Dispatch, CommitOnePhase, OnePhaseAnswered,
             PrepareNext, Voted, Decide
    <3>2. \/ pc'[c] \in {"recommit", "recommitted", "done", "spin"}
          \/ pc[c] \in {"commit", "committed"}
      BY <1>2, <1>a, <3>1, CommitAnsweredMoves, SpinMoves
         DEF CommitNext, CommitAnswered, CommitEnds, Moves, Goto, Return, Throw, Terminate
    <3> QED
      BY <1>2, <1>a, <3>1, <3>2 DEF PlaceOf, Moves
  <2> QED
    BY <1>2, <1>a, <2>1 DEF PlaceOf
<1>3. CASE Rollback(c)
  BY <1>3, <1>a
     DEF Rollback, Loop, Goto, Return, RollbackReturns, PlaceOf, MayCall, Phase, Undecided,
         OnePhase, Voting, Committing, Undoing
<1>4. CASE RollbackNext(c)
  BY <1>4, <1>a DEF RollbackNext, Goto, PlaceOf
<1>5. CASE RollbackAnswered(c)
  <2>1. pc'[c] \in {"undo", "redo", "done"} /\ (pc'[c] = "undo" => pc[c] = "undone")
        /\ (pc'[c] = "redo" => pc[c] = "redone") /\ pc[c] \in {"undone", "redone"}
    BY <1>5, <1>a, RollbackAnsweredMoves
       DEF RollbackAnswered, Moves, Goto, Return, Throw, Terminate
  <2> QED
    BY <1>a, <2>1 DEF PlaceOf
<1>6. CASE RollbackEnds(c) \/ AfterCompletion(c)
  <2>1. pc'[c] \in {"undoAfter", "done"} \/ (pc[c] = "after" /\ pc'[c] = "after")
    BY <1>6, <1>a, RollbackEndsMoves DEF AfterCompletion, Moves, Return, RollbackReturns, Throw, Terminate
  <2>2. pc[c] \in {"undo", "redo", "after", "undoAfter"}
    BY <1>6 DEF RollbackEnds, AfterCompletion
  <2> QED
    BY <1>a, <2>1, <2>2 DEF PlaceOf
<1>7. CASE ResourceSpins(c)
  BY <1>7, <1>a DEF ResourceSpins, PlaceOf, vars
<1> QED
  BY <1>1, <1>2, <1>3, <1>4, <1>5, <1>6, <1>7 DEF RollbackStep

(* While the decision is not taken no late call reads the list.            *)
Early == {"idle", "before", "dispatch", "onephase", "onephased", "prepare", "voted", "rollback"}

LEMMA EarlyKept ==
  ASSUME NEW d \in Deciders, Standing(d), NEW c \in Terminators,
         \/ c \in Committers /\ (Commit(c) \/ CommitStep(c))
         \/ Rollback(c) \/ RollbackStep(c)
  PROVE  pc'[d] \in Early => \A e \in Late : len'[e] = 0
<1>a. /\ d \in Terminators /\ d \in Calls /\ pc \in [Calls -> Label] /\ TypeInv /\ Phase(d)
      /\ Late \subseteq Terminators /\ d \notin Late /\ len \in [Terminators -> Nat]
      /\ pc[d] \in Early => \A e \in Late : len[e] = 0
  BY StandingFacts, Actors DEF Standing, DecisionInv, Places, Early
<1>1. CASE c = d
  <2>1. \A e \in Late : len'[e] = len[e]
    BY <1>1, <1>a, OthersStay
  <2>2. pc'[d] \in Early => pc[d] \in Early
    <3>1. CASE pc[d] \in {"commit", "committed", "recommit", "recommitted", "undo", "undone",
                          "redo", "redone", "after", "undoAfter", "spin"}
      BY <1>1, <1>a, <3>1, CommitNextMoves, CommitAnsweredMoves, CommitEndsMoves, SpinMoves,
         RollbackNextMoves, RollbackAnsweredMoves, RollbackEndsMoves, AfterCompletionMoves
         DEF Commit, CommitStep, Rollback, RollbackStep, BeforeCompletion, Dispatch,
             CommitOnePhase, OnePhaseAnswered, PrepareNext, Voted, Decide, ResourceSpins, vars,
             Moves, Early
    <3>2. pc[d] \notin {"begin", "enlist"}
      BY <1>a DEF Phase, Undecided, OnePhase, Voting, Committing, Undoing
    <3> QED
      BY <1>1, <1>a, <3>1, <3>2, OthersStay DEF Early, Label
  <2> QED
    BY <1>a, <2>1, <2>2
<1>2. CASE c # d
  <2>1. c \in Late /\ (pc'[d] \in Early => pc[d] \in Early)
    BY <1>2, <1>a, StandingFacts, OthersStay DEF Early
  <2>2. pc[d] \in Early => UNCHANGED len
    <3>1. pc[d] \in Early => pc[c] = "idle"
      BY <1>2, <1>a, <2>1, OthersStay DEF Early, Phase, Undecided, OnePhase, Voting, Committing, Undoing, LateAt
    <3>2. pc[d] \in Early /\ MayCall(c) => status = "Preparing"
      BY <1>a, <2>1 DEF MayCall, Early, Phase, Undecided, OnePhase, Voting, Committing, Undoing
    <3> QED
      BY <2>1, <3>1, <3>2
         DEF Commit, CommitStep, Rollback, RollbackStep, BeforeCompletion, Dispatch,
             CommitOnePhase, OnePhaseAnswered, PrepareNext, Voted, Decide, CommitNext,
             CommitAnswered, CommitEnds, Spin, RollbackNext, RollbackAnswered, RollbackEnds,
             AfterCompletion, ResourceSpins
  <2> QED
    BY <1>a, <2>1, <2>2
<1> QED
  BY <1>1, <1>2

LEMMA PlacesStep ==
  ASSUME NEW d \in Deciders, Standing(d), Next \/ UNCHANGED vars
  PROVE  Places(d)'
<1>a. /\ d \in Terminators /\ Late \subseteq Terminators /\ Places(d) /\ TypeInv
      /\ Disconnecting = {} /\ \A e \in Terminators : PlaceOf(e, d)
  BY StandingFacts, Actors DEF Standing, DecisionInv, OneDecision, Places, PlaceOf
<1>1. ASSUME NEW c \in Terminators,
             \/ c \in Committers /\ (Commit(c) \/ CommitStep(c))
             \/ Rollback(c) \/ RollbackStep(c)
      PROVE  Places(d)'
  <2>1. \A e \in Terminators : PlaceOf(e, d)'
    BY <1>1, <1>a, PlaceOfMover, OthersStay DEF PlaceOf
  <2>2. pc'[d] \in Early => \A e \in Late : len'[e] = 0
    BY <1>1, EarlyKept
  <2> QED
    BY <1>a, <2>1, <2>2 DEF Places, PlaceOf, Early
<1>2. ASSUME Around PROVE Places(d)'
  <2>1. \A e \in Terminators : pc'[e] = pc[e] /\ len'[e] = len[e]
    BY <1>a, <1>2, AroundUndisturbs DEF Undisturbed
  <2> QED
    BY <1>a, <2>1 DEF Places
<1> QED
  BY <1>a, <1>1, <1>2 DEF Next, Around, Finished, Disconnect, Terminators
-----------------------------------------------------------------------------
(***************************************************************************)
(* The verdict.                                                            *)
(***************************************************************************)
(* Nothing commits but by the commit of the decision or its repetition.    *)
CommitsNothing == \A r \in Resources : res'[r].fate = "committed" => res[r].fate = "committed"

LEMMA AroundCommitsNothing ==
  ASSUME NEW d \in Deciders, Standing(d), Around
  PROVE  CommitsNothing
<1>a. /\ ListDistinct /\ SaneResources /\ res \in [Resources -> ResourceState]
      /\ \A g \in Registrars : Target[g] \in Resources
  BY TargetAssumption DEF Standing, TypeInv, TypeOK, WorldTypes
<1>1. CASE UNCHANGED res
  BY <1>1 DEF CommitsNothing
<1>2. ASSUME NEW c \in Registrars, BeginTrans(c) PROVE CommitsNothing
  <2> DEFINE q == PgBeginTrans(res[Target[c]]).p
  <2>1. res' \in {res, [res EXCEPT ![Target[c]] = q]} /\ res[Target[c]] = NewResource
    BY <1>a, <1>2 DEF BeginTrans, ListDistinct
  <2>2. q.fate = "open"
    BY <1>a, <2>1, BeginSettles
  <2> HIDE DEF q
  <2> QED
    BY <1>a, <2>1, <2>2 DEF CommitsNothing
<1>3. ASSUME NEW r \in Resources, StatementFailsAt(r) PROVE CommitsNothing
  <2>1. StatementFails(res[r]).fate = "committed" => res[r].fate = "committed"
    BY <1>a, FaultEffect DEF SaneResources
  <2> QED
    BY <1>a, <1>3, <2>1 DEF StatementFailsAt, CommitsNothing
<1> QED
  BY <1>1, <1>2, <1>3
     DEF Around, RegisterStep, Register, Enlist, RollbackOnly, RegisterSynchronization, vars

LEMMA TerminatorCommitsNothing ==
  ASSUME NEW d \in Deciders, Standing(d), NothingCommitted, NEW c \in Terminators,
         \/ c \in Committers /\ (Commit(c) \/ CommitStep(c))
         \/ Rollback(c) \/ RollbackStep(c),
         pc[c] \notin {"onephase", "commit", "recommit"}
  PROVE  NothingCommitted'
<1>a. TypeInv /\ SaneResources
  BY DEF Standing
<1>1. CASE UNCHANGED res
  BY <1>1 DEF NothingCommitted
<1>2. CASE PrepareNext(c) /\ c \in Committers
  BY <1>a, <1>2, PrepareNextEffect
<1>3. CASE RollbackNext(c)
  BY <1>a, <1>3, RollbackNextEffect
<1> QED
  BY <1>1, <1>2, <1>3
     DEF Commit, CommitStep, Rollback, RollbackStep, BeforeCompletion, Dispatch, CommitOnePhase,
         OnePhaseAnswered, Voted, Decide, CommitNext, CommitAnswered, CommitEnds, Spin,
         RollbackAnswered, RollbackEnds, AfterCompletion, ResourceSpins, vars, coordVars

(* A transaction that the single resource has rolled back.                 *)
LEMMA OnePhaseVerdict ==
  ASSUME NEW d \in Deciders, Standing(d), CallInv(d, d)', d \in Committers, CommitOnePhase(d)
  PROVE  ans'[d] = "TRANSACTION_ROLLEDBACK" => NothingCommitted'
<1>1. /\ d \in Terminators /\ NothingCommitted /\ pc'[d] = "onephased" /\ ix'[d] = ix[d]
      /\ TypeInv /\ SaneResources /\ UNCHANGED rcv
  BY StandingFacts, PhaseOfCall
     DEF Terminators, CommitOnePhase, Undecided, Goto, callVars, coordVars, Standing
<1>2. ans'[d] = "TRANSACTION_ROLLEDBACK" => res'[rcv[ix[d]].r].fate = "aborted"
  BY <1>1 DEF CallInv, AnswerTrue
<1>3. \A r \in Resources : r # rcv[ix[d]].r => res'[r] = res[r]
  BY <1>1, CommitOnePhaseEffect
<1> QED
  BY <1>1, <1>2, <1>3 DEF NothingCommitted

(* Late calls report nothing as rolled back.                               *)
LEMMA LateReplies ==
  ASSUME NEW d \in Deciders, Standing(d), NEW c \in Late \cap Committers,
         Commit(c) \/ CommitStep(c) \/ Rollback(c) \/ RollbackStep(c),
         reply[c] # "TRANSACTION_ROLLEDBACK"
  PROVE  reply'[c] # "TRANSACTION_ROLLEDBACK"
<1>a. /\ c \in Terminators /\ c \in Calls /\ reply \in [Calls -> Reply] /\ AnswerTrue(c)
      /\ pc[c] \in {"idle", "recommit", "recommitted", "spin", "done"}
      /\ c \notin Rollbackers /\ status # "RolledBack"
      /\ pc[c] \in Answered => ans[c] \in AnswerTo(pc[c])
  BY StandingFacts, CallsAssumption
     DEF Terminators, Standing, DecisionInv, Places, Phase, Undecided, OnePhase, Voting,
         Committing, Undoing
<1>b. ASSUME NEW v, Throw(c, v), v # "TRANSACTION_ROLLEDBACK"
      PROVE  reply'[c] # "TRANSACTION_ROLLEDBACK"
  BY <1>a, <1>b DEF Throw, Terminate, Return
<1>1. CASE Commit(c)
  BY <1>1, <1>a DEF Commit, Loop, Goto, Return
<1>2. CASE CommitNext(c) \/ CommitEnds(c) \/ Spin(c) \/ ResourceSpins(c)
  BY <1>2, <1>a DEF CommitNext, CommitEnds, Spin, ResourceSpins, Goto, Return, vars
<1>3. CASE CommitAnswered(c)
  <2>1. ans[c] # "TRANSACTION_ROLLEDBACK"
    BY <1>3, <1>a DEF CommitAnswered, AnswerTrue, NetworkFailure
  <2> QED
    BY <1>3, <1>a, <1>b, <2>1 DEF CommitAnswered, Goto
<1> QED
  BY <1>a, <1>1, <1>2, <1>3
     DEF CommitStep, Rollback, RollbackStep, BeforeCompletion, Dispatch, CommitOnePhase,
         OnePhaseAnswered, PrepareNext, Voted, Decide, RollbackNext, RollbackAnswered,
         RollbackEnds, AfterCompletion

(* The two ways in which the decision is reported as a rollback.           *)
LEMMA RollbackReports ==
  ASSUME NEW d \in Deciders, Standing(d),
         \/ d \in Committers /\ (Commit(d) \/ CommitStep(d))
         \/ Rollback(d) \/ RollbackStep(d),
         ReportedRollback(d)'
  PROVE  \/ /\ d \in Committers /\ OnePhaseAnswered(d) /\ ans[d] = "TRANSACTION_ROLLEDBACK"
         \/ AfterCompletion(d) /\ pc[d] = "undoAfter" /\ pc'[d] = "done"
<1>a. /\ d \in Terminators /\ d \in Calls /\ reply \in [Calls -> Reply] /\ pc \in [Calls -> Label]
      /\ reply[d] = "none" /\ AnswerTrue(d) /\ Phase(d) /\ TypeInv
      /\ pc[d] \in Answered => ans[d] \in AnswerTo(pc[d])
      /\ d \in Rollbackers => d \notin Committers
                              /\ pc[d] \in {"idle", "undo", "undone", "undoAfter", "done"}
  <2>1. d \in Terminators
    BY Actors DEF Standing
  <2>2. pc[d] # "done"
    BY <2>1, OthersStay
  <2> QED
    BY <2>1, <2>2, StandingFacts, CallsAssumption DEF Standing, DecisionInv, Places, ReplyTrue
<1>b. ASSUME NEW v, Throw(d, v), v \notin {"TRANSACTION_ROLLEDBACK", "ok"}
      PROVE  FALSE
  BY <1>a, <1>b DEF Throw, Terminate, Return, ReportedRollback
<1>c. reply'[d] # reply[d]
  BY <1>a DEF ReportedRollback
<1>1. CASE d \in Committers /\ Commit(d)
  <2>1. status \in {"Active", "MarkedRollback"}
    BY <1>1, <1>a DEF Commit, Phase, Undecided, OnePhase, Voting, Committing, Undoing
  <2> QED
    BY <1>1, <1>a, <1>c, <2>1 DEF Commit, Loop, Goto
<1>2. CASE d \in Committers /\ (BeforeCompletion(d) \/ CommitOnePhase(d) \/ PrepareNext(d)
                                  \/ Decide(d) \/ CommitNext(d))
  BY <1>2, <1>c DEF BeforeCompletion, CommitOnePhase, PrepareNext, Decide, CommitNext, Goto
<1>3. CASE d \in Committers /\ (Dispatch(d) \/ CommitEnds(d))
  BY <1>3, <1>a, <1>c DEF Dispatch, CommitEnds, Goto, Return, ReportedRollback
<1>4. CASE d \in Committers /\ OnePhaseAnswered(d)
  BY <1>4, <1>a, <1>b DEF OnePhaseAnswered, Return, ReportedRollback
<1>5. CASE d \in Committers /\ Voted(d)
  BY <1>5, <1>a, <1>b, <1>c DEF Voted, Goto, AnswerTo, Answered, NetworkFailure
<1>6. CASE d \in Committers /\ CommitAnswered(d)
  BY <1>6, <1>a, <1>b, <1>c DEF CommitAnswered, Goto, AnswerTrue, NetworkFailure
<1>7. CASE d \in Committers /\ Spin(d)
  <2>1. pc[d] # "spin"
    BY <1>a DEF Phase, Undecided, OnePhase, Voting, Committing, Undoing
  <2> QED
    BY <1>7, <2>1 DEF Spin
<1>8. CASE Rollback(d)
  <2>1. status \in {"Active", "MarkedRollback"}
    BY <1>8, <1>a DEF Rollback, Phase, Undecided, OnePhase, Voting, Committing, Undoing
  <2> QED
    BY <1>8, <1>c, <2>1 DEF Rollback, Loop, Goto
<1>9. CASE RollbackNext(d) \/ ResourceSpins(d)
  BY <1>9, <1>c DEF RollbackNext, ResourceSpins, Goto, vars
<1>10. CASE RollbackAnswered(d)
  <2>1. ans[d] \in NetworkFailure \cup {"ok", "spins"}
    BY <1>10, <1>a DEF RollbackAnswered, AnswerTo, Answered
  <2> QED
    BY <1>10, <1>b, <1>c, <2>1 DEF RollbackAnswered, Goto, NetworkFailure
<1>11. CASE RollbackEnds(d)
  BY <1>11, <1>b, <1>c DEF RollbackEnds, Goto
<1>12. CASE AfterCompletion(d)
  <2>1. CASE pc[d] = "undoAfter"
    BY <1>12, <1>a, <1>c, <2>1 DEF AfterCompletion, RollbackReturns, Return
  <2>2. CASE pc[d] = "after"
    <3>1. ~(d \in Rollbackers)
      BY <1>a, <2>2
    <3> QED
      BY <1>12, <1>a, <1>b, <1>c, <2>2, <3>1 DEF AfterCompletion, Return, ReportedRollback
  <2> QED
    BY <1>12, <2>1, <2>2 DEF AfterCompletion
<1> QED
  BY <1>1, <1>2, <1>3, <1>4, <1>5, <1>6, <1>7, <1>8, <1>9, <1>10, <1>11, <1>12
     DEF CommitStep, RollbackStep

LEMMA VerdictByDecider ==
  ASSUME NEW d \in Deciders, Standing(d), CallInv(d, d)',
         \/ d \in Committers /\ (Commit(d) \/ CommitStep(d))
         \/ Rollback(d) \/ RollbackStep(d)
  PROVE  VerdictTrue(d)'
<1>a. /\ d \in Terminators /\ d \in Calls /\ pc \in [Calls -> Label] /\ VerdictTrue(d)
      /\ LoopTrue(d, d) /\ TypeInv /\ Late \subseteq Terminators /\ d \notin Late
      /\ pc' \in [Calls -> Label]
  <2>1. d \in Terminators
    BY Actors DEF Standing
  <2> QED
    BY <2>1, StandingFacts, Actors DEF Standing, DecisionInv, TypeInv, TypeOK, ControlTypes
<1>1. \A c \in Late \cap Committers : reply'[c] # "TRANSACTION_ROLLEDBACK"
  BY <1>a, OthersStay DEF VerdictTrue
<1>2. pc'[d] = "onephased" /\ ans'[d] = "TRANSACTION_ROLLEDBACK" => NothingCommitted'
  <2>1. CASE d \in Committers /\ CommitOnePhase(d)
    BY <2>1, OnePhaseVerdict
  <2>2. CASE ResourceSpins(d)
    BY <2>2, <1>a DEF ResourceSpins, VerdictTrue, NothingCommitted, vars
  <2>3. CASE ~ResourceSpins(d) /\ ~(d \in Committers /\ CommitOnePhase(d))
    <3>1. pc'[d] # "onephased"
      BY <1>a, <2>3, CommitMoves, BeforeCompletionMoves, DispatchMoves, OnePhaseAnsweredMoves,
         PrepareNextMoves, VotedMoves, DecideMoves, CommitNextMoves, CommitAnsweredMoves,
         CommitEndsMoves, SpinMoves, RollbackMoves, RollbackNextMoves, RollbackAnsweredMoves,
         RollbackEndsMoves, AfterCompletionMoves DEF Moves, CommitStep, RollbackStep
    <3> QED
      BY <3>1
  <2> QED
    BY <2>1, <2>2, <2>3
<1>3. ASSUME ReportedRollback(d)'
      PROVE  /\ NothingCommitted' /\ status' # "Committing"
             /\ LateAt(Label \ {"recommit", "recommitted"})'
             /\ d \in Rollbackers => AllAborted(1..len[d])'
  <2>1. CASE d \in Committers /\ OnePhaseAnswered(d) /\ ans[d] = "TRANSACTION_ROLLEDBACK"
    <3>1. OnePhase(d) /\ NothingCommitted /\ UNCHANGED <<res, status>> /\ d \notin Rollbackers
      BY <1>a, <2>1, PhaseOfCall, CallsAssumption DEF OnePhaseAnswered, VerdictTrue, coordVars
    <3>2. LateAt(Label \ {"recommit", "recommitted"})'
      BY <1>a, <3>1, OthersStay DEF OnePhase, LateAt, Label
    <3> QED
      BY <3>1, <3>2 DEF NothingCommitted, OnePhase
  <2>2. CASE AfterCompletion(d) /\ pc[d] = "undoAfter" /\ pc'[d] = "done"
    <3>1. Undoing(d) /\ UNCHANGED <<res, status, rcv, len>>
      BY <1>a, <2>2, PhaseOfCall DEF AfterCompletion
    <3>2. LateAt(Label \ {"recommit", "recommitted"})'
      BY <1>a, <3>1, OthersStay DEF Undoing, LateAt, Label
    <3>3. d \in Rollbackers => AllAborted(1..len[d])
      BY <1>a, <2>2 DEF LoopTrue
    <3> QED
      BY <3>1, <3>2, <3>3 DEF NothingCommitted, Undoing, AllAborted
  <2> QED
    BY <1>3, <2>1, <2>2, RollbackReports
<1> QED
  BY <1>1, <1>2, <1>3 DEF VerdictTrue, ReportedRollback

LEMMA VerdictStays ==
  ASSUME NEW d \in Deciders, Standing(d), reply'[d] \in {reply[d], "COMM_FAILURE"},
         len'[d] = len[d],
         \A c \in Late \cap Committers : reply'[c] # "TRANSACTION_ROLLEDBACK",
         pc'[d] = "onephased" /\ ans'[d] = "TRANSACTION_ROLLEDBACK" => NothingCommitted',
         ReportedRollback(d) => NothingCommitted' /\ status' # "Committing" /\ ~Repeating'
  PROVE  VerdictTrue(d)'
<1>1. VerdictTrue(d) /\ d \in Terminators /\ len[d] <= Len(rcv) /\ len[d] \in Nat /\ Len(rcv) \in Nat
  BY StandingFacts, Actors DEF Standing, DecisionInv
<1>2. d \in Rollbackers /\ reply'[d] = "ok" => AllAborted(1..len[d])'
  BY <1>1, StandingStays DEF VerdictTrue, ReportedRollback, AllAborted
<1> QED
  BY <1>1, <1>2 DEF VerdictTrue, ReportedRollback, Repeating

LEMMA VerdictByLate ==
  ASSUME NEW d \in Deciders, Standing(d), NEW c \in Terminators, c # d,
         \/ c \in Committers /\ (Commit(c) \/ CommitStep(c))
         \/ Rollback(c) \/ RollbackStep(c)
  PROVE  VerdictTrue(d)'
<1>a. /\ d \in Terminators /\ c \in Calls /\ pc \in [Calls -> Label] /\ pc' \in [Calls -> Label]
      /\ c \in Late /\ d \notin Late /\ VerdictTrue(d) /\ ReplyTrue(d, d) /\ Phase(d) /\ TypeInv
      /\ Late \subseteq Terminators /\ PlaceOf(c, d)
  <2>1. d \in Terminators
    BY Actors DEF Standing
  <2> QED
    BY <2>1, StandingFacts, Actors
       DEF Standing, DecisionInv, TypeInv, TypeOK, ControlTypes, Places, PlaceOf
<1>b. /\ pc'[d] \in {pc[d], "done"} /\ ans'[d] = ans[d] /\ len'[d] = len[d]
      /\ reply'[d] \in {reply[d], "COMM_FAILURE"}
  BY <1>a, OthersStay
<1>1. \A e \in Late \cap Committers : reply'[e] # "TRANSACTION_ROLLEDBACK"
  <2>1. \A e \in Late \cap Committers : e # c => reply'[e] # "TRANSACTION_ROLLEDBACK"
    BY <1>a, OthersStay DEF VerdictTrue
  <2>2. c \in Committers => reply'[c] # "TRANSACTION_ROLLEDBACK"
    BY <1>a, LateReplies DEF VerdictTrue
  <2> QED
    BY <2>1, <2>2
<1>2. pc'[d] # "onephased"
  <2>1. pc[d] = "onephased" => pc[c] = "idle" /\ ~MayCall(c)
    BY <1>a DEF MayCall, Phase, Undecided, OnePhase, Voting, Committing, Undoing, LateAt
  <2>2. pc[c] = "idle" => MayCall(c)
    BY CallsAssumption
       DEF Commit, CommitStep, Rollback, RollbackStep, BeforeCompletion, Dispatch,
           CommitOnePhase, OnePhaseAnswered, PrepareNext, Voted, Decide, CommitNext,
           CommitAnswered, CommitEnds, Spin, RollbackNext, RollbackAnswered, RollbackEnds,
           AfterCompletion, ResourceSpins
  <2> QED
    BY <1>b, <2>1, <2>2
<1>3. ASSUME ReportedRollback(d)
      PROVE  NothingCommitted' /\ status' # "Committing" /\ ~Repeating'
  <2>1. NothingCommitted /\ status # "Committing" /\ ~Repeating
    BY <1>a, <1>3 DEF VerdictTrue, Repeating
  <2>2. pc[c] \notin {"onephase", "prepare", "commit", "recommit", "recommitted"}
    <3>1. pc[c] \notin {"onephase", "prepare", "commit"}
      BY <1>a, PhaseOfCall
    <3> QED
      BY <1>a, <2>1, <3>1 DEF Repeating, LateAt
  <2>3. NothingCommitted'
    BY <2>1, <2>2, TerminatorCommitsNothing
  <2>4. status' # "Committing"
    BY <2>1, <2>2
       DEF Commit, CommitStep, Rollback, RollbackStep, BeforeCompletion, Dispatch,
           CommitOnePhase, OnePhaseAnswered, PrepareNext, Voted, Decide, CommitNext,
           CommitAnswered, CommitEnds, Spin, RollbackNext, RollbackAnswered, RollbackEnds,
           AfterCompletion, ResourceSpins, coordVars, vars
  <2>5. pc'[c] \notin {"recommit", "recommitted"}
    <3>1. CASE c \in Committers /\ Commit(c)
      BY <3>1, <1>a, <2>1 DEF Commit, Loop, Goto, Return
    <3>2. CASE ResourceSpins(c)
      BY <3>2, <2>2 DEF ResourceSpins, vars
    <3>3. CASE c \in Committers /\ (CommitNext(c) \/ CommitAnswered(c))
      <4>1. pc[c] = "committed"
        BY <3>3, <2>2 DEF CommitNext, CommitAnswered
      <4> QED
        BY <1>a, <4>1, PhaseOfCall
    <3> QED
      BY <1>a, <3>1, <3>2, <3>3, BeforeCompletionMoves, DispatchMoves, CommitOnePhaseMoves,
         OnePhaseAnsweredMoves, PrepareNextMoves, VotedMoves, DecideMoves, CommitEndsMoves,
         SpinMoves, RollbackMoves, RollbackNextMoves, RollbackAnsweredMoves,
         RollbackEndsMoves, AfterCompletionMoves DEF Moves, CommitStep, RollbackStep
  <2>6. ~Repeating'
    BY <1>a, <2>1, <2>5, OthersStay DEF Repeating, LateAt, Label
  <2> QED
    BY <2>3, <2>4, <2>6
<1> QED
  BY <1>b, <1>1, <1>2, <1>3, VerdictStays

LEMMA VerdictAround ==
  ASSUME NEW d \in Deciders, Standing(d), Around
  PROVE  VerdictTrue(d)'
<1>a. /\ d \in Terminators /\ Late \subseteq Terminators /\ VerdictTrue(d) /\ TypeInv
      /\ \A e \in Terminators :
           /\ pc'[e] = pc[e] /\ ans'[e] = ans[e] /\ len'[e] = len[e] /\ reply'[e] = reply[e]
  BY AroundUndisturbs, Actors DEF Standing, DecisionInv, Undisturbed
<1>1. NothingCommitted => NothingCommitted'
  BY AroundCommitsNothing DEF CommitsNothing, NothingCommitted
<1>2. status' = "Committing" => status = "Committing"
  BY DEF Around, RegisterStep, Register, BeginTrans, Enlist, RollbackOnly,
         RegisterSynchronization, StatementFailsAt, coordVars, vars
<1>3. Repeating' => Repeating
  BY <1>a DEF Repeating, LateAt
<1> QED
  BY <1>a, <1>1, <1>2, <1>3, VerdictStays DEF VerdictTrue, Repeating

LEMMA VerdictStep ==
  ASSUME NEW d \in Deciders, Standing(d), Next \/ UNCHANGED vars
  PROVE  VerdictTrue(d)'
<1>a. d \in Terminators /\ Disconnecting = {}
  BY Actors DEF Standing, OneDecision
<1> QED
  BY <1>a, VerdictByDecider, VerdictByLate, VerdictAround, CallsKept
     DEF Next, Around, Finished, Disconnect, Terminators
-----------------------------------------------------------------------------
(***************************************************************************)
(* The invariant of the answers, and what the answers are worth.           *)
(***************************************************************************)
LEMMA AnswerInit == Init => AnswerInv
<1> SUFFICES ASSUME Init, NEW d \in Deciders PROVE WorldInv /\ DecisionInv(d)
  BY DEF AnswerInv
<1>a. /\ d \in Terminators /\ rcv = << >> /\ Len(rcv) = 0 /\ faults = 0
      /\ Late \subseteq Terminators
      /\ \A c \in Terminators : /\ pc[c] = "idle" /\ ix[c] = 1 /\ len[c] = 0 /\ ~heur[c]
                                /\ reply[c] = "none"
      /\ \A c \in Registrars : pc[c] = "idle"
  BY CallsAssumption DEF Init, Deciders, Terminators, Calls
<1>1. WorldInv
  BY <1>a DEF Init, WorldInv, WholeResources, Whole, NewResource, ListBegun, FailuresCounted,
              Answered
<1>2. VotesTrue(d) /\ AskedInOrder(d)
  BY <1>a DEF VotesTrue, AskedInOrder, Unasked
<1>3. Places(d) /\ VerdictTrue(d)
  BY <1>a DEF Init, Places, VerdictTrue, ReportedRollback
<1>4. \A c \in Terminators : CallInv(c, d)
  BY <1>a DEF CallInv, AnswerTrue, LoopTrue, ReplyTrue, AllCommitted
<1> QED
  BY <1>1, <1>2, <1>3, <1>4 DEF DecisionInv

LEMMA AnswerStep ==
  OneDecision /\ TypeInv /\ TypeInv' /\ AtomicInv /\ AnswerInv /\ [Next]_vars => AnswerInv'
<1> SUFFICES ASSUME OneDecision, TypeInv, TypeInv', AtomicInv, AnswerInv, [Next]_vars,
                    NEW d \in Deciders
             PROVE  WorldInv' /\ DecisionInv(d)'
  BY DEF AnswerInv
<1>1. Standing(d)
  BY ForwardStep DEF Standing, AtomicInv, AnswerInv
<1> QED
  BY <1>1, WorldKept, VotesStep, OrderStep, PlacesStep, VerdictStep, CallsKept DEF DecisionInv

(* With nobody to decide, nothing is ever answered.                        *)
Untouched ==
    Deciders = {} => /\ status \in {"Active", "MarkedRollback"}
                     /\ \A c \in Terminators : pc[c] = "idle" /\ reply[c] = "none"

LEMMA UntouchedStep == TypeInv /\ Untouched /\ [Next]_vars => Untouched'
<1> SUFFICES ASSUME TypeInv, Deciders = {}, [Next]_vars,
                    status \in {"Active", "MarkedRollback"},
                    \A c \in Terminators : pc[c] = "idle" /\ reply[c] = "none"
             PROVE  /\ status' \in {"Active", "MarkedRollback"}
                    /\ \A c \in Terminators : pc'[c] = "idle" /\ reply'[c] = "none"
  BY DEF Untouched
<1>a. \A c \in Terminators : ~MayCall(c)
  BY DEF Deciders, MayCall
<1>1. \A c \in Terminators : ~(Rollback(c) \/ RollbackStep(c))
  BY <1>a DEF Rollback, RollbackStep, RollbackNext, RollbackAnswered, RollbackEnds,
              AfterCompletion, ResourceSpins
<1>2. \A c \in Committers : ~(Commit(c) \/ CommitStep(c))
  BY <1>a DEF Terminators, Commit, CommitStep, BeforeCompletion, Dispatch, CommitOnePhase,
              OnePhaseAnswered, PrepareNext, Voted, Decide, CommitNext, CommitAnswered,
              CommitEnds, Spin
<1>3. CASE \E r \in Resources : Disconnect(r)
  BY <1>3 DEF Disconnect, coordVars
<1>4. CASE Around
  <2>1. status' \in {"Active", "MarkedRollback"}
    BY <1>4 DEF Around, RegisterStep, Register, BeginTrans, Enlist, RollbackOnly,
                RegisterSynchronization, StatementFailsAt, coordVars, vars
  <2> QED
    BY <1>4, <2>1, AroundUndisturbs
<1> QED
  BY <1>1, <1>2, <1>3, <1>4 DEF Next, Around, Finished

LEMMA UntouchedInit == Init => Untouched
BY DEF Init, Untouched, Terminators, Calls

(* A resource that a call and the decision both counted.                   *)
LEMMA CountedByBoth ==
  ASSUME TypeInv, OneDecision, ListDistinct, NEW c \in Terminators,
         NEW r \in Counted(c) \cap Members
  PROVE  \E d \in Deciders : \E i \in 1..len[c] : i <= len[d] /\ r = rcv[i].r
<1>1. PICK d \in Deciders : r \in Counted(d)
  BY DEF Members, Deciders
<1>2. /\ len[c] \in Nat /\ len[d] \in Nat /\ Len(rcv) \in Nat
      /\ len[c] <= Len(rcv) /\ len[d] <= Len(rcv)
  BY CallFacts, Actors
<1>3. PICK i \in 1..len[c], j \in 1..len[d] : r = rcv[i].r /\ r = rcv[j].r
  BY <1>1 DEF Counted
<1>4. i \in 1..Len(rcv) /\ j \in 1..Len(rcv)
  BY <1>2
<1>5. i = j
  BY <1>3, <1>4 DEF ListDistinct
<1> QED
  BY <1>3, <1>5

LEMMA AnswersFromInvariant ==
  OneDecision /\ TypeInv /\ AtomicInv /\ AnswerInv /\ Untouched =>
     CommitAnswerTrue /\ RollbackAnswerTrue /\ NothingLeftOpen
<1> SUFFICES ASSUME OneDecision, TypeInv, AtomicInv, AnswerInv, Untouched
             PROVE  CommitAnswerTrue /\ RollbackAnswerTrue /\ NothingLeftOpen
  OBVIOUS
<1>a. /\ ListDistinct /\ \A d \in Deciders : VerdictTrue(d)
      /\ \A d \in Deciders, c \in Terminators : ReplyTrue(c, d)
      /\ \A d \in Deciders, c \in Terminators : c = d \/ c \in Late
  BY Actors DEF AtomicInv, AnswerInv, DecisionInv, CallInv
<1>1. ASSUME NEW c \in Committers, reply[c] = "ok", ReportHeuristics,
             NEW r \in Counted(c) \cap Members
      PROVE  res[r].fate = "committed"
  BY <1>a, <1>1, CountedByBoth DEF Terminators, ReplyTrue, AllCommitted
<1>2. ASSUME NEW c \in Committers, reply[c] = "TRANSACTION_ROLLEDBACK"
      PROVE  NothingCommitted
  <2>1. c \in Terminators
    BY DEF Terminators
  <2>2. PICK d \in Deciders : TRUE
    BY <1>2, <2>1 DEF Untouched
  <2>3. c = d
    BY <1>a, <1>2, <2>1 DEF VerdictTrue
  <2> QED
    BY <1>a, <1>2, <2>3 DEF VerdictTrue, ReportedRollback
<1>3. ASSUME NEW c \in Rollbackers \ Late, reply[c] = "ok"
      PROVE  NothingCommitted /\ \A r \in Counted(c) : res[r].fate = "aborted"
  <2>1. c \in Deciders
    BY DEF Deciders, Terminators
  <2> QED
    BY <1>a, <1>3, <2>1 DEF VerdictTrue, ReportedRollback, AllAborted, Counted
<1>4. ASSUME NEW c \in Terminators, pc[c] = "done", up, faults = 0,
             NEW r \in Counted(c) \cap Members
      PROVE  res[r].fate \in {"committed", "aborted"}
  BY <1>a, <1>4, CountedByBoth DEF ReplyTrue
<1> QED
  BY <1>1, <1>2, <1>3, <1>4
     DEF CommitAnswerTrue, RollbackAnswerTrue, NothingLeftOpen, NothingCommitted

LEMMA AnswersInvariant ==
  ASSUME OneDecision PROVE Spec => [](TypeInv /\ AtomicInv /\ AnswerInv /\ Untouched)
<1>1. Spec => []TypeInv
  BY TypeInit, TypeStep, PTL DEF Spec
<1>2. Init => AtomicInv /\ AnswerInv /\ Untouched
  BY AtomicInit, AnswerInit, UntouchedInit
<1>3. TypeInv /\ TypeInv' /\ AtomicInv /\ AnswerInv /\ Untouched /\ [Next]_vars =>
         AtomicInv' /\ AnswerInv' /\ Untouched'
  BY AtomicStep, AnswerStep, UntouchedStep
<1> QED
  BY <1>1, <1>2, <1>3, PTL DEF Spec

(* A repeated rollback has counted at least the resources that the         *)
(* decision did: the list only grows, and the status that lets the repeated*)
(* call begin is stored after the decision has read the list for the last  *)
(* time.                                                                   *)
RedoPlaces == {"redo", "redone", "undoAfter"}

LateCounts ==
    \A d \in Deciders, e \in Late : pc[e] \in RedoPlaces => len[d] <= len[e]

(* The step of a call that repeats the rollback.                           *)
LEMMA RedoCounts ==
  ASSUME NEW d \in Deciders, Standing(d), LateCounts, NEW c \in Late,
         \/ c \in Committers /\ (Commit(c) \/ CommitStep(c))
         \/ Rollback(c) \/ RollbackStep(c),
         pc'[c] \in RedoPlaces
  PROVE  len'[d] <= len'[c]
<1>a. /\ c \in Terminators /\ c # d /\ c \in Calls /\ pc \in [Calls -> Label]
      /\ len \in [Terminators -> Nat] /\ d \in Terminators
      /\ len[d] <= Len(rcv) /\ PlaceOf(c, d) /\ PlaceOf(c, d)'
  BY StandingFacts, Actors, PlaceOfMover DEF Standing, DecisionInv, Places, PlaceOf
<1>1. len'[d] = len[d]
  BY <1>a, OthersStay
<1>2. c \in Rollbackers /\ c \notin Committers
  BY <1>a, CallsAssumption DEF PlaceOf, RedoPlaces, Terminators
<1>3. CASE Rollback(c)
  <2>1. len'[c] = Len(rcv)
    BY <1>3, <1>a, <1>2 DEF Rollback, Loop, Return, RollbackReturns, RedoPlaces
  <2> QED
    BY <1>a, <1>1, <2>1
<1>4. CASE RollbackStep(c)
  <2>1. UNCHANGED len /\ pc[c] # "idle" /\ pc[c] # "done"
    BY <1>4 DEF RollbackStep, RollbackNext, RollbackAnswered, RollbackEnds, AfterCompletion,
                ResourceSpins, callVars, vars
  <2>2. pc[c] \in RedoPlaces
    BY <1>a, <1>2, <2>1 DEF PlaceOf, RedoPlaces
  <2> QED
    BY <1>1, <2>1, <2>2 DEF LateCounts
<1> QED
  BY <1>2, <1>3, <1>4

LEMMA LateCountsStep ==
  OneDecision /\ TypeInv /\ TypeInv' /\ AtomicInv /\ AnswerInv /\ LateCounts /\ [Next]_vars =>
     LateCounts'
<1> SUFFICES ASSUME OneDecision, TypeInv, TypeInv', AtomicInv, AnswerInv, LateCounts, [Next]_vars,
                    NEW d \in Deciders, NEW e \in Late, pc'[e] \in RedoPlaces
             PROVE  len'[d] <= len'[e]
  BY DEF LateCounts
<1>a. /\ Standing(d) /\ e \in Terminators /\ e # d
      /\ len \in [Terminators -> Nat] /\ d \in Terminators /\ Phase(d)
  BY ForwardStep, Actors, CallFacts DEF Standing, AtomicInv, AnswerInv
<1>1. CASE Around
  BY <1>1, <1>a, AroundUndisturbs DEF Undisturbed, LateCounts
<1>2. ASSUME NEW c \in Terminators,
             \/ c \in Committers /\ (Commit(c) \/ CommitStep(c))
             \/ Rollback(c) \/ RollbackStep(c)
      PROVE  len'[d] <= len'[e]
  <2>1. CASE c = e
    BY <1>2, <1>a, <2>1, RedoCounts
  <2>2. CASE c # e
    <3>1. pc[e] \in RedoPlaces /\ len'[e] = len[e]
      BY <1>2, <1>a, <2>2, OthersStay DEF RedoPlaces
    <3>2. CASE c # d
      BY <1>2, <1>a, <3>1, <3>2, OthersStay DEF LateCounts
    <3>3. CASE c = d
      <4>1. pc[d] \in {"undo", "undone", "undoAfter", "done"}
        BY <1>a, <3>1 DEF RedoPlaces, Phase, Undecided, OnePhase, Voting, Committing, Undoing, LateAt
      <4>2. UNCHANGED len
        BY <1>2, <3>3, <4>1
           DEF Commit, CommitStep, Rollback, RollbackStep, BeforeCompletion, Dispatch,
               CommitOnePhase, OnePhaseAnswered, PrepareNext, Voted, Decide, CommitNext,
               CommitAnswered, CommitEnds, Spin, RollbackNext, RollbackAnswered, RollbackEnds,
               AfterCompletion, ResourceSpins, callVars, vars
      <4> QED
        BY <3>1, <4>2 DEF LateCounts
    <3> QED
      BY <3>2, <3>3
  <2> QED
    BY <2>1, <2>2
<1> QED
  BY <1>1, <1>2 DEF Next, Around, Finished, Terminators, OneDecision, Disconnect

LEMMA CompletionFromInvariant ==
  OneDecision /\ TypeInv /\ AtomicInv /\ AnswerInv /\ LateCounts => CompletionAfterOutcome
<1> SUFFICES ASSUME OneDecision, TypeInv, AtomicInv, AnswerInv, LateCounts, faults = 0,
                    NEW c \in Terminators, pc[c] \in {"after", "undoAfter"}, NEW r \in Members
             PROVE  res[r].fate \in {"committed", "aborted"}
  BY DEF CompletionAfterOutcome
<1>1. PICK d \in Deciders : r \in Counted(d)
  BY DEF Members, Deciders
<1>2. PICK i \in 1..len[d] : r = rcv[i].r
  BY <1>1 DEF Counted
<1>a. /\ d \in Terminators /\ (c = d \/ c \in Late) /\ c \in Calls
      /\ len[d] \in Nat /\ len[c] \in Nat /\ ~heur[c]
      /\ LoopTrue(c, d) /\ Places(d)
  BY Actors, CallFacts DEF AnswerInv, WorldInv, FailuresCounted, DecisionInv, CallInv
<1>3. CASE pc[c] = "after"
  <2>1. c = d
    BY <1>3, <1>a DEF Places, Terminators
  <2> QED
    BY <1>2, <1>3, <1>a, <2>1 DEF LoopTrue, AllCommitted
<1>4. CASE pc[c] = "undoAfter"
  <2>1. i \in 1..len[c]
    BY <1>2, <1>4, <1>a DEF LateCounts, RedoPlaces
  <2> QED
    BY <1>2, <1>4, <1>a, <2>1 DEF LoopTrue, AllAborted
<1> QED
  BY <1>3, <1>4

(* The invariant behind atomicity, which run two_phase also checks: in     *)
(* every phase of one decision the votes, the resources and the late calls *)
(* stand to each other as Coordinator_impl::commit and rollback mean them. *)
THEOREM PhasesHold == ASSUME OneDecision PROVE Spec => []AtomicInv
BY AnswersInvariant, PTL

(* The invariant behind the answers: every call knows the truth about the  *)
(* entries of the list its loop has passed.                                *)
THEOREM AnswersHold == ASSUME OneDecision PROVE Spec => []AnswerInv
BY AnswersInvariant, PTL

(* A commit that returns normally to a caller who asked for heuristics has *)
(* committed every resource it counted, and one that throws                *)
(* TRANSACTION_ROLLEDBACK leaves none committed, then or later.            *)
THEOREM CommitTellsTheTruth == ASSUME OneDecision PROVE Spec => []CommitAnswerTrue
BY AnswersInvariant, AnswersFromInvariant, PTL

(* The rollback that ends the transaction, when it returns normally, has   *)
(* rolled back every resource it counted, and nothing commits afterwards.  *)
THEOREM RollbackTellsTheTruth == ASSUME OneDecision PROVE Spec => []RollbackAnswerTrue
BY AnswersInvariant, AnswersFromInvariant, PTL

(* Short of network failures a call that is over leaves no resource that   *)
(* it and the decision counted with its transaction and its locks open.    *)
THEOREM CallsLeaveNothingOpen == ASSUME OneDecision PROVE Spec => []NothingLeftOpen
BY AnswersInvariant, AnswersFromInvariant, PTL

(* Short of network failures every resource that the decision counted is   *)
(* decided when any call, the first or one that repeats it and overtakes   *)
(* it, comes to notify the synchronizations.                               *)
THEOREM CompletionFollowsOutcome == ASSUME OneDecision PROVE Spec => []CompletionAfterOutcome
<1>1. Init => LateCounts
  BY CallsAssumption DEF Init, LateCounts, RedoPlaces, Deciders, Terminators, Calls
<1>2. TypeInv /\ TypeInv' /\ AtomicInv /\ AnswerInv /\ LateCounts /\ [Next]_vars => LateCounts'
  BY LateCountsStep
<1>3. Spec => [](TypeInv /\ AtomicInv /\ AnswerInv)
  BY AnswersInvariant, PTL
<1>4. TypeInv /\ AtomicInv /\ AnswerInv /\ LateCounts => CompletionAfterOutcome
  BY CompletionFromInvariant
<1> QED
  BY <1>1, <1>2, <1>3, <1>4, PTL DEF Spec
-----------------------------------------------------------------------------
(***************************************************************************)
(* What the abstract commitment sees of one resource, and what each        *)
(* operation on the resource does to it.                                   *)
(***************************************************************************)
Shown(p) == IF p.trans = "PREPARE" /\ p.fate = "open" THEN "prepared" ELSE p.fate

ShownAborts(p, q) == Shown(p) \in {"open", "prepared"} /\ Shown(q) = "aborted"

LEMMA PrepareShows ==
  ASSUME NEW p \in ResourceState, Sane(p)
  PROVE  LET q == PgPrepare(p).p
         IN  \/ Shown(q) = Shown(p)
             \/ Shown(p) = "open" /\ Shown(q) = "prepared"
             \/ ShownAborts(p, q)
BY DEF PgPrepare, XaPrepare, CanPrepare, Aborts, Settle, Outcome, Sane, Shown, ShownAborts,
       ResourceState, BlockState, TransState, Fate, ResourceStatus

LEMMA RollbackShows ==
  ASSUME NEW p \in ResourceState, Sane(p)
  PROVE  LET q == PgRollback(p).p IN Shown(q) = Shown(p) \/ ShownAborts(p, q)
BY DEF PgRollback, XaRollback, Aborts, Settle, Outcome, Sane, Shown, ShownAborts,
       ResourceState, BlockState, TransState, Fate, ResourceStatus

LEMMA CommitShows ==
  ASSUME NEW p \in ResourceState, Sane(p), Ready(p) \/ Finally(p)
  PROVE  LET q == PgCommit(p, FALSE).p
         IN  \/ Shown(q) = Shown(p)
             \/ Shown(p) = "prepared" /\ Shown(q) = "committed"
BY DEF PgCommit, XaCommit, Commits, Aborts, Settle, Outcome, Sane, Shown, Ready, Finally,
       ResourceState, BlockState, TransState, Fate, ResourceStatus

LEMMA BeginShows ==
  Shown(NewResource) = "none" /\ Shown(PgBeginTrans(NewResource).p) = "open"
BY DEF PgBeginTrans, Begin, Outcome, NewResource, Shown

LEMMA FaultShows ==
  ASSUME NEW p \in ResourceState, Sane(p), p.block = "INPROGRESS"
  PROVE  ShownAborts(p, StatementFails(p))
BY DEF StatementFails, Settle, Sane, Shown, ShownAborts,
       ResourceState, BlockState, TransState, Fate, ResourceStatus

(* The single resource votes and commits, or it aborts.                    *)
LEMMA OnePhaseShows ==
  ASSUME NEW p \in ResourceState, Sane(p)
  PROVE  LET q == PgCommitOnePhase(p, FALSE).p
         IN  \/ Shown(q) = Shown(p)
             \/ Shown(p) = "open" /\ Shown(q) = "committed"
             \/ ShownAborts(p, q)
<1> DEFINE v == PgPrepare(p)
<1>1. /\ v.p \in ResourceState /\ Sane(v.p)
      /\ v.answer \in {"VoteCommit", "VoteRollback", "spins"}
  BY PgTypes, PrepareEffect
<1>2. CASE v.answer = "VoteCommit"
  <2>1. PgCommitOnePhase(p, FALSE).p = PgCommit(v.p, FALSE).p
    BY <1>2 DEF PgCommitOnePhase
  <2>2. Ready(v.p) /\ Shown(p) = "open" /\ Shown(v.p) = "prepared"
    BY <1>2 DEF PgPrepare, XaPrepare, CanPrepare, Aborts, Settle, Outcome, Sane, Ready, Shown,
                ResourceState, BlockState, TransState, Fate, ResourceStatus
  <2>3. Shown(PgCommit(v.p, FALSE).p) = "committed"
    BY <2>2, <1>1 DEF PgCommit, XaCommit, Commits, Settle, Outcome, Sane, Ready, Shown,
                ResourceState, BlockState, TransState, Fate, ResourceStatus
  <2> QED
    BY <2>1, <2>2, <2>3
<1>3. CASE v.answer = "VoteRollback"
  <2>1. PgCommitOnePhase(p, FALSE).p = PgRollback(v.p).p
    BY <1>3 DEF PgCommitOnePhase, Outcome
  <2>2. Shown(v.p) = Shown(p) \/ ShownAborts(p, v.p)
    BY <1>3 DEF PgPrepare, XaPrepare, CanPrepare, Aborts, Settle, Outcome, Sane, Shown, ShownAborts,
                ResourceState, BlockState, TransState, Fate, ResourceStatus
  <2>3. Shown(PgRollback(v.p).p) = Shown(v.p) \/ ShownAborts(v.p, PgRollback(v.p).p)
    BY <1>1, RollbackShows
  <2> QED
    BY <2>1, <2>2, <2>3 DEF ShownAborts
<1>4. CASE v.answer = "spins"
  <2>1. PgCommitOnePhase(p, FALSE).p = v.p
    BY <1>4 DEF PgCommitOnePhase
  <2> QED
    BY <2>1, <1>4 DEF PgPrepare, Outcome
<1> QED
  BY <1>1, <1>2, <1>3, <1>4
-----------------------------------------------------------------------------
(***************************************************************************)
(* The steps of the abstract commitment, told by the resource that moves.  *)
(***************************************************************************)
Fates == [r \in Resources |-> FateOf(r)]

Mapped == Abstract!ANext \/ UNCHANGED <<Members, Fates>>

(* Only g may change.                                                      *)
Others(g) == \A r \in Resources : r # g => res'[r] = res[r]

LEMMA FatesShown ==
  /\ Fates = [r \in Resources |-> Shown(res[r])]
  /\ Fates' = [r \in Resources |-> Shown(res'[r])]
BY DEF Fates, FateOf, Shown

LEMMA FatesChange ==
  ASSUME NEW g \in Resources, Others(g)
  PROVE  Fates' = [Fates EXCEPT ![g] = Shown(res'[g])]
BY FatesShown DEF Others

LEMMA ShowsSame ==
  ASSUME NEW g \in Resources, Others(g), Members' = Members, Shown(res'[g]) = Shown(res[g])
  PROVE  Mapped
BY FatesShown DEF Others, Mapped

LEMMA ShowsBegin ==
  ASSUME NEW g \in Resources, Others(g), Members' = Members,
         Shown(res[g]) = "none", Shown(res'[g]) = "open"
  PROVE  Mapped
<1>1. Abstract!BeginWork(g)
  BY FatesShown, FatesChange DEF Abstract!BeginWork, Fates
<1> QED
  BY <1>1 DEF Mapped, Abstract!ANext

LEMMA ShowsVote ==
  ASSUME NEW g \in Resources, Others(g), Members' = Members,
         Shown(res[g]) = "open", Shown(res'[g]) = "prepared"
  PROVE  Mapped
<1>1. Abstract!Vote(g)
  BY FatesShown, FatesChange DEF Abstract!Vote, Fates
<1> QED
  BY <1>1 DEF Mapped, Abstract!ANext

LEMMA ShowsCommit ==
  ASSUME NEW g \in Resources, Others(g), Members' = Members, g \in Members,
         Members \subseteq Resources,
         Shown(res[g]) = "prepared" \/ (Shown(res[g]) = "open" /\ Members = {g}),
         \A s \in Members \ {g} : Shown(res[s]) \in {"prepared", "committed"},
         Shown(res'[g]) = "committed"
  PROVE  Mapped
<1>1. Abstract!CommitWork(g)
  BY FatesShown, FatesChange DEF Abstract!CommitWork, Fates
<1> QED
  BY <1>1 DEF Mapped, Abstract!ANext

LEMMA ShowsAbort ==
  ASSUME NEW g \in Resources, Others(g), Members' = Members, Members \subseteq Resources,
         ShownAborts(res[g], res'[g]),
         g \in Members => \A s \in Members : Shown(res[s]) # "committed"
  PROVE  Mapped
<1>1. Abstract!AbortWork(g)
  BY FatesShown, FatesChange DEF Abstract!AbortWork, Fates, ShownAborts
<1> QED
  BY <1>1 DEF Mapped, Abstract!ANext

LEMMA ShowsEnrol ==
  ASSUME UNCHANGED res, Members' \subseteq Resources, Members \subseteq Members',
         \A s \in Members' : Shown(res[s]) # "committed"
  PROVE  Mapped
<1>1. Abstract!Enrol
  BY FatesShown DEF Abstract!Enrol, Fates
<1> QED
  BY <1>1 DEF Mapped, Abstract!ANext

(* Nothing committed, nothing seen to be committed.                        *)
LEMMA NothingShown ==
  ASSUME NothingCommitted PROVE \A r \in Resources : Shown(res[r]) # "committed"
BY DEF NothingCommitted, Shown
-----------------------------------------------------------------------------
(***************************************************************************)
(* The members: what the decision has counted.                             *)
(***************************************************************************)
LEMMA MembersOf ==
  ASSUME OneDecision, NEW d \in Deciders
  PROVE  Members = Counted(d) /\ Members' = {rcv'[i].r : i \in 1..len'[d]}
<1>1. Terminators \ Late = {d}
  BY DEF OneDecision, Deciders
<1> QED
  BY <1>1 DEF Members, Counted

LEMMA MembersKnown ==
  ASSUME TypeInv, OneDecision, NEW d \in Deciders
  PROVE  /\ Members \subseteq Resources
         /\ \A i \in 1..len[d] : rcv[i].r \in Members
         /\ \A r \in Members : \E i \in 1..len[d] : r = rcv[i].r
<1>1. d \in Terminators
  BY DEF Deciders
<1>2. len[d] \in Nat /\ Len(rcv) \in Nat /\ len[d] <= Len(rcv) /\
      \A i \in 1..Len(rcv) : rcv[i].r \in Resources
  BY <1>1, CallFacts
<1> QED
  BY <1>2, MembersOf DEF Counted

LEMMA MembersKept ==
  ASSUME TypeInv, OneDecision, Forward, NEW d \in Deciders, len'[d] = len[d]
  PROVE  Members' = Members
<1>1. d \in Terminators
  BY DEF Deciders
<1>2. len[d] \in Nat /\ Len(rcv) \in Nat /\ len[d] <= Len(rcv)
  BY <1>1, CallFacts
<1>3. \A i \in 1..len[d] : rcv'[i].r = rcv[i].r
  BY <1>2 DEF Forward
<1> QED
  BY <1>3, MembersOf DEF Counted

(* The decision reads the list, whose length never shrinks.                *)
LEMMA MembersRead ==
  ASSUME TypeInv, OneDecision, NEW d \in Deciders, UNCHANGED <<rcv, res>>,
         len'[d] = Len(rcv), NothingCommitted
  PROVE  Mapped
<1>1. d \in Terminators
  BY DEF Deciders
<1>2. len[d] \in Nat /\ Len(rcv) \in Nat /\ len[d] <= Len(rcv) /\
      \A i \in 1..Len(rcv) : rcv[i].r \in Resources
  BY <1>1, CallFacts
<1>3. Members' \subseteq Resources /\ Members \subseteq Members'
  BY <1>2, MembersOf DEF Counted
<1> QED
  BY <1>3, NothingShown, ShowsEnrol
-----------------------------------------------------------------------------
(***************************************************************************)
(* The steps of the terminating calls.                                     *)
(***************************************************************************)
LEMMA NothingMoves ==
  ASSUME NEW d \in Deciders, Standing(d), UNCHANGED res, len'[d] = len[d]
  PROVE  Mapped
<1>1. Members' = Members
  BY MembersKept DEF Standing
<1> QED
  BY <1>1, FatesShown DEF Mapped

(* The call that decides reads the list before anything has committed.     *)
LEMMA DeciderReads ==
  ASSUME NEW d \in Deciders, Standing(d), (d \in Committers /\ Commit(d)) \/ Rollback(d)
  PROVE  Mapped
<1>a. /\ d \in Terminators /\ TypeInv /\ OneDecision /\ len \in [Terminators -> Nat]
      /\ ix \in [Terminators -> Nat \ {0}]
  BY StandingFacts, CallFacts DEF Deciders, Standing
<1>1. UNCHANGED <<rcv, res>>
  BY DEF Commit, Rollback, coordVars
<1>2. pc[d] \in {"idle", "rollback"}
  BY DEF Commit, Rollback
<1>3. NothingCommitted /\ status \in {"Active", "MarkedRollback"}
  BY <1>2, PhaseOfCall, <1>a DEF Standing, Phase, Undecided, OnePhase, Voting, Committing, Undoing
<1>4. len'[d] \in {len[d], Len(rcv)}
  BY <1>a, <1>3 DEF Commit, Rollback, Loop
<1> QED
  BY <1>a, <1>1, <1>3, <1>4, MembersRead, NothingMoves

(* One resource is called: it alone may change, to what the call makes of  *)
(* it.                                                                     *)
LEMMA OneIsCalled ==
  ASSUME NEW d \in Deciders, Standing(d), NEW c \in Terminators, UNCHANGED len,
         NEW outcome, Invoke(c, outcome), ix[c] <= len[c],
         NEW g, g = rcv[ix[c]].r
  PROVE  /\ g \in Resources /\ res[g] \in ResourceState /\ Sane(res[g]) /\ Others(g)
         /\ Members' = Members /\ Members \subseteq Resources
         /\ res'[g] \in {res[g], outcome.p}
         /\ ix[c] \in 1..Len(rcv)
<1>a. TypeInv /\ OneDecision /\ SaneResources /\ Forward
  BY DEF Standing
<1>1. len'[d] = len[d]
  OBVIOUS
<1> QED
  BY <1>a, <1>1, InvokeEffect, MembersKept, MembersKnown DEF SaneResources, Others

LEMMA PrepareMaps ==
  ASSUME NEW d \in Deciders, Standing(d), NEW c \in Committers, PrepareNext(c)
  PROVE  Mapped
<1> DEFINE g == rcv[ix[c]].r
<1>1. /\ c \in Terminators /\ Invoke(c, PgPrepare(res[g])) /\ ix[c] <= len[c] /\ UNCHANGED len
      /\ pc[c] = "prepare"
  BY DEF PrepareNext, More, Entry, Terminators, callVars
<1>2. NothingCommitted
  BY <1>1, PhaseOfCall DEF Voting
<1>3. /\ g \in Resources /\ res[g] \in ResourceState /\ Sane(res[g]) /\ Others(g)
      /\ Members' = Members /\ Members \subseteq Resources
      /\ res'[g] \in {res[g], PgPrepare(res[g]).p}
  BY <1>1, OneIsCalled
<1>4. \/ Shown(res'[g]) = Shown(res[g])
      \/ Shown(res[g]) = "open" /\ Shown(res'[g]) = "prepared"
      \/ ShownAborts(res[g], res'[g])
  BY <1>3, PrepareShows
<1> HIDE DEF g
<1> QED
  BY <1>2, <1>3, <1>4, ShowsSame, ShowsVote, ShowsAbort, NothingShown

LEMMA UndoMaps ==
  ASSUME NEW d \in Deciders, Standing(d), NEW c \in Terminators, RollbackNext(c)
  PROVE  Mapped
<1> DEFINE g == rcv[ix[c]].r
<1>1. pc[c] \in {"undo", "redo"} /\ ix[c] <= len[c] /\ UNCHANGED len
  BY DEF RollbackNext, More
<1>2. NothingCommitted
  BY <1>1, PhaseOfCall DEF Undoing
<1>3. CASE UNCHANGED res
  BY <1>1, <1>3, NothingMoves
<1>4. CASE Invoke(c, PgRollback(res[g]))
  <2>1. /\ g \in Resources /\ res[g] \in ResourceState /\ Sane(res[g]) /\ Others(g)
        /\ Members' = Members /\ Members \subseteq Resources
        /\ res'[g] \in {res[g], PgRollback(res[g]).p}
    BY <1>1, <1>4, OneIsCalled
  <2>2. Shown(res'[g]) = Shown(res[g]) \/ ShownAborts(res[g], res'[g])
    BY <2>1, RollbackShows
  <2> HIDE DEF g
  <2> QED
    BY <1>2, <2>1, <2>2, ShowsSame, ShowsAbort, NothingShown
<1> QED
  BY <1>3, <1>4 DEF RollbackNext, Entry

LEMMA CommitMaps ==
  ASSUME NEW d \in Deciders, Standing(d), NEW c \in Committers, CommitNext(c)
  PROVE  Mapped
<1> DEFINE g == rcv[ix[c]].r
<1>1. /\ c \in Terminators /\ ix[c] <= len[c] /\ UNCHANGED len
      /\ TypeInv /\ OneDecision /\ Phase(d) /\ AskedInOrder(d) /\ SaneResources
  BY DEF CommitNext, More, Terminators, Standing, DecisionInv
<1>2. CASE UNCHANGED res
  BY <1>1, <1>2, NothingMoves
<1>3. ASSUME CommitCalls(c), Invoke(c, PgCommit(res[g], FALSE)) PROVE Mapped
  <2>1. /\ g \in Resources /\ res[g] \in ResourceState /\ Sane(res[g]) /\ Others(g)
        /\ Members' = Members /\ Members \subseteq Resources
        /\ res'[g] \in {res[g], PgCommit(res[g], FALSE).p}
    BY <1>1, <1>3, OneIsCalled
  <2>2. /\ Committing(d) /\ ix[c] \in 1..len[d]
        /\ Ready(res[g]) \/ Finally(res[g])
    BY <1>1, <1>3, CommitCallsIn
  <2>3. \/ Shown(res'[g]) = Shown(res[g])
        \/ Shown(res[g]) = "prepared" /\ Shown(res'[g]) = "committed"
    BY <2>1, <2>2, CommitShows
  <2>4. g \in Members
    BY <1>1, <2>2, MembersKnown
  <2>5. \A s \in Members : Shown(res[s]) \in {"prepared", "committed"}
    <3>1. \A s \in Members : Sane(res[s]) /\ (Ready(res[s]) \/ Finally(res[s]))
      BY <1>1, <2>1, <2>2, MembersKnown DEF Committing, AllIn, SaneResources
    <3> QED
      BY <3>1 DEF Sane, Ready, Finally, Shown
  <2> HIDE DEF g
  <2> QED
    BY <2>1, <2>3, <2>4, <2>5, ShowsSame, ShowsCommit
<1>4. \/ UNCHANGED res
      \/ CommitCalls(c) /\ Invoke(c, PgCommit(res[g], FALSE))
  BY <1>1 DEF CommitNext, CommitCalls, Entry, TriggerFails, OneDecision
<1> QED
  BY <1>2, <1>3, <1>4

LEMMA OnePhaseMaps ==
  ASSUME NEW d \in Deciders, Standing(d), NEW c \in Committers, CommitOnePhase(c)
  PROVE  Mapped
<1> DEFINE g == rcv[ix[c]].r
<1> DEFINE q == PgCommitOnePhase(res[g], FALSE)
<1>1. /\ c \in Terminators /\ UNCHANGED len /\ pc[c] = "onephase"
      /\ TypeInv /\ OneDecision /\ SaneResources /\ WholeResources
  BY DEF CommitOnePhase, Terminators, Standing, callVars, WorldInv
<1>2. c = d /\ NothingCommitted /\ ix[c] = 1 /\ len[c] = 1 /\ ix[c] <= len[c]
  BY <1>1, PhaseOfCall DEF Undecided, TypeInv, LoopsInside, LoopInside
<1>3. /\ c \in Terminators /\ Len(rcv) \in Nat /\ len[c] <= Len(rcv)
      /\ \A i \in 1..Len(rcv) : rcv[i].r \in Resources /\ res[rcv[i].r] \in ResourceState
  BY <1>1, CallFacts
<1>4. q.answer # "HeuristicRollback"
  <2>1. ix[c] \in 1..Len(rcv)
    BY <1>2, <1>3
  <2>2. res[g] \in ResourceState /\ Sane(res[g]) /\ Whole(res[g])
    BY <1>1, <1>3, <2>1 DEF SaneResources, WholeResources
  <2> HIDE DEF g
  <2> QED
    BY <2>2, OnePhaseSettles
<1>5. Invoke(c, q)
  BY <1>1, <1>4 DEF CommitOnePhase, Entry, TriggerFails, OneDecision
<1>6. /\ g \in Resources /\ res[g] \in ResourceState /\ Sane(res[g]) /\ Others(g)
      /\ Members' = Members /\ Members \subseteq Resources
      /\ res'[g] \in {res[g], q.p}
  BY <1>1, <1>2, <1>5, OneIsCalled
<1>7. Members = {g}
  BY <1>1, <1>2, MembersKnown
<1>8. \/ Shown(res'[g]) = Shown(res[g])
      \/ Shown(res[g]) = "open" /\ Shown(res'[g]) = "committed"
      \/ ShownAborts(res[g], res'[g])
  BY <1>6, OnePhaseShows
<1> HIDE DEF g, q
<1> QED
  BY <1>2, <1>6, <1>7, <1>8, ShowsSame, ShowsCommit, ShowsAbort, NothingShown

LEMMA TerminatorMaps ==
  ASSUME NEW d \in Deciders, Standing(d), NEW c \in Terminators,
         \/ c \in Committers /\ (Commit(c) \/ CommitStep(c))
         \/ Rollback(c) \/ RollbackStep(c)
  PROVE  Mapped
<1>a. d \in Terminators
  BY StandingFacts
<1>1. CASE UNCHANGED res /\ len'[d] = len[d]
  BY <1>1, NothingMoves
<1>2. CASE c = d /\ ((d \in Committers /\ Commit(d)) \/ Rollback(d))
  BY <1>2, DeciderReads
<1>3. CASE c \in Committers /\ (CommitOnePhase(c) \/ PrepareNext(c) \/ CommitNext(c))
  BY <1>3, OnePhaseMaps, PrepareMaps, CommitMaps
<1>4. CASE RollbackNext(c)
  BY <1>4, UndoMaps
<1>5. CASE c # d
  <2>1. len'[d] = len[d]
    BY <1>a, <1>5, OthersStay
  <2> QED
    BY <1>1, <1>3, <1>4, <2>1
       DEF Commit, CommitStep, Rollback, RollbackStep, BeforeCompletion, Dispatch,
           OnePhaseAnswered, Voted, Decide, CommitAnswered, CommitEnds, Spin,
           RollbackAnswered, RollbackEnds, AfterCompletion, ResourceSpins, vars
<1>6. CASE c = d
  BY <1>1, <1>2, <1>3, <1>4, <1>6
     DEF CommitStep, RollbackStep, BeforeCompletion, Dispatch,
         OnePhaseAnswered, Voted, Decide, CommitAnswered, CommitEnds, Spin,
         RollbackAnswered, RollbackEnds, AfterCompletion, ResourceSpins, vars, callVars
<1> QED
  BY <1>5, <1>6
-----------------------------------------------------------------------------
(***************************************************************************)
(* The steps of the world around the terminating calls, and the theorem.   *)
(***************************************************************************)
(* Whoever decides, a failing statement aborts no member of a group of     *)
(* which another has committed: a prepared member has no open statement.   *)
LEMMA AroundMaps ==
  ASSUME TypeInv, OneDecision, SaneResources, ListDistinct, Around, Members' = Members,
         Members \subseteq Resources,
         \A g \in Members : res[g].block = "INPROGRESS" =>
            \A s \in Members : Shown(res[s]) # "committed"
  PROVE  Mapped
<1>a. /\ res \in [Resources -> ResourceState]
      /\ \A g \in Registrars : Target[g] \in Resources
  BY TargetAssumption DEF TypeInv, TypeOK, WorldTypes
<1>1. CASE UNCHANGED res
  BY <1>1, FatesShown DEF Mapped
<1>2. ASSUME NEW c \in Registrars, BeginTrans(c) PROVE Mapped
  <2> DEFINE g == Target[c]
  <2>1. res' \in {res, [res EXCEPT ![g] = PgBeginTrans(res[g]).p]} /\ res[g] = NewResource
    BY <1>2 DEF BeginTrans, ListDistinct
  <2>2. g \in Resources /\ Others(g)
    BY <1>a, <2>1 DEF Others
  <2>3. res'[g] = res[g] \/ res'[g] = PgBeginTrans(NewResource).p
    BY <1>a, <2>1, <2>2
  <2> HIDE DEF g
  <2> QED
    BY <2>1, <2>2, <2>3, BeginShows, ShowsSame, ShowsBegin
<1>3. ASSUME NEW g \in Resources, StatementFailsAt(g) PROVE Mapped
  <2>1. /\ res[g] \in ResourceState /\ Sane(res[g]) /\ res[g].block = "INPROGRESS"
        /\ res'[g] = StatementFails(res[g]) /\ Others(g)
    BY <1>a, <1>3 DEF StatementFailsAt, SaneResources, Others
  <2>2. ShownAborts(res[g], res'[g])
    BY <2>1, FaultShows
  <2> QED
    BY <2>1, <2>2, ShowsAbort
<1> QED
  BY <1>1, <1>2, <1>3
     DEF Around, RegisterStep, Register, Enlist, RollbackOnly, RegisterSynchronization, vars

LEMMA OpenMembers ==
  ASSUME NEW d \in Deciders, Standing(d), NEW g \in Members, res[g].block = "INPROGRESS",
         NEW s \in Members
  PROVE  Shown(res[s]) # "committed"
<1>1. /\ TypeInv /\ OneDecision /\ Members \subseteq Resources /\ Phase(d)
      /\ res[g].fate = "open"
  BY MembersKnown DEF Standing, SaneResources, Sane
<1>2. CASE NothingCommitted
  BY <1>1, <1>2, NothingShown
<1>3. CASE OnePhase(d)
  <2>1. s = g
    BY <1>1, <1>3, MembersKnown DEF OnePhase
  <2> QED
    BY <1>1, <2>1 DEF Shown
<1>4. CASE Committing(d)
  <2>1. Ready(res[g]) \/ Finally(res[g])
    BY <1>1, <1>4, MembersKnown DEF Committing, AllIn
  <2> QED
    BY <1>1, <2>1 DEF Ready, Finally
<1> QED
  BY <1>1, <1>2, <1>3, <1>4 DEF Phase, Undecided, Voting, Undoing

(* With nobody to decide, no terminating call moves.                       *)
LEMMA UntouchedMoves ==
  ASSUME Deciders = {}, status \in {"Active", "MarkedRollback"}, NEW c \in Terminators,
         pc[c] = "idle",
         \/ c \in Committers /\ (Commit(c) \/ CommitStep(c))
         \/ Rollback(c) \/ RollbackStep(c)
  PROVE  FALSE
<1>1. ~MayCall(c)
  BY DEF Deciders, MayCall
<1> QED
  BY <1>1 DEF Commit, CommitStep, Rollback, RollbackStep, BeforeCompletion, Dispatch,
              CommitOnePhase, OnePhaseAnswered, PrepareNext, Voted, Decide, CommitNext,
              CommitAnswered, CommitEnds, Spin, RollbackNext, RollbackAnswered, RollbackEnds,
              AfterCompletion, ResourceSpins

LEMMA InitMaps == Init => Abstract!AInit
<1> SUFFICES ASSUME Init PROVE Members = {} /\ Fates = [r \in Resources |-> "none"]
  BY DEF Abstract!AInit, Fates
<1>1. Members = {}
  BY DEF Init, Members, Counted, Terminators
<1> QED
  BY <1>1, FatesShown, BeginShows DEF Init

LEMMA StepMaps ==
  /\ OneDecision /\ TypeInv /\ TypeInv' /\ AtomicInv /\ AnswerInv /\ Untouched /\ [Next]_vars
  => Mapped
<1> SUFFICES ASSUME OneDecision, TypeInv, TypeInv', AtomicInv, AnswerInv, Untouched, [Next]_vars
             PROVE  Mapped
  OBVIOUS
<1>a. Forward /\ SaneResources /\ ListDistinct
  BY ForwardStep DEF AtomicInv
<1>1. Around \/ \E c \in Terminators : \/ c \in Committers /\ (Commit(c) \/ CommitStep(c))
                                       \/ Rollback(c) \/ RollbackStep(c)
  BY DEF Next, Around, Finished, Terminators, OneDecision, Disconnect
<1>2. ASSUME NEW d \in Deciders PROVE Mapped
  <2>1. Standing(d)
    BY <1>a DEF Standing, AtomicInv, AnswerInv
  <2>2. CASE Around
    <3>1. d \in Terminators
      BY DEF Deciders
    <3>2. len'[d] = len[d]
      BY <2>2, <3>1, AroundUndisturbs DEF Undisturbed
    <3> QED
      BY <1>a, <2>1, <2>2, <3>2, MembersKept, MembersKnown, OpenMembers, AroundMaps
  <2> QED
    BY <1>1, <2>1, <2>2, TerminatorMaps
<1>3. CASE Deciders = {}
  <2>1. Members = {} /\ Members' = {}
    BY <1>3 DEF Members, Deciders
  <2>2. Around
    BY <1>1, <1>3, UntouchedMoves DEF Untouched
  <2> QED
    BY <1>a, <2>1, <2>2, AroundMaps
<1> QED
  BY <1>2, <1>3

(* One decision of the coordinator implements the abstract atomic          *)
(* commitment: it counts its members before the first of them commits,     *)
(* commits none before every other one has voted, and then aborts none,    *)
(* for any number of resources, statements that fail, late repetitions of  *)
(* the call and failures of the network.                                   *)
THEOREM Refinement == ASSUME OneDecision PROVE Spec => ImplementsAtomicCommit
<1>1. Init => Abstract!AInit
  BY InitMaps
<1>2. TypeInv /\ TypeInv' /\ AtomicInv /\ AnswerInv /\ Untouched /\ [Next]_vars =>
         [Abstract!ANext]_(Abstract!avars)
  BY StepMaps DEF Mapped, Abstract!avars, Fates
<1>3. Spec => [](TypeInv /\ AtomicInv /\ AnswerInv /\ Untouched)
  BY AnswersInvariant
<1> QED
  BY <1>1, <1>2, <1>3, PTL DEF Spec, ImplementsAtomicCommit, Abstract!ASpec
=============================================================================
