------------------------------ MODULE SoloProofs ------------------------------
(***************************************************************************)
(* When one call ends the transaction, what it answers is true and         *)
(* after_completion is its last word, for every set of resources and of    *)
(* registrations, however connections break, deferred triggers fail and    *)
(* remote calls are lost.                                                  *)
(***************************************************************************)
EXTENDS AnswerProofs

(***************************************************************************)
(* What the operations of a resource do when its connection may be gone    *)
(* and its deferred triggers may fail.                                     *)
(***************************************************************************)
LEMMA SoundPrepare ==
  ASSUME NEW p \in ResourceState, Sound(p)
  PROVE  LET q == PgPrepare(p)
         IN  /\ Sound(q.p)
             /\ p.status # "Committing" => q.p.status # "Committing"
             /\ q.answer = "VoteCommit" => Promised(q.p) /\ q.p.live
             /\ p.status = "Active" => q.p.status = "Prepared" /\ q.answer # "spins"
             /\ p.fate # "none" => q.p.fate # "none"
             /\ /\ p.status = "Active" /\ p.fate \notin {"none", "committed"}
                /\ q.answer = "VoteRollback"
                => q.p.fate = "aborted"
BY DEF PgPrepare, XaPrepare, CanPrepare, Aborts, Settle, Outcome, Sane, Sound, Promised,
       ResourceState, BlockState, TransState, Fate, ResourceStatus

LEMMA SoundRollback ==
  ASSUME NEW p \in ResourceState, Sound(p)
  PROVE  LET q == PgRollback(p)
         IN  /\ Sound(q.p)
             /\ p.status # "Committing" => q.p.status # "Committing"
             /\ p.status # "Committing" /\ p.fate # "none" /\ q.answer = "ok" =>
                   q.p.fate = "aborted"
BY DEF PgRollback, XaRollback, Aborts, Settle, Outcome, Sane, Sound,
       ResourceState, BlockState, TransState, Fate, ResourceStatus

LEMMA SoundCommit ==
  ASSUME NEW p \in ResourceState, Sound(p), NEW t \in BOOLEAN
  PROVE  LET q == PgCommit(p, t)
         IN  /\ Sound(q.p)
             /\ Promised(p) /\ q.answer = "ok" => q.p.fate = "committed"
             /\ Promised(p) /\ p.fate # "none" => q.p.fate \in {"committed", "aborted"}
BY DEF PgCommit, XaCommit, XaCommitOk, Commits, Aborts, Settle, Outcome, Sane, Sound, Promised,
       ResourceState, BlockState, TransState, Fate, ResourceStatus

LEMMA SoundFaults ==
  ASSUME NEW p \in ResourceState, Sound(p)
  PROVE  /\ LET q == ConnectionLost(p)
            IN  /\ Sound(q) /\ q.status = p.status
                /\ Promised(p) => Promised(q)
                /\ p.fate = "none" <=> q.fate = "none"
                /\ q.fate # p.fate => p.fate = "open" /\ q.fate = "aborted"
                /\ p.fate \in {"committed", "aborted"} => q.fate = p.fate
         /\ p.block = "INPROGRESS" =>
              LET q == StatementFails(p)
              IN  /\ Sound(q) /\ q.status = p.status
                  /\ p.fate = "open" /\ q.fate = "aborted"
                  /\ ~Promised(p)
BY DEF StatementFails, ConnectionLost, Settle, Sane, Sound, Promised,
       ResourceState, BlockState, TransState, Fate, ResourceStatus

LEMMA SoundBegin ==
  ASSUME NEW p \in ResourceState, Sound(p), p.fate = "none"
  PROVE  LET q == PgBeginTrans(p)
         IN  /\ Sound(q.p) /\ q.p.status = p.status
             /\ q.answer = "ok" => q.p.fate = "open"
BY DEF PgBeginTrans, Begin, Outcome, Sane, Sound,
       ResourceState, BlockState, TransState, Fate, ResourceStatus

LEMMA SoundOnePhase ==
  ASSUME NEW p \in ResourceState, Sound(p), NEW t \in BOOLEAN
  PROVE  LET q == PgCommitOnePhase(p, t)
         IN  /\ Sound(q.p)
             /\ q.answer = "ok" => q.p.fate = "committed"
             /\ p.status # "Committing" /\ q.answer = "TRANSACTION_ROLLEDBACK" =>
                   q.p.status # "Committing"
             /\ p.status = "Active" /\ p.fate # "none" /\ q.answer # "spins" =>
                   q.p.fate \in {"committed", "aborted"}
<1> DEFINE m == PgPrepare(p)
           o == PgCommitOnePhase(p, t)
           done == PgCommit(m.p, t)
           undone == PgRollback(m.p)
<1>1. /\ m.p \in ResourceState /\ m.answer \in {"VoteCommit", "VoteRollback", "spins"}
      /\ Sound(m.p)
      /\ p.status # "Committing" => m.p.status # "Committing"
      /\ m.answer = "VoteCommit" => Promised(m.p)
      /\ p.status = "Active" => m.p.status = "Prepared" /\ m.answer # "spins"
      /\ p.fate # "none" => m.p.fate # "none"
  BY PgTypes, SoundPrepare
<1>2. /\ m.answer = "VoteCommit" => o = done
      /\ m.answer = "VoteRollback" =>
            /\ o.p = undone.p
            /\ o.answer \in {"spins", "TRANSACTION_ROLLEDBACK"}
            /\ undone.answer = "spins" => o.answer = "spins"
      /\ m.answer = "spins" => o = m
  <2>1. m.answer = "VoteRollback" =>
            o = IF undone.answer = "spins" THEN undone
                ELSE [p |-> undone.p, answer |-> "TRANSACTION_ROLLEDBACK"]
    BY DEF PgCommitOnePhase, Outcome
  <2>2. m.answer = "VoteCommit" => o = done
    BY DEF PgCommitOnePhase
  <2>3. m.answer = "spins" => o = m
    BY DEF PgCommitOnePhase
  <2> HIDE DEF m, o, done, undone
  <2> QED
    BY <2>1, <2>2, <2>3
<1>3. /\ Sound(done.p) /\ (Promised(m.p) /\ done.answer = "ok" => done.p.fate = "committed")
      /\ done.answer # "TRANSACTION_ROLLEDBACK"
      /\ Promised(m.p) /\ m.p.fate # "none" => done.p.fate \in {"committed", "aborted"}
  <2> HIDE DEF m
  <2> QED
    BY <1>1, SoundCommit, PgTypes
<1>4. /\ Sound(undone.p) /\ undone.p \in ResourceState
      /\ m.p.status # "Committing" => undone.p.status # "Committing"
      /\ m.p.status # "Committing" /\ m.p.fate # "none" =>
            undone.answer = "spins" \/ undone.p.fate = "aborted"
  <2> HIDE DEF m
  <2> QED
    BY <1>1, SoundRollback, PgTypes
<1> HIDE DEF m, o, done, undone
<1>5. /\ Sound(o.p)
      /\ o.answer = "ok" => o.p.fate = "committed"
      /\ p.status # "Committing" /\ o.answer = "TRANSACTION_ROLLEDBACK" =>
            o.p.status # "Committing"
  BY <1>1, <1>2, <1>3, <1>4
<1>6. p.status = "Active" /\ p.fate # "none" /\ o.answer # "spins" =>
         o.p.fate \in {"committed", "aborted"}
  BY <1>1, <1>2, <1>3, <1>4
<1> QED
  BY <1>5, <1>6 DEF o
-----------------------------------------------------------------------------
(***************************************************************************)
(* The only call that ends the transaction, in a step of anybody.          *)
(***************************************************************************)
Alone(d) ==
    /\ d \in Terminators /\ TypeInv /\ TypeInv' /\ Solo /\ Forward
    /\ SoundResources /\ ListSound /\ SoloCall(d)

LEMMA AloneFacts ==
  ASSUME NEW d, Alone(d)
  PROVE  /\ d \in Terminators /\ Terminators = {d} /\ d \in Calls
         /\ d \notin Registrars /\ d \notin Markers
         /\ d \in Committers => d \notin Rollbackers
         /\ d \in Committers \/ d \in Rollbackers
         /\ pc \in [Calls -> Label] /\ reply \in [Calls -> Reply] /\ up \in BOOLEAN
         /\ ix \in [Terminators -> Nat \ {0}] /\ len \in [Terminators -> Nat]
         /\ heur \in [Terminators -> BOOLEAN] /\ ans \in [Terminators -> Answer]
         /\ ix[d] \in Nat \ {0} /\ len[d] \in Nat /\ Len(rcv) \in Nat /\ len[d] <= Len(rcv)
         /\ ix'[d] \in Nat \ {0} /\ len'[d] \in Nat /\ Len(rcv') \in Nat /\ len'[d] <= Len(rcv')
         /\ res \in [Resources -> ResourceState] /\ faults \in Nat /\ faults' \in Nat
         /\ faults <= faults' /\ Len(rcv) <= Len(rcv')
         /\ \A i \in 1..Len(rcv) :
              /\ rcv[i].r \in Resources /\ res[rcv[i].r].fate # "none"
              /\ res[rcv[i].r] \in ResourceState /\ Sound(res[rcv[i].r])
              /\ rcv[i].rv \in ResourceVote
         /\ pc[d] \in Answered => ix[d] <= len[d] /\ ans[d] \in AnswerTo(pc[d])
         /\ status \in TransactionStatus /\ status' \in TransactionStatus
<1>1. /\ d \in Terminators /\ TypeInv /\ TypeInv' /\ Solo /\ Forward
      /\ SoundResources /\ ListSound
  BY DEF Alone
<1>2. Terminators = {d} /\ d \notin Registrars /\ d \notin Markers
      /\ (d \in Committers => d \notin Rollbackers) /\ (d \in Committers \/ d \in Rollbackers)
  BY <1>1, CallsAssumption DEF Solo, Terminators
<1>3. /\ ix'[d] \in Nat \ {0} /\ len'[d] \in Nat /\ Len(rcv') \in Nat /\ len'[d] <= Len(rcv')
      /\ faults' \in Nat /\ status' \in TransactionStatus
  <2>1. CoordTypes' /\ CallTypes' /\ WorldTypes' /\ LoopsInside'
    BY <1>1 DEF TypeInv, TypeOK
  <2>2. Len(rcv') \in Nat /\ status' \in TransactionStatus
    BY <2>1, LenProperties DEF CoordTypes
  <2>3. ix'[d] \in Nat \ {0} /\ len'[d] \in Nat /\ len'[d] <= Len(rcv')
    BY <1>1, <2>1 DEF CallTypes, LoopsInside, LoopInside
  <2>4. faults' \in Nat
    BY <2>1, FaultsAssumption DEF WorldTypes
  <2> QED
    BY <2>2, <2>3, <2>4
<1>4. status \in TransactionStatus /\ \A i \in 1..Len(rcv) : rcv[i].rv \in ResourceVote
  BY <1>1, ListTypes DEF TypeInv, TypeOK, CoordTypes
<1>5. /\ faults <= faults' /\ Len(rcv) <= Len(rcv')
      /\ \A i \in 1..Len(rcv) :
           /\ rcv[i].r \in Resources /\ res[rcv[i].r].fate # "none"
           /\ res[rcv[i].r] \in ResourceState /\ Sound(res[rcv[i].r])
  BY <1>1, CallFacts DEF Forward, ListSound, SoundResources
<1> QED
  BY <1>1, <1>2, <1>3, <1>4, <1>5, CallFacts

(* A decision that was made, and failures that happened, are not taken     *)
(* back.                                                                   *)
LEMMA AloneStays ==
  ASSUME NEW d, Alone(d)
  PROVE  /\ \A i \in 1..Len(rcv) :
              /\ rcv'[i].r = rcv[i].r
              /\ res[rcv[i].r].fate = "committed" => res'[rcv'[i].r].fate = "committed"
              /\ res[rcv[i].r].fate = "aborted" => res'[rcv'[i].r].fate = "aborted"
         /\ faults' = 0 => faults = 0
BY SettledStay DEF Alone, Forward

(* A resource that was told to commit is the only one that can have done.  *)
LEMMA NobodyCommitted ==
  ASSUME NEW d, Alone(d), NoneTold
  PROVE  \A i \in 1..Len(rcv) : res[rcv[i].r].fate # "committed"
BY AloneFacts DEF NoneTold, Sound

(* Votes stay true when none changes but to what the fates say.            *)
LEMMA AloneVotes ==
  ASSUME NEW d, Alone(d),
         \A i \in 1..Len(rcv') :
            \/ i \in 1..Len(rcv) /\ rcv'[i].rv = rcv[i].rv
            \/ rcv'[i].rv \in {"NotPrepared", "VoteCommit"}
            \/ i \in 1..Len(rcv) /\ rcv'[i].rv = "Committed"
                  /\ res[rcv[i].r].fate = "committed"
            \/ i \in 1..Len(rcv) /\ rcv'[i].rv = "RolledBack"
                  /\ (faults = 0 \/ d \in Rollbackers => res[rcv[i].r].fate = "aborted")
  PROVE  VotesTrue(d)'
<1>1. VotesTrue(d)
  BY DEF Alone, SoloCall
<1> QED
  BY <1>1, AloneStays DEF VotesTrue
-----------------------------------------------------------------------------
(***************************************************************************)
(* The world around the call.                                              *)
(***************************************************************************)
LEMMA SoloListKept ==
  ASSUME NEW d, Alone(d), NEW L, Moves(d, L), Len(rcv') = Len(rcv),
         \A r \in Resources : (\A i \in 1..Len(rcv) : rcv[i].r # r) => res'[r] = res[r]
  PROVE  ListSound'
<1>1. \A g \in Registrars : pc'[g] = pc[g] \/ pc'[g] = "done"
  BY AloneFacts, CallsAssumption DEF Moves, Calls
<1>2. /\ ListSound /\ TypeInv /\ Forward
      /\ \A g \in Registrars : Target[g] \in Resources
      /\ \A i \in 1..Len(rcv) : rcv'[i].r = rcv[i].r
  BY TargetAssumption, AloneStays DEF Alone
<1>3. \A i, j \in 1..Len(rcv') : rcv'[i].r = rcv'[j].r => i = j
  BY <1>2 DEF ListSound
<1>4. \A i \in 1..Len(rcv') : res'[rcv'[i].r].fate # "none"
  BY <1>2, SettledStay DEF ListSound
<1>5. ASSUME NEW g \in Registrars, Asked(g)'
      PROVE  /\ \A i \in 1..Len(rcv') : rcv'[i].r # Target[g]
             /\ res'[Target[g]].status = "Active"
             /\ res'[Target[g]].fate = "none" <=> pc'[g] # "enlist"
  <2>1. pc'[g] = pc[g] /\ Asked(g)
    BY <1>1, <1>5 DEF Asked
  <2>2. /\ \A i \in 1..Len(rcv) : rcv[i].r # Target[g]
        /\ res[Target[g]].status = "Active"
        /\ res[Target[g]].fate = "none" <=> pc[g] # "enlist"
    BY <1>2, <2>1 DEF ListSound
  <2>3. res'[Target[g]] = res[Target[g]]
    BY <1>2, <2>2
  <2> QED
    BY <1>2, <2>1, <2>2, <2>3
<1> QED
  BY <1>3, <1>4, <1>5 DEF ListSound

World == Around \/ \E r \in Resources : Disconnect(r)

(* A resource changes from outside by BEGIN, before it is in the list, by  *)
(* a statement that fails, or with its connection.                         *)
LEMMA WorldSteps ==
  ASSUME World
  PROVE  \/ \E g \in Registrars : BeginTrans(g)
         \/ \E r \in Resources : StatementFailsAt(r) \/ Disconnect(r)
         \/ \E g \in Registrars : Enlist(g)
         \/ UNCHANGED <<rcv, res>> /\ \E g \in Registrars : Register(g)
         \/ UNCHANGED <<rcv, res>> /\ \E m \in Markers : RollbackOnly(m)
         \/ UNCHANGED <<rcv, res, pc>>
BY DEF World, Around, RegisterStep, Register, RollbackOnly, RegisterSynchronization, vars, coordVars

LEMMA WorldSound ==
  ASSUME NEW d, Alone(d), World
  PROVE  /\ SoundResources'
         /\ \A r \in Resources : res'[r].status = res[r].status
         /\ \A i \in 1..Len(rcv) : Promised(res[rcv[i].r]) => Promised(res'[rcv[i].r])
         /\ \A i \in 1..Len(rcv) :
              res'[rcv[i].r].fate # res[rcv[i].r].fate =>
                 res[rcv[i].r].fate = "open" /\ res'[rcv[i].r].fate = "aborted"
<1>a. /\ res \in [Resources -> ResourceState] /\ \A i \in 1..Len(rcv) : rcv[i].r \in Resources
      /\ SoundResources /\ ListSound /\ \A g \in Registrars : Target[g] \in Resources
  BY AloneFacts, TargetAssumption DEF Alone
<1>1. CASE UNCHANGED res
  BY <1>1, <1>a DEF SoundResources
<1>2. ASSUME NEW g \in Registrars, BeginTrans(g)
      PROVE  /\ SoundResources'
             /\ \A r \in Resources : res'[r].status = res[r].status
             /\ \A i \in 1..Len(rcv) : res'[rcv[i].r] = res[rcv[i].r]
  <2> DEFINE q == PgBeginTrans(res[Target[g]]).p
  <2>1. /\ res[Target[g]].fate = "none" /\ \A i \in 1..Len(rcv) : rcv[i].r # Target[g]
    BY <1>2, <1>a DEF BeginTrans, ListSound, Asked
  <2>2. Sound(q) /\ q.status = res[Target[g]].status
    BY <1>a, <2>1, SoundBegin DEF SoundResources
  <2>3. res' \in {res, [res EXCEPT ![Target[g]] = q]}
    BY <1>2 DEF BeginTrans
  <2> HIDE DEF q
  <2> QED
    BY <1>a, <2>1, <2>2, <2>3 DEF SoundResources
<1>3. ASSUME NEW r \in Resources, StatementFailsAt(r) \/ Disconnect(r)
      PROVE  /\ SoundResources'
             /\ \A s \in Resources : res'[s].status = res[s].status
             /\ \A s \in Resources : Promised(res[s]) => Promised(res'[s])
             /\ \A s \in Resources : res'[s].fate # res[s].fate =>
                   res[s].fate = "open" /\ res'[s].fate = "aborted"
  <2>1. PICK q : /\ res' = [res EXCEPT ![r] = q]
                 /\ Sound(q) /\ q.status = res[r].status
                 /\ Promised(res[r]) => Promised(q)
                 /\ q.fate # res[r].fate => res[r].fate = "open" /\ q.fate = "aborted"
    BY <1>3, <1>a, SoundFaults DEF StatementFailsAt, Disconnect, SoundResources
  <2> QED
    BY <1>a, <2>1 DEF SoundResources
<1> QED
  BY <1>a, <1>1, <1>2, <1>3, WorldSteps DEF Enlist

LEMMA WorldList ==
  ASSUME NEW d, Alone(d), World
  PROVE  ListSound'
<1>a. /\ res \in [Resources -> ResourceState] /\ \A i \in 1..Len(rcv) : rcv[i].r \in Resources
      /\ SoundResources /\ ListSound /\ \A g \in Registrars : Target[g] \in Resources
      /\ pc \in [Calls -> Label] /\ Registrars \subseteq Calls /\ Markers \subseteq Calls
      /\ Registrars \cap Markers = {}
      /\ \A g, h \in Registrars : Target[g] = Target[h] => g = h
  BY AloneFacts, TargetAssumption, CallsAssumption DEF Alone, Calls, Solo
<1>b. ASSUME UNCHANGED <<rcv, res>>,
             \A g \in Registrars : Asked(g)' => Asked(g) /\ (pc'[g] = "enlist" <=> pc[g] = "enlist")
      PROVE  ListSound'
  <2>1. /\ \A i, j \in 1..Len(rcv') : rcv'[i].r = rcv'[j].r => i = j
        /\ \A i \in 1..Len(rcv') : res'[rcv'[i].r].fate # "none"
    BY <1>a, <1>b DEF ListSound
  <2>2. ASSUME NEW g \in Registrars, Asked(g)'
        PROVE  /\ \A i \in 1..Len(rcv') : rcv'[i].r # Target[g]
               /\ res'[Target[g]].status = "Active"
               /\ res'[Target[g]].fate = "none" <=> pc'[g] # "enlist"
    BY <1>a, <1>b, <2>2 DEF ListSound
  <2> QED
    BY <2>1, <2>2 DEF ListSound
<1>1. ASSUME NEW g \in Registrars, Register(g), UNCHANGED <<rcv, res>> PROVE ListSound'
  BY <1>a, <1>b, <1>1 DEF Register, Goto, Return, Asked
<1>2. ASSUME NEW m \in Markers, RollbackOnly(m), UNCHANGED <<rcv, res>> PROVE ListSound'
  BY <1>a, <1>b, <1>2 DEF RollbackOnly, Return, Asked
<1>3. CASE UNCHANGED <<rcv, res, pc>>
  BY <1>b, <1>3 DEF Asked
<1>4. ASSUME NEW r \in Resources, StatementFailsAt(r) \/ Disconnect(r) PROVE ListSound'
  <2>1. /\ UNCHANGED <<rcv, pc>>
        /\ \E q : /\ res' = [res EXCEPT ![r] = q] /\ q.status = res[r].status
                  /\ q.fate = "none" <=> res[r].fate = "none"
    BY <1>a, <1>4, SoundFaults DEF StatementFailsAt, Disconnect, coordVars, SoundResources
  <2>2. /\ UNCHANGED <<rcv, pc>>
        /\ \A s \in Resources : /\ res'[s].status = res[s].status
                                /\ res'[s].fate = "none" <=> res[s].fate = "none"
    BY <1>a, <2>1
  <2> QED
    BY <1>a, <2>2 DEF ListSound, Asked
<1>5. ASSUME NEW g \in Registrars, BeginTrans(g) PROVE ListSound'
  <2> DEFINE o == PgBeginTrans(res[Target[g]])
  <2>1. /\ res[Target[g]].fate = "none" /\ res[Target[g]].status = "Active"
        /\ \A i \in 1..Len(rcv) : rcv[i].r # Target[g]
    BY <1>5, <1>a DEF BeginTrans, ListSound, Asked
  <2>2. o.p.status = "Active" /\ (o.answer = "ok" => o.p.fate = "open")
    BY <1>a, <2>1, SoundBegin DEF SoundResources
  <2>3. /\ UNCHANGED rcv /\ \A h \in Registrars : h # g => pc'[h] = pc[h]
        /\ \A r \in Resources : r # Target[g] => res'[r] = res[r]
        /\ \/ pc'[g] = "enlist" /\ o.answer = "ok" /\ res'[Target[g]] = o.p
           \/ pc'[g] = "done"
    BY <1>a, <1>5 DEF BeginTrans, Goto, Return, coordVars
  <2> HIDE DEF o
  <2>4. ASSUME NEW h \in Registrars, Asked(h)'
        PROVE  /\ \A i \in 1..Len(rcv') : rcv'[i].r # Target[h]
               /\ res'[Target[h]].status = "Active"
               /\ res'[Target[h]].fate = "none" <=> pc'[h] # "enlist"
    <3>1. CASE h = g
      BY <2>1, <2>2, <2>3, <2>4, <3>1 DEF Asked
    <3>2. CASE h # g
      <4>1. pc'[h] = pc[h] /\ res'[Target[h]] = res[Target[h]] /\ Asked(h)
        BY <1>a, <2>3, <2>4, <3>2 DEF Asked
      <4> QED
        BY <1>a, <2>3, <4>1 DEF ListSound
    <3> QED
      BY <3>1, <3>2
  <2>5. \A i \in 1..Len(rcv') : rcv'[i] = rcv[i] /\ res'[rcv[i].r] = res[rcv[i].r]
    BY <1>a, <2>1, <2>3
  <2>6. Len(rcv') = Len(rcv)
    BY <2>3
  <2> QED
    BY <1>a, <2>4, <2>5, <2>6 DEF ListSound
<1>6. ASSUME NEW g \in Registrars, Enlist(g) PROVE ListSound'
  <2>1. /\ UNCHANGED res /\ pc'[g] = "done" /\ pc[g] = "enlist"
        /\ \A h \in Registrars : h # g => pc'[h] = pc[h]
    BY <1>a, <1>6 DEF Enlist, Return
  <2>2. /\ \A i \in 1..Len(rcv) : rcv[i].r # Target[g]
        /\ res[Target[g]].fate # "none"
    BY <1>a, <2>1 DEF ListSound, Asked
  <2>3. /\ Len(rcv) \in Nat /\ Len(rcv') = Len(rcv) + 1
        /\ \A i \in 1..Len(rcv) : rcv'[i] = rcv[i]
        /\ rcv'[Len(rcv) + 1].r = Target[g]
    BY <1>6, AloneFacts, ListTypes, AppendProperties DEF Enlist, Alone, TypeInv, TypeOK, CoordTypes
  <2>4. \A i \in 1..Len(rcv') : \/ i \in 1..Len(rcv) /\ rcv'[i] = rcv[i]
                                \/ i = Len(rcv) + 1 /\ rcv'[i].r = Target[g]
    BY <2>3
  <2>5. \A i, j \in 1..Len(rcv') : rcv'[i].r = rcv'[j].r => i = j
    BY <1>a, <2>2, <2>4 DEF ListSound
  <2>6. \A i \in 1..Len(rcv') : res'[rcv'[i].r].fate # "none"
    BY <1>a, <2>1, <2>2, <2>4 DEF ListSound
  <2>7. ASSUME NEW h \in Registrars, Asked(h)'
        PROVE  /\ \A i \in 1..Len(rcv') : rcv'[i].r # Target[h]
               /\ res'[Target[h]].status = "Active"
               /\ res'[Target[h]].fate = "none" <=> pc'[h] # "enlist"
    <3>1. h # g /\ Asked(h) /\ pc'[h] = pc[h] /\ Target[h] # Target[g]
      BY <1>a, <2>1, <2>7 DEF Asked
    <3> QED
      BY <1>a, <2>1, <2>4, <3>1 DEF ListSound
  <2> QED
    BY <2>5, <2>6, <2>7 DEF ListSound
<1> QED
  BY <1>1, <1>2, <1>3, <1>4, <1>5, <1>6, WorldSteps

(* What a step of the world leaves to the call.                            *)
LEMMA WorldUndisturbs ==
  ASSUME NEW d, Alone(d), World
  PROVE  /\ ix'[d] = ix[d] /\ len'[d] = len[d] /\ heur'[d] = heur[d] /\ ans'[d] = ans[d]
         /\ pc'[d] = pc[d] /\ reply'[d] = reply[d] /\ (up' => up)
         /\ status' = status \/ (status \in {"Active", "MarkedRollback"}
                                 /\ status' = "MarkedRollback")
         /\ UNCHANGED <<before, after>>
<1>1. CASE Around
  <2>1. Undisturbed(d) /\ pc'[d] = pc[d] /\ reply'[d] = reply[d]
    BY <1>1, AroundUndisturbs DEF Alone
  <2> QED
    BY <1>1, <2>1 DEF Undisturbed, Around, RegisterStep, Register, BeginTrans, Enlist, RollbackOnly,
         RegisterSynchronization, StatementFailsAt, vars, coordVars
<1>2. ASSUME NEW r \in Resources, Disconnect(r)
      PROVE  UNCHANGED <<ix, len, heur, ans, pc, reply, up, status, before, after>>
  BY <1>2 DEF Disconnect, coordVars, callVars
<1> QED
  BY <1>1, <1>2 DEF World

(* A resource is put in the list before it is asked for anything.          *)
LEMMA WorldEntries ==
  ASSUME NEW d, Alone(d), World
  PROVE  \A i \in 1..Len(rcv') :
            \/ i \in 1..Len(rcv) /\ rcv'[i] = rcv[i]
            \/ i \notin 1..Len(rcv) /\ rcv'[i].rv = "NotPrepared"
               /\ res'[rcv'[i].r].status = "Active"
<1>1. CASE UNCHANGED rcv
  BY <1>1
<1>2. ASSUME NEW g \in Registrars, Enlist(g)
      PROVE  \A i \in 1..Len(rcv') :
                \/ i \in 1..Len(rcv) /\ rcv'[i] = rcv[i]
                \/ i \notin 1..Len(rcv) /\ rcv'[i].rv = "NotPrepared"
                   /\ res'[rcv'[i].r].status = "Active"
  <2>1. /\ Len(rcv) \in Nat /\ Len(rcv') = Len(rcv) + 1
        /\ \A i \in 1..Len(rcv) : rcv'[i] = rcv[i]
        /\ rcv'[Len(rcv) + 1] = [r |-> Target[g], rv |-> "NotPrepared"]
    BY <1>2, AloneFacts, ListTypes, AppendProperties DEF Enlist, Alone, TypeInv, TypeOK, CoordTypes
  <2>2. res' = res /\ res[Target[g]].status = "Active"
    BY <1>2 DEF Enlist, Alone, ListSound, Asked
  <2>3. \A i \in 1..Len(rcv') : i \in 1..Len(rcv) \/ i = Len(rcv) + 1
    BY <2>1
  <2> QED
    BY <2>1, <2>2, <2>3
<1>3. UNCHANGED rcv \/ \E g \in Registrars : Enlist(g)
  BY WorldSteps DEF BeginTrans, StatementFailsAt, Disconnect, coordVars
<1> QED
  BY <1>1, <1>2, <1>3

LEMMA WorldCall ==
  ASSUME NEW d, Alone(d), World
  PROVE  SoloCall(d)'
<1>a. /\ SoloPlace(d) /\ SoloOrder(d) /\ Promises(d) /\ Withheld(d) /\ Heard(d)
      /\ LoopTrue(d, d) /\ SoloReply(d)
      /\ pc[d] \in Answered => ix[d] \in 1..Len(rcv)
      /\ ix[d] \in Nat \ {0} /\ len[d] \in Nat /\ Len(rcv) \in Nat /\ len[d] <= Len(rcv)
  BY AloneFacts DEF Alone, SoloCall
<1>b. \A i \in 1..Len(rcv) :
        /\ rcv'[i] = rcv[i] /\ rcv[i].r \in Resources
        /\ res'[rcv'[i].r].status = res[rcv[i].r].status
        /\ Promised(res[rcv[i].r]) => Promised(res'[rcv'[i].r])
        /\ res[rcv[i].r].fate = "committed" => res'[rcv'[i].r].fate = "committed"
        /\ res[rcv[i].r].fate = "aborted" => res'[rcv'[i].r].fate = "aborted"
  BY AloneFacts, WorldEntries, WorldSound, AloneStays
<1>c. \A n : Unasked(n) => Unasked(n)'
  BY <1>b, WorldEntries DEF Unasked
<1>d. Passed(d)' = Passed(d) /\ Passed(d) \subseteq 1..Len(rcv) /\ 1..len[d] \subseteq 1..Len(rcv)
  BY <1>a, WorldUndisturbs DEF Passed
<1>e. /\ faults' = 0 => faults = 0
      /\ faults > 0 => faults' > 0
      /\ NoneTold => NoneTold'
  BY AloneFacts, AloneStays, WorldSound DEF NoneTold
<1>f. \A J : J \subseteq 1..Len(rcv) =>
        /\ AllCommitted(J) => AllCommitted(J)'
        /\ AllAborted(J) => AllAborted(J)'
        /\ AllSettled(J) => AllSettled(J)'
        /\ PromisedIn(J) => PromisedIn(J)'
  BY <1>b DEF AllCommitted, AllAborted, AllSettled, PromisedIn
<1>1. SoloPlace(d)'
  BY <1>a, WorldUndisturbs, AloneFacts DEF SoloPlace, StatusAt
<1>2. SoloOrder(d)'
  BY <1>a, <1>c, WorldUndisturbs DEF SoloOrder
<1>3. Promises(d)'
  BY <1>a, <1>b, <1>d, <1>f, WorldUndisturbs DEF Promises, Answered
<1>4. Withheld(d)'
  BY <1>a, <1>e, WorldUndisturbs DEF Withheld
<1>5. Heard(d)'
  <2>1. pc[d] \in Answered /\ AllSettled({ix[d]}) => AllSettled({ix[d]})'
    BY <1>a, <1>b, WorldUndisturbs DEF AllSettled
  <2> QED
    BY <1>a, <1>b, <1>e, <2>1, WorldUndisturbs DEF Heard, Answered
<1>6. VotesTrue(d)'
  BY WorldEntries, AloneVotes
<1>7. LoopTrue(d, d)'
  <2>1. Sure(d)' => Sure(d)
    BY <1>e, WorldUndisturbs DEF Sure
  <2>2. pc[d] \notin {"recommit", "recommitted"}
    BY <1>a DEF SoloPlace, StatusAt
  <2> QED
    BY <1>a, <1>d, <1>e, <1>f, <2>1, <2>2, WorldUndisturbs DEF LoopTrue
<1>8. SoloReply(d)'
  BY <1>a, <1>d, <1>e, <1>f, WorldUndisturbs DEF SoloReply, Orderly
<1> QED
  BY <1>1, <1>2, <1>3, <1>4, <1>5, <1>6, <1>7, <1>8 DEF SoloCall
-----------------------------------------------------------------------------
(***************************************************************************)
(* The steps of the call that call a resource.                             *)
(***************************************************************************)
(* Only the resource of the entry at hand may have changed.                *)
CalledOne(d) ==
    /\ SoundResources'
    /\ UNCHANGED <<rcv, status, len, heur, reply>> /\ ix'[d] = ix[d] /\ ix[d] \in 1..len[d]
    /\ \A r \in Resources : r # rcv[ix[d]].r => res'[r] = res[r]

LEMMA AloneInvokes ==
  ASSUME NEW d, Alone(d), NEW outcome, Invoke(d, outcome), ix[d] <= len[d], Sound(outcome.p),
         UNCHANGED <<coordVars, callVars, reply>>
  PROVE  /\ CalledOne(d)
         /\ NoneTold /\ outcome.p.status # "Committing" => NoneTold'
         /\ \/ ans'[d] = outcome.answer /\ res'[rcv[ix[d]].r] = outcome.p
            \/ ans'[d] \in NetworkFailure /\ faults' > 0
<1>a. /\ d \in Terminators /\ TypeInv /\ SoundResources /\ ix[d] \in 1..len[d]
      /\ ans \in [Terminators -> Answer] /\ faults \in Nat /\ res \in [Resources -> ResourceState]
      /\ rcv[ix[d]].r \in Resources
  BY AloneFacts DEF Alone
<1>1. /\ \A r \in Resources : r # rcv[ix[d]].r => res'[r] = res[r]
      /\ res'[rcv[ix[d]].r] \in {res[rcv[ix[d]].r], outcome.p}
  BY <1>a, InvokeEffect
<1>2. \/ ans'[d] = outcome.answer /\ res'[rcv[ix[d]].r] = outcome.p
      \/ ans'[d] \in NetworkFailure /\ faults' > 0
  BY <1>a DEF Invoke, Entry, NetworkFailure
<1>3. SoundResources' /\ (NoneTold /\ outcome.p.status # "Committing" => NoneTold')
  BY <1>a, <1>1 DEF SoundResources, NoneTold
<1> QED
  BY <1>a, <1>1, <1>2, <1>3 DEF CalledOne, coordVars, callVars

(* The others in the list keep what they have.                             *)
LEMMA OthersInList ==
  ASSUME NEW d, Alone(d), CalledOne(d)
  PROVE  \A i \in 1..Len(rcv) : i # ix[d] => res'[rcv[i].r] = res[rcv[i].r]
<1>1. ix[d] \in 1..Len(rcv) /\ \A i \in 1..Len(rcv) : rcv[i].r \in Resources
  BY AloneFacts DEF CalledOne
<1>2. \A i \in 1..Len(rcv) : i # ix[d] => rcv[i].r # rcv[ix[d]].r
  BY <1>1 DEF Alone, ListSound
<1> QED
  BY <1>1, <1>2 DEF CalledOne

(* What is true of the call whatever the resource answers.                 *)
LEMMA CalledKeeps ==
  ASSUME NEW d, Alone(d), CalledOne(d)
  PROVE  /\ VotesTrue(d)'
         /\ Passed(d)' = Passed(d) /\ Passed(d) \subseteq (1..len[d]) \ {ix[d]}
         /\ PromisedIn(Passed(d)) => PromisedIn(Passed(d))'
         /\ PromisedIn((1..len[d]) \ Passed(d)) =>
               PromisedIn((1..len[d]) \ (Passed(d) \cup {ix[d]}))'
         /\ AllCommitted(Passed(d)) => AllCommitted(Passed(d))'
         /\ AllAborted(Passed(d)) => AllAborted(Passed(d))'
         /\ heur'[d] = heur[d] /\ (heur[d] => faults > 0) /\ (faults > 0 => faults' > 0)
         /\ faults' = 0 => faults = 0
<1>a. /\ len[d] \in Nat /\ Len(rcv) \in Nat /\ len[d] <= Len(rcv) /\ ix[d] \in 1..len[d]
      /\ rcv' = rcv /\ ix'[d] = ix[d] /\ len' = len /\ heur' = heur
      /\ faults \in Nat /\ faults' \in Nat /\ faults <= faults'
  BY AloneFacts DEF CalledOne
<1>1. VotesTrue(d)'
  BY <1>a, AloneVotes
<1>2. Passed(d)' = Passed(d) /\ Passed(d) \subseteq (1..len[d]) \ {ix[d]}
  BY <1>a DEF Passed
<1>3. \A i \in 1..len[d] : i # ix[d] => res'[rcv'[i].r] = res[rcv[i].r]
  BY <1>a, OthersInList
<1>4. /\ PromisedIn(Passed(d)) => PromisedIn(Passed(d))'
      /\ AllCommitted(Passed(d)) => AllCommitted(Passed(d))'
      /\ AllAborted(Passed(d)) => AllAborted(Passed(d))'
  BY <1>2, <1>3 DEF PromisedIn, AllCommitted, AllAborted
<1>5. PromisedIn((1..len[d]) \ Passed(d)) =>
         PromisedIn((1..len[d]) \ (Passed(d) \cup {ix[d]}))'
  BY <1>a, <1>2, <1>3 DEF PromisedIn
<1>6. heur[d] => faults > 0
  BY DEF Alone, SoloCall, Heard
<1> QED
  BY <1>a, <1>1, <1>2, <1>4, <1>5, <1>6

(* A call that goes on has said nothing yet.                               *)
LEMMA SaysNothing ==
  ASSUME NEW d, Alone(d), pc[d] # "done", pc'[d] \notin {"idle", "done"}, reply'[d] = reply[d]
  PROVE  reply'[d] = "none" /\ SoloReply(d)'
<1>1. reply'[d] = "none"
  BY DEF Alone, SoloCall, SoloPlace
<1> QED
  BY <1>1 DEF SoloReply

LEMMA AloneOnePhase ==
  ASSUME NEW d, Alone(d), d \in Committers, CommitOnePhase(d)
  PROVE  CalledOne(d) /\ SoloCall(d)'
<1>a. /\ pc[d] = "onephase" /\ pc'[d] = "onephased" /\ ix[d] = 1 /\ len[d] = 1
      /\ UNCHANGED <<coordVars, callVars, reply>> /\ d \notin Rollbackers
  BY AloneFacts DEF CommitOnePhase, Goto, Alone, TypeInv, LoopsInside, LoopInside
<1>b. /\ rcv[ix[d]].r \in Resources /\ res[rcv[ix[d]].r] \in ResourceState
      /\ Sound(res[rcv[ix[d]].r])
  BY <1>a, AloneFacts
<1>c. NoneTold /\ res[rcv[ix[d]].r].status = "Active" /\ res[rcv[ix[d]].r].fate # "none"
  <2>1. NoneTold /\ Unasked(0)
    BY <1>a DEF Alone, SoloCall, Withheld, SoloOrder
  <2> QED
    BY <1>a, <2>1, AloneFacts DEF Unasked
<1>1. PICK t \in BOOLEAN :
        LET o == PgCommitOnePhase(res[rcv[ix[d]].r], t)
        IN  Invoke(d, IF o.answer # "HeuristicRollback" THEN o
                      ELSE IF ThrowSpecsEnforced
                      THEN Outcome(ConnectionLost(o.p), "COMM_FAILURE")
                      ELSE Outcome(o.p, "UNKNOWN"))
  BY DEF CommitOnePhase, Entry, TriggerFails
<1> DEFINE o == PgCommitOnePhase(res[rcv[ix[d]].r], t)
<1>2. /\ o.p \in ResourceState /\ Sound(o.p)
      /\ o.answer = "ok" => o.p.fate = "committed"
      /\ o.answer = "TRANSACTION_ROLLEDBACK" => o.p.status # "Committing"
      /\ o.answer # "spins" => o.p.fate \in {"committed", "aborted"}
  BY <1>b, <1>c, OnePhaseTypes, SoundOnePhase DEF NoneTold
<1>3. /\ Sound(ConnectionLost(o.p))
      /\ o.p.fate \in {"committed", "aborted"} =>
            ConnectionLost(o.p).fate \in {"committed", "aborted"}
  BY <1>2, SoundFaults
<1>4. PICK outcome :
        /\ Invoke(d, outcome) /\ Sound(outcome.p)
        /\ outcome.answer = "ok" => outcome.p.fate = "committed"
        /\ outcome.answer = "TRANSACTION_ROLLEDBACK" => outcome.p.status # "Committing"
        /\ outcome.answer # "spins" => outcome.p.fate \in {"committed", "aborted"}
  <2> HIDE DEF o
  <2>1. CASE o.answer # "HeuristicRollback"
    BY <1>1, <1>2, <2>1 DEF o
  <2>2. CASE o.answer = "HeuristicRollback" /\ ThrowSpecsEnforced
    <3>1. Invoke(d, Outcome(ConnectionLost(o.p), "COMM_FAILURE"))
      BY <1>1, <2>2 DEF o
    <3> QED
      BY <1>2, <1>3, <2>2, <3>1 DEF Outcome
  <2>3. CASE o.answer = "HeuristicRollback" /\ ~ThrowSpecsEnforced
    <3>1. Invoke(d, Outcome(o.p, "UNKNOWN"))
      BY <1>1, <2>3 DEF o
    <3> QED
      BY <1>2, <2>3, <3>1 DEF Outcome
  <2> QED
    BY <2>1, <2>2, <2>3
<1> HIDE DEF o
<1>5. /\ CalledOne(d)
      /\ outcome.p.status # "Committing" => NoneTold'
      /\ \/ ans'[d] = outcome.answer /\ res'[rcv[ix[d]].r] = outcome.p
         \/ ans'[d] \in NetworkFailure /\ faults' > 0
  BY <1>4, <1>a, <1>c, AloneInvokes
<1>6. /\ ans'[d] = "ok" => res'[rcv'[ix'[d]].r].fate = "committed"
      /\ ans'[d] # "spins" /\ faults' = 0 => AllSettled({ix[d]})'
      /\ ans'[d] = "TRANSACTION_ROLLEDBACK" => NoneTold'
  BY <1>4, <1>5 DEF NetworkFailure, CalledOne, AllSettled
<1>7. SoloPlace(d)' /\ SoloOrder(d)' /\ Promises(d)' /\ LoopTrue(d, d)' /\ SoloReply(d)'
  <2>1. reply'[d] = "none" /\ SoloReply(d)'
    BY <1>a, SaysNothing
  <2>2. status' \in {"Active", "MarkedRollback"}
    BY <1>a DEF Alone, SoloCall, SoloPlace, StatusAt, coordVars
  <2> QED
    BY <1>a, <2>1, <2>2 DEF SoloPlace, StatusAt, SoloOrder, Promises, LoopTrue
<1>8. Withheld(d)' /\ Heard(d)'
  BY <1>a, <1>5, <1>6, CalledKeeps DEF Withheld, Heard
<1> QED
  BY <1>5, <1>7, <1>8, CalledKeeps DEF SoloCall

LEMMA AlonePrepares ==
  ASSUME NEW d, Alone(d), d \in Committers, PrepareNext(d)
  PROVE  CalledOne(d) /\ SoloCall(d)'
<1>a. /\ pc[d] = "prepare" /\ pc'[d] = "voted" /\ ix[d] \in 1..len[d] /\ ix[d] <= len[d]
      /\ UNCHANGED <<coordVars, callVars, reply>> /\ d \notin Rollbackers
      /\ Invoke(d, PgPrepare(res[rcv[ix[d]].r])) /\ status = "Preparing"
  BY AloneFacts DEF PrepareNext, Goto, More, Entry, Alone, SoloCall, SoloPlace, StatusAt
<1> DEFINE p == res[rcv[ix[d]].r]
           q == PgPrepare(p)
<1>b. /\ rcv[ix[d]].r \in Resources /\ p \in ResourceState /\ Sound(p) /\ p.fate # "none"
      /\ ix[d] \in 1..Len(rcv)
  BY <1>a, AloneFacts
<1>c. NoneTold /\ Unasked(ix[d] - 1) /\ PromisedIn(Passed(d))
  BY <1>a DEF Alone, SoloCall, Withheld, SoloOrder, Promises
<1>d. p.status = "Active" /\ p.fate # "committed"
  BY <1>b, <1>c, NobodyCommitted DEF Unasked
<1>1. /\ Sound(q.p) /\ q.p.status # "Committing"
      /\ q.answer = "VoteCommit" => Promised(q.p)
      /\ q.answer = "VoteRollback" => q.p.fate = "aborted"
  BY <1>b, <1>d, SoundPrepare
<1>2. Invoke(d, q)
  BY <1>a
<1> HIDE DEF p, q
<1>3. /\ CalledOne(d) /\ NoneTold'
      /\ \/ ans'[d] = q.answer /\ res'[rcv[ix[d]].r] = q.p
         \/ ans'[d] \in NetworkFailure /\ faults' > 0
  BY <1>1, <1>2, <1>a, <1>c, AloneInvokes
<1>4. Unasked(ix[d])'
  <2>1. \A i \in 1..Len(rcv) : i > ix[d] =>
           /\ rcv[i].rv = "NotPrepared" /\ res[rcv[i].r].status = "Active"
           /\ res'[rcv[i].r] = res[rcv[i].r]
    BY <1>c, <1>3, AloneFacts, OthersInList DEF Unasked
  <2> QED
    BY <1>3, <2>1 DEF Unasked, CalledOne
<1>5. SoloPlace(d)' /\ SoloOrder(d)' /\ LoopTrue(d, d)' /\ SoloReply(d)'
  <2>1. reply'[d] = "none" /\ SoloReply(d)'
    BY <1>a, SaysNothing
  <2>2. status' = "Preparing" /\ ix'[d] = ix[d]
    BY <1>a, <1>3 DEF CalledOne, coordVars
  <2> QED
    BY <1>a, <1>4, <2>1, <2>2 DEF SoloPlace, StatusAt, SoloOrder, LoopTrue
<1>6. Promises(d)'
  <2>1. PromisedIn(Passed(d))'
    BY <1>c, <1>3, CalledKeeps
  <2>2. ans'[d] = "VoteCommit" => Promised(res'[rcv'[ix'[d]].r])
    BY <1>1, <1>3 DEF CalledOne, NetworkFailure
  <2> QED
    BY <1>a, <2>1, <2>2 DEF Promises
<1>7. Heard(d)'
  <2>1. ans'[d] = "VoteRollback" => res'[rcv'[ix'[d]].r].fate = "aborted"
    BY <1>1, <1>3 DEF CalledOne, NetworkFailure
  <2>2. ans'[d] \in NetworkFailure => faults' > 0
    <3>1. q.answer \notin NetworkFailure
      BY <1>b, PgTypes DEF q, NetworkFailure
    <3> QED
      BY <1>3, <3>1
  <2> QED
    BY <1>a, <1>3, <2>1, <2>2, CalledKeeps DEF Heard
<1> QED
  BY <1>3, <1>5, <1>6, <1>7, CalledKeeps DEF SoloCall, Withheld

LEMMA AloneCommits ==
  ASSUME NEW d, Alone(d), d \in Committers, CommitNext(d)
  PROVE  CalledOne(d) /\ SoloCall(d)'
<1>a. /\ pc[d] = "commit" /\ ix[d] \in 1..len[d] /\ ix[d] \in 1..Len(rcv) /\ d \notin Rollbackers
      /\ VotesTrue(d) /\ PromisedIn((1..len[d]) \ Passed(d)) /\ status = "Committing"
      /\ ~heur[d] => AllCommitted(Passed(d))
  <2>1. pc[d] = "commit" /\ ix[d] <= len[d] /\ status = "Committing"
    BY DEF CommitNext, More, Alone, SoloCall, SoloPlace, StatusAt
  <2>2. VotesTrue(d) /\ Promises(d) /\ LoopTrue(d, d)
    BY DEF Alone, SoloCall
  <2> QED
    BY <2>1, <2>2, AloneFacts DEF Promises, LoopTrue
<1>b. rcv[ix[d]].rv # "VoteRollback" /\ UNCHANGED <<coordVars, len, heur>>
  BY <1>a DEF VotesTrue, CommitNext
<1>1. PICK t \in BOOLEAN :
        /\ Invoke(d, PgCommit(res[rcv[ix[d]].r], t))
        /\ pc'[d] = "committed" /\ UNCHANGED <<callVars, reply>>
  BY <1>a, <1>b, AloneFacts DEF CommitNext, Entry, TriggerFails, Goto, callVars
<1> DEFINE p == res[rcv[ix[d]].r]
           q == PgCommit(p, t)
<1>2. /\ p \in ResourceState /\ Sound(p) /\ Promised(p)
  <2>1. ix[d] \in (1..len[d]) \ Passed(d)
    BY <1>a DEF Passed
  <2> QED
    BY <1>a, <2>1, AloneFacts DEF PromisedIn
<1>3. /\ Sound(q.p) /\ (q.answer = "ok" => q.p.fate = "committed")
      /\ q.answer \notin NetworkFailure
  BY <1>2, SoundCommit, PgTypes DEF NetworkFailure
<1>4. Invoke(d, q) /\ ix[d] <= len[d]
  BY <1>1, <1>a
<1> HIDE DEF p, q
<1>5. /\ CalledOne(d)
      /\ \/ ans'[d] = q.answer /\ res'[rcv[ix[d]].r] = q.p
         \/ ans'[d] \in NetworkFailure /\ faults' > 0
  BY <1>1, <1>3, <1>4, <1>b, AloneInvokes
<1>6. SoloPlace(d)' /\ SoloOrder(d)' /\ Withheld(d)' /\ SoloReply(d)'
  <2>1. reply'[d] = "none" /\ SoloReply(d)'
    BY <1>a, <1>1, SaysNothing
  <2> QED
    BY <1>a, <1>1, <1>b, <2>1 DEF SoloPlace, StatusAt, SoloOrder, Withheld, coordVars
<1>7. Promises(d)' /\ LoopTrue(d, d)'
  BY <1>a, <1>1, <1>5, CalledKeeps DEF Promises, LoopTrue
<1>8. Heard(d)'
  <2>1. ans'[d] = "ok" => res'[rcv'[ix'[d]].r].fate = "committed"
    BY <1>3, <1>5 DEF CalledOne, NetworkFailure
  <2>2. ans'[d] \in NetworkFailure => faults' > 0
    BY <1>3, <1>5
  <2> QED
    BY <1>1, <1>5, <2>1, <2>2, CalledKeeps DEF Heard
<1> QED
  BY <1>5, <1>6, <1>7, <1>8, CalledKeeps DEF SoloCall

(* A loop that has passed one more entry.                                  *)
LEMMA PassesOne ==
  ASSUME NEW d, Alone(d), Advance(d), len'[d] = len[d], ix[d] \in 1..len[d]
  PROVE  /\ ix'[d] = ix[d] + 1 /\ ix'[d] <= len[d] + 1
         /\ Passed(d)' = Passed(d) \cup {ix[d]}
<1>1. ix'[d] = ix[d] + 1
  BY AloneFacts DEF Advance
<1> QED
  BY <1>1, AloneFacts DEF Passed

LEMMA AloneUndoes ==
  ASSUME NEW d, Alone(d), RollbackNext(d)
  PROVE  (CalledOne(d) \/ UNCHANGED <<rcv, res>>) /\ SoloCall(d)'
<1>a. /\ pc[d] = "undo" /\ ix[d] \in 1..len[d] /\ ix[d] \in 1..Len(rcv) /\ ix[d] <= len[d]
      /\ VotesTrue(d) /\ status = "RollingBack" /\ NoneTold
      /\ Sure(d) => AllAborted(Passed(d))
      /\ UNCHANGED <<coordVars, len, heur>>
  <2>1. /\ pc[d] = "undo" /\ ix[d] <= len[d] /\ status = "RollingBack"
        /\ UNCHANGED <<coordVars, len, heur>>
    BY DEF RollbackNext, More, Alone, SoloCall, SoloPlace, StatusAt
  <2>2. VotesTrue(d) /\ Withheld(d) /\ LoopTrue(d, d)
    BY DEF Alone, SoloCall
  <2> QED
    BY <2>1, <2>2, AloneFacts DEF Withheld, LoopTrue
<1> DEFINE p == res[rcv[ix[d]].r]
           q == PgRollback(p)
<1>b. /\ rcv[ix[d]].r \in Resources /\ p \in ResourceState /\ Sound(p) /\ p.fate # "none"
      /\ p.status # "Committing" /\ p.fate # "committed"
  BY <1>a, AloneFacts, NobodyCommitted DEF NoneTold
<1>1. CASE rcv[ix[d]].rv \in {"VoteCommit", "NotPrepared"}
  <2>1. /\ Sound(q.p) /\ q.p.status # "Committing" /\ q.answer \notin NetworkFailure
        /\ q.answer = "ok" => q.p.fate = "aborted"
    BY <1>b, SoundRollback, PgTypes DEF NetworkFailure
  <2>2. Invoke(d, q) /\ pc'[d] = "undone" /\ UNCHANGED <<callVars, reply>>
    BY <1>a, <1>1, AloneFacts DEF RollbackNext, Entry, Goto, callVars
  <2> HIDE DEF p, q
  <2>3. /\ CalledOne(d) /\ NoneTold'
        /\ \/ ans'[d] = q.answer /\ res'[rcv[ix[d]].r] = q.p
           \/ ans'[d] \in NetworkFailure /\ faults' > 0
    BY <1>a, <2>1, <2>2, AloneInvokes
  <2>4. SoloPlace(d)' /\ SoloOrder(d)' /\ Withheld(d)' /\ Promises(d)' /\ SoloReply(d)'
    <3>1. reply'[d] = "none" /\ SoloReply(d)'
      BY <1>a, <2>2, SaysNothing
    <3> QED
      BY <1>a, <2>2, <2>3, <3>1 DEF SoloPlace, StatusAt, SoloOrder, Withheld, Promises, coordVars
  <2>5. LoopTrue(d, d)'
    <3>1. Sure(d)' => Sure(d)
      BY <2>3, CalledKeeps DEF Sure
    <3> QED
      BY <1>a, <2>2, <2>3, <3>1, CalledKeeps DEF LoopTrue
  <2>6. Heard(d)'
    <3>1. ans'[d] = "ok" => res'[rcv'[ix'[d]].r].fate = "aborted"
      BY <2>1, <2>3 DEF CalledOne, NetworkFailure
    <3>2. ans'[d] \in NetworkFailure => faults' > 0
      BY <2>1, <2>3
    <3> QED
      BY <2>2, <2>3, <3>1, <3>2, CalledKeeps DEF Heard
  <2> QED
    BY <2>3, <2>4, <2>5, <2>6, CalledKeeps DEF SoloCall
<1>2. CASE rcv[ix[d]].rv \notin {"VoteCommit", "NotPrepared"}
  <2>1. Advance(d) /\ UNCHANGED <<res, pc, ans, reply, up, faults, rcv, status>>
    BY <1>a, <1>2 DEF RollbackNext, Entry, coordVars
  <2>2. rcv[ix[d]].rv = "RolledBack"
    BY <1>a, <1>b, <1>2 DEF VotesTrue
  <2>3. Sure(d) => p.fate = "aborted"
    BY <1>a, <2>2 DEF VotesTrue, Sure
  <2> HIDE DEF p
  <2>4. LoopTrue(d, d)'
    <3>1. Sure(d)' => Sure(d)
      BY <1>a, <2>1 DEF Sure
    <3>2. Sure(d) => AllAborted(Passed(d))'
      BY <1>a, <2>1, <2>3, PassesOne DEF AllAborted, p
    <3> QED
      BY <1>a, <2>1, <3>1, <3>2 DEF LoopTrue
  <2>5. VotesTrue(d)'
    BY <2>1, AloneVotes
  <2>6. SoloPlace(d)' /\ SoloOrder(d)' /\ Withheld(d)' /\ Promises(d)' /\ SoloReply(d)' /\ Heard(d)'
    <3>1. reply'[d] = "none" /\ SoloReply(d)'
      BY <1>a, <2>1, SaysNothing
    <3> QED
      BY <1>a, <2>1, <3>1 DEF SoloPlace, StatusAt, SoloOrder, Withheld, Promises, Heard, Answered,
         NoneTold, Alone, SoloCall
  <2> QED
    BY <2>1, <2>4, <2>5, <2>6 DEF SoloCall
<1> QED
  BY <1>1, <1>2
-----------------------------------------------------------------------------
(***************************************************************************)
(* The steps of the call that leave the resources alone.                   *)
(***************************************************************************)
(* A call that is over: all that is left of it is its reply.               *)
LEMMA CallOver ==
  ASSUME NEW d, Alone(d), UNCHANGED <<rcv, res, len, heur, faults>>, pc'[d] = "done",
         d \in Committers /\ reply'[d] = "ok" /\ ReportHeuristics => AllCommitted(1..len[d]),
         reply'[d] = "TRANSACTION_ROLLEDBACK" => NoneTold,
         d \in Rollbackers /\ reply'[d] = "ok" => AllAborted(1..len[d]),
         up' /\ faults = 0 /\ Orderly(d) => AllSettled(1..len[d])
  PROVE  SoloCall(d)'
<1>a. /\ heur[d] => faults > 0
      /\ NoneTold \/ d \in Committers
  BY DEF Alone, SoloCall, Heard, Withheld
<1>1. SoloPlace(d)' /\ SoloOrder(d)' /\ Promises(d)' /\ LoopTrue(d, d)'
  BY AloneFacts DEF SoloPlace, StatusAt, SoloOrder, Promises, LoopTrue
<1>2. Withheld(d)' /\ Heard(d)'
  BY <1>a DEF Withheld, NoneTold, Heard, Answered
<1>3. VotesTrue(d)'
  BY AloneVotes
<1>4. SoloReply(d)'
  BY DEF SoloReply, AllCommitted, AllAborted, AllSettled, Orderly
<1> QED
  BY <1>1, <1>2, <1>3, <1>4 DEF SoloCall

(* An exception ends the call, and with it perhaps the service.            *)
LEMMA CallThrows ==
  ASSUME NEW d, Alone(d), UNCHANGED <<rcv, res, len, heur, faults>>, pc[d] \notin {"idle", "done"},
         NEW e, Throw(d, e), e # "ok",
         e = "TRANSACTION_ROLLEDBACK" => NoneTold,
         e \in Escaping \/ faults > 0 \/ (Orderly(d) /\ faults = 0 => AllSettled(1..len[d])),
         d \in Rollbackers => faults > 0
  PROVE  SoloCall(d)'
<1>1. pc'[d] = "done" /\ reply'[d] \in {e, "COMM_FAILURE"}
  BY AloneFacts DEF Throw, Terminate, Return
<1>2. e \in Escaping /\ d \notin Rollbackers /\ Orderly(d) => ~up'
  BY DEF Throw, Terminate, Orderly
<1>3. up' /\ faults = 0 /\ Orderly(d) => AllSettled(1..len[d])
  BY <1>2, AloneFacts
<1> QED
  BY <1>1, <1>3, AloneFacts, CallOver

LEMMA AloneBegins ==
  ASSUME NEW d, Alone(d), d \in Committers, Commit(d) \/ BeforeCompletion(d) \/ Dispatch(d)
  PROVE  SoloCall(d)'
<1>a. /\ pc[d] \in {"idle", "before", "dispatch"} /\ status \in {"Active", "MarkedRollback"}
      /\ Unasked(0) /\ NoneTold /\ d \notin Rollbackers
      /\ UNCHANGED <<rcv, res, heur, faults, ans>>
  <2>1. pc[d] \in {"idle", "before", "dispatch"} /\ UNCHANGED <<rcv, res, heur, faults, ans>>
    BY DEF Commit, BeforeCompletion, Dispatch, coordVars
  <2>2. SoloPlace(d) /\ SoloOrder(d) /\ Withheld(d)
    BY DEF Alone, SoloCall
  <2> QED
    BY <2>1, <2>2, AloneFacts DEF SoloPlace, StatusAt, SoloOrder, Withheld
<1>b. ASSUME reply'[d] = reply[d],
             \/ /\ pc'[d] \in {"before", "dispatch", "onephase"}
                /\ status' \in {"Active", "MarkedRollback"}
             \/ pc'[d] = "rollback" /\ status' = "MarkedRollback"
             \/ pc'[d] = "prepare" /\ status' = "Preparing" /\ ix'[d] = 1
      PROVE  SoloCall(d)'
  <2>1. reply'[d] = "none" /\ SoloReply(d)'
    BY <1>a, <1>b, SaysNothing
  <2>2. VotesTrue(d)'
    BY <1>a, AloneVotes
  <2>3. ix'[d] = 1 => Passed(d)' = {} /\ ix'[d] - 1 = 0 /\ ix'[d] <= len'[d] + 1
    BY AloneFacts DEF Passed
  <2>4. Unasked(0)' /\ NoneTold'
    BY <1>a DEF Unasked, NoneTold
  <2>5. SoloPlace(d)' /\ SoloOrder(d)'
    BY <1>a, <1>b, <2>1, <2>3, <2>4 DEF SoloPlace, StatusAt, SoloOrder
  <2>6. Promises(d)' /\ LoopTrue(d, d)'
    BY <1>b, <2>3 DEF Promises, PromisedIn, LoopTrue
  <2>7. Withheld(d)' /\ Heard(d)'
    BY <1>a, <1>b, <2>4 DEF Withheld, Heard, Answered, Alone, SoloCall
  <2> QED
    BY <2>1, <2>2, <2>5, <2>6, <2>7 DEF SoloCall
<1>1. CASE Commit(d)
  <2>1. \/ pc'[d] = "before" /\ status' = "Active"
        \/ pc'[d] = "rollback" /\ status' = "MarkedRollback"
    BY <1>1, <1>a, AloneFacts DEF Commit, Loop, Goto, coordVars
  <2>2. reply' = reply
    BY <1>1, <1>a, AloneFacts DEF Commit, Loop, Goto
  <2> QED
    BY <1>b, <2>1, <2>2
<1>2. CASE BeforeCompletion(d)
  BY <1>2, <1>a, <1>b, AloneFacts DEF BeforeCompletion, Goto
<1>3. CASE Dispatch(d) /\ len[d] = 0
  <2>1. pc'[d] = "done" /\ reply'[d] = "ok" /\ UNCHANGED len
    BY <1>3, AloneFacts DEF Dispatch, Return
  <2>2. AllCommitted(1..len[d]) /\ AllSettled(1..len[d])
    BY <1>3 DEF AllCommitted, AllSettled
  <2> QED
    BY <1>a, <2>1, <2>2, CallOver
<1>4. CASE Dispatch(d) /\ len[d] # 0
  <2>1. ix'[d] = 1 /\ reply' = reply
    BY <1>4, AloneFacts DEF Dispatch, Goto
  <2>2. \/ pc'[d] = "onephase" /\ status' = status
        \/ pc'[d] = "prepare" /\ status' = "Preparing"
    BY <1>4, AloneFacts DEF Dispatch, Goto
  <2> QED
    BY <1>a, <1>b, <2>1, <2>2
<1> QED
  BY <1>1, <1>2, <1>3, <1>4

LEMMA AloneHearsOnePhase ==
  ASSUME NEW d, Alone(d), d \in Committers, OnePhaseAnswered(d)
  PROVE  SoloCall(d)'
<1>a. /\ pc[d] = "onephased" /\ ix[d] = 1 /\ len[d] = 1 /\ d \notin Rollbackers
      /\ UNCHANGED <<rcv, res, len, heur, faults>>
  BY AloneFacts DEF OnePhaseAnswered, coordVars, callVars, Alone, TypeInv, LoopsInside, LoopInside
<1>b. /\ ans[d] = "ok" => res[rcv[ix[d]].r].fate = "committed"
      /\ ans[d] = "TRANSACTION_ROLLEDBACK" => NoneTold
      /\ ThrowSpecsEnforced /\ faults = 0 => AllSettled({ix[d]})
  BY <1>a DEF Alone, SoloCall, Heard, Withheld, OnePhaseAnswered
<1>c. /\ ans[d] = "ok" => AllCommitted(1..len[d])
      /\ Orderly(d) /\ faults = 0 => AllSettled(1..len[d])
  BY <1>a, <1>b DEF AllCommitted, AllSettled, Orderly
<1>1. CASE ans[d] = "ok"
  BY <1>1, <1>a, <1>c, CallOver, AloneFacts DEF OnePhaseAnswered, Return
<1>2. CASE ans[d] = "COMM_FAILURE" /\ ~ReportHeuristics
  BY <1>2, <1>a, <1>c, CallOver, AloneFacts DEF OnePhaseAnswered, Return
<1>3. CASE ans[d] = "COMM_FAILURE" /\ ReportHeuristics
  <2>1. Throw(d, "HeuristicHazard")
    BY <1>3 DEF OnePhaseAnswered
  <2> QED
    BY <1>a, <1>c, <2>1, CallThrows
<1>4. CASE ans[d] \notin {"ok", "COMM_FAILURE"}
  <2>1. Throw(d, ans[d])
    BY <1>4 DEF OnePhaseAnswered
  <2> QED
    BY <1>a, <1>b, <1>c, <1>4, <2>1, CallThrows
<1> QED
  BY <1>1, <1>2, <1>3, <1>4

LEMMA AloneHearsVote ==
  ASSUME NEW d, Alone(d), d \in Committers, Voted(d)
  PROVE  SoloCall(d)'
<1>a. /\ pc[d] = "voted" /\ ix[d] \in 1..len[d] /\ ix[d] \in 1..Len(rcv) /\ d \notin Rollbackers
      /\ UNCHANGED <<res, len, heur, faults, ans>>
      /\ ans[d] \in {"VoteCommit", "VoteRollback"} \cup NetworkFailure
  BY AloneFacts DEF Voted, Answered, AnswerTo
<1>b. /\ NoneTold /\ Unasked(ix[d]) /\ PromisedIn(Passed(d)) /\ status = "Preparing"
      /\ ans[d] = "VoteCommit" => Promised(res[rcv[ix[d]].r])
      /\ ans[d] \in NetworkFailure => faults > 0
      /\ ans[d] = "VoteRollback" => res[rcv[ix[d]].r].fate = "aborted"
      /\ heur[d] => faults > 0 /\ VotesTrue(d)
  <2>1. SoloPlace(d) /\ SoloOrder(d) /\ Promises(d) /\ Withheld(d) /\ Heard(d) /\ VotesTrue(d)
    BY DEF Alone, SoloCall
  <2> QED
    BY <1>a, <2>1 DEF SoloPlace, StatusAt, SoloOrder, Promises, Withheld, Heard, Answered
<1>1. ASSUME NEW v \in {"VoteCommit", "RolledBack"}, SetVote(ix[d], v), Advance(d),
             Goto(d, "prepare"),
             \/ v = "VoteCommit" /\ status' = "Preparing" /\ ans[d] = "VoteCommit"
             \/ /\ v = "RolledBack" /\ status' = "MarkedRollback"
                /\ ans[d] \in {"VoteRollback", "COMM_FAILURE"}
      PROVE  SoloCall(d)'
  <2>1. /\ pc'[d] = "prepare" /\ reply' = reply
    BY <1>1, AloneFacts DEF Goto
  <2>2. reply'[d] = "none" /\ SoloReply(d)'
    BY <1>a, <2>1, SaysNothing
  <2>3. /\ ix'[d] = ix[d] + 1 /\ ix'[d] <= len[d] + 1 /\ Passed(d)' = Passed(d) \cup {ix[d]}
        /\ len'[d] = len[d] /\ ix'[d] - 1 = ix[d] /\ Passed(d) \subseteq 1..Len(rcv)
    BY <1>1, <1>a, PassesOne, AloneFacts DEF Passed
  <2>4. /\ Len(rcv') = Len(rcv)
        /\ \A j \in 1..Len(rcv) :
             rcv'[j].r = rcv[j].r /\ rcv'[j].rv = IF j = ix[d] THEN v ELSE rcv[j].rv
    <3>1. CoordTypes /\ v \in ResourceVote
      BY DEF Alone, TypeInv, TypeOK, ResourceVote
    <3>2. DOMAIN rcv = 1..Len(rcv) /\ rcv \in Seq([r : Resources, rv : ResourceVote])
      BY <3>1, ListTypes DEF CoordTypes
    <3>3. rcv' = [rcv EXCEPT ![ix[d]].rv = v]
      BY <1>1 DEF SetVote
    <3>4. Len(rcv') = Len(rcv) /\ \A j \in 1..Len(rcv) : rcv'[j].r = rcv[j].r
      BY <1>1, <1>a, <3>1, ListChanges
    <3>5. \A j \in 1..Len(rcv) : rcv[j] \in [r : Resources, rv : ResourceVote]
      BY <3>1, ListTypes
    <3>6. \A j \in 1..Len(rcv) : rcv'[j].rv = IF j = ix[d] THEN v ELSE rcv[j].rv
      BY <1>a, <3>2, <3>3, <3>5
    <3> QED
      BY <3>4, <3>6
  <2>5. VotesTrue(d)'
    BY <1>1, <1>a, <1>b, <2>4, AloneVotes DEF NetworkFailure
  <2>6. Unasked(ix[d] - 1)'
    <3>1. \A i \in 1..Len(rcv) : i > ix[d] =>
             rcv'[i].rv = "NotPrepared" /\ res'[rcv'[i].r].status = "Active"
      BY <1>a, <1>b, <2>4 DEF Unasked
    <3> QED
      BY <2>3, <2>4, <3>1 DEF Unasked
  <2>7. SoloPlace(d)' /\ SoloOrder(d)' /\ LoopTrue(d, d)'
    <3>1. SoloPlace(d)'
      BY <1>1, <1>a, <2>1, <2>2, <2>3 DEF SoloPlace, StatusAt
    <3>2. SoloOrder(d)'
      BY <2>1, <2>6 DEF SoloOrder
    <3> QED
      BY <2>1, <3>1, <3>2 DEF LoopTrue
  <2>8. Promises(d)'
    <3>1. status' = "Preparing" => PromisedIn(Passed(d))'
      BY <1>1, <1>a, <1>b, <2>3, <2>4 DEF PromisedIn
    <3> QED
      BY <2>1, <3>1 DEF Promises
  <2>9. Withheld(d)' /\ Heard(d)'
    BY <1>a, <1>b, <2>1 DEF Withheld, NoneTold, Heard, Answered
  <2> QED
    BY <2>2, <2>5, <2>7, <2>8, <2>9 DEF SoloCall
<1>2. CASE /\ ans[d] \notin {"VoteCommit", "VoteRollback", "COMM_FAILURE"}
           /\ Throw(d, ans[d]) /\ UNCHANGED rcv
  BY <1>2, <1>a, <1>b, CallThrows DEF NetworkFailure
<1> QED
  BY <1>1, <1>2, <1>b DEF Voted

LEMMA AloneDecides ==
  ASSUME NEW d, Alone(d), d \in Committers, Decide(d)
  PROVE  SoloCall(d)'
<1>a. /\ pc[d] = "prepare" /\ status \in {"Preparing", "MarkedRollback"} /\ d \notin Rollbackers
      /\ NoneTold /\ UNCHANGED <<rcv, res, len, heur, faults, ans, reply>>
      /\ status = "Preparing" => PromisedIn(Passed(d))
      /\ heur[d] => faults > 0
      /\ ix[d] <= len[d] + 1
  <2>1. SoloPlace(d) /\ Promises(d) /\ Withheld(d) /\ Heard(d)
    BY DEF Alone, SoloCall
  <2>2. pc[d] = "prepare" /\ UNCHANGED <<rcv, res, len, heur, faults, ans, reply>>
    BY DEF Decide, Goto
  <2> QED
    BY <2>1, <2>2, AloneFacts DEF SoloPlace, StatusAt, Promises, Withheld, Heard
<1>1. \/ pc'[d] = "rollback" /\ status' = "MarkedRollback"
      \/ /\ pc'[d] = "commit" /\ status' = "Committing" /\ ix'[d] = 1 /\ status = "Preparing"
         /\ ~(ix[d] <= len[d])
  BY <1>a, AloneFacts DEF Decide, Goto, More
<1>2. pc'[d] = "commit" =>
         Passed(d)' = {} /\ PromisedIn(1..len[d])
  BY <1>1, <1>a, AloneFacts DEF Passed, PromisedIn
<1>3. reply'[d] = "none" /\ SoloReply(d)'
  BY <1>a, <1>1, SaysNothing
<1>4. VotesTrue(d)'
  BY <1>a, AloneVotes
<1>5. SoloPlace(d)' /\ SoloOrder(d)'
  BY <1>a, <1>1, <1>3 DEF SoloPlace, StatusAt, SoloOrder
<1>6. Promises(d)' /\ LoopTrue(d, d)'
  BY <1>a, <1>1, <1>2 DEF Promises, PromisedIn, LoopTrue, AllCommitted
<1>7. Withheld(d)' /\ Heard(d)'
  BY <1>a, <1>1 DEF Withheld, NoneTold, Heard, Answered
<1> QED
  BY <1>3, <1>4, <1>5, <1>6, <1>7 DEF SoloCall

LEMMA AloneHearsCommit ==
  ASSUME NEW d, Alone(d), d \in Committers, CommitAnswered(d)
  PROVE  SoloCall(d)'
<1>a. /\ pc[d] = "committed" /\ ix[d] \in 1..len[d] /\ ix[d] \in 1..Len(rcv) /\ d \notin Rollbackers
      /\ status = "Committing" /\ UNCHANGED <<res, status, len, faults, ans>> /\ ans[d] # "spins"
  <2>1. SoloPlace(d) /\ pc[d] \in {"committed", "recommitted"}
        /\ UNCHANGED <<res, status, len, faults, ans>> /\ ans[d] # "spins"
    BY DEF Alone, SoloCall, CommitAnswered
  <2>2. pc[d] = "committed" /\ status = "Committing"
    BY <2>1 DEF SoloPlace, StatusAt
  <2> QED
    BY <2>1, <2>2, AloneFacts DEF Answered
<1>b. /\ PromisedIn((1..len[d]) \ (Passed(d) \cup {ix[d]})) /\ VotesTrue(d)
      /\ ~heur[d] => AllCommitted(Passed(d))
      /\ ans[d] \in NetworkFailure => faults > 0
      /\ ans[d] = "ok" => res[rcv[ix[d]].r].fate = "committed"
      /\ heur[d] => faults > 0
  <2>1. Promises(d) /\ Heard(d) /\ VotesTrue(d) /\ LoopTrue(d, d)
    BY DEF Alone, SoloCall
  <2> QED
    BY <1>a, <2>1 DEF Promises, Heard, LoopTrue, Answered
<1>1. ASSUME Advance(d), Goto(d, "commit"),
             /\ Len(rcv') = Len(rcv) /\ \A j \in 1..Len(rcv) : rcv'[j].r = rcv[j].r
             /\ \A j \in 1..Len(rcv) :
                   \/ rcv'[j].rv = rcv[j].rv
                   \/ rcv'[j].rv = "Committed" /\ j = ix[d] /\ ans[d] = "ok",
             \/ ans[d] = "ok" /\ heur'[d] = heur[d]
             \/ ans[d] = "COMM_FAILURE" /\ heur'[d]
      PROVE  SoloCall(d)'
  <2>1. pc'[d] = "commit" /\ reply' = reply
    BY <1>1, AloneFacts DEF Goto
  <2>2. reply'[d] = "none" /\ SoloReply(d)'
    BY <1>a, <2>1, SaysNothing
  <2>3. Passed(d)' = Passed(d) \cup {ix[d]} /\ Passed(d) \subseteq 1..Len(rcv)
    BY <1>1, <1>a, PassesOne, AloneFacts DEF Passed
  <2>4. VotesTrue(d)'
    BY <1>1, <1>b, AloneVotes
  <2>5. SoloPlace(d)' /\ SoloOrder(d)'
    BY <1>a, <2>1, <2>2 DEF SoloPlace, StatusAt, SoloOrder
  <2>6. Promises(d)'
    <3>1. \A j \in 1..len[d] : rcv'[j].r = rcv[j].r
      BY <1>1, AloneFacts
    <3>2. PromisedIn((1..len[d]) \ Passed(d))'
      BY <1>a, <1>b, <2>3, <3>1 DEF PromisedIn
    <3> QED
      BY <2>1, <3>2 DEF Promises
  <2>7. LoopTrue(d, d)'
    <3>1. ~heur'[d] => ans[d] = "ok" /\ AllCommitted(Passed(d))
      BY <1>1, <1>b
    <3>2. ~heur'[d] => AllCommitted(Passed(d))'
      BY <1>1, <1>a, <1>b, <2>3, <3>1 DEF AllCommitted
    <3> QED
      BY <2>1, <3>2 DEF LoopTrue
  <2>8. Withheld(d)' /\ Heard(d)'
    BY <1>1, <1>a, <1>b, <2>1 DEF Withheld, Heard, Answered, NetworkFailure
  <2> QED
    BY <2>2, <2>4, <2>5, <2>6, <2>7, <2>8 DEF SoloCall
<1>2. CASE /\ ans[d] = "ok" /\ ChangeResourceVote(ix[d], "Committed")
           /\ Advance(d) /\ Goto(d, "commit") /\ UNCHANGED heur
  <2>1. /\ Len(rcv') = Len(rcv)
        /\ \A j \in 1..Len(rcv) :
             /\ rcv'[j].r = rcv[j].r
             /\ rcv'[j].rv = IF j = ix[d] THEN "Committed" ELSE rcv[j].rv
    BY <1>2, <1>a, OneVoteChanges DEF Alone, ListSound, TypeInv, TypeOK, ResourceVote
  <2>2. \A j \in 1..Len(rcv) :
           \/ rcv'[j].rv = rcv[j].rv
           \/ rcv'[j].rv = "Committed" /\ j = ix[d] /\ ans[d] = "ok"
    BY <1>2, <2>1
  <2>3. Len(rcv') = Len(rcv) /\ \A j \in 1..Len(rcv) : rcv'[j].r = rcv[j].r
    BY <2>1
  <2>4. Advance(d) /\ Goto(d, "commit") /\ ans[d] = "ok" /\ heur'[d] = heur[d]
    BY <1>2
  <2> QED
    BY <1>1, <2>2, <2>3, <2>4
<1>3. CASE /\ ans[d] = "COMM_FAILURE" /\ heur' = [heur EXCEPT ![d] = TRUE]
           /\ Advance(d) /\ Goto(d, "commit") /\ UNCHANGED rcv
  BY <1>1, <1>3, AloneFacts
<1>4. CASE ans[d] \notin {"ok", "COMM_FAILURE"} /\ Throw(d, ans[d]) /\ UNCHANGED <<rcv, heur>>
  <2>1. ans[d] # "TRANSACTION_ROLLEDBACK" /\ (ans[d] \in Escaping \/ faults > 0)
    BY <1>4, <1>a, <1>b, AloneFacts DEF Answered, AnswerTo, NetworkFailure, Escaping
  <2> QED
    BY <1>4, <1>a, <2>1, CallThrows
<1> QED
  BY <1>2, <1>3, <1>4, <1>a DEF CommitAnswered

LEMMA AloneEndsCommit ==
  ASSUME NEW d, Alone(d), d \in Committers, CommitEnds(d)
  PROVE  SoloCall(d)'
<1>a. /\ pc[d] = "commit" /\ ~(ix[d] <= len[d]) /\ status' = "NoTransaction"
      /\ UNCHANGED <<rcv, res, len, heur, faults, ans>> /\ d \notin Rollbackers
      /\ ~heur[d] => AllCommitted(Passed(d))
      /\ heur[d] => faults > 0
  <2>1. SoloPlace(d) /\ LoopTrue(d, d) /\ Heard(d)
    BY DEF Alone, SoloCall
  <2>2. /\ pc[d] \in {"commit", "recommit"} /\ ~(ix[d] <= len[d]) /\ status' = "NoTransaction"
        /\ UNCHANGED <<rcv, res, len, heur, faults, ans>>
    BY DEF CommitEnds, More
  <2>3. pc[d] = "commit"
    BY <2>1, <2>2 DEF SoloPlace, StatusAt
  <2> QED
    BY <2>1, <2>2, <2>3, AloneFacts DEF LoopTrue, Heard
<1>1. pc'[d] = "after" /\ reply' = reply
  BY <1>a, AloneFacts DEF CommitEnds, Goto
<1>2. reply'[d] = "none" /\ SoloReply(d)'
  BY <1>a, <1>1, SaysNothing
<1>3. Passed(d) = 1..len[d]
  BY <1>a, AloneFacts DEF Passed
<1>4. VotesTrue(d)'
  BY <1>a, AloneVotes
<1>5. SoloPlace(d)' /\ SoloOrder(d)' /\ Promises(d)' /\ Withheld(d)' /\ Heard(d)'
  BY <1>a, <1>1, <1>2 DEF SoloPlace, StatusAt, SoloOrder, Promises, Withheld, Heard, Answered
<1>6. LoopTrue(d, d)'
  BY <1>a, <1>1, <1>3 DEF LoopTrue, AllCommitted
<1> QED
  BY <1>2, <1>4, <1>5, <1>6 DEF SoloCall

(* The decision to roll back: nobody has been told to commit.              *)
LEMMA AloneTurnsBack ==
  ASSUME NEW d, Alone(d), Rollback(d)
  PROVE  SoloCall(d)'
<1>a. /\ pc[d] = IF d \in Committers THEN "rollback" ELSE "idle"
      /\ status \in {"Active", "MarkedRollback"}
      /\ NoneTold /\ UNCHANGED <<rcv, res, faults, ans>>
  <2>1. SoloPlace(d) /\ Withheld(d)
    BY DEF Alone, SoloCall
  <2>2. pc[d] = (IF d \in Committers THEN "rollback" ELSE "idle") /\ UNCHANGED <<rcv, res, faults, ans>>
    BY DEF Rollback
  <2> QED
    BY <2>1, <2>2, AloneFacts DEF SoloPlace, StatusAt, Withheld
<1>1. /\ pc'[d] = "undo" /\ status' = "RollingBack" /\ ~heur'[d] /\ ix'[d] = 1
      /\ reply' = reply
  BY <1>a, AloneFacts DEF Rollback, Loop, Goto
<1>2. reply'[d] = "none" /\ SoloReply(d)'
  BY <1>a, <1>1, SaysNothing
<1>3. Passed(d)' = {}
  BY <1>1, AloneFacts DEF Passed
<1>4. VotesTrue(d)'
  BY <1>a, AloneVotes
<1>5. SoloPlace(d)' /\ SoloOrder(d)' /\ Promises(d)' /\ Withheld(d)' /\ Heard(d)'
  BY <1>a, <1>1, <1>2 DEF SoloPlace, StatusAt, SoloOrder, Promises, Withheld, NoneTold, Heard, Answered
<1>6. LoopTrue(d, d)'
  BY <1>1, <1>3 DEF LoopTrue, AllAborted
<1> QED
  BY <1>2, <1>4, <1>5, <1>6 DEF SoloCall

LEMMA AloneHearsUndo ==
  ASSUME NEW d, Alone(d), RollbackAnswered(d)
  PROVE  SoloCall(d)'
<1>a. /\ pc[d] = "undone" /\ ix[d] \in 1..len[d] /\ ix[d] \in 1..Len(rcv)
      /\ status = "RollingBack" /\ UNCHANGED <<res, status, len, faults, ans>> /\ ans[d] # "spins"
      /\ ans[d] \in NetworkFailure \cup {"ok", "spins"}
  <2>1. SoloPlace(d) /\ pc[d] \in {"undone", "redone"}
        /\ UNCHANGED <<res, status, len, faults, ans>> /\ ans[d] # "spins"
    BY DEF Alone, SoloCall, RollbackAnswered
  <2>2. pc[d] = "undone" /\ status = "RollingBack"
    BY <2>1 DEF SoloPlace, StatusAt
  <2> QED
    BY <2>1, <2>2, AloneFacts DEF Answered, AnswerTo
<1>b. /\ VotesTrue(d) /\ NoneTold
      /\ Sure(d) => AllAborted(Passed(d))
      /\ ans[d] \in NetworkFailure => faults > 0
      /\ ans[d] = "ok" => res[rcv[ix[d]].r].fate = "aborted"
      /\ heur[d] => faults > 0
  <2>1. Withheld(d) /\ Heard(d) /\ VotesTrue(d) /\ LoopTrue(d, d)
    BY DEF Alone, SoloCall
  <2> QED
    BY <1>a, <2>1 DEF Withheld, Heard, LoopTrue, Answered
<1>1. ASSUME Advance(d), Goto(d, "undo"),
             /\ Len(rcv') = Len(rcv) /\ \A j \in 1..Len(rcv) : rcv'[j].r = rcv[j].r
             /\ \A j \in 1..Len(rcv) :
                   \/ rcv'[j].rv = rcv[j].rv
                   \/ rcv'[j].rv = "RolledBack" /\ j = ix[d] /\ ans[d] = "ok",
             \/ ans[d] = "ok" /\ heur'[d] = heur[d]
             \/ ans[d] = "COMM_FAILURE" /\ heur'[d]
      PROVE  SoloCall(d)'
  <2>1. pc'[d] = "undo" /\ reply' = reply
    BY <1>1, AloneFacts DEF Goto
  <2>2. reply'[d] = "none" /\ SoloReply(d)'
    BY <1>a, <2>1, SaysNothing
  <2>3. Passed(d)' = Passed(d) \cup {ix[d]} /\ Passed(d) \subseteq 1..Len(rcv)
    BY <1>1, <1>a, PassesOne, AloneFacts DEF Passed
  <2>4. VotesTrue(d)'
    BY <1>1, <1>b, AloneVotes
  <2>5. SoloPlace(d)' /\ SoloOrder(d)' /\ Promises(d)'
    BY <1>a, <2>1, <2>2 DEF SoloPlace, StatusAt, SoloOrder, Promises
  <2>6. LoopTrue(d, d)'
    <3>1. Sure(d)' => ans[d] = "ok" /\ Sure(d)
      BY <1>1, <1>a, <1>b DEF Sure, NetworkFailure
    <3>2. Sure(d)' => AllAborted(Passed(d))'
      BY <1>1, <1>a, <1>b, <2>3, <3>1 DEF AllAborted
    <3> QED
      BY <2>1, <3>2 DEF LoopTrue
  <2>7. Withheld(d)' /\ Heard(d)'
    BY <1>1, <1>a, <1>b, <2>1 DEF Withheld, NoneTold, Heard, Answered, NetworkFailure
  <2> QED
    BY <2>2, <2>4, <2>5, <2>6, <2>7 DEF SoloCall
<1>2. CASE /\ ans[d] = "ok" /\ ChangeResourceVote(ix[d], "RolledBack")
           /\ Advance(d) /\ Goto(d, "undo") /\ UNCHANGED heur
  <2>1. /\ Len(rcv') = Len(rcv)
        /\ \A j \in 1..Len(rcv) :
             /\ rcv'[j].r = rcv[j].r
             /\ rcv'[j].rv = IF j = ix[d] THEN "RolledBack" ELSE rcv[j].rv
    BY <1>2, <1>a, OneVoteChanges DEF Alone, ListSound, TypeInv, TypeOK, ResourceVote
  <2>2. \A j \in 1..Len(rcv) :
           \/ rcv'[j].rv = rcv[j].rv
           \/ rcv'[j].rv = "RolledBack" /\ j = ix[d] /\ ans[d] = "ok"
    BY <1>2, <2>1
  <2>3. Len(rcv') = Len(rcv) /\ \A j \in 1..Len(rcv) : rcv'[j].r = rcv[j].r
    BY <2>1
  <2>4. Advance(d) /\ Goto(d, "undo") /\ ans[d] = "ok" /\ heur'[d] = heur[d]
    BY <1>2
  <2> QED
    BY <1>1, <2>2, <2>3, <2>4
<1>3. CASE /\ ans[d] = "COMM_FAILURE" /\ heur' = [heur EXCEPT ![d] = TRUE]
           /\ Advance(d) /\ Goto(d, "undo") /\ UNCHANGED rcv
  BY <1>1, <1>3, AloneFacts
<1>4. CASE ans[d] \notin {"ok", "COMM_FAILURE"} /\ Throw(d, ans[d]) /\ UNCHANGED <<rcv, heur>>
  BY <1>4, <1>a, <1>b, CallThrows DEF NetworkFailure
<1> QED
  BY <1>2, <1>3, <1>4, <1>a DEF RollbackAnswered

LEMMA AloneEndsRollback ==
  ASSUME NEW d, Alone(d), RollbackEnds(d)
  PROVE  SoloCall(d)'
<1>a. /\ pc[d] = "undo" /\ ~(ix[d] <= len[d]) /\ status' = "NoTransaction" /\ NoneTold
      /\ UNCHANGED <<rcv, res, len, heur, faults, ans>>
      /\ Sure(d) => AllAborted(Passed(d))
      /\ heur[d] => faults > 0
  <2>1. SoloPlace(d) /\ LoopTrue(d, d) /\ Heard(d) /\ Withheld(d)
    BY DEF Alone, SoloCall
  <2>2. /\ pc[d] \in {"undo", "redo"} /\ ~(ix[d] <= len[d]) /\ status' = "NoTransaction"
        /\ UNCHANGED <<rcv, res, len, heur, faults, ans>>
    BY DEF RollbackEnds, More
  <2>3. pc[d] = "undo"
    BY <2>1, <2>2 DEF SoloPlace, StatusAt
  <2> QED
    BY <2>1, <2>2, <2>3 DEF LoopTrue, Heard, Withheld
<1>1. CASE heur[d]
  BY <1>a, <1>1, CallThrows DEF RollbackEnds
<1>2. CASE ~heur[d]
  <2>1. pc'[d] = "undoAfter" /\ reply' = reply
    BY <1>a, <1>2, AloneFacts DEF RollbackEnds, Goto
  <2>2. reply'[d] = "none" /\ SoloReply(d)'
    BY <1>a, <2>1, SaysNothing
  <2>3. Passed(d) = 1..len[d]
    BY <1>a, AloneFacts DEF Passed
  <2>4. VotesTrue(d)'
    BY <1>a, AloneVotes
  <2>5. SoloPlace(d)' /\ SoloOrder(d)' /\ Promises(d)' /\ Withheld(d)' /\ Heard(d)'
    BY <1>a, <2>1, <2>2 DEF SoloPlace, StatusAt, SoloOrder, Promises, Withheld, NoneTold, Heard,
       Answered
  <2>6. LoopTrue(d, d)'
    BY <1>a, <1>2, <2>1, <2>3 DEF LoopTrue, AllAborted, Sure
  <2> QED
    BY <2>2, <2>4, <2>5, <2>6 DEF SoloCall
<1> QED
  BY <1>1, <1>2

LEMMA AloneSaysAfter ==
  ASSUME NEW d, Alone(d), AfterCompletion(d)
  PROVE  SoloCall(d)'
<1>a. /\ pc[d] \in {"after", "undoAfter"} /\ UNCHANGED <<rcv, res, len, heur, faults, ans, status>>
      /\ pc[d] = "after" => d \in Committers /\ d \notin Rollbackers
      /\ pc[d] = "after" /\ ~heur[d] => AllCommitted(1..len[d])
      /\ pc[d] = "undoAfter" => NoneTold
      /\ pc[d] = "undoAfter" /\ (faults = 0 \/ d \in Rollbackers) => AllAborted(1..len[d])
      /\ status = "NoTransaction" /\ (heur[d] => faults > 0)
      /\ faults = 0 => AllSettled(1..len[d])
  <2>1. SoloPlace(d) /\ LoopTrue(d, d) /\ Withheld(d) /\ Heard(d)
    BY DEF Alone, SoloCall
  <2>2. pc[d] \in {"after", "undoAfter"} /\ UNCHANGED <<rcv, res, len, heur, faults, ans, status>>
    BY DEF AfterCompletion
  <2>3. d \notin Late
    BY DEF Alone, Solo
  <2>4. faults = 0 => AllSettled(1..len[d])
    BY <2>1, <2>2 DEF LoopTrue, Heard, AllCommitted, AllAborted, AllSettled
  <2> QED
    BY <2>1, <2>2, <2>3, <2>4, AloneFacts DEF SoloPlace, StatusAt, LoopTrue, Withheld, Heard
<1>1. CASE ix[d] <= Len(syncs)
  <2>1. pc' = pc /\ reply' = reply
    BY <1>1 DEF AfterCompletion
  <2>2. reply'[d] = "none" /\ SoloReply(d)'
    BY <1>a, <2>1, SaysNothing
  <2>3. VotesTrue(d)'
    BY <1>a, AloneVotes
  <2>4. SoloPlace(d)' /\ SoloOrder(d)' /\ Promises(d)' /\ Withheld(d)' /\ Heard(d)' /\ LoopTrue(d, d)'
    BY <1>a, <2>1, <2>2, AloneFacts DEF SoloPlace, StatusAt, SoloOrder, Promises, Withheld, NoneTold,
       Heard, Answered, LoopTrue, AllCommitted, AllAborted
  <2> QED
    BY <2>2, <2>3, <2>4 DEF SoloCall
<1>2. CASE ~(ix[d] <= Len(syncs)) /\ pc[d] = "undoAfter"
  BY <1>a, <1>2, AloneFacts, CallOver DEF AfterCompletion, RollbackReturns, Return
<1>3. CASE ~(ix[d] <= Len(syncs)) /\ pc[d] = "after" /\ ReportHeuristics /\ heur[d]
  BY <1>a, <1>3, CallThrows DEF AfterCompletion
<1>4. CASE ~(ix[d] <= Len(syncs)) /\ pc[d] = "after" /\ ~(ReportHeuristics /\ heur[d])
  BY <1>a, <1>4, AloneFacts, CallOver DEF AfterCompletion, Return
<1> QED
  BY <1>a, <1>1, <1>2, <1>3, <1>4
-----------------------------------------------------------------------------
(***************************************************************************)
(* Every step.                                                             *)
(***************************************************************************)
Own(d) ==
    \/ d \in Committers /\ (Commit(d) \/ CommitStep(d))
    \/ Rollback(d) \/ RollbackStep(d)

(* No call spins on a status that nothing assigns.                         *)
LEMMA NeverSpins ==
  ASSUME NEW d, Alone(d) PROVE ~Spin(d)
BY DEF Alone, SoloCall, SoloPlace, StatusAt, Spin

LEMMA OwnSteps ==
  ASSUME NEW d, Alone(d), Own(d)
  PROVE  \/ d \in Committers /\ (CommitOnePhase(d) \/ PrepareNext(d) \/ CommitNext(d))
         \/ RollbackNext(d)
         \/ d \in Committers /\ (Commit(d) \/ BeforeCompletion(d) \/ Dispatch(d))
         \/ d \in Committers /\ (OnePhaseAnswered(d) \/ Voted(d) \/ Decide(d))
         \/ d \in Committers /\ (CommitAnswered(d) \/ CommitEnds(d))
         \/ Rollback(d) \/ RollbackAnswered(d) \/ RollbackEnds(d) \/ AfterCompletion(d)
         \/ UNCHANGED vars
BY NeverSpins DEF Own, CommitStep, RollbackStep, ResourceSpins

LEMMA OwnCall ==
  ASSUME NEW d, Alone(d), Own(d)
  PROVE  /\ SoloCall(d)'
         /\ CalledOne(d) \/ (res' = res /\ Len(rcv') = Len(rcv))
<1>1. CASE d \in Committers /\ (CommitOnePhase(d) \/ PrepareNext(d) \/ CommitNext(d))
  BY <1>1, AloneOnePhase, AlonePrepares, AloneCommits
<1>2. CASE RollbackNext(d)
  BY <1>2, AloneUndoes
<1>3. CASE UNCHANGED vars
  BY <1>3, WorldCall DEF World, Around, vars
<1>4. CASE d \in Committers /\ (Commit(d) \/ BeforeCompletion(d) \/ Dispatch(d))
  <2>1. UNCHANGED <<res, rcv>>
    BY <1>4 DEF Commit, BeforeCompletion, Dispatch, coordVars
  <2> QED
    BY <1>4, <2>1, AloneBegins
<1>5. CASE d \in Committers /\ (OnePhaseAnswered(d) \/ Decide(d))
  <2>1. UNCHANGED <<res, rcv>>
    BY <1>5 DEF OnePhaseAnswered, Decide, coordVars
  <2> QED
    BY <1>5, <2>1, AloneHearsOnePhase, AloneDecides
<1>6. CASE \/ d \in Committers /\ CommitEnds(d)
           \/ Rollback(d) \/ RollbackEnds(d) \/ AfterCompletion(d)
  <2>1. UNCHANGED <<res, rcv>>
    BY <1>6 DEF CommitEnds, Rollback, RollbackEnds, AfterCompletion
  <2> QED
    BY <1>6, <2>1, AloneEndsCommit, AloneTurnsBack, AloneEndsRollback, AloneSaysAfter
<1>7. CASE (d \in Committers /\ (Voted(d) \/ CommitAnswered(d))) \/ RollbackAnswered(d)
  <2>1. /\ CoordTypes /\ ix[d] \in 1..Len(rcv)
        /\ {"VoteCommit", "Committed", "RolledBack"} \subseteq ResourceVote
    BY <1>7, AloneFacts DEF Alone, TypeInv, TypeOK, ResourceVote, Answered, Voted, CommitAnswered,
       RollbackAnswered
  <2>2. res' = res /\ Len(rcv') = Len(rcv)
    BY <1>7, <2>1, ListChanges DEF Voted, CommitAnswered, RollbackAnswered
  <2> QED
    BY <1>7, <2>2, AloneHearsVote, AloneHearsCommit, AloneHearsUndo
<1> QED
  BY <1>1, <1>2, <1>3, <1>4, <1>5, <1>6, <1>7, OwnSteps

LEMMA OwnWorld ==
  ASSUME NEW d, Alone(d), Own(d)
  PROVE  SoundResources' /\ ListSound'
<1>a. /\ SoundResources /\ ix[d] \in Nat /\ len[d] <= Len(rcv) /\ len[d] \in Nat /\ Len(rcv) \in Nat
  BY AloneFacts DEF Alone
<1>1. PICK L : Moves(d, L)
  BY AloneFacts, TerminatorMoves DEF Own, Alone
<1>2. SoundResources' /\ Len(rcv') = Len(rcv)
  BY <1>a, OwnCall DEF CalledOne, SoundResources
<1>3. \A r \in Resources : (\A i \in 1..Len(rcv) : rcv[i].r # r) => res'[r] = res[r]
  BY <1>a, OwnCall DEF CalledOne
<1> QED
  BY <1>1, <1>2, <1>3, SoloListKept

LEMMA SoloInit == Init => SoloInv
<1> SUFFICES ASSUME Init PROVE SoloInv
  OBVIOUS
<1>a. /\ Len(rcv) = 0 /\ \A r \in Resources : res[r] = NewResource
      /\ \A d \in Terminators : /\ pc[d] = "idle" /\ reply[d] = "none" /\ ~heur[d] /\ len[d] = 0
                                /\ d \in Calls
      /\ \A g \in Registrars : pc[g] = "idle" /\ Target[g] \in Resources
      /\ status = "Active"
  BY TargetAssumption DEF Init, Terminators, Calls
<1>1. SoundResources /\ NoneTold
  BY <1>a DEF SoundResources, Sound, Sane, NewResource, NoneTold
<1>2. ListSound
  BY <1>a DEF ListSound, NewResource
<1>3. ASSUME NEW d \in Terminators PROVE SoloCall(d)
  BY <1>a, <1>1 DEF SoloCall, SoloPlace, StatusAt, SoloOrder, Unasked, Promises, Withheld, Heard,
     Answered, VotesTrue, LoopTrue, SoloReply
<1> QED
  BY <1>1, <1>2, <1>3 DEF SoloInv

LEMMA SoloStep == Solo /\ TypeInv /\ TypeInv' /\ SoloInv /\ [Next]_vars => SoloInv'
<1> SUFFICES ASSUME Solo, TypeInv, TypeInv', SoloInv, [Next]_vars PROVE SoloInv'
  OBVIOUS
<1>1. PICK d : Terminators = {d}
  BY DEF Solo
<1>2. Alone(d)
  BY <1>1, ForwardStep DEF Alone, SoloInv
<1>3. World \/ Own(d)
  BY <1>1 DEF Next, World, Around, Finished, Own, Terminators
<1>4. SoundResources' /\ ListSound' /\ SoloCall(d)'
  BY <1>2, <1>3, WorldSound, WorldList, WorldCall, OwnCall, OwnWorld
<1> QED
  BY <1>1, <1>4 DEF SoloInv

LEMMA SoloInvariant == ASSUME Solo PROVE Spec => [](TypeInv /\ SoloInv)
<1>1. Spec => []TypeInv
  BY TypeInit, TypeStep, PTL DEF Spec
<1>2. Init => SoloInv
  BY SoloInit
<1>3. TypeInv /\ TypeInv' /\ SoloInv /\ [Next]_vars => SoloInv'
  BY SoloStep
<1> QED
  BY <1>1, <1>2, <1>3, PTL DEF Spec

LEMMA SoloAnswers ==
  Solo /\ TypeInv /\ SoloInv =>
     /\ CommitAnswerTrue /\ RollbackAnswerTrue
     /\ Committers = {} \/ ThrowSpecsEnforced => NothingLeftOpen
<1> SUFFICES ASSUME Solo, TypeInv, SoloInv
             PROVE  /\ CommitAnswerTrue /\ RollbackAnswerTrue
                    /\ Committers = {} \/ ThrowSpecsEnforced => NothingLeftOpen
  OBVIOUS
<1>a. /\ \A d \in Terminators : SoloReply(d) /\ Withheld(d) /\ SoloPlace(d)
      /\ Terminators \ Late = Terminators
      /\ Committers \cap Rollbackers = {}
      /\ NoneTold => \A r \in Resources : res[r].fate # "committed"
  BY CallsAssumption DEF SoloInv, SoloCall, Solo, NoneTold, SoundResources, Sound
<1>1. ASSUME NEW c \in Committers PROVE
        /\ reply[c] = "ok" /\ ReportHeuristics =>
              \A r \in Counted(c) : res[r].fate = "committed"
        /\ reply[c] = "TRANSACTION_ROLLEDBACK" => NoneTold
  BY <1>a DEF Terminators, SoloReply, Withheld, SoloPlace, AllCommitted, Counted
<1>2. ASSUME NEW c \in Rollbackers PROVE
        /\ reply[c] = "ok" => NoneTold /\ \A r \in Counted(c) : res[r].fate = "aborted"
  BY <1>a DEF Terminators, SoloReply, Withheld, SoloPlace, AllAborted, Counted
<1>3. Committers = {} \/ ThrowSpecsEnforced => NothingLeftOpen
  BY <1>a DEF NothingLeftOpen, Terminators, SoloReply, Orderly, AllSettled, Counted
<1> QED
  BY <1>a, <1>1, <1>2, <1>3 DEF CommitAnswerTrue, RollbackAnswerTrue
-----------------------------------------------------------------------------
(***************************************************************************)
(* The last word: after_completion.                                        *)
(***************************************************************************)
LEMMA SyncFacts ==
  ASSUME NEW d, Alone(d)
  PROVE  /\ syncs \in Seq(Syncs) /\ Len(syncs) \in Nat /\ DOMAIN syncs = 1..Len(syncs)
         /\ \A i \in 1..Len(syncs) : syncs[i] \in Syncs
         /\ after \in [Syncs -> Nat]
BY ListTypes DEF Alone, TypeInv, TypeOK, CoordTypes

(* Nobody is notified, and nothing is notified next.                       *)
LEMMA SilenceKept ==
  ASSUME NEW d, Alone(d), LastWord(d), UNCHANGED <<after, syncs>>,
         ~Notified, pc'[d] \in {"after", "undoAfter"} => status' = "NoTransaction"
  PROVE  LastWord(d)'
<1>1. \A s \in Syncs : after'[s] = 0
  BY SyncFacts DEF Notified
<1> QED
  BY <1>1, SyncFacts DEF LastWord, Notified

(* Whoever is notified knows the end, short of network failures.           *)
LEMMA SettledAtLast ==
  ASSUME NEW d, Alone(d), pc[d] \in {"after", "undoAfter"}, faults = 0
  PROVE  AllSettled(1..len[d])
<1>1. ~heur[d] /\ LoopTrue(d, d)
  BY DEF Alone, SoloCall, Heard
<1> QED
  BY <1>1 DEF LoopTrue, AllCommitted, AllAborted, AllSettled

LEMMA NotifiesOne ==
  ASSUME NEW d, Alone(d), LastWord(d), AfterCompletion(d)
  PROVE  /\ LastWord(d)'
         /\ \A s \in Syncs : after[s] > 0 => after'[s] = after[s]
<1>a. /\ pc[d] \in {"after", "undoAfter"} /\ status = "NoTransaction"
      /\ UNCHANGED <<status, syncs, faults, res, rcv, len>>
      /\ \A i \in 1..Len(syncs) : i >= ix[d] => after[syncs[i]] = 0
      /\ \A i, j \in 1..Len(syncs) : syncs[i] = syncs[j] => i = j
  BY DEF AfterCompletion, LastWord
<1>b. faults' = 0 => AllSettled(1..len[d])'
  BY <1>a, SettledAtLast DEF AllSettled
<1>1. CASE ix[d] <= Len(syncs)
  <2> DEFINE s == syncs[ix[d]]
  <2>1. /\ s \in Syncs /\ after[s] = 0 /\ ix[d] \in 1..Len(syncs)
        /\ ix'[d] = ix[d] + 1 /\ pc' = pc
        /\ after' = [after EXCEPT ![s] = @ + 1]
    BY <1>a, <1>1, AloneFacts, SyncFacts DEF AfterCompletion, Advance
  <2>2. \A t \in Syncs : t # s => after'[t] = after[t]
    BY <2>1, SyncFacts
  <2>3. \A i \in 1..Len(syncs) : i >= ix'[d] => syncs[i] # s /\ after[syncs[i]] = 0
    BY <1>a, <2>1, SyncFacts
  <2>4. /\ pc'[d] \in {"after", "undoAfter"} /\ status' = "NoTransaction"
        /\ \A i, j \in 1..Len(syncs') : syncs'[i] = syncs'[j] => i = j
    BY <1>a, <2>1
  <2>5. \A i \in 1..Len(syncs') : i >= ix'[d] => after'[syncs'[i]] = 0
    BY <1>a, <2>2, <2>3, SyncFacts
  <2>6. LastWord(d)'
    BY <1>b, <2>4, <2>5 DEF LastWord
  <2> HIDE DEF s
  <2> QED
    BY <2>1, <2>2, <2>6
<1>2. CASE ~(ix[d] <= Len(syncs))
  <2>1. after' = after /\ pc'[d] = "done"
    <3>1. \/ \E v : Return(d, v)
          \/ \E v : Throw(d, v)
      BY <1>2 DEF AfterCompletion, RollbackReturns
    <3> QED
      BY <1>a, <1>2, <3>1, AloneFacts DEF AfterCompletion, Return, Throw, Terminate
  <2> QED
    BY <1>a, <1>b, <2>1 DEF LastWord, Notified
<1> QED
  BY <1>1, <1>2

(* After the loops nothing is asked of a resource any more.                *)
LEMMA NothingAskedThen ==
  ASSUME NEW d, Own(d), pc[d] \in {"after", "undoAfter", "done"}
  PROVE  AfterCompletion(d) \/ UNCHANGED vars
BY DEF Own, Commit, CommitStep, Rollback, RollbackStep, BeforeCompletion, Dispatch,
       CommitOnePhase, OnePhaseAnswered, PrepareNext, Voted, Decide, CommitNext,
       CommitAnswered, CommitEnds, Spin, RollbackNext, RollbackAnswered, RollbackEnds,
       ResourceSpins

LEMMA LastWordByCall ==
  ASSUME NEW d, Alone(d), LastWord(d), Own(d)
  PROVE  /\ LastWord(d)'
         /\ \A s \in Syncs : after[s] > 0 => after'[s] = after[s]
<1>1. CASE AfterCompletion(d)
  BY <1>1, NotifiesOne
<1>2. CASE UNCHANGED vars
  BY <1>2 DEF LastWord, Notified, AllSettled, vars
<1>3. CASE ~AfterCompletion(d) /\ ~UNCHANGED vars
  <2>1. pc[d] \notin {"after", "undoAfter", "done"}
    BY <1>3, NothingAskedThen
  <2>2. UNCHANGED <<after, syncs>>
    BY <1>3 DEF Own, Commit, CommitStep, Rollback, RollbackStep, BeforeCompletion, Dispatch,
         CommitOnePhase, OnePhaseAnswered, PrepareNext, Voted, Decide, CommitNext,
         CommitAnswered, CommitEnds, Spin, RollbackNext, RollbackAnswered, RollbackEnds,
         ResourceSpins, coordVars
  <2>3. pc'[d] \in {"after", "undoAfter"} => status' = "NoTransaction"
    BY OwnCall, <2>1 DEF SoloCall, SoloPlace, StatusAt
  <2> QED
    BY <2>1, <2>2, <2>3, SilenceKept DEF LastWord
<1> QED
  BY <1>1, <1>2, <1>3

(* A step of the world notifies nobody.                                    *)
LEMMA LastWordInWorld ==
  ASSUME NEW d, Alone(d), LastWord(d), World
  PROVE  LastWord(d)' /\ after' = after
<1>a. /\ pc'[d] = pc[d] /\ ix'[d] = ix[d] /\ len'[d] = len[d] /\ after' = after
      /\ status' = status \/ status \in {"Active", "MarkedRollback"}
  BY WorldUndisturbs
<1>b. /\ faults' = 0 => faults = 0
      /\ len[d] \in Nat /\ Len(rcv) \in Nat /\ len[d] <= Len(rcv)
      /\ \A i \in 1..Len(rcv) :
           res[rcv[i].r].fate \in {"committed", "aborted"} =>
              res'[rcv'[i].r].fate \in {"committed", "aborted"}
  BY AloneFacts, AloneStays
<1>c. Notified =>
         /\ status' = "NoTransaction"
         /\ faults' = 0 => AllSettled(1..len[d])'
  BY <1>a, <1>b DEF LastWord, AllSettled
<1>1. CASE UNCHANGED syncs
  BY <1>a, <1>c, <1>1, SyncFacts DEF LastWord, Notified
<1>2. ASSUME NEW s \in Syncs, RegisterSynchronization(s) PROVE LastWord(d)'
  <2>1. /\ syncs' = Append(syncs, s) /\ status = "Active"
        /\ \A i \in 1..Len(syncs) : syncs[i] # s
    BY <1>2, SyncFacts DEF RegisterSynchronization
  <2>2. /\ Len(syncs') = Len(syncs) + 1 /\ syncs'[Len(syncs) + 1] = s
        /\ \A i \in 1..Len(syncs) : syncs'[i] = syncs[i]
    BY <2>1, SyncFacts
  <2>3. \A i, j \in 1..Len(syncs') : syncs'[i] = syncs'[j] => i = j
    <3> SUFFICES ASSUME NEW i \in 1..(Len(syncs) + 1), NEW j \in 1..(Len(syncs) + 1),
                        syncs'[i] = syncs'[j]
                 PROVE  i = j
      BY <2>2
    <3>1. CASE i \in 1..Len(syncs) /\ j \in 1..Len(syncs)
      BY <2>2, <3>1 DEF LastWord
    <3> QED
      BY <2>1, <2>2, <3>1, SyncFacts
  <2>4. ~Notified /\ pc[d] \notin {"after", "undoAfter"}
    BY <2>1 DEF LastWord
  <2> QED
    BY <1>a, <2>3, <2>4 DEF LastWord, Notified
<1>3. UNCHANGED syncs \/ \E s \in Syncs : RegisterSynchronization(s)
  BY DEF World, Around, Register, RegisterStep, BeginTrans, Enlist, RollbackOnly,
         StatementFailsAt, Disconnect, vars, coordVars
<1> QED
  BY <1>a, <1>1, <1>2, <1>3

LEMMA LastFates ==
  ASSUME NEW d, Alone(d), LastWord(d), Notified, World \/ Own(d),
         NEW r \in Members, res'[r].fate # res[r].fate
  PROVE  faults > 0 /\ res'[r].fate = "aborted"
<1>1. PICK i \in 1..len[d] : r = rcv[i].r
  BY AloneFacts DEF Members, Counted, Alone, Solo
<1>2. i \in 1..Len(rcv) /\ faults \in Nat
  BY AloneFacts
<1>3. World
  <2>1. Own(d) => res' = res
    BY NothingAskedThen DEF LastWord, AfterCompletion, vars
  <2> QED
    BY <2>1
<1>4. res[r].fate = "open" /\ res'[r].fate = "aborted"
  BY <1>1, <1>2, <1>3, WorldSound
<1> QED
  BY <1>1, <1>2, <1>4 DEF LastWord, AllSettled

LEMMA LastStep ==
  Solo /\ TypeInv /\ TypeInv' /\ SoloInv /\ LastWordInv /\ [Next]_vars
  => /\ LastWordInv'
     /\ \A s \in Syncs : after[s] > 0 =>
          /\ after'[s] = after[s]
          /\ status' = "NoTransaction"
          /\ \A r \in Members : res'[r].fate # res[r].fate =>
                faults > 0 /\ res'[r].fate = "aborted"
<1> SUFFICES ASSUME Solo, TypeInv, TypeInv', SoloInv, LastWordInv, [Next]_vars
             PROVE  /\ LastWordInv'
                    /\ \A s \in Syncs : after[s] > 0 =>
                         /\ after'[s] = after[s]
                         /\ status' = "NoTransaction"
                         /\ \A r \in Members : res'[r].fate # res[r].fate =>
                               faults > 0 /\ res'[r].fate = "aborted"
  OBVIOUS
<1>1. PICK d : Terminators = {d}
  BY DEF Solo
<1>2. Alone(d) /\ LastWord(d)
  BY <1>1, ForwardStep DEF Alone, SoloInv, LastWordInv
<1>3. World \/ Own(d)
  BY <1>1 DEF Next, World, Around, Finished, Own, Terminators
<1>4. LastWord(d)' /\ \A s \in Syncs : after[s] > 0 => after'[s] = after[s]
  BY <1>2, <1>3, LastWordByCall, LastWordInWorld
<1>5. ASSUME Notified PROVE status' = "NoTransaction"
  <2>1. Notified'
    BY <1>4, <1>5 DEF Notified
  <2> QED
    BY <1>4, <2>1 DEF LastWord
<1> QED
  BY <1>1, <1>2, <1>3, <1>4, <1>5, LastFates DEF Notified, LastWordInv

LEMMA LastWordInit == Init => LastWordInv
<1> SUFFICES ASSUME Init PROVE LastWordInv
  OBVIOUS
<1>1. /\ ~Notified /\ syncs = << >>
      /\ \A c \in Terminators : pc[c] = "idle"
  BY DEF Init, Notified, Terminators, Calls
<1> QED
  BY <1>1 DEF LastWordInv, LastWord
-----------------------------------------------------------------------------
(***************************************************************************)
(* The theorems.                                                           *)
(***************************************************************************)
(* The invariant behind the answers of a single call, which runs rollback  *)
(* and commit_live also check: its votes, its loops and its answers hold   *)
(* however connections break and deferred triggers fail.                   *)
THEOREM SoloHolds == ASSUME Solo PROVE Spec => []SoloInv
BY SoloInvariant, PTL

(* A commit that returns normally to a caller who asked for heuristics has *)
(* committed every resource it counted, and one that throws                *)
(* TRANSACTION_ROLLEDBACK leaves none committed, although a resource may   *)
(* lose its vote with its connection (Coordinator_impl::commit).           *)
THEOREM CommitAnswersAlone == ASSUME Solo PROVE Spec => []CommitAnswerTrue
BY SoloInvariant, SoloAnswers, PTL

(* The rollback that ends the transaction, when it returns normally, has   *)
(* rolled back every resource it counted, and nothing commits afterwards   *)
(* (Coordinator_impl::rollback).                                           *)
THEOREM RollbackAnswersAlone == ASSUME Solo PROVE Spec => []RollbackAnswerTrue
BY SoloInvariant, SoloAnswers, PTL

(* Short of network failures a call that is over and left the service      *)
(* running leaves no resource it counted with its transaction and its      *)
(* locks open.  (A commit may in a build without throw specifications: it  *)
(* gives up at the first resource that cannot keep its vote.)              *)
THEOREM NothingOpenAlone ==
  ASSUME Solo, Committers = {} \/ ThrowSpecsEnforced PROVE Spec => []NothingLeftOpen
BY SoloInvariant, SoloAnswers, PTL

(* after_completion is the last word of a transaction that nobody ends     *)
(* twice: it comes at most once, in status NoTransaction, and from then on *)
(* nothing is committed and, short of network failures, nothing is left to *)
(* be settled (Coordinator_impl::commit, rollback; a second rollback       *)
(* notifies again).                                                        *)
THEOREM CompletionIsLast == ASSUME Solo PROVE Spec => AfterCompletionIsLast
<1>1. TypeInv /\ TypeInv' /\ SoloInv /\ LastWordInv /\ [Next]_vars => LastWordInv'
  BY LastStep
<1>2. TypeInv /\ TypeInv' /\ SoloInv /\ LastWordInv /\ [Next]_vars =>
         [\A s \in Syncs : after[s] > 0 =>
            /\ after'[s] = after[s]
            /\ status' = "NoTransaction"
            /\ \A r \in Members : res'[r].fate # res[r].fate =>
                  faults > 0 /\ res'[r].fate = "aborted"]_vars
  BY LastStep
<1> QED
  BY <1>1, <1>2, LastWordInit, SoloInvariant, PTL DEF Spec, AfterCompletionIsLast
=============================================================================
