------------------------ MODULE ExecutorInvokerProofs ------------------------
(***************************************************************************)
(* Type correctness and the safety of locks, references and removals, for  *)
(* every number of clients, workers and components: RunTimeInv is kept by  *)
(* every step.                                                             *)
(***************************************************************************)
EXTENDS TransactionPolicyProofs, FiniteSetTheorems

LEMMA SetsOfWorkers ==
  ASSUME NEW S \in SUBSET Workers, NEW T \in SUBSET Workers, NEW w
  PROVE  /\ Cardinality(S) \in Nat
         /\ Cardinality(T) \in Nat
         /\ T \subseteq S => Cardinality(T) <= Cardinality(S)
         /\ T \subseteq S \cup {w} => Cardinality(T) <= Cardinality(S) + 1
         /\ w \in S /\ T \subseteq S \ {w} => Cardinality(T) <= Cardinality(S) - 1
         /\ w \in S => Cardinality(S) >= 1
         /\ S = {} => Cardinality(S) = 0
<1>1. IsFiniteSet(S) /\ IsFiniteSet(T)
  BY ComponentsAssumption, FS_Subset
<1>2. Cardinality(S) \in Nat /\ Cardinality(T) \in Nat
  BY <1>1, FS_CardinalityType
<1>3. T \subseteq S => Cardinality(T) <= Cardinality(S)
  BY <1>1, FS_Subset
<1>4. ASSUME T \subseteq S \cup {w} PROVE Cardinality(T) <= Cardinality(S) + 1
  <2>1. /\ IsFiniteSet(S \cup {w})
        /\ Cardinality(S \cup {w}) \in {Cardinality(S), Cardinality(S) + 1}
    BY <1>1, FS_AddElement
  <2>2. Cardinality(T) <= Cardinality(S \cup {w})
    BY <1>4, <2>1, FS_Subset
  <2> QED
    BY <1>2, <2>1, <2>2
<1>5. ASSUME w \in S
      PROVE  /\ T \subseteq S \ {w} => Cardinality(T) <= Cardinality(S) - 1
             /\ Cardinality(S) >= 1
  <2>1. IsFiniteSet(S \ {w}) /\ Cardinality(S \ {w}) = Cardinality(S) - 1
    BY <1>1, <1>5, FS_RemoveElement
  <2>2. Cardinality(S \ {w}) \in Nat
    BY <2>1, FS_CardinalityType
  <2>3. T \subseteq S \ {w} => Cardinality(T) <= Cardinality(S \ {w})
    BY <2>1, FS_Subset
  <2> QED
    BY <1>2, <2>1, <2>2, <2>3
<1>6. S = {} => Cardinality(S) = 0
  BY FS_EmptySet
<1> QED
  BY <1>2, <1>3, <1>4, <1>5, <1>6

(***************************************************************************)
(* What a step changes of the locks and uses of a worker.                  *)
(***************************************************************************)
SameRequest(v) == Request(v)' = Request(v)

LEMMA SameRequestSame ==
  ASSUME NEW v, SameRequest(v)
  PROVE  /\ Component(v)' = Component(v)
         /\ Operation(v)' = Operation(v)
         /\ IsMain(v)' = IsMain(v)
         /\ IsRemove(v)' = IsRemove(v)
BY DEF SameRequest, Component, Operation, IsMain, IsRemove

LEMMA UnmovedUses ==
  ASSUME NEW v, Unmoved(v)
  PROVE  /\ Locked(v)' = Locked(v)
         /\ \A k : Uses(v, k)' = Uses(v, k) /\ Removing(v, k)' = Removing(v, k)
         /\ Busy(v) => SameRequest(v)
<1>1. Busy(v) => SameRequest(v)
  BY DEF Unmoved, SameRequest, Request
<1>2. CASE Busy(v)
  <2>1. SameRequest(v)
    BY <1>1, <1>2
  <2> QED
    BY <1>1, <2>1, SameRequestSame DEF Unmoved, Locked, Uses, Removing
<1>3. CASE ~Busy(v)
  BY <1>1, <1>3 DEF Unmoved, Busy, Locked, Uses, Removing
<1> QED
  BY <1>2, <1>3

LEMMA OwnUses ==
  ASSUME RequestTypeOK, NEW w \in Workers, WorkerStep(w), ~Receive(w), ~Reply(w)
  PROVE  SameRequest(w)
BY OwnRequest DEF SameRequest, Request

LEMMA ComponentType ==
  ASSUME RequestTypeOK, ServeInv, NEW w \in Workers, Busy(w)
  PROVE  Component(w) \in Compositions
<1>1. Request(w) \in Requests \cup {NoRequest}
  BY DEF ServeInv, RequestTypeOK, Request
<1>2. NoRequest.component = Home
  BY DEF NoRequest
<1> QED
  BY <1>1, <1>2, RequestsAssumption DEF Component, Compositions

(* A request keeps what it has, or has nothing left.                       *)
Narrowed(v) ==
    /\ Locked(v)' => Locked(v) /\ Component(v)' = Component(v)
    /\ \A c \in Components :
          /\ Uses(v, c)' => Uses(v, c) /\ IsMain(v)' = IsMain(v)
          /\ Removing(v, c)' => Removing(v, c)

LEMMA UnmovedNarrowed ==
  ASSUME NEW v, Unmoved(v) PROVE Narrowed(v)
<1>1. Locked(v) \/ (\E k : Uses(v, k)) => Busy(v)
  BY DEF Locked, Uses, Busy
<1> QED
  BY <1>1, UnmovedUses, SameRequestSame DEF Narrowed

LEMMA StepNarrowed ==
  ASSUME RequestTypeOK, ServeInv, NEW w \in Workers, WorkerStep(w),
         ~FindComponent(w), ~LockComposition(w)
  PROVE  Narrowed(w)
<1>1. w \in DOMAIN at
  BY DEF RequestTypeOK
<1>2. CASE Receive(w) \/ Reply(w)
  <2>1. at'[w] \in {"find", "reply", "idle"}
    BY <1>2, ReceiveEffect, ReplyEffect
  <2> QED
    BY <2>1 DEF Narrowed, Locked, Uses, Removing
<1>3. CASE FindHome(w)
  <2>1. Component(w)' = Home /\ at'[w] \in {"lock", "reply"}
    BY <1>1, <1>3, OwnUses, SameRequestSame DEF FindHome, Go, Escape, Receive, Reply
  <2> QED
    BY <2>1, ComponentsAssumption DEF Narrowed, Locked, Uses, Removing
<1>4. CASE ~(Receive(w) \/ Reply(w) \/ FindHome(w))
  <2>1. SameRequest(w)
    BY <1>4, OwnUses
  <2>2. CASE at'[w] \in {"reply", "idle"}
    BY <2>2 DEF Narrowed, Locked, Uses, Removing
  <2>3. CASE at[w] \in {"policy", "body", "made", "afterTxn", "afterRunTime"} /\
             (at'[w] \in {"lock", "policy", "body"} => at[w] \in {"policy", "body"})
    BY <2>1, <2>3, SameRequestSame DEF Narrowed, Locked, Uses, Removing
  <2>4. CASE ApplyPolicy(w) \/ AfterTxn(w) \/ AfterRunTime(w)
    BY <1>1, <2>2, <2>3, <2>4 DEF ApplyPolicy, AfterTxn, AfterRunTime, Go, Escape
  <2>5. CASE EndOperation(w) \/ CreateReference(w) \/ EnterComponent(w) \/ RemoveComponent(w)
    BY <1>1, <2>2, <2>3, <2>5 DEF EndOperation, CreateReference, EnterComponent,
       RemoveComponent, InBody, Go
  <2>6. CASE UseTransaction(w)
    BY <1>1, <2>2, <2>3, <2>6 DEF UseTransaction, SetRollbackOnly, UserBegin, UserCommit,
       UserRollback, SelfManaged, InBody, OtherThanSlot
  <2> QED
    BY <1>4, <2>4, <2>5, <2>6 DEF WorkerStep, Serve
<1> QED
  BY <1>2, <1>3, <1>4

(* Every step but the two that find and lock narrows everything.           *)
LEMMA AllNarrowed ==
  ASSUME RequestTypeOK, ServeInv, [Next]_vars,
         \A w \in Workers : ~FindComponent(w) /\ ~LockComposition(w)
  PROVE  \A v \in Workers : Narrowed(v)
BY StepCases, ClientsMoveNoWorker, RestMovesNoWorker, Bystanders, UnmovedNarrowed,
   StepNarrowed

(***************************************************************************)
(* The locks.                                                              *)
(***************************************************************************)
LockTypes == owner \in [Compositions -> Workers \cup {Nobody}] /\ depth \in [Compositions -> Nat]

LEMMA LockSteps ==
  ASSUME [Next]_vars,
         \A w \in Workers : ~LockComposition(w) /\ ~AfterRunTime(w)
  PROVE  UNCHANGED <<owner, depth>>
<1>1. ASSUME NEW c \in Clients, ClientStep(c) PROVE UNCHANGED lockVars
  BY <1>1 DEF ClientStep, ClientBegin, ClientCommit, ClientRollback, Call, ReceiveReply,
     runTimeVars
<1>2. ASSUME NEW w \in Workers, WorkerStep(w) PROVE UNCHANGED lockVars
  <2>1. CASE Receive(w) \/ FindComponent(w) \/ FindHome(w) \/ ApplyPolicy(w)
    BY <2>1 DEF Receive, FindComponent, FindHome, ApplyPolicy, runTimeVars
  <2>2. CASE EndOperation(w) \/ CreateReference(w) \/ EnterComponent(w)
    BY <2>2 DEF EndOperation, CreateReference, EnterComponent, runTimeVars
  <2>3. CASE RemoveComponent(w) \/ AfterTxn(w) \/ Reply(w)
    BY <2>3 DEF RemoveComponent, AfterTxn, Reply, runTimeVars
  <2>4. CASE UseTransaction(w)
    BY <2>4 DEF UseTransaction, SetRollbackOnly, UserBegin, UserCommit, UserRollback,
       OtherThanSlot, runTimeVars
  <2> QED
    BY <1>2, <2>1, <2>2, <2>3, <2>4 DEF WorkerStep, Serve
<1>3. Rest => UNCHANGED lockVars
  BY DEF Rest, AskRemoval, RemoveHome, Removal, EnterPool, CleanNext, CleanRemoves,
     CleanEnds, UnregisterHome, DestroyPoas, Join, vars, runTimeVars
<1> QED
  BY <1>1, <1>2, <1>3, StepCases DEF lockVars

LEMMA LocksKept ==
  ASSUME RequestTypeOK, ServeInv, LockTypes, LockInv, [Next]_vars
  PROVE  LockTypes' /\ LockInv'
<1>1. ASSUME NEW w \in Workers, LockComposition(w) PROVE LockTypes' /\ LockInv'
  <2> DEFINE k == Component(w)
  <2>1. /\ at[w] = "lock" /\ Busy(w) /\ SameRequest(w)
        /\ Component(w)' = k /\ Operation(w)' = Operation(w)
    BY <1>1, OwnUses, SameRequestSame
    DEF LockComposition, Busy, WorkerStep, Serve, Receive, Reply
  <2>2. \A v \in Workers \ {w} : Locked(v)' = Locked(v) /\
           (Locked(v) => Component(v)' = Component(v))
    <3>1. \A v \in Workers \ {w} : Unmoved(v)
      BY <1>1, Bystanders DEF WorkerStep, Serve
    <3>2. \A v : Locked(v) => Busy(v)
      BY DEF Locked, Busy
    <3> QED
      BY <3>1, <3>2, UnmovedUses, SameRequestSame
  <2>3. k \in Compositions
    BY <2>1, ComponentType
  <2> HIDE DEF k
  <2>4. CASE LockedOperation(Operation(w))
    <3>1. Lock(k, w)
      BY <1>1, <2>4 DEF LockComposition, k
    <3>2. /\ owner' = [owner EXCEPT ![k] = w] /\ depth' = [depth EXCEPT ![k] = @ + 1]
          /\ owner[k] \in {Nobody, w}
      BY <3>1 DEF Lock
    <3>3. LockTypes'
      BY <2>3, <3>2 DEF LockTypes
    <3>4. \A j \in Compositions : owner'[j] = Nobody <=> depth'[j] = 0
      <4>1. depth[k] + 1 # 0 /\ w # Nobody
        BY <2>3, ComponentsAssumption DEF LockTypes
      <4> QED
        BY <2>3, <3>2, <4>1 DEF LockTypes, LockInv
    <3>5. \A v \in Workers : Locked(v)' => owner'[Component(v)'] = v
      <4> SUFFICES ASSUME NEW v \in Workers, Locked(v)' PROVE owner'[Component(v)'] = v
        OBVIOUS
      <4>1. CASE v = w
        BY <2>1, <2>3, <3>2, <4>1 DEF LockTypes
      <4>2. CASE v # w
        <5>1. Locked(v) /\ Component(v)' = Component(v) /\ owner[Component(v)] = v
          BY <2>2, <4>2 DEF LockInv
        <5>2. Component(v) # k
          BY <3>2, <4>2, <5>1, ComponentsAssumption
        <5>3. Component(v) \in Compositions
          BY <5>1, ComponentType DEF Locked, Busy
        <5> QED
          BY <3>2, <5>1, <5>2, <5>3 DEF LockTypes
      <4> QED
        BY <4>1, <4>2
    <3> QED
      BY <3>3, <3>4, <3>5 DEF LockInv
  <2>5. CASE ~LockedOperation(Operation(w))
    <3>1. UNCHANGED <<owner, depth>>
      BY <1>1, <2>5 DEF LockComposition, lockVars
    <3>2. ~Locked(w)'
      BY <2>1, <2>5 DEF Locked, LockedOperation
    <3> QED
      BY <2>2, <3>1, <3>2 DEF LockTypes, LockInv
  <2> QED
    BY <2>4, <2>5
<1>2. ASSUME NEW w \in Workers, AfterRunTime(w) PROVE LockTypes' /\ LockInv'
  <2> DEFINE k == Component(w)
  <2>1. at[w] = "afterRunTime" /\ Busy(w) /\ ~Locked(w)'
    BY <1>2 DEF AfterRunTime, Busy, Go, Locked, RequestTypeOK
  <2>2. \A v \in Workers \ {w} : Locked(v)' = Locked(v) /\
           (Locked(v) => Component(v)' = Component(v))
    <3>1. \A v \in Workers \ {w} : Unmoved(v)
      BY <1>2, Bystanders DEF WorkerStep, Serve
    <3>2. \A v : Locked(v) => Busy(v)
      BY DEF Locked, Busy
    <3> QED
      BY <3>1, <3>2, UnmovedUses, SameRequestSame
  <2>3. k \in Compositions
    BY <2>1, ComponentType
  <2> HIDE DEF k
  <2>4. CASE LockedOperation(Operation(w))
    <3>1. owner[k] = w
      BY <2>1, <2>4 DEF LockInv, Locked, k
    <3>2. /\ depth' = [depth EXCEPT ![k] = @ - 1]
          /\ owner' = [owner EXCEPT ![k] = IF depth[k] = 1 THEN Nobody ELSE @]
      BY <1>2, <2>4 DEF AfterRunTime, Unlock, k
    <3>3. depth[k] \in Nat /\ depth[k] # 0
      BY <2>3, <3>1, ComponentsAssumption DEF LockInv, LockTypes
    <3>4. LockTypes'
      BY <2>3, <3>2, <3>3 DEF LockTypes
    <3>5. \A j \in Compositions : owner'[j] = Nobody <=> depth'[j] = 0
      <4>1. depth[k] = 1 <=> depth[k] - 1 = 0
        BY <3>3
      <4> QED
        BY <2>3, <3>1, <3>2, <3>3, <4>1, ComponentsAssumption DEF LockTypes, LockInv
    <3>6. \A v \in Workers : Locked(v)' => owner'[Component(v)'] = v
      <4> SUFFICES ASSUME NEW v \in Workers, Locked(v)' PROVE owner'[Component(v)'] = v
        OBVIOUS
      <4>1. v # w
        BY <2>1
      <4>2. Locked(v) /\ Component(v)' = Component(v) /\ owner[Component(v)] = v
        BY <2>2, <4>1 DEF LockInv
      <4>3. Component(v) # k /\ Component(v) \in Compositions
        BY <3>1, <4>1, <4>2, ComponentType DEF Locked, Busy
      <4> QED
        BY <3>2, <4>2, <4>3 DEF LockTypes
    <3> QED
      BY <3>4, <3>5, <3>6 DEF LockInv
  <2>5. CASE ~LockedOperation(Operation(w))
    <3>1. UNCHANGED <<owner, depth>>
      BY <1>2, <2>5 DEF AfterRunTime, lockVars
    <3> QED
      BY <2>1, <2>2, <3>1 DEF LockTypes, LockInv
  <2> QED
    BY <2>4, <2>5
<1>3. CASE \A w \in Workers : ~LockComposition(w) /\ ~AfterRunTime(w)
  <2>1. UNCHANGED <<owner, depth>>
    BY <1>3, LockSteps
  <2>2. \A v \in Workers : Locked(v)' => Locked(v) /\ Component(v)' = Component(v)
    <3>1. CASE \A w \in Workers : ~FindComponent(w)
      BY <1>3, <3>1, AllNarrowed DEF Narrowed
    <3>2. ASSUME NEW w \in Workers, FindComponent(w), NEW v \in Workers, Locked(v)'
          PROVE  Locked(v) /\ Component(v)' = Component(v)
      <4>1. v # w
        BY <3>2 DEF FindComponent, Go, Escape, Locked, RequestTypeOK
      <4>2. Unmoved(v)
        BY <3>2, <4>1, Bystanders DEF WorkerStep, Serve
      <4> QED
        BY <3>2, <4>2, UnmovedNarrowed DEF Narrowed
    <3> QED
      BY <3>1, <3>2
  <2> QED
    BY <2>1, <2>2 DEF LockTypes, LockInv
<1> QED
  BY <1>1, <1>2, <1>3

(***************************************************************************)
(* The references and the removals.                                        *)
(***************************************************************************)
PoolTypes ==
    /\ created \subseteq Components
    /\ pool \subseteq created
    /\ servantRefs \in [Components -> Nat]
    /\ compositionRefs \in [Components -> Nat]
    /\ removals \in [Components -> Nat]
    /\ destroy \in BOOLEAN
    /\ closing \in ClosingPlace
    /\ victim \in Components \cup {Home}

PoolInv == PoolTypes /\ RefsInv /\ RemovalInv

(* A component of which nothing changes.                                   *)
Alone(c) ==
    /\ compositionRefs'[c] = compositionRefs[c]
    /\ servantRefs'[c] = servantRefs[c]
    /\ removals'[c] = removals[c]
    /\ (c \in created') = (c \in created)
    /\ Kept(c)' = Kept(c)
    /\ \A w \in Workers :
          /\ Uses(w, c)' => Uses(w, c) /\ IsMain(w)' = IsMain(w)
          /\ Removing(w, c)' => Removing(w, c)

LEMMA AloneKept ==
  ASSUME PoolInv, NEW c \in Components, Alone(c)
  PROVE  RefsOK(c)' /\ RemovalOK(c)'
<1>1. RefsOK(c) /\ RemovalOK(c)
  BY DEF PoolInv, RefsInv, RemovalInv
<1>2. /\ Users(c) \in SUBSET Workers /\ Users(c)' \in SUBSET Workers
      /\ MainUsers(c) \in SUBSET Workers /\ MainUsers(c)' \in SUBSET Workers
      /\ Users(c)' \subseteq Users(c) /\ MainUsers(c)' \subseteq MainUsers(c)
  BY DEF Users, MainUsers, Alone
<1>3. /\ Cardinality(Users(c)) \in Nat /\ Cardinality(Users(c)') \in Nat
      /\ Cardinality(MainUsers(c)) \in Nat /\ Cardinality(MainUsers(c)') \in Nat
      /\ Cardinality(Users(c)') <= Cardinality(Users(c))
      /\ Cardinality(MainUsers(c)') <= Cardinality(MainUsers(c))
  BY <1>2, SetsOfWorkers
<1>4. compositionRefs[c] \in Nat /\ servantRefs[c] \in Nat /\ removals[c] \in Nat
  BY DEF PoolInv, PoolTypes
<1>5. RefsOK(c)'
  <2>1. compositionRefs'[c] >= Cardinality(Users(c)') + (IF Kept(c)' THEN 1 ELSE 0)
    BY <1>1, <1>3, <1>4 DEF RefsOK, Alone
  <2>2. c \in created' => servantRefs'[c] + removals'[c] >= Cardinality(MainUsers(c)') + 1
    BY <1>1, <1>3, <1>4 DEF RefsOK, Alone
  <2>3. c \notin created' => removals'[c] = 0 /\ Users(c)' = {}
    BY <1>1, <1>2 DEF RefsOK, Alone
  <2> QED
    BY <2>1, <2>2, <2>3 DEF RefsOK
<1>6. RemovalOK(c)'
  BY <1>1 DEF RemovalOK, Alone
<1> QED
  BY <1>5, <1>6

LEMMA AllAlone ==
  ASSUME PoolInv, \A c \in Components : Alone(c)
  PROVE  RefsInv' /\ \A c \in Components : RemovalOK(c)'
BY AloneKept DEF RefsInv

LEMMA PoolSteps ==
  ASSUME [Next]_vars,
         \A w \in Workers : /\ ~FindComponent(w) /\ ~EnterComponent(w)
                            /\ ~RemoveComponent(w) /\ ~AfterRunTime(w),
         ~(Removal /\ (CleanNext \/ CleanRemoves))
  PROVE  /\ UNCHANGED <<created, pool, servantRefs, compositionRefs, removals, victim>>
         /\ closing' = "removing" <=> closing = "removing"
         /\ closing' \in ClosingPlace \cup {closing}
         /\ destroy' \in {TRUE, destroy}
<1>1. ASSUME NEW c \in Clients, ClientStep(c) PROVE UNCHANGED <<poolVars, closeVars>>
  BY <1>1 DEF ClientStep, ClientBegin, ClientCommit, ClientRollback, Call, ReceiveReply,
     runTimeVars
<1>2. ASSUME NEW w \in Workers, WorkerStep(w) PROVE UNCHANGED <<poolVars, closeVars>>
  <2>1. CASE Receive(w) \/ FindHome(w) \/ LockComposition(w) \/ ApplyPolicy(w)
    BY <2>1 DEF Receive, FindHome, LockComposition, ApplyPolicy, runTimeVars
  <2>2. CASE EndOperation(w) \/ CreateReference(w) \/ AfterTxn(w) \/ Reply(w)
    BY <2>2 DEF EndOperation, CreateReference, AfterTxn, Reply, runTimeVars
  <2>3. CASE UseTransaction(w)
    BY <2>3 DEF UseTransaction, SetRollbackOnly, UserBegin, UserCommit, UserRollback,
       OtherThanSlot, runTimeVars
  <2> QED
    BY <1>2, <2>1, <2>2, <2>3 DEF WorkerStep, Serve
<1>3. Rest => /\ UNCHANGED <<created, pool, servantRefs, compositionRefs, removals, victim>>
              /\ closing' = "removing" <=> closing = "removing"
              /\ closing' \in ClosingPlace \cup {closing}
              /\ destroy' \in {TRUE, destroy}
  BY DEF Rest, AskRemoval, RemoveHome, Removal, EnterPool, CleanEnds, UnregisterHome,
     DestroyPoas, Join, vars, runTimeVars, poolVars, closeVars, ClosingPlace
<1> QED
  BY <1>1, <1>2, <1>3, StepCases DEF poolVars, closeVars

LEMMA FindKeeps ==
  ASSUME RequestTypeOK, ServeInv, PoolInv, NEW w \in Workers, FindComponent(w)
  PROVE  PoolInv'
<1>1. /\ at[w] = "find" /\ Busy(w) /\ SameRequest(w) /\ at'[w] \in {"lock", "reply"}
      /\ Component(w)' = Component(w) /\ IsMain(w)' = IsMain(w)
      /\ IsRemove(w)' = IsRemove(w) /\ Component(w) # Home
  BY OwnUses, SameRequestSame
  DEF FindComponent, Busy, WorkerStep, Serve, Receive, Reply, Go, Escape, RequestTypeOK
<1>2. PICK k \in Components : k = Component(w)
  BY <1>1, ComponentType DEF Compositions
<1>3. \A v \in Workers \ {w} : Unmoved(v)
  BY Bystanders DEF WorkerStep, Serve
<1>4. \A v \in Workers \ {w} : \A c :
        /\ Uses(v, c)' = Uses(v, c)
        /\ Uses(v, c) => IsMain(v)' = IsMain(v)
        /\ Removing(v, c)' = Removing(v, c)
  <2>1. \A v, c : Uses(v, c) => Busy(v)
    BY DEF Uses, Busy
  <2> QED
    BY <1>3, <2>1, UnmovedUses, SameRequestSame
<1>5. \A c : ~Uses(w, c) /\ ~Removing(w, c)
  BY <1>1 DEF Uses, Removing
<1>6. UNCHANGED closeVars
  BY DEF FindComponent
<1>7. CASE at'[w] = "reply"
  <2>1. UNCHANGED poolVars
    BY <1>1, <1>7 DEF FindComponent, Go, RequestTypeOK
  <2>2. \A c : ~Uses(w, c)' /\ ~Removing(w, c)'
    BY <1>7 DEF Uses, Removing
  <2>3. \A c \in Components : Alone(c)
    BY <1>4, <1>6, <2>1, <2>2 DEF Alone, poolVars, closeVars, Kept
  <2> QED
    BY <1>6, <2>1, <2>3, AllAlone DEF PoolInv, PoolTypes, RemovalInv, poolVars, closeVars
<1>8. CASE at'[w] = "lock"
  <2>1. GetServant(k, IsMain(w), Operation(w))
    BY <1>1, <1>2, <1>8 DEF FindComponent, Go, Escape, RequestTypeOK
  <2>2. IsRemove(w) <=> IsMain(w) /\ Operation(w) = "remove"
    BY <1>1 DEF IsRemove
  <2> DEFINE taken == IsRemove(w)
             main == IsMain(w)
  <2>3. /\ k \in pool /\ created' = created /\ removals' = removals
        /\ servantRefs' = IF main THEN [servantRefs EXCEPT ![k] = @ + 1] ELSE servantRefs
        /\ compositionRefs' =
             [compositionRefs EXCEPT ![k] = IF taken THEN @ ELSE @ + 1]
        /\ pool' = IF taken THEN pool \ {k} ELSE pool
    BY <2>1, <2>2 DEF GetServant
  <2>4. /\ Uses(w, k)' /\ \A c \in Components \ {k} : ~Uses(w, c)' /\ ~Removing(w, c)'
        /\ Removing(w, k)' <=> taken
    BY <1>1, <1>2, <1>8 DEF Uses, Removing
  <2>5. k \in created /\ k # victim /\ RefsOK(k) /\ RemovalOK(k) /\ Kept(k)
    BY <1>2, <2>3 DEF PoolInv, PoolTypes, RefsInv, RemovalInv, Kept
  <2>6. compositionRefs[k] \in Nat /\ servantRefs[k] \in Nat /\ removals[k] \in Nat
    BY <1>2 DEF PoolInv, PoolTypes
  <2>7. victim' = victim /\ closing' = closing /\ destroy' = destroy
    BY <1>6 DEF closeVars
  <2>8. PoolTypes'
    BY <1>2, <2>3, <2>6, <2>7 DEF PoolInv, PoolTypes
  <2>9. \A c \in Components \ {k} : Alone(c)
    BY <1>2, <1>4, <1>5, <2>3, <2>4, <2>7 DEF Alone, Kept, PoolInv, PoolTypes
  <2>10. RefsOK(k)'
    <3>1. /\ Users(k) \in SUBSET Workers /\ Users(k)' \in SUBSET Workers
          /\ MainUsers(k) \in SUBSET Workers /\ MainUsers(k)' \in SUBSET Workers
          /\ Users(k)' \subseteq Users(k) \cup {w}
          /\ MainUsers(k)' \subseteq MainUsers(k) \cup {w}
          /\ ~main => MainUsers(k)' \subseteq MainUsers(k)
      BY <1>1, <1>4 DEF Users, MainUsers
    <3>2. /\ Cardinality(Users(k)) \in Nat /\ Cardinality(Users(k)') \in Nat
          /\ Cardinality(MainUsers(k)) \in Nat /\ Cardinality(MainUsers(k)') \in Nat
          /\ Cardinality(Users(k)') <= Cardinality(Users(k)) + 1
          /\ Cardinality(MainUsers(k)') <= Cardinality(MainUsers(k)) + 1
          /\ ~main => Cardinality(MainUsers(k)') <= Cardinality(MainUsers(k))
      BY <3>1, SetsOfWorkers
    <3>3. Kept(k)' <=> ~taken
      BY <2>3, <2>5, <2>7 DEF Kept
    <3>4. /\ compositionRefs'[k] = IF taken THEN compositionRefs[k] ELSE compositionRefs[k] + 1
          /\ servantRefs'[k] = IF main THEN servantRefs[k] + 1 ELSE servantRefs[k]
          /\ removals'[k] = removals[k]
      BY <1>2, <2>3 DEF PoolInv, PoolTypes
    <3>5. /\ compositionRefs[k] >= Cardinality(Users(k)) + 1
          /\ servantRefs[k] + removals[k] >= Cardinality(MainUsers(k)) + 1
      BY <2>5 DEF RefsOK
    <3>6. compositionRefs'[k] >= Cardinality(Users(k)') + (IF Kept(k)' THEN 1 ELSE 0)
      BY <2>6, <3>2, <3>3, <3>4, <3>5
    <3>7. servantRefs'[k] + removals'[k] >= Cardinality(MainUsers(k)') + 1
      BY <2>6, <3>2, <3>4, <3>5
    <3> QED
      BY <2>3, <2>5, <3>6, <3>7 DEF RefsOK
  <2>11. RemovalOK(k)'
    <3>1. \A v \in Workers : ~Removing(v, k)
      BY <2>5 DEF RemovalOK
    <3>2. Kept(k)' => ~taken
      BY <2>3, <2>5, <2>7 DEF Kept
    <3>3. \A v \in Workers : Removing(v, k)' => v = w /\ taken
      BY <1>4, <2>4, <3>1
    <3>4. removals'[k] = 0
      BY <2>3, <2>5 DEF RemovalOK
    <3> QED
      BY <3>2, <3>3, <3>4 DEF RemovalOK
  <2>12. RefsInv' /\ \A c \in Components : RemovalOK(c)'
    BY <2>9, <2>10, <2>11, AloneKept DEF RefsInv
  <2> QED
    BY <2>3, <2>7, <2>8, <2>12 DEF PoolInv, RemovalInv
<1> QED
  BY <1>1, <1>7, <1>8

(* What the other workers do, and w if it does not touch component k.      *)
LEMMA OthersNarrowed ==
  ASSUME RequestTypeOK, ServeInv, NEW w \in Workers, WorkerStep(w),
         ~FindComponent(w), ~LockComposition(w)
  PROVE  \A v \in Workers : Narrowed(v)
BY Bystanders, UnmovedNarrowed, StepNarrowed

LEMMA EnterKeeps ==
  ASSUME RequestTypeOK, ServeInv, PoolInv, NEW w \in Workers, EnterComponent(w)
  PROVE  PoolInv'
<1>1. PICK k \in Components : AddComponent(k)
  BY DEF EnterComponent
<1>2. /\ k \notin created /\ created' = created \cup {k} /\ pool' = pool \cup {k}
      /\ servantRefs' = [servantRefs EXCEPT ![k] = 1]
      /\ compositionRefs' = [compositionRefs EXCEPT ![k] = 1]
      /\ removals' = removals
  BY <1>1 DEF AddComponent
<1>3. victim' = victim /\ closing' = closing /\ destroy' = destroy
  BY DEF EnterComponent, closeVars
<1>4. \A v \in Workers : Narrowed(v)
  BY OthersNarrowed DEF WorkerStep, Serve, EnterComponent, FindComponent, LockComposition
<1>5. PoolTypes'
  BY <1>2, <1>3 DEF PoolInv, PoolTypes
<1>6. victim # k /\ k \notin pool
  BY <1>2, ComponentsAssumption DEF PoolInv, PoolTypes, RemovalInv
<1>7. \A c \in Components \ {k} : Alone(c)
  BY <1>2, <1>3, <1>4 DEF Alone, Kept, Narrowed, PoolInv, PoolTypes
<1>8. Users(k) = {} /\ removals[k] = 0
  BY <1>2 DEF PoolInv, RefsInv, RefsOK
<1>9. \A v \in Workers : ~Uses(v, k)' /\ ~Removing(v, k)'
  <2>1. \A v \in Workers : Removing(v, k)' => Uses(v, k)'
    BY DEF Removing, Uses
  <2>2. \A v \in Workers : ~Uses(v, k)
    BY <1>8 DEF Users
  <2> QED
    BY <1>4, <2>1, <2>2 DEF Narrowed
<1>10. Users(k)' = {} /\ MainUsers(k)' = {}
  BY <1>9 DEF Users, MainUsers
<1>11. RefsOK(k)'
  <2>1. Cardinality(Users(k)') = 0 /\ Cardinality(MainUsers(k)') = 0
    BY <1>10, SetsOfWorkers
  <2>2. compositionRefs'[k] = 1 /\ servantRefs'[k] = 1 /\ removals'[k] = 0
    BY <1>2, <1>8 DEF PoolInv, PoolTypes
  <2> QED
    BY <1>2, <2>1, <2>2 DEF RefsOK
<1>12. RemovalOK(k)'
  BY <1>2, <1>8, <1>9 DEF RemovalOK
<1>13. RefsInv' /\ \A c \in Components : RemovalOK(c)'
  BY <1>7, <1>11, <1>12, AloneKept DEF RefsInv
<1> QED
  BY <1>2, <1>3, <1>5, <1>6, <1>13 DEF PoolInv, RemovalInv

(* remove of the main servant, once more than before.                      *)
LEMMA RemovedTypes ==
  ASSUME PoolInv, NEW k \in created, removals[k] = 0, ServantRemoved(k)
  PROVE  /\ servantRefs[k] >= 1
         /\ servantRefs' \in [Components -> Nat]
         /\ removals' \in [Components -> Nat]
         /\ removals'[k] = 1
         /\ servantRefs'[k] + removals'[k] = servantRefs[k] + removals[k]
         /\ \A c \in Components \ {k} :
               removals'[c] = removals[c] /\ servantRefs'[c] = servantRefs[c]
<1>1. /\ k \in Components /\ RefsOK(k)
      /\ servantRefs \in [Components -> Nat] /\ removals \in [Components -> Nat]
  BY DEF PoolInv, PoolTypes, RefsInv
<1>2. Cardinality(MainUsers(k)) \in Nat
  BY SetsOfWorkers DEF MainUsers
<1>3. servantRefs[k] >= 1
  BY <1>1, <1>2 DEF RefsOK
<1>4. servantRefs[k] - 1 \in Nat
  BY <1>1, <1>3
<1> QED
  BY <1>1, <1>3, <1>4 DEF ServantRemoved

LEMMA RemoveKeeps ==
  ASSUME RequestTypeOK, ServeInv, PoolInv, NEW w \in Workers, RemoveComponent(w)
  PROVE  PoolInv'
<1>1. /\ at[w] = "body" /\ at'[w] = "afterTxn" /\ Busy(w) /\ IsRemove(w)
      /\ Component(w) # Home
  BY DEF RemoveComponent, InBody, Go, Busy, IsRemove, RequestTypeOK
<1>2. PICK k \in Components : k = Component(w)
  BY <1>1, ComponentType DEF Compositions
<1>3. /\ UNCHANGED <<created, pool, compositionRefs, victim, closing, destroy>>
      /\ ServantRemoved(k) \/ UNCHANGED <<servantRefs, removals>>
  BY <1>2 DEF RemoveComponent, closeVars
<1>4. \A v \in Workers : Narrowed(v)
  BY <1>1, OthersNarrowed DEF WorkerStep, Serve, FindComponent, LockComposition
<1>5. Uses(w, k) /\ Removing(w, k) /\ \A c : ~Removing(w, c)'
  BY <1>1, <1>2 DEF Uses, Removing
<1>6. RefsOK(k) /\ RemovalOK(k)
  BY DEF PoolInv, RefsInv, RemovalInv
<1>7. /\ k \in created /\ removals[k] = 0 /\ ~Kept(k)
      /\ \A v \in Workers : Removing(v, k) => v = w
  BY <1>5, <1>6 DEF RefsOK, RemovalOK, Users
<1>8. \A v \in Workers : ~Removing(v, k)'
  BY <1>4, <1>5, <1>7 DEF Narrowed
<1>9. CASE UNCHANGED <<servantRefs, removals>>
  <2>1. \A c \in Components : Alone(c)
    BY <1>3, <1>4, <1>9 DEF Alone, Kept, Narrowed
  <2> QED
    BY <1>3, <1>9, <2>1, AllAlone DEF PoolInv, PoolTypes, RemovalInv
<1>10. CASE ServantRemoved(k)
  <2>1. /\ servantRefs' \in [Components -> Nat] /\ removals' \in [Components -> Nat]
        /\ removals'[k] = 1
        /\ servantRefs'[k] + removals'[k] = servantRefs[k] + removals[k]
        /\ \A c \in Components \ {k} :
              removals'[c] = removals[c] /\ servantRefs'[c] = servantRefs[c]
    BY <1>7, <1>10, RemovedTypes
  <2>2. \A c \in Components \ {k} : Alone(c)
    BY <1>3, <1>4, <2>1 DEF Alone, Kept, Narrowed
  <2>3. /\ Users(k) \in SUBSET Workers /\ Users(k)' \in SUBSET Workers
        /\ MainUsers(k) \in SUBSET Workers /\ MainUsers(k)' \in SUBSET Workers
        /\ Users(k)' \subseteq Users(k) /\ MainUsers(k)' \subseteq MainUsers(k)
    BY <1>4 DEF Users, MainUsers, Narrowed
  <2>4. /\ Cardinality(Users(k)) \in Nat /\ Cardinality(Users(k)') \in Nat
        /\ Cardinality(MainUsers(k)) \in Nat /\ Cardinality(MainUsers(k)') \in Nat
        /\ Cardinality(Users(k)') <= Cardinality(Users(k))
        /\ Cardinality(MainUsers(k)') <= Cardinality(MainUsers(k))
    BY <2>3, SetsOfWorkers
  <2>5. ~Kept(k)'
    BY <1>3, <1>7 DEF Kept
  <2>6. RefsOK(k)'
    <3>1. servantRefs[k] \in Nat /\ removals[k] \in Nat /\ compositionRefs[k] \in Nat
      BY DEF PoolInv, PoolTypes
    <3>2. compositionRefs'[k] >= Cardinality(Users(k)')
      BY <1>3, <1>6, <2>4, <3>1 DEF RefsOK
    <3>3. servantRefs'[k] + removals'[k] >= Cardinality(MainUsers(k)') + 1
      BY <1>6, <1>7, <2>1, <2>4, <3>1 DEF RefsOK
    <3> QED
      BY <1>3, <1>7, <2>4, <2>5, <3>2, <3>3 DEF RefsOK
  <2>7. RemovalOK(k)'
    BY <1>8, <2>1, <2>5 DEF RemovalOK
  <2>8. RefsInv' /\ \A c \in Components : RemovalOK(c)'
    BY <2>2, <2>6, <2>7, AloneKept DEF RefsInv
  <2> QED
    BY <1>3, <2>1, <2>8 DEF PoolInv, PoolTypes, RemovalInv
<1> QED
  BY <1>3, <1>9, <1>10

LEMMA ReleaseKeeps ==
  ASSUME RequestTypeOK, ServeInv, PoolInv, NEW w \in Workers, AfterRunTime(w)
  PROVE  PoolInv'
<1>1. at[w] = "afterRunTime" /\ at'[w] = "reply" /\ Busy(w)
  BY DEF AfterRunTime, Go, Busy, RequestTypeOK
<1>2. \A v \in Workers : Narrowed(v)
  BY <1>1, OthersNarrowed DEF WorkerStep, Serve, FindComponent, LockComposition
<1>3. \A c : ~Uses(w, c)' /\ ~Removing(w, c)'
  BY <1>1 DEF Uses, Removing
<1>4. victim' = victim /\ closing' = closing /\ destroy' = destroy
  BY DEF AfterRunTime, closeVars
<1>5. CASE Component(w) = Home
  <2>1. UNCHANGED poolVars
    BY <1>5 DEF AfterRunTime
  <2>2. \A c \in Components : Alone(c)
    BY <1>2, <1>4, <2>1 DEF Alone, Kept, Narrowed, poolVars
  <2> QED
    BY <1>4, <2>1, <2>2, AllAlone DEF PoolInv, PoolTypes, RemovalInv, poolVars
<1>6. CASE Component(w) # Home
  <2>1. PICK k \in Components : k = Component(w)
    BY <1>1, <1>6, ComponentType DEF Compositions
  <2> DEFINE main == IsMain(w)
  <2>2. /\ UNCHANGED <<created, pool, removals>>
        /\ servantRefs' = IF main THEN [servantRefs EXCEPT ![k] = @ - 1] ELSE servantRefs
        /\ compositionRefs' = [compositionRefs EXCEPT ![k] = @ - 1]
    BY <1>6, <2>1 DEF AfterRunTime, Release
  <2>3. RefsOK(k) /\ RemovalOK(k)
    BY DEF PoolInv, RefsInv, RemovalInv
  <2>4. w \in Users(k) /\ (main => w \in MainUsers(k))
    BY <1>1, <2>1 DEF Users, MainUsers, Uses
  <2>5. /\ Users(k) \in SUBSET Workers /\ Users(k)' \in SUBSET Workers
        /\ MainUsers(k) \in SUBSET Workers /\ MainUsers(k)' \in SUBSET Workers
        /\ Users(k)' \subseteq Users(k) \ {w}
        /\ MainUsers(k)' \subseteq MainUsers(k) \ {w}
        /\ MainUsers(k)' \subseteq MainUsers(k)
    BY <1>2, <1>3 DEF Users, MainUsers, Narrowed
  <2>6. /\ Cardinality(Users(k)) \in Nat /\ Cardinality(Users(k)') \in Nat
        /\ Cardinality(MainUsers(k)) \in Nat /\ Cardinality(MainUsers(k)') \in Nat
        /\ Cardinality(Users(k)') <= Cardinality(Users(k)) - 1
        /\ Cardinality(Users(k)) >= 1
        /\ main => /\ Cardinality(MainUsers(k)') <= Cardinality(MainUsers(k)) - 1
                   /\ Cardinality(MainUsers(k)) >= 1
        /\ Cardinality(MainUsers(k)') <= Cardinality(MainUsers(k))
    BY <2>4, <2>5, SetsOfWorkers
  <2>7. compositionRefs[k] \in Nat /\ servantRefs[k] \in Nat /\ removals[k] \in Nat
    BY DEF PoolInv, PoolTypes
  <2>8. k \in created
    BY <2>3, <2>4 DEF RefsOK
  <2>9. /\ compositionRefs[k] - 1 \in Nat
        /\ main => servantRefs[k] - 1 \in Nat
    <3>1. compositionRefs[k] >= Cardinality(Users(k)) + (IF Kept(k) THEN 1 ELSE 0)
      BY <2>3 DEF RefsOK
    <3>2. servantRefs[k] + removals[k] >= Cardinality(MainUsers(k)) + 1
      BY <2>3, <2>8 DEF RefsOK
    <3>3. removals[k] <= 1
      BY <2>3 DEF RemovalOK
    <3> QED
      BY <2>6, <2>7, <3>1, <3>2, <3>3
  <2>10. PoolTypes'
    BY <1>4, <2>2, <2>9 DEF PoolInv, PoolTypes
  <2>11. \A c \in Components \ {k} : Alone(c)
    BY <1>2, <1>4, <2>2 DEF Alone, Kept, Narrowed, PoolInv, PoolTypes
  <2>12. RefsOK(k)'
    <3>1. /\ compositionRefs'[k] = compositionRefs[k] - 1
          /\ servantRefs'[k] = IF main THEN servantRefs[k] - 1 ELSE servantRefs[k]
          /\ removals'[k] = removals[k]
      BY <2>2 DEF PoolInv, PoolTypes
    <3>2. Kept(k)' <=> Kept(k)
      BY <1>4, <2>2 DEF Kept
    <3>3. compositionRefs'[k] >= Cardinality(Users(k)') + (IF Kept(k)' THEN 1 ELSE 0)
      BY <2>3, <2>6, <2>7, <3>1, <3>2 DEF RefsOK
    <3>4. servantRefs'[k] + removals'[k] >= Cardinality(MainUsers(k)') + 1
      BY <2>3, <2>6, <2>7, <2>8, <3>1 DEF RefsOK
    <3> QED
      BY <2>2, <2>8, <3>3, <3>4 DEF RefsOK
  <2>13. RemovalOK(k)'
    BY <1>2, <1>4, <2>2, <2>3 DEF RemovalOK, Narrowed, Kept
  <2>14. RefsInv' /\ \A c \in Components : RemovalOK(c)'
    BY <2>11, <2>12, <2>13, AloneKept DEF RefsInv
  <2> QED
    BY <1>4, <2>2, <2>10, <2>14 DEF PoolInv, RemovalInv
<1> QED
  BY <1>5, <1>6

(***************************************************************************)
(* The removal of the home.                                                *)
(***************************************************************************)
LEMMA CleanNextKeeps ==
  ASSUME PoolInv, Removal, CleanNext
  PROVE  PoolInv'
<1>1. \A v \in Workers : Narrowed(v)
  BY RestMovesNoWorker, UnmovedNarrowed DEF Rest
<1>2. PICK k \in pool : pool' = pool \ {k} /\ victim' = k
  BY DEF CleanNext
<1>3. /\ closing = "cleaning" /\ closing' = "removing"
      /\ UNCHANGED <<created, servantRefs, compositionRefs, removals, destroy>>
  BY DEF CleanNext
<1>4. k \in created /\ k \in Components /\ victim = Home /\ k # Home
  BY <1>3, ComponentsAssumption DEF PoolInv, PoolTypes, RemovalInv
<1>5. \A c \in Components : Alone(c)
  BY <1>1, <1>2, <1>3, <1>4, ComponentsAssumption DEF Alone, Kept, Narrowed
<1>6. PoolTypes'
  BY <1>2, <1>3, <1>4 DEF PoolInv, PoolTypes, ClosingPlace
<1> QED
  BY <1>2, <1>3, <1>4, <1>5, <1>6, AllAlone DEF PoolInv, RemovalInv

LEMMA CleanRemovesKeeps ==
  ASSUME PoolInv, Removal, CleanRemoves
  PROVE  PoolInv'
<1>1. \A v \in Workers : Narrowed(v)
  BY RestMovesNoWorker, UnmovedNarrowed DEF Rest
<1>2. closing = "removing" /\ victim # Home
  BY DEF CleanRemoves, PoolInv, RemovalInv
<1>3. PICK k \in Components : k = victim
  BY <1>2 DEF PoolInv, PoolTypes
<1>4. /\ compositionRefs' = [compositionRefs EXCEPT ![k] = @ - 1]
      /\ \/ UNCHANGED <<servantRefs, removals>>
         \/ ServantRemoved(k)
      /\ victim' = Home /\ closing' \in {"failed", "cleaning"}
      /\ UNCHANGED <<created, pool, destroy>>
  BY <1>3 DEF CleanRemoves
<1>5. /\ RefsOK(k) /\ RemovalOK(k) /\ Kept(k) /\ k \in created /\ k \notin pool
      /\ k # Home
  BY <1>2, <1>3 DEF PoolInv, RefsInv, RemovalInv, Kept
<1>6. compositionRefs[k] \in Nat /\ servantRefs[k] \in Nat /\ removals[k] \in Nat
  BY DEF PoolInv, PoolTypes
<1>7. removals[k] = 0 /\ \A v \in Workers : ~Removing(v, k) /\ ~Removing(v, k)'
  BY <1>1, <1>5 DEF RemovalOK, Narrowed
<1>8. /\ Users(k) \in SUBSET Workers /\ Users(k)' \in SUBSET Workers
      /\ MainUsers(k) \in SUBSET Workers /\ MainUsers(k)' \in SUBSET Workers
      /\ Users(k)' \subseteq Users(k) /\ MainUsers(k)' \subseteq MainUsers(k)
  BY <1>1 DEF Users, MainUsers, Narrowed
<1>9. /\ Cardinality(Users(k)) \in Nat /\ Cardinality(Users(k)') \in Nat
      /\ Cardinality(MainUsers(k)) \in Nat /\ Cardinality(MainUsers(k)') \in Nat
      /\ Cardinality(Users(k)') <= Cardinality(Users(k))
      /\ Cardinality(MainUsers(k)') <= Cardinality(MainUsers(k))
  BY <1>8, SetsOfWorkers
<1>10. compositionRefs[k] >= Cardinality(Users(k)) + 1
  BY <1>5 DEF RefsOK
<1>11. compositionRefs[k] - 1 \in Nat
  BY <1>6, <1>9, <1>10
<1>12. /\ servantRefs' \in [Components -> Nat] /\ removals' \in [Components -> Nat]
       /\ removals'[k] <= 1
       /\ servantRefs'[k] + removals'[k] = servantRefs[k] + removals[k]
       /\ \A c \in Components \ {k} :
             removals'[c] = removals[c] /\ servantRefs'[c] = servantRefs[c]
  <2>1. CASE ServantRemoved(k)
    BY <1>5, <1>7, <2>1, RemovedTypes
  <2>2. CASE UNCHANGED <<servantRefs, removals>>
    BY <1>7, <2>2 DEF PoolInv, PoolTypes
  <2> QED
    BY <1>4, <2>1, <2>2
<1>13. PoolTypes'
  BY <1>4, <1>11, <1>12 DEF PoolInv, PoolTypes, ClosingPlace
<1>14. \A c \in Components \ {k} : Alone(c)
  BY <1>1, <1>3, <1>4, <1>12, ComponentsAssumption
  DEF Alone, Kept, Narrowed, PoolInv, PoolTypes
<1>15. ~Kept(k)'
  BY <1>4, <1>5 DEF Kept
<1>16. RefsOK(k)'
  <2>1. compositionRefs'[k] = compositionRefs[k] - 1
    BY <1>4 DEF PoolInv, PoolTypes
  <2>2. compositionRefs'[k] >= Cardinality(Users(k)')
    BY <1>6, <1>9, <1>10, <2>1
  <2>3. servantRefs'[k] + removals'[k] >= Cardinality(MainUsers(k)') + 1
    BY <1>5, <1>6, <1>9, <1>12 DEF RefsOK
  <2> QED
    BY <1>4, <1>5, <1>9, <1>15, <2>2, <2>3 DEF RefsOK
<1>17. RemovalOK(k)'
  BY <1>7, <1>12, <1>15 DEF RemovalOK
<1>18. RefsInv' /\ \A c \in Components : RemovalOK(c)'
  BY <1>14, <1>16, <1>17, AloneKept DEF RefsInv
<1> QED
  BY <1>4, <1>13, <1>18, ComponentsAssumption DEF PoolInv, PoolTypes, RemovalInv


LEMMA PoolKept ==
  ASSUME RequestTypeOK, ServeInv, PoolInv, [Next]_vars
  PROVE  PoolInv'
<1>1. CASE \E w \in Workers : \/ FindComponent(w) \/ EnterComponent(w)
                              \/ RemoveComponent(w) \/ AfterRunTime(w)
  BY <1>1, FindKeeps, EnterKeeps, RemoveKeeps, ReleaseKeeps
<1>2. CASE Removal /\ (CleanNext \/ CleanRemoves)
  BY <1>2, CleanNextKeeps, CleanRemovesKeeps
<1>3. CASE /\ \A w \in Workers : /\ ~FindComponent(w) /\ ~EnterComponent(w)
                                 /\ ~RemoveComponent(w) /\ ~AfterRunTime(w)
           /\ ~(Removal /\ (CleanNext \/ CleanRemoves))
  <2>1. /\ UNCHANGED <<created, pool, servantRefs, compositionRefs, removals, victim>>
        /\ closing' = "removing" <=> closing = "removing"
        /\ closing' \in ClosingPlace \cup {closing}
        /\ destroy' \in {TRUE, destroy}
    BY <1>3, PoolSteps
  <2>2. \A v \in Workers : \A c \in Components :
           /\ Uses(v, c)' => Uses(v, c) /\ IsMain(v)' = IsMain(v)
           /\ Removing(v, c)' => Removing(v, c)
    <3>1. CASE \A w \in Workers : ~LockComposition(w)
      BY <1>3, <3>1, AllNarrowed DEF Narrowed
    <3>2. ASSUME NEW w \in Workers, LockComposition(w), NEW v \in Workers,
                 NEW c \in Components
          PROVE  /\ Uses(v, c)' => Uses(v, c) /\ IsMain(v)' = IsMain(v)
                 /\ Removing(v, c)' => Removing(v, c)
      <4>1. CASE v = w
        <5>1. at[w] = "lock" /\ SameRequest(w)
          BY <3>2, OwnUses DEF LockComposition, WorkerStep, Serve, Receive, Reply
        <5> QED
          BY <4>1, <5>1, SameRequestSame DEF Uses, Removing
      <4>2. CASE v # w
        <5>1. Unmoved(v)
          BY <3>2, <4>2, Bystanders DEF WorkerStep, Serve
        <5> QED
          BY <5>1, UnmovedNarrowed DEF Narrowed
      <4> QED
        BY <4>1, <4>2
    <3> QED
      BY <3>1, <3>2
  <2>3. \A c \in Components : Alone(c)
    BY <2>1, <2>2 DEF Alone, Kept
  <2> QED
    BY <2>1, <2>3, AllAlone DEF PoolInv, PoolTypes, RemovalInv
<1> QED
  BY <1>1, <1>2, <1>3

(***************************************************************************)
(* The theorems.                                                           *)
(***************************************************************************)
SafetyInv == PolicyInv /\ LockTypes /\ LockInv /\ PoolInv

LEMMA SafetyInit == Init => SafetyInv
<1> SUFFICES ASSUME Init PROVE SafetyInv
  OBVIOUS
<1>1. PolicyInv
  BY TransactionInit DEF PolicyInv
<1>2. RunTimeInit
  BY DEF Init
<1>3. LockTypes /\ LockInv
  BY <1>2 DEF Init, RunTimeInit, LockTypes, LockInv, Locked
<1>4. PoolTypes
  BY <1>2, ComponentsAssumption DEF RunTimeInit, PoolTypes, ClosingPlace
<1>5. \A w \in Workers : \A c : ~Uses(w, c) /\ ~Removing(w, c)
  BY DEF Init, Uses, Removing
<1>6. \A c \in Components : Users(c) = {} /\ MainUsers(c) = {}
  BY <1>5 DEF Users, MainUsers
<1>7. \A c \in Components : Kept(c) <=> c \in Initial
  BY <1>2, ComponentsAssumption DEF RunTimeInit, Kept
<1>8. RefsInv
  <2> SUFFICES ASSUME NEW c \in Components PROVE RefsOK(c)
    BY DEF RefsInv
  <2>1. Cardinality(Users(c)) = 0 /\ Cardinality(MainUsers(c)) = 0
    BY <1>6, SetsOfWorkers
  <2>2. /\ compositionRefs[c] = IF c \in Initial THEN 1 ELSE 0
        /\ servantRefs[c] = IF c \in Initial THEN 1 ELSE 0
        /\ removals[c] = 0 /\ created = Initial
    BY <1>2 DEF RunTimeInit
  <2> QED
    BY <1>6, <1>7, <2>1, <2>2 DEF RefsOK
<1>9. RemovalInv
  BY <1>2, <1>5, ComponentsAssumption DEF RunTimeInit, RemovalInv, RemovalOK
<1> QED
  BY <1>1, <1>3, <1>4, <1>8, <1>9 DEF SafetyInv, PoolInv

LEMMA SafetyInvariant == Spec => []SafetyInv
<1>1. SafetyInv /\ [Next]_vars => SafetyInv'
  BY RequestTypesKept, ServeKept, TransactionInvKept, LocksKept, PoolKept
  DEF SafetyInv, PolicyInv, TransactionInv
<1> QED
  BY <1>1, SafetyInit, PTL DEF Spec

(* Every variable keeps its type: among them that no reference is given    *)
(* back and no lock released more often than it was taken                  *)
(* (ComponentsPool::getServant, ContainerRunTime::postinvoke).             *)
THEOREM RequestsTypeOK == Spec => []TypeOK
<1>1. SafetyInv => TypeOK
  BY DEF SafetyInv, PolicyInv, PoolInv, PoolTypes, LockTypes, TypeOK, RunTimeTypeOK
<1> QED
  BY <1>1, SafetyInvariant, PTL

(* Two requests never hold the lock of one composition: what escapes from  *)
(* preinvoke leaves a lock behind, never one too few                       *)
(* (ContainerRunTime::preinvoke and postinvoke).                           *)
THEOREM OperationsSerialized == Spec => []Serialized
<1>1. SafetyInv => Serialized
  BY DEF SafetyInv, LockInv, Serialized
<1> QED
  BY <1>1, SafetyInvariant, PTL

(* The composition and the servant a request works on are not freed under  *)
(* it, whatever removals and the cleanup of the home do meanwhile          *)
(* (ComponentsPool::getServant, removeComponent and cleanup).              *)
THEOREM UsedIsKept == Spec => []KeptWhileUsed
<1>1. SafetyInv => KeptWhileUsed
  <2> SUFFICES ASSUME SafetyInv, NEW w \in Workers, NEW c \in Components, Uses(w, c)
               PROVE  /\ compositionRefs[c] > 0
                      /\ IsMain(w) => servantRefs[c] > 0
    BY DEF KeptWhileUsed
  <2>1. RefsOK(c) /\ RemovalOK(c)
    BY DEF SafetyInv, PoolInv, RefsInv, RemovalInv
  <2>2. compositionRefs[c] \in Nat /\ servantRefs[c] \in Nat /\ removals[c] \in Nat
    BY DEF SafetyInv, PoolInv, PoolTypes
  <2>3. /\ Users(c) \in SUBSET Workers /\ MainUsers(c) \in SUBSET Workers
        /\ w \in Users(c) /\ (IsMain(w) => w \in MainUsers(c))
    BY DEF Users, MainUsers
  <2>4. /\ Cardinality(Users(c)) \in Nat /\ Cardinality(Users(c)) >= 1
        /\ Cardinality(MainUsers(c)) \in Nat
        /\ IsMain(w) => Cardinality(MainUsers(c)) >= 1
    BY <2>3, SetsOfWorkers
  <2>5. compositionRefs[c] > 0
    BY <2>1, <2>2, <2>4 DEF RefsOK
  <2>6. IsMain(w) => servantRefs[c] > 0
    <3>1. c \in created
      BY <2>1, <2>3 DEF RefsOK
    <3>2. removals[c] <= 1
      BY <2>1 DEF RemovalOK
    <3> QED
      BY <2>1, <2>2, <2>4, <3>1, <3>2 DEF RefsOK
  <2> QED
    BY <2>5, <2>6
<1> QED
  BY <1>1, SafetyInvariant, PTL

(* A component is removed at most once, however many requests and cleanup  *)
(* ask for it (getServant and cleanup take it out of the map first).       *)
THEOREM ComponentsRemovedOnce == Spec => []RemovedOnce
<1>1. SafetyInv => RemovedOnce
  BY DEF SafetyInv, PoolInv, RemovalInv, RemovalOK, RemovedOnce
<1> QED
  BY <1>1, SafetyInvariant, PTL
=============================================================================
