-------------------------- MODULE ThreadPoolProofs --------------------------
(***************************************************************************)
(* Type correctness, the absence of lost wake-ups, the quiet after destroy *)
(* and that each request is kept once, for every number of workers, of     *)
(* requests and of managers.                                               *)
(***************************************************************************)
EXTENDS ThreadPool, FiniteSetTheorems, TLAPS

(***************************************************************************)
(* Sets of workers and their sizes.                                        *)
(***************************************************************************)
LEMMA SetsOfThreads ==
  ASSUME NEW S \in SUBSET Threads, NEW T \in SUBSET Threads, NEW w
  PROVE  /\ Cardinality(S) \in Nat
         /\ Cardinality(T) \in Nat
         /\ T \subseteq S => Cardinality(T) <= Cardinality(S)
         /\ T \subseteq S \cup {w} => Cardinality(T) <= Cardinality(S) + 1
         /\ w \in S /\ T \subseteq S \ {w} => Cardinality(T) <= Cardinality(S) - 1
<1>1. IsFiniteSet(Threads)
  BY PoolAssumption, FS_Interval DEF Threads
<1>2. IsFiniteSet(S) /\ IsFiniteSet(T)
  BY <1>1, FS_Subset
<1>3. Cardinality(S) \in Nat /\ Cardinality(T) \in Nat
  BY <1>2, FS_CardinalityType
<1>4. T \subseteq S => Cardinality(T) <= Cardinality(S)
  BY <1>2, FS_Subset
<1>5. ASSUME T \subseteq S \cup {w} PROVE Cardinality(T) <= Cardinality(S) + 1
  <2>1. /\ IsFiniteSet(S \cup {w})
        /\ Cardinality(S \cup {w}) = IF w \in S THEN Cardinality(S)
                                     ELSE Cardinality(S) + 1
    BY <1>2, FS_AddElement
  <2>2. Cardinality(T) <= Cardinality(S \cup {w})
    BY <1>5, <2>1, FS_Subset
  <2>3. Cardinality(S \cup {w}) \in Nat
    BY <2>1, FS_CardinalityType
  <2> QED
    BY <1>3, <2>1, <2>2, <2>3
<1>6. ASSUME w \in S, T \subseteq S \ {w} PROVE Cardinality(T) <= Cardinality(S) - 1
  <2>1. IsFiniteSet(S \ {w}) /\ Cardinality(S \ {w}) = Cardinality(S) - 1
    BY <1>2, <1>6, FS_RemoveElement
  <2>2. Cardinality(T) <= Cardinality(S \ {w})
    BY <1>6, <2>1, FS_Subset
  <2> QED
    BY <2>1, <2>2
<1> QED
  BY <1>3, <1>4, <1>5, <1>6

LEMMA NoSleeper ==
  ASSUME PoolInv, waitingForTake = 0
  PROVE  Sleepers = {}
<1>1. Sleepers \in SUBSET Threads
  BY DEF Sleepers
<1>2. IsFiniteSet(Threads)
  BY PoolAssumption, FS_Interval DEF Threads
<1>3. IsFiniteSet(Sleepers)
  BY <1>1, <1>2, FS_Subset
<1>4. Cardinality(Sleepers) = 0
  BY <1>1, SetsOfThreads DEF PoolInv, SleepersCounted
<1> QED
  BY <1>3, <1>4, FS_EmptySet

(* A worker that is counted can stop waiting.                              *)
LEMMA CountPositive ==
  ASSUME PoolInv, NEW w \in Sleepers
  PROVE  waitingForTake >= 1
<1>1. CASE waitingForTake = 0
  BY <1>1, NoSleeper
<1> QED
  BY <1>1 DEF PoolInv, TypeOK, QueueTypes

(***************************************************************************)
(* What the operations of the queue do to its types.                       *)
(***************************************************************************)
LEMMA Wraps ==
  ASSUME NEW n \in Nat PROVE n % ULongRange \in 0..(ULongRange - 1)
BY QueueAssumption

LEMMA QueueOperations ==
  ASSUME QueueTypes
  PROVE  /\ \A q \in Requests : LinkLast(q) => QueueTypes'
         /\ ReadSize => QueueTypes'
         /\ IncrementSize => QueueTypes'
         /\ UnlinkFirst /\ queue # << >> => QueueTypes' /\ Head(queue) \in Requests
         /\ StartWaiting => QueueTypes'
         /\ StopWaiting /\ waitingForTake >= 1 => QueueTypes'
         /\ CloseQueue => QueueTypes'
         /\ UNCHANGED queueVars => QueueTypes'
<1>1. \A q \in Requests : LinkLast(q) => QueueTypes'
  BY DEF QueueTypes, LinkLast
<1>2. UnlinkFirst /\ queue # << >> => QueueTypes' /\ Head(queue) \in Requests
  BY DEF QueueTypes, UnlinkFirst
<1>3. IncrementSize => QueueTypes'
  <2>1. putSaw + 1 \in Nat /\ 0 \in 0..(ULongRange - 1)
    BY QueueAssumption DEF QueueTypes
  <2> QED
    BY <2>1, Wraps DEF QueueTypes, IncrementSize
<1>4. StartWaiting => QueueTypes'
  BY DEF QueueTypes, StartWaiting
<1>5. StopWaiting /\ waitingForTake >= 1 => QueueTypes'
  <2>1. waitingForTake \in Nat /\ waitingForTake >= 1 => waitingForTake - 1 \in Nat
    OBVIOUS
  <2> QED
    BY <2>1 DEF QueueTypes, StopWaiting
<1>6. CloseQueue => QueueTypes'
  BY DEF QueueTypes, CloseQueue
<1>7. UNCHANGED queueVars => QueueTypes'
  BY DEF QueueTypes, queueVars
<1>8. ReadSize => QueueTypes'
  BY DEF QueueTypes, ReadSize
<1> QED
  BY <1>1, <1>2, <1>3, <1>4, <1>5, <1>6, <1>7, <1>8

LEMMA Decremented ==
  ASSUME QueueTypes, DecrementSize, waitingForTake' \in Nat
  PROVE  QueueTypes'
<1>1. takeSaw + ULongRange - 1 \in Nat /\ 0 \in 0..(ULongRange - 1)
  BY QueueAssumption DEF QueueTypes
<1> QED
  BY <1>1, Wraps DEF QueueTypes, DecrementSize

(***************************************************************************)
(* PoolInv is inductive: one lemma per operation.                          *)
(***************************************************************************)
LEMMA InitInv == Init => PoolInv
<1> SUFFICES ASSUME Init PROVE PoolInv
  OBVIOUS
<1>1. QueueTypes /\ PoolTypes /\ CallerTypes
  <2>1. QueueTypes
    <3>1. 0 \in 0..(ULongRange - 1) /\ << >> \in Seq(Requests)
      BY QueueAssumption
    <3>2. QueueInit
      BY DEF Init
    <3> QED
      BY <3>1, <3>2 DEF QueueInit, QueueTypes
  <2>2. PoolTypes
    <3>1. InitialThreads \in 0..MaxThreads /\ InitialMaximum \in 0..MaxThreads
      BY PoolAssumption
    <3>2. InitialMinimum \in Nat /\ InitialKeepAlive \in KeepAlive
      BY PoolAssumption
    <3> QED
      BY <3>1, <3>2 DEF Init, PoolTypes
  <2>3. CallerTypes
    BY DEF Init, CallerTypes, Stage
  <2> QED
    BY <2>1, <2>2, <2>3
<1>2. ThreadTypes /\ Busy
  BY PoolAssumption DEF Init, ThreadTypes, Place, KeepAlive, Busy, Threads
<1>3. Sleepers = {}
  BY DEF Init, Sleepers
<1>4. SleepersCounted
  BY <1>3, FS_EmptySet DEF SleepersCounted, Init, QueueInit
<1>5. Limits
  BY PoolAssumption DEF Limits, Init
<1> QED
  BY <1>1, <1>2, <1>4, <1>5 DEF PoolInv, TypeOK, ClosedLate, Init, QueueInit

LEMMA Unchanged ==
  ASSUME PoolInv, UNCHANGED vars PROVE PoolInv'
BY DEF PoolInv, TypeOK, QueueTypes, PoolTypes, ThreadTypes, CallerTypes, Limits,
       Busy, SleepersCounted, Sleepers, ClosedLate, vars, queueVars, poolVars,
       limitVars, restVars

(* As long as waitingForTake_ does not change, it counts the sleepers      *)
(* unless a new one appears.                                               *)
LEMMA CountedStill ==
  ASSUME PoolInv, waitingForTake' = waitingForTake, Sleepers' \subseteq Sleepers
  PROVE  SleepersCounted'
<1>1. Sleepers \in SUBSET Threads /\ Sleepers' \in SUBSET Threads
  BY DEF Sleepers
<1>2. /\ Cardinality(Sleepers) \in Nat
      /\ Cardinality(Sleepers') \in Nat
      /\ Cardinality(Sleepers') <= Cardinality(Sleepers)
  BY <1>1, SetsOfThreads
<1>3. waitingForTake \in Nat /\ waitingForTake >= Cardinality(Sleepers)
  BY DEF PoolInv, TypeOK, QueueTypes, SleepersCounted
<1> QED
  BY <1>2, <1>3 DEF SleepersCounted

LEMMA AddThreadKeeps ==
  ASSUME PoolInv, NEW q \in Requests \cup {NoTask}, NEW keep \in KeepAlive,
         poolSize < MaxThreads, AddThread(q, keep)
  PROVE  /\ poolSize' \in 0..MaxThreads
         /\ ThreadTypes'
         /\ Busy'
         /\ Sleepers' \subseteq Sleepers
<1>1. poolSize + 1 \in Threads /\ poolSize' = poolSize + 1 /\ poolSize \in Nat
  BY PoolAssumption DEF PoolInv, TypeOK, PoolTypes, Threads, AddThread
<1>2. ThreadTypes'
  BY <1>1 DEF PoolInv, TypeOK, ThreadTypes, AddThread, Place
<1>3. /\ at'[poolSize + 1] \in {"get", "invoke"}
      /\ at'[poolSize + 1] = "invoke" <=> task'[poolSize + 1] # NoTask
      /\ \A w \in Threads : w # poolSize + 1 => at'[w] = at[w] /\ task'[w] = task[w]
  BY <1>1 DEF PoolInv, TypeOK, ThreadTypes, AddThread
<1>4. Busy'
  <2> SUFFICES ASSUME NEW w \in Threads
               PROVE  /\ at'[w] \in {"invoke", "took", "tookLocked"} <=> task'[w] # NoTask
                      /\ at'[w] = "unborn" <=> w > poolSize'
    BY DEF Busy
  <2>1. CASE w = poolSize + 1
    BY <1>1, <1>3, <2>1
  <2>2. CASE w # poolSize + 1
    <3>1. w > poolSize <=> w > poolSize + 1
      BY <1>1, <2>2 DEF Threads
    <3> QED
      BY <1>1, <1>3, <2>2, <3>1 DEF PoolInv, Busy
  <2> QED
    BY <2>1, <2>2
<1>5. Sleepers' \subseteq Sleepers
  BY <1>3 DEF Sleepers
<1> QED
  BY <1>1, <1>2, <1>4, <1>5, PoolAssumption DEF PoolInv, TypeOK, PoolTypes

(* The parts of the state that execute leaves alone.                       *)
LEMMA RestKept ==
  ASSUME PoolInv, UNCHANGED <<limitVars, restVars>>, poolSize' \in 0..MaxThreads,
         call' \in [Requests -> Stage], closed' = closed
  PROVE  PoolTypes' /\ CallerTypes' /\ Limits' /\ ClosedLate'
BY DEF PoolInv, TypeOK, PoolTypes, CallerTypes, Limits, ClosedLate, limitVars, restVars

LEMMA ExecuteKeeps ==
  ASSUME PoolInv, NEW q \in Requests, Execute(q) PROVE PoolInv'
<1>1. QueueTypes' /\ waitingForTake' = waitingForTake /\ closed' = closed
  BY QueueOperations DEF PoolInv, TypeOK, Execute, queueVars
<1>2. call' \in [Requests -> Stage]
  BY DEF PoolInv, TypeOK, CallerTypes, Execute, Step, Stage
<1>3. poolSize' \in 0..MaxThreads /\ ThreadTypes' /\ Busy' /\ Sleepers' \subseteq Sleepers
  <2>1. CASE UNCHANGED poolVars
    BY <2>1 DEF PoolInv, TypeOK, PoolTypes, ThreadTypes, Busy, Sleepers, poolVars
  <2>2. CASE AddThread(q, "forever") /\ poolSize < minimum
    <3>1. poolSize < MaxThreads
      BY <2>2, PoolAssumption DEF PoolInv, TypeOK, PoolTypes, Limits
    <3> QED
      BY <2>2, <3>1, AddThreadKeeps DEF KeepAlive
  <2> QED
    BY <2>1, <2>2 DEF Execute
<1>4. SleepersCounted'
  BY <1>1, <1>3, CountedStill
<1>5. PoolTypes' /\ CallerTypes' /\ Limits' /\ ClosedLate'
  BY <1>1, <1>2, <1>3, RestKept DEF Execute
<1> QED
  BY <1>1, <1>3, <1>4, <1>5 DEF PoolInv, TypeOK

(* Link, Read, Increment and Signal touch the queue and the caller only.   *)
LEMMA QueueingKeeps ==
  ASSUME PoolInv, NEW q \in Requests, Link(q) \/ Read(q) \/ Increment(q) \/ Signal(q)
  PROVE  PoolInv'
<1>1. QueueTypes' /\ waitingForTake' = waitingForTake /\ closed' = closed
  BY QueueOperations DEF PoolInv, TypeOK, Link, Read, Increment, Signal, LinkLast,
     ReadSize, IncrementSize, queueVars
<1>2. call' \in [Requests -> Stage]
  BY DEF PoolInv, TypeOK, CallerTypes, Link, Read, Increment, Signal, Step, Stage
<1>3. UNCHANGED <<poolVars, limitVars, restVars>>
  BY DEF Link, Read, Increment, Signal
<1>4. poolSize' \in 0..MaxThreads /\ ThreadTypes' /\ Busy' /\ Sleepers' \subseteq Sleepers
  BY <1>3 DEF PoolInv, TypeOK, PoolTypes, ThreadTypes, Busy, Sleepers, poolVars
<1>5. SleepersCounted'
  BY <1>1, <1>4, CountedStill
<1>6. PoolTypes' /\ CallerTypes' /\ Limits' /\ ClosedLate'
  BY <1>1, <1>2, <1>3, <1>4, RestKept
<1> QED
  BY <1>1, <1>4, <1>5, <1>6 DEF PoolInv, TypeOK

LEMMA GrowKeeps ==
  ASSUME PoolInv, NEW q \in Requests, Grow(q) PROVE PoolInv'
<1>1. QueueTypes' /\ waitingForTake' = waitingForTake /\ closed' = closed
  BY QueueOperations DEF PoolInv, TypeOK, Grow, queueVars
<1>2. call' \in [Requests -> Stage]
  BY DEF PoolInv, TypeOK, CallerTypes, Grow, Step, Stage
<1>3. poolSize' \in 0..MaxThreads /\ ThreadTypes' /\ Busy' /\ Sleepers' \subseteq Sleepers
  <2>1. CASE UNCHANGED poolVars
    BY <2>1 DEF PoolInv, TypeOK, PoolTypes, ThreadTypes, Busy, Sleepers, poolVars
  <2>2. CASE AddThread(NoTask, keepAlive) /\ poolSize < maximum
    <3>1. poolSize < MaxThreads /\ keepAlive \in KeepAlive
      BY <2>2, PoolAssumption DEF PoolInv, TypeOK, PoolTypes
    <3> QED
      BY <2>2, <3>1, AddThreadKeeps
  <2> QED
    BY <2>1, <2>2 DEF Grow
<1>4. SleepersCounted'
  BY <1>1, <1>3, CountedStill
<1>5. PoolTypes' /\ CallerTypes' /\ Limits' /\ ClosedLate'
  BY <1>1, <1>2, <1>3, RestKept DEF Grow
<1> QED
  BY <1>1, <1>3, <1>4, <1>5 DEF PoolInv, TypeOK

LEMMA NotifyWakes ==
  ASSUME NEW place \in [Threads -> Place], NotifyOne(place)
  PROVE  /\ at' \in [Threads -> Place]
         /\ \A v \in Threads : at'[v] = place[v] \/ (place[v] = "wait" /\ at'[v] = "woken")
<1>1. CASE Notified(place) = {}
  BY <1>1 DEF NotifyOne
<1>2. CASE at' \in Notified(place)
  <2>1. PICK w \in Threads : place[w] = "wait" /\ at' = [place EXCEPT ![w] = "woken"]
    BY <1>2 DEF Notified
  <2> QED
    BY <2>1 DEF Place
<1> QED
  BY <1>1, <1>2 DEF NotifyOne

LEMMA WakingKeeps ==
  ASSUME PoolInv, UNCHANGED <<task, poolSize>>,
         \A v \in Threads : at'[v] = at[v] \/ (at[v] = "wait" /\ at'[v] = "woken")
  PROVE  Busy' /\ Sleepers' \subseteq Sleepers
BY DEF PoolInv, Busy, Sleepers

LEMMA NotifyKeeps ==
  ASSUME PoolInv, NEW q \in Requests, Notify(q) PROVE PoolInv'
<1>1. QueueTypes' /\ waitingForTake' = waitingForTake /\ closed' = closed
  BY QueueOperations DEF PoolInv, TypeOK, Notify, queueVars
<1>2. call' \in [Requests -> Stage]
  BY DEF PoolInv, TypeOK, CallerTypes, Notify, Step, Stage
<1>3. at \in [Threads -> Place] /\ NotifyOne(at) /\ UNCHANGED <<poolSize, mode, task, expired>>
  BY DEF PoolInv, TypeOK, ThreadTypes, Notify
<1>4. ThreadTypes' /\ Busy' /\ Sleepers' \subseteq Sleepers
  BY <1>3, NotifyWakes, WakingKeeps DEF PoolInv, TypeOK, ThreadTypes
<1>5. poolSize' \in 0..MaxThreads
  BY <1>3 DEF PoolInv, TypeOK, PoolTypes
<1>6. SleepersCounted'
  BY <1>1, <1>4, CountedStill
<1>7. PoolTypes' /\ CallerTypes' /\ Limits' /\ ClosedLate'
  BY <1>1, <1>2, <1>5, RestKept DEF Notify
<1> QED
  BY <1>1, <1>4, <1>6, <1>7 DEF PoolInv, TypeOK

(* A worker that exists changes its place, and its task if it begins or    *)
(* ends to have one.                                                       *)
LEMMA MoveKeeps ==
  ASSUME PoolInv, NEW w \in Threads, NEW place \in Place, NEW t \in Requests \cup {NoTask},
         at[w] # "unborn", place # "unborn", Move(w, place),
         task' = [task EXCEPT ![w] = t], UNCHANGED poolSize,
         place \in {"invoke", "took", "tookLocked"} <=> t # NoTask
  PROVE  /\ at' \in [Threads -> Place]
         /\ task' \in [Threads -> Requests \cup {NoTask}]
         /\ Busy'
<1>1. /\ at' \in [Threads -> Place]
      /\ task' \in [Threads -> Requests \cup {NoTask}]
      /\ at'[w] = place /\ task'[w] = t
      /\ \A v \in Threads : v # w => at'[v] = at[v] /\ task'[v] = task[v]
  BY DEF PoolInv, TypeOK, ThreadTypes, Move
<1> QED
  BY <1>1 DEF PoolInv, Busy

LEMMA TaskStays ==
  ASSUME PoolInv, NEW w \in Threads, UNCHANGED task
  PROVE  task' = [task EXCEPT ![w] = task[w]] /\ task[w] \in Requests \cup {NoTask}
BY DEF PoolInv, TypeOK, ThreadTypes

(* The sleepers after a worker has moved.                                  *)
LEMMA MoveSleepers ==
  ASSUME PoolInv, NEW w \in Threads, NEW place, Move(w, place)
  PROVE  /\ place \notin {"look", "tookLocked", "wait", "woken"} => Sleepers' \subseteq Sleepers \ {w}
         /\ w \in Sleepers => Sleepers' \subseteq Sleepers
         /\ Sleepers' \subseteq Sleepers \cup {w}
<1>1. \A v \in Threads : v # w => at'[v] = at[v]
  BY DEF PoolInv, TypeOK, ThreadTypes, Move
<1>2. at'[w] = place
  BY DEF PoolInv, TypeOK, ThreadTypes, Move
<1> QED
  BY <1>1, <1>2 DEF Sleepers

(* One sleeper less, or one more, as waitingForTake_ says.                 *)
LEMMA CountedLess ==
  ASSUME PoolInv, NEW w \in Sleepers, waitingForTake' = waitingForTake - 1,
         Sleepers' \subseteq Sleepers \ {w}
  PROVE  SleepersCounted' /\ waitingForTake' \in Nat
<1>1. Sleepers \in SUBSET Threads /\ Sleepers' \in SUBSET Threads
  BY DEF Sleepers
<1>2. /\ Cardinality(Sleepers) \in Nat
      /\ Cardinality(Sleepers') \in Nat
      /\ Cardinality(Sleepers') <= Cardinality(Sleepers) - 1
  BY <1>1, SetsOfThreads
<1>3. waitingForTake \in Nat /\ waitingForTake >= Cardinality(Sleepers)
  BY DEF PoolInv, TypeOK, QueueTypes, SleepersCounted
<1> QED
  BY <1>2, <1>3 DEF SleepersCounted

LEMMA CountedMore ==
  ASSUME PoolInv, NEW w \in Threads, waitingForTake' = waitingForTake + 1,
         Sleepers' \subseteq Sleepers \cup {w}
  PROVE  SleepersCounted'
<1>1. Sleepers \in SUBSET Threads /\ Sleepers' \in SUBSET Threads
  BY DEF Sleepers
<1>2. /\ Cardinality(Sleepers) \in Nat
      /\ Cardinality(Sleepers') \in Nat
      /\ Cardinality(Sleepers') <= Cardinality(Sleepers) + 1
  BY <1>1, SetsOfThreads
<1>3. waitingForTake \in Nat /\ waitingForTake >= Cardinality(Sleepers)
  BY DEF PoolInv, TypeOK, QueueTypes, SleepersCounted
<1> QED
  BY <1>2, <1>3 DEF SleepersCounted

(* What a worker leaves alone.                                             *)
LEMMA WorkerRestKept ==
  ASSUME PoolInv, UNCHANGED <<poolSize, limitVars, destroyed, manager, closing, call, closed>>,
         served' \in [Requests -> Nat]
  PROVE  PoolTypes' /\ CallerTypes' /\ Limits' /\ ClosedLate'
BY DEF PoolInv, TypeOK, PoolTypes, CallerTypes, Limits, ClosedLate, limitVars

LEMMA InvokeKeeps ==
  ASSUME PoolInv, NEW w \in Threads, Invoke(w) PROVE PoolInv'
<1>1. QueueTypes' /\ waitingForTake' = waitingForTake /\ closed' = closed
  BY QueueOperations DEF PoolInv, TypeOK, Invoke, queueVars
<1>2. task[w] \in Requests
  BY DEF PoolInv, TypeOK, ThreadTypes, Busy, Invoke
<1>3. served' \in [Requests -> Nat]
  BY <1>2 DEF PoolInv, TypeOK, CallerTypes, Invoke
<1>4. PICK place \in {"ending", "get"} : Move(w, place)
  BY DEF Invoke
<1>5. ThreadTypes' /\ Busy'
  BY <1>4, MoveKeeps DEF Invoke, PoolInv, TypeOK, ThreadTypes, Place
<1>6. SleepersCounted'
  BY <1>1, <1>4, MoveSleepers, CountedStill
<1>7. PoolTypes' /\ CallerTypes' /\ Limits' /\ ClosedLate'
  BY <1>1, <1>3, WorkerRestKept DEF Invoke
<1> QED
  BY <1>1, <1>5, <1>6, <1>7 DEF PoolInv, TypeOK

(* GetTask and WorkerDone move the worker and nothing else.                *)
LEMMA WalkKeeps ==
  ASSUME PoolInv, NEW w \in Threads, GetTask(w) \/ WorkerDone(w) PROVE PoolInv'
<1>1. QueueTypes' /\ waitingForTake' = waitingForTake /\ closed' = closed
  BY QueueOperations DEF PoolInv, TypeOK, GetTask, WorkerDone, queueVars
<1>2. PICK place \in {"ending", "extract", "ended"} : Move(w, place)
  BY DEF GetTask, WorkerDone
<1>3. task[w] = NoTask /\ UNCHANGED task
  BY DEF GetTask, WorkerDone, PoolInv, Busy
<1>4. ThreadTypes' /\ Busy'
  BY <1>2, <1>3, MoveKeeps, TaskStays DEF GetTask, WorkerDone, PoolInv, TypeOK, ThreadTypes, Place
<1>5. SleepersCounted'
  BY <1>1, <1>2, MoveSleepers, CountedStill
<1>6. served' \in [Requests -> Nat]
  BY DEF GetTask, WorkerDone, restVars, PoolInv, TypeOK, CallerTypes
<1>7. PoolTypes' /\ CallerTypes' /\ Limits' /\ ClosedLate'
  BY <1>1, <1>6, WorkerRestKept DEF GetTask, WorkerDone, restVars
<1> QED
  BY <1>1, <1>4, <1>5, <1>7 DEF PoolInv, TypeOK

LEMMA ExtractKeeps ==
  ASSUME PoolInv, NEW w \in Threads, Extract(w) PROVE PoolInv'
<1>1. QueueTypes' /\ waitingForTake' = waitingForTake /\ closed' = closed
  BY QueueOperations DEF PoolInv, TypeOK, Extract, UnlinkFirst, queueVars
<1>2. PICK place \in {"enter", "took"} : Move(w, place)
  BY DEF Extract
<1>3. task[w] = NoTask /\ task[w] \in Requests \cup {NoTask}
  BY DEF Extract, PoolInv, Busy
<1>4. ThreadTypes' /\ Busy' /\ Sleepers' \subseteq Sleepers
  <2>1. CASE queue = << >>
    <3>1. Move(w, "enter") /\ UNCHANGED <<task, poolSize, mode, expired>> /\ at[w] = "extract"
      BY <2>1 DEF Extract
    <3>2. task' = [task EXCEPT ![w] = NoTask]
      BY <1>3, <3>1, TaskStays
    <3>3. at' \in [Threads -> Place] /\ Busy'
      BY <3>1, <3>2, MoveKeeps DEF Place
    <3> QED
      BY <3>1, <3>3, MoveSleepers DEF PoolInv, TypeOK, ThreadTypes
  <2>2. CASE queue # << >>
    <3>1. /\ Move(w, "took") /\ UNCHANGED <<poolSize, mode, expired>> /\ at[w] = "extract"
          /\ task' = [task EXCEPT ![w] = Head(queue)] /\ UnlinkFirst
      BY <2>2 DEF Extract
    <3>2. Head(queue) \in Requests /\ Head(queue) # NoTask
      BY <2>2, <3>1, QueueOperations, RequestsAssumption DEF PoolInv, TypeOK
    <3>3. /\ at' \in [Threads -> Place] /\ Busy'
          /\ task' \in [Threads -> Requests \cup {NoTask}]
      BY <3>1, <3>2, MoveKeeps DEF Place
    <3> QED
      BY <3>1, <3>3, MoveSleepers DEF PoolInv, TypeOK, ThreadTypes
  <2> QED
    BY <2>1, <2>2
<1>5. SleepersCounted'
  BY <1>1, <1>4, CountedStill
<1>6. served' \in [Requests -> Nat]
  BY DEF Extract, restVars, PoolInv, TypeOK, CallerTypes
<1>7. PoolTypes' /\ CallerTypes' /\ Limits' /\ ClosedLate'
  BY <1>1, <1>6, WorkerRestKept DEF Extract, restVars
<1> QED
  BY <1>1, <1>4, <1>5, <1>7 DEF PoolInv, TypeOK

LEMMA TookKeeps ==
  ASSUME PoolInv, NEW w \in Threads, Took(w) PROVE PoolInv'
<1>1. Move(w, "invoke") /\ UNCHANGED <<poolSize, mode, task, expired>> /\ closed' = closed
  BY DEF Took, DecrementSize
<1>2. task[w] # NoTask /\ task[w] \in Requests \cup {NoTask}
  BY DEF Took, PoolInv, Busy, TypeOK, ThreadTypes
<1>3. ThreadTypes' /\ Busy'
  <2>1. at' \in [Threads -> Place] /\ Busy'
    BY <1>1, <1>2, MoveKeeps, TaskStays DEF Place, Took
  <2> QED
    BY <1>1, <2>1 DEF PoolInv, TypeOK, ThreadTypes
<1>4. SleepersCounted' /\ waitingForTake' \in Nat
  <2>1. CASE at[w] = "took"
    <3>1. waitingForTake' = waitingForTake
      BY <2>1 DEF Took
    <3> QED
      BY <1>1, <3>1, MoveSleepers, CountedStill DEF PoolInv, TypeOK, QueueTypes
  <2>2. CASE at[w] = "tookLocked"
    <3>1. waitingForTake' = waitingForTake - 1 /\ w \in Sleepers
      BY <2>2 DEF Took, Sleepers
    <3> QED
      BY <1>1, <3>1, MoveSleepers, CountedLess
  <2> QED
    BY <2>1, <2>2 DEF Took
<1>5. QueueTypes'
  BY <1>4, Decremented DEF PoolInv, TypeOK, Took
<1>6. served' \in [Requests -> Nat]
  BY DEF Took, restVars, PoolInv, TypeOK, CallerTypes
<1>7. PoolTypes' /\ CallerTypes' /\ Limits' /\ ClosedLate'
  BY <1>1, <1>6, WorkerRestKept DEF Took, restVars
<1> QED
  BY <1>3, <1>4, <1>5, <1>7 DEF PoolInv, TypeOK

LEMMA EnterKeeps ==
  ASSUME PoolInv, NEW w \in Threads, Enter(w) PROVE PoolInv'
<1>1. QueueTypes' /\ waitingForTake' = waitingForTake + 1 /\ closed' = closed
  BY QueueOperations DEF PoolInv, TypeOK, Enter, StartWaiting
<1>2. Move(w, "look") /\ UNCHANGED <<poolSize, mode, task>> /\ task[w] = NoTask
  BY DEF Enter, PoolInv, Busy
<1>3. at' \in [Threads -> Place] /\ Busy'
  BY <1>2, MoveKeeps, TaskStays DEF Place, Enter
<1>4. ThreadTypes'
  BY <1>2, <1>3 DEF PoolInv, TypeOK, ThreadTypes, Enter
<1>5. SleepersCounted'
  BY <1>1, <1>2, MoveSleepers, CountedMore
<1>6. served' \in [Requests -> Nat]
  BY DEF Enter, restVars, PoolInv, TypeOK, CallerTypes
<1>7. PoolTypes' /\ CallerTypes' /\ Limits' /\ ClosedLate'
  BY <1>1, <1>6, WorkerRestKept DEF Enter, restVars
<1> QED
  BY <1>1, <1>3, <1>4, <1>5, <1>7 DEF PoolInv, TypeOK

(* Timeout and Reenter: a sleeper stays a sleeper.                         *)
LEMMA AwakeKeeps ==
  ASSUME PoolInv, NEW w \in Threads, Timeout(w) \/ Reenter(w) PROVE PoolInv'
<1>1. QueueTypes' /\ waitingForTake' = waitingForTake /\ closed' = closed
  BY QueueOperations DEF PoolInv, TypeOK, Timeout, Reenter, queueVars
<1>2. PICK place \in {"woken", "look"} : Move(w, place)
  BY DEF Timeout, Reenter
<1>3. /\ UNCHANGED <<poolSize, mode, task>> /\ task[w] = NoTask /\ w \in Sleepers
      /\ expired' \in [Threads -> BOOLEAN]
  BY DEF Timeout, Reenter, PoolInv, Busy, Sleepers, TypeOK, ThreadTypes
<1>4. at[w] \in {"wait", "woken"}
  BY DEF Timeout, Reenter
<1>5. at' \in [Threads -> Place] /\ Busy'
  BY <1>2, <1>3, <1>4, MoveKeeps, TaskStays DEF Place
<1>6. ThreadTypes'
  BY <1>3, <1>5 DEF PoolInv, TypeOK, ThreadTypes
<1>7. SleepersCounted'
  BY <1>1, <1>2, <1>3, MoveSleepers, CountedStill
<1>8. served' \in [Requests -> Nat]
  BY DEF Timeout, Reenter, restVars, PoolInv, TypeOK, CallerTypes
<1>9. PoolTypes' /\ CallerTypes' /\ Limits' /\ ClosedLate'
  BY <1>1, <1>8, WorkerRestKept DEF Timeout, Reenter, restVars
<1> QED
  BY <1>1, <1>5, <1>6, <1>7, <1>9 DEF PoolInv, TypeOK

LEMMA ForgetTypes ==
  ASSUME PoolInv, NEW w \in Threads, Forget(w) PROVE expired' \in [Threads -> BOOLEAN]
BY DEF Forget, PoolInv, TypeOK, ThreadTypes

(* One round of the loop, way by way.                                      *)
LEMMA LookKeeps ==
  ASSUME PoolInv, NEW w \in Threads, Look(w) PROVE PoolInv'
<1>1. at[w] = "look" /\ w \in Sleepers /\ task[w] = NoTask
  BY DEF Look, Sleepers, PoolInv, Busy
<1>2. UNCHANGED <<poolSize, mode>> /\ waitingForTake >= 1 /\ UNCHANGED closed
  BY <1>1, CountPositive DEF Look, UnlinkFirst, StopWaiting, queueVars
<1>3. ASSUME queue # << >>, UnlinkFirst, Forget(w), Move(w, "tookLocked"),
             task' = [task EXCEPT ![w] = Head(queue)]
      PROVE  QueueTypes' /\ ThreadTypes' /\ Busy' /\ SleepersCounted'
  <2>1. QueueTypes' /\ Head(queue) \in Requests /\ waitingForTake' = waitingForTake
    BY <1>3, QueueOperations DEF PoolInv, TypeOK, UnlinkFirst
  <2>2. /\ at' \in [Threads -> Place] /\ Busy'
        /\ task' \in [Threads -> Requests \cup {NoTask}]
    BY <1>1, <1>2, <1>3, <2>1, MoveKeeps, RequestsAssumption DEF Place
  <2>3. SleepersCounted'
    BY <1>1, <1>3, <2>1, MoveSleepers, CountedStill
  <2> QED
    BY <1>2, <1>3, <2>1, <2>2, <2>3, ForgetTypes DEF PoolInv, TypeOK, ThreadTypes
<1>4. ASSUME UNCHANGED <<queueVars, task, expired>>, Move(w, "wait") \/ Move(w, "ending")
      PROVE  QueueTypes' /\ ThreadTypes' /\ Busy' /\ SleepersCounted'
  <2>1. QueueTypes' /\ waitingForTake' = waitingForTake
    BY <1>4, QueueOperations DEF PoolInv, TypeOK, queueVars
  <2>2. at' \in [Threads -> Place] /\ Busy'
    BY <1>1, <1>2, <1>4, MoveKeeps, TaskStays DEF Place
  <2>3. SleepersCounted'
    BY <1>1, <1>4, <2>1, MoveSleepers, CountedStill
  <2> QED
    BY <1>2, <1>4, <2>1, <2>2, <2>3 DEF PoolInv, TypeOK, ThreadTypes
<1>5. ASSUME StopWaiting, Forget(w), Move(w, "ending"), UNCHANGED task
      PROVE  QueueTypes' /\ ThreadTypes' /\ Busy' /\ SleepersCounted'
  <2>1. QueueTypes' /\ waitingForTake' = waitingForTake - 1
    BY <1>2, <1>5, QueueOperations DEF PoolInv, TypeOK, StopWaiting
  <2>2. at' \in [Threads -> Place] /\ Busy'
    BY <1>1, <1>2, <1>5, MoveKeeps, TaskStays DEF Place
  <2>3. SleepersCounted'
    BY <1>1, <1>5, <2>1, MoveSleepers, CountedLess
  <2> QED
    BY <1>2, <1>5, <2>1, <2>2, <2>3, ForgetTypes DEF PoolInv, TypeOK, ThreadTypes
<1>6. ASSUME StopWaiting, NotifyOne([at EXCEPT ![w] = "ending"]), UNCHANGED <<task, expired>>
      PROVE  QueueTypes' /\ ThreadTypes' /\ Busy' /\ SleepersCounted'
  <2>1. QueueTypes' /\ waitingForTake' = waitingForTake - 1
    BY <1>2, <1>6, QueueOperations DEF PoolInv, TypeOK, StopWaiting
  <2> DEFINE gone == [at EXCEPT ![w] = "ending"]
  <2>2. /\ gone \in [Threads -> Place] /\ gone[w] = "ending"
        /\ \A v \in Threads : v # w => gone[v] = at[v]
    BY DEF PoolInv, TypeOK, ThreadTypes, Place
  <2>3. NotifyOne(gone)
    BY <1>6
  <2> HIDE DEF gone
  <2>4. /\ at' \in [Threads -> Place]
        /\ \A v \in Threads : at'[v] = gone[v] \/ (gone[v] = "wait" /\ at'[v] = "woken")
    BY <2>2, <2>3, NotifyWakes
  <2>5. at'[w] = "ending"
    BY <2>2, <2>4
  <2>6. Busy'
    BY <1>1, <1>2, <1>6, <2>2, <2>4, <2>5 DEF PoolInv, Busy
  <2>7. Sleepers' \subseteq Sleepers \ {w}
    BY <2>2, <2>4, <2>5 DEF Sleepers
  <2>8. SleepersCounted'
    BY <1>1, <2>1, <2>7, CountedLess
  <2> QED
    BY <1>2, <1>6, <2>1, <2>4, <2>6, <2>8 DEF PoolInv, TypeOK, ThreadTypes
<1>7. QueueTypes' /\ ThreadTypes' /\ Busy' /\ SleepersCounted'
  BY <1>3, <1>4, <1>5, <1>6 DEF Look, PoolInv, TypeOK
<1>8. served' \in [Requests -> Nat]
  BY DEF Look, restVars, PoolInv, TypeOK, CallerTypes
<1>9. PoolTypes' /\ CallerTypes' /\ Limits' /\ ClosedLate'
  BY <1>2, <1>8, WorkerRestKept DEF Look, restVars
<1> QED
  BY <1>7, <1>9 DEF PoolInv, TypeOK

(* The managers change limits only, and keep them in order.                *)
LEMMA ManagerKeeps ==
  ASSUME PoolInv, NEW m \in Managers, SetKeepAlive(m) \/ SetMaximum(m) \/ SetMinimum(m)
  PROVE  PoolInv'
<1>1. /\ Setting[m].keep \in KeepAlive /\ Setting[m].max \in 0..MaxThreads
      /\ Setting[m].min \in Nat
  BY ManagersAssumption
<1>2. UNCHANGED <<queueVars, poolVars, destroyed, served, closing, call>>
  BY DEF SetKeepAlive, SetMaximum, SetMinimum
<1>3. QueueTypes' /\ ThreadTypes' /\ Busy' /\ ClosedLate'
  BY <1>2, QueueOperations DEF PoolInv, TypeOK, ThreadTypes, Busy, ClosedLate, queueVars, poolVars
<1>4. SleepersCounted'
  BY <1>2, CountedStill DEF Sleepers, queueVars, poolVars
<1>5. PoolTypes' /\ Limits'
  BY <1>1, <1>2, PoolAssumption
  DEF PoolInv, TypeOK, PoolTypes, Limits, SetKeepAlive, SetMaximum, SetMinimum, poolVars
<1>6. CallerTypes'
  BY <1>2 DEF PoolInv, TypeOK, CallerTypes, SetKeepAlive, SetMaximum, SetMinimum
<1> QED
  BY <1>3, <1>4, <1>5, <1>6 DEF PoolInv, TypeOK

LEMMA DestroyKeeps ==
  ASSUME PoolInv, Destroy \/ Join PROVE PoolInv'
<1>1. UNCHANGED <<queueVars, poolVars, limitVars, served, manager, call>>
  BY DEF Destroy, Join
<1>2. QueueTypes' /\ ThreadTypes' /\ Busy' /\ Limits'
  BY <1>1, QueueOperations
  DEF PoolInv, TypeOK, ThreadTypes, Busy, Limits, queueVars, poolVars, limitVars
<1>3. SleepersCounted'
  BY <1>1, CountedStill DEF Sleepers, queueVars, poolVars
<1>4. PoolTypes' /\ CallerTypes' /\ ClosedLate'
  BY <1>1 DEF PoolInv, TypeOK, PoolTypes, CallerTypes, ClosedLate, Destroy, Join,
     queueVars, poolVars, limitVars
<1> QED
  BY <1>2, <1>3, <1>4 DEF PoolInv, TypeOK

(* Close is the only step that needs Quiet: the pool's flag is up before   *)
(* the queue's.                                                            *)
LEMMA CloseKeeps ==
  ASSUME PoolInv, Quiet, Close PROVE PoolInv'
<1>1. QueueTypes' /\ waitingForTake' = waitingForTake
  BY QueueOperations DEF PoolInv, TypeOK, Close, CloseQueue
<1>2. /\ UNCHANGED <<poolSize, mode, task, expired, limitVars, destroyed, served, manager, call>>
      /\ at' \in [Threads -> Place]
      /\ \A v \in Threads : at'[v] = at[v] \/ (at[v] = "wait" /\ at'[v] = "woken")
  BY DEF PoolInv, TypeOK, ThreadTypes, Close, Place
<1>3. Busy' /\ Sleepers' \subseteq Sleepers
  BY <1>2, WakingKeeps
<1>4. SleepersCounted'
  BY <1>1, <1>3, CountedStill
<1>5. PoolTypes' /\ ThreadTypes' /\ CallerTypes' /\ Limits'
  BY <1>2 DEF PoolInv, TypeOK, PoolTypes, ThreadTypes, CallerTypes, Limits, limitVars, Close
<1>6. ClosedLate'
  BY <1>2 DEF Quiet, Close, ClosedLate
<1> QED
  BY <1>1, <1>3, <1>4, <1>5, <1>6 DEF PoolInv, TypeOK

(***************************************************************************)
(* Quiet is inductive as well.                                             *)
(***************************************************************************)
(* Who works for the pool finds it undestroyed, or not yet joined.         *)
LEMMA Putting ==
  ASSUME Quiet, NEW q \in Requests, PutStep(q)
  PROVE  ~destroyed /\ closing = "no" /\ UNCHANGED restVars
<1>1. ~PoolFree
  BY DEF PutStep, Link, Read, Increment, Signal, Notify, Grow, PoolFree
<1> QED
  BY <1>1 DEF Quiet, PutStep, Link, Read, Increment, Signal, Notify, Grow

LEMMA Working ==
  ASSUME Quiet, NEW w \in Threads, WorkerStep(w) \/ Timeout(w)
  PROVE  closing # "done" /\ UNCHANGED <<destroyed, closing, call>>
<1>1. Alive(w)
  BY DEF WorkerStep, Invoke, GetTask, Extract, Took, Enter, Look, Reenter, WorkerDone, Timeout,
     Alive
<1> QED
  BY <1>1 DEF Quiet, WorkerStep, Invoke, GetTask, Extract, Took, Enter, Look, Reenter,
     WorkerDone, Timeout, restVars

LEMMA Refused ==
  ASSUME Quiet, NEW q \in Requests, Execute(q), destroyed
  PROVE  PoolFree' /\ at' = at
<1>1. PoolFree /\ Step(q, "refused") /\ UNCHANGED poolVars
  BY DEF Execute
<1> QED
  BY <1>1 DEF PoolFree, Step, poolVars

LEMMA QuietKept ==
  ASSUME Quiet, [Next]_vars PROVE Quiet'
<1>1. CASE \E q \in Requests : Execute(q)
  <2>1. PICK q \in Requests : Execute(q)
    BY <1>1
  <2>2. UNCHANGED restVars
    BY <2>1 DEF Execute
  <2>3. CASE destroyed
    BY <2>1, <2>2, <2>3, Refused DEF Quiet, restVars, Alive
  <2>4. CASE ~destroyed
    BY <2>2, <2>4 DEF Quiet, restVars
  <2> QED
    BY <2>3, <2>4
<1>2. CASE \E q \in Requests : PutStep(q)
  BY <1>2, Putting DEF Quiet, restVars
<1>3. CASE \E w \in Threads : WorkerStep(w) \/ Timeout(w)
  BY <1>3, Working DEF Quiet, PoolFree
<1>4. CASE \E m \in Managers : SetKeepAlive(m) \/ SetMaximum(m) \/ SetMinimum(m)
  BY <1>4 DEF Quiet, PoolFree, Alive, SetKeepAlive, SetMaximum, SetMinimum, poolVars
<1>5. CASE Destroy
  BY <1>5 DEF Quiet, Destroy, PoolFree
<1>6. CASE Close
  BY <1>6 DEF Quiet, Close, PoolFree
<1>7. CASE Join
  BY <1>7 DEF Quiet, Join, PoolFree, Alive, poolVars
<1>8. CASE UNCHANGED vars
  BY <1>8 DEF Quiet, PoolFree, Alive, vars, poolVars, restVars
<1> QED
  BY <1>1, <1>2, <1>3, <1>4, <1>5, <1>6, <1>7, <1>8 DEF Next, Idle

LEMMA PoolInvKept ==
  ASSUME PoolInv, Quiet, [Next]_vars PROVE PoolInv'
<1>1. CASE \E q \in Requests : Execute(q) \/ PutStep(q)
  BY <1>1, ExecuteKeeps, QueueingKeeps, NotifyKeeps, GrowKeeps DEF PutStep
<1>2. CASE \E w \in Threads : WorkerStep(w) \/ Timeout(w)
  BY <1>2, InvokeKeeps, WalkKeeps, ExtractKeeps, TookKeeps, EnterKeeps, AwakeKeeps, LookKeeps
  DEF WorkerStep
<1>3. CASE \E m \in Managers : SetKeepAlive(m) \/ SetMaximum(m) \/ SetMinimum(m)
  BY <1>3, ManagerKeeps
<1>4. CASE Destroy \/ Close \/ Join
  BY <1>4, DestroyKeeps, CloseKeeps
<1>5. CASE UNCHANGED vars
  BY <1>5, Unchanged
<1> QED
  BY <1>1, <1>2, <1>3, <1>4, <1>5 DEF Next, Idle

LEMMA PoolInvariant == Spec => [](PoolInv /\ Quiet)
<1>1. Init => PoolInv /\ Quiet
  <2>1. Init => Quiet
    BY DEF Init, Quiet
  <2> QED
    BY <2>1, InitInv
<1>2. PoolInv /\ Quiet /\ [Next]_vars => (PoolInv /\ Quiet)'
  BY PoolInvKept, QuietKept
<1> QED
  BY <1>1, <1>2, PTL DEF Spec

(* Every variable of the pool and its queue keeps its type, and the        *)
(* unsigned counters stay in their range: no worker is created beyond the  *)
(* largest maximum, and waitingForTake_ never goes below zero (addThread,  *)
(* takeRequest, pollRequest).                                              *)
THEOREM PoolTypeCorrect == Spec => []TypeOK
<1>1. PoolInv => TypeOK
  BY DEF PoolInv
<1> QED
  BY <1>1, PoolInvariant, PTL

(* Once destroy has returned, the pool is dead: no thread runs or starts   *)
(* and nothing is invoked (destroy, execute).                              *)
THEOREM QuietForEver == Spec => QuietAfterDestroy
<1>1. ASSUME Quiet, [Next]_vars, closing = "done" PROVE at' = at /\ served' = served
  <2>1. destroyed
    BY <1>1 DEF Quiet
  <2>2. CASE \E q \in Requests : Execute(q)
    BY <1>1, <2>1, <2>2, Refused DEF Execute, restVars
  <2>3. CASE \E q \in Requests : PutStep(q)
    BY <1>1, <2>1, <2>3, Putting
  <2>4. CASE \E w \in Threads : WorkerStep(w) \/ Timeout(w)
    BY <1>1, <2>4, Working
  <2>5. CASE \E m \in Managers : SetKeepAlive(m) \/ SetMaximum(m) \/ SetMinimum(m)
    BY <2>5 DEF SetKeepAlive, SetMaximum, SetMinimum, poolVars
  <2>6. CASE Destroy \/ Close \/ Join
    BY <1>1, <2>6 DEF Destroy, Close, Join
  <2>7. CASE UNCHANGED vars
    BY <2>7 DEF vars, poolVars, restVars
  <2> QED
    BY <1>1, <2>2, <2>3, <2>4, <2>5, <2>6, <2>7 DEF Next, Idle
<1>2. Quiet /\ [Next]_vars => [closing = "done" => at' = at /\ served' = served]_vars
  BY <1>1
<1> QED
  BY <1>2, PoolInvariant, PTL DEF Spec, QuietAfterDestroy

(***************************************************************************)
(* No wake-up is lost, as long as no invocation throws and the maximum is  *)
(* not set below the number of workers: then the first worker never leaves *)
(* (FirstStays), and it is on its way unless it sleeps.                    *)
(***************************************************************************)
Steady == Throwing = {} /\ InitialThreads >= 1

NeverShrunk == poolSize <= maximum

Wakeful == FirstStays /\ NoLostWakeup

LEMMA FirstThread == 1 \in Threads
BY PoolAssumption DEF Threads

LEMMA OneIsThere ==
  ASSUME PoolInv, Wakeful, ~destroyed
  PROVE  /\ 1 <= poolSize
         /\ OnTheWay(1) \/ at[1] = "wait"
<1>1. at[1] \in Place /\ at[1] \notin {"unborn", "ending", "ended"}
  BY FirstThread DEF PoolInv, TypeOK, ThreadTypes, Wakeful, FirstStays
<1>2. 1 <= poolSize
  BY <1>1, FirstThread DEF PoolInv, TypeOK, PoolTypes, Busy
<1> QED
  BY <1>1, <1>2 DEF OnTheWay, Place

(* A new worker is on its way and leaves the first one where it is.        *)
LEMMA AddedIsOnTheWay ==
  ASSUME PoolInv, Wakeful, ~destroyed, poolSize < MaxThreads,
         NEW q, NEW keep, AddThread(q, keep)
  PROVE  /\ \E w \in Threads : OnTheWay(w)'
         /\ at'[1] = at[1] /\ mode'[1] = mode[1]
<1>1. poolSize + 1 \in Threads /\ poolSize + 1 # 1
  BY OneIsThere, PoolAssumption DEF PoolInv, TypeOK, PoolTypes, Threads
<1>2. at'[poolSize + 1] \in {"get", "invoke"}
  BY <1>1 DEF AddThread, PoolInv, TypeOK, ThreadTypes
<1> QED
  BY <1>1, <1>2, FirstThread DEF AddThread, PoolInv, TypeOK, ThreadTypes, OnTheWay

LEMMA ExecuteWakeful ==
  ASSUME PoolInv, Wakeful, ~destroyed, NEW q \in Requests, Execute(q) PROVE Wakeful'
<1>1. UNCHANGED <<queue, destroyed>>
  BY DEF Execute, queueVars, restVars
<1>2. CASE AddThread(q, "forever") /\ poolSize < minimum
  <2>1. poolSize < MaxThreads
    BY <1>2, PoolAssumption DEF PoolInv, TypeOK, PoolTypes, Limits
  <2> QED
    BY <1>1, <1>2, <2>1, AddedIsOnTheWay DEF Wakeful, FirstStays, NoLostWakeup
<1>3. CASE UNCHANGED poolVars
  <2>1. \A p \in Requests : call[p] \in {"read", "increment", "signal", "notify"} => call'[p] = call[p]
    BY DEF Execute, Step, PoolInv, TypeOK, CallerTypes
  <2> QED
    BY <1>1, <1>3, <2>1 DEF Wakeful, FirstStays, NoLostWakeup, OnTheWay, poolVars
<1> QED
  BY <1>2, <1>3 DEF Execute

(* The steps of a put up to the decision to notify.                        *)
LEMMA PutWakeful ==
  ASSUME PoolInv, Wakeful, ~destroyed, NEW q \in Requests,
         Link(q) \/ Read(q) \/ Increment(q) \/ Signal(q)
  PROVE  Wakeful'
<1>1. UNCHANGED <<at, mode, destroyed>>
  BY DEF Link, Read, Increment, Signal, poolVars, restVars
<1>2. FirstStays'
  BY <1>1 DEF Wakeful, FirstStays
<1>3. CASE Link(q) \/ Read(q) \/ Increment(q)
  <2>1. call'[q] \in {"read", "increment", "signal"}
    BY <1>3 DEF Link, Read, Increment, Step, PoolInv, TypeOK, CallerTypes
  <2> QED
    BY <1>2, <2>1 DEF Wakeful, NoLostWakeup
<1>4. CASE Signal(q) /\ waitingForTake > 0
  <2>1. call'[q] = "notify"
    BY <1>4 DEF Signal, Step, PoolInv, TypeOK, CallerTypes
  <2> QED
    BY <1>2, <2>1 DEF Wakeful, NoLostWakeup
<1>5. CASE Signal(q) /\ ~(waitingForTake > 0)
  <2>1. waitingForTake = 0
    BY <1>5 DEF PoolInv, TypeOK, QueueTypes
  <2>2. at[1] # "wait"
    BY <2>1, NoSleeper, FirstThread DEF Sleepers
  <2>3. OnTheWay(1)'
    BY <1>1, <2>2, OneIsThere DEF OnTheWay
  <2> QED
    BY <1>2, <2>3, FirstThread DEF Wakeful, NoLostWakeup
<1> QED
  BY <1>3, <1>4, <1>5

LEMMA NotifyWakeful ==
  ASSUME PoolInv, Wakeful, ~destroyed, NEW q \in Requests, Notify(q) PROVE Wakeful'
<1>1. UNCHANGED <<mode, destroyed>> /\ at \in [Threads -> Place] /\ NotifyOne(at)
  BY DEF Notify, restVars, PoolInv, TypeOK, ThreadTypes
<1>2. \A v \in Threads : at'[v] = at[v] \/ (at[v] = "wait" /\ at'[v] = "woken")
  BY <1>1, NotifyWakes
<1>3. FirstStays'
  BY <1>1, <1>2, FirstThread DEF Wakeful, FirstStays
<1>4. \E w \in Threads : OnTheWay(w)'
  <2>1. CASE Notified(at) = {}
    <3>1. at' = at
      BY <1>1, <2>1 DEF NotifyOne
    <3>2. at[1] # "wait"
      BY <2>1, FirstThread DEF Notified
    <3> QED
      BY <3>1, <3>2, OneIsThere, FirstThread DEF OnTheWay
  <2>2. CASE Notified(at) # {}
    <3>1. PICK w \in Threads : at' = [at EXCEPT ![w] = "woken"]
      BY <1>1, <2>2 DEF NotifyOne, Notified
    <3> QED
      BY <1>1, <3>1 DEF OnTheWay
  <2> QED
    BY <2>1, <2>2
<1> QED
  BY <1>3, <1>4 DEF Wakeful, NoLostWakeup

LEMMA GrowWakeful ==
  ASSUME PoolInv, Wakeful, ~destroyed, NEW q \in Requests, Grow(q) PROVE Wakeful'
<1>1. UNCHANGED <<queue, destroyed>>
  BY DEF Grow, queueVars, restVars
<1>2. CASE AddThread(NoTask, keepAlive) /\ poolSize < maximum
  <2>1. poolSize < MaxThreads
    BY <1>2, PoolAssumption DEF PoolInv, TypeOK, PoolTypes
  <2> QED
    BY <1>1, <1>2, <2>1, AddedIsOnTheWay DEF Wakeful, FirstStays, NoLostWakeup
<1>3. CASE UNCHANGED poolVars
  <2>1. \A p \in Requests : call[p] \in {"read", "increment", "signal", "notify"} => call'[p] = call[p]
    BY DEF Grow, Step, PoolInv, TypeOK, CallerTypes
  <2> QED
    BY <1>1, <1>3, <2>1 DEF Wakeful, FirstStays, NoLostWakeup, OnTheWay, poolVars
<1> QED
  BY <1>2, <1>3 DEF Grow

(* A worker that moves to a place on the way.                              *)
LEMMA MovesOn ==
  ASSUME PoolInv, Wakeful, NEW w \in Threads, NEW place,
         place \in {"invoke", "get", "extract", "enter", "look", "took", "tookLocked", "woken"},
         Move(w, place), UNCHANGED <<mode, destroyed>>
  PROVE  Wakeful'
<1>1. at'[w] = place /\ \A v \in Threads : v # w => at'[v] = at[v]
  BY DEF PoolInv, TypeOK, ThreadTypes, Move
<1>2. OnTheWay(w)'
  BY <1>1 DEF OnTheWay
<1>3. FirstStays'
  BY <1>1, FirstThread DEF Wakeful, FirstStays
<1> QED
  BY <1>2, <1>3 DEF Wakeful, NoLostWakeup

LEMMA LookWakeful ==
  ASSUME PoolInv, Wakeful, ~destroyed, NEW w \in Threads, Look(w) PROVE Wakeful'
<1>1. UNCHANGED <<mode, destroyed>>
  BY DEF Look, restVars
<1>2. CASE queue # << >>
  BY <1>1, <1>2, MovesOn DEF Look
<1>3. CASE queue = << >>
  <2>1. queue' = << >>
    BY <1>3 DEF Look, queueVars, StopWaiting
  <2>2. ~closed
    BY DEF PoolInv, ClosedLate
  <2>3. w = 1 => Move(w, "wait")
    BY <1>3, <2>2 DEF Look, Wakeful, FirstStays
  <2>4. PICK place : Move(w, place)
    BY <1>3, <2>2 DEF Look
  <2>5. FirstStays'
    BY <1>1, <2>3, <2>4, FirstThread DEF Wakeful, FirstStays, Move, PoolInv, TypeOK, ThreadTypes
  <2> QED
    BY <2>1, <2>5 DEF Wakeful, NoLostWakeup
<1> QED
  BY <1>2, <1>3

LEMMA WorkerDoneWakeful ==
  ASSUME PoolInv, Wakeful, ~destroyed, NEW w \in Threads, WorkerDone(w) PROVE Wakeful'
<1>1. at[w] = "ending" /\ Move(w, "ended") /\ UNCHANGED <<queue, call, mode, destroyed>>
  BY DEF WorkerDone, queueVars, restVars
<1>2. at'[w] = "ended" /\ \A v \in Threads : v # w => at'[v] = at[v]
  BY <1>1 DEF PoolInv, TypeOK, ThreadTypes, Move
<1>3. w # 1
  BY <1>1 DEF Wakeful, FirstStays
<1>4. \A v \in Threads : OnTheWay(v) => OnTheWay(v)'
  BY <1>1, <1>2 DEF OnTheWay
<1> QED
  BY <1>1, <1>2, <1>3, <1>4, FirstThread DEF Wakeful, FirstStays, NoLostWakeup

LEMMA WorkerWakeful ==
  ASSUME PoolInv, Wakeful, Steady, NeverShrunk, ~destroyed,
         NEW w \in Threads, WorkerStep(w) \/ Timeout(w)
  PROVE  Wakeful'
<1>1. CASE Invoke(w)
  BY <1>1, MovesOn DEF Invoke, Steady
<1>2. CASE GetTask(w)
  <2>1. Move(w, "extract") /\ UNCHANGED <<mode, destroyed>>
    BY <1>2 DEF GetTask, NeverShrunk, restVars, PoolInv, TypeOK, PoolTypes
  <2> QED
    BY <2>1, MovesOn
<1>3. CASE Extract(w)
  <2>1. PICK place \in {"enter", "took"} : Move(w, place)
    BY <1>3 DEF Extract
  <2> QED
    BY <1>3, <2>1, MovesOn DEF Extract, restVars
<1>4. CASE Took(w) \/ Enter(w) \/ Timeout(w) \/ Reenter(w)
  BY <1>4, MovesOn DEF Took, Enter, Timeout, Reenter, restVars
<1>5. CASE Look(w) \/ WorkerDone(w)
  BY <1>5, LookWakeful, WorkerDoneWakeful
<1> QED
  BY <1>1, <1>2, <1>3, <1>4, <1>5 DEF WorkerStep

LEMMA WakefulKept ==
  ASSUME PoolInv, Quiet, Wakeful, Steady, NeverShrunk, [Next]_vars PROVE Wakeful'
<1>1. CASE destroyed
  <2>1. destroyed'
    <3>1. ASSUME NEW w \in Threads, WorkerStep(w) \/ Timeout(w) PROVE destroyed' = destroyed
      BY <3>1, Working
    <3>2. ASSUME NEW q \in Requests, PutStep(q) PROVE destroyed' = destroyed
      BY <3>2, Putting DEF restVars
    <3> QED
      BY <1>1, <3>1, <3>2 DEF Next, Idle, Execute, SetKeepAlive, SetMaximum, SetMinimum,
         Destroy, Close, Join, vars, restVars
  <2> QED
    BY <2>1 DEF Wakeful, FirstStays, NoLostWakeup
<1>2. CASE ~destroyed
  <2>1. CASE \E q \in Requests : Execute(q) \/ PutStep(q)
    BY <1>2, <2>1, ExecuteWakeful, PutWakeful, NotifyWakeful, GrowWakeful DEF PutStep
  <2>2. CASE \E w \in Threads : WorkerStep(w) \/ Timeout(w)
    BY <1>2, <2>2, WorkerWakeful
  <2>3. CASE \E m \in Managers : SetKeepAlive(m) \/ SetMaximum(m) \/ SetMinimum(m)
    BY <2>3 DEF SetKeepAlive, SetMaximum, SetMinimum, queueVars, poolVars,
       Wakeful, FirstStays, NoLostWakeup, OnTheWay
  <2>4. CASE Destroy
    BY <2>4 DEF Destroy, Wakeful, FirstStays, NoLostWakeup
  <2>5. ~Close /\ ~Join
    BY <1>2 DEF Quiet, Close, Join
  <2>6. CASE UNCHANGED vars
    BY <2>6 DEF vars, queueVars, poolVars, restVars, Wakeful, FirstStays, NoLostWakeup, OnTheWay
  <2> QED
    BY <2>1, <2>2, <2>3, <2>4, <2>5, <2>6 DEF Next, Idle
<1> QED
  BY <1>1, <1>2

(* As long as the maximum is never set below the number of workers, a      *)
(* request in the queue of a living pool is always seen: the unlocked read *)
(* of waitingForTake_ in addRequest loses no wake-up, however many threads *)
(* put and take at once (addRequest, takeRequest, pollRequest).            *)
THEOREM WakeupsAreKept ==
  ASSUME Steady PROVE Spec /\ []NeverShrunk => []NoLostWakeup
<1>1. Init => Wakeful
  BY FirstThread DEF Init, QueueInit, Wakeful, FirstStays, NoLostWakeup, Steady
<1>2. PoolInv /\ Quiet /\ Wakeful /\ NeverShrunk /\ [Next]_vars => Wakeful'
  BY WakefulKept
<1>3. Wakeful => NoLostWakeup
  BY DEF Wakeful
<1> QED
  BY <1>1, <1>2, <1>3, PoolInvariant, PTL DEF Spec

(***************************************************************************)
(* A request is in one place: OnePlace is inductive on top of PoolInv.     *)
(***************************************************************************)
(* What OnePlace reads.                                                    *)
LEMMA Places ==
  ASSUME PoolInv
  PROVE  /\ queue \in Seq(Requests) /\ Len(queue) \in Nat /\ DOMAIN queue = 1..Len(queue)
         /\ \A i \in 1..Len(queue) : queue[i] \in Requests
         /\ task \in [Threads -> Requests \cup {NoTask}] /\ at \in [Threads -> Place]
         /\ served \in [Requests -> Nat] /\ call \in [Requests -> Stage]
         /\ \A q \in Requests : q # NoTask
BY RequestsAssumption DEF PoolInv, TypeOK, QueueTypes, ThreadTypes, CallerTypes

(* Nothing moves, and nobody learns that it does.                          *)
LEMMA PlacesKept ==
  ASSUME PoolInv, OnePlace, UNCHANGED <<queue, task, served>>,
         \A q \in Requests : Taken(q) <=> Taken(q)'
  PROVE  OnePlace'
BY DEF OnePlace, Queued, InHand

(* A request stays on its way while its call goes on.                      *)
LEMMA CallGoesOn ==
  ASSUME PoolInv, NEW q \in Requests, NEW stage, Step(q, stage),
         call[q] \in {"new", "link", "refused"} <=> stage \in {"new", "link", "refused"}
  PROVE  \A p \in Requests : Taken(p) <=> Taken(p)'
BY Places DEF Step, Taken

(* A new worker begins with a request that was nowhere.                    *)
LEMMA HandedOver ==
  ASSUME PoolInv, OnePlace, NEW q \in Requests, ~Taken(q), Step(q, "accepted"),
         poolSize < MaxThreads, UNCHANGED <<queue, served>>,
         task' = [task EXCEPT ![poolSize + 1] = q]
  PROVE  OnePlace'
<1>1. poolSize + 1 \in Threads /\ at[poolSize + 1] = "unborn" /\ task[poolSize + 1] = NoTask
  BY PoolAssumption DEF PoolInv, TypeOK, PoolTypes, Threads, Busy
<1>2. \A p \in Requests : Taken(p)' <=> Taken(p) \/ p = q
  BY Places DEF Step, Taken
<1>3. \A w \in Threads : task'[w] = IF w = poolSize + 1 THEN q ELSE task[w]
  BY Places
<1>4. \A p \in Requests : InHand(p)' <=> InHand(p) \/ p = q
  BY <1>1, <1>3, Places DEF InHand
<1>5. \A p \in Requests : Queued(p)' <=> Queued(p)
  BY DEF Queued
<1>6. served[q] # 1 /\ ~Queued(q) /\ ~InHand(q)
  BY DEF OnePlace
<1>7. \A v, w \in Threads : task'[v] = task'[w] /\ task'[v] # NoTask => v = w
  BY <1>1, <1>3, <1>6 DEF OnePlace, InHand
<1> QED
  BY <1>2, <1>4, <1>5, <1>6, <1>7 DEF OnePlace

(* A request that was nowhere is linked.                                   *)
LEMMA LinkedOnce ==
  ASSUME PoolInv, OnePlace, NEW q \in Requests, Link(q) PROVE OnePlace'
<1>1. /\ queue' = Append(queue, q) /\ UNCHANGED <<task, served>>
      /\ Step(q, "read") /\ ~Taken(q)
  BY DEF Link, LinkLast, poolVars, restVars, Taken
<1>2. \A p \in Requests : Taken(p)' <=> Taken(p) \/ p = q
  BY <1>1, Places DEF Step, Taken
<1>3. /\ DOMAIN queue' = 1..(Len(queue) + 1) /\ Len(queue) \in Nat
      /\ DOMAIN queue = 1..Len(queue)
      /\ queue'[Len(queue) + 1] = q
      /\ \A i \in 1..Len(queue) : queue'[i] = queue[i]
  BY <1>1, Places
<1>4. \A p \in Requests : Queued(p)' <=> Queued(p) \/ p = q
  BY <1>3 DEF Queued
<1>5. \A p \in Requests : InHand(p)' <=> InHand(p)
  BY <1>1 DEF InHand
<1>6. served[q] # 1 /\ ~Queued(q) /\ ~InHand(q)
  BY <1>1 DEF OnePlace
<1>7. \A i, j \in DOMAIN queue' : queue'[i] = queue'[j] => i = j
  <2> SUFFICES ASSUME NEW i \in 1..(Len(queue) + 1), NEW j \in 1..(Len(queue) + 1),
                      queue'[i] = queue'[j]
               PROVE  i = j
    BY <1>3
  <2>1. CASE i \in 1..Len(queue) /\ j \in 1..Len(queue)
    BY <1>3, <2>1 DEF OnePlace
  <2>2. \A k \in 1..Len(queue) : queue'[k] # q
    BY <1>3, <1>6 DEF Queued
  <2> QED
    BY <1>3, <2>1, <2>2
<1> QED
  BY <1>1, <1>2, <1>4, <1>5, <1>6, <1>7 DEF OnePlace

(* A worker takes the head of the queue.                                   *)
LEMMA TakenOnce ==
  ASSUME PoolInv, OnePlace, NEW w \in Threads, task[w] = NoTask, queue # << >>,
         UnlinkFirst, task' = [task EXCEPT ![w] = Head(queue)], UNCHANGED <<served, call>>
  PROVE  OnePlace'
<1> DEFINE q == Head(queue)
<1>1. /\ q \in Requests /\ q = queue[1] /\ 1 \in DOMAIN queue
      /\ Len(queue) \in Nat /\ DOMAIN queue = 1..Len(queue)
      /\ DOMAIN queue' = 1..(Len(queue) - 1)
      /\ \A i \in 1..(Len(queue) - 1) : queue'[i] = queue[i + 1]
  BY Places DEF UnlinkFirst
<1> HIDE DEF q
<1>2. \A v \in Threads : task'[v] = IF v = w THEN q ELSE task[v]
  BY Places DEF q
<1>3. \A p \in Requests : InHand(p)' <=> InHand(p) \/ p = q
  BY <1>2, Places DEF InHand
<1>4. \A p \in Requests : Queued(p)' <=> Queued(p) /\ p # q
  <2> TAKE p \in Requests
  <2>1. ASSUME Queued(p)' PROVE Queued(p) /\ p # q
    <3>1. PICK i \in 1..(Len(queue) - 1) : queue[i + 1] = p
      BY <1>1, <2>1 DEF Queued
    <3>2. i + 1 \in DOMAIN queue /\ i + 1 # 1
      BY <1>1
    <3> QED
      BY <1>1, <3>1, <3>2 DEF Queued, OnePlace
  <2>2. ASSUME Queued(p), p # q PROVE Queued(p)'
    <3>1. PICK i \in 1..Len(queue) : queue[i] = p
      BY <1>1, <2>2 DEF Queued
    <3>2. i - 1 \in 1..(Len(queue) - 1) /\ (i - 1) + 1 = i
      BY <1>1, <2>2, <3>1
    <3> QED
      BY <1>1, <3>1, <3>2 DEF Queued
  <2> QED
    BY <2>1, <2>2
<1>5. Queued(q) /\ served[q] # 1 /\ ~InHand(q)
  BY <1>1 DEF Queued, OnePlace
<1>6. \A u, v \in Threads : task'[u] = task'[v] /\ task'[u] # NoTask => u = v
  BY <1>2, <1>5 DEF OnePlace, InHand
<1>7. \A i, j \in DOMAIN queue' : queue'[i] = queue'[j] => i = j
  <2> SUFFICES ASSUME NEW i \in 1..(Len(queue) - 1), NEW j \in 1..(Len(queue) - 1),
                      queue[i + 1] = queue[j + 1]
               PROVE  i = j
    BY <1>1
  <2>1. i + 1 \in DOMAIN queue /\ j + 1 \in DOMAIN queue
    BY <1>1
  <2>2. i + 1 = j + 1
    BY <2>1 DEF OnePlace
  <2> QED
    BY <2>2
<1>8. \A p \in Requests : Taken(p)' <=> Taken(p)
  BY DEF Taken
<1> QED
  BY <1>3, <1>4, <1>5, <1>6, <1>7, <1>8 DEF OnePlace

(* The request in the hand of a worker is invoked.                         *)
LEMMA InvokedOnce ==
  ASSUME PoolInv, OnePlace, NEW w \in Threads, Invoke(w) PROVE OnePlace'
<1> DEFINE q == task[w]
<1>1. /\ q \in Requests /\ q # NoTask
      /\ served' = [served EXCEPT ![q] = @ + 1] /\ task' = [task EXCEPT ![w] = NoTask]
      /\ UNCHANGED <<queue, call>>
  BY Places DEF Invoke, PoolInv, Busy, queueVars
<1> HIDE DEF q
<1>2. \A v \in Threads : task'[v] = IF v = w THEN NoTask ELSE task[v]
  BY <1>1, Places
<1>3. \A p \in Requests : InHand(p)' <=> InHand(p) /\ p # q
  BY <1>1, <1>2, Places DEF InHand, q, OnePlace
<1>4. \A p \in Requests : (Queued(p)' <=> Queued(p)) /\ (Taken(p)' <=> Taken(p))
  BY <1>1 DEF Queued, Taken
<1>5. InHand(q) /\ ~Queued(q) /\ served[q] = 0
  BY <1>1 DEF InHand, OnePlace, q
<1>6. \A p \in Requests : served'[p] = IF p = q THEN 1 ELSE served[p]
  BY <1>1, <1>5, Places
<1>7. \A u, v \in Threads : task'[u] = task'[v] /\ task'[u] # NoTask => u = v
  BY <1>2 DEF OnePlace
<1> QED
  BY <1>1, <1>3, <1>4, <1>5, <1>6, <1>7 DEF OnePlace

LEMMA OnePlacePut ==
  ASSUME PoolInv, OnePlace, NEW q \in Requests, Execute(q) \/ PutStep(q) PROVE OnePlace'
<1>1. CASE Execute(q)
  <2>1. UNCHANGED <<queue, served>> /\ ~Taken(q)
    BY <1>1 DEF Execute, queueVars, restVars, Taken
  <2>2. CASE AddThread(q, "forever") /\ Step(q, "accepted") /\ poolSize < minimum
    <3>1. poolSize < MaxThreads
      BY <2>2, PoolAssumption DEF PoolInv, TypeOK, PoolTypes, Limits
    <3> QED
      BY <2>1, <2>2, <3>1, HandedOver DEF AddThread
  <2>3. ASSUME NEW stage \in {"refused", "link"}, UNCHANGED poolVars, Step(q, stage)
        PROVE  OnePlace'
    BY <1>1, <2>1, <2>3, CallGoesOn, PlacesKept DEF poolVars, Execute
  <2> QED
    BY <1>1, <2>2, <2>3 DEF Execute
<1>2. CASE Link(q)
  BY <1>2, LinkedOnce
<1>3. CASE Read(q) \/ Increment(q) \/ Signal(q) \/ Notify(q)
  <2>1. PICK stage \in {"increment", "signal", "notify", "grow"} : Step(q, stage)
    BY <1>3 DEF Read, Increment, Signal, Notify
  <2>2. UNCHANGED <<queue, task, served>> /\ call[q] \notin {"new", "link", "refused"}
    BY <1>3 DEF Read, ReadSize, Increment, IncrementSize, Signal, Notify, queueVars,
       poolVars, restVars
  <2> QED
    BY <2>1, <2>2, CallGoesOn, PlacesKept
<1>4. CASE Grow(q)
  <2>1. /\ UNCHANGED <<queue, served>> /\ Step(q, "accepted")
        /\ call[q] \notin {"new", "link", "refused"}
    BY <1>4 DEF Grow, queueVars, restVars
  <2>2. task' = task
    <3>1. CASE AddThread(NoTask, keepAlive) /\ poolSize < maximum
      <4>1. task[poolSize + 1] = NoTask
        BY <3>1, PoolAssumption DEF PoolInv, TypeOK, PoolTypes, Threads, Busy
      <4> QED
        BY <3>1, <4>1, Places DEF AddThread
    <3>2. CASE UNCHANGED poolVars
      BY <3>2 DEF poolVars
    <3> QED
      BY <1>4, <3>1, <3>2 DEF Grow
  <2> QED
    BY <2>1, <2>2, CallGoesOn, PlacesKept
<1> QED
  BY <1>1, <1>2, <1>3, <1>4 DEF PutStep

LEMMA OnePlaceWork ==
  ASSUME PoolInv, OnePlace, NEW w \in Threads, WorkerStep(w) \/ Timeout(w) PROVE OnePlace'
<1>1. CASE Invoke(w)
  BY <1>1, InvokedOnce
<1>2. CASE UNCHANGED <<queue, task, served, call>>
  BY <1>2, PlacesKept DEF Taken
<1>3. CASE (Extract(w) \/ Look(w)) /\ queue # << >>
  <2>1. task[w] = NoTask
    BY <1>3 DEF Extract, Look, PoolInv, Busy
  <2> QED
    BY <1>3, <2>1, TakenOnce DEF Extract, Look, restVars
<1>4. CASE (Extract(w) \/ Look(w)) /\ queue = << >>
  <2>1. UNCHANGED <<queue, task, served, call>>
    BY <1>4 DEF Extract, Look, queueVars, restVars, StopWaiting
  <2> QED
    BY <1>2, <2>1
<1> QED
  BY <1>1, <1>2, <1>3, <1>4
     DEF WorkerStep, GetTask, Took, DecrementSize, Enter, StartWaiting, Reenter, WorkerDone,
         Timeout, queueVars, restVars

LEMMA OnePlaceStep == PoolInv /\ OnePlace /\ [Next]_vars => OnePlace'
<1> SUFFICES ASSUME PoolInv, OnePlace, [Next]_vars PROVE OnePlace'
  OBVIOUS
<1>1. CASE \E q \in Requests : Execute(q) \/ PutStep(q)
  BY <1>1, OnePlacePut
<1>2. CASE \E w \in Threads : WorkerStep(w) \/ Timeout(w)
  BY <1>2, OnePlaceWork
<1>3. CASE UNCHANGED <<queue, task, served, call>>
  BY <1>3, PlacesKept DEF Taken
<1> QED
  BY <1>1, <1>2, <1>3
     DEF Next, Idle, SetKeepAlive, SetMaximum, SetMinimum, Destroy, Close, CloseQueue, Join,
         vars, queueVars, poolVars, restVars

LEMMA OnePlaceInit == Init => OnePlace
<1> SUFFICES ASSUME Init PROVE OnePlace
  OBVIOUS
<1>1. /\ queue = << >> /\ DOMAIN queue = {} /\ task = [w \in Threads |-> NoTask]
      /\ \A q \in Requests : served[q] = 0 /\ call[q] = "new" /\ q # NoTask
  BY RequestsAssumption DEF Init, QueueInit
<1> QED
  BY <1>1 DEF OnePlace, Queued, InHand, Taken

(* Counting the places of which there is one at most.                      *)
LEMMA CountOfOne ==
  ASSUME NEW S, \A x, y \in S : x = y
  PROVE  Cardinality(S) = IF S = {} THEN 0 ELSE 1
<1>1. CASE S = {}
  BY <1>1, FS_EmptySet
<1>2. CASE S # {}
  <2>1. PICK x : S = {x}
    BY <1>2
  <2> QED
    BY <2>1, FS_Singleton
<1> QED
  BY <1>1, <1>2

LEMMA CountPlaces == PoolInv /\ OnePlace => KeptOnce
<1> SUFFICES ASSUME PoolInv, OnePlace, NEW q \in Requests
             PROVE  served[q] + Cardinality({i \in DOMAIN queue : queue[i] = q})
                              + Cardinality({w \in Threads : task[w] = q})
                      = IF Taken(q) THEN 1 ELSE 0
  BY DEF KeptOnce
<1>1. Cardinality({i \in DOMAIN queue : queue[i] = q}) = IF Queued(q) THEN 1 ELSE 0
  <2> DEFINE S == {i \in DOMAIN queue : queue[i] = q}
  <2>1. \A i, j \in S : i = j
    BY DEF OnePlace
  <2>2. S = {} <=> ~Queued(q)
    BY DEF Queued
  <2> HIDE DEF S
  <2> QED
    BY <2>1, <2>2, CountOfOne DEF S
<1>2. Cardinality({w \in Threads : task[w] = q}) = IF InHand(q) THEN 1 ELSE 0
  <2> DEFINE S == {w \in Threads : task[w] = q}
  <2>1. \A v, w \in S : v = w
    BY Places DEF OnePlace
  <2>2. S = {} <=> ~InHand(q)
    BY DEF InHand
  <2> HIDE DEF S
  <2> QED
    BY <2>1, <2>2, CountOfOne DEF S
<1> QED
  BY <1>1, <1>2 DEF OnePlace

(* The pool neither loses nor repeats a request, for any number of callers *)
(* and workers that put and take at once, limits that change and a destroy *)
(* at any moment: a request is in the queue, in the hand of one worker or  *)
(* was invoked, and in one of these only (execute, addThread, extract).    *)
THEOREM RequestsAreKept == Spec => []KeptOnce
<1>1. Spec => []OnePlace
  BY OnePlaceInit, OnePlaceStep, PoolInvariant, PTL DEF Spec
<1> QED
  BY <1>1, PoolInvariant, CountPlaces, PTL
=============================================================================
