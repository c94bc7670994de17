----------------------------- MODULE ThreadPool -----------------------------
(***************************************************************************)
(* The thread pool of a container run time: CustomThreadPool and its       *)
(* ThreadPoolDispatcher threads (ccm/src/AppSvr/CustomThreadPool.cpp and   *)
(* .h) over RequestQueue.                                                  *)
(*                                                                         *)
(* A request is a thread of the ORB in execute, until it is handed off;    *)
(* call[q] is its place.  A worker is a thread of the pool; at[w] is its   *)
(* place.  Workers are numbered in the order of their creation, and        *)
(* poolSize_ is never decremented, so it is the number of the last one.    *)
(* The locks are not variables: a thread holds the pool's monitor, the     *)
(* queue's monitor putLock_ or its headMutex_ exactly at certain places,   *)
(* and no thread enters such a place while another one is there.           *)
(***************************************************************************)
EXTENDS RequestQueue, FiniteSets

CONSTANTS
    MaxThreads,       \* bound: workers ever created
    InitialThreads,   \* workers created with the container (createThreads)
    InitialMinimum,   \* minimumPoolSize_ at first
    InitialMaximum,   \* maximumPoolSize_ at first
    InitialKeepAlive, \* the kind of keepAliveTime_ at first
    Managers,         \* calls of SetThreadPoolInfor
    Setting,          \* the numbers each of those brings
    Throwing,         \* requests whose invocation throws
    NoTask            \* a worker without a request

Threads == 1..MaxThreads

(* A negative keep-alive time means to wait for ever, zero not to wait.    *)
KeepAlive == {"forever", "timed", "once"}

ASSUME PoolAssumption ==
    /\ MaxThreads \in Nat
    /\ InitialThreads \in 0..InitialMaximum
    /\ InitialMaximum \in 1..MaxThreads
    /\ InitialMinimum \in 1..InitialMaximum
    /\ InitialKeepAlive \in KeepAlive

ASSUME ManagersAssumption ==
    Setting \in [Managers -> [keep : KeepAlive, max : 0..MaxThreads, min : Nat]]

ASSUME RequestsAssumption ==
    /\ NoTask \notin Requests
    /\ Throwing \subseteq Requests

VARIABLES
    destroyed, \* the member destroy_ of the pool
    poolSize,  \* poolSize_
    minimum,   \* minimumPoolSize_
    maximum,   \* maximumPoolSize_
    keepAlive, \* keepAliveTime_
    at,        \* where each worker is
    mode,      \* keepAliveTime_ of each worker
    task,      \* the request each worker has in hand
    expired,   \* its poll has used up its waiting time
    call,      \* where each request is in execute
    served,    \* how often each request was invoked
    manager,   \* where each call of SetThreadPoolInfor is
    closing    \* where the call of destroy is

poolVars == <<poolSize, at, mode, task, expired>>
limitVars == <<minimum, maximum, keepAlive>>
restVars == <<destroyed, served, manager, closing>>
vars == <<queueVars, poolVars, limitVars, restVars, call>>

Place ==
    {"unborn", "invoke", "get", "extract", "enter", "look", "took",
     "tookLocked", "wait", "woken", "ending", "ended"}

Stage ==
    {"new", "link", "read", "increment", "signal", "notify", "grow", "accepted",
     "refused"}

Init ==
    /\ QueueInit
    /\ destroyed = FALSE
    /\ poolSize = InitialThreads
    /\ minimum = InitialMinimum
    /\ maximum = InitialMaximum
    /\ keepAlive = InitialKeepAlive
    /\ at = [w \in Threads |-> IF w <= InitialThreads THEN "get" ELSE "unborn"]
    /\ mode = [w \in Threads |-> "forever"]
    /\ task = [w \in Threads |-> NoTask]
    /\ expired = [w \in Threads |-> FALSE]
    /\ call = [q \in Requests |-> "new"]
    /\ served = [q \in Requests |-> 0]
    /\ manager = [m \in Managers |-> "keep"]
    /\ closing = "no"
-----------------------------------------------------------------------------
(* The monitor of the pool is held through the whole of execute, the       *)
(* monitor of the queue by a worker that looks for work before it sleeps,  *)
(* headMutex_ inside extract.                                              *)
PoolFree ==
    \A q \in Requests :
      call[q] \notin {"link", "read", "increment", "signal", "notify", "grow"}

PutLockFree == \A w \in Threads : at[w] \notin {"look", "tookLocked"}

HeadFree == \A w \in Threads : at[w] \notin {"took", "tookLocked"}

Move(w, place) == at' = [at EXCEPT ![w] = place]

Step(q, stage) == call' = [call EXCEPT ![q] = stage]

(* notify on putLock_: one of the sleeping workers wakes, if there is one. *)
Notified(place) ==
    {[place EXCEPT ![w] = "woken"] : w \in {v \in Threads : place[v] = "wait"}}

NotifyOne(place) ==
    IF Notified(place) = {} THEN at' = place ELSE at' \in Notified(place)

(* addThread: the thread starts with a request or goes to ask for one.     *)
AddThread(q, keep) ==
    /\ poolSize' = poolSize + 1
    /\ at' = [at EXCEPT ![poolSize + 1] = IF q = NoTask THEN "get" ELSE "invoke"]
    /\ task' = [task EXCEPT ![poolSize + 1] = q]
    /\ mode' = [mode EXCEPT ![poolSize + 1] = keep]
    /\ UNCHANGED expired
-----------------------------------------------------------------------------
(* Mutants of Execute: the request that starts a worker is queued as well; *)
(* the flag of destroy is not looked at.                                   *)
ExecuteTwice(q) ==
    /\ call[q] = "new"
    /\ PoolFree
    /\ IF destroyed
       THEN Step(q, "refused") /\ UNCHANGED poolVars
       ELSE /\ Step(q, "link")
            /\ IF poolSize < minimum THEN AddThread(q, "forever")
                                     ELSE UNCHANGED poolVars
    /\ UNCHANGED <<queueVars, limitVars, restVars>>

ExecuteUnchecked(q) ==
    /\ call[q] = "new"
    /\ PoolFree
    /\ IF poolSize < minimum
       THEN AddThread(q, "forever") /\ Step(q, "accepted")
       ELSE Step(q, "link") /\ UNCHANGED poolVars
    /\ UNCHANGED <<queueVars, limitVars, restVars>>

(* execute                                                                 *)
Execute(q) ==
    /\ call[q] = "new"
    /\ PoolFree
    /\ \/ destroyed /\ Step(q, "refused") /\ UNCHANGED poolVars
       \/ /\ ~destroyed
          /\ poolSize < minimum
          /\ AddThread(q, "forever")
          /\ Step(q, "accepted")
       \/ /\ ~destroyed
          /\ poolSize >= minimum
          /\ Step(q, "link")
          /\ UNCHANGED poolVars
    /\ UNCHANGED <<queueVars, limitVars, restVars>>

Link(q) ==
    /\ call[q] = "link"
    /\ LinkLast(q)
    /\ Step(q, "read")
    /\ UNCHANGED <<poolVars, limitVars, restVars>>

Read(q) ==
    /\ call[q] = "read"
    /\ ReadSize
    /\ Step(q, "increment")
    /\ UNCHANGED <<poolVars, limitVars, restVars>>

Increment(q) ==
    /\ call[q] = "increment"
    /\ IncrementSize
    /\ Step(q, "signal")
    /\ UNCHANGED <<poolVars, limitVars, restVars>>

(* Mutant of Signal: a single sleeper is overlooked.                       *)
SignalStrict(q) ==
    /\ call[q] = "signal"
    /\ Step(q, IF waitingForTake > 1 THEN "notify" ELSE "grow")
    /\ UNCHANGED <<queueVars, poolVars, limitVars, restVars>>

(* waitingForTake_ is read without a lock.                                 *)
Signal(q) ==
    /\ call[q] = "signal"
    /\ Step(q, IF waitingForTake > 0 THEN "notify" ELSE "grow")
    /\ UNCHANGED <<queueVars, poolVars, limitVars, restVars>>

Notify(q) ==
    /\ call[q] = "notify"
    /\ PutLockFree
    /\ NotifyOne(at)
    /\ Step(q, "grow")
    /\ UNCHANGED <<queueVars, poolSize, mode, task, expired, limitVars, restVars>>

Grow(q) ==
    /\ call[q] = "grow"
    /\ IF IsLong /\ poolSize < maximum THEN AddThread(NoTask, keepAlive)
                                       ELSE UNCHANGED poolVars
    /\ Step(q, "accepted")
    /\ UNCHANGED <<queueVars, limitVars, restVars>>
-----------------------------------------------------------------------------
(* The run loop of a worker.  An exception of the request ends it.         *)
Invoke(w) ==
    /\ at[w] = "invoke"
    /\ served' = [served EXCEPT ![task[w]] = @ + 1]
    /\ task' = [task EXCEPT ![w] = NoTask]
    /\ Move(w, IF task[w] \in Throwing THEN "ending" ELSE "get")
    /\ UNCHANGED <<queueVars, poolSize, mode, expired, limitVars, destroyed,
                   manager, closing, call>>

GetTask(w) ==
    /\ at[w] = "get"
    /\ PoolFree
    /\ Move(w, IF destroyed \/ poolSize > maximum THEN "ending" ELSE "extract")
    /\ UNCHANGED <<queueVars, poolSize, mode, task, expired, limitVars, restVars, call>>

(* The first extract of takeRequest and pollRequest holds headMutex_ only. *)
Extract(w) ==
    /\ at[w] = "extract"
    /\ HeadFree
    /\ IF queue = << >>
       THEN /\ Move(w, "enter")
            /\ UNCHANGED <<queueVars, task>>
       ELSE /\ UnlinkFirst
            /\ task' = [task EXCEPT ![w] = Head(queue)]
            /\ Move(w, "took")
    /\ UNCHANGED <<poolSize, mode, expired, limitVars, restVars, call>>

Took(w) ==
    /\ at[w] \in {"took", "tookLocked"}
    /\ DecrementSize
    /\ waitingForTake' = IF at[w] = "took" THEN waitingForTake ELSE waitingForTake - 1
    /\ Move(w, "invoke")
    /\ UNCHANGED <<poolSize, mode, task, expired, limitVars, restVars, call>>

(* Mutants of Enter: the sleeper is not counted; it sleeps without another *)
(* look at the queue.                                                      *)
EnterUncounted(w) ==
    /\ at[w] = "enter"
    /\ PutLockFree
    /\ expired' = [expired EXCEPT ![w] = mode[w] = "once"]
    /\ Move(w, "look")
    /\ UNCHANGED <<queueVars, poolSize, mode, task, limitVars, restVars, call>>

EnterAsleep(w) ==
    /\ at[w] = "enter"
    /\ PutLockFree
    /\ StartWaiting
    /\ expired' = [expired EXCEPT ![w] = mode[w] = "once"]
    /\ Move(w, "wait")
    /\ UNCHANGED <<poolSize, mode, task, limitVars, restVars, call>>

Enter(w) ==
    /\ at[w] = "enter"
    /\ PutLockFree
    /\ StartWaiting
    /\ expired' = [expired EXCEPT ![w] = mode[w] = "once"]
    /\ Move(w, "look")
    /\ UNCHANGED <<poolSize, mode, task, limitVars, restVars, call>>

(* The local variables of a call are gone when it returns.                 *)
Forget(w) == expired' = [expired EXCEPT ![w] = FALSE]

(* One round of the loop: extract, then the ways out, then wait.           *)
Look(w) ==
    /\ at[w] = "look"
    /\ HeadFree
    /\ \/ /\ queue # << >>
          /\ UnlinkFirst
          /\ task' = [task EXCEPT ![w] = Head(queue)]
          /\ Move(w, "tookLocked")
          /\ Forget(w)
       \/ /\ queue = << >>
          /\ mode[w] = "forever"
          /\ Move(w, IF closed THEN "ending" ELSE "wait")
          /\ UNCHANGED <<queueVars, task, expired>>
       \/ /\ queue = << >>
          /\ mode[w] # "forever"
          /\ expired[w]
          /\ StopWaiting
          /\ Forget(w)
          /\ Move(w, "ending")
          /\ UNCHANGED task
       \/ /\ queue = << >>
          /\ mode[w] # "forever"
          /\ ~expired[w]
          /\ closed
          /\ StopWaiting
          /\ NotifyOne([at EXCEPT ![w] = "ending"])
          /\ UNCHANGED <<task, expired>>
       \/ /\ queue = << >>
          /\ mode[w] # "forever"
          /\ ~expired[w]
          /\ ~closed
          /\ Move(w, "wait")
          /\ UNCHANGED <<queueVars, task, expired>>
    /\ UNCHANGED <<poolSize, mode, limitVars, restVars, call>>

(* A timed wait ends by itself.  The rounds of one poll that end before    *)
(* its time is used up matter only when they find a request.               *)
Timeout(w) ==
    /\ at[w] = "wait"
    /\ mode[w] = "timed"
    /\ \E used \in BOOLEAN :
         /\ used \/ queue # << >>
         /\ expired' = [expired EXCEPT ![w] = used]
    /\ Move(w, "woken")
    /\ UNCHANGED <<queueVars, poolSize, mode, task, limitVars, restVars, call>>

(* A worker that was notified may find its time used up as well.           *)
Reenter(w) ==
    /\ at[w] = "woken"
    /\ PutLockFree
    /\ \E used \in BOOLEAN :
         /\ used => mode[w] = "timed"
         /\ expired' = [expired EXCEPT ![w] = @ \/ used]
    /\ Move(w, "look")
    /\ UNCHANGED <<queueVars, poolSize, mode, task, limitVars, restVars, call>>

(* workerDone removes the thread from the list and leaves poolSize_ alone. *)
WorkerDone(w) ==
    /\ at[w] = "ending"
    /\ PoolFree
    /\ Move(w, "ended")
    /\ UNCHANGED <<queueVars, poolSize, mode, task, expired, limitVars, restVars, call>>
-----------------------------------------------------------------------------
(* SetThreadPoolInfor: three setters, each under the monitor by itself.    *)
SetKeepAlive(m) ==
    /\ manager[m] = "keep"
    /\ PoolFree
    /\ keepAlive' = Setting[m].keep
    /\ manager' = [manager EXCEPT ![m] = "max"]
    /\ UNCHANGED <<queueVars, poolVars, minimum, maximum, destroyed, served, closing, call>>

SetMaximum(m) ==
    /\ manager[m] = "max"
    /\ PoolFree
    /\ maximum' = IF Setting[m].max >= minimum THEN Setting[m].max ELSE maximum
    /\ manager' = [manager EXCEPT ![m] = "min"]
    /\ UNCHANGED <<queueVars, poolVars, minimum, keepAlive, destroyed, served, closing, call>>

SetMinimum(m) ==
    /\ manager[m] = "min"
    /\ PoolFree
    /\ minimum' = IF Setting[m].min \in 1..maximum THEN Setting[m].min ELSE minimum
    /\ manager' = [manager EXCEPT ![m] = "done"]
    /\ UNCHANGED <<queueVars, poolVars, maximum, keepAlive, destroyed, served, closing, call>>

(* destroy: the flag of the pool, the flag of the queue with a wake-up of  *)
(* all who wait, and the wait for the group of threads to become empty.    *)
Destroy ==
    /\ closing = "no"
    /\ PoolFree
    /\ destroyed' = TRUE
    /\ closing' = "close"
    /\ UNCHANGED <<queueVars, poolVars, limitVars, served, manager, call>>

(* Mutant of Close: notify in place of notifyAll.                          *)
CloseNotifyOne ==
    /\ closing = "close"
    /\ PutLockFree
    /\ CloseQueue
    /\ NotifyOne(at)
    /\ closing' = "join"
    /\ UNCHANGED <<poolSize, mode, task, expired, limitVars, destroyed, served, manager, call>>

Close ==
    /\ closing = "close"
    /\ PutLockFree
    /\ CloseQueue
    /\ at' = IF waitingForTake > 0
             THEN [w \in Threads |-> IF at[w] = "wait" THEN "woken" ELSE at[w]]
             ELSE at
    /\ closing' = "join"
    /\ UNCHANGED <<poolSize, mode, task, expired, limitVars, destroyed, served, manager, call>>

Alive(w) == at[w] \notin {"unborn", "ended"}

Join ==
    /\ closing = "join"
    /\ \A w \in Threads : ~Alive(w)
    /\ closing' = "done"
    /\ UNCHANGED <<queueVars, poolVars, limitVars, destroyed, served, manager, call>>

(* Nothing is left to do: every request was handed off or refused, and the *)
(* workers sleep or have ended.                                            *)
Idle ==
    /\ \A q \in Requests : call[q] \in {"accepted", "refused"}
    /\ \A w \in Threads : at[w] = "wait" \/ ~Alive(w)
    /\ UNCHANGED vars
-----------------------------------------------------------------------------
PutStep(q) ==
    Link(q) \/ Read(q) \/ Increment(q) \/ Signal(q) \/ Notify(q) \/ Grow(q)

WorkerStep(w) ==
    \/ Invoke(w) \/ GetTask(w) \/ Extract(w) \/ Took(w) \/ Enter(w)
    \/ Look(w) \/ Reenter(w) \/ WorkerDone(w)

Next ==
    \/ \E q \in Requests : Execute(q) \/ PutStep(q)
    \/ \E w \in Threads : WorkerStep(w) \/ Timeout(w)
    \/ \E m \in Managers : SetKeepAlive(m) \/ SetMaximum(m) \/ SetMinimum(m)
    \/ Destroy \/ Close \/ Join
    \/ Idle

Spec == Init /\ [][Next]_vars

(* Threads that run go on running, invocations return, and a lock that is  *)
(* free is given to one who waits.  No request has to arrive, no wait has  *)
(* to time out, nobody has to destroy the pool.                            *)
Fairness ==
    /\ \A q \in Requests : WF_vars(PutStep(q))
    /\ \A w \in Threads : WF_vars(WorkerStep(w))
    /\ WF_vars(Close)
    /\ WF_vars(Join)

LiveSpec == Spec /\ Fairness
-----------------------------------------------------------------------------
PoolTypes ==
    /\ poolSize \in 0..MaxThreads
    /\ minimum \in Nat
    /\ maximum \in 0..MaxThreads
    /\ keepAlive \in KeepAlive
    /\ destroyed \in BOOLEAN

ThreadTypes ==
    /\ at \in [Threads -> Place]
    /\ mode \in [Threads -> KeepAlive]
    /\ task \in [Threads -> Requests \cup {NoTask}]
    /\ expired \in [Threads -> BOOLEAN]

CallerTypes ==
    /\ call \in [Requests -> Stage]
    /\ served \in [Requests -> Nat]
    /\ manager \in [Managers -> {"keep", "max", "min", "done"}]
    /\ closing \in {"no", "close", "join", "done"}

TypeOK == QueueTypes /\ PoolTypes /\ ThreadTypes /\ CallerTypes

(* A worker that will look at the queue before it sleeps again.            *)
OnTheWay(w) ==
    at[w] \in {"invoke", "get", "extract", "enter", "look", "took", "tookLocked", "woken"}

(* No wake-up is lost: as long as a request is in the queue of a pool that *)
(* has not been destroyed, some worker is on its way to the queue, or the  *)
(* thread that put a request has still to look for sleepers.               *)
NoLostWakeup ==
    \/ destroyed
    \/ queue = << >>
    \/ \E w \in Threads : OnTheWay(w)
    \/ \E q \in Requests : call[q] \in {"read", "increment", "signal", "notify"}

(* The strengthening of TypeOK and NoLostWakeup: the limits are in order,  *)
(* a worker that invokes has a request, the sleepers are counted, workers  *)
(* that were not created have no past, and the first worker never leaves.  *)
Sleepers == {w \in Threads : at[w] \in {"look", "tookLocked", "wait", "woken"}}

Limits == 1 <= minimum /\ minimum <= maximum

Busy ==
    \A w \in Threads :
      /\ at[w] \in {"invoke", "took", "tookLocked"} <=> task[w] # NoTask
      /\ at[w] = "unborn" <=> w > poolSize

SleepersCounted == waitingForTake >= Cardinality(Sleepers)

FirstStays ==
    \/ destroyed
    \/ mode[1] = "forever" /\ at[1] \notin {"unborn", "ending", "ended"}

ClosedLate == closed => destroyed

PoolInv == TypeOK /\ Limits /\ Busy /\ SleepersCounted /\ ClosedLate

(* The same for QuietAfterDestroy: when the flag is up no thread is inside *)
(* execute.                                                                *)
Quiet ==
    /\ closing # "no" => destroyed
    /\ destroyed => PoolFree
    /\ closing = "done" => \A w \in Threads : ~Alive(w)

(* The pool neither loses nor repeats a request: one that was put in the   *)
(* queue or handed to a worker is in one place of the queue, or in the     *)
(* hand of one worker, or was invoked once, and never two of these; one    *)
(* that was refused, or is not yet linked, is nowhere.                     *)
Taken(q) == call[q] \notin {"new", "link", "refused"}

KeptOnce ==
    \A q \in Requests :
      served[q] + Cardinality({i \in DOMAIN queue : queue[i] = q})
                + Cardinality({w \in Threads : task[w] = q})
        = IF Taken(q) THEN 1 ELSE 0

(* The same without counting.                                              *)
Queued(q) == \E i \in DOMAIN queue : queue[i] = q

InHand(q) == \E w \in Threads : task[w] = q

OnePlace ==
    /\ \A i, j \in DOMAIN queue : queue[i] = queue[j] => i = j
    /\ \A v, w \in Threads : task[v] = task[w] /\ task[v] # NoTask => v = w
    /\ \A q \in Requests :
         /\ served[q] \in {0, 1}
         /\ (served[q] = 1 \/ Queued(q) \/ InHand(q)) <=> Taken(q)
         /\ ~(Queued(q) /\ InHand(q))
         /\ served[q] = 1 => ~Queued(q) /\ ~InHand(q)

(* Once destroy has returned no worker runs, and none is started and no    *)
(* request is invoked from then on.                                        *)
QuietAfterDestroy ==
    [][closing = "done" => at' = at /\ served' = served]_vars

(* A request that execute accepted is invoked in the end, unless the pool  *)
(* is destroyed.                                                           *)
AcceptedIsRun ==
    \A q \in Requests : call[q] = "accepted" ~> (served[q] > 0 \/ destroyed)

(* destroy returns: every worker learns of it, asleep or not.              *)
DestroyReturns == closing = "close" ~> closing = "done"
=============================================================================
