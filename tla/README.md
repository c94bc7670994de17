# Verification of StarCCM

StarCCM is a C++ implementation of the CORBA Component Model (container,
deployment, home finder) with the services it needs: an Object Transaction
Service (OTS), a Persistent State Service (PSS), and a PostgreSQL 7.2 whose
server was extended with the commands of two-phase commit. This directory holds
TLA+ models of its code, the TLC configurations that check them, and proofs
checked by TLAPS.

## 1. The system

| Component | Code | State it keeps | Operations |
|---|---|---|---|
| Coordinator, terminator | `ots/src/CosTransactionsOTS_impl.cpp` | `_TransStatus`, `_RCV_list_var` (resources and votes), `_syncs` | register_resource, register_synchronization, rollback_only, commit, rollback |
| Recoverable resource | `ots/src/Resource_impl.cpp`, `PostgreSQLResource_impl.cpp` | `_ResourceStatus`, one database connection | BeginTrans, prepare, commit, rollback, commit_one_phase, forget |
| XA commands of the server | `postgresql/src/backend/access/transam/xact.c` | block state and transaction state of a connection | BEGIN, XAPREPARE, XACOMMIT, XAROLLBACK |
| Transaction factory | `CosTransactionsOTS_impl.cpp` | none (the time limit is not kept) | create |
| Current and interceptors | `ots/src/CosTransactionsCurrent_impl.cpp`, `OTS*Interceptor_impl.cpp` | the control in the slot of a thread and of a request | begin, commit, rollback, suspend, resume; send_request, receive_request, replies |
| Transaction policies | `ccm/src/AppSvr/TxnInterceptor.cpp`, `UserTransaction_impl.cpp` | the action and the control in the cookie of an upcall | preinvoke, postinvoke; begin, commit, rollback, suspend, resume |
| Thread pool | `ccm/src/AppSvr/CustomThreadPool.cpp`, `LinkedRequestQueue.cpp` | workers, their limits and keep-alive time, the queue with its counters, shutdown flags | execute, getTask, addRequest, takeRequest, pollRequest, workerDone, the setters, destroy |
| Component pool | `ccm/src/AppSvr/ComponentsPool.cpp`, `PassivationArbitor.cpp` | the active object map (component and ports) | getServant, addComponent, removeComponent, cleanup |
| Container run time | `ccm/src/AppSvr/ContainerRunTime.cpp`, `ContainerBase.cpp` | tables of rejected and redirected objects, home and pool | preinvoke, postinvoke, passivate, redirect, cleanup |
| Resource pool | `ccm/src/AppSvr/ResourcePool_impl.cpp` | connections and whether they are used | getResource, removeResource |
| Home finder | `ccm/src/HomeFinder/HomeFinder_impl_tie.cpp` | maps from repository ids and names to homes | find, register, unregister |
| Component library | `ccm/src/ccmlib/ComponentServentBase.cpp` | receptacles, subscriptions and their cookies | connect, disconnect, subscribe, unsubscribe |
| Deployment | `ccm/src/deployment/*` | servers per host, assemblies, installed components | create and remove servers, build, tear_down, dynamic replacement |
| PSS | `pss/src/*` | a cache of storage objects over tables | create, find, destroy, flush, refresh |

How they interact. A request for a component enters through the thread pool and
the container's `preinvoke`, which applies the transaction policy through
Current; Current calls the factory, and later the terminator; the component's
database work goes through a recoverable resource that was registered with the
coordinator; the coordinator calls the resources and the synchronizations; a
resource sends XA commands to its server process over its connection. These are
remote calls (CORBA requests) except the last, which is the PostgreSQL protocol.

What is hard. The coordinator holds no lock although its comments and its busy
loops expect calls to run while others wait; every remote call may fail before
or after it was executed; commit and rollback may be repeated while the first
is running; resources register while a commit has begun; exceptions leave
handlers half way. `PROJECT.json` lists each of these under "hazards" with its
line and the properties that cover it.

What makes each part correct:

* transaction: all or nothing; the caller is told the truth; nothing stays
  open; calls end; after_completion is last;
* Current and policies: a reply speaks of the transaction of its request; every
  transaction the container began it ends, and nobody ends somebody else's; an
  exception dooms the transaction it was raised in;
* thread pool: an accepted request is run once, and shutdown ends;
* component pool and run time: what a request uses is not freed, the operations
  of a component are serialized, a component is removed once, requests are
  answered and the removal of a home ends;
* resource pool: it stays within its limit, and a resource that it hands out again
  carries nothing of its last transaction into the next;
* PSS: what a session takes for written is what the table says, a search sees
  what was changed before, and the statements of a call agree with each other;
* home finder, library: the maps and the cookies agree with each other.

## 2. The plan

1. **The transaction** (done): `XaBackend`, `PGResource`,
   `Coordinator`, the abstract `AtomicCommit`, and the proofs.
2. **Requests through the container** (done): `TransactionService` (what a
   caller of the transaction sees), `TxnCurrent`, `TxnInterceptor`,
   `ContainerRunTime`, and `ExecutorInvoker`, which composes them with clients
   and workers; proofs of all its safety properties.
3. **The container's threads** (done): `RequestQueue` and `ThreadPool` with
   their three locks, liveness of the workers and of destroy, proofs of the
   wake-up argument and of the quiet after destroy.
4. **The persistent store** (done): `StorageHome`, the cache of a storage home
   in several sessions; proofs of all its properties.
5. **Transactions one after the other** (done): `TransactionSeries`, the resource
   pool whose resources serve one transaction after the other.
6. **Further proofs** (done): the implementation of `AtomicCommit` by
   `Coordinator`, the truth of its answers, `NothingLeftOpen`,
   `AfterCompletionIsLast`, `KeptOnce` of the pool, and the properties of
   the series.
7. **Answers when connections break** (done): the answers and the last word of a
   single call without the conditions of `OneDecision` on connections and
   deferred triggers.

The redirect tables of dynamic deployment, passivation, the home finder
and the ports of components were considered and left out (section 6).

## 3. The modules

| Module | Content |
|---|---|
| `XaBackend` | the transaction block of one connection; one operator per XA command, executed with the start and end of the command around it |
| `PGResource` | one resource: connection and `_ResourceStatus`; one operator per operation, giving the state left and the answer |
| `Coordinator` | the coordinator with its resources, its callers, the network and the world; actions below |
| `AtomicCommit` | the abstract promise: a group of resources that is complete before its first member commits, and commits as a whole or not at all |
| `CoordinatorInvariants` | the inductive strengthenings `TypeInv`, `AtomicInv` (phases), `AnswerInv` (answers), `SoloInv` (one call, connections break) and `LastWordInv` (after_completion) |
| `CoordinatorProofs` | `TypeCorrect` and `Atomicity`, and the lemmas on operations, control flow and types |
| `AnswerProofs` | six theorems about what the calls answer and leave behind, and `Refinement` |
| `SoloProofs` | five theorems about a transaction that one call ends, whatever breaks |
| `MCCoordinator` | model values and registration targets for TLC |
| `TransactionSeries` | the resource pool and a client that runs one transaction after the other over its resources; extends `Coordinator` |
| `SeriesInvariants` | the inductive strengthening `SeriesInv` of its properties |
| `SeriesProofs` | `PoolCounts`, `SeriesHolds`, `RolledBackWorkStays`, `CommitsOnlyOwnWork` |
| `MCTransactionSeries` | model values, pools and targets for TLC |
| `RequestQueue` | the queue between the ORB and the workers: its list, its counters, the steps of a put and of a take |
| `ThreadPool` | the pool: requests in `execute`, workers, calls that set the limits, `destroy`; also the strengthenings `PoolInv` and `Quiet` |
| `ThreadPoolProofs` | `PoolTypeCorrect`, `QuietForEver`, `WakeupsAreKept`, `RequestsAreKept` |
| `MCThreadPool` | model values and settings for TLC |
| `TransactionService` | create, commit, rollback and rollback_only of a transaction as a caller sees them |
| `TxnCurrent` | Current over the slot of a thread, and what the interceptors of a request do with slots and contexts |
| `TxnInterceptor` | the transaction policies of the container before and after an upcall |
| `ContainerRunTime` | the pool of components of one home, locks and references of their compositions, the removal of the home |
| `ExecutorInvoker` | clients, workers and their requests, composed of the four modules above |
| `ExecutorInvokerInvariants` | the inductive invariants of `ExecutorInvoker` |
| `TransactionPolicyProofs` | whose transactions are where: four theorems |
| `ExecutorInvokerProofs` | types, locks, references, removals: four theorems |
| `MCExecutorInvoker` | a descriptor with every policy, and the scripts of the clients |
| `StorageHome` | the cache of a storage home in several sessions over one table; also the strengthening `StoreInv` |
| `StorageHomeProofs` | seven theorems about `StorageHome` |
| `MCStorageHome` | model values and symmetry for TLC |

### The transaction

`Coordinator` extends `PGResource`, which extends `XaBackend`: a resource is a
record with the fields of its connection and its status, so an operation of the
resource is applied to it as a value. `Abstract` in `Coordinator` is the instance
of `AtomicCommit` under the refinement mapping.

State. `status` is `_TransStatus`; `rcv` is `_RCV_list_var`; `syncs` the list of
the synchronization manager, with `before` and `after` counting the
notifications; `res` the resources. Each call in progress has a place `pc`, and
each terminating call its stack: `ix` (loop index), `len` (`tmp_len`), `heur`
(`heuristics`), `ans` (what its last remote call gave). `reply` is what a call
returned or threw. `up` is false once the service process has ended.

Actions. One for each stretch of code between two remote calls or two accesses
to shared members that another thread may separate:

| Code | Actions |
|---|---|
| register_resource | `Register` (status and search), `BeginTrans` (remote), `Enlist` (append) |
| register_synchronization, rollback_only | `RegisterSynchronization`, `RollbackOnly` |
| commit | `Commit` (switch over the status), `BeforeCompletion`, `Dispatch` (switch over the length), `CommitOnePhase`/`OnePhaseAnswered`, `PrepareNext`/`Voted`, `Decide`, `CommitNext`/`CommitAnswered`, `CommitEnds`, `AfterCompletion`, `Spin` |
| rollback | `Rollback`, `RollbackNext`/`RollbackAnswered`, `RollbackEnds`, `AfterCompletion` |
| `do {} while` in a resource | `ResourceSpins` |
| outside | `StatementFailsAt`, `Disconnect`; `Finished` when nothing is left to do |

A commit whose outcome is a rollback goes on in the rollback actions, as the
code calls `rollback()`. The loops of the repeated calls (case StatusCommitting
of commit, case StatusRollingBack of rollback) have their own labels
(`recommit`, `redo`) because they catch nothing; besides, the repeated commit
takes the entries that are still RV_Vote_Commit, while the repeated rollback tests
the same votes as the first one.

Faults. `Invoke` gives every remote call three outcomes: executed and answered;
not executed; executed with the answer lost. The number of failures is bounded by
`MaxFaults`. A resource executes one operation at a time, and an operation whose
answer was lost is not executed later. `COMM_FAILURE` is caught by the
loops, `TRANSIENT` stands for every system exception they do not catch.
`OBJECT_NOT_EXIST` is treated by the code as `COMM_FAILURE` is, and is not told
apart. A statement fails only while its block is in progress (`StatementFailsAt`):
that a client sends no statement over a connection whose resource has voted is an
assumption about the environment. The server does not enforce it: it accepts
statements in a prepared block (`xact.c:1479`), one that fails there aborts the
block (`AbortCurrentTransaction`, 1674), and XACOMMIT is then answered as a
success (1943), so promised work would be lost and nobody told.

Switches. Three constants stand for what the sources leave to the build or to
the ORB: whether throw specifications are enforced (g++) or not (Visual C++ of
the time), whether equal references are unmarshalled to one pointer
(`ProxiesCached`; the search for a registered resource and
`change_resourcevote` compare pointers), and `report_heuristics` of the caller.

Concurrency. `TransactionFactoryServer.cpp` leaves the concurrency model to the
configuration of the ORB; the test servers (`ots/test/sync/Server.cpp:131-141`)
select threads. The model lets calls interleave at every remote call and every
access to a shared member. An ORB that nests requests on one thread has some of
these behaviours and no others.

Recovery. The code under `_RECOVERY_` is compiled out
(`ots/include/OTSHeader.h:21`) and is not modelled; there is no restart.

### A series of transactions

`Coordinator` is one transaction and its resources are new. `TransactionSeries`
extends it by what survives a transaction: the resources of the container's pool,
each with its connection, its transaction block and its `_ResourceStatus`.
`pool` is `resList_` with the flags `isUsed`, `con` is `currentCon_`, `held` are
the resources the component of the current transaction has got.

| Code | Actions |
|---|---|
| ResourcePool_impl | `SeriesInit` (constructor), `GetResource`, `RemoveResource` |
| pg_PQsetdb | `Connect`: a new connection replaces the old one, the status stays |
| a component and its client | `CallRegister`, `CallMark`, `CallEnd`, one at a time; then the steps of `Coordinator` (`CommitGoesOn`, `CommitRollsBack`, `RollbackGoesOn`, `RegisterGoesOn`) |
| outside | `StatementFailsIn`, `Breaks` |
| TransactionFactory_impl::create | `NextTransaction`: a new coordinator over the resources as they are |

`Record` stands beside every step and writes the history. `work` says whose work
is in the open block of a resource: a transaction's work enters it when
register_resource has found or opened the block, and leaves it when the block
ends. `durable` collects the transactions of which a block was committed, `undone`
those whose client was told that they rolled back. Between its calls one client
does one thing at a time; what concurrent calls do to one transaction is the
subject of `Coordinator`. The pool is written as it is: a resource found free is
returned without its flag being set (so the next call finds it again), a call is
refused when the count exceeds the limit, whatever is free, and the exception of
removeResource, raised in any case, changes nothing.

### The thread pool

`ThreadPool` extends `RequestQueue`. A request is a thread of the ORB inside
`execute` until it is handed off; a worker is a `ThreadPoolDispatcher`. `call[q]`
and `at[w]` say where each of them is.

| Code | Actions |
|---|---|
| execute | `Execute` (flag, minimum), `Grow` (after the put) |
| addRequest | `Link`, `Read` and `Increment` (of `queueSize_`, after the unlock), `Signal` (reads `waitingForTake_`), `Notify` |
| ThreadPoolDispatcher::run | `Invoke`, `WorkerDone` |
| getTask | `GetTask` |
| takeRequest, pollRequest, extract | `Extract` (before the lock), `Enter`, `Look` (one round of the loop), `Timeout`, `Reenter` (after a wait), `Took` (end of an extract that found a request) |
| SetThreadPoolInfor | `SetKeepAlive`, `SetMaximum`, `SetMinimum` |
| destroy | `Destroy`, `Close`, `Join` |

Locks. The monitor of the pool is held through the whole of `execute`, the
monitor `putLock_` by a worker from its look at the queue to its wait,
`headMutex_` during an extract. They are not variables: `PoolFree`,
`PutLockFree` and `HeadFree` say that no thread is at a place where it holds
the lock. `lastMutex_` is taken inside `execute` only and adds nothing.
`waitingForTake_` is written under `putLock_` and read by addRequest without it.
`queueSize_` is guarded by neither mutex: a put reads and writes it in two steps
(`putSaw`), a take likewise (`takeSaw`), and an update in between is lost; it is
an unsigned number and wraps at `ULongRange`. Memory is taken to be sequentially
consistent at the unlocks that precede the reads of `waitingForTake_` and of the
list, which is what an x86 build gives.

Abstractions. A time is one of three kinds, as the comments of the code have
it: negative (`forever`), zero (`once`), positive (`timed`). A timed wait may
end at any moment; of the rounds of one poll that end before its time is used up
those are kept that find a request. pollRequest subtracts seconds from
milliseconds (`LinkedRequestQueue.cpp:172`), which changes how long it waits and
nothing else. A request that throws ends its worker. createThreads runs before
the first request and is part of `Init`. What destroy leaves in the queue is
dropped: the code that would clean it up is commented out
(`CustomThreadPool.cpp:298-305`). The thread library (JTC), whose monitors and
thread group the code uses, is external.

### Requests through the container

A request of a client passes the client's interceptor (which takes the
transaction of its thread along), the server's interceptor (which puts it into
the slot of the worker's thread), `ContainerRunTime::preinvoke` (which finds the
servant, counts references and locks the composition),
`TxnInterceptor::preinvoke` (which applies the policy of the operation), the
servant, and the same in reverse. `ExecutorInvoker` extends `ContainerRunTime`
and `TxnInterceptor`, which extends `TxnCurrent` over `TransactionService`.

State. `service` is the sequence of transactions; each has what get_status
answers (`view`), what became of its work (`fate`) and its beginner (`by`). The
two differ on purpose: a coordinator with one resource leaves its status alone
when it has committed in one phase. `slot` and `wslot` are the transactions of
the threads of clients and workers, `cookie` is `Container::Cookie`, `raised`
the exception a request has met. `pool` is `activeObjectMap_`, `servantRefs` and
`compositionRefs` the reference counts, `owner` and `depth` the recursive locks
of the compositions, `destroy` the member `destroy_`, `closing` the place of the
thread in remove_home. `doomed` and `removals` are history.

| Code | Actions |
|---|---|
| Current in a client | `ClientBegin`, `ClientCommit`, `ClientRollback` |
| OTSClientInterceptor_impl | `Call`, `ReceiveReply` |
| OTSServerInterceptor_impl | `Receive` (with the first look at `destroy_`), `Reply` |
| ContainerRunTime::preinvoke | `FindComponent` (getServant under the monitor of the pool), `FindHome`, `LockComposition` |
| TxnInterceptor::preinvoke | `ApplyPolicy` |
| servant, home | `EndOperation`, `CreateReference` and `EnterComponent` (create), `RemoveComponent` (remove) |
| CCMContext, UserTransaction | `SetRollbackOnly`, `UserBegin`, `UserCommit`, `UserRollback` |
| TxnInterceptor::postinvoke | `AfterTxn` |
| ContainerRunTime::postinvoke | `AfterRunTime` |
| ContainerBase::remove_home | `AskRemoval`, and `Removal`: `EnterPool`, `CleanNext`, `CleanRemoves`, `CleanEnds` (ComponentsPool::cleanup, which holds the monitor of the pool), `UnregisterHome`, `DestroyPoas`, `Join` |

`TransactionService` abstracts `Coordinator`: its answers to commit are those
`Coordinator` gives for no resource, one, and several, without network failures.
A commit in which the service rolls back raises TRANSACTION_ROLLEDBACK, which is
no system exception for the catch clauses of postinvoke but is one for the ORB.

When unregister_home fails, cleanup throws a pointer to RemoveFailure
(`ContainerRunTime.cpp:503`, `516`), which no catch clause takes: `UnregisterHome` then
ends the call as a refused removal does (`closing` is `failed`), with the home
registered and its adapters alive. A repeated call skips cleanup and with it the
unregistering.

What is taken from outside. An exception that leaves preinvoke or postinvoke of
a servant locator is answered as a system exception and postinvoke is not called
(so the lock and the references the run time took stay taken: `Escape`). A
request has a slot of its own. The lock of a composition belongs to a thread and
is recursive. A destroyed object adapter takes no request and makes no
reference. An operation returns; it makes no nested calls. Throw specifications
are not enforced (the build of Visual C++ that `src/ccm/bin/bug.txt` speaks of):
with g++ an exception of a policy would end the process.

### The persistent store

`StorageHome` has one table and several sessions. A container run time makes a
session whenever it passivates or incarnates a component
(`StorageObjectLoader::getSession`, called at `ContainerRunTime.cpp:247` and
`347`), so sessions overlap. `table` is the table, `objects`, `state` and
`modified` are the cache of each session, `call` is where its call is, with the
iterator of the loop (`next`), the object of the last statement (`pid`) and what
it found (`exist`). `created` says which short pids exist. `deleted` and
`foreign` are history: rows that were deleted at some time, and rows that others
have changed since a session wrote or read them.

| Code | Actions |
|---|---|
| create_object, accessors, destroy_object | `Create`, `SetState`, `DestroyObject` |
| flush, close | `Flush`, `FlushNext` (one round; the select of write_object_state), `WriteRow` or `InsertCollides` (its update or insert), `FlushEnds` |
| find_object | `FindObject` (which flushes first), `SelectByKey`, then as below |
| find_by_short_pid, find_by_pid | `FindByShortPid`; `LoadObject` (object_exists), `ReadRow` (read_object_state) |
| refresh | `Refresh`, `RefreshNext`, `RefreshEnds` |
| a statement that fails | `StatementFails` |

A session is a connection without a transaction block, so each statement is
atomic and commits by itself: a statement is one step, and all sessions
interleave between statements. A session is used by one thread. Short pids are
generated by `uuid_create` and taken to be unique. table_exists always finds the
table. Keys and states are one thing, a key selects the rows whose state it is.
An answer that is lost after a write is a failure that has written.

## 4. The runs

| Run | Bounds | Shows |
|---|---|---|
| `two_phase` | 3 resources, 1 commit, a repeated commit and rollback, a rollback_only, 1 network failure, failing statements on r1 | `TypeOK`, `AtomicOutcome`, `CommitAnswerTrue`, `NothingLeftOpen`, `CompletionAfterOutcome`, `TransactionEnds`, the inductive `AtomicInv`, and the refinement `ImplementsAtomicCommit` |
| `rollback` | 2 resources, 2 synchronizations, 1 rollback, a rollback_only, 2 network failures, r1 may disconnect; throw specifications enforced, references not cached | `RollbackAnswerTrue`, the inductive `SoloInv`, from which it and `NothingLeftOpen` follow, `AfterCompletionIsLast`, `CallsReturn` |
| `commit_live` | 2 resources, 1 synchronization, 1 commit, a rollback_only, 1 network failure, r2 may disconnect and has deferred triggers; throw specifications not enforced, references cached | the inductive `SoloInv`, from which `CommitAnswerTrue` follows, `AfterCompletionIsLast`, `CallsReturn` |
| `mark_lost` | 1 resource | finding: `MarkedCommitsNothing` is violated |
| `late_resource` | 3 resources | finding: `WholeListCommitted` is violated |
| `deferred` | 2 resources, deferred triggers on r2 | finding: `AtomicOutcome` is violated |
| `series` | 3 transactions, 3 resources, a pool that starts empty with limit 2, 2 registrations, a rollback_only, 1 commit or rollback each; r1 may fail and disconnect, r2 has deferred triggers | `SeriesTypeOK`, `RolledBackStaysRolledBack`, `CommitsOwnWork` |
| `unreachable_voter` | 2 transactions, 3 resources, 1 network failure | finding: `RolledBackStaysRolledBack` is violated |
| `pool` | 3 requests, 1 worker that may become 2, capacity 1, 1 call that sets the limits and the keep-alive time, destroy at any moment | `TypeOK`, `NoLostWakeup`, `KeptOnce`, `QuietAfterDestroy`, `AcceptedIsRun`, `DestroyReturns` |
| `pool_shrunk` | 2 requests, 2 workers, 2 calls that lower the minimum and the maximum | finding: `AcceptedIsRun` is violated |
| `requests` | 2 clients with up to 2 requests, 2 workers, 2 components of which k2 exists only after a create and refuses its removal, every policy, at most 1 begin and 2 calls of remove_home | `TypeOK`, `Serialized`, `KeptWhileUsed`, `RemovedOnce`, `ReplyCarriesItsTransaction`, `OwnTransactionEnded`, `ExceptionDooms`, `EndedByItsBeginner`, `Answered`, `RemoveHomeReturns` |
| `store` | 2 sessions, 2 short pids, 2 states, 7 calls, 1 failing statement | `TypeOK`, `UnmodifiedIsStored`, `OneIncarnation`, `SelectsAfterFlush`, `StatementsAgree`, `MarkClearedByWrite` |

Why the bounds are enough. Three resources give a first, a middle and a last
entry of each loop, and let the list grow past the length that was counted while
it still leads to two-phase commit; two votes before the failing one need three.
One failure is enough for each catch clause, two for a failure in both the first
and a later iteration. One repeated call of each kind runs against every point
of the first. `Late` bounds repeated calls to the time the code's comments speak
of: the status has left Active and MarkedRollback.

In `series` the third transaction is needed: the first one leaves a resource
Committing, the second leaves its work in the open block, the third could commit
it. Two registered resources give both protocols, and three resources let the
pool reach its limit plus one. There are no network failures because one is
enough to break the property (`unreachable_voter`).

In `pool` a second worker can be started in both ways (below the minimum, and by
a queue longer than its capacity), waits for ever, for a time or not at all, and
ends while the first one goes on; three requests let one be queued while another
is put and a third is taken. `Throwing` is empty in the runs: a request that
throws ends its worker, which is not replaced, as in `pool_shrunk`.

In `requests` the scripts (`AllScripts`) split the questions, because one
instance with all requests at once is too large: every policy with and without a
transaction, followed by a second request on the same component, in the same
thread; every policy while another client calls the same component, which meets
its lock; and the life of components, with two requests that remove a component,
create of another one, and remove_home called up to twice at any moment. One
create per script is enough because the pool treats components alike, and one
transaction of a client because requests do not share more than one. The
descriptor has one interface per policy and a second operation for one of them,
which setTxnPolicy drops.

In `store` two sessions and two objects give every order of two caches on one
row with one more row between; seven is the least number of calls in which the
insert of one session meets a row of another (each holds the object, it is
destroyed, and both flush).

Fairness. `LiveSpec` of `Coordinator` gives weak fairness to every step of a call that the
service has accepted: a thread that runs goes on running. Nobody is bound to
make a call, no resource is bound to fail, and the busy loops are steps that
change nothing. An answer (or a failure) of every remote call is part of the
step of the call: the ORB reports a broken connection. Under it `CallsReturn` holds
of a single call (`rollback`, `commit_live`). In `two_phase`, where calls are repeated,
it does not: a commit repeated while the status is RollingBack, and a rollback
that meets a resource another one has just rolled back, wait for ever.
`TransactionEnds` says what is left: short of network failures these busy loops
may keep a caller waiting, but not the transaction open. `LiveSpec` of
`ThreadPool` gives weak fairness to the put in progress of each request, to each
worker, and to the two later steps of destroy: threads run, invocations return,
and a lock that is free is taken by one who waits (each step that needs a lock
is disabled only for as long as another thread is inside, and in a run with
finitely many requests the locks change hands finitely often). A timed wait need
not end, no request need arrive, and nobody need call destroy.

`LiveSpec` of `ExecutorInvoker` gives weak fairness to each worker's own steps
(threads run, an operation of a component ends, the transaction service
answers), to the client's taking of its answer, and to remove_home once it was
called. Clients need not call, components need not use transactions. A lock is
waited for by at most one other worker at a time, and only finitely often, so
weak fairness is enough for it. A request that waits for a lock which was left
behind by another thread (`LockLeft`) waits for ever, in the code too. `Answered`
excepts this request alone (`Stuck`), and `RemoveHomeReturns` the removal whose
workers it keeps. They say that every other request is answered, above all that
none waits for ever for the monitor that cleanup holds while it removes components.

The run `series` has safety properties only: in a transaction over a reused
resource calls need not return (see the findings).

`CHECK_DEADLOCK` is off in `requests` (all scripts end, and a lock left behind
stops its waiters) and in `store` (the calls are used up). It stays on
elsewhere: `Finished` holds only when all calls are
done (late ones may never be made) or the service has ended. `SeriesEnds` holds
when the last transaction is decided or the service is gone. `Idle` does the same
for the pool: every request was handed off or refused and every worker sleeps or
has ended.

### The findings

* `mark_lost`. rollback_only answers normally while before_completion runs, and
  commit goes on as if the transaction were active.
* `late_resource`. register_resource does not look at the status again after
  BEGIN has run, and the commit phase uses the old length.
* `deferred`. The server runs deferred triggers, which may fail, after the vote.
* `unreachable_voter`. A resource that prepare could not reach is entered as rolled
  back, and therefore the rollback passes over it. The transaction block it may
  have left open is found by BEGIN of the next transaction, whose commit makes
  both durable.
* `pool_shrunk`. The pool counts workers but never discounts them. When the maximum
  is set below the count all workers end, and none is started.

`series` shows the other side: without network failures no work that was left in
a block is ever committed, because a resource that has served once votes to roll
back in its later transactions, or never answers. The pool is of use for one
transaction per resource.

More disagreements were met that have no run of their own:

* a commit that finds the transaction rolling back waits for a status that nothing
  stores (`CosTransactionsOTS_impl.cpp:3388`, `Spin`), although its trace text
  (3384) announces TRANSACTION_ROLLEDBACK;
* the exception that reports a heuristic outcome of commit is not in its throw
  specification (`CosTransactionsOTS_impl.cpp:2303-2308`, 3259): a build that
  enforces these ends the service there (`Terminate`);
* between its search for a resource and the entry in the list register_resource
  makes three remote calls, and a second registration of the same resource
  passes: every operation is then sent twice and the resource spins;
* register_resource calls forget to "initialize resource status"
  (`CosTransactionsOTS_impl.cpp:1687`), and forget is empty
  (`PostgreSQLResource_impl.cpp:470-479`). A resource that rolled back once waits in
  its next transaction for a status that nothing stores; one that committed votes
  to roll back, and the rollback does nothing to it (276): the client is told that
  the transaction has rolled back while its block stays open;
* a repeated rollback that overtakes the first one calls after_completion twice,
  or spins in the resource;
* a network failure can make such a spin fatal for the transaction: the answer to
  a repeated rollback is lost, this call gives up, as its loop catches nothing, and
  the first call waits for ever in the resource that was rolled back by then
  (`PostgreSQLResource_impl.cpp:242`) and never reaches the resources after it,
  which stay open (TLC gives the steps when `TransactionEnds` does without
  `faults > 0`);
* a statement that is sent and fails after the vote undoes promised work, and
  XACOMMIT reports a success (section 3, Faults);
* cleanup throws `new RemoveFailure` when unregister_home fails
  (`ContainerRunTime.cpp:516`), a pointer that no handler takes, and the home stays
  registered;
* the time limit of a transaction (`ots/test/sync/Client.cpp:65-69`) is stored
  nowhere;
* a policy that refuses a request, and a commit that is rolled back after the
  operation, leave the lock of the composition held and its references counted
  (`ExecutorInvoker.cpp:68` and `89`; `LockLeft`, `Stuck`);
* requires-new keeps the caller's control in the cookie and commits that one,
  while the transaction it began for the request stays open
  (`TxnInterceptor.cpp:278-302`, `633`; excepted in `EndedByItsBeginner`);
* a create that was admitted before remove_home looks at `destroy_`
  (`ContainerRunTime.cpp:761`, `195`), and that enters its component after cleanup has
  found the map empty, leaves a component behind, although
  "The remove_home operation removes a home from the container and all
  components that were created by this home" (`ContainerBase.cpp:786`);
* a remove_home repeated after a RemoveFailure finds `destroy_` set and skips
  the cleaning (`ContainerRunTime.cpp:475`);
* the second operation that setTxnPolicy is given for an interface is dropped
  (`TxnInterceptor.cpp:679-680`; `Installed`);
* UserTransaction::commit swallows every exception it does not name
  (`UserTransaction_impl.cpp:152`);
* a client without a transaction that receives a system exception whose reply
  names none ends in an assertion (`OTSClientInterceptor_impl.cpp`,
  receive_reply; the place `dead`);
* the resource pool compares its limit with `<=`, hands out a free resource
  without marking it, and raises RemoveResFailed after a success
  (`ResourcePool_impl.cpp:169`, `174`, `232`);
* a destroyed storage object stays in the cache and a later change or flush
  inserts its row again; an update of no row counts as written; refresh replaces
  the state of a modified object and leaves its mark; two sessions that look
  for a key and create what they do not find both create it.

## 5. The proofs

`CoordinatorProofs` proves `TypeCorrect == Spec => []TypeOK` from the assumptions
on the constants only (the sets of calls are disjoint, targets are resources,
the switches are Boolean, `MaxFaults` is a number). `TypeOK` is not inductive: the
entry a loop reads exists only because its index stays within the list, and the
answer a handler distinguishes depends on the operation it called. `TypeInv`
adds, for each terminating call, that `len` is at most the length of the list,
that a call waiting for an answer has its index within `len`, and which answers
it can hold. The list only grows (`ListChanges`), which keeps the loops of all
other calls inside it.

It proves `Atomicity == ASSUME OneDecision PROVE
Spec => []AtomicOutcome`, for any number of resources, registrations,
synchronizations, markers, late repetitions of commit and rollback, failing
statements and network failures. `OneDecision` says that one call decides the
transaction, that no resource is registered twice, that no connection breaks and
that nothing is deferred to the commit; without each of them the code is not
atomic (`deferred` is one such run; section 4 tells how a resource comes to be
registered twice). The inductive invariant `AtomicInv` has
three parts:

* `SaneResources`: block, transaction state and fate of a connection agree;
* `ListDistinct`: no resource is in the list twice, and a registration that has
  not run BEGIN finds its resource untouched;
* `Phase`: the deciding call is in one of five phases, told by its place, the
  status, where the late calls may be, and the resources it counted: nothing has
  committed (`Undecided`, `Voting`, `Undoing`), one resource decides alone
  (`OnePhase`), or all counted resources are prepared or committed
  (`Committing`).

The proof follows the phases: one lemma per action of the deciding call says
which phase it leads to, one says that late calls keep the phase, one that the
rest of the world does. TLC checks `AtomicInv` in `two_phase`.

`AnswerProofs` proves, under `OneDecision`, that the answers are true:
`CommitTellsTheTruth`, `RollbackTellsTheTruth` and `CallsLeaveNothingOpen`, and
that the invariants they rest on hold (`PhasesHold`, `AnswersHold`). The phases
do not say what has become of the entries a loop has passed, nor what an answer
stands for. `AnswerInv` adds:

* `WholeResources`: the block of a connection tells whether its work is open, and
  a resource that is Committing has committed;
* `VotesTrue`: an entry noted Committed is, and one noted RolledBack is
  unless a failure hid it from a commit;
* `AskedInOrder`: the entries after the loop index are still untouched, so
  that the vote a resource gives is the one of this transaction;
* `CallInv`, for every call: its answer is what the resource did
  (`AnswerTrue`), a loop that noted no heuristic outcome has settled every entry it
  passed (`LoopTrue`), and its reply follows (`ReplyTrue`);
* `VerdictTrue`: once a rollback is reported nothing has committed and no
  call is left that could.

A decision about a resource is never taken back (`Settles`, `Forward`), which
keeps what one call knows while the others move; the rest is one lemma per step
of a call.

`CompletionFollowsOutcome` is `CompletionAfterOutcome`: without network failures every
resource of the decision is decided when a call comes to notify the
synchronizations, also a repeated rollback that has overtaken the first.
It takes `LateCounts` in addition: a repeated rollback has counted at least what the
decision has, because the list only grows and the status that lets it begin is
stored after the decision has read the list for the last time.

It also proves `Refinement == ASSUME OneDecision PROVE
Spec => ImplementsAtomicCommit`: initial states map to initial states, and every
step to a step of `AtomicCommit` or a stutter. A step that changes nothing of
the mapping stutters. Of the others, a vote and BEGIN are those of one member,
a commit needs the group complete and all of it prepared or committed, which is
the phase `Committing` or `OnePhase`, and an abort needs that none has
committed, which is any other phase.

`OneDecision` excludes broken connections and deferred triggers, which really
break atomicity. The answers stay true with them, which `SoloProofs` proves
under `Solo`: one call ends the transaction and nobody repeats it, and no
resource is registered twice. Nothing is assumed of connections, deferred
triggers, failing statements, network failures or the build. The phases do not
hold here, because a resource that has voted may forget its vote with its
connection, or fail to commit after others have. `SoloInv` keeps what is left
of them:

* `SoundResources` and `ListSound`: a connection that is gone has no block, a
  resource that has committed is Committing, and one that is still to be
  registered is Active;
* `SoloPlace` and `SoloOrder`: the place of the call tells the status, and the
  entries it has not reached have not been asked;
* `Promises`: an entry that voted to commit and was not told yet is prepared, or its
  connection is gone;
* `Withheld`: no resource was told to commit unless the call is a commit that
  can no longer answer TRANSACTION_ROLLEDBACK;
* `Heard`, `VotesTrue`, `LoopTrue`, `SoloReply`: an answer and a noted vote stand
  for what the resource did, a loop without heuristics has settled what it
  passed, and the reply follows.

`SoloHolds` says that it holds; `CommitAnswersAlone` and `RollbackAnswersAlone`
are `CommitAnswerTrue` and `RollbackAnswerTrue`. `NothingOpenAlone` is
`NothingLeftOpen`, for a rollback in every build, for a commit in one that enforces
throw specifications: where they are not enforced, a commit that meets a resource
which cannot keep its vote lets that exception reach its caller and leaves the
entries after it prepared (TLC gives the steps when the property is added to
`commit_live` with `MaxFaults = 0`). `CompletionIsLast` is
`AfterCompletionIsLast` and takes `LastWordInv` in addition: the synchronizations
are distinct, those from the loop index on were not notified, and nothing that
was counted is open once one is notified, short of network failures. A repeated rollback notifies once
more (section 4), so here nobody may end the transaction twice. TLC checks
`SoloInv` in `rollback` and `commit_live`.

`SeriesProofs` proves `PoolCounts == SeriesSpec => []SeriesTypeOK` from the
assumptions on the constants, and `RolledBackWorkStays` and `CommitsOnlyOwnWork`
under `MaxFaults = 0`: for any pool, any resources, registrations, failing
statements, broken connections and deferred triggers, and any number of
transactions. The hypothesis cannot be dropped: with one lost call the
property fails (`unreachable_voter`). `SeriesInv` is the argument that the pool
is safe because its resources are of use once:

* `Kept`: a block is open exactly when the server has it in progress or
  prepared, and then its fate is open;
* `WorkInv`: the block of a resource that is Active holds only work of the current
  transaction, and none before it is registered;
* `Progress` and `VotesUsed`: an entry that the calls have dealt with is not
  Active any more, and nothing makes it Active again (`Spares`); so only a
  resource that was Active in this transaction votes to commit, and a commit
  loop meets only resources whose work is its own;
* `ToldInv`: a call at a place from which it can still answer that the
  transaction rolled back has committed nothing, and one that has answered so
  never does;
* `OneCall`, `InPlace` and `Fresh`: the client does one thing at a time, and BEGIN runs on
  resources that are not in the list.

The proof has one lemma per step of the call that ends the transaction
(`Carries`), one for the steps around it, which spare what is in the blocks
(`SparingKeeps`), and one for the next transaction, which finds no resource Active
that holds work.

`ThreadPoolProofs` proves four theorems for any number of requests, workers and
calls that set the limits.

* `PoolTypeCorrect == Spec => []TypeOK`. The hard part is that `waitingForTake`,
  which is decremented on three paths, stays a natural number. `PoolInv` adds that it
  counts at least the workers that wait or look for a request
  (`SleepersCounted`; takeRequest leaves without decrementing it when the pool
  is destroyed, so it may count more), that a worker has a request exactly
  where it will invoke one and that workers not yet created have no past
  (`Busy`), and that the minimum stays between one and the maximum (`Limits`).
* `QuietForEver == Spec => QuietAfterDestroy`. `Quiet` says that no thread is inside
  `execute` when the flag is up, because both hold the pool's monitor, and that
  no worker is alive once destroy has returned.
* `WakeupsAreKept == ASSUME Steady PROVE Spec /\ []NeverShrunk => []NoLostWakeup`.
  The first worker waits for ever and never leaves, unless a request throws or
  the maximum falls below the number of workers (`Steady` and `NeverShrunk`
  exclude just these). If it sleeps while a request is queued, either the
  put that linked the request has still to look for sleepers, or it saw one and
  woke one: the worker counted itself before its last look at the queue, and that
  look and the wait are one critical section.
* `RequestsAreKept == Spec => []KeptOnce`. `OnePlace` says the same without counting:
  the queue holds no request twice, no two workers hold the same one, and a
  request that was accepted is in the queue, in a hand, or was invoked once, which exclude
  each other. The proof follows the request through put, extract, hand-over to a
  new worker and invocation, and counts at the end only (`CountOfOne`).

`TransactionPolicyProofs` and `ExecutorInvokerProofs` prove every safety property
of the run `requests` for any numbers of clients, workers, components, requests,
removals and transactions and any descriptor. They use the assumptions on the
constants: the set of workers is finite, the names of clients differ from the
three tags of beginners, policies are among the seven.

* `TransactionInv` follows the transactions. `SlotInv`: a client's thread has its
  own transactions only, and keeps the one of a call until the call returns.
  `CookieOK`: a cookie that commits holds a transaction the container began, one
  that resumes holds the transaction of its request. `WorkerSlotOK`: a
  transaction of a client in a worker's slot is the one of the request. These
  three are why nobody else's transaction is ended and why the reply speaks of
  the right one. `DoomedInv` says that a marked transaction stays marked until
  it is rolled back; `FinishedHasFate` ties the view to the fate, which the proof needs
  where rollback is refused. The lemmas at the start of the module say what
  each operation of the service can do to a transaction (`Extended`).
* `ServeInv` says that a request is served by one worker, `LockInv` that who is inside
  a composition is its owner; `Serialized` follows.
* `RefsInv` compares the counts with the users: at least one reference for every
  request that uses a component, and one more for the map or cleanup. It is an
  inequality because requests that escape leave their references behind. The
  proof counts the set of users before and after each step, for which
  the set of workers has to be finite.
* `RemovalInv` says that the map, cleanup and one request at most have the component
  whose removal has not been made; removing it from the map is what hands it on.

`StorageHomeProofs` proves every property of the run `store` for any number of
sessions, objects, states, calls and failing statements. `StoreInv` adds to the
properties what a call has found out (`CallOK`): the objects before the iterator
of a flush are unmarked, which gives `SelectsAfterFlush` at its end; an object
that is being loaded is not in the cache, which gives `OneIncarnation`; what the
last statement said of the row holds unless the row was deleted. The last part
needs `RowsOK`: an object whose row was never written is in the cache of its
creator only, so nobody else can insert it between the creator's two statements.
An update that finds no row any more leaves the object unmarked and not stored,
and is covered because the deletion has entered the object in `foreign`.

Every safety and action property that a passing run checks is a theorem, some of
them under a hypothesis named above. Only model-checked, being liveness under
fairness and out of the prover's reach, are `CallsReturn` and `TransactionEnds` of the transaction,
`AcceptedIsRun` and `DestroyReturns` of the pool, and `Answered` and
`RemoveHomeReturns` of the request path.

Definitions marked as mutants in the modules are plausible mistakes in the code
that the named property must reject; they are used by nothing else.

## 6. What is not modelled

get_status, is_same_transaction and the release of the objects change nothing
the properties speak of. replay_completion is never called by the resources.
Read-only votes are never sent by the server (`PrepareTransaction` has two
results). The data of a transaction and its locks are one word, `fate`. The
order of bytes of a reference, tracing and the recovery file are left out. Of the
pool the getters, its name, setCapacity and isEmpty, the interruption of a
waiting thread (nobody interrupts one) and a second destroy, which returns at
once, are left out.

Of the container the following is left out. Nested calls and callbacks from an
operation, which would let one thread take several locks. The tables of rejected
and redirected requests and the passivation of components, which dynamic
deployment switches on; passivateClient reads a nil sequence
(`ContainerRunTime.cpp:2437`), whose outcome is anything. The references a home
servant counts, the policies of operations of homes, and what RemoveFailure leaves
half done inside a component. User exceptions, which nothing here tells from a
normal return. suspend, resume and set_timeout of the user transaction.

Of the persistent state service: find_all, free_all (which erases from the list it
walks), the creation of tables and the encoding of pids; several homes in one
session, whose flushes follow each other; and the transactional sessions, whose
operations are empty.

Of the resource pool: two components that share a connection in concurrent
transactions (the flag of a free resource is not set). A component that asks a pool above its limit is refused for ever, because the
count never goes down.

Not modelled at all: the home finder (sequential, and its faults show in single
statements), the component library (sequential tables of
cookies), component server, deployment and dynamic deployment (processes, files
and XML), the variant of the transaction service for another ORB, generated code,
and third-party code. `PROJECT.json` gives the reason for each.
