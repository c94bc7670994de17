--------------------------- MODULE ExecutorInvoker ---------------------------
(***************************************************************************)
(* Requests of clients through a container: the interceptors of the        *)
(* transaction service on both sides, ExecutorInvoker::preinvoke and       *)
(* postinvoke around the servant, the policies of TxnInterceptor, and the  *)
(* run time of the home with its removal.                                  *)
(*                                                                         *)
(* A client is a thread with one call at a time and a slot of its own; a   *)
(* worker serves one request at a time, in a slot that is filled with the  *)
(* context of the request.                                                 *)
(***************************************************************************)
EXTENDS ContainerRunTime, TxnInterceptor

CONSTANTS
    Clients,
    NoClient,
    Requests,   \* what clients ask for: component, interface, operation
    Scripts     \* bounds: what may be asked in one behaviour (below)

(* A script bounds a behaviour: the requests each client makes, how many   *)
(* transactions clients and components begin, and how often remove_home is *)
(* called.                                                                 *)
ASSUME RequestsAssumption ==
    /\ NoClient \notin Clients
    /\ Clients \cap {"container", "nested", "bean"} = {}
    /\ \A q \in Requests : q.component \in Compositions
    /\ Scripts \subseteq
          [todo : [Clients -> Seq(Requests)], begins : Nat, removals : Nat]

VARIABLES
    service,  \* the transactions
    slot,     \* the transaction of each client's thread
    call,     \* the call of each client
    script,   \* what is still to be asked
    at,       \* where each worker is
    client,   \* whose request it serves
    wslot,    \* the transaction of its thread
    cookie,   \* the cookie of its request
    raised,   \* the kind of exception the request has met
    doomed    \* transactions a system exception was answered for while they were open

clientVars == <<slot, call, script>>
workerVars == <<at, client, wslot, cookie, raised>>
vars == <<runTimeVars, service, clientVars, workerVars, doomed>>

(* A system exception, or anything else: nothing here tells a user         *)
(* exception from a normal return.                                         *)
Raised == {"none", "system"}

WorkerPlace ==
    {"idle", "find", "lock", "policy", "body", "made", "afterTxn", "afterRunTime",
     "reply"}

CallPlace == {"idle", "sent", "taken", "answered", "dead"}

NoRequest == [component |-> Home, interface |-> "none", operation |-> "none"]

IdleCall ==
    [at |-> "idle", request |-> NoRequest, context |-> NoControl, raised |-> "none"]

Txn == [view : View, fate : Fate, by : Clients \cup {"container", "nested", "bean"}]

(* A slot, a cookie or a service context has no transaction or one that    *)
(* was begun.                                                              *)
Slots == {NoControl} \cup Controls(service)

RequestTypeOK ==
    /\ service \in Seq(Txn)
    /\ slot \in [Clients -> Slots]
    /\ call \in [Clients -> [at : CallPlace,
                             request : Requests \cup {NoRequest},
                             context : Slots, raised : Raised]]
    /\ script \in [todo : [Clients -> Seq(Requests)], begins : Nat, removals : Nat]
    /\ at \in [Workers -> WorkerPlace]
    /\ client \in [Workers -> Clients \cup {NoClient}]
    /\ wslot \in [Workers -> Slots]
    /\ cookie \in [Workers -> [action : Action, control : Slots]]
    /\ raised \in [Workers -> Raised]
    /\ doomed \subseteq Controls(service)

TypeOK == RunTimeTypeOK /\ RequestTypeOK

Init ==
    /\ RunTimeInit
    /\ service = <<>>
    /\ slot = [c \in Clients |-> NoControl]
    /\ call = [c \in Clients |-> IdleCall]
    /\ script \in Scripts
    /\ at = [w \in Workers |-> "idle"]
    /\ client = [w \in Workers |-> NoClient]
    /\ wslot = [w \in Workers |-> NoControl]
    /\ cookie = [w \in Workers |-> NoCookie]
    /\ raised = [w \in Workers |-> "none"]
    /\ doomed = {}

-----------------------------------------------------------------------------
(* The request a worker serves.                                            *)
Request(w) == call[client[w]].request
Component(w) == Request(w).component
Operation(w) == Request(w).operation
IsMain(w) == Request(w).interface = "main"
IsCreate(w) == Component(w) = Home /\ Operation(w) = "create"
IsRemove(w) == Component(w) # Home /\ IsMain(w) /\ Operation(w) = "remove"
Policy(w) == PolicyOf(Request(w).interface, Operation(w))

Go(w, place) == at' = [at EXCEPT ![w] = place]

(* An exception that leaves preinvoke or postinvoke: the ORB answers with  *)
(* a system exception and calls nothing else.                              *)
Escape(w) ==
    /\ Go(w, "reply")
    /\ raised' = [raised EXCEPT ![w] = "system"]

-----------------------------------------------------------------------------
MayBegin ==
    /\ script.begins > 0
    /\ script' = [script EXCEPT !.begins = @ - 1]

(* The client's own use of Current.                                        *)
ClientBegin(c) ==
    /\ call[c].at = "idle"
    /\ slot[c] = NoControl
    /\ MayBegin
    /\ service' = Create(service, c)
    /\ slot' = [slot EXCEPT ![c] = Len(service) + 1]
    /\ UNCHANGED <<runTimeVars, call, workerVars, doomed>>

ClientCommit(c) ==
    /\ call[c].at = "idle"
    /\ slot[c] # NoControl
    /\ \E left \in CurrentCommit(service, slot[c]) :
          /\ service' = left.service
          /\ slot' = [slot EXCEPT ![c] = left.slot]
    /\ UNCHANGED <<runTimeVars, call, script, workerVars, doomed>>

ClientRollback(c) ==
    /\ call[c].at = "idle"
    /\ slot[c] # NoControl
    /\ LET left == CurrentRollback(service, slot[c])
       IN  /\ service' = left.service
           /\ slot' = [slot EXCEPT ![c] = left.slot]
    /\ UNCHANGED <<runTimeVars, call, script, workerVars, doomed>>

(* A call goes to a component that exists or existed, or to the home.      *)
Call(c) ==
    /\ call[c].at = "idle"
    /\ script.todo[c] # <<>>
    /\ Head(script.todo[c]).component \in created \cup {Home}
    /\ script' = [script EXCEPT !.todo[c] = Tail(@)]
    /\ call' = [call EXCEPT ![c] =
          [at |-> "sent", request |-> Head(script.todo[c]),
           context |-> RequestContext(slot[c]), raised |-> "none"]]
    /\ UNCHANGED <<runTimeVars, service, slot, workerVars, doomed>>

-----------------------------------------------------------------------------
(* receive_request_service_contexts, and the look at destroy_ in           *)
(* preinvoke.  The home's composition is found without the pool, once      *)
(* destroy_ has been looked at again.                                      *)
Receive(w) ==
    /\ at[w] = "idle"
    /\ PoasAlive
    /\ \E c \in Clients :
          /\ call[c].at = "sent"
          /\ call' = [call EXCEPT ![c].at = "taken"]
          /\ client' = [client EXCEPT ![w] = c]
          /\ wslot' = [wslot EXCEPT ![w] = call[c].context]
    /\ IF destroy THEN Escape(w) ELSE Go(w, "find") /\ UNCHANGED raised
    /\ UNCHANGED <<runTimeVars, service, slot, script, cookie, doomed>>

FindComponent(w) ==
    /\ at[w] = "find"
    /\ Component(w) # Home
    /\ PoolFree
    /\ \/ /\ GetServant(Component(w), IsMain(w), Operation(w))
          /\ Go(w, "lock")
          /\ UNCHANGED raised
       \/ /\ Component(w) \notin pool
          /\ Escape(w)
          /\ UNCHANGED poolVars
    /\ UNCHANGED <<lockVars, closeVars, service, clientVars, client, wslot, cookie, doomed>>

FindHome(w) ==
    /\ at[w] = "find"
    /\ Component(w) = Home
    /\ IF destroy THEN Escape(w) ELSE Go(w, "lock") /\ UNCHANGED raised
    /\ UNCHANGED <<runTimeVars, service, clientVars, client, wslot, cookie, doomed>>

LockComposition(w) ==
    /\ at[w] = "lock"
    /\ IF LockedOperation(Operation(w))
       THEN Lock(Component(w), w)
       ELSE UNCHANGED lockVars
    /\ Go(w, "policy")
    /\ UNCHANGED <<poolVars, closeVars, service, clientVars, client, wslot, cookie,
                   raised, doomed>>

(* TxnInterceptor::preinvoke.  When it raises, what the run time has       *)
(* locked and counted for the request stays so.                            *)
ApplyPolicy(w) ==
    /\ at[w] = "policy"
    /\ LET prepared == Preinvoke(Policy(w), service, wslot[w])
       IN  /\ service' = prepared.service
           /\ wslot' = [wslot EXCEPT ![w] = prepared.slot]
           /\ cookie' = [cookie EXCEPT ![w] = prepared.cookie]
           /\ IF prepared.raised = "none"
              THEN Go(w, "body") /\ UNCHANGED raised
              ELSE Escape(w)
    /\ UNCHANGED <<runTimeVars, clientVars, client, doomed>>

-----------------------------------------------------------------------------
(* The servant.  A component may mark its transaction (CCMContext), and,   *)
(* when it manages transactions itself, use UserTransaction.               *)
InBody(w) == at[w] = "body"
OtherThanSlot == <<runTimeVars, clientVars, at, client, cookie, raised, doomed>>

SetRollbackOnly(w) ==
    /\ InBody(w)
    /\ Operation(w) = "op"
    /\ service' = CurrentRollbackOnly(service, wslot[w])
    /\ UNCHANGED <<wslot, OtherThanSlot>>

SelfManaged(w) == InBody(w) /\ Policy(w) = "self-managed"

Leaves(w, left) ==
    /\ service' = left.service
    /\ wslot' = [wslot EXCEPT ![w] = left.slot]

UserBegin(w) ==
    /\ SelfManaged(w)
    /\ ~HasTransaction(service, wslot[w])
    /\ MayBegin
    /\ Leaves(w, Begin(service, wslot[w], "bean"))
    /\ UNCHANGED <<runTimeVars, slot, call, at, client, cookie, raised, doomed>>

(* What the call raises the component may pass on: EndOperation.           *)
UserCommit(w) ==
    /\ SelfManaged(w)
    /\ \E left \in CurrentCommit(service, wslot[w]) : Leaves(w, left)
    /\ UNCHANGED OtherThanSlot

UserRollback(w) ==
    /\ SelfManaged(w)
    /\ Leaves(w, CurrentRollback(service, wslot[w]))
    /\ UNCHANGED OtherThanSlot

(* The operation ends, perhaps with a system exception.                    *)
EndOperation(w) ==
    /\ InBody(w)
    /\ ~IsCreate(w)
    /\ ~IsRemove(w)
    /\ \E kind \in (IF Operation(w) = "op" THEN Raised ELSE {"none"}) :
          raised' = [raised EXCEPT ![w] = kind]
    /\ Go(w, "afterTxn")
    /\ UNCHANGED <<runTimeVars, service, clientVars, client, wslot, cookie, doomed>>

(* create of the home: the reference of the new component, which the       *)
(* object adapter may be too far gone to make, then the entry in the pool. *)
CreateReference(w) ==
    /\ InBody(w)
    /\ IsCreate(w)
    /\ \/ PoasAlive /\ Go(w, "made") /\ UNCHANGED raised
       \/ ~PoasAlive /\ Go(w, "afterTxn") /\ raised' = [raised EXCEPT ![w] = "system"]
       \/ Go(w, "afterTxn") /\ UNCHANGED raised   \* CreateFailure
    /\ UNCHANGED <<runTimeVars, service, clientVars, client, wslot, cookie, doomed>>

EnterComponent(w) ==
    /\ at[w] = "made"
    /\ \E c \in Components : AddComponent(c)
    /\ Go(w, "afterTxn")
    /\ UNCHANGED <<lockVars, closeVars, service, clientVars, client, wslot, cookie,
                   raised, doomed>>

(* remove of a component, which getServant has taken out of the pool.      *)
RemoveComponent(w) ==
    /\ InBody(w)
    /\ IsRemove(w)
    /\ IF Component(w) \in Stubborn
       THEN UNCHANGED <<servantRefs, removals>>   \* RemoveFailure
       ELSE ServantRemoved(Component(w))
    /\ Go(w, "afterTxn")
    /\ UNCHANGED <<created, pool, compositionRefs, lockVars, closeVars, service,
                   clientVars, client, wslot, cookie, raised, doomed>>

-----------------------------------------------------------------------------
(* TxnInterceptor::postinvoke.  When it raises, ContainerRunTime's is not  *)
(* called.                                                                 *)
AfterTxn(w) ==
    /\ at[w] = "afterTxn"
    /\ \E left \in Postinvoke(cookie[w], service, wslot[w]) :
          /\ service' = left.service
          /\ wslot' = [wslot EXCEPT ![w] = left.slot]
          /\ IF left.raised = "none"
             THEN Go(w, "afterRunTime") /\ UNCHANGED raised
             ELSE Escape(w)
    /\ cookie' = [cookie EXCEPT ![w] = NoCookie]
    /\ UNCHANGED <<runTimeVars, clientVars, client, doomed>>

(* ContainerRunTime::postinvoke.                                           *)
AfterRunTime(w) ==
    /\ at[w] = "afterRunTime"
    /\ IF LockedOperation(Operation(w)) THEN Unlock(Component(w)) ELSE UNCHANGED lockVars
    /\ IF Component(w) # Home
       THEN Release(Component(w), IsMain(w))
       ELSE UNCHANGED poolVars
    /\ Go(w, "reply")
    /\ UNCHANGED <<closeVars, service, clientVars, client, wslot, cookie, raised, doomed>>

(* send_reply: the mark, and the transaction of the slot as the context of *)
(* the reply.                                                              *)
Reply(w) ==
    /\ at[w] = "reply"
    /\ service' = MarkOnException(service, wslot[w], raised[w])
    /\ call' = [call EXCEPT ![client[w]] =
          [@ EXCEPT !.at = "answered", !.context = wslot[w], !.raised = raised[w]]]
    /\ doomed' = IF /\ raised[w] = "system"
                    /\ call[client[w]].context = wslot[w]
                    /\ wslot[w] # NoControl
                    /\ service[wslot[w]].fate = "open"
                 THEN doomed \cup {wslot[w]}
                 ELSE doomed
    /\ Go(w, "idle")
    /\ client' = [client EXCEPT ![w] = NoClient]
    /\ wslot' = [wslot EXCEPT ![w] = NoControl]
    /\ cookie' = [cookie EXCEPT ![w] = NoCookie]
    /\ raised' = [raised EXCEPT ![w] = "none"]
    /\ UNCHANGED <<runTimeVars, slot, script>>

(* receive_reply: a system exception marks the transaction of the reply,   *)
(* or, when the reply has none, the client's; a client without one ends in *)
(* the assertion.                                                          *)
ReceiveReply(c) ==
    /\ call[c].at = "answered"
    /\ LET context == IF call[c].context = NoControl THEN slot[c] ELSE call[c].context
       IN  /\ service' = MarkOnException(service, context, call[c].raised)
           /\ call' = [call EXCEPT ![c] =
                IF call[c].raised = "system" /\ context = NoControl
                THEN [IdleCall EXCEPT !.at = "dead"]
                ELSE IdleCall]
    /\ UNCHANGED <<runTimeVars, slot, script, workerVars, doomed>>

-----------------------------------------------------------------------------
Quiet == \A w \in Workers : at[w] = "idle"

RestOfSystem == <<service, clientVars, workerVars, doomed>>

AskRemoval ==
    /\ script.removals > 0
    /\ script' = [script EXCEPT !.removals = @ - 1]
    /\ RemoveHome
    /\ UNCHANGED <<service, slot, call, workerVars, doomed>>

Removal ==
    /\ EnterPool \/ CleanNext \/ CleanRemoves \/ CleanEnds \/ UnregisterHome
       \/ DestroyPoas \/ Join(Quiet)
    /\ UNCHANGED RestOfSystem

Serve(w) ==
    \/ Receive(w) \/ FindComponent(w) \/ FindHome(w) \/ LockComposition(w)
    \/ ApplyPolicy(w) \/ EndOperation(w) \/ CreateReference(w) \/ EnterComponent(w)
    \/ RemoveComponent(w) \/ AfterTxn(w) \/ AfterRunTime(w) \/ Reply(w)

UseTransaction(w) ==
    SetRollbackOnly(w) \/ UserBegin(w) \/ UserCommit(w) \/ UserRollback(w)

ClientStep(c) ==
    ClientBegin(c) \/ ClientCommit(c) \/ ClientRollback(c) \/ Call(c) \/ ReceiveReply(c)

Next ==
    \/ \E c \in Clients : ClientStep(c)
    \/ \E w \in Workers : Serve(w) \/ UseTransaction(w)
    \/ AskRemoval
    \/ Removal

Spec == Init /\ [][Next]_vars

(* The worker threads run, an operation ends and a client takes its answer *)
(* (the steps of a component's own use of transactions and the client's    *)
(* requests are never forced); remove_home, once called, goes on.          *)
Fairness ==
    /\ \A w \in Workers : WF_vars(Serve(w))
    /\ \A c \in Clients : WF_vars(ReceiveReply(c))
    /\ WF_vars(Removal)

LiveSpec == Spec /\ Fairness

-----------------------------------------------------------------------------
(* Where a request holds the lock of its composition, or its references.   *)
Locked(w) ==
    /\ at[w] \in {"policy", "body", "made", "afterTxn", "afterRunTime"}
    /\ LockedOperation(Operation(w))

Uses(w, k) ==
    /\ at[w] \in {"lock", "policy", "body", "made", "afterTxn", "afterRunTime"}
    /\ Component(w) = k

(* With the serializing threading policy no two operations of a component  *)
(* or its ports run at the same time, even after a request whose exception *)
(* left the lock held.                                                     *)
Serialized ==
    \A v, w \in Workers :
        Locked(v) /\ Locked(w) /\ Component(v) = Component(w) => v = w

(* A composition, and for requests on the component itself its servant, is *)
(* kept as long as a request uses it, whatever remove and cleanup do.      *)
KeptWhileUsed ==
    \A w \in Workers : \A c \in Components :
        Uses(w, c) => /\ compositionRefs[c] > 0
                      /\ IsMain(w) => servantRefs[c] > 0

(* ccm_remove runs at most once for a component, although requests, and    *)
(* cleanup against them, may ask for it several times.                     *)
RemovedOnce == \A c \in Components : removals[c] <= 1

(* A policy other than requires-new hands the thread back with the         *)
(* transaction of the request in its slot, so that the reply speaks of it. *)
ReplyCarriesItsTransaction ==
    \A w \in Workers :
        /\ at[w] = "reply"
        /\ call[client[w]].context # NoControl
        /\ Policy(w) \notin {"requires-new", "self-managed"}
        => wslot[w] = call[client[w]].context

(* A transaction that the container began for a request is finished when   *)
(* the request leaves its upcall.                                          *)
OwnTransactionEnded ==
    \A x \in Controls(service) :
        service[x].by = "container" /\ service[x].fate = "open" =>
            \E w \in Workers :
                /\ at[w] \in {"body", "made", "afterTxn"}
                /\ cookie[w] = [action |-> "COMMIT", control |-> x]

(* A propagated transaction that was open when a system exception was sent *)
(* back never commits.                                                     *)
ExceptionDooms == \A x \in doomed : service[x].fate # "committed"

(* Who may end a transaction of a client in a step.                        *)
EndedRightly ==
    \A x \in Controls(service) :
        service[x].by \in Clients /\ service'[x].fate # service[x].fate =>
            \/ slot[service[x].by] = x /\ call[service[x].by].at = "idle"
            \/ \E w \in Workers :
                  /\ at[w] \in {"body", "afterTxn"}
                  /\ Policy(w) \in {"requires-new", "self-managed"}
                  /\ call[client[w]].context = x

(* The transaction of a client is ended by nobody else, except where the   *)
(* policy requires-new commits the suspended one or a component manages    *)
(* transactions itself.                                                    *)
EndedByItsBeginner == [][EndedRightly]_vars

(* The lock of a composition that is held more often than requests account *)
(* for: a refused policy or a commit that was rolled back left it behind.  *)
LockLeft(k) ==
    depth[k] > Cardinality({w \in Workers : Locked(w) /\ Component(w) = k})

(* A request that waits for such a lock of another thread.                 *)
Stuck(w) ==
    /\ at[w] = "lock"
    /\ LockedOperation(Operation(w))
    /\ owner[Component(w)] \notin {Nobody, w}
    /\ LockLeft(Component(w))

(* A call is answered, unless the home has been removed or the request     *)
(* itself waits for a lock that was left behind: such a lock stops no      *)
(* request on another composition.                                         *)
Answered ==
    \A c \in Clients :
        call[c].at = "sent" ~>
            \/ call[c].at \notin {"sent", "taken"}
            \/ closing = "closed"
            \/ \E w \in Workers : client[w] = c /\ Stuck(w)

(* The removal of the home ends, unless a request is in the way for ever.  *)
RemoveHomeReturns ==
    closing = "enter" ~>
        closing \in {"closed", "failed"} \/ \E w \in Workers : Stuck(w)
=============================================================================
