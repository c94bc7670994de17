---------------------- MODULE ExecutorInvokerInvariants ----------------------
(***************************************************************************)
(* The inductive invariants behind the safety properties of                *)
(* ExecutorInvoker: who serves whom, who holds which lock, which           *)
(* references are counted, who may still remove a component, and whose     *)
(* transactions are in the slots and the cookies.                          *)
(***************************************************************************)
EXTENDS ExecutorInvoker

Busy(w) == at[w] # "idle"

(* A request that was taken is served by one worker.                       *)
ServeInv ==
    /\ \A w \in Workers :
          Busy(w) => client[w] \in Clients /\ call[client[w]].at = "taken"
    /\ \A v, w \in Workers :
          Busy(v) /\ Busy(w) /\ client[v] = client[w] => v = w

(* A held lock has an owner, and who is inside is the owner.               *)
LockInv ==
    /\ \A k \in Compositions : owner[k] = Nobody <=> depth[k] = 0
    /\ \A w \in Workers : Locked(w) => owner[Component(w)] = w

Users(c) == {w \in Workers : Uses(w, c)}
MainUsers(c) == {w \in Workers : Uses(w, c) /\ IsMain(w)}

(* In the map, or in the hands of cleanup.                                 *)
Kept(c) == c \in pool \/ c = victim

(* There are at least as many references as uses: a request that was       *)
(* answered by an escaping exception leaves its own behind.                *)
RefsOK(c) ==
    /\ compositionRefs[c] >= Cardinality(Users(c)) + (IF Kept(c) THEN 1 ELSE 0)
    /\ c \in created =>
          servantRefs[c] + removals[c] >= Cardinality(MainUsers(c)) + 1
    /\ c \notin created => removals[c] = 0 /\ Users(c) = {}

RefsInv == \A c \in Components : RefsOK(c)

Removing(w, c) ==
    /\ at[w] \in {"lock", "policy", "body"}
    /\ Component(w) = c
    /\ IsRemove(w)

(* The map, cleanup and one request at most compete for a removal that has *)
(* not been made, and only one of them has the component.                  *)
RemovalOK(c) ==
    /\ removals[c] <= 1
    /\ Kept(c) => removals[c] = 0 /\ \A w \in Workers : ~Removing(w, c)
    /\ \A w \in Workers : Removing(w, c) => removals[c] = 0
    /\ \A v, w \in Workers : Removing(v, c) /\ Removing(w, c) => v = w

RemovalInv ==
    /\ closing = "removing" <=> victim # Home
    /\ victim \notin pool
    /\ victim # Home => victim \in created
    /\ \A c \in Components : RemovalOK(c)

-----------------------------------------------------------------------------
Context(w) == call[client[w]].context

(* A client's thread has transactions of its own only, and the transaction *)
(* of a call stays in the thread until the call returns.                   *)
SlotInv ==
    \A c \in Clients :
        /\ slot[c] # NoControl => service[slot[c]].by = c
        /\ call[c].at \in {"sent", "taken"} => call[c].context = slot[c]

(* What the cookie of a request may hold, and when.                        *)
CookieOK(w) ==
    /\ cookie[w] # NoCookie => at[w] \in {"body", "made", "afterTxn"}
    /\ cookie[w].action = "NOACTION" => cookie[w] = NoCookie
    /\ cookie[w].action # "NOACTION" => cookie[w].control # NoControl
    /\ cookie[w].action = "COMMIT" => service[cookie[w].control].by = "container"
    /\ cookie[w].action = "RESUME" => cookie[w].control = Context(w)
    /\ cookie[w].action = "COMMITRESUME" =>
          cookie[w].control = Context(w) /\ Policy(w) = "requires-new"

(* What the slot of a worker's thread may hold.                            *)
WorkerSlotOK(w) ==
    /\ at[w] \in {"find", "lock", "policy"} => wslot[w] = Context(w)
    /\ Busy(w) /\ wslot[w] # NoControl /\ service[wslot[w]].by \in Clients =>
          wslot[w] = Context(w)
    /\ /\ Busy(w)
       /\ Context(w) # NoControl
       /\ Policy(w) \notin {"requires-new", "self-managed"}
       => wslot[w] = Context(w) \/ cookie[w].action = "RESUME"

WorkerInv == \A w \in Workers : CookieOK(w) /\ WorkerSlotOK(w)

FinishedHasFate ==
    \A x \in Controls(service) :
        service[x].view = "NoTransaction" => service[x].fate # "open"

DoomedInv ==
    \A x \in doomed :
        \/ service[x].fate = "aborted"
        \/ service[x].view = "MarkedRollback" /\ service[x].fate = "open"

TransactionInv ==
    /\ SlotInv
    /\ WorkerInv
    /\ FinishedHasFate
    /\ DoomedInv
    /\ OwnTransactionEnded
=============================================================================
