-------------------------- MODULE ContainerRunTime --------------------------
(***************************************************************************)
(* The run time of one home: the pool of its components (ComponentsPool),  *)
(* the locks and reference counts of their compositions, and the removal   *)
(* of the home (ContainerBase::remove_home, ContainerRunTime::cleanup and  *)
(* ComponentsPool::cleanup), all under ccm/src/AppSvr.                     *)
(*                                                                         *)
(* A component and its ports enter and leave the map together, under the   *)
(* monitor of the pool, so the pool is a set of components.  That monitor  *)
(* is held from one step to another only by cleanup.                       *)
(***************************************************************************)
EXTENDS Naturals, FiniteSets

CONSTANTS
    Components,   \* the components the home ever creates
    Initial,      \* those that exist at first
    Stubborn,     \* components whose ccm_remove raises RemoveFailure
    Home,         \* the composition of the home
    Workers,      \* the threads of the pool that runs the requests
    Nobody,       \* no thread
    MultiThread   \* isMultiThread_: no locks

Compositions == Components \cup {Home}

ASSUME ComponentsAssumption ==
    /\ Initial \subseteq Components
    /\ Stubborn \subseteq Components
    /\ Home \notin Components
    /\ IsFiniteSet(Workers)
    /\ Nobody \notin Workers
    /\ MultiThread \in BOOLEAN

VARIABLES
    created,         \* the components made so far
    pool,            \* activeObjectMap_
    servantRefs,     \* references to the main servant of each component
    compositionRefs, \* references to the composition of each component
    removals,        \* how often remove of each main servant has run
    owner,           \* the thread that holds the lock of each composition
    depth,           \* and how often
    destroy,         \* the member destroy_
    closing,         \* where the call of remove_home is
    victim           \* the component cleanup is removing

poolVars == <<created, pool, servantRefs, compositionRefs, removals>>
lockVars == <<owner, depth>>
closeVars == <<destroy, closing, victim>>
runTimeVars == <<poolVars, lockVars, closeVars>>

ClosingPlace ==
    {"open", "enter", "cleaning", "removing", "registered", "failed", "leaving",
     "joining", "closed"}

RunTimeTypeOK ==
    /\ created \subseteq Components
    /\ pool \subseteq created
    /\ servantRefs \in [Components -> Nat]
    /\ compositionRefs \in [Components -> Nat]
    /\ removals \in [Components -> Nat]
    /\ owner \in [Compositions -> Workers \cup {Nobody}]
    /\ depth \in [Compositions -> Nat]
    /\ destroy \in BOOLEAN
    /\ closing \in ClosingPlace
    /\ victim \in Components \cup {Home}

(* A new servant counts its creator, and the map entry is the one          *)
(* reference to a composition once create has returned.                    *)
RunTimeInit ==
    /\ created = Initial
    /\ pool = Initial
    /\ servantRefs = [c \in Components |-> IF c \in Initial THEN 1 ELSE 0]
    /\ compositionRefs = servantRefs
    /\ removals = [c \in Components |-> 0]
    /\ owner = [k \in Compositions |-> Nobody]
    /\ depth = [k \in Compositions |-> 0]
    /\ destroy = FALSE
    /\ closing = "open"
    /\ victim = Home

-----------------------------------------------------------------------------
(* The monitor of the pool.                                                *)
(* Mutant of PoolFree: a failed cleanup keeps the monitor.                 *)
PoolFreeAfterSuccess == closing \notin {"cleaning", "removing", "failed"}

PoolFree == closing \notin {"cleaning", "removing"}

LockedOperation(operation) == ~MultiThread /\ operation # "_is_a"

(* Mutant of Lock: a lock held by another thread is taken.                 *)
LockUnchecked(k, w) ==
    /\ owner' = [owner EXCEPT ![k] = w]
    /\ depth' = [depth EXCEPT ![k] = @ + 1]

(* The lock of a composition is recursive.                                 *)
Lock(k, w) ==
    /\ owner[k] \in {Nobody, w}
    /\ owner' = [owner EXCEPT ![k] = w]
    /\ depth' = [depth EXCEPT ![k] = @ + 1]

Unlock(k) ==
    /\ depth' = [depth EXCEPT ![k] = @ - 1]
    /\ owner' = [owner EXCEPT ![k] = IF depth[k] = 1 THEN Nobody ELSE @]

(* Mutant of GetServant: the servant is handed out uncounted.              *)
GetServantUncounted(c, main, operation) ==
    /\ c \in pool
    /\ compositionRefs' =
          [compositionRefs EXCEPT ![c] =
              IF main /\ operation = "remove" THEN @ ELSE @ + 1]
    /\ pool' = IF main /\ operation = "remove" THEN pool \ {c} ELSE pool
    /\ UNCHANGED <<created, servantRefs, removals>>

(* Mutant of GetServant: the component stays in the map.                   *)
GetServantStays(c, main, operation) ==
    /\ c \in pool
    /\ servantRefs' = IF main THEN [servantRefs EXCEPT ![c] = @ + 1] ELSE servantRefs
    /\ compositionRefs' = [compositionRefs EXCEPT ![c] = @ + 1]
    /\ UNCHANGED <<created, pool, removals>>

(* getServant takes references for the request and, for the operation      *)
(* remove of the component itself, the component out of the map.           *)
GetServant(c, main, operation) ==
    /\ c \in pool
    /\ servantRefs' = IF main THEN [servantRefs EXCEPT ![c] = @ + 1] ELSE servantRefs
    /\ compositionRefs' =
          [compositionRefs EXCEPT ![c] =
              IF main /\ operation = "remove" THEN @ ELSE @ + 1]
    /\ pool' = IF main /\ operation = "remove" THEN pool \ {c} ELSE pool
    /\ UNCHANGED <<created, removals>>

(* Mutant of Release: a request on a port gives back the component's own.  *)
ReleaseMain(c, main) ==
    /\ servantRefs' = [servantRefs EXCEPT ![c] = @ - 1]
    /\ compositionRefs' = [compositionRefs EXCEPT ![c] = @ - 1]
    /\ UNCHANGED <<created, pool, removals>>

(* What postinvoke gives back of a component's references.                 *)
Release(c, main) ==
    /\ servantRefs' = IF main THEN [servantRefs EXCEPT ![c] = @ - 1] ELSE servantRefs
    /\ compositionRefs' = [compositionRefs EXCEPT ![c] = @ - 1]
    /\ UNCHANGED <<created, pool, removals>>

(* The home makes a component and onCreateComponent enters it in the map.  *)
AddComponent(c) ==
    /\ PoolFree
    /\ c \notin created
    /\ created' = created \cup {c}
    /\ pool' = pool \cup {c}
    /\ servantRefs' = [servantRefs EXCEPT ![c] = 1]
    /\ compositionRefs' = [compositionRefs EXCEPT ![c] = 1]
    /\ UNCHANGED removals

(* remove of the main servant: ccm_remove, and the creator's reference.    *)
ServantRemoved(c) ==
    /\ removals' = [removals EXCEPT ![c] = @ + 1]
    /\ servantRefs' = [servantRefs EXCEPT ![c] = @ - 1]

-----------------------------------------------------------------------------
(* The removal of the home; a call that follows a failed one finds         *)
(* destroy_ set and skips the cleaning.                                    *)
RemoveHome ==
    /\ closing \in {"open", "failed"}
    /\ destroy' = TRUE
    /\ closing' = IF destroy THEN "leaving" ELSE "enter"
    /\ UNCHANGED <<poolVars, lockVars, victim>>

EnterPool ==
    /\ closing = "enter"
    /\ closing' = "cleaning"
    /\ UNCHANGED <<poolVars, lockVars, destroy, victim>>

(* Mutant of CleanNext: a component that will refuse is passed over.       *)
CleanNextWilling ==
    /\ closing = "cleaning"
    /\ \E c \in pool \ Stubborn :
          /\ pool' = pool \ {c}
          /\ victim' = c
    /\ closing' = "removing"
    /\ UNCHANGED <<created, servantRefs, compositionRefs, removals, lockVars, destroy>>

(* The map's reference goes over to the local variable componentComposition. *)
CleanNext ==
    /\ closing = "cleaning"
    /\ \E c \in pool :
          /\ pool' = pool \ {c}
          /\ victim' = c
    /\ closing' = "removing"
    /\ UNCHANGED <<created, servantRefs, compositionRefs, removals, lockVars, destroy>>

(* remove is called on the servant itself, without the composition's lock. *)
CleanRemoves ==
    /\ closing = "removing"
    /\ compositionRefs' = [compositionRefs EXCEPT ![victim] = @ - 1]
    /\ IF victim \in Stubborn
       THEN closing' = "failed" /\ UNCHANGED <<servantRefs, removals>>
       ELSE closing' = "cleaning" /\ ServantRemoved(victim)
    /\ victim' = Home
    /\ UNCHANGED <<created, pool, lockVars, destroy>>

CleanEnds ==
    /\ closing = "cleaning"
    /\ pool = {}
    /\ closing' = "registered"
    /\ UNCHANGED <<poolVars, lockVars, destroy, victim>>

(* The home is taken out of the register.  When that fails cleanup throws  *)
(* a pointer to RemoveFailure, which no catch clause takes up to the ORB.  *)
UnregisterHome ==
    /\ closing = "registered"
    /\ closing' \in {"leaving", "failed"}
    /\ UNCHANGED <<poolVars, lockVars, destroy, victim>>

(* The object adapters are destroyed.                                      *)
DestroyPoas ==
    /\ closing = "leaving"
    /\ closing' = "joining"
    /\ UNCHANGED <<poolVars, lockVars, destroy, victim>>

PoasAlive == closing \notin {"joining", "closed"}

(* CustomThreadPool::destroy returns when no worker has a request.         *)
Join(quiet) ==
    /\ closing = "joining"
    /\ quiet
    /\ closing' = "closed"
    /\ UNCHANGED <<poolVars, lockVars, destroy, victim>>
=============================================================================
