----------------------------- MODULE AtomicCommit -----------------------------
(***************************************************************************)
(* What a transaction promises its resources: one group of them, complete  *)
(* before the first of them commits, never ends committed in part and      *)
(* aborted in part, and whoever commits does so only when every other      *)
(* member has voted to commit.                                             *)
(* Nothing is said of messages, votes or the coordinator.                  *)
(***************************************************************************)
CONSTANT Resources

VARIABLES
    members,   \* the resources bound together by the decision to commit
    fate       \* what became of the work of each resource

avars == <<members, fate>>

AInit ==
    /\ members = {}
    /\ fate = [r \in Resources |-> "none"]

BeginWork(r) ==
    /\ fate[r] = "none"
    /\ fate' = [fate EXCEPT ![r] = "open"]
    /\ UNCHANGED members

(* The group may grow only while nobody in it has committed.               *)
Enrol ==
    /\ members' \in SUBSET Resources
    /\ members \subseteq members'
    /\ \A r \in members' : fate[r] # "committed"
    /\ UNCHANGED fate

Vote(r) ==
    /\ fate[r] = "open"
    /\ fate' = [fate EXCEPT ![r] = "prepared"]
    /\ UNCHANGED members

(* A lone member may commit without voting first.                          *)
CommitWork(r) ==
    /\ r \in members
    /\ fate[r] = "prepared" \/ (fate[r] = "open" /\ members = {r})
    /\ \A s \in members \ {r} : fate[s] \in {"prepared", "committed"}
    /\ fate' = [fate EXCEPT ![r] = "committed"]
    /\ UNCHANGED members

AbortWork(r) ==
    /\ fate[r] \in {"open", "prepared"}
    /\ r \in members => \A s \in members : fate[s] # "committed"
    /\ fate' = [fate EXCEPT ![r] = "aborted"]
    /\ UNCHANGED members

ANext ==
    \/ Enrol
    \/ \E r \in Resources : BeginWork(r) \/ Vote(r) \/ CommitWork(r) \/ AbortWork(r)

ASpec == AInit /\ [][ANext]_avars
=============================================================================
