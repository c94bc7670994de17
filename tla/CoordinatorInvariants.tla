------------------------ MODULE CoordinatorInvariants ------------------------
(***************************************************************************)
(* Inductive strengthenings of the properties of Coordinator, apart from   *)
(* their proofs so that TLC can check them first.                          *)
(***************************************************************************)
EXTENDS Coordinator

(***************************************************************************)
(* Type correctness.  TypeOK is not inductive: the loop index of a call    *)
(* has to stay inside the list it reads, and the answers a call can hold   *)
(* depend on the operation it has just called.                             *)
(***************************************************************************)
Answered == {"onephased", "voted", "committed", "recommitted", "undone", "redone"}

AnswerTo(label) ==
    NetworkFailure \cup
      CASE label = "onephased" -> {"ok", "TRANSACTION_ROLLEDBACK", "UNKNOWN", "spins"}
        [] label = "voted"     -> {"VoteCommit", "VoteRollback", "spins"}
        [] label \in {"committed", "recommitted"} ->
              {"ok", "HeuristicRollback", "NotPrepared", "spins"}
        [] OTHER -> {"ok", "spins"}

LoopInside(c) ==
    /\ len[c] <= Len(rcv)
    /\ pc[c] \in {"onephase", "onephased"} => ix[c] = 1 /\ len[c] = 1
    /\ pc[c] \in Answered => ix[c] <= len[c] /\ ans[c] \in AnswerTo(pc[c])

LoopsInside == \A c \in Terminators : LoopInside(c)

TypeInv == TypeOK /\ LoopsInside
-----------------------------------------------------------------------------
(***************************************************************************)
(* Atomicity.  It is proved for one decision: a single call ends the       *)
(* transaction, any number of late ones repeat it, no resource is          *)
(* registered twice, no connection breaks and nothing is deferred to the   *)
(* commit.  (Without these the code is not atomic, see the runs.)          *)
(***************************************************************************)
Deciders == Terminators \ Late

OneDecision ==
    /\ \A c, d \in Deciders : c = d
    /\ \A g, h \in Registrars : Target[g] = Target[h] => g = h
    /\ Disconnecting = {}
    /\ Deferring = {}

(* The state of one resource.                                              *)
Sane(p) ==
    /\ p.block = "INPROGRESS" => p.trans = "INPROGRESS" /\ p.fate = "open"
    /\ p.block = "PREPARE" => p.trans = "PREPARE" /\ p.fate = "open"

Ready(p) == p.live /\ p.block = "PREPARE" /\ p.status = "Prepared"

Finally(p) == p.fate = "committed" /\ p.status = "Committing"

SaneResources == \A r \in Resources : Sane(res[r])

(* The list holds no resource twice, and a registration that has not begun *)
(* its resource's transaction finds it untouched.                          *)
ListDistinct ==
    /\ \A i, j \in 1..Len(rcv) : rcv[i].r = rcv[j].r => i = j
    /\ \A g \in Registrars :
         /\ pc[g] \in {"idle", "begin"} => res[Target[g]] = NewResource
         /\ pc[g] \in {"idle", "begin", "enlist"} =>
               \A i \in 1..Len(rcv) : rcv[i].r # Target[g]

NothingCommitted == \A r \in Resources : res[r].fate # "committed"

AllVoted(n) ==
    \A i \in 1..n : rcv[i].rv = "VoteCommit" /\ Ready(res[rcv[i].r])

AllIn(n) ==
    \A i \in 1..n : /\ rcv[i].rv \in {"VoteCommit", "Committed"}
                    /\ Ready(res[rcv[i].r]) \/ Finally(res[rcv[i].r])

LateAt(L) == \A c \in Late : pc[c] \in L

(* The phases of the transaction, told by the call d that decides it.      *)
Undecided(d) ==
    /\ pc[d] \in {"idle", "before", "dispatch", "onephase"}
    /\ status \in {"Active", "MarkedRollback"}
    /\ LateAt({"idle"})
    /\ NothingCommitted

OnePhase(d) ==
    /\ pc[d] \in {"onephased", "done"}
    /\ len[d] = 1
    /\ status \in {"Active", "MarkedRollback"}
    /\ LateAt({"idle"})

Voting(d) ==
    /\ pc[d] \in {"prepare", "voted", "rollback", "done"}
    /\ status \in {"Preparing", "MarkedRollback"}
    /\ pc[d] = "prepare" => ix[d] <= len[d] + 1
    /\ pc[d] = "prepare" /\ status = "Preparing" => AllVoted(ix[d] - 1)
    /\ pc[d] = "voted" => /\ status = "Preparing"
                          /\ AllVoted(ix[d] - 1)
                          /\ ans[d] = "VoteCommit" => Ready(res[rcv[ix[d]].r])
    /\ pc[d] = "rollback" => status = "MarkedRollback"
    /\ pc[d] = "done" => status = "Preparing"
    /\ LateAt({"idle", "done"})
    /\ NothingCommitted

Committing(d) ==
    /\ pc[d] \in {"commit", "committed", "after", "done"}
    /\ status \in {"Committing", "NoTransaction"}
    /\ LateAt({"idle", "recommit", "recommitted", "done"})
    /\ AllIn(len[d])

Undoing(d) ==
    /\ pc[d] \in {"undo", "undone", "undoAfter", "done"}
    /\ status \in {"RollingBack", "NoTransaction"}
    /\ LateAt({"idle", "redo", "redone", "undoAfter", "spin", "done"})
    /\ NothingCommitted

Phase(d) ==
    Undecided(d) \/ OnePhase(d) \/ Voting(d) \/ Committing(d) \/ Undoing(d)

AtomicInv == SaneResources /\ ListDistinct /\ \A d \in Deciders : Phase(d)
-----------------------------------------------------------------------------
(***************************************************************************)
(* Answers.  The phases do not say what has become of the resources that a *)
(* loop has passed, which votes stand for what, and what a call may        *)
(* conclude from an answer; the truth of the replies rests on these.       *)
(***************************************************************************)
Passed(c) == {i \in 1..len[c] : i < ix[c]}

AllCommitted(J) == \A i \in J : res[rcv[i].r].fate = "committed"

AllAborted(J) == \A i \in J : res[rcv[i].r].fate = "aborted"

(* A resource whose connection holds: the block it is in tells whether its *)
(* work is still open.                                                     *)
Whole(p) ==
    /\ p.live
    /\ p.block = "ABORT" => p.fate = "aborted"
    /\ p.block = "DEFAULT" => p.fate # "open"
    /\ p.status # "Preparing"
    /\ p.status = "Committing" => p.fate = "committed"

WholeResources == \A r \in Resources : Whole(res[r])

ListBegun ==
    /\ \A i \in 1..Len(rcv) : res[rcv[i].r].fate # "none"
    /\ \A g \in Registrars : pc[g] = "enlist" =>
          res[Target[g]].fate # "none" /\ res[Target[g]].status = "Active"

(* Whoever noted a failure met one.                                        *)
FailuresCounted ==
    \A c \in Terminators :
      /\ pc[c] \in Answered /\ ans[c] \in NetworkFailure => faults > 0
      /\ heur[c] => faults > 0

(* The votes in the list.  A commit that cannot reach a resource notes     *)
(* RolledBack without knowing it.                                          *)
VotesTrue(d) ==
    \A i \in 1..Len(rcv) :
      /\ rcv[i].rv \in {"NotPrepared", "VoteCommit", "Committed", "RolledBack"}
      /\ rcv[i].rv = "Committed" => res[rcv[i].r].fate = "committed"
      /\ rcv[i].rv = "RolledBack" /\ (faults = 0 \/ d \in Rollbackers) =>
            res[rcv[i].r].fate = "aborted"

(* Nobody has called the resources of the list after the first n.          *)
Unasked(n) ==
    \A i \in 1..Len(rcv) :
      i > n => rcv[i].rv = "NotPrepared" /\ res[rcv[i].r].status = "Active"

AskedInOrder(d) ==
    /\ pc[d] \in {"idle", "before", "dispatch", "onephase"} => Unasked(0)
    /\ pc[d] = "prepare" => Unasked(ix[d] - 1)
    /\ pc[d] = "voted" => Unasked(ix[d])
    /\ status = "Committing" \/ ~LateAt(Label \ {"recommit", "recommitted"}) =>
          Unasked(len[d])

(* The answer a call holds is what the resource did.                       *)
AnswerTrue(c) ==
    LET fate == res[rcv[ix[c]].r].fate
    IN  /\ pc[c] = "onephased" =>
              /\ ans[c] # "UNKNOWN"
              /\ ans[c] = "ok" => fate = "committed"
              /\ ans[c] = "TRANSACTION_ROLLEDBACK" => fate = "aborted"
        /\ pc[c] = "voted" /\ ans[c] = "VoteRollback" => fate = "aborted"
        /\ pc[c] \in {"committed", "recommitted"} =>
              /\ ans[c] \in NetworkFailure \cup {"ok"}
              /\ ans[c] = "ok" => fate = "committed"
        /\ pc[c] \in {"undone", "redone"} /\ ans[c] = "ok" => fate = "aborted"

(* A loop knows what became of the entries it has passed: a commit when it *)
(* noted no heuristic outcome, a repeated commit of those that the         *)
(* decision d counted, a rollback when nothing failed, and the rollback    *)
(* that decides when it noted no heuristic outcome.                        *)
Sure(c) == faults = 0 \/ (c \in Rollbackers \ Late /\ ~heur[c])

LoopTrue(c, d) ==
    /\ pc[c] \in {"commit", "committed"} /\ ~heur[c] => AllCommitted(Passed(c))
    /\ pc[c] = "after" /\ ~heur[c] => AllCommitted(1..len[c])
    /\ pc[c] \in {"recommit", "recommitted"} =>
          AllCommitted({i \in Passed(c) : i <= len[d]})
    /\ pc[c] = "recommitted" => ix[c] <= len[d]
    /\ pc[c] \in {"undo", "undone", "redo", "redone"} /\ Sure(c) => AllAborted(Passed(c))
    /\ pc[c] = "undoAfter" /\ (faults = 0 \/ c \in Rollbackers \ Late) =>
          AllAborted(1..len[c])

(* What a finished call has said, of the entries the decision counted too. *)
ReplyTrue(c, d) ==
    /\ pc[c] # "done" => reply[c] = "none"
    /\ pc[c] = "idle" => len[c] = 0
    /\ c \in Committers /\ reply[c] = "ok" /\ ReportHeuristics =>
          AllCommitted({i \in 1..len[c] : i <= len[d]})
    /\ pc[c] = "done" /\ up /\ faults = 0 =>
          \A i \in 1..len[c] : i <= len[d] => res[rcv[i].r].fate \in {"committed", "aborted"}

(* The places a call can be at, by what it was made for.  No late call     *)
(* reads the list before the decision has read it for the last time.       *)
Places(d) ==
    /\ d \in Rollbackers => pc[d] \in {"idle", "undo", "undone", "undoAfter", "done"}
    /\ \A c \in Late \cap Committers :
          pc[c] \in {"idle", "recommit", "recommitted", "spin", "done"}
    /\ \A c \in Late \cap Rollbackers :
          pc[c] \in {"idle", "redo", "redone", "undoAfter", "done"}
    /\ pc[d] \in {"idle", "before", "dispatch", "onephase", "onephased", "prepare",
                  "voted", "rollback"} => \A c \in Late : len[c] = 0

(* Once the decision d is reported as a rollback nothing commits.          *)
ReportedRollback(d) ==
    reply[d] = "TRANSACTION_ROLLEDBACK" \/ (d \in Rollbackers /\ reply[d] = "ok")

VerdictTrue(d) ==
    /\ \A c \in Late \cap Committers : reply[c] # "TRANSACTION_ROLLEDBACK"
    /\ pc[d] = "onephased" /\ ans[d] = "TRANSACTION_ROLLEDBACK" => NothingCommitted
    /\ ReportedRollback(d) => /\ NothingCommitted
                              /\ status # "Committing"
                              /\ LateAt(Label \ {"recommit", "recommitted"})
    /\ d \in Rollbackers /\ reply[d] = "ok" => AllAborted(1..len[d])

WorldInv == WholeResources /\ ListBegun /\ FailuresCounted

CallInv(c, d) == AnswerTrue(c) /\ LoopTrue(c, d) /\ ReplyTrue(c, d)

DecisionInv(d) ==
    /\ VotesTrue(d) /\ AskedInOrder(d) /\ Places(d) /\ VerdictTrue(d)
    /\ \A c \in Terminators : CallInv(c, d)

AnswerInv == \A d \in Deciders : WorldInv /\ DecisionInv(d)
-----------------------------------------------------------------------------
(***************************************************************************)
(* Broken connections.  With one call to end the transaction its answers   *)
(* are true whatever breaks and whatever is deferred to the commit: a vote *)
(* may then be forgotten before the commit, so the resources are not whole *)
(* and the phases above do not hold.                                       *)
(***************************************************************************)
Solo ==
    /\ \E d : Terminators = {d}
    /\ \A g, h \in Registrars : Target[g] = Target[h] => g = h
    /\ Late = {}

(* A resource whose connection may have broken.                            *)
Sound(p) ==
    /\ Sane(p)
    /\ ~p.live => p.block = "DEFAULT"
    /\ p.block = "ABORT" => p.fate = "aborted"
    /\ p.block = "DEFAULT" => p.fate # "open"
    /\ p.status # "Preparing"
    /\ p.fate = "committed" => p.status = "Committing"

SoundResources == \A r \in Resources : Sound(res[r])

(* The list, while connections break before a registration has begun.      *)
Asked(g) == pc[g] \in {"idle", "begin", "enlist"}

ListSound ==
    /\ \A i, j \in 1..Len(rcv) : rcv[i].r = rcv[j].r => i = j
    /\ \A i \in 1..Len(rcv) : res[rcv[i].r].fate # "none"
    /\ \A g \in Registrars : Asked(g) =>
         /\ \A i \in 1..Len(rcv) : rcv[i].r # Target[g]
         /\ res[Target[g]].status = "Active"
         /\ res[Target[g]].fate = "none" <=> pc[g] # "enlist"

(* The statuses a transaction has while its only call is at a label.       *)
StatusAt(label) ==
    CASE label \in {"idle", "before", "dispatch", "onephase", "onephased"} ->
           {"Active", "MarkedRollback"}
      [] label = "prepare"                -> {"Preparing", "MarkedRollback"}
      [] label = "voted"                  -> {"Preparing"}
      [] label = "rollback"               -> {"MarkedRollback"}
      [] label \in {"commit", "committed"} -> {"Committing"}
      [] label \in {"undo", "undone"}      -> {"RollingBack"}
      [] label \in {"after", "undoAfter"}  -> {"NoTransaction"}
      [] label = "done"                   -> TransactionStatus
      [] OTHER                            -> {}

SoloPlace(d) ==
    /\ status \in StatusAt(pc[d])
    /\ d \in Rollbackers => pc[d] \in {"idle", "undo", "undone", "undoAfter", "done"}
    /\ pc[d] = "prepare" => ix[d] <= len[d] + 1
    /\ pc[d] # "done" => reply[d] = "none"

SoloOrder(d) ==
    /\ pc[d] \in {"idle", "before", "dispatch", "onephase"} => Unasked(0)
    /\ pc[d] = "prepare" => Unasked(ix[d] - 1)
    /\ pc[d] = "voted" => Unasked(ix[d])

(* A resource that has voted to commit is prepared, or its connection is   *)
(* gone; no other one is called in the commit phase.                       *)
Promised(p) == p.status = "Prepared" /\ (p.block = "PREPARE" \/ ~p.live)

PromisedIn(J) == \A i \in J : Promised(res[rcv[i].r])

Promises(d) ==
    /\ pc[d] = "prepare" /\ status = "Preparing" => PromisedIn(Passed(d))
    /\ pc[d] = "voted" => /\ PromisedIn(Passed(d))
                          /\ ans[d] = "VoteCommit" => Promised(res[rcv[ix[d]].r])
    /\ pc[d] = "commit" => PromisedIn((1..len[d]) \ Passed(d))
    /\ pc[d] = "committed" => PromisedIn((1..len[d]) \ (Passed(d) \cup {ix[d]}))

(* No resource was told to commit, unless the call may still find out.     *)
NoneTold == \A r \in Resources : res[r].status # "Committing"

Withheld(d) ==
    \/ NoneTold
    \/ /\ d \in Committers
       /\ \/ pc[d] = "onephased" /\ ans[d] # "TRANSACTION_ROLLEDBACK"
          \/ pc[d] \in {"commit", "committed", "after"}
          \/ pc[d] = "done" /\ reply[d] # "TRANSACTION_ROLLEDBACK"

(* Only a failure, or a service that ends, cuts such a call short: the     *)
(* exceptions by which a commit gives up are none it may throw.            *)
Orderly(d) == d \in Rollbackers \/ ThrowSpecsEnforced

AllSettled(J) == \A i \in J : res[rcv[i].r].fate \in {"committed", "aborted"}

Heard(d) ==
    LET fate == res[rcv[ix[d]].r].fate
    IN  /\ heur[d] => faults > 0
        /\ pc[d] = "onephased" /\ ans[d] # "spins" /\ ThrowSpecsEnforced /\ faults = 0 =>
              AllSettled({ix[d]})
        /\ pc[d] \in Answered \ {"onephased"} /\ ans[d] \in NetworkFailure => faults > 0
        /\ pc[d] \in {"onephased", "committed"} /\ ans[d] = "ok" => fate = "committed"
        /\ pc[d] = "voted" /\ ans[d] = "VoteRollback" => fate = "aborted"
        /\ pc[d] = "undone" /\ ans[d] = "ok" => fate = "aborted"

SoloReply(d) ==
    /\ d \in Committers /\ reply[d] = "ok" /\ ReportHeuristics => AllCommitted(1..len[d])
    /\ d \in Rollbackers /\ reply[d] = "ok" => AllAborted(1..len[d])
    /\ pc[d] = "done" /\ up /\ faults = 0 /\ Orderly(d) => AllSettled(1..len[d])

SoloCall(d) ==
    /\ SoloPlace(d) /\ SoloOrder(d) /\ Promises(d) /\ Withheld(d) /\ Heard(d)
    /\ VotesTrue(d) /\ LoopTrue(d, d) /\ SoloReply(d)

SoloInv == SoundResources /\ ListSound /\ \A d \in Terminators : SoloCall(d)
-----------------------------------------------------------------------------
(***************************************************************************)
(* The last word.  A repeated rollback notifies the synchronizations once  *)
(* more, so this too is of a single call.  When it is over only a failure  *)
(* can have left one of the resources it counted undecided.                *)
(***************************************************************************)
Notified == \E s \in Syncs : after[s] > 0

LastWord(d) ==
    /\ \A i, j \in 1..Len(syncs) : syncs[i] = syncs[j] => i = j
    /\ pc[d] \notin {"after", "undoAfter", "done"} => ~Notified
    /\ pc[d] \in {"after", "undoAfter"} =>
          /\ status = "NoTransaction"
          /\ \A i \in 1..Len(syncs) : i >= ix[d] => after[syncs[i]] = 0
    /\ Notified =>
          /\ status = "NoTransaction"
          /\ faults = 0 => AllSettled(1..len[d])

LastWordInv == \A d \in Terminators : LastWord(d)
=============================================================================
