----------------------- MODULE TransactionPolicyProofs -----------------------
(***************************************************************************)
(* Whose transactions are where: the invariant TransactionInv of           *)
(* ExecutorInvoker is kept by every step, for every number of clients,     *)
(* workers, components and transactions and for every descriptor.          *)
(***************************************************************************)
EXTENDS ExecutorInvokerInvariants, TLAPS

(***************************************************************************)
(* What the operations of the transaction service do to the transactions:  *)
(* none goes away or changes its beginner, what has ended stays ended, and *)
(* what is marked is not committed.                                        *)
(***************************************************************************)
Sound(s) ==
    \A x \in Controls(s) : s[x].view = "NoTransaction" => s[x].fate # "open"

MarkedOpen(txn) == txn.view = "MarkedRollback" /\ txn.fate = "open"

Extended(s, t) ==
    /\ s \in Seq(Txn)
    /\ t \in Seq(Txn)
    /\ Controls(s) \subseteq Controls(t)
    /\ \A x \in Controls(s) :
          /\ t[x].by = s[x].by
          /\ s[x].fate # "open" => t[x].fate = s[x].fate
          /\ MarkedOpen(s[x]) => MarkedOpen(t[x]) \/ t[x].fate = "aborted"
    /\ Sound(s) => Sound(t)

LEMMA Same == ASSUME NEW s \in Seq(Txn) PROVE Extended(s, s)
BY DEF Extended

LEMMA Then ==
  ASSUME NEW s, NEW t, NEW u, Extended(s, t), Extended(t, u)
  PROVE  Extended(s, u)
BY DEF Extended

LEMMA EndsExtends ==
  ASSUME NEW s \in Seq(Txn), NEW x \in Controls(s), NEW v \in View,
         NEW f \in {"committed", "aborted"},
         s[x].view # "MarkedRollback" \/ f = "aborted"
  PROVE  /\ Extended(s, Ends(s, x, v, f))
         /\ Ends(s, x, v, f)[x].fate # "open"
         /\ Ends(s, x, v, f)[x].view = v
         /\ Controls(Ends(s, x, v, f)) = Controls(s)
         /\ \A y \in Controls(s) \ {x} : Ends(s, x, v, f)[y] = s[y]
<1> DEFINE r == [s[x] EXCEPT !.view = v, !.fate = IF @ = "open" THEN f ELSE @]
<1>1. x \in 1..Len(s) /\ s[x] \in Txn
  BY DEF Controls
<1>2. /\ r \in Txn /\ r.by = s[x].by /\ r.view = v /\ r.fate # "open"
      /\ s[x].fate # "open" => r.fate = s[x].fate
      /\ s[x].fate = "open" => r.fate = f
  BY <1>1 DEF Txn, Fate
<1>3. Ends(s, x, v, f) = [s EXCEPT ![x] = r]
  BY Zenon DEF Ends
<1> HIDE DEF r
<1> DEFINE t == [s EXCEPT ![x] = r]
<1>4. t \in Seq(Txn) /\ DOMAIN t = DOMAIN s
  BY <1>1, <1>2
<1>5. t[x] = r /\ \A y \in DOMAIN s \ {x} : t[y] = s[y]
  BY <1>1
<1>6. MarkedOpen(s[x]) => r.fate = "aborted"
  BY <1>2 DEF MarkedOpen
<1>7. \A y \in DOMAIN s :
         /\ t[y].by = s[y].by
         /\ s[y].fate # "open" => t[y].fate = s[y].fate
         /\ MarkedOpen(s[y]) => MarkedOpen(t[y]) \/ t[y].fate = "aborted"
         /\ t[y].view = "NoTransaction" /\ t[y].fate = "open" =>
               s[y].view = "NoTransaction" /\ s[y].fate = "open"
  <2> SUFFICES ASSUME NEW y \in DOMAIN s
               PROVE  /\ t[y].by = s[y].by
                      /\ s[y].fate # "open" => t[y].fate = s[y].fate
                      /\ MarkedOpen(s[y]) => MarkedOpen(t[y]) \/ t[y].fate = "aborted"
                      /\ t[y].view = "NoTransaction" /\ t[y].fate = "open" =>
                            s[y].view = "NoTransaction" /\ s[y].fate = "open"
    OBVIOUS
  <2>1. CASE y = x
    BY <2>1, <1>2, <1>5, <1>6
  <2>2. CASE y # x
    BY <2>2, <1>5
  <2> QED
    BY <2>1, <2>2
<1> HIDE DEF t
<1>8. Extended(s, t)
  BY <1>4, <1>7 DEF Extended, Controls, Sound
<1> QED
  BY <1>1, <1>2, <1>3, <1>4, <1>5, <1>8 DEF Controls, t

(* However a commit ends, its transaction is over, and it touches no other *)
(* one; where it answers UNKNOWN the transaction still says it is active.  *)
LEMMA CommitExtends ==
  ASSUME NEW s \in Seq(Txn), NEW x \in Controls(s), NEW a \in CommitOutcomes(s, x)
  PROVE  /\ Extended(s, a.service)
         /\ Controls(a.service) = Controls(s)
         /\ a.raised \in {"none", "TRANSACTION_ROLLEDBACK", "UNKNOWN"}
         /\ Sound(s) => a.service[x].fate # "open"
         /\ a.raised = "UNKNOWN" => a.service[x].view = "Active"
         /\ \A y \in Controls(s) \ {x} : a.service[y] = s[y]
<1>1. "NoTransaction" \in View /\ "Active" \in View
  BY DEF View
<1>2. s[x].view \in View
  <2>1. x \in 1..Len(s) /\ s[x] \in Txn
    BY DEF Controls
  <2> QED
    BY <2>1 DEF Txn
<1>3. CASE s[x].view = "Active"
  <2>1. a \in CommitActive(s, x)
    BY <1>3 DEF CommitOutcomes
  <2> QED
    BY <1>1, <1>3, <2>1, EndsExtends DEF CommitActive, Answer
<1>4. CASE s[x].view = "MarkedRollback"
  BY <1>1, <1>4, EndsExtends DEF CommitOutcomes, Answer
<1>5. CASE s[x].view = "NoTransaction"
  BY <1>5, Same DEF CommitOutcomes, Answer, Sound
<1> QED
  BY <1>2, <1>3, <1>4, <1>5 DEF View

LEMMA RollbackExtends ==
  ASSUME NEW s \in Seq(Txn), NEW x \in Controls(s)
  PROVE  LET a == Rollback(s, x)
         IN  /\ Extended(s, a.service)
             /\ Controls(a.service) = Controls(s)
             /\ a.raised \in {"none", "INVALID_TRANSACTION"}
             /\ s[x].view = "NoTransaction" =>
                   a.service = s /\ a.raised = "INVALID_TRANSACTION"
             /\ \A y \in Controls(s) \ {x} : a.service[y] = s[y]
<1>1. "NoTransaction" \in View
  BY DEF View
<1>2. CASE s[x].view = "NoTransaction"
  BY <1>2, Same DEF Rollback, Answer
<1>3. CASE s[x].view # "NoTransaction"
  BY <1>1, <1>3, EndsExtends DEF Rollback, Answer
<1> QED
  BY <1>2, <1>3

LEMMA MarkExtends ==
  ASSUME NEW s \in Seq(Txn), NEW x \in Controls(s)
  PROVE  LET t == RollbackOnly(s, x).service
         IN  /\ Extended(s, t)
             /\ Controls(t) = Controls(s)
             /\ \A y \in Controls(s) : t[y].fate = s[y].fate
             /\ Sound(s) /\ s[x].fate = "open" => MarkedOpen(t[x])
<1> DEFINE r == [s[x] EXCEPT !.view = "MarkedRollback"]
           t == [s EXCEPT ![x].view = "MarkedRollback"]
<1>1. x \in DOMAIN s /\ s[x] \in Txn
  BY DEF Controls
<1>2. /\ r \in Txn /\ r.by = s[x].by /\ r.fate = s[x].fate
      /\ r.view = "MarkedRollback"
  BY <1>1 DEF Txn, View
<1>3. t = [s EXCEPT ![x] = r]
  OBVIOUS
<1> HIDE DEF r
<1>4. t \in Seq(Txn) /\ DOMAIN t = DOMAIN s
  BY <1>1, <1>2, <1>3
<1>5. t[x] = r /\ \A y \in DOMAIN s \ {x} : t[y] = s[y]
  BY <1>1, <1>3
<1> HIDE DEF t
<1>6. \A y \in DOMAIN s :
         /\ t[y].by = s[y].by
         /\ t[y].fate = s[y].fate
         /\ MarkedOpen(s[y]) => MarkedOpen(t[y])
         /\ t[y].view = "NoTransaction" => s[y].view = "NoTransaction"
  <2> SUFFICES ASSUME NEW y \in DOMAIN s
               PROVE  /\ t[y].by = s[y].by
                      /\ t[y].fate = s[y].fate
                      /\ MarkedOpen(s[y]) => MarkedOpen(t[y])
                      /\ t[y].view = "NoTransaction" => s[y].view = "NoTransaction"
    OBVIOUS
  <2>1. CASE y = x
    BY <2>1, <1>2, <1>5 DEF MarkedOpen
  <2>2. CASE y # x
    BY <2>2, <1>5
  <2> QED
    BY <2>1, <2>2
<1>7. /\ Extended(s, t)
      /\ s[x].fate = "open" => MarkedOpen(t[x])
  BY <1>1, <1>2, <1>4, <1>5, <1>6 DEF Extended, Controls, Sound, MarkedOpen
<1>8. CASE s[x].view # "NoTransaction"
  <2>1. RollbackOnly(s, x).service = t
    BY <1>8 DEF RollbackOnly, Answer, t
  <2> QED
    BY <2>1, <1>4, <1>6, <1>7 DEF Controls
<1>9. CASE s[x].view = "NoTransaction"
  <2>1. RollbackOnly(s, x).service = s
    BY <1>9 DEF RollbackOnly, Answer
  <2> QED
    BY <2>1, <1>9, Same DEF Sound
<1> QED
  BY <1>8, <1>9

LEMMA CreateExtends ==
  ASSUME NEW s \in Seq(Txn), NEW b \in Clients \cup {"container", "nested", "bean"}
  PROVE  LET t == Create(s, b)
         IN  /\ Extended(s, t)
             /\ Len(s) + 1 \in Controls(t) \ Controls(s)
             /\ t[Len(s) + 1].by = b
             /\ Controls(t) = Controls(s) \cup {Len(s) + 1}
             /\ \A y \in Controls(s) : t[y] = s[y]
<1> DEFINE r == [view |-> "Active", fate |-> "open", by |-> b]
<1>1. r \in Txn /\ r.by = b /\ r.view # "NoTransaction"
  BY DEF Txn, View, Fate
<1>2. Create(s, b) = Append(s, r)
  BY DEF Create
<1> HIDE DEF r
<1>3. /\ Append(s, r) \in Seq(Txn)
      /\ Len(Append(s, r)) = Len(s) + 1
      /\ \A n \in 1..Len(s) : Append(s, r)[n] = s[n]
      /\ Append(s, r)[Len(s) + 1] = r
  BY <1>1
<1>4. DOMAIN s = 1..Len(s) /\ DOMAIN Append(s, r) = 1..(Len(s) + 1) /\ Len(s) \in Nat
  BY <1>3
<1>5. /\ DOMAIN Append(s, r) = DOMAIN s \cup {Len(s) + 1}
      /\ Len(s) + 1 \notin DOMAIN s
      /\ \A n \in DOMAIN s : Append(s, r)[n] = s[n]
  BY <1>3, <1>4
<1> QED
  BY <1>1, <1>2, <1>3, <1>5 DEF Extended, Controls, Sound

(***************************************************************************)
(* What Current leaves of a thread's slot.                                 *)
(***************************************************************************)
SlotsOf(s) == {NoControl} \cup Controls(s)

LEMMA NilIsNoControl == ASSUME NEW s \in Seq(Txn) PROVE NoControl \notin Controls(s)
BY DEF Controls, NoControl

LEMMA BeginKeeps ==
  ASSUME NEW s \in Seq(Txn), NEW z \in SlotsOf(s),
         NEW b \in Clients \cup {"container", "nested", "bean"}
  PROVE  LET l == Begin(s, z, b)
         IN  /\ Extended(s, l.service)
             /\ l.slot \in SlotsOf(l.service)
             /\ \A y \in Controls(s) : l.service[y] = s[y]
             /\ z = NoControl =>
                   /\ l.raised = "none"
                   /\ l.slot \in Controls(l.service) \ Controls(s)
                   /\ l.slot # NoControl
                   /\ l.service[l.slot].by = b
                   /\ Controls(l.service) = Controls(s) \cup {l.slot}
             /\ z # NoControl => l.raised # "none" /\ l.service = s /\ l.slot = z
<1>1. CASE z = NoControl
  <2>1. Create(s, b) \in Seq(Txn)
    BY CreateExtends DEF Extended
  <2> QED
    BY <1>1, <2>1, CreateExtends, NilIsNoControl DEF Begin, Left, SlotsOf
<1>2. CASE z # NoControl
  BY <1>2, Same DEF Begin, Left, SlotsOf
<1> QED
  BY <1>1, <1>2

LEMMA CurrentCommitKeeps ==
  ASSUME NEW s \in Seq(Txn), NEW z \in SlotsOf(s), NEW l \in CurrentCommit(s, z)
  PROVE  /\ Extended(s, l.service)
         /\ Controls(l.service) = Controls(s)
         /\ l.slot \in {NoControl, z}
         /\ \A y \in Controls(s) \ {z} : l.service[y] = s[y]
<1>1. CASE z = NoControl
  BY <1>1, Same DEF CurrentCommit, Left
<1>2. CASE z # NoControl
  <2>1. z \in Controls(s)
    BY <1>2 DEF SlotsOf
  <2>2. PICK a \in CommitOutcomes(s, z) : l = Cleared(a, z)
    BY <1>2 DEF CurrentCommit
  <2> QED
    BY <2>1, <2>2, CommitExtends DEF Cleared, Left
<1> QED
  BY <1>1, <1>2

LEMMA CurrentRollbackKeeps ==
  ASSUME NEW s \in Seq(Txn), NEW z \in SlotsOf(s)
  PROVE  LET l == CurrentRollback(s, z)
         IN  /\ Extended(s, l.service)
             /\ Controls(l.service) = Controls(s)
             /\ l.slot \in {NoControl, z}
             /\ \A y \in Controls(s) \ {z} : l.service[y] = s[y]
             /\ ~HasTransaction(s, z) =>
                   l.service = s /\ l.slot = z /\ l.raised # "none"
<1>1. CASE z = NoControl
  BY <1>1, Same DEF CurrentRollback, Left
<1>2. CASE z # NoControl
  <2>1. z \in Controls(s)
    BY <1>2 DEF SlotsOf
  <2>2. CurrentRollback(s, z) = Cleared(Rollback(s, z), z)
    BY <1>2 DEF CurrentRollback
  <2>3. ~HasTransaction(s, z) => s[z].view = "NoTransaction"
    BY <1>2 DEF HasTransaction, GetStatus
  <2> QED
    BY <2>1, <2>2, <2>3, RollbackExtends DEF Cleared, Left
<1> QED
  BY <1>1, <1>2

LEMMA MarkKeeps ==
  ASSUME NEW s \in Seq(Txn), NEW z \in SlotsOf(s), NEW r
  PROVE  /\ \A t \in {CurrentRollbackOnly(s, z), MarkOnException(s, z, r)} :
               /\ Extended(s, t)
               /\ Controls(t) = Controls(s)
               /\ \A y \in Controls(s) : t[y].fate = s[y].fate
         /\ r = "system" /\ z # NoControl /\ Sound(s) /\ s[z].fate = "open" =>
               MarkedOpen(MarkOnException(s, z, r)[z])
BY Same, MarkExtends DEF CurrentRollbackOnly, MarkOnException, SlotsOf

(***************************************************************************)
(* What the policies leave in the cookie before the upcall, and after it.  *)
(***************************************************************************)
LEMMA PoliciesGiven ==
  ASSUME NEW i, NEW o PROVE PolicyOf(i, o) \in Policies \cup {"none"}
<1> DEFINE applying == {n \in Installed(i) : Descriptor[n].operation \in {o, "*"}}
<1>1. applying \subseteq DOMAIN Descriptor
  BY DEF Installed
<1>2. CASE o \in Excluded \/ applying = {}
  BY <1>2 DEF PolicyOf
<1>3. CASE ~(o \in Excluded \/ applying = {})
  <2>1. (CHOOSE n \in applying : TRUE) \in DOMAIN Descriptor
    BY <1>1, <1>3
  <2>2. PolicyOf(i, o) = Descriptor[CHOOSE n \in applying : TRUE].policy
    BY <1>3 DEF PolicyOf
  <2> QED
    BY <2>1, <2>2, DescriptorAssumption
<1> QED
  BY <1>2, <1>3

(* The request is left alone, its transaction is suspended, or it gets a   *)
(* transaction of its own, which begins with nothing in the slot.          *)
Untouched(p, s, z) == p.service = s /\ p.slot = z /\ p.cookie = NoCookie

Suspended(p, s, z) ==
    /\ p.service = s
    /\ p.slot = NoControl
    /\ p.cookie = [action |-> "RESUME", control |-> z]
    /\ z # NoControl

New(p, s, by) ==
    /\ p.slot \in Controls(p.service) \ Controls(s)
    /\ p.slot # NoControl
    /\ p.service[p.slot].by = by
    /\ Controls(p.service) = Controls(s) \cup {p.slot}

Own(p, s, z) ==
    /\ z = NoControl
    /\ New(p, s, "container")
    /\ p.cookie = [action |-> "COMMIT", control |-> p.slot]

Nested(p, s, z) ==
    /\ z # NoControl
    /\ New(p, s, "nested")
    /\ p.cookie = [action |-> "COMMITRESUME", control |-> z]

Kind(policy, p, s, z) ==
    \/ Untouched(p, s, z)
    \/ p.raised = "none" /\ policy = "not-supported" /\ Suspended(p, s, z)
    \/ p.raised = "none" /\ Own(p, s, z)
    \/ p.raised = "none" /\ policy = "requires-new" /\ Nested(p, s, z)

LEMMA UnchangedKind ==
  ASSUME NEW policy, NEW s, NEW z, NEW r
  PROVE  Kind(policy, Unchanged(s, z, r), s, z)
BY DEF Kind, Untouched, Unchanged, Prepared, Left, NoCookie

LEMMA BeginKind ==
  ASSUME NEW policy, NEW s \in Seq(Txn), NEW z \in SlotsOf(s), ~HasTransaction(s, z)
  PROVE  LET p == BeginForRequest(s, z, "container")
         IN  /\ Extended(s, p.service)
             /\ Kind(policy, p, s, z)
             /\ \A y \in Controls(s) : p.service[y] = s[y]
<1>1. CASE z = NoControl
  <2>1. BeginForRequest(s, z, "container") =
          Prepared(Begin(s, z, "container"), "COMMIT", Begin(s, z, "container").slot)
    BY <1>1, BeginKeeps DEF BeginForRequest
  <2> QED
    BY <1>1, <2>1, BeginKeeps DEF Kind, Own, New, Prepared
<1>2. CASE z # NoControl
  <2>1. BeginForRequest(s, z, "container") =
          Prepared(CurrentRollback(s, z), "NOACTION", NoControl)
    BY <1>2, BeginKeeps DEF BeginForRequest
  <2> QED
    BY <2>1, CurrentRollbackKeeps, Same DEF Kind, Untouched, Prepared, NoCookie
<1> QED
  BY <1>1, <1>2

(* Whatever the policy, preinvoke touches no transaction that was there.   *)
LEMMA PreinvokeKeeps ==
  ASSUME NEW policy \in Policies \cup {"none"}, NEW s \in Seq(Txn), NEW z \in SlotsOf(s)
  PROVE  LET p == Preinvoke(policy, s, z)
         IN  /\ Extended(s, p.service)
             /\ Kind(policy, p, s, z)
             /\ \A y \in Controls(s) : p.service[y] = s[y]
<1> DEFINE p == Preinvoke(policy, s, z)
           Goal(q) == /\ Extended(s, q.service)
                      /\ Kind(policy, q, s, z)
                      /\ \A y \in Controls(s) : q.service[y] = s[y]
<1>1. \A r : Goal(Unchanged(s, z, r))
  BY UnchangedKind, Same DEF Unchanged, Prepared, Left
<1>2. HasTransaction(s, z) => z # NoControl
  BY DEF HasTransaction, GetStatus
<1>3. ~HasTransaction(s, z) => Goal(BeginForRequest(s, z, "container"))
  BY BeginKind
<1>4. CASE policy = "not-supported"
  <2>1. HasTransaction(s, z) =>
          Goal(Prepared(Left(s, NoControl, "none"), "RESUME", z))
    BY <1>2, <1>4, Same DEF Prepared, Left, Kind, Suspended
  <2>2. p = NotSupported(s, z)
    BY <1>4 DEF Preinvoke
  <2> QED
    BY <1>1, <2>1, <2>2 DEF NotSupported
<1>5. CASE policy = "required"
  <2>1. p = Required(s, z)
    BY <1>5 DEF Preinvoke
  <2> QED
    BY <1>1, <1>3, <2>1 DEF Required
<1>6. CASE policy = "requires-new"
  <2>1. p = RequiresNew(s, z)
    BY <1>6 DEF Preinvoke
  <2>2. HasTransaction(s, z) =>
          Goal(Prepared(Begin(s, NoControl, "nested"), "COMMITRESUME", z))
    <3>1. NoControl \in SlotsOf(s)
      BY DEF SlotsOf
    <3> QED
      BY <1>2, <1>6, <3>1, BeginKeeps DEF Prepared, Kind, Nested, New
  <2> QED
    BY <1>3, <2>1, <2>2 DEF RequiresNew
<1>7. CASE policy = "mandatory"
  BY <1>1, <1>7 DEF Preinvoke, Mandatory
<1>8. CASE policy = "never"
  BY <1>1, <1>8 DEF Preinvoke, Never
<1>9. CASE policy \in {"supports", "self-managed", "none"}
  BY <1>1, <1>9 DEF Preinvoke
<1> QED
  BY <1>4, <1>5, <1>6, <1>7, <1>8, <1>9 DEF Policies

LEMMA TerminatorKeeps ==
  ASSUME NEW s \in Seq(Txn), NEW x \in Controls(s), NEW a \in TerminatorCommit(s, x)
  PROVE  /\ Extended(s, a.service)
         /\ Controls(a.service) = Controls(s)
         /\ Sound(s) => a.service[x].fate # "open"
         /\ \A y \in Controls(s) \ {x} : a.service[y] = s[y]
<1>1. PICK b \in CommitOutcomes(s, x) :
        a = IF b.raised = "UNKNOWN" THEN Rollback(b.service, x) ELSE b
  BY DEF TerminatorCommit
<1>2. /\ Extended(s, b.service) /\ Controls(b.service) = Controls(s)
      /\ Sound(s) => b.service[x].fate # "open"
      /\ \A y \in Controls(s) \ {x} : b.service[y] = s[y]
  BY CommitExtends
<1>3. b.service \in Seq(Txn) /\ x \in Controls(b.service)
  BY <1>2 DEF Extended
<1> DEFINE c == Rollback(b.service, x)
<1>4. /\ Extended(b.service, c.service) /\ Controls(c.service) = Controls(b.service)
      /\ \A y \in Controls(b.service) \ {x} : c.service[y] = b.service[y]
  BY <1>3, RollbackExtends
<1> HIDE DEF c
<1>5. /\ Extended(s, c.service)
      /\ Sound(s) => c.service[x].fate # "open"
      /\ \A y \in Controls(s) \ {x} : c.service[y] = s[y]
  <2>1. Extended(s, c.service)
    BY <1>2, <1>4, Then
  <2>2. Sound(s) => c.service[x].fate # "open"
    BY <1>2, <1>3, <1>4 DEF Extended
  <2> QED
    BY <1>2, <1>4, <2>1, <2>2
<1>6. a = c \/ a = b
  BY <1>1 DEF c
<1> QED
  BY <1>2, <1>4, <1>5, <1>6

LEMMA PostinvokeKeeps ==
  ASSUME NEW s \in Seq(Txn), NEW z \in SlotsOf(s),
         NEW k \in [action : Action, control : SlotsOf(s)],
         k.action # "NOACTION" => k.control # NoControl,
         NEW l \in Postinvoke(k, s, z)
  PROVE  /\ Extended(s, l.service)
         /\ Controls(l.service) = Controls(s)
         /\ l.slot \in SlotsOf(s)
         /\ k.action \in {"NOACTION", "RESUME"} => l.service = s
         /\ \A y \in Controls(s) \ {k.control} : l.service[y] = s[y]
         /\ k.action = "COMMIT" /\ Sound(s) => l.service[k.control].fate # "open"
         /\ k.action \in {"NOACTION", "COMMIT"} => l.slot = z
         /\ k.action = "RESUME" => l.slot = k.control
         /\ k.action = "COMMITRESUME" => l.slot \in {z, k.control}
<1>1. k.action # "NOACTION" => k.control \in Controls(s)
  BY DEF SlotsOf
<1>2. CASE k.action = "NOACTION"
  BY <1>2, Same DEF Postinvoke, Left
<1>3. CASE k.action = "RESUME"
  BY <1>1, <1>3, Same DEF Postinvoke, Left, Resume
<1>4. CASE k.action = "COMMIT"
  <2>1. PICK a \in TerminatorCommit(s, k.control) : l = Left(a.service, z, a.raised)
    BY <1>4 DEF Postinvoke
  <2> QED
    BY <1>1, <1>4, <2>1, TerminatorKeeps DEF Left
<1>5. CASE k.action = "COMMITRESUME"
  <2>1. PICK a \in TerminatorCommit(s, k.control) :
          l = Left(a.service, IF a.raised = "none" THEN Resume(z, k.control) ELSE z,
                   a.raised)
    BY <1>5 DEF Postinvoke
  <2>2. Resume(z, k.control) = k.control
    BY <1>1, <1>5, NilIsNoControl DEF Resume
  <2> QED
    BY <1>1, <1>5, <2>1, <2>2, TerminatorKeeps DEF Left
<1> QED
  BY <1>2, <1>3, <1>4, <1>5 DEF Action

(***************************************************************************)
(* Who is touched by a step.                                               *)
(***************************************************************************)
WorkerStep(w) == Serve(w) \/ UseTransaction(w)

Rest == AskRemoval \/ Removal \/ UNCHANGED vars

Unmoved(v) ==
    /\ at'[v] = at[v]
    /\ client'[v] = client[v]
    /\ wslot'[v] = wslot[v]
    /\ cookie'[v] = cookie[v]
    /\ Busy(v) => call'[client[v]] = call[client[v]]

LEMMA StepCases ==
  ASSUME [Next]_vars
  PROVE  \/ \E c \in Clients : ClientStep(c)
         \/ \E w \in Workers : WorkerStep(w)
         \/ Rest
BY DEF Next, WorkerStep, Rest

LEMMA ClientsMoveNoWorker ==
  ASSUME RequestTypeOK, ServeInv, NEW c \in Clients, ClientStep(c), NEW v \in Workers
  PROVE  Unmoved(v)
<1>1. UNCHANGED <<at, client, wslot, cookie>>
  BY DEF ClientStep, ClientBegin, ClientCommit, ClientRollback, Call, ReceiveReply,
     workerVars
<1>2. \/ call' = call
      \/ /\ call[c].at # "taken"
         /\ \A d \in Clients \ {c} : call'[d] = call[d]
  BY DEF ClientStep, ClientBegin, ClientCommit, ClientRollback, Call, ReceiveReply,
     RequestTypeOK
<1> QED
  BY <1>1, <1>2 DEF Unmoved, ServeInv, Busy

LEMMA RestMovesNoWorker ==
  ASSUME Rest, NEW v \in Workers
  PROVE  /\ Unmoved(v)
         /\ UNCHANGED <<service, slot, call, doomed, at, client, wslot, cookie, raised>>
BY DEF Rest, AskRemoval, Removal, RestOfSystem, clientVars, workerVars, vars, Unmoved

LEMMA Bystanders ==
  ASSUME RequestTypeOK, ServeInv, NEW w \in Workers, WorkerStep(w),
         NEW v \in Workers, v # w
  PROVE  Unmoved(v)
<1>1. CASE Receive(w)
  <2>1. PICK c \in Clients :
          /\ call[c].at = "sent"
          /\ call' = [call EXCEPT ![c].at = "taken"]
          /\ client' = [client EXCEPT ![w] = c]
          /\ wslot' = [wslot EXCEPT ![w] = call[c].context]
    BY <1>1 DEF Receive
  <2>2. Busy(v) => client[v] \in Clients /\ client[v] # c
    BY <2>1 DEF ServeInv
  <2> QED
    BY <1>1, <2>1, <2>2 DEF Receive, Go, Escape, Unmoved, RequestTypeOK
<1>2. CASE Reply(w)
  <2>1. Busy(w)
    BY <1>2 DEF Reply, Busy
  <2>2. Busy(v) => client[v] \in Clients /\ client[v] # client[w]
    BY <2>1 DEF ServeInv
  <2> QED
    BY <1>2, <2>2 DEF Reply, Go, Unmoved, RequestTypeOK
<1>3. CASE FindComponent(w) \/ FindHome(w) \/ LockComposition(w) \/ ApplyPolicy(w)
             \/ EndOperation(w) \/ CreateReference(w) \/ EnterComponent(w)
  BY <1>3 DEF FindComponent, FindHome, LockComposition, ApplyPolicy, EndOperation,
     CreateReference, EnterComponent, Go, Escape, Unmoved, RequestTypeOK, clientVars
<1>4. CASE RemoveComponent(w) \/ AfterTxn(w) \/ AfterRunTime(w)
  BY <1>4 DEF RemoveComponent, AfterTxn, AfterRunTime, Go, Escape, Unmoved,
     RequestTypeOK, clientVars
<1>5. CASE UseTransaction(w)
  BY <1>5 DEF UseTransaction, SetRollbackOnly, UserBegin, UserCommit, UserRollback,
     Leaves, OtherThanSlot, Unmoved, RequestTypeOK, clientVars
<1> QED
  BY <1>1, <1>2, <1>3, <1>4, <1>5 DEF WorkerStep, Serve

(***************************************************************************)
(* Every step extends the service.                                         *)
(***************************************************************************)
LEMMA ClientExtends ==
  ASSUME RequestTypeOK, NEW c \in Clients, ClientStep(c)
  PROVE  Extended(service, service')
<1>1. service \in Seq(Txn) /\ slot[c] \in SlotsOf(service) /\ call[c].context \in SlotsOf(service)
  BY DEF RequestTypeOK, Slots, SlotsOf
<1>2. CASE ClientBegin(c)
  BY <1>1, <1>2, CreateExtends DEF ClientBegin
<1>3. CASE ClientCommit(c)
  BY <1>1, <1>3, CurrentCommitKeeps DEF ClientCommit
<1>4. CASE ClientRollback(c)
  BY <1>1, <1>4, CurrentRollbackKeeps DEF ClientRollback
<1>5. CASE Call(c)
  BY <1>1, <1>5, Same DEF Call
<1>6. CASE ReceiveReply(c)
  BY <1>1, <1>6, MarkKeeps DEF ReceiveReply
<1> QED
  BY <1>2, <1>3, <1>4, <1>5, <1>6 DEF ClientStep

LEMMA WorkerExtends ==
  ASSUME RequestTypeOK, WorkerInv, NEW w \in Workers, WorkerStep(w)
  PROVE  Extended(service, service')
<1>1. service \in Seq(Txn) /\ wslot[w] \in SlotsOf(service)
  BY DEF RequestTypeOK, Slots, SlotsOf
<1>2. CASE ApplyPolicy(w)
  <2>1. Policy(w) \in Policies \cup {"none"}
    BY PoliciesGiven DEF Policy
  <2> QED
    BY <1>1, <1>2, <2>1, PreinvokeKeeps DEF ApplyPolicy
<1>3. CASE AfterTxn(w)
  <2>1. /\ cookie[w] \in [action : Action, control : SlotsOf(service)]
        /\ cookie[w].action # "NOACTION" => cookie[w].control # NoControl
    BY DEF RequestTypeOK, Slots, SlotsOf, WorkerInv, CookieOK
  <2> QED
    BY <1>1, <1>3, <2>1, PostinvokeKeeps DEF AfterTxn
<1>4. CASE Reply(w)
  BY <1>1, <1>4, MarkKeeps DEF Reply
<1>5. CASE UseTransaction(w)
  <2>1. CASE SetRollbackOnly(w)
    BY <1>1, <2>1, MarkKeeps DEF SetRollbackOnly
  <2>2. CASE UserBegin(w)
    BY <1>1, <2>2, BeginKeeps DEF UserBegin, Leaves
  <2>3. CASE UserCommit(w)
    BY <1>1, <2>3, CurrentCommitKeeps DEF UserCommit, Leaves
  <2>4. CASE UserRollback(w)
    BY <1>1, <2>4, CurrentRollbackKeeps DEF UserRollback, Leaves
  <2> QED
    BY <1>5, <2>1, <2>2, <2>3, <2>4 DEF UseTransaction
<1>6. CASE Receive(w) \/ FindComponent(w) \/ FindHome(w) \/ LockComposition(w)
             \/ EndOperation(w) \/ CreateReference(w) \/ EnterComponent(w)
             \/ RemoveComponent(w) \/ AfterRunTime(w)
  <2>1. service' = service
    BY <1>6 DEF Receive, FindComponent, FindHome, LockComposition, EndOperation,
       CreateReference, EnterComponent, RemoveComponent, AfterRunTime
  <2> QED
    BY <1>1, <2>1, Same
<1> QED
  BY <1>2, <1>3, <1>4, <1>5, <1>6 DEF WorkerStep, Serve

LEMMA StepExtends ==
  ASSUME RequestTypeOK, WorkerInv, [Next]_vars
  PROVE  Extended(service, service')
<1>1. CASE Rest
  <2>1. service' = service
    BY <1>1 DEF Rest, AskRemoval, Removal, RestOfSystem, vars
  <2> QED
    BY <2>1, Same DEF RequestTypeOK
<1> QED
  BY <1>1, StepCases, ClientExtends, WorkerExtends

(***************************************************************************)
(* The types of requests, transactions, slots and cookies.                 *)
(***************************************************************************)
Calls(S) ==
    [at : CallPlace, request : Requests \cup {NoRequest}, context : S, raised : Raised]

Cookies(S) == [action : Action, control : S]

WorkerTypes(S) ==
    /\ at \in [Workers -> WorkerPlace]
    /\ client \in [Workers -> Clients \cup {NoClient}]
    /\ wslot \in [Workers -> S]
    /\ cookie \in [Workers -> Cookies(S)]
    /\ raised \in [Workers -> Raised]

ClientTypes(S) ==
    /\ slot \in [Clients -> S]
    /\ call \in [Clients -> Calls(S)]

ScriptType ==
    script \in [todo : [Clients -> Seq(Requests)], begins : Nat, removals : Nat]

LEMMA TypeParts ==
  /\ RequestTypeOK <=>
       /\ service \in Seq(Txn) /\ WorkerTypes(Slots) /\ ClientTypes(Slots)
       /\ ScriptType /\ doomed \subseteq Controls(service)
  /\ RequestTypeOK' <=>
       /\ service' \in Seq(Txn) /\ WorkerTypes(Slots)' /\ ClientTypes(Slots)'
       /\ ScriptType' /\ doomed' \subseteq Controls(service)'
BY DEF RequestTypeOK, WorkerTypes, ClientTypes, Calls, Cookies, ScriptType

LEMMA MoreControls ==
  ASSUME RequestTypeOK, Extended(service, service')
  PROVE  /\ service' \in Seq(Txn)
         /\ Slots \subseteq Slots'
         /\ Slots' = SlotsOf(service')
         /\ NoControl \in Slots'
         /\ WorkerTypes(Slots')
         /\ ClientTypes(Slots')
         /\ doomed \subseteq Controls(service')
<1>1. Slots \subseteq Slots' /\ service' \in Seq(Txn)
  BY DEF Extended, Slots
<1>2. WorkerTypes(Slots) /\ ClientTypes(Slots)
  BY TypeParts
<1>3. WorkerTypes(Slots') /\ ClientTypes(Slots')
  <2> HIDE DEF Slots
  <2> DEFINE S == Slots
             T == Slots'
  <2>1. S \subseteq T /\ WorkerTypes(S) /\ ClientTypes(S)
    BY <1>1, <1>2
  <2> HIDE DEF S, T
  <2>2. WorkerTypes(T) /\ ClientTypes(T)
    BY <2>1 DEF WorkerTypes, ClientTypes, Calls, Cookies
  <2> QED
    BY <2>2 DEF T
<1> QED
  BY <1>1, <1>3 DEF Extended, Slots, SlotsOf, RequestTypeOK

LEMMA ClientTyped ==
  ASSUME RequestTypeOK, NEW c \in Clients, ClientStep(c)
  PROVE  RequestTypeOK'
<1> DEFINE T == Slots'
<1>1. Extended(service, service')
  BY ClientExtends
<1>2. /\ service' \in Seq(Txn) /\ Slots \subseteq T /\ T = SlotsOf(service')
      /\ NoControl \in T /\ WorkerTypes(T) /\ ClientTypes(T)
      /\ doomed \subseteq Controls(service')
  BY <1>1, MoreControls
<1>3. /\ service \in Seq(Txn) /\ slot[c] \in SlotsOf(service)
      /\ ScriptType /\ slot[c] \in Slots /\ call[c].raised \in Raised
  BY DEF RequestTypeOK, Slots, SlotsOf, ScriptType
<1> HIDE DEF T
<1>4. UNCHANGED <<at, client, wslot, cookie, raised, doomed>>
  BY DEF ClientStep, ClientBegin, ClientCommit, ClientRollback, Call, ReceiveReply,
     workerVars
<1>5. slot' \in [Clients -> T]
  <2>1. CASE ClientBegin(c)
    <3>1. Len(service) + 1 \in T
      BY <1>2, <1>3, <2>1, CreateExtends DEF ClientBegin, SlotsOf
    <3> QED
      BY <1>2, <2>1, <3>1 DEF ClientBegin, ClientTypes
  <2>2. CASE ClientCommit(c)
    <3>1. PICK l \in CurrentCommit(service, slot[c]) :
            slot' = [slot EXCEPT ![c] = l.slot]
      BY <2>2 DEF ClientCommit
    <3>2. l.slot \in T
      BY <1>2, <1>3, CurrentCommitKeeps
    <3> QED
      BY <1>2, <3>1, <3>2 DEF ClientTypes
  <2>3. CASE ClientRollback(c)
    <3>1. CurrentRollback(service, slot[c]).slot \in T
      BY <1>2, <1>3, CurrentRollbackKeeps
    <3> QED
      BY <1>2, <2>3, <3>1 DEF ClientRollback, ClientTypes
  <2>4. CASE Call(c) \/ ReceiveReply(c)
    BY <1>2, <2>4 DEF Call, ReceiveReply, ClientTypes
  <2> QED
    BY <2>1, <2>2, <2>3, <2>4 DEF ClientStep
<1>6. call' \in [Clients -> Calls(T)]
  <2>1. [IdleCall EXCEPT !.at = "dead"] \in Calls(T) /\ IdleCall \in Calls(T)
    BY <1>2 DEF IdleCall, Calls, CallPlace, Raised
  <2>2. CASE Call(c)
    <3>1. Head(script.todo[c]) \in Requests
      BY <1>3, <2>2 DEF Call, ScriptType
    <3>2. [at |-> "sent", request |-> Head(script.todo[c]),
           context |-> RequestContext(slot[c]), raised |-> "none"] \in Calls(T)
      BY <1>2, <1>3, <3>1 DEF Calls, CallPlace, Raised, RequestContext
    <3> QED
      BY <1>2, <2>2, <3>2 DEF Call, ClientTypes
  <2>3. CASE ReceiveReply(c)
    BY <1>2, <2>1, <2>3 DEF ReceiveReply, ClientTypes
  <2>4. CASE ClientBegin(c) \/ ClientCommit(c) \/ ClientRollback(c)
    BY <1>2, <2>4 DEF ClientBegin, ClientCommit, ClientRollback, ClientTypes
  <2> QED
    BY <2>2, <2>3, <2>4 DEF ClientStep
<1>7. ScriptType'
  <2>1. MayBegin => ScriptType'
    BY <1>3 DEF MayBegin, ScriptType
  <2>2. CASE Call(c)
    <3>1. Tail(script.todo[c]) \in Seq(Requests)
      BY <1>3, <2>2 DEF Call, ScriptType
    <3> QED
      BY <1>3, <2>2, <3>1 DEF Call, ScriptType
  <2>3. CASE ClientBegin(c)
    BY <2>1, <2>3 DEF ClientBegin
  <2>4. CASE ClientCommit(c) \/ ClientRollback(c) \/ ReceiveReply(c)
    BY <1>3, <2>4 DEF ClientCommit, ClientRollback, ReceiveReply, ScriptType
  <2> QED
    BY <2>2, <2>3, <2>4 DEF ClientStep
<1>8. WorkerTypes(Slots)' /\ ClientTypes(Slots)'
  BY <1>2, <1>4, <1>5, <1>6 DEF WorkerTypes, ClientTypes, T
<1> QED
  BY <1>2, <1>4, <1>7, <1>8, TypeParts

LEMMA WorkerTyped ==
  ASSUME RequestTypeOK, ServeInv, WorkerInv, NEW w \in Workers, WorkerStep(w)
  PROVE  RequestTypeOK'
<1> DEFINE T == Slots'
<1>1. Extended(service, service')
  BY WorkerExtends
<1>2. /\ service' \in Seq(Txn) /\ Slots \subseteq T /\ T = SlotsOf(service')
      /\ NoControl \in T /\ WorkerTypes(T) /\ ClientTypes(T)
      /\ doomed \subseteq Controls(service')
  BY <1>1, MoreControls
<1>3. /\ service \in Seq(Txn) /\ wslot[w] \in SlotsOf(service) /\ ScriptType
      /\ wslot[w] \in T /\ raised[w] \in Raised
      /\ cookie[w] \in [action : Action, control : SlotsOf(service)]
  BY <1>2 DEF RequestTypeOK, Slots, SlotsOf, ScriptType
<1>4. NoCookie \in Cookies(T) /\ "none" \in Raised /\ "system" \in Raised
  BY <1>2 DEF NoCookie, Cookies, Action, Raised
<1> HIDE DEF T
<1>5. at' \in [Workers -> WorkerPlace]
  <2>1. \A place : place \in WorkerPlace /\ Go(w, place) => at' \in [Workers -> WorkerPlace]
    BY <1>2 DEF Go, WorkerTypes
  <2>2. CASE Receive(w) \/ FindComponent(w) \/ FindHome(w) \/ LockComposition(w) \/ ApplyPolicy(w)
    BY <2>1, <2>2 DEF Receive, FindComponent, FindHome, LockComposition, ApplyPolicy,
       Escape, WorkerPlace
  <2>3. CASE EndOperation(w) \/ CreateReference(w) \/ EnterComponent(w) \/ RemoveComponent(w)
    BY <2>1, <2>3 DEF EndOperation, CreateReference, EnterComponent, RemoveComponent,
       WorkerPlace
  <2>4. CASE AfterTxn(w) \/ AfterRunTime(w) \/ Reply(w)
    BY <2>1, <2>4 DEF AfterTxn, AfterRunTime, Reply, Escape, WorkerPlace
  <2>5. CASE UseTransaction(w)
    BY <1>2, <2>5 DEF UseTransaction, SetRollbackOnly, UserBegin, UserCommit,
       UserRollback, OtherThanSlot, WorkerTypes
  <2> QED
    BY <2>2, <2>3, <2>4, <2>5 DEF WorkerStep, Serve
<1>6. raised' \in [Workers -> Raised]
  <2>1. CASE Receive(w) \/ FindComponent(w) \/ FindHome(w) \/ LockComposition(w) \/ ApplyPolicy(w)
    BY <1>2, <1>4, <2>1 DEF Receive, FindComponent, FindHome, LockComposition, ApplyPolicy,
       Escape, WorkerTypes
  <2>2. CASE EndOperation(w) \/ CreateReference(w) \/ EnterComponent(w) \/ RemoveComponent(w)
    BY <1>2, <1>4, <2>2 DEF EndOperation, CreateReference, EnterComponent, RemoveComponent,
       WorkerTypes
  <2>3. CASE AfterTxn(w) \/ AfterRunTime(w) \/ Reply(w)
    BY <1>2, <1>4, <2>3 DEF AfterTxn, AfterRunTime, Reply, Escape, WorkerTypes
  <2>4. CASE UseTransaction(w)
    BY <1>2, <2>4 DEF UseTransaction, SetRollbackOnly, UserBegin, UserCommit,
       UserRollback, OtherThanSlot, WorkerTypes
  <2> QED
    BY <2>1, <2>2, <2>3, <2>4 DEF WorkerStep, Serve
<1>7. /\ client' \in [Workers -> Clients \cup {NoClient}]
      /\ wslot' \in [Workers -> T]
      /\ cookie' \in [Workers -> Cookies(T)]
      /\ call' \in [Clients -> Calls(T)]
      /\ doomed' \subseteq Controls(service')
  <2>1. CASE Receive(w)
    <3>1. PICK c \in Clients :
            /\ call' = [call EXCEPT ![c].at = "taken"]
            /\ client' = [client EXCEPT ![w] = c]
            /\ wslot' = [wslot EXCEPT ![w] = call[c].context]
      BY <2>1 DEF Receive
    <3>2. call[c] \in Calls(T) /\ [call[c] EXCEPT !.at = "taken"] \in Calls(T)
      BY <1>2 DEF ClientTypes, Calls, CallPlace
    <3>3. call[c].context \in T
      BY <3>2 DEF Calls
    <3> QED
      BY <1>2, <2>1, <3>1, <3>2, <3>3 DEF Receive, WorkerTypes, ClientTypes
  <2>2. CASE ApplyPolicy(w)
    <3> DEFINE p == Preinvoke(Policy(w), service, wslot[w])
    <3>1. Policy(w) \in Policies \cup {"none"}
      BY PoliciesGiven DEF Policy
    <3>2. Kind(Policy(w), p, service, wslot[w])
      BY <1>3, <3>1, PreinvokeKeeps
    <3>3. /\ service' = p.service /\ wslot' = [wslot EXCEPT ![w] = p.slot]
          /\ cookie' = [cookie EXCEPT ![w] = p.cookie]
      BY <2>2 DEF ApplyPolicy
    <3> HIDE DEF p
    <3>4. p.slot \in T /\ p.cookie \in Cookies(T)
      BY <1>2, <1>3, <1>4, <3>2, <3>3 DEF Kind, Untouched, Suspended, Own, Nested, New,
         Cookies, Action, SlotsOf
    <3> QED
      BY <1>2, <2>2, <3>3, <3>4 DEF ApplyPolicy, clientVars, WorkerTypes, ClientTypes
  <2>3. CASE AfterTxn(w)
    <3>1. PICK l \in Postinvoke(cookie[w], service, wslot[w]) :
            /\ service' = l.service /\ wslot' = [wslot EXCEPT ![w] = l.slot]
      BY <2>3 DEF AfterTxn
    <3>2. cookie[w].action # "NOACTION" => cookie[w].control # NoControl
      BY DEF WorkerInv, CookieOK
    <3>3. l.slot \in SlotsOf(service)
      BY <1>3, <3>2, PostinvokeKeeps
    <3>4. l.slot \in T
      BY <1>2, <3>3 DEF Slots, SlotsOf
    <3> QED
      BY <1>2, <1>4, <2>3, <3>1, <3>4 DEF AfterTxn, clientVars, WorkerTypes, ClientTypes
  <2>4. CASE Reply(w)
    <3>1. client[w] \in Clients
      BY <2>4 DEF Reply, ServeInv, Busy
    <3>2. [call[client[w]] EXCEPT !.at = "answered", !.context = wslot[w],
             !.raised = raised[w]] \in Calls(T)
      BY <1>2, <1>3, <3>1 DEF ClientTypes, Calls, CallPlace
    <3>3. doomed' \subseteq Controls(service')
      <4>1. wslot[w] # NoControl => wslot[w] \in Controls(service')
        BY <1>2, <1>3 DEF SlotsOf
      <4> QED
        BY <1>2, <2>4, <4>1 DEF Reply
    <3> QED
      BY <1>2, <1>4, <2>4, <3>2, <3>3 DEF Reply, WorkerTypes, ClientTypes
  <2>5. CASE UseTransaction(w)
    <3>1. \E z \in T : wslot' = [wslot EXCEPT ![w] = z] \/ wslot' = wslot
      <4>1. CASE SetRollbackOnly(w)
        BY <1>2, <4>1 DEF SetRollbackOnly
      <4>2. CASE UserBegin(w)
        <5>1. Begin(service, wslot[w], "bean").slot \in T
          BY <1>2, <1>3, <4>2, BeginKeeps DEF UserBegin, Leaves
        <5> QED
          BY <4>2, <5>1 DEF UserBegin, Leaves
      <4>3. CASE UserCommit(w)
        <5>1. PICK l \in CurrentCommit(service, wslot[w]) :
                wslot' = [wslot EXCEPT ![w] = l.slot]
          BY <4>3 DEF UserCommit, Leaves
        <5>2. l.slot \in T
          BY <1>2, <1>3, CurrentCommitKeeps
        <5> QED
          BY <5>1, <5>2
      <4>4. CASE UserRollback(w)
        <5>1. CurrentRollback(service, wslot[w]).slot \in T
          BY <1>2, <1>3, CurrentRollbackKeeps
        <5> QED
          BY <4>4, <5>1 DEF UserRollback, Leaves
      <4> QED
        BY <2>5, <4>1, <4>2, <4>3, <4>4 DEF UseTransaction
    <3>2. wslot' \in [Workers -> T]
      BY <1>2, <3>1 DEF WorkerTypes
    <3> QED
      BY <1>2, <2>5, <3>2 DEF UseTransaction, SetRollbackOnly, UserBegin, UserCommit,
         UserRollback, OtherThanSlot, clientVars, WorkerTypes, ClientTypes
  <2>6. CASE FindComponent(w) \/ FindHome(w) \/ LockComposition(w) \/ EndOperation(w)
               \/ CreateReference(w) \/ EnterComponent(w) \/ RemoveComponent(w)
               \/ AfterRunTime(w)
    BY <1>2, <2>6 DEF FindComponent, FindHome, LockComposition, EndOperation,
       CreateReference, EnterComponent, RemoveComponent, AfterRunTime, clientVars,
       WorkerTypes, ClientTypes
  <2> QED
    BY <2>1, <2>2, <2>3, <2>4, <2>5, <2>6 DEF WorkerStep, Serve
<1>8. slot' = slot /\ ScriptType'
  <2>1. CASE UserBegin(w)
    BY <1>3, <2>1 DEF UserBegin, MayBegin, ScriptType
  <2>2. CASE ~UserBegin(w)
    BY <1>3, <2>2 DEF WorkerStep, Serve, Receive, FindComponent, FindHome, LockComposition,
       ApplyPolicy, EndOperation, CreateReference, EnterComponent, RemoveComponent,
       AfterTxn, AfterRunTime, Reply, UseTransaction, SetRollbackOnly, UserCommit,
       UserRollback, OtherThanSlot, clientVars, ScriptType
  <2> QED
    BY <2>1, <2>2
<1>9. WorkerTypes(Slots)' /\ ClientTypes(Slots)'
  BY <1>2, <1>5, <1>6, <1>7, <1>8 DEF WorkerTypes, ClientTypes, T
<1> QED
  BY <1>2, <1>7, <1>8, <1>9, TypeParts

LEMMA RestTyped ==
  ASSUME RequestTypeOK, Rest
  PROVE  RequestTypeOK'
<1>1. UNCHANGED <<service, slot, call, doomed, at, client, wslot, cookie, raised>>
  BY DEF Rest, AskRemoval, Removal, RestOfSystem, clientVars, workerVars, vars
<1>2. ScriptType'
  BY DEF RequestTypeOK, ScriptType, Rest, AskRemoval, Removal, RestOfSystem, clientVars,
     vars
<1>3. Slots' = Slots
  BY <1>1 DEF Slots
<1> QED
  BY <1>1, <1>2, <1>3 DEF RequestTypeOK, ScriptType

LEMMA RequestTypesKept ==
  ASSUME RequestTypeOK, ServeInv, WorkerInv, [Next]_vars
  PROVE  RequestTypeOK'
BY StepCases, ClientTyped, WorkerTyped, RestTyped

(***************************************************************************)
(* A request that was taken is served by one worker.                       *)
(***************************************************************************)
LEMMA OwnRequest ==
  ASSUME RequestTypeOK, NEW w \in Workers, WorkerStep(w), ~Receive(w), ~Reply(w)
  PROVE  Busy(w) /\ Busy(w)' /\ UNCHANGED <<client, call, slot, doomed>>
<1>1. at[w] \in WorkerPlace /\ w \in DOMAIN at
  BY DEF RequestTypeOK
<1>2. CASE FindComponent(w) \/ FindHome(w) \/ LockComposition(w) \/ ApplyPolicy(w)
  BY <1>1, <1>2 DEF FindComponent, FindHome, LockComposition, ApplyPolicy, Go, Escape,
     Busy, clientVars
<1>3. CASE EndOperation(w) \/ CreateReference(w) \/ EnterComponent(w) \/ RemoveComponent(w)
             \/ AfterTxn(w) \/ AfterRunTime(w)
  BY <1>1, <1>3 DEF EndOperation, CreateReference, EnterComponent, RemoveComponent,
     AfterTxn, AfterRunTime, InBody, Go, Escape, Busy, clientVars
<1>4. CASE UseTransaction(w)
  BY <1>1, <1>4 DEF UseTransaction, SetRollbackOnly, UserBegin, UserCommit, UserRollback,
     SelfManaged, InBody, OtherThanSlot, Busy, clientVars
<1> QED
  BY <1>2, <1>3, <1>4 DEF WorkerStep, Serve

LEMMA ReceiveEffect ==
  ASSUME RequestTypeOK, NEW w \in Workers, Receive(w)
  PROVE  \E c \in Clients :
           /\ at[w] = "idle" /\ call[c].at = "sent"
           /\ at'[w] \in {"find", "reply"}
           /\ call'[c] = [call[c] EXCEPT !.at = "taken"]
           /\ \A d \in Clients \ {c} : call'[d] = call[d]
           /\ client'[w] = c /\ wslot'[w] = call[c].context
           /\ UNCHANGED <<service, slot, cookie, doomed>>
BY DEF Receive, Escape, Go, RequestTypeOK

LEMMA ReplyEffect ==
  ASSUME RequestTypeOK, ServeInv, NEW w \in Workers, Reply(w)
  PROVE  /\ at[w] = "reply" /\ client[w] \in Clients
         /\ at'[w] = "idle" /\ cookie'[w] = NoCookie
         /\ call'[client[w]].at = "answered"
         /\ \A d \in Clients \ {client[w]} : call'[d] = call[d]
         /\ slot' = slot
<1>1. client[w] \in Clients
  BY DEF Reply, ServeInv, Busy
<1> QED
  BY <1>1 DEF Reply, Go, RequestTypeOK

LEMMA ServeKept ==
  ASSUME RequestTypeOK, ServeInv, [Next]_vars
  PROVE  ServeInv'
<1>1. CASE \A v \in Workers : Unmoved(v)
  BY <1>1 DEF ServeInv, Busy, Unmoved
<1>2. ASSUME NEW w \in Workers, WorkerStep(w) PROVE ServeInv'
  <2>1. \A v \in Workers \ {w} : Unmoved(v)
    BY <1>2, Bystanders
  <2>2. CASE Receive(w)
    <3>1. PICK c \in Clients :
            /\ at[w] = "idle" /\ call[c].at = "sent"
            /\ call'[c] = [call[c] EXCEPT !.at = "taken"]
            /\ client'[w] = c
      BY <2>2, ReceiveEffect
    <3>2. call'[c].at = "taken"
      <4>1. call[c] \in Calls(Slots)
        BY DEF RequestTypeOK, Calls
      <4> QED
        BY <3>1, <4>1 DEF Calls
    <3>3. \A v \in Workers \ {w} : Busy(v) => client[v] # c
      BY <3>1 DEF ServeInv
    <3>4. \A v \in Workers \ {w} : Busy(v)' =>
            /\ Busy(v) /\ client'[v] = client[v] /\ client[v] \in Clients \ {c}
            /\ call'[client'[v]].at = "taken"
      BY <2>1, <3>3 DEF ServeInv, Busy, Unmoved
    <3>5. \A v \in Workers : Busy(v)' =>
            client'[v] \in Clients /\ call'[client'[v]].at = "taken"
      BY <3>1, <3>2, <3>4
    <3>6. \A u, v \in Workers : Busy(u)' /\ Busy(v)' /\ client'[u] = client'[v] => u = v
      <4> SUFFICES ASSUME NEW u \in Workers, NEW v \in Workers, Busy(u)', Busy(v)',
                          client'[u] = client'[v]
                   PROVE  u = v
        OBVIOUS
      <4>1. CASE u = w \/ v = w
        BY <3>1, <3>4, <4>1
      <4>2. CASE u # w /\ v # w
        BY <3>4, <4>2 DEF ServeInv
      <4> QED
        BY <4>1, <4>2
    <3> QED
      BY <3>5, <3>6 DEF ServeInv
  <2>3. CASE Reply(w)
    BY <2>1, <2>3, ReplyEffect DEF ServeInv, Busy, Unmoved
  <2>4. CASE ~Receive(w) /\ ~Reply(w)
    <3>1. Busy(w) /\ Busy(w)' /\ UNCHANGED <<client, call, slot, doomed>>
      BY <1>2, <2>4, OwnRequest
    <3> QED
      BY <2>1, <3>1 DEF ServeInv, Busy, Unmoved
  <2> QED
    BY <2>2, <2>3, <2>4
<1> QED
  BY <1>1, <1>2, StepCases, ClientsMoveNoWorker, RestMovesNoWorker

(***************************************************************************)
(* Whose transactions the slots and cookies hold.                          *)
(***************************************************************************)
LEMMA UnmovedKeeps ==
  ASSUME RequestTypeOK, Extended(service, service'), NEW v \in Workers, Unmoved(v),
         CookieOK(v), WorkerSlotOK(v)
  PROVE  CookieOK(v)' /\ WorkerSlotOK(v)'
<1>1. /\ wslot[v] # NoControl => wslot[v] \in Controls(service)
      /\ cookie[v].control # NoControl => cookie[v].control \in Controls(service)
  BY DEF RequestTypeOK, Slots
<1>2. Busy(v) => Context(v)' = Context(v) /\ Policy(v)' = Policy(v)
  BY DEF Unmoved, Context, Policy, Request, Operation
<1>3. Busy(v)' = Busy(v)
  BY DEF Unmoved, Busy
<1>4. cookie[v].action # "NOACTION" => Busy(v)
  BY DEF CookieOK, NoCookie, Busy
<1>5. CookieOK(v)'
  BY <1>1, <1>2, <1>3, <1>4 DEF CookieOK, Unmoved, Extended
<1>6. WorkerSlotOK(v)'
  BY <1>1, <1>2, <1>3 DEF WorkerSlotOK, Unmoved, Extended, Busy
<1> QED
  BY <1>5, <1>6

LEMMA SlotsKept ==
  ASSUME RequestTypeOK, ServeInv, WorkerInv, SlotInv, [Next]_vars
  PROVE  SlotInv'
<1>1. Extended(service, service')
  BY StepExtends
<1>2. \A d \in Clients : slot[d] # NoControl =>
        slot[d] \in Controls(service) /\ service'[slot[d]].by = d
  BY <1>1 DEF RequestTypeOK, Slots, SlotInv, Extended
<1>3. CASE slot' = slot /\ call' = call
  BY <1>2, <1>3 DEF SlotInv
<1>4. ASSUME NEW c \in Clients, ClientStep(c) PROVE SlotInv'
  <2>1. \A d \in Clients \ {c} : slot'[d] = slot[d] /\ call'[d] = call[d]
    BY <1>4 DEF ClientStep, ClientBegin, ClientCommit, ClientRollback, Call, ReceiveReply,
       RequestTypeOK
  <2>2. service \in Seq(Txn) /\ slot[c] \in SlotsOf(service)
    BY DEF RequestTypeOK, Slots, SlotsOf
  <2>3. slot'[c] # NoControl => service'[slot'[c]].by = c
    <3>1. CASE ClientBegin(c)
      <4>1. slot'[c] = Len(service) + 1 /\ service' = Create(service, c)
        BY <3>1 DEF ClientBegin, RequestTypeOK
      <4> QED
        BY <2>2, <4>1, CreateExtends
    <3>2. CASE ClientCommit(c)
      <4>1. PICK l \in CurrentCommit(service, slot[c]) :
              slot' = [slot EXCEPT ![c] = l.slot]
        BY <3>2 DEF ClientCommit
      <4>2. l.slot \in {NoControl, slot[c]}
        BY <2>2, CurrentCommitKeeps
      <4> QED
        BY <1>2, <4>1, <4>2 DEF RequestTypeOK
    <3>3. CASE ClientRollback(c)
      <4>1. CurrentRollback(service, slot[c]).slot \in {NoControl, slot[c]}
        BY <2>2, CurrentRollbackKeeps
      <4>2. slot' = [slot EXCEPT ![c] = CurrentRollback(service, slot[c]).slot]
        BY <3>3 DEF ClientRollback
      <4> QED
        BY <1>2, <4>1, <4>2 DEF RequestTypeOK
    <3>4. CASE Call(c) \/ ReceiveReply(c)
      BY <1>2, <3>4 DEF Call, ReceiveReply
    <3> QED
      BY <1>4, <3>1, <3>2, <3>3, <3>4 DEF ClientStep
  <2>4. call'[c].at \in {"sent", "taken"} => call'[c].context = slot'[c]
    <3>1. CASE Call(c)
      BY <3>1 DEF Call, RequestContext, RequestTypeOK
    <3>2. CASE ReceiveReply(c)
      BY <3>2 DEF ReceiveReply, IdleCall, RequestTypeOK
    <3>3. CASE ClientBegin(c) \/ ClientCommit(c) \/ ClientRollback(c)
      BY <3>3 DEF ClientBegin, ClientCommit, ClientRollback
    <3> QED
      BY <1>4, <3>1, <3>2, <3>3 DEF ClientStep
  <2> QED
    BY <1>2, <2>1, <2>3, <2>4 DEF SlotInv
<1>5. ASSUME NEW w \in Workers, Receive(w) PROVE SlotInv'
  <2>1. PICK c \in Clients :
          /\ call[c].at = "sent" /\ call'[c] = [call[c] EXCEPT !.at = "taken"]
          /\ \A d \in Clients \ {c} : call'[d] = call[d]
          /\ slot' = slot
    BY <1>5, ReceiveEffect
  <2>2. call'[c].context = call[c].context
    <3>1. call[c] \in Calls(Slots)
      BY DEF RequestTypeOK, Calls
    <3> QED
      BY <2>1, <3>1 DEF Calls
  <2> QED
    BY <1>2, <2>1, <2>2 DEF SlotInv
<1>6. ASSUME NEW w \in Workers, Reply(w) PROVE SlotInv'
  BY <1>2, <1>6, ReplyEffect DEF SlotInv
<1>7. ASSUME NEW w \in Workers, WorkerStep(w), ~Receive(w), ~Reply(w) PROVE SlotInv'
  BY <1>3, <1>7, OwnRequest
<1>8. CASE Rest
  BY <1>3, <1>8 DEF Rest, AskRemoval, Removal, RestOfSystem, clientVars, vars
<1> QED
  BY <1>4, <1>5, <1>6, <1>7, <1>8, StepCases

LEMMA OwnPolicy ==
  ASSUME RequestTypeOK, NEW w \in Workers, WorkerStep(w), ~Receive(w), ~Reply(w)
  PROVE  Context(w)' = Context(w) /\ Policy(w)' = Policy(w)
BY OwnRequest DEF Context, Policy, Request, Operation

LEMMA WorkerKept ==
  ASSUME RequestTypeOK, ServeInv, WorkerInv, NEW w \in Workers, WorkerStep(w)
  PROVE  CookieOK(w)' /\ WorkerSlotOK(w)'
<1>1. Extended(service, service') /\ service \in Seq(Txn)
  BY WorkerExtends DEF RequestTypeOK
<1>2. CookieOK(w) /\ WorkerSlotOK(w) /\ w \in DOMAIN at /\ w \in DOMAIN wslot
      /\ w \in DOMAIN cookie
  BY DEF WorkerInv, RequestTypeOK
<1>3. /\ wslot[w] \in SlotsOf(service)
      /\ cookie[w] \in [action : Action, control : SlotsOf(service)]
  BY DEF RequestTypeOK, Slots, SlotsOf
<1>4. \A x \in Controls(service) : x \in Controls(service') /\ service'[x].by = service[x].by
  BY <1>1 DEF Extended
<1>5. NoCookie.action = "NOACTION" /\ NoCookie.control = NoControl
  BY DEF NoCookie
<1>6. Clients \cap {"container", "nested", "bean"} = {}
  BY RequestsAssumption
<1>7. ~Receive(w) /\ ~Reply(w) =>
        Context(w)' = Context(w) /\ Policy(w)' = Policy(w) /\ Busy(w) /\ Busy(w)'
  BY OwnPolicy, OwnRequest
<1>8. cookie[w].control # NoControl => cookie[w].control \in Controls(service)
  BY <1>3 DEF SlotsOf
<1>9. CASE Receive(w)
  <2>1. PICK c \in Clients :
          /\ at[w] = "idle" /\ at'[w] \in {"find", "reply"}
          /\ call'[c] = [call[c] EXCEPT !.at = "taken"]
          /\ client'[w] = c /\ wslot'[w] = call[c].context
          /\ UNCHANGED cookie
    BY <1>9, ReceiveEffect
  <2>2. Context(w)' = wslot'[w]
    <3>1. call[c] \in Calls(Slots)
      BY DEF RequestTypeOK, Calls
    <3> QED
      BY <2>1, <3>1 DEF Context, Calls
  <2>3. cookie'[w] = NoCookie
    BY <1>2, <2>1 DEF CookieOK
  <2> QED
    BY <1>5, <2>2, <2>3 DEF CookieOK, WorkerSlotOK
<1>10. CASE Reply(w)
  <2>1. at'[w] = "idle" /\ cookie'[w] = NoCookie
    BY <1>10, ReplyEffect
  <2> QED
    BY <1>5, <2>1 DEF CookieOK, WorkerSlotOK, Busy
<1>11. CASE FindComponent(w) \/ FindHome(w) \/ LockComposition(w)
  <2>1. at[w] \in {"find", "lock"} /\ wslot' = wslot /\ cookie' = cookie
    BY <1>11 DEF FindComponent, FindHome, LockComposition
  <2>2. wslot[w] = Context(w) /\ cookie[w] = NoCookie
    BY <1>2, <2>1 DEF CookieOK, WorkerSlotOK
  <2>3. ~Receive(w) /\ ~Reply(w)
    BY <2>1 DEF Receive, Reply
  <2> QED
    BY <1>5, <1>7, <2>1, <2>2, <2>3 DEF CookieOK, WorkerSlotOK
<1>12. CASE ApplyPolicy(w)
  <2> DEFINE p == Preinvoke(Policy(w), service, wslot[w])
  <2>1. Kind(Policy(w), p, service, wslot[w])
    <3>1. Policy(w) \in Policies \cup {"none"}
      BY PoliciesGiven DEF Policy
    <3> QED
      BY <1>1, <1>3, <3>1, PreinvokeKeeps
  <2>2. /\ at[w] = "policy" /\ service' = p.service
        /\ wslot'[w] = p.slot /\ cookie'[w] = p.cookie
        /\ p.raised = "none" => at'[w] = "body"
        /\ at'[w] \in {"body", "reply"}
    BY <1>2, <1>12 DEF ApplyPolicy, Go, Escape
  <2> HIDE DEF p
  <2>3. wslot[w] = Context(w)
    BY <1>2, <2>2 DEF WorkerSlotOK
  <2>4. Context(w)' = Context(w) /\ Policy(w)' = Policy(w)
    BY <1>7, <2>2 DEF Receive, Reply
  <2>5. CASE Untouched(p, service, wslot[w])
    BY <1>5, <2>2, <2>3, <2>4, <2>5 DEF Untouched, CookieOK, WorkerSlotOK
  <2>6. CASE p.raised = "none" /\ Suspended(p, service, wslot[w])
    BY <2>2, <2>3, <2>4, <2>6 DEF Suspended, CookieOK, WorkerSlotOK
  <2>7. CASE p.raised = "none" /\ Own(p, service, wslot[w])
    BY <1>6, <2>2, <2>3, <2>4, <2>7 DEF Own, New, CookieOK, WorkerSlotOK
  <2>8. CASE p.raised = "none" /\ Policy(w) = "requires-new" /\ Nested(p, service, wslot[w])
    BY <1>6, <2>2, <2>3, <2>4, <2>8 DEF Nested, New, CookieOK, WorkerSlotOK
  <2> QED
    BY <2>1, <2>5, <2>6, <2>7, <2>8 DEF Kind
<1>13. CASE UseTransaction(w)
  <2>1. at[w] = "body" /\ at' = at /\ cookie' = cookie
    BY <1>13 DEF UseTransaction, SetRollbackOnly, UserBegin, UserCommit, UserRollback,
       SelfManaged, InBody, OtherThanSlot
  <2>2. Context(w)' = Context(w) /\ Policy(w)' = Policy(w)
    BY <1>7, <2>1 DEF Receive, Reply
  <2>3. CookieOK(w)'
    BY <1>2, <1>4, <1>8, <2>1, <2>2 DEF CookieOK
  <2>4. wslot[w] # NoControl => wslot[w] \in Controls(service)
    BY <1>3 DEF SlotsOf
  <2>5. CASE wslot'[w] = wslot[w]
    BY <1>2, <1>4, <2>1, <2>2, <2>3, <2>4, <2>5 DEF WorkerSlotOK, Busy
  <2>6. CASE SelfManaged(w) /\ wslot'[w] = NoControl
    BY <2>1, <2>2, <2>3, <2>6 DEF WorkerSlotOK, SelfManaged
  <2>7. CASE SelfManaged(w) /\ service'[wslot'[w]].by = "bean"
    BY <1>6, <2>1, <2>2, <2>3, <2>7 DEF WorkerSlotOK, SelfManaged
  <2>8. CASE SetRollbackOnly(w)
    BY <2>5, <2>8 DEF SetRollbackOnly
  <2>9. CASE UserBegin(w)
    <3> DEFINE l == Begin(service, wslot[w], "bean")
    <3>1. service' = l.service /\ wslot'[w] = l.slot
      BY <1>2, <2>9 DEF UserBegin, Leaves
    <3>2. CASE wslot[w] = NoControl
      BY <1>1, <1>3, <2>7, <2>9, <3>1, <3>2, BeginKeeps DEF UserBegin
    <3>3. CASE wslot[w] # NoControl
      BY <1>1, <1>3, <2>5, <3>1, <3>3, BeginKeeps
    <3> QED
      BY <2>3, <3>2, <3>3
  <2>10. CASE UserCommit(w)
    <3>1. PICK l \in CurrentCommit(service, wslot[w]) : wslot'[w] = l.slot
      BY <1>2, <2>10 DEF UserCommit, Leaves
    <3>2. l.slot \in {NoControl, wslot[w]}
      BY <1>1, <1>3, CurrentCommitKeeps
    <3> QED
      BY <2>3, <2>5, <2>6, <2>10, <3>1, <3>2 DEF UserCommit
  <2>11. CASE UserRollback(w)
    <3>1. wslot'[w] = CurrentRollback(service, wslot[w]).slot
      BY <1>2, <2>11 DEF UserRollback, Leaves
    <3>2. wslot'[w] \in {NoControl, wslot[w]}
      BY <1>1, <1>3, <3>1, CurrentRollbackKeeps
    <3> QED
      BY <2>3, <2>5, <2>6, <2>11, <3>2 DEF UserRollback
  <2> QED
    BY <1>13, <2>3, <2>8, <2>9, <2>10, <2>11 DEF UseTransaction
<1>14. CASE EndOperation(w) \/ CreateReference(w) \/ EnterComponent(w) \/ RemoveComponent(w)
  <2>1. /\ at[w] \in {"body", "made"} /\ at'[w] \in {"made", "afterTxn"}
        /\ wslot' = wslot /\ cookie' = cookie /\ service' = service
    BY <1>2, <1>14 DEF EndOperation, CreateReference, EnterComponent, RemoveComponent,
       InBody, Go
  <2>2. Context(w)' = Context(w) /\ Policy(w)' = Policy(w)
    BY <1>7, <2>1 DEF Receive, Reply
  <2> QED
    BY <1>2, <2>1, <2>2 DEF CookieOK, WorkerSlotOK, Busy
<1>15. CASE AfterTxn(w)
  <2>1. at[w] = "afterTxn" /\ cookie'[w] = NoCookie
    BY <1>2, <1>15 DEF AfterTxn
  <2>2. Context(w)' = Context(w) /\ Policy(w)' = Policy(w)
    BY <1>7, <2>1 DEF Receive, Reply
  <2>3. PICK l \in Postinvoke(cookie[w], service, wslot[w]) :
          /\ service' = l.service /\ wslot' = [wslot EXCEPT ![w] = l.slot]
          /\ at'[w] \in {"afterRunTime", "reply"}
    BY <1>2, <1>15 DEF AfterTxn, Go, Escape
  <2>4. wslot'[w] = l.slot
    BY <1>2, <2>3
  <2>5. /\ cookie[w].action \in {"NOACTION", "COMMIT"} => l.slot = wslot[w]
        /\ cookie[w].action = "RESUME" => l.slot = cookie[w].control
        /\ cookie[w].action = "COMMITRESUME" => l.slot \in {wslot[w], cookie[w].control}
    BY <1>1, <1>2, <1>3, PostinvokeKeeps DEF CookieOK
  <2>6. wslot[w] # NoControl => wslot[w] \in Controls(service)
    BY <1>3 DEF SlotsOf
  <2>7. Busy(w)
    BY <2>1 DEF Busy
  <2>8. CASE cookie[w].action \in {"NOACTION", "COMMIT"}
    BY <1>2, <1>4, <1>5, <2>1, <2>2, <2>3, <2>4, <2>5, <2>6, <2>7, <2>8
    DEF CookieOK, WorkerSlotOK
  <2>9. CASE cookie[w].action = "RESUME"
    BY <1>2, <1>5, <2>1, <2>2, <2>3, <2>4, <2>5, <2>9 DEF CookieOK, WorkerSlotOK
  <2>10. CASE cookie[w].action = "COMMITRESUME"
    BY <1>2, <1>4, <1>5, <2>1, <2>2, <2>3, <2>4, <2>5, <2>6, <2>7, <2>10
    DEF CookieOK, WorkerSlotOK
  <2> QED
    BY <1>3, <2>8, <2>9, <2>10 DEF Action
<1>16. CASE AfterRunTime(w)
  <2>1. /\ at[w] = "afterRunTime" /\ at'[w] = "reply"
        /\ wslot' = wslot /\ cookie' = cookie /\ service' = service
    BY <1>2, <1>16 DEF AfterRunTime, Go
  <2>2. Context(w)' = Context(w) /\ Policy(w)' = Policy(w)
    BY <1>7, <2>1 DEF Receive, Reply
  <2> QED
    BY <1>2, <2>1, <2>2 DEF CookieOK, WorkerSlotOK, Busy
<1> QED
  BY <1>9, <1>10, <1>11, <1>12, <1>13, <1>14, <1>15, <1>16 DEF WorkerStep, Serve

LEMMA WorkersKept ==
  ASSUME RequestTypeOK, ServeInv, WorkerInv, [Next]_vars
  PROVE  WorkerInv'
<1>1. Extended(service, service')
  BY StepExtends
<1>2. \A v \in Workers : Unmoved(v) => CookieOK(v)' /\ WorkerSlotOK(v)'
  BY <1>1, UnmovedKeeps DEF WorkerInv
<1>3. CASE \A v \in Workers : Unmoved(v)
  BY <1>2, <1>3 DEF WorkerInv
<1>4. ASSUME NEW w \in Workers, WorkerStep(w) PROVE WorkerInv'
  BY <1>2, <1>4, Bystanders, WorkerKept DEF WorkerInv
<1> QED
  BY <1>3, <1>4, StepCases, ClientsMoveNoWorker, RestMovesNoWorker

(***************************************************************************)
(* What becomes of the transactions.                                       *)
(***************************************************************************)
LEMMA DoomedKept ==
  ASSUME RequestTypeOK, ServeInv, WorkerInv, FinishedHasFate, DoomedInv, [Next]_vars
  PROVE  FinishedHasFate' /\ DoomedInv'
<1>1. Extended(service, service') /\ Sound(service)
  BY StepExtends DEF FinishedHasFate, Sound
<1>2. FinishedHasFate'
  BY <1>1 DEF Extended, FinishedHasFate, Sound
<1>3. \A x \in doomed : service'[x].fate = "aborted" \/ MarkedOpen(service'[x])
  BY <1>1 DEF RequestTypeOK, DoomedInv, Extended, MarkedOpen
<1>4. CASE doomed' = doomed
  BY <1>2, <1>3, <1>4 DEF DoomedInv, MarkedOpen
<1>5. ASSUME NEW w \in Workers, Reply(w) PROVE DoomedInv'
  <2>1. service \in Seq(Txn) /\ wslot[w] \in SlotsOf(service)
    BY DEF RequestTypeOK, Slots, SlotsOf
  <2>2. /\ service' = MarkOnException(service, wslot[w], raised[w])
        /\ \A x \in doomed' : \/ x \in doomed
                             \/ /\ x = wslot[w] /\ raised[w] = "system"
                                /\ x # NoControl /\ service[x].fate = "open"
    BY <1>5 DEF Reply
  <2>3. \A x \in doomed' \ doomed : MarkedOpen(service'[x])
    BY <1>1, <2>1, <2>2, MarkKeeps
  <2> QED
    BY <1>3, <2>3 DEF DoomedInv, MarkedOpen
<1>6. ASSUME NEW w \in Workers, Receive(w) PROVE doomed' = doomed
  BY <1>6 DEF Receive
<1>7. ASSUME NEW c \in Clients, ClientStep(c) PROVE doomed' = doomed
  BY <1>7 DEF ClientStep, ClientBegin, ClientCommit, ClientRollback, Call, ReceiveReply
<1>8. DoomedInv'
  <2>1. ASSUME NEW w \in Workers, WorkerStep(w), ~Reply(w) PROVE doomed' = doomed
    BY <1>6, <2>1, OwnRequest
  <2>2. Rest => doomed' = doomed
    BY DEF Rest, AskRemoval, Removal, RestOfSystem, vars
  <2> QED
    BY <1>4, <1>5, <1>7, <2>1, <2>2, StepCases
<1> QED
  BY <1>2, <1>8

(* A transaction of the container comes from a policy that keeps it in the *)
(* cookie.                                                                 *)
LEMMA NewOfContainer ==
  ASSUME RequestTypeOK, WorkerInv, [Next]_vars,
         NEW x \in Controls(service') \ Controls(service), service'[x].by = "container"
  PROVE  \E w \in Workers :
            at'[w] = "body" /\ cookie'[w] = [action |-> "COMMIT", control |-> x]
<1>1. service \in Seq(Txn) /\ Clients \cap {"container", "nested", "bean"} = {}
  BY RequestsAssumption DEF RequestTypeOK
<1>2. ASSUME Controls(service') = Controls(service) PROVE FALSE
  BY <1>2
<1>3. ASSUME NEW c \in Clients, ClientStep(c) PROVE FALSE
  <2>1. slot[c] \in SlotsOf(service) /\ call[c].context \in SlotsOf(service)
    BY DEF RequestTypeOK, Slots, SlotsOf
  <2>2. CASE ClientBegin(c)
    BY <1>1, <2>2, CreateExtends DEF ClientBegin
  <2>3. CASE ClientCommit(c)
    BY <1>1, <1>2, <2>1, <2>3, CurrentCommitKeeps DEF ClientCommit
  <2>4. CASE ClientRollback(c)
    BY <1>1, <1>2, <2>1, <2>4, CurrentRollbackKeeps DEF ClientRollback
  <2>5. CASE Call(c)
    BY <1>2, <2>5 DEF Call
  <2>6. CASE ReceiveReply(c)
    BY <1>1, <1>2, <2>1, <2>6, MarkKeeps DEF ReceiveReply
  <2> QED
    BY <1>3, <2>2, <2>3, <2>4, <2>5, <2>6 DEF ClientStep
<1>4. ASSUME NEW w \in Workers, WorkerStep(w)
      PROVE  at'[w] = "body" /\ cookie'[w] = [action |-> "COMMIT", control |-> x]
  <2>1. wslot[w] \in SlotsOf(service) /\ w \in DOMAIN at /\ w \in DOMAIN cookie
    BY DEF RequestTypeOK, Slots, SlotsOf
  <2>2. CASE ApplyPolicy(w)
    <3> DEFINE p == Preinvoke(Policy(w), service, wslot[w])
    <3>1. Policy(w) \in Policies \cup {"none"}
      BY PoliciesGiven DEF Policy
    <3>2. Kind(Policy(w), p, service, wslot[w])
      BY <1>1, <2>1, <3>1, PreinvokeKeeps
    <3>3. /\ service' = p.service /\ cookie'[w] = p.cookie
          /\ p.raised = "none" => at'[w] = "body"
      BY <2>1, <2>2 DEF ApplyPolicy, Go
    <3> HIDE DEF p
    <3> QED
      BY <3>2, <3>3 DEF Kind, Untouched, Suspended, Own, Nested, New
  <2>3. CASE AfterTxn(w)
    <3>1. /\ cookie[w] \in [action : Action, control : SlotsOf(service)]
          /\ cookie[w].action # "NOACTION" => cookie[w].control # NoControl
      BY DEF RequestTypeOK, Slots, SlotsOf, WorkerInv, CookieOK
    <3> QED
      BY <1>1, <1>2, <2>1, <2>3, <3>1, PostinvokeKeeps DEF AfterTxn
  <2>4. CASE Reply(w)
    BY <1>1, <1>2, <2>1, <2>4, MarkKeeps DEF Reply
  <2>5. CASE SetRollbackOnly(w)
    BY <1>1, <1>2, <2>1, <2>5, MarkKeeps DEF SetRollbackOnly
  <2>6. CASE UserBegin(w)
    BY <1>1, <2>1, <2>6, BeginKeeps DEF UserBegin, Leaves
  <2>7. CASE UserCommit(w)
    BY <1>1, <1>2, <2>1, <2>7, CurrentCommitKeeps DEF UserCommit, Leaves
  <2>8. CASE UserRollback(w)
    BY <1>1, <1>2, <2>1, <2>8, CurrentRollbackKeeps DEF UserRollback, Leaves
  <2>9. CASE Receive(w) \/ FindComponent(w) \/ FindHome(w) \/ LockComposition(w)
               \/ EndOperation(w) \/ CreateReference(w) \/ EnterComponent(w)
               \/ RemoveComponent(w) \/ AfterRunTime(w)
    BY <1>2, <2>9 DEF Receive, FindComponent, FindHome, LockComposition, EndOperation,
       CreateReference, EnterComponent, RemoveComponent, AfterRunTime
  <2> QED
    BY <1>4, <2>2, <2>3, <2>4, <2>5, <2>6, <2>7, <2>8, <2>9
    DEF WorkerStep, Serve, UseTransaction
<1>5. CASE Rest
  BY <1>2, <1>5, RestMovesNoWorker DEF Rest, AskRemoval, Removal, RestOfSystem, vars
<1> QED
  BY <1>3, <1>4, <1>5, StepCases

(* Until postinvoke has ended it, the cookie stays.                        *)
LEMMA CookieStays ==
  ASSUME RequestTypeOK, WorkerInv, FinishedHasFate, NEW w \in Workers, WorkerStep(w),
         at[w] \in {"body", "made", "afterTxn"}, cookie[w].action = "COMMIT"
  PROVE  \/ at'[w] \in {"body", "made", "afterTxn"} /\ cookie'[w] = cookie[w]
         \/ service'[cookie[w].control].fate # "open"
<1>1. /\ w \in DOMAIN at /\ service \in Seq(Txn) /\ wslot[w] \in SlotsOf(service)
      /\ cookie[w] \in [action : Action, control : SlotsOf(service)]
      /\ cookie[w].control # NoControl
  BY DEF RequestTypeOK, Slots, SlotsOf, WorkerInv, CookieOK
<1>2. CASE AfterTxn(w)
  BY <1>1, <1>2, PostinvokeKeeps DEF AfterTxn, FinishedHasFate, Sound
<1>3. CASE EndOperation(w) \/ CreateReference(w) \/ EnterComponent(w) \/ RemoveComponent(w)
  BY <1>1, <1>3 DEF EndOperation, CreateReference, EnterComponent, RemoveComponent, Go
<1>4. CASE UseTransaction(w)
  BY <1>4 DEF UseTransaction, SetRollbackOnly, UserBegin, UserCommit, UserRollback,
     OtherThanSlot
<1>5. ~(Receive(w) \/ FindComponent(w) \/ FindHome(w) \/ LockComposition(w)
          \/ ApplyPolicy(w) \/ AfterRunTime(w) \/ Reply(w))
  BY DEF Receive, FindComponent, FindHome, LockComposition, ApplyPolicy, AfterRunTime,
     Reply
<1> QED
  BY <1>2, <1>3, <1>4, <1>5 DEF WorkerStep, Serve

LEMMA OwnKept ==
  ASSUME RequestTypeOK, ServeInv, WorkerInv, FinishedHasFate, OwnTransactionEnded,
         [Next]_vars
  PROVE  OwnTransactionEnded'
<1> SUFFICES ASSUME NEW x \in Controls(service'),
                    service'[x].by = "container", service'[x].fate = "open"
             PROVE  \E w \in Workers :
                       /\ at'[w] \in {"body", "made", "afterTxn"}
                       /\ cookie'[w] = [action |-> "COMMIT", control |-> x]
  BY DEF OwnTransactionEnded
<1>1. Extended(service, service')
  BY StepExtends
<1>2. CASE x \notin Controls(service)
  BY <1>2, NewOfContainer
<1>3. CASE x \in Controls(service)
  <2>1. service[x].by = "container" /\ service[x].fate = "open"
    BY <1>1, <1>3 DEF Extended
  <2>2. PICK w \in Workers : /\ at[w] \in {"body", "made", "afterTxn"}
                             /\ cookie[w] = [action |-> "COMMIT", control |-> x]
    BY <1>3, <2>1 DEF OwnTransactionEnded
  <2>3. CASE Unmoved(w)
    BY <2>2, <2>3 DEF Unmoved
  <2>4. CASE WorkerStep(w)
    BY <2>2, <2>4, CookieStays
  <2> QED
    BY <2>3, <2>4, StepCases, ClientsMoveNoWorker, RestMovesNoWorker, Bystanders
<1> QED
  BY <1>2, <1>3

LEMMA TransactionInvKept ==
  ASSUME RequestTypeOK, ServeInv, TransactionInv, [Next]_vars
  PROVE  TransactionInv'
BY SlotsKept, WorkersKept, DoomedKept, OwnKept DEF TransactionInv

LEMMA TransactionInit == Init => RequestTypeOK /\ ServeInv /\ TransactionInv
<1> SUFFICES ASSUME Init PROVE RequestTypeOK /\ ServeInv /\ TransactionInv
  OBVIOUS
<1>1. Controls(service) = {} /\ service \in Seq(Txn) /\ Slots = {NoControl}
  BY DEF Init, Controls, Slots
<1>2. RequestTypeOK
  <2>1. script \in [todo : [Clients -> Seq(Requests)], begins : Nat, removals : Nat]
    BY RequestsAssumption DEF Init
  <2>2. /\ NoCookie \in [action : Action, control : Slots]
        /\ IdleCall \in [at : CallPlace, request : Requests \cup {NoRequest},
                         context : Slots, raised : Raised]
    BY <1>1 DEF NoCookie, Action, IdleCall, CallPlace, Raised
  <2> QED
    BY <1>1, <2>1, <2>2 DEF Init, RequestTypeOK, WorkerPlace, Raised
<1>3. ServeInv
  BY DEF Init, ServeInv, Busy
<1>4. SlotInv /\ WorkerInv
  BY DEF Init, SlotInv, IdleCall, WorkerInv, CookieOK, WorkerSlotOK, NoCookie, Busy
<1>5. FinishedHasFate /\ DoomedInv /\ OwnTransactionEnded
  BY <1>1 DEF Init, FinishedHasFate, DoomedInv, OwnTransactionEnded
<1> QED
  BY <1>2, <1>3, <1>4, <1>5 DEF TransactionInv

(***************************************************************************)
(* What follows from the invariant for a state and for a step.             *)
(***************************************************************************)
LEMMA PolicyConsequences ==
  ASSUME RequestTypeOK, TransactionInv
  PROVE  /\ ReplyCarriesItsTransaction
         /\ OwnTransactionEnded
         /\ ExceptionDooms
<1>1. ReplyCarriesItsTransaction
  <2> SUFFICES ASSUME NEW w \in Workers, at[w] = "reply", Context(w) # NoControl,
                      Policy(w) \notin {"requires-new", "self-managed"}
               PROVE  wslot[w] = Context(w)
    BY DEF ReplyCarriesItsTransaction, Context
  <2>1. CookieOK(w) /\ WorkerSlotOK(w)
    BY DEF TransactionInv, WorkerInv
  <2>2. cookie[w] = NoCookie
    BY <2>1 DEF CookieOK
  <2> QED
    BY <2>1, <2>2 DEF WorkerSlotOK, NoCookie, Busy
<1>2. ExceptionDooms
  BY DEF TransactionInv, DoomedInv, ExceptionDooms
<1> QED
  BY <1>1, <1>2 DEF TransactionInv

LEMMA StepEndsRightly ==
  ASSUME RequestTypeOK, ServeInv, TransactionInv, [Next]_vars
  PROVE  EndedRightly
<1> SUFFICES ASSUME NEW x \in Controls(service), service[x].by \in Clients,
                    service'[x].fate # service[x].fate
             PROVE  \/ slot[service[x].by] = x /\ call[service[x].by].at = "idle"
                    \/ \E w \in Workers :
                          /\ at[w] \in {"body", "afterTxn"}
                          /\ Policy(w) \in {"requires-new", "self-managed"}
                          /\ call[client[w]].context = x
  BY DEF EndedRightly
<1>1. service \in Seq(Txn) /\ Clients \cap {"container", "nested", "bean"} = {}
  BY RequestsAssumption DEF RequestTypeOK
<1>2. WorkerInv /\ SlotInv
  BY DEF TransactionInv
<1>3. service' # service /\ service'[x] # service[x]
  OBVIOUS
<1>4. ASSUME NEW c \in Clients, ClientStep(c)
      PROVE  slot[service[x].by] = x /\ call[service[x].by].at = "idle"
  <2>1. slot[c] \in SlotsOf(service) /\ call[c].context \in SlotsOf(service)
    BY DEF RequestTypeOK, Slots, SlotsOf
  <2>2. CASE ClientBegin(c)
    BY <1>1, <1>3, <2>2, CreateExtends DEF ClientBegin
  <2>3. CASE ClientCommit(c)
    <3>1. slot[c] = x
      BY <1>1, <1>3, <2>1, <2>3, CurrentCommitKeeps DEF ClientCommit
    <3> QED
      BY <1>2, <2>3, <3>1 DEF ClientCommit, SlotInv
  <2>4. CASE ClientRollback(c)
    <3>1. slot[c] = x
      BY <1>1, <1>3, <2>1, <2>4, CurrentRollbackKeeps DEF ClientRollback
    <3> QED
      BY <1>2, <2>4, <3>1 DEF ClientRollback, SlotInv
  <2>5. CASE Call(c)
    BY <1>3, <2>5 DEF Call
  <2>6. CASE ReceiveReply(c)
    BY <1>1, <2>1, <2>6, MarkKeeps DEF ReceiveReply
  <2> QED
    BY <1>4, <2>2, <2>3, <2>4, <2>5, <2>6 DEF ClientStep
<1>5. ASSUME NEW w \in Workers, WorkerStep(w)
      PROVE  /\ at[w] \in {"body", "afterTxn"}
             /\ Policy(w) \in {"requires-new", "self-managed"}
             /\ call[client[w]].context = x
  <2>1. wslot[w] \in SlotsOf(service) /\ CookieOK(w) /\ WorkerSlotOK(w)
    BY <1>2 DEF RequestTypeOK, Slots, SlotsOf, WorkerInv
  <2>2. CASE ApplyPolicy(w)
    <3>1. Policy(w) \in Policies \cup {"none"}
      BY PoliciesGiven DEF Policy
    <3> QED
      BY <1>1, <1>3, <2>1, <2>2, <3>1, PreinvokeKeeps DEF ApplyPolicy
  <2>3. CASE AfterTxn(w)
    <3>1. /\ cookie[w] \in [action : Action, control : SlotsOf(service)]
          /\ cookie[w].action # "NOACTION" => cookie[w].control # NoControl
      BY <2>1 DEF RequestTypeOK, Slots, SlotsOf, CookieOK
    <3>2. PICK l \in Postinvoke(cookie[w], service, wslot[w]) : service' = l.service
      BY <2>3 DEF AfterTxn
    <3>3. cookie[w].action \notin {"NOACTION", "RESUME"} /\ x = cookie[w].control
      BY <1>1, <1>3, <2>1, <3>1, <3>2, PostinvokeKeeps
    <3>4. cookie[w].action = "COMMITRESUME"
      BY <1>1, <2>1, <3>1, <3>3 DEF CookieOK, Action
    <3> QED
      BY <2>1, <2>3, <3>3, <3>4 DEF AfterTxn, CookieOK, Context
  <2>4. CASE UserCommit(w) \/ UserRollback(w)
    <3>1. x = wslot[w]
      BY <1>1, <1>3, <2>1, <2>4, CurrentCommitKeeps, CurrentRollbackKeeps
      DEF UserCommit, UserRollback, Leaves
    <3>2. SelfManaged(w) /\ x # NoControl
      BY <1>1, <2>4, NilIsNoControl DEF UserCommit, UserRollback
    <3> QED
      BY <2>1, <3>1, <3>2 DEF SelfManaged, InBody, WorkerSlotOK, Context, Busy
  <2>5. CASE SetRollbackOnly(w)
    BY <1>1, <2>1, <2>5, MarkKeeps DEF SetRollbackOnly
  <2>6. CASE UserBegin(w)
    BY <1>1, <1>3, <2>1, <2>6, BeginKeeps DEF UserBegin, Leaves
  <2>7. CASE Reply(w)
    BY <1>1, <2>1, <2>7, MarkKeeps DEF Reply
  <2>8. CASE Receive(w) \/ FindComponent(w) \/ FindHome(w) \/ LockComposition(w)
               \/ EndOperation(w) \/ CreateReference(w) \/ EnterComponent(w)
               \/ RemoveComponent(w) \/ AfterRunTime(w)
    BY <1>3, <2>8 DEF Receive, FindComponent, FindHome, LockComposition, EndOperation,
       CreateReference, EnterComponent, RemoveComponent, AfterRunTime
  <2> QED
    BY <1>5, <2>2, <2>3, <2>4, <2>5, <2>6, <2>7, <2>8 DEF WorkerStep, Serve, UseTransaction
<1>6. ~Rest
  BY <1>3 DEF Rest, AskRemoval, Removal, RestOfSystem, vars
<1> QED
  BY <1>4, <1>5, <1>6, StepCases

(***************************************************************************)
(* The theorems.                                                           *)
(***************************************************************************)
PolicyInv == RequestTypeOK /\ ServeInv /\ TransactionInv

LEMMA PolicyInvariant == Spec => []PolicyInv
<1>1. Init => PolicyInv
  BY TransactionInit DEF PolicyInv
<1>2. PolicyInv /\ [Next]_vars => PolicyInv'
  BY RequestTypesKept, ServeKept, TransactionInvKept DEF PolicyInv, TransactionInv
<1> QED
  BY <1>1, <1>2, PTL DEF Spec

(* Under every policy but requires-new and self-managed the thread of a    *)
(* request answers with the transaction the request came with in its slot  *)
(* (TxnInterceptor::preinvoke and postinvoke, suspend and resume).         *)
THEOREM RepliesCarryTheirTransaction == Spec => []ReplyCarriesItsTransaction
<1>1. PolicyInv => ReplyCarriesItsTransaction
  BY PolicyConsequences DEF PolicyInv
<1> QED
  BY <1>1, PolicyInvariant, PTL

(* A transaction that the container began for a request never outlives its *)
(* upcall, however commit and rollback of its terminator end.              *)
THEOREM OwnTransactionsEnd == Spec => []OwnTransactionEnded
<1>1. PolicyInv => OwnTransactionEnded
  BY PolicyConsequences DEF PolicyInv
<1> QED
  BY <1>1, PolicyInvariant, PTL

(* A transaction marked by the reply with a system exception stays         *)
(* uncommitted, whoever tries to commit it afterwards.                     *)
THEOREM ExceptionsDoom == Spec => []ExceptionDooms
<1>1. PolicyInv => ExceptionDooms
  BY PolicyConsequences DEF PolicyInv
<1> QED
  BY <1>1, PolicyInvariant, PTL

(* No step of the container, of another client or of another request ends  *)
(* a client's transaction, except for the commit of the suspended one      *)
(* under requires-new and a component that manages transactions itself.    *)
THEOREM OthersEndNoTransaction == Spec => EndedByItsBeginner
<1>1. PolicyInv /\ [Next]_vars => [EndedRightly]_vars
  BY StepEndsRightly DEF PolicyInv
<1> QED
  BY <1>1, PolicyInvariant, PTL DEF Spec, EndedByItsBeginner
=============================================================================
