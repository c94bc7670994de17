------------------------- MODULE MCExecutorInvoker -------------------------
(* Instances of ExecutorInvoker for TLC.                                    *)
EXTENDS ExecutorInvoker, TLC

CONSTANTS c1, c2, k1, k2, w1, w2

Entry(interface, operation, policy) ==
    [interface |-> interface, operation |-> operation, policy |-> policy]

(* One interface per policy; the second operation of p1 is dropped.        *)
AllPolicies ==
    <<Entry("p1", "*", "required"), Entry("p1", "op", "never"),
      Entry("p2", "*", "requires-new"), Entry("p3", "op", "not-supported"),
      Entry("p4", "*", "mandatory"), Entry("p5", "*", "never"),
      Entry("p6", "*", "supports"), Entry("p7", "*", "self-managed")>>

Asks(component, interface, operation) ==
    [component |-> component, interface |-> interface, operation |-> operation]

Ports == {"p1", "p2", "p3", "p4", "p5", "p6", "p7"}
Op(p) == Asks(k1, p, "op")
CreateSecond == Asks(Home, "home", "create")
Removes(k) == Asks(k, "main", "remove")
IsA == Asks(k1, "main", "_is_a")

AllRequests ==
    {Op(p) : p \in Ports} \cup {Removes(k1), Removes(k2), IsA, CreateSecond}

Script(first, second, begins, asked) ==
    [todo |-> c1 :> first @@ c2 :> second, begins |-> begins, removals |-> asked]

(* One client calls two operations in and out of a transaction; two        *)
(* clients call operations at the same time; components are made, used and *)
(* removed while the home is being removed.                                *)
AllScripts ==
    {Script(<<Op(p), Op(q)>>, <<>>, 1, 0) : p \in Ports, q \in {"p1", "p2", "p4"}}
        \cup {Script(<<Op(p)>>, <<Op("p4")>>, 1, 0) : p \in Ports \ {"p7"}}
        \cup {Script(<<CreateSecond, Removes(k2)>>, <<q>>, 0, 2) :
                  q \in {Removes(k1), IsA, Op("p1"), Op("p4")}}
        \cup {Script(<<Removes(k1)>>, <<q>>, 0, 1) : q \in {Removes(k1), IsA, Op("p4")}}
=============================================================================
