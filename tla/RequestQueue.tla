---------------------------- MODULE RequestQueue ----------------------------
(***************************************************************************)
(* The queue between the threads of the ORB, which put requests, and the   *)
(* workers of a container's pool, which take them                          *)
(* (ccm/src/AppSvr/LinkedRequestQueue.cpp).                                *)
(*                                                                         *)
(* The list is guarded at its two ends by headMutex_ and lastMutex_, and   *)
(* takers sleep on the monitor putLock_.  The counter queueSize_ is        *)
(* guarded by neither: the put side increments it outside lastMutex_, the  *)
(* take side decrements it inside headMutex_, so both read it in one step  *)
(* and write it in another, and an update of the other side in between is  *)
(* lost.  The operators below are those steps; ThreadPool says which       *)
(* thread takes them and when.                                             *)
(***************************************************************************)
EXTENDS Naturals, Sequences

CONSTANTS
    Requests,   \* the requests that arrive for the container
    Capacity,   \* capacity_, beyond which a put asks for more workers
    ULongRange  \* the range of an unsigned counter, 2^32 in the code

ASSUME QueueAssumption ==
    /\ Capacity \in Nat \ {0}
    /\ ULongRange \in Nat \ {0}

VARIABLES
    queue,          \* the requests linked between head_ and last_
    queueSize,      \* queueSize_
    waitingForTake, \* waitingForTake_
    closed,         \* the member destroy_ of the queue
    putSaw,         \* queueSize_ as read by the put in progress, else 0
    takeSaw         \* queueSize_ as read by the take in progress, else 0

queueVars == <<queue, queueSize, waitingForTake, closed, putSaw, takeSaw>>

QueueTypes ==
    /\ queue \in Seq(Requests)
    /\ queueSize \in 0..(ULongRange - 1)
    /\ waitingForTake \in Nat
    /\ closed \in BOOLEAN
    /\ putSaw \in 0..(ULongRange - 1)
    /\ takeSaw \in 0..(ULongRange - 1)

QueueInit ==
    /\ queue = << >>
    /\ queueSize = 0
    /\ waitingForTake = 0
    /\ closed = FALSE
    /\ putSaw = 0
    /\ takeSaw = 0

(* addRequest: the record is linked under lastMutex_; after the unlock the *)
(* counter is read, and then written.                                      *)
LinkLast(q) ==
    /\ queue' = Append(queue, q)
    /\ UNCHANGED <<queueSize, waitingForTake, closed, putSaw, takeSaw>>

ReadSize ==
    /\ putSaw' = queueSize
    /\ UNCHANGED <<queue, queueSize, waitingForTake, closed, takeSaw>>

IncrementSize ==
    /\ queueSize' = (putSaw + 1) % ULongRange
    /\ putSaw' = 0
    /\ UNCHANGED <<queue, waitingForTake, closed, takeSaw>>

IsLong == queueSize > Capacity

(* extract: the first record is unlinked under headMutex_ and the counter  *)
(* read; then the counter is written.                                      *)
UnlinkFirst ==
    /\ queue' = Tail(queue)
    /\ takeSaw' = queueSize
    /\ UNCHANGED <<queueSize, waitingForTake, closed, putSaw>>

DecrementSize ==
    /\ queueSize' = (takeSaw + ULongRange - 1) % ULongRange
    /\ takeSaw' = 0
    /\ UNCHANGED <<queue, closed, putSaw>>

StartWaiting ==
    /\ waitingForTake' = waitingForTake + 1
    /\ UNCHANGED <<queue, queueSize, closed, putSaw, takeSaw>>

StopWaiting ==
    /\ waitingForTake' = waitingForTake - 1
    /\ UNCHANGED <<queue, queueSize, closed, putSaw, takeSaw>>

CloseQueue ==
    /\ closed' = TRUE
    /\ UNCHANGED <<queue, queueSize, waitingForTake, putSaw, takeSaw>>
=============================================================================
