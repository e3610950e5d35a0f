---------------------------- MODULE BoundedQueue ----------------------------
(***************************************************************************)
(* What the firmware's byte queues promise their users: a first-in,        *)
(* first-out queue of at most Capacity bytes.  A byte put on a full queue  *)
(* is lost, and nobody is told: Fifo_Put (libraries/fifo.c:58) throws away *)
(* the NRF_ERROR_NO_MEM of app_fifo_put.                                   *)
(***************************************************************************)
EXTENDS Naturals, Sequences

CONSTANTS
    Byte,       \* the values a queue holds
    Capacity    \* how many of them it holds at most

VARIABLES
    queue,      \* what has been put and not yet got
    returned    \* what the last successful get returned

vars == <<queue, returned>>

Init ==
    /\ queue = <<>>
    /\ returned \in Byte

After_Unbounded(q, b) == Append(q, b)

\* The queue q after b was put on it.
After(q, b) == IF Len(q) < Capacity THEN Append(q, b) ELSE q

Put(b) ==
    /\ queue' = After(queue, b)
    /\ UNCHANGED returned

Get ==
    /\ queue # <<>>
    /\ returned' = Head(queue)
    /\ queue' = Tail(queue)

Next == Get \/ \E b \in Byte : Put(b)

Spec == Init /\ [][Next]_vars
=============================================================================
