------------------------------ MODULE FifoLock ------------------------------
(***************************************************************************)
(* What a lock of include/utils/spinlock.h promises its callers: the CPUs  *)
(* that asked for it enter one at a time, in the order in which they asked,*)
(* and each leaves the queue when it releases the lock.                    *)
(***************************************************************************)
EXTENDS Naturals, Sequences

CONSTANT CPU

VARIABLES queue,      \* the CPUs that asked and have not released, in order
          inside      \* the CPUs inside the critical section

vars == <<queue, inside>>

Init == queue = <<>> /\ inside = {}

Request(c) ==
    /\ \A i \in DOMAIN queue : queue[i] # c
    /\ queue' = Append(queue, c)
    /\ UNCHANGED inside

Enter(c) ==
    /\ inside = {}
    /\ queue # <<>>
    /\ c = Head(queue)
    /\ inside' = {c}
    /\ UNCHANGED queue

Leave(c) ==
    /\ inside = {c}
    /\ queue' = Tail(queue)
    /\ inside' = {}

Next == \E c \in CPU : Request(c) \/ Enter(c) \/ Leave(c)

Spec == Init /\ [][Next]_vars
=============================================================================
