-------------------------------- MODULE Heap --------------------------------
(***************************************************************************)
(* What malloc and free promise: the blocks in use are disjoint parts of   *)
(* the pool, each large enough for what was asked, and they change only by *)
(* malloc and free.                                                        *)
(***************************************************************************)
EXTENDS Naturals

CONSTANTS Unit,       \* the pool
          Sizes,      \* sizes that may be asked for
          Fits(_, _)  \* Fits(n, size): n units hold size bytes

VARIABLE used         \* blocks in use: [units, size]

Init == used = {}

Malloc(units, size) ==
    /\ \A b \in used : b.units \cap units = {}
    /\ Fits(units, size)
    /\ used' = used \cup {[units |-> units, size |-> size]}

Free(b) == used' = used \ {b}

Next ==
    \/ \E units \in (SUBSET Unit) \ {{}}, size \in Sizes : Malloc(units, size)
    \/ \E b \in used : Free(b)

Spec == Init /\ [][Next]_used
=============================================================================
