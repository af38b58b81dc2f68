\* Three APs that start in time, one that does not start.
CONSTANTS
    N = 4
    Dead = {2}
    Late = FALSE
SPECIFICATION Spec
INVARIANTS
    StacksApart
    OwnPercpuArea
    CountsOnline
    IdentityNotMissed
PROPERTIES
    MtrrRendezvous
    SecInitEnds
\* CPUs end in their idle loop.
CHECK_DEADLOCK FALSE
