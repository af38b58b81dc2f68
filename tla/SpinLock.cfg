\* Three CPUs and three tickets: the counters wrap and the bound
\* Cardinality(CPU) <= TICKETS is met with equality.
CONSTANTS
    CPU = {c1, c2, c3}
    TICKETS = 3
SPECIFICATION Spec
INVARIANTS
    MutualExclusion
    TicketWindow
PROPERTIES
    FirstComeFirstServed
    EveryTicketServed
