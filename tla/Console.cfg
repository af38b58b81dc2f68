\* Two CPUs and two tickets, numbers of three binary digits.
CONSTANTS
    CPU = {c1, c2}
    TICKETS = 2
    BSP = c1
    BASE = 2
    W = 3
    COLUMNS = 3
    LINES = 2
    Args <- MCArgs
    EXP_PRINTS = 2
    MaxExp = 1
SPECIFICATION ConsoleSpec
INVARIANTS PrintsWhole NoSelfDeadlock
PROPERTIES PrintEnds TickServed
\* The CPUs may all halt.
CHECK_DEADLOCK FALSE
