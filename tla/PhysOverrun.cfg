CONSTANTS
    PG_SIZE = 4
    WORD = 2
    LOWMEM = 1
    MM_TABLE_MAX = 8
    ADDR = 128
    LARGE_PG = 4
    Machines <- MCMachines
    Sizes = {1, 2}
    MaxHeld = 3
SPECIFICATION Spec
INVARIANT ScanStaysInTable
