\* Pages of 4 bytes, entries of 2 bits, the first entry is low memory, a
\* large page is 2 entries: the proportions LARGE_PG > LOWMEM * WORD and
\* WORD < LARGE_PG of the code.
CONSTANTS
    PG_SIZE = 4
    WORD = 2
    LOWMEM = 1
    MM_TABLE_MAX = 8
    ADDR = 128
    LARGE_PG = 4
    Machines <- MCMachines
    Sizes = {1, 2, 3}
    MaxHeld = 4
SPECIFICATION Spec
INVARIANTS
    TypeOK
    FramesApart
    OnlyUsableFrames
    NextFreeRangeCorrect
PROPERTIES
    AlignedFindsLowest
    AlignedReturns
    WideRunFound
