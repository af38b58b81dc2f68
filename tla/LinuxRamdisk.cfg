\* The proportions of a PC: low memory is half a large page, an entry of
\* mm_table is half a large page.
CONSTANTS
    PG_SIZE = 2
    WORD = 6
    LOWMEM = 1
    MM_TABLE_MAX = 17
    ADDR = 1024
    LARGE_PG = 12
    Machines <- MCMachines
    Sizes = {1}
    MaxHeld = 13
    SETUP = 3
    RAM_SIZE = 2
    G4 = 72
    MAX_CPUS = 4
    MAX_IRQ_OVERRIDES = 2
    Firmwares <- MCFirmwares
    Boots <- HighRamdiskBoots
    SMP_BOOT = 3
    MaxBefore = 3
SPECIFICATION KernelSpec
INVARIANT RamdiskDescribed
\* The BSP ends in the guest or in a panic.
CHECK_DEADLOCK FALSE
