\* Windows of seven pages and two large pages: runs of two and three meet gaps
\* between up to two mappings, and two CPUs reuse each other's entries.
CONSTANTS
    CPU = {c1, c2}
    PG_TABLE_ENTRIES = 7
    LG_BASE = 3
    LG_LIMIT = 5
    MALLOC_SLOTS = {1}
    PT_SLOT = 2
    U64 = 64
    PageNums = {2, 3}
    LargeNums = {2}
    Frames = {10}
    MaxMapped = 3
    MaxCached = 1
SPECIFICATION Spec
INVARIANTS MappingsIntact WindowAccounted NoStaleTranslation
PROPERTIES SearchEnds WideGapFound
\* With MaxMapped mappings kept and cached there is nothing left to do.
CHECK_DEADLOCK FALSE
