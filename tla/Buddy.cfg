\* A pool of eight units.  23 and 24 bytes are the two sides of the boundary
\* between the first two entries; 60 bytes take half the pool.
CONSTANTS
    ENTRIES = 4
    MIN_BLK = 32
    Sizes = {23, 24, 60}
    Fill = {0, 1, 255}
    USED = 255
SPECIFICATION Spec
INVARIANTS Partition NoFalseOom
PROPERTIES OperationsEnd ImplementsHeap
\* panic halts the machine
CHECK_DEADLOCK FALSE
