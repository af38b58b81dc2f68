\* Two APs, both start in time.
CONSTANTS
    N = 2
    Dead = {}
    Late = FALSE
SPECIFICATION Spec
INVARIANT GdtEntriesApart
\* CPUs end in their idle loop.
CHECK_DEADLOCK FALSE
