\* Two APs that may take too long.
CONSTANTS
    N = 2
    Dead = {}
    Late = TRUE
SPECIFICATION Spec
INVARIANT StacksApart
\* CPUs end in their idle loop.
CHECK_DEADLOCK FALSE
