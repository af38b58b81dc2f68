\* The BSP and one AP.
CONSTANTS
    N = 1
    Dead = {}
    Late = FALSE
SPECIFICATION Spec
PROPERTY AllCpusRun
\* CPUs end in their idle loop.
CHECK_DEADLOCK FALSE
