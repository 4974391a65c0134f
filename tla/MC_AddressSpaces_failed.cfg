\* init and three programs, of which one may fail to load and be reaped.
SPECIFICATION Spec
CONSTANTS
    Procs = {1, 2, 3, 4}
    Init1 = 1
    NFrames = 22
    OrphansAllowed = FALSE
    MaxStray = 2
INVARIANT Isolation
CHECK_DEADLOCK FALSE
