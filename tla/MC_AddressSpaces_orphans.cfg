\* init and three programs: parents may end first.
SPECIFICATION Spec
CONSTANTS
    Procs = {1, 2, 3, 4}
    Init1 = 1
    NFrames = 22
    OrphansAllowed = TRUE
    MaxStray = 2
CONSTRAINT NotStrayed
INVARIANT IsolationHolds
CHECK_DEADLOCK FALSE
