\* init and two programs with frames for all their pages, so that frames are
\* given back and taken again.
SPECIFICATION Spec
CONSTANTS
    Procs = {1, 2, 3}
    Init1 = 1
    NFrames = 19
    OrphansAllowed = FALSE
    MaxStray = 2
CONSTRAINT NotStrayed
INVARIANTS IsolationHolds ListedOnce MarkedIsOwned
CHECK_DEADLOCK FALSE
