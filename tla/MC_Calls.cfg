\* Files: two Process objects, one of which makes calls.  Registers: three processes, each in
\* calls of its own.
SPECIFICATION SystemSpec
CONSTANTS
    p1 = p1
    p2 = p2
    p3 = p3
    l1 = l1
    NULL = NULL
    Procs = {p1, p2}
    Links = {l1}
    FirstProc = p1
    ProcNames = {"a/b"}
    Callers = {p1}
    MaxFile = 5
    FdArgs = {2, 4, 5}
    MaxCalls = 5
    Width = 4
    OpenPaths <- MCOpenPaths
    LinkPaths <- MCLinkPaths
    LinkTargets <- MCLinkTargets
    CwdPaths <- MCCwdPaths
    Programs = {p1, p2, p3}
VIEW SystemView
INVARIANTS
    EveryFileIsFound
    ListingMissesNone
    ResultsAreOwn
PROPERTY
    IsDirectory
    OwnBufferIsThird
CHECK_DEADLOCK FALSE
