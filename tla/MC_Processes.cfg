SPECIFICATION FairSpec
CONSTANTS
    MaxPid = 5
    Waiters = {2}
    Loads = {TRUE, FALSE}
INVARIANTS ListIsComplete NoDanglingPointer RunningHasMemory ExitIsNoticed LoadedFreedOnce
PROPERTIES RunnableRuns WaitReturns
CHECK_DEADLOCK FALSE
