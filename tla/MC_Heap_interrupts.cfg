\* One process, the reader, is in Process::read and calls kmalloc and kfree
\* with interrupts enabled; those of the other one are system calls.
SPECIFICATION RaceSpec
CONSTANTS
    Procs = {reader, p1}
    HeapSize = 5
    Requests = {1, 2}
    MaxHeld = 2
    Enabled = {reader}
INVARIANT BlocksDisjoint
