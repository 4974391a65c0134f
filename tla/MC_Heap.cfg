\* Whole calls: three pages of eight bytes.  The sizes give the smallest chunk, chunks that
\* leave a rest just below and exactly the smallest, and a request for two pages at once.
\* Steps: three processes that may interrupt each other anywhere, five units, blocks of one
\* or two: the heap fills up.
SPECIFICATION HeapSpec
CONSTANTS
    HEADER = 1
    KMALLOC_MINSIZE = 3
    PAGESIZE = 8
    KERN_HEAP = 8
    KERN_HEAP_LIM = 32
    Sizes = {1, 4, 9}
    Procs = {p1, p2, p3}
    HeapSize = 5
    Requests = {1, 2}
    MaxHeld = 1
    Enabled = {p1, p2, p3}
CONSTRAINT NotOvertaken
INVARIANTS Tiling UsedIsHeld WalkIsSound
PROPERTY IsAllocator
CHECK_DEADLOCK FALSE
