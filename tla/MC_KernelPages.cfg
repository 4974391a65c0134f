\* A page heap of five pages, a kmalloc heap of two, one user page, and five frames to share:
\* frames and virtual pages both run out.  A word is 0 or USER_LIM.
SPECIFICATION Spec
CONSTANTS
    RAM_MAXPAGE = 16
    PG_LIMIT = 9
    PAGESIZE = 8
    KERN_PAGES = 2
    KERN_PG_HEAP = 1
    KERN_HEAP = 6
    USER_OFFSET = 8
    USER_LIM = 9
    HeadWords = {0, 9}
INVARIANTS FrameExclusive FreeListOrdered ListedIffUnmapped
CHECK_DEADLOCK FALSE
