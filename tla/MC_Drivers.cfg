\* The terminal: two readers, a ring of four keys, texts on a screen of two lines of four.
\* The disk: two descriptors, reads that end inside a block and behind several.
SPECIFICATION DriversSpec
CONSTANTS
    Readers = {r1, r2}
    Chars = {"a", "b"}
    Size = 4
    COLUMNS = 4
    ROWS = 2
    TAB = 2
    MaxTabs = 6
    Written <- ShortTexts
    NULL = NULL
    SECTOR = 2
    KILO = 4
    NDIRECT = 2
    PARTS = 0
    Partitions = {0, 1}
    Width = 4096
    f1 = f1
    f2 = f2
    Fds = {f1, f2}
    Amounts = {11, 48}
    Sizes = {0, 25, 88, 90}
    LargeSizes = {88}
    Unclean = {25}
    Disks <- MCDisks
    Junks <- MCJunks
INVARIANTS
    LineAsEdited
    WokenByKey
    ReadsWhatIsStored
    ListsTheDirectory
PROPERTIES
    ReadReturns
    IsPaper
CHECK_DEADLOCK FALSE
