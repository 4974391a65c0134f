SPECIFICATION LibrarySpec
CONSTANTS
    BUFSIZE = 2
    Sizes = {0, 1}
    Modes <- MCModes
    MaxChars = 4
    MaxIn = 2
    Lengths = {3}
    HEADER = 1
    MINSIZE = 4
    USER_HEAP = 4
    MaxBreak = 28
    Requests = {2, 4, 9}
    W_TYPE_SIZE = 4
    Dividends <- MCDividends
    WORD = 256
    LOW = 16
    Numerals <- MCNumerals
    Bases = {0, 8, 10, 16}
    Directives <- MCDirectives
    Arrays <- MCArrays
    Memories <- MCMemories
    Calls <- MCCalls
    Years <- MCYears
    DayTimes = {0, 86399}
    Layouts <- MCLayouts
    Patterns <- MCPatterns
    Floats <- MCFloats
    Printings <- MCPrintings
    Additions <- MCAdditions
    InitialSizes = {0, 1, 3}
    MaxText = 3
INVARIANTS
    OutputInOrder
    InputInOrder
    BlocksApart
    DivisionIsRight
    NumbersAreRead
    PrintedAsAsked
    SortedAndFound
    TextsAreRight
    OptionsInOrder
    DatesAreRight
CHECK_DEADLOCK FALSE
