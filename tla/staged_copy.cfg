SPECIFICATION CopySpec
CONSTANTS
    Chunks = 2
    Polls = 6
CHECK_DEADLOCK FALSE
INVARIANT CopiesWhole
