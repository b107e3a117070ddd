SPECIFICATION Spec
CONSTANTS
    Thread = {1, 2}
    NSectors = 4
    REDIRECTION_LEVEL = 2
    ON_INODE_DIR_SIZE = 1
    FANOUT = 2
    BLOCK_SECTOR_SIZE = 2
    Requests <- MCRequests
    MaxCalls = 3
INVARIANTS SectorsOwned ReadsWritten CountsMatch
PROPERTIES LengthsKept CallsEnd
