SPECIFICATION Spec
CONSTANTS
    Process = {1, 2}
    NSectors = 3
    Name = {"a", "d"}
    Paths <- MCPaths
    INITIAL_DIR_SIZE = 2
    MaxEntries = 3
    MAX_OPEN_FILES = 1
    MaxCalls <- MCCalls
INVARIANTS InodesAccounted TreeSound RemovedEmpty
