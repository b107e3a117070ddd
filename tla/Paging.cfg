SPECIFICATION Spec
CONSTANTS
    Process = {1, 2}
    Page = {"mmap1", "stack2", "code2", "data2", "mmap2"}
    Owner <- MCOwner
    Kind <- MCKind
    NFrames = 1
    NSlots = 1
    Values = {0, 1}
    Zero = 0
    NoProc = NoProc
    NoPage = NoPage
    MaxCalls <- MCCalls
INVARIANTS FrameOwned SlotOwned ListSound DataKept
PROPERTY Returns
