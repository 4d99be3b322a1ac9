SPECIFICATION MCSpec
CONSTANTS
    PTE_PER_PAGE = 8
    MAX_PROCS = 3
    KERNEL_TEXT = 128
    HEAP_START = 131
    USER_STACK_TOP = 256
    USER_STACK_PAGES = 2
    MemoryEnds = {150, 152, 155, 158, 161, 165, 168, 172, 176, 181, 192}
    Leftovers <- MCLeftovers
    Programs <- MCPrograms
    StoreAddresses = {136, 2047}
    Stored <- MCStored
INVARIANTS PagesHaveOneUse CompleteUnlessFull
PROPERTY IsPrivateMemory
CHECK_DEADLOCK FALSE
