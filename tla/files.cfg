SPECIFICATION MCSpec
CONSTANTS
    BLOCK_CACHE_SIZE = 7
    PACK_CACHE_SIZE = 16
    TOTAL_BLOCKS = 22
    BLOCK_BITS = 10
    INODES_PER_BLOCK = 2
    INODE_BITMAP_BLOCKS = 1
    BLOCK_SZ = 2
    INODE_DIRECT_COUNT = 2
    MAX_PROCS = 2
    MAX_FD = 4
    NULL = NULL
    Names = {"a", "b"}
    ImageLists <- MCImageLists
    FlagSets <- MCFlagSets
    Lengths = {1, 5}
    MAX_CALLS = 5
    StalePointers = FALSE
INVARIANTS BlocksAccounted Durable AsPacked
PROPERTY IsFileStore
CHECK_DEADLOCK FALSE
