SPECIFICATION Spec
CONSTANTS
    MAX_PROCS = 1
    MAX_THREADS = 2
    MAX_SYNC_OBJS = 1
    WAIT_QUEUE_SIZE = 2
    READY_QUEUE_SIZE = 2
    Workload = {"thread_create", "mutex", "condvar"}
    ExitCodes = {0}
    Signals = {}
    SemCounts = {}
    MAX_COUNT = 0
PROPERTY CondvarWaitBlocks
CHECK_DEADLOCK FALSE
