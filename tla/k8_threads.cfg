SPECIFICATION ReleasingSpec
CONSTANTS
    MAX_PROCS = 1
    MAX_THREADS = 4
    MAX_SYNC_OBJS = 1
    WAIT_QUEUE_SIZE = 4
    READY_QUEUE_SIZE = 4
    Workload = {"yield", "thread_create", "exit", "mutex", "semaphore", "condvar"}
    ExitCodes = {0}
    Signals = {}
    SemCounts = {0, 2}
    MAX_COUNT = 2
INVARIANTS SemaphoreLedger MutualExclusion NoLostThread
PROPERTIES MutexIsFifoLock SemaphoreIsFifo EveryReadyThreadRuns MutexWaiterGetsLock
CHECK_DEADLOCK FALSE
