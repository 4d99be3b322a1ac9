SPECIFICATION Spec
CONSTANTS
    MAX_PROCS = 1
    MAX_THREADS = 2
    MAX_SYNC_OBJS = 1
    WAIT_QUEUE_SIZE = 2
    READY_QUEUE_SIZE = 2
    Workload = {"yield", "thread_create", "exec", "exit", "mutex", "semaphore", "unlock_any",
                "kill", "sigaction", "sigprocmask", "sigreturn", "unsupported", "bad_id", "relock", "exception"}
    ExitCodes = {0}
    Signals = {10, 18, 19}
    SemCounts = {0}
    MAX_COUNT = 0
INVARIANT UniquePlace
CHECK_DEADLOCK FALSE
