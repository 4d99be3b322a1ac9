SPECIFICATION ExitingSpec
CONSTANTS
    MAX_PROCS = 3
    MAX_THREADS = 2
    MAX_SYNC_OBJS = 1
    WAIT_QUEUE_SIZE = 2
    READY_QUEUE_SIZE = 6
    Workload = {"yield", "thread_create", "fork", "exec", "exit", "waitpid", "no_memory"}
    ExitCodes = {3}
    Signals = {}
    SemCounts = {}
    MAX_COUNT = 1
INVARIANTS NoLostThread WakeIsWanted NoMissedExit ExitedProcessQuiet
           DeadProcessExited ReportedOnce TidSupply
PROPERTY WaiterIsWoken
CHECK_DEADLOCK FALSE
