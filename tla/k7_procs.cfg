SPECIFICATION LoopSpec
CONSTANTS
    MAX_PROCS = 4
    MAX_CHILDREN = 2
    Workload = {"yield", "fork", "exec", "exit", "waitpid", "exception", "unsupported", "no_memory"}
    ExitCodes = {0}
    Signals = {}
INVARIANTS TypeOK ReadyIsLive FamilyTree ReportedOnce
PROPERTIES NoExitLost EveryProcessRuns
CHECK_DEADLOCK FALSE
