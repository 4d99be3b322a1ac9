SPECIFICATION Spec
CONSTANTS
    MAX_PROCS = 3
    MAX_CHILDREN = 1
    Workload = {"yield", "fork", "exec",
                "kill", "sigaction", "sigprocmask", "sigreturn"}
    ExitCodes = {0}
    Signals = {18, 19}
INVARIANTS ReadyIsLive HandlerContext
CHECK_DEADLOCK FALSE
