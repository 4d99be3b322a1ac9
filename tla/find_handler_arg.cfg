SPECIFICATION Spec
CONSTANTS
    MAX_PROCS = 3
    MAX_CHILDREN = 1
    Workload = {"yield", "fork", "kill", "sigaction", "sigreturn"}
    ExitCodes = {0}
    Signals = {10}
PROPERTY HandlerGetsSignalNumber
CHECK_DEADLOCK FALSE
