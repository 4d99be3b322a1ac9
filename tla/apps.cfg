SPECIFICATION FairSpec
CONSTANTS
    Kernels = {"ch2", "ch3", "ch4"}
    MAX_COUNT = 4
    MAX_APPS = 3
    MAX_PROCESSES = 3
    TIMER_INTERVAL = 2
INVARIANTS StopsWhenDone RunsItsOwnCode
PROPERTIES TakesTurns EveryAppRuns
CHECK_DEADLOCK FALSE
