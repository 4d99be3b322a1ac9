SPECIFICATION Spec
CONSTANTS
    Tids = {t1, t2, t3}
    TID_INVALID = none
    WAIT_QUEUE_SIZE = 3
PROPERTY ImplementsFifo
