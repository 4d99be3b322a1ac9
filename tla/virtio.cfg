SPECIFICATION FairSpec
CONSTANTS
    VIRTQ_SIZE = 4
    INDEX_RANGE = 8
    Sectors = {0, 1}
    Asked = {0, 1, 2}
    Contents = {1, 2}
    NoRequest = NoRequest
INVARIANTS DescriptorsReturn IndicesAgree
PROPERTIES IsBlockDevice EveryRequestEnds
CHECK_DEADLOCK FALSE
