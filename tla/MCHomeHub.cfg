SPECIFICATION HomeFairSpec
CONSTANTS
    n1 = n1
    n2 = n2
    Nodes <- MCNodes
    Sensors <- MCSensors
    Mac <- MCMac
    MaxReports <- MCReports
    Measurable <- MCMeasurable
    MaxFaults <- MCFaults
    MaxRequests = 2
    NoQuery = NoQuery
    NoPayload = NoPayload
    NoMsg = NoMsg
    NoItem = NoItem
    NoNode = NoNode
    NoRequest = NoRequest
    NODE_ID_LEN = 10
    OPTION_VALUE_LEN = 12
    SIZE_MOD = 65536
    UI_WORK_POOL_SIZE = 2
    TEMP_MSG_QUEUE_SIZE = 2
    MAX_NODES = 2
    HISTORY_SIZE = 2
    MaxTroubles = 1
INVARIANTS
    TypeOK
    OwnReadings
    EndToEndOrder
PROPERTIES
    NothingRefused
    NodeViewRefined
    NodeAppears
CHECK_DEADLOCK FALSE
