SPECIFICATION PathFairSpec
CONSTANTS
    a = a
    warm = warm
    NoQuery = NoQuery
    NoPayload = NoPayload
    NoMsg = NoMsg
    NoItem = NoItem
    Chars <- MCChars
    Texts <- MCTexts
    Temps <- OneTemp
    AtoF <- MCAtoF
    NODE_ID_LEN = 2
    OPTION_VALUE_LEN = 4
    SIZE_MOD = 65536
    Requests <- MCRequests
    UI_WORK_POOL_SIZE = 2
    TEMP_MSG_QUEUE_SIZE = 2
    MaxTime = 1
INVARIANTS
    TypeOK
    PoolConsistent
    InitializedBeforeUse
    WriterOwnsItem
    WrittenBeforeRead
    TimestampsOrdered
PROPERTIES
    DataStableWhileBusy
    FifoRefined
    ItemsComeBack
CHECK_DEADLOCK FALSE
