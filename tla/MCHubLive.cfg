SPECIFICATION HubPrioritySpec
CONSTANTS
    a = a
    pre = pre
    zero = zero
    warm = warm
    welcome = welcome
    temperature = temperature
    NoQuery = NoQuery
    NoPayload = NoPayload
    NoMsg = NoMsg
    NoItem = NoItem
    NoNode = NoNode
    NoCard = NoCard
    Blank = Blank
    Chars <- MCChars
    Texts <- MCTexts
    Temps <- MCTemps
    AtoF <- MCAtoF
    NODE_ID_LEN = 2
    OPTION_VALUE_LEN = 4
    SIZE_MOD = 65536
    Requests <- TwoNodes
    UI_WORK_POOL_SIZE = 1
    TEMP_MSG_QUEUE_SIZE = 2
    MaxTime = 0
    MAX_NODES = 1
    HISTORY_SIZE = 2
    ZeroTemp = zero
    STALE_DATA_THRESHOLD_MS = 1
    MS_PER_SECOND = 2
    Tabs <- MCTabs
    TAB_WELCOME = welcome
    TAB_TEMPERATURE = temperature
PROPERTIES
    UiKeepsRunning
