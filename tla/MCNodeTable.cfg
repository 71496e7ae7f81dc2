SPECIFICATION TableSpec
CONSTANTS
    Ids = {empty, id1, id2}
    Temps = {zero, warm}
    Times <- MCTimes
    MAX_NODES = 2
    HISTORY_SIZE = 3
    ZeroTemp = zero
    EmptyId = empty
    NoNode = NoNode
INVARIANTS
    TypeOK
    SlotsWellFormed
    RingWellFormed
PROPERTIES
    SlotsArePermanent
    LogRefined
CHECK_DEADLOCK FALSE
