SPECIFICATION FairSpec
CONSTANTS
    Builds <- MCBuilds
    Addresses = {a1, a2}
    NoAddress = NoAddress
    MaxEvents = 6
INVARIANTS
    TypeOK
    WakeUpsArrive
    NoStaleWakeUp
    NoEventBeforeCallbacks
    PanelShowsLease
PROPERTIES
    AddressEndsBoot
CHECK_DEADLOCK FALSE
