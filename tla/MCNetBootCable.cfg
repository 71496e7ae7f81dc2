SPECIFICATION FairSpec
CONSTANTS
    Builds <- CableNodes
    Addresses = {a1, a2}
    NoAddress = NoAddress
    MaxEvents = 2
PROPERTIES
    CableEndsBoot
CHECK_DEADLOCK FALSE
