SPECIFICATION FairSpec
CONSTANTS
    Builds <- WifiOnly
    Addresses = {a1, a2}
    NoAddress = NoAddress
    MaxEvents = 2
PROPERTIES
    WifiConnectReturns
CHECK_DEADLOCK FALSE
