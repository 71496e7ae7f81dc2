SPECIFICATION FairSpec
CONSTANTS
    n1 = n1
    Nodes <- MCNodes
    Samples <- MCSamples
    MaxRequests = 2
    MaxFaults <- MCFaults
INVARIANTS
    TypeOK
    AnswerOnItsWay
    StopAndWait
    ReadingSurvivesText
    TornReadingIsNear
    BuffersReturned
PROPERTIES
    HubGoesForward
    KeepsReporting
CHECK_DEADLOCK FALSE
