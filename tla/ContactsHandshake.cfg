SPECIFICATION LiveSpec
CONSTANTS
    n1 = n1
    n2 = n2
    r1 = r1
    r2 = r2
    Nodes <- MCNodes
    RequestIds <- TwoRequests
    Accept = Accept
    NoNode = NoNode
    NoId = NoId
    Decisions <- AllDecisions
    MaxDecisions = 3
    MaxCrashes = 0
    MaxRefusals = 0
PROPERTIES SteadyHandshakeCompletes
CHECK_DEADLOCK FALSE
