SPECIFICATION Spec
CONSTANTS
    n1 = n1
    n2 = n2
    r1 = r1
    r2 = r2
    Nodes <- MCNodes
    RequestIds <- TwoRequests
    Accept = Accept
    NoNode = NoNode
    NoId = NoId
    Decisions <- AllDecisions
    MaxDecisions = 3
    MaxCrashes = 1
    MaxRefusals = 1
INVARIANTS TypeOK ConsentGiven AnswerIsOwed
CHECK_DEADLOCK FALSE
