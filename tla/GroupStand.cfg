\* Two participants, two nodes, files of one block.
SPECIFICATION Spec
CONSTANTS
    a = a
    b = b
    n1 = n1
    n2 = n2
    Members = {a, b}
    After <- Ring
    Blocks = 1
    MaxNoise = 1
    Nodes = {n1, n2}
    MaxFaults = 1
    MaxLeft = 1
    MaxRequests = 1
SYMMETRY Alike
CHECK_DEADLOCK FALSE
INVARIANTS CaptureIsTogether GreenIsEarned CleanupIsComplete QualifiedIsProven
