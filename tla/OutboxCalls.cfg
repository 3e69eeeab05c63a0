SPECIFICATION Spec
CONSTANTS
    a = a
    b = b
    x = x
    y = y
    NoPeer = NoPeer
    Peers = {a, b}
    Ids = {x, y}
    Dest <- DestEach
    Early = {x}
    Calls = {x}
    Perishable = {y}
    Fickle = {}
    Strays <- StrayAcks
    MaxPerPass = 1
    Workers = 1
    MaxChanged = 0
    MaxFast = 2
    LoadMayFail = FALSE
    Stalled = {}
    MaxSends = 2
    MaxFaults = 1
    MaxAcks = 1
    Lossy = FALSE
INVARIANTS TypeOK HeldIsStored SettledLeavesNoRow OneLegPerPeer NoUndercount
PROPERTIES NoRedriveOfRetired LadderStopsAtAck
