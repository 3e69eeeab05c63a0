SPECIFICATION LiveSpec
CONSTANTS
    a = a
    b = b
    x = x
    y = y
    NoPeer = NoPeer
    Peers = {a, b}
    Ids = {x, y}
    Dest <- DestEach
    Early = {}
    Calls = {}
    Perishable = {}
    Fickle = {}
    Strays = {}
    MaxPerPass = 1
    Workers = 1
    MaxChanged = 1
    MaxFast = 1
    LoadMayFail = FALSE
    Stalled = {a}
    MaxSends = 2
    MaxFaults = 1
    MaxAcks = 1
    Lossy = TRUE
PROPERTIES PassEnds HeldIsSettled
