SPECIFICATION Spec
CONSTANTS
    a = a
    b = b
    x = x
    y = y
    NoPeer = NoPeer
    Peers = {a}
    Ids = {x, y}
    Dest <- DestOne
    Early = {x}
    Calls = {x}
    Perishable = {y}
    Fickle = {a}
    Strays = {}
    MaxPerPass = 2
    Workers = 1
    MaxChanged = 1
    MaxFast = 2
    LoadMayFail = TRUE
    Stalled = {}
    MaxSends = 2
    MaxFaults = 1
    MaxAcks = 1
    Lossy = FALSE
PROPERTIES NoRedriveOfRetired
