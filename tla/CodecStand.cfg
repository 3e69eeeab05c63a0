\* Two endpoints, two ticks, files of one chunk, two faults, four command lines.
SPECIFICATION CodecFairSpec
CONSTANTS
    L = L
    R = R
    Sides = {L, R}
    Peer <- Other
    Requests <- Lines
    Ticks = 2
    FileTick = 0
    Chunks = 1
    MaxFaults = 2
CHECK_DEADLOCK FALSE
INVARIANTS CodecGreenIsEarned DriverKeepsItsEngines
PROPERTIES StandEnds
