SPECIFICATION LiveSpec
CONSTANTS
    t1 = t1
    t2 = t2
    Transfers <- OneTransfer
    N = 2
    MaxReasm = 1
    MaxProgress = 1
    Drops = TRUE
    MayBeOld = FALSE
    MaxSends = 1
    MaxCrashes = 1
    MaxRestarts = 0
    MaxRefusals = 0
    MaxGate = 1
PROPERTIES GivenUpGoes
CHECK_DEADLOCK FALSE
