SPECIFICATION LiveSpec
CONSTANTS
    t1 = t1
    t2 = t2
    Transfers <- OneTransfer
    N = 2
    MaxReasm = 1
    MaxProgress = 1
    Drops = TRUE
    MayBeOld = TRUE
    MaxSends = 1
    MaxCrashes = 1
    MaxRestarts = 1
    MaxRefusals = 1
    MaxGate = 1
INVARIANTS TypeOK RetiredIsApplied
PROPERTIES WholeIsRetired
CHECK_DEADLOCK FALSE
