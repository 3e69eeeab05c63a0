\* A debug build for iOS, on a machine where everything is ready.
SPECIFICATION Spec
CONSTANTS
    Hosts <- MacHosts
    Lines <- IosLines
    Machines <- OneMachine
    Abis = {"arm64", "x64"}
    MainAbi = "arm64"
    Checkouts = {"CTranslate2", "sentencepiece"}
    MaxRuns = 1
    MaxEdits = 0
CHECK_DEADLOCK FALSE
INVARIANT HalvesAgree
