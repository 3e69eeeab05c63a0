\* Five hosts, five machines, fourteen command lines, two ABIs.
SPECIFICATION Spec
CONSTANTS
    Hosts <- SomeHosts
    Lines <- SomeLines
    Machines <- SomeMachines
    Abis = {"arm64", "x64"}
    MainAbi = "arm64"
    Checkouts = {"CTranslate2", "sentencepiece"}
    MaxRuns = 2
    MaxEdits = 1
CHECK_DEADLOCK FALSE
INVARIANTS ShipsCurrentCode ReleaseIsWhole DesktopHalvesAgree KeyIsKept FetchIsReported
