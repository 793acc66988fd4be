CONSTANTS
    FdNums <- MC_FdNumsStd
    AddrTypeSets <- MC_AddrTypeSets
    U64Values <- MC_U64Signal
    Build = {"ARDP"}
    MaxConnects = 2
    MaxInterrupts = 2
    MaxForeign = 0
    SelectMayFail = TRUE
    TxBufSize = 2
    MaxQueued = 0
SPECIFICATION Spec
INVARIANTS
    InterruptConsumedOnce
    ReachableCandidateConnects
