CONSTANTS
    FdNums <- MC_FdNumsStd
    AddrTypeSets <- MC_AddrTypeSets
    U64Values <- MC_U64Signal
    Build = {"TCP", "ARDP"}
    MaxConnects = 2
    MaxInterrupts = 1
    MaxForeign = 1
    SelectMayFail = FALSE
    TxBufSize = 2
    MaxQueued = 3
SPECIFICATION Spec
INVARIANTS
    InterruptConsumedOnce
    InterruptHonoured
    OnePathLive
    TxStreamIntact
PROPERTIES
    SignalledWaitInterrupted
