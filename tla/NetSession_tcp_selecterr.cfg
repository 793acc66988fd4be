CONSTANTS
    FdNums <- MC_FdNumsStd
    AddrTypeSets <- MC_TcpAddrTypeSets
    U64Values <- MC_U64Signal
    Build = {"TCP"}
    MaxConnects = 2
    MaxInterrupts = 2
    MaxForeign = 1
    SelectMayFail = TRUE
    TxBufSize = 2
    MaxQueued = 0
SPECIFICATION Spec
INVARIANTS
    InterruptConsumedOnce
