CONSTANTS
    FdNums <- MC_FdNums
    AddrTypeSets = {}
    U64Values = {"Other"}
    Build = {"TCP"}
    MaxConnects = 0
    MaxInterrupts = 1
    MaxForeign = 0
    SelectMayFail = FALSE
    TxBufSize = 0
    MaxQueued = 0
    Cands <- MC_Cands
    Answering <- MC_Answering
    NoService <- MC_NoService
    CAP = 4
    MaxOps = 6
SPECIFICATION FindSpec
CHECK_DEADLOCK FALSE
INVARIANTS
    FindTypeOK
    ChoosesBestAnswering
    IdleReleasesAll
PROPERTIES
    Refines
    ShutdownEndsMain
