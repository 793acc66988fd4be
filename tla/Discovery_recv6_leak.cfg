CONSTANTS
    FdNums <- MC_FdNums
    IfTables <- MC_IfTablesMultiHomed
    BoundPorts <- MC_BoundPorts
    Endian = "little"
    OldProto = TRUE
    TxFlagSets <- MC_TxFlagSets
    TxPackets <- MC_TxPackets
    Bytes <- MC_Bytes
    FailSteps = {"mDnsRecv"}
    SelectMayFail = TRUE
    CallerClearsFlags = TRUE
    MaxSweeps = 2
    MaxSends = 1
    MaxRecvs = 2
    MaxArrivals = 2
SPECIFICATION Spec
CHECK_DEADLOCK FALSE
INVARIANT
    DownReleasesAll
