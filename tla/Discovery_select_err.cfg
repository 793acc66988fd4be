CONSTANTS
    FdNums <- MC_FdNums
    IfTables <- MC_IfTables
    BoundPorts <- MC_BoundPorts
    Endian = "little"
    OldProto = TRUE
    TxFlagSets <- MC_TxFlagSets
    TxPackets <- MC_TxPackets
    Bytes <- MC_Bytes
    FailSteps = {"mDnsRecv", "mDns6", "udp"}
    SelectMayFail = TRUE
    CallerClearsFlags = TRUE
    MaxSweeps = 2
    MaxSends = 1
    MaxRecvs = 1
    MaxArrivals = 2
SPECIFICATION Spec
PROPERTIES
    RecvFromBounded
CHECK_DEADLOCK FALSE
