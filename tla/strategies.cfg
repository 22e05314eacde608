SPECIFICATION Spec
CONSTANTS
    SimulationDurationInSeconds = 3
    NumApplications = 2
    NumInterfaces = 2
    StrategyChoices = {"ROUND_ROBIN", "RANDOM", "LINEAR", "REACTIVE"}
    PacketSizeByte = 1
    DataBitRate <- MCDataBitRate
    DelayInMilliseconds <- MCDelay
    InterfaceErrorRate <- MCErrorRate
    Cost <- MCCost
    RequiredDelay <- MCRequiredDelay
    RequiredErrorRate <- MCRequiredErrorRate
    SynRetries = 1
    DataRetries = 0
    SndBufSize = 1
    SinWorkloads <- MCWorkloads
    MaxNow = 3
INVARIANTS
    TypeOK
    NoStrandedPackets
    PacketConservation
    GeneratedTraffic
    ReportIsComplete
    LossIsCorruption
PROPERTIES
    AllSentIsStable
CHECK_DEADLOCK FALSE
