SPECIFICATION FairSpec
CONSTANTS
    SimulationDurationInSeconds = 2
    NumApplications = 2
    NumInterfaces = 1
    StrategyChoices = {"ROUND_ROBIN"}
    PacketSizeByte = 1
    DataBitRate <- MCDataBitRate
    DelayInMilliseconds <- MCDelay
    InterfaceErrorRate <- NoErrorRates
    Cost <- MCCost
    RequiredDelay <- MCRequiredDelay
    RequiredErrorRate <- MCRequiredErrorRate
    SynRetries = 1
    DataRetries = 0
    SndBufSize = 1
    SinWorkloads <- SteadyWorkload
    MaxNow = 0
PROPERTY SimulationStops
CHECK_DEADLOCK FALSE
