SPECIFICATION FairSpec
CONSTANTS
    SimulationDurationInSeconds = 2
    NumApplications = 2
    NumInterfaces = 1
    StrategyChoices = {"RANDOM"}
    PacketSizeByte = 3
    DataBitRate <- MCDataBitRate
    DelayInMilliseconds <- MCDelay
    InterfaceErrorRate <- MCErrorRate
    Cost <- MCCost
    RequiredDelay <- MCRequiredDelay
    RequiredErrorRate <- MCRequiredErrorRate
    SynRetries = 2
    DataRetries = 1
    SndBufSize = 7
    SinWorkloads <- BusyWorkloads
    MaxNow = 0
INVARIANTS
    ReceivedInOrder
    NoWholePacketUnread
    TcpWindows
    FatalSendOnlyIfClosed
PROPERTIES
    EverythingIsDelivered
    DeadConnectionIsSilent
    DeliverySpec
CHECK_DEADLOCK FALSE
