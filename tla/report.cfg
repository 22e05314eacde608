SPECIFICATION ReportSpec
CONSTANTS
    Interface = {1, 2}
    PacketCost <- MCPacketCost
    PacketRate <- MCPacketRate
    Strategies = 2
    Outcomes <- MCOutcomes
    MaxRuns = 2
INVARIANTS
    LostRowsHaveACause
    ColumnsBelongToApplications
CHECK_DEADLOCK FALSE
