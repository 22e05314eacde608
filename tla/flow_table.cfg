SPECIFICATION Spec
CONSTANTS
    Field = {"a", "b"}
    Value = {0, 1}
    Matches <- Overflowing
    Crc <- OneBucket
    Buckets = {0, 1}
    TABLE_LINEAR_MAX_FLOWS = 2
    Priorities = {1, 2}
    ExactPriority = 3
    Port = {"p"}
    Timeouts <- IdleTimeout
    FlowsPerReply = 1
    MaxAdds = 3
    MaxDumps = 1
INVARIANT LookupIsBestMatch
PROPERTIES
    DeleteIsComplete
    DumpMissesNothing
CHECK_DEADLOCK FALSE
