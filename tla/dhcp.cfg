SPECIFICATION FairSpec
CONSTANTS
    Terms <- MCTerms
    Requested = {1}
    MIN_ACCEPTABLE_LEASE = 2
    LongLease = 6
    LeaseFuzz = 1
    GiveUp = 2
    InitDelays = {1}
    Retransmits = {2}
    Deadline = 3
    QuestionInterval = 4
    Word = 100
    MaxQueue = 1
    Longest = 7
    MaxInFlight = 1
    MaxCalls = 1
INVARIANT LeaseNotExceeded
PROPERTY MovesOn
