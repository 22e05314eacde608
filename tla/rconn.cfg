SPECIFICATION FairSpec
CONSTANTS
    Peer = {"p1"}
    max_backoff = 4
    probe_interval = 1
    AdmissionPeriod = 1
    QuestionPeriod = 1
    FailureCap = 1
    queue_limit = 1
    MaxQueue = 2
    Monitor = {"m1"}
    MAX_MONITORS = 1
    Unreliable = TRUE
    MaxConnects = 2
INVARIANTS
    QueueAccounting
PROPERTIES
    VconnMatchesState
    AdmissionIsEarned
    Reconnects
    SilentPeerIsGivenUp
CHECK_DEADLOCK FALSE
