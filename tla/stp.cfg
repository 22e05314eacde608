SPECIFICATION FairSpec
CONSTANTS
    Bridge = {"a", "b"}
    FirstId <- PairIds
    Id = {3}
    NPorts = 2
    Lan <- PairLan
    Costs = {1, 2}
    FirstCost = 1
    SECOND = 4
    LittleEndian = TRUE
    MaxChanges = 1
    MaxLosses = 1
INVARIANTS
    NoLoop
    NothingForgotten
PROPERTY Converges
