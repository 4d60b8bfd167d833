CONSTANTS
    WorldN = 2
    Rank <- MCRank
    Key <- MCKey
    Scenario <- OneReduceScatter
    Tensor = {}
    NoTensor = NoTensor
    MaxCount = 3
    MaxRound = 20
    MaxReset = 3
    None = None
SPECIFICATION CollSpec
INVARIANT InputsPreserved
CHECK_DEADLOCK FALSE
