CONSTANTS
    WorldN = 3
    Rank <- MCRank
    Key <- MCKey
    Scenario <- AllJobs
    Tensor = {}
    NoTensor = NoTensor
    MaxCount = 3
    MaxRound = 20
    MaxReset = 3
    None = None
SPECIFICATION CollSpec
INVARIANT ResultsCorrect
INVARIANT OneStore
INVARIANT OperandsNotAccumulated
PROPERTY CollectivesComplete
CHECK_DEADLOCK FALSE
