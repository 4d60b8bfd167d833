CONSTANTS
    t1 = t1
    t2 = t2
    t3 = t3
    k1 = k1
    k2 = k2
    k3 = k3
    NoTensor = NoTensor
    Rank <- MCRank
    Key <- MCKey
    Tensor <- MCTensor
    Producer <- MCProducer
    Getters <- MCGetters
    MaxCount = 3
    MaxRound = 3
    MaxEpoch = 2
SPECIFICATION SessionSpec
INVARIANT ReleasedMeansFinished
INVARIANT FreshTensor
INVARIANT ResetIsolation
INVARIANT BarrierCountsExact
PROPERTY RefinesRendezvous
PROPERTY AllEpochsComplete
CHECK_DEADLOCK FALSE
