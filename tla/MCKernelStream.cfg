SPECIFICATION StreamSpec
CONSTANTS
    c1 = c1
    c2 = c2
    c3 = c3
    Caller = {c1, c2, c3}
    MaxKernel = 2
    MaxSync = 2
    OnGpu = TRUE
INVARIANTS NoAbort
PROPERTIES SyncWaitsForAll SyncReturns DestroyJoins
